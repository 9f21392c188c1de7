SPECIFICATION Spec
CONSTANTS
    alice = alice  bob = bob  carol = carol
    rep1 = rep1  rep2 = rep2  local = local  remote = remote
    Voter = {alice, bob}
    Guardians = {alice}
    Avatar = avatar
    NoAddress = zero
    BadGuardian = alice
    Reps = {rep1, rep2}
    InitRep = rep1
    Snapshots <- TwoReps
    Chains = {local}
    ThisChain = local
    SignedBallots <- NoBallots
    InitParams <- OneProposer
    ParamChanges <- Changes
    InitGuardian = alice
    InitRelease = 0
    ActionCounts = {0, 2, 3}
    MaxProposals = 2
    MaxProposalBlock = 4
    MaxBlock = 6
    MaxTime = 6
    MaxTimeStep = 1
INVARIANTS OneLiveProposal
PROPERTIES OutcomeIsFrozen FollowsLifecycle

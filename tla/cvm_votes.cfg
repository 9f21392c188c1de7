SPECIFICATION FairSpec
CONSTANTS
    alice = alice  bob = bob  carol = carol
    rep1 = rep1  rep2 = rep2  local = local  remote = remote
    Voter = {alice, bob, carol}
    Guardians = {alice}
    Avatar = avatar
    NoAddress = zero
    BadGuardian = nobody
    Reps = {rep1}
    InitRep = rep1
    Snapshots <- SteadySnapshots
    Chains = {local, remote}
    ThisChain = local
    SignedBallots <- CarolsBallots
    InitParams <- ThreeVoters
    ParamChanges <- NoChanges
    InitGuardian = alice
    InitRelease = 2
    ActionCounts = {1}
    MaxProposals = 1
    MaxProposalBlock = 2
    MaxBlock = 14
    MaxTime = 14
    MaxTimeStep = 2
INVARIANTS TallyMatchesBallots PassedAfterTimelock MajorityIsFinal
PROPERTIES VotersHaveTime VotingEnds

SPECIFICATION Spec
CONSTANTS
    ann = ann  ben = ben
    airdrop = airdrop  fuse1 = fuse1  fuse2 = fuse2
    User = {ann, ben}
    NoAddress = zero
    Root = rootState
    Chain = {fuse}
    Hash = {airdrop, fuse1, fuse2}
    Leaves <- SmallLeaves
    Total <- SmallTotals
    Published <- FuseStates
    InitPublished <- NoStates
    NoState = none
    SignedDelegations <- Signed
    Amounts = {}
    Targets <- AnnToBen
    MaxRep = 7
    MaxSupply = 2
    MaxStates <- ManyStates
    MaxBlock = 2
INVARIANTS VotesAlwaysReadable

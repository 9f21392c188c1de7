SPECIFICATION MCSpec
CONSTANTS
    ann = ann  ben = ben
    airdrop = airdrop  fuse1 = fuse1  fuse2 = fuse2
    User = {ann, ben}
    NoAddress = zero
    Root = rootState
    Chain = {fuse}
    Hash = {airdrop, fuse1, fuse2}
    Leaves <- SmallLeaves
    Total <- SmallTotals
    Published <- LaterStates
    InitPublished <- FirstStates
    NoState = none
    SignedDelegations <- Signed
    Amounts = {1}
    Targets <- AnnToBen
    MaxRep = 7
    MaxSupply = 2
    MaxStates <- TwoStates
    MaxBlock = 2
    Long = 7
    Histories <- AllHistories
    Blocks <- AllBlocks
INVARIANTS ReturnsValueAt VotesAreDelegatedBalances SupplyIsBalances
PROPERTIES PastIsSettled LocalPastIsSettled

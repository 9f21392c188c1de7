SPECIFICATION MCSpec
CONSTANTS
    etoro = etoro  foundation = foundation  shop = shop  shopNew = shopNew
    ann = ann  bob = bob  farm = farm  cal = cal  helper = helper
    Accounts = {etoro, foundation, shop, shopNew, ann, bob, farm}
    ETORO = {etoro}
    EtoroOfficial = etoro
    FoundationOfficial = foundation
    TEAM = {ann, bob}
    shoppingio = shop
    shoppingioNew = shopNew
    CLAIMER_REP_ALLOCATION = 4
    HOLDER_REP_ALLOCATION = 2
    STAKER_REP_ALLOCATION = 2
    foundationEtoroRepShare = 1
    Blocks = {5, 6}
    Snapshots = {5}
    MaxRuns = 2
    step = 2
    FirstBlock = 0
    OldUBIEnd = 3
    NewUBIStart = 2
    ClaimLogs <- MCClaimLogs
    TransferLogs <- MCTransferLogs
    FuseBalance <- MCFuseBalance
    EthBalance <- MCEthBalance
    EthHolders <- MCEthHolders
    UniswapShare <- MCUniswapShare
    Pairs = {"pair", "other"}
    FuseswapShare <- MCFuseswapShare
    usdcgdYieldFarming = farm
    StakedLogs <- MCStakedLogs
    FarmStake <- MCFarmStake
    StakeLogs <- MCStakeLogs
    SystemContracts = {farm}
    Users = {ann, bob, cal}
    swaphelper = helper
    Transactions <- MCTransactions
    MaxBlock = 6
    span = 2
    group = 2
    START_BLOCK = 1
    ETH_SNAPSHOT_BLOCK = 5
    reimburseBlock = 3
    airdropPrev <- MCAirdropPrev
    EPOCH = 6
    Start = 0
    Now = 12
    PAGE = 1
    MAXSKIP = 1
    Network = {"fuse", "mainnet"}
    memberSince <- MCMemberSince
    activeVotes <- MCActiveVotes
INVARIANTS FilesAreWhole FarmGetsNothing ProofsMatchRoot
           PurchasesAreCredited RecoveredIsOwed NoHolderMissed
PROPERTIES EveryRepIsHanded
CHECK_DEADLOCK FALSE

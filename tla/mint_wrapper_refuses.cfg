SPECIFICATION Spec
CONSTANTS
    bridge = bridge  rewarder = rewarder
    Minter = {bridge, rewarder}
    Settings <- BridgeAndRewarder
    NewCaps <- NoNewCaps
    Frequencies = {2}
    PausedRoles = {"BURN"}
    Amounts = {1, 2}
    InitSupply = 2
    InitFrequency = 1
    DayLength = 1
    MaxTime = 2
    MaxPerDay = 2
    MaxRewards = 3
INVARIANTS RewardsAreServed

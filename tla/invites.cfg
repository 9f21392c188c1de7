SPECIFICATION InvitesSpec
CONSTANTS
    ann = ann  ben = ben  cal = cal
    hers = hers  gift = gift
    Accounts = {ann, ben, cal}
    This = invites
    Nobody = Nobody
    Codes = {NoCode, hers, gift}
    NoCode = NoCode
    CampaignCodes = {gift}
    Address <- Addresses
    InitLevels <- TwoLevels
    LevelChanges <- HigherBounty
    Minimums = {1}
    InitBalance = 6
    Times = {2}
    MaxDecisions = 1
    MaxPending = 3
SYMMETRY Alike
CHECK_DEADLOCK FALSE
INVARIANTS PendingIsExact BountiesCountOnce

CONSTANTS
  MaxRuns = 3
  MaxCrashes = 1
  MaxFailures = 1
  People <- EveryChain
  Own = 2
  Stolen = 1
  XdcShare = 4
  MaxMoves = 2
  MaxTries = 2
  MaxDeaths = 1
SPECIFICATION MCSpec
INVARIANTS FinishedIsWired DaoIsGoverned RunEndsWhole
INVARIANTS BurnIsCurrent NothingStaysLocked BridgeIsBacked RatioFitsSupply
PROPERTIES EveryScriptEnds
CHECK_DEADLOCK FALSE

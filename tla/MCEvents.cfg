SPECIFICATION EvFairSpec
CONSTANTS
  f1 = f1
  f2 = f2
  e1 = e1
  e2 = e2
  Files <- MCTwoFiles
  EventBits <- MCEventBits
  Masks <- MCMasks
  WaitForAll <- MCAnyOrAll
  SMP = FALSE
  Uses <- EveryUse
  PacedMask <- MCPacedMask
  MaxOpen <- MCMaxOpen
  MaxRaised <- MCMaxRaised
  MaxCut = 1
CHECK_DEADLOCK FALSE
INVARIANTS ListIsOpenFiles NoSleepOnReady ReadReports PacedLosesNothing
PROPERTY AnyReturns

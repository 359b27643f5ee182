SPECIFICATION EvSpec
CONSTANTS
  f1 = f1
  f2 = f2
  e1 = e1
  e2 = e2
  Files <- MCOneFile
  EventBits <- MCEventBits
  Masks <- MCMasks
  WaitForAll <- MCAnyOrAll
  SMP = FALSE
  Uses <- MCOnlyAny
  PacedMask <- MCPacedMask
  MaxOpen <- MCMaxOpen
  MaxRaised <- MCClearRaised
  MaxCut = 1
INVARIANT NoEventLost

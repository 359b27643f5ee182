SPECIFICATION DevSpec
CONSTANTS
  p1 = p1
  p2 = p2
  Procs <- MCProcs
  Modes <- MCAllModes
  NumDevices = 2
  NumInterfaces = 1
  RxPoolSize = 28
  TxPoolSize = 28
  Page = 4
  UlongMod = 65536
  DatFifo = 8
  OobFifo = 4
  IsJumboPacketSupported = FALSE
  Sizes <- MCSizes
  Tuned <- MCTuned
  Cuttable <- MCTuned
  MaxCount = 2
SYMMETRY MCSymmetry
INVARIANTS OpenCountExact Reopenable ClosedMeansStopped MaxSizeFitsPacket PoolsSplit
CHECK_DEADLOCK FALSE

SPECIFICATION DevSpec
CONSTANTS
  p1 = p1
  p2 = p2
  Procs <- MCProcs
  Modes <- MCAllModes
  NumDevices = 2
  NumInterfaces = 1
  RxPoolSize = 32
  TxPoolSize = 32
  Page = 4
  UlongMod = 65536
  DatFifo = 8
  OobFifo = 4
  IsJumboPacketSupported = FALSE
  Sizes <- MCNone
  Tuned <- MCTuned
  Cuttable <- MCNone
  MaxCount = 3
SYMMETRY MCSymmetry
INVARIANT ExclusiveWriter

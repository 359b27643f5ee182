SPECIFICATION RxFairSpec
CONSTANTS
  Size = 48
  EntrySize = 4
  EntryPage = 16
  WordAlign = 4
  UlongMod = 65536
  OpenSize = 8
  PacketSizes <- MCPacketSizes
  MaxPackets = 3
  Descs <- MCDescs
  AllocMayFail = FALSE
  BehindMayMatch = FALSE
  SMP = FALSE
  Overlap = FALSE
  Ioctls <- MCAllIoctls
  MaxPkts = 4
  MaxForeign = 1
INVARIANTS NoBug BufOwnership
PROPERTIES RxIsChannel StopReturns RxDelivered

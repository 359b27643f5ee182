SPECIFICATION RxSpec
CONSTANTS
  Size = 48
  EntrySize = 4
  EntryPage = 16
  WordAlign = 4
  UlongMod = 65536
  OpenSize = 8
  PacketSizes <- MCPacketSizes
  MaxPackets = 2
  Descs <- MCDescs
  AllocMayFail = FALSE
  BehindMayMatch = FALSE
  SMP = TRUE
  Overlap = FALSE
  Ioctls <- MCAllIoctls
  MaxPkts = 3
  MaxForeign = 0
INVARIANT NoBug

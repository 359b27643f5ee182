SPECIFICATION TxFairSpec
CONSTANTS
  Size = 24
  EntrySize = 4
  EntryPage = 8
  WordAlign = 4
  UlongMod = 65536
  OpenSize = 8
  PacketSizes <- MCPacketSizes
  MaxPackets = 2
  Descs <- MCDescs
  AllocMayFail = FALSE
  BehindMayMatch = FALSE
  SMPs <- MCSMPs
  w1 = w1
  w2 = w2
  Writers <- MCWriters
  FifoDepth = 1
  Ioctls <- MCIoctls
  MaxPkts = 2
  MaxForeign = 1
INVARIANTS TxOwnership TxKicked
PROPERTIES TxIsChannel TxSent TxBufsReturn

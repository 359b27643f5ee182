SPECIFICATION WaitSpec
CONSTANTS
  Size = 48
  EntrySize = 4
  EntryPage = 16
  WordAlign = 4
  UlongMod = 65536
  OpenSize = 6
  PacketSizes <- MCPacketSizes
  MaxPackets = 3
  Descs <- MCDescs
  AllocMayFail = TRUE
  BehindMayMatch = TRUE
  t1 = t1
  t2 = t2
  t3 = t3
  Threads <- MCThreads
  Flushers <- MCFlushers
SYMMETRY ThreadSymmetry
INVARIANTS ListPartition PacketsDisjoint NoLostWakeup OneHolder
CHECK_DEADLOCK FALSE

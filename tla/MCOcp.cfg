CONSTANTS
  Files = {f1, f2}
  Threads = {t1, t2}
  Majors = {1}
  NumWindows = 2
  Windows <- McWindows
  Page = 4
  Word = 2
  UintMod = 32
  Counts = {3, 6}
  Offsets <- McOffsets
  MaxPos = 4
  MaxCut = 1
  MaxLoads = 2
SYMMETRY McSymmetry
SPECIFICATION OcpSpec
INVARIANTS AccessInWindow PosAligned CountExact OnceBoundSafe CleanupFrees
CHECK_DEADLOCK FALSE

----------------------------- MODULE MCPoolWait -----------------------------
(* Three threads and three packets, so that threads compete for the last   *)
(* buffer while another returns one.                                       *)
EXTENDS PoolWait

CONSTANTS t1, t2, t3
MCThreads == {t1, t2, t3}
MCDescs == {[len |-> 1, ooblen |-> 0, flags |-> 0]}
MCPacketSizes == {0, 24}
MCFlushers == {t1}
ThreadSymmetry == Permutations(MCThreads \ MCFlushers)
=============================================================================

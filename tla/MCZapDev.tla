------------------------------ MODULE MCZapDev ------------------------------
(* Processes are interchangeable.  Two interfaces have device nodes,       *)
(* of which the FPGA has one.  With a header of 4 the size 12 is allowed;  *)
(* 28 is more than the pool takes.  The FIFOs and the halves are as the    *)
(* proofs need them.                                                       *)
EXTENDS ZapDev, TLC

CONSTANTS p1, p2
MCProcs == {p1, p2}
MCSymmetry == Permutations(Procs)
MCAllModes == {"ro", "rw"}
MCNone == {}
MCSizes == {4, 12, 28}
MCTuned == {<<0, "tx">>}

ASSUME MCFits == FifosFit /\ HalvesFit
=============================================================================

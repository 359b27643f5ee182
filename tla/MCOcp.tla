------------------------------- MODULE MCOcp -------------------------------
(* Two adjacent windows of a page, words of 2 bytes, pages of 4; two       *)
(* files, each of which both threads may use.                              *)
EXTENDS Ocp, TLC

McWindows == 0 :> [phys |-> 4, size |-> 4] @@ 1 :> [phys |-> 8, size |-> 4]
McOffsets == {-2, 1, 2}
McSymmetry == Permutations(Files) \cup Permutations(Threads)
=============================================================================

------------------------------ MODULE MCEvents ------------------------------
(* Two files and two events, any masks; a paced thread asks for both.      *)
EXTENDS Events

CONSTANTS f1, f2, e1, e2
MCOneFile == {f1}
MCTwoFiles == {f1, f2}
MCEventBits == {e1, e2}
MCMasks == {{e1}, {e2}, {e1, e2}}
MCPacedMask == EventBits
MCAnyOrAll == {FALSE, TRUE}
MCOnlyAny == {"any"}
MCMaxOpen == [u \in EveryUse |-> IF u = "shared" THEN 1 ELSE 2]
MCMaxRaised == [u \in EveryUse |-> IF u = "paced" THEN 4 ELSE 2]
MCClearRaised == [u \in EveryUse |-> 3]
=============================================================================

------------------------------ MODULE Channel ------------------------------
(***************************************************************************)
(* What a ZAP interface promises the two ends of one direction, whichever  *)
(* buffers, lists, registers and threads carry the packets: a FIFO of      *)
(* numbered packets.  While it is up every packet put in comes out, once   *)
(* and in order; while it is being stopped or is off, the oldest and the   *)
(* newest of those under way may be dropped, and the rest keep their       *)
(* order.  ZapRx and ZapTx implement it.                                   *)
(***************************************************************************)
EXTENDS Naturals, Sequences

VARIABLES
  up,       \* the direction runs and nobody is changing it
  put,      \* packets put in so far
  queue,    \* the packets under way, oldest first
  got       \* the last packet that came out

cvars == <<up, put, queue, got>>

Init == up = FALSE /\ put = 0 /\ queue = <<>> /\ got = 0

Switch ==
  /\ up' = ~ up
  /\ UNCHANGED <<put, queue, got>>

Put ==
  /\ put' = put + 1
  /\ queue' = Append(queue, put + 1)
  /\ UNCHANGED <<up, got>>

Get ==
  /\ queue # <<>>
  /\ got' = Head(queue)
  /\ queue' = Tail(queue)
  /\ UNCHANGED <<up, put>>

Drop ==
  /\ ~ up
  /\ \E j \in 1 .. Len(queue) + 1, k \in 0 .. Len(queue) :
       queue' = SubSeq(queue, j, k)
  /\ UNCHANGED <<up, put, got>>

Next == Switch \/ Put \/ Get \/ Drop

Spec == Init /\ [][Next]_cvars
=============================================================================

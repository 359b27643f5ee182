----------------------------- MODULE ZapRxProofs -----------------------------
(***************************************************************************)
(* Proofs about the receive path (ZapRx), for every pool, every sequence   *)
(* of positive packet sizes and every sequence of ioctls on one CPU: as    *)
(* long as the reader has given back only what zap_read gave it, the       *)
(* BUG_ON in dma_isr has not fired and every buffer is in one hand.        *)
(***************************************************************************)
EXTENDS ZapRx, PoolProofs

(* The buffers of the filled ones, as a list.                              *)
LEMMA BufsAre ==
  ASSUME NEW d \in Seq([pbuf : Int, pkt : Nat])
  PROVE  /\ Bufs(d) \in Seq(Int) /\ Len(Bufs(d)) = Len(d)
         /\ \A k \in 1 .. Len(d) : Bufs(d)[k] = d[k].pbuf /\ d[k].pbuf \in Int
<1> DEFINE R == [pbuf : Int, pkt : Nat]
<1>1. /\ Len(d) \in Nat /\ DOMAIN d = 1 .. Len(d)
      /\ \A k \in 1 .. Len(d) : d[k] \in R
  BY LenProperties, ElementOfSeq, Zenon
<1>2. \A k \in 1 .. Len(d) : d[k].pbuf \in Int
  BY <1>1
<1>3. Bufs(d) = [k \in 1 .. Len(d) |-> d[k].pbuf]
  BY <1>1 DEF Bufs
<1> HIDE DEF R
<1> QED
  BY <1>1, <1>2, <1>3

LEMMA BufsAppend ==
  ASSUME NEW d \in Seq([pbuf : Int, pkt : Nat]),
         NEW r \in [pbuf : Int, pkt : Nat]
  PROVE  Bufs(Append(d, r)) = Append(Bufs(d), r.pbuf)
<1> DEFINE R == [pbuf : Int, pkt : Nat]
           a == Append(d, r)
           b == Append(Bufs(d), r.pbuf)
<1>1. d \in Seq(R) /\ r \in R /\ Len(d) \in Nat
  BY LenProperties
<1>2. r.pbuf \in Int
  OBVIOUS
<1>3. /\ Bufs(d) \in Seq(Int) /\ Len(Bufs(d)) = Len(d)
      /\ \A k \in 1 .. Len(d) : Bufs(d)[k] = d[k].pbuf
  BY BufsAre
<1> HIDE DEF R
<1>4. /\ a \in Seq(R) /\ Len(a) = Len(d) + 1
      /\ \A k \in 1 .. Len(d) : a[k] = d[k]
      /\ a[Len(d) + 1] = r
  BY <1>1, AppendProperties
<1>5. /\ b \in Seq(Int) /\ Len(b) = Len(d) + 1
      /\ \A k \in 1 .. Len(d) : b[k] = d[k].pbuf
      /\ b[Len(d) + 1] = r.pbuf
  BY <1>1, <1>2, <1>3, AppendProperties
<1> HIDE DEF a, b
<1>6. /\ Bufs(a) \in Seq(Int) /\ Len(Bufs(a)) = Len(a)
      /\ \A k \in 1 .. Len(a) : Bufs(a)[k] = a[k].pbuf
  BY <1>4, BufsAre DEF R
<1>7. ASSUME NEW k \in 1 .. Len(d) + 1 PROVE Bufs(a)[k] = b[k]
  <2>1. k \in 1 .. Len(a) /\ (k \in 1 .. Len(d) \/ k = Len(d) + 1)
    BY <1>1, <1>4
  <2>2. Bufs(a)[k] = a[k].pbuf
    BY <1>6, <2>1
  <2> QED
    BY <1>4, <1>5, <2>1, <2>2, Zenon
<1>8. Bufs(a) = b
  BY <1>4, <1>5, <1>6, <1>7, SeqEqual
<1> QED
  BY <1>8 DEF a, b

LEMMA BufsTail ==
  ASSUME NEW d \in Seq([pbuf : Int, pkt : Nat]), d # <<>>
  PROVE  /\ Head(d) \in [pbuf : Int, pkt : Nat]
         /\ Tail(d) \in Seq([pbuf : Int, pkt : Nat])
         /\ Bufs(d) # <<>> /\ Head(Bufs(d)) = Head(d).pbuf
         /\ Bufs(Tail(d)) = Tail(Bufs(d))
<1> DEFINE R == [pbuf : Int, pkt : Nat]
           t == Tail(d)
<1>1. d \in Seq(R) /\ Len(d) \in Nat
  BY LenProperties
<1>2. /\ Bufs(d) \in Seq(Int) /\ Len(Bufs(d)) = Len(d)
      /\ \A k \in 1 .. Len(d) : Bufs(d)[k] = d[k].pbuf
  BY BufsAre
<1> HIDE DEF R
<1>3. /\ Len(d) >= 1 /\ Head(d) = d[1] /\ Head(d) \in R
      /\ t \in Seq(R) /\ Len(t) = Len(d) - 1
      /\ \A k \in 1 .. Len(t) : t[k] = d[k + 1]
  BY <1>1, HeadTailProperties, EmptySeq
<1>4. Bufs(d) # <<>>
  BY <1>2, <1>3
<1>5. /\ Head(Bufs(d)) = Head(d).pbuf
      /\ Tail(Bufs(d)) \in Seq(Int) /\ Len(Tail(Bufs(d))) = Len(d) - 1
      /\ \A k \in 1 .. Len(d) - 1 : Tail(Bufs(d))[k] = Bufs(d)[k + 1]
  BY <1>1, <1>2, <1>3, <1>4, HeadTailProperties
<1>6. /\ Bufs(t) \in Seq(Int) /\ Len(Bufs(t)) = Len(t)
      /\ \A k \in 1 .. Len(t) : Bufs(t)[k] = t[k].pbuf
  BY <1>3, BufsAre DEF R
<1> HIDE DEF t
<1>7. ASSUME NEW k \in 1 .. Len(d) - 1 PROVE Bufs(t)[k] = Tail(Bufs(d))[k]
  <2>1. k \in 1 .. Len(t) /\ k + 1 \in 1 .. Len(d)
    BY <1>1, <1>3
  <2>2. Bufs(t)[k] = t[k].pbuf /\ t[k] = d[k + 1]
    BY <1>3, <1>6, <2>1, Zenon
  <2>3. Tail(Bufs(d))[k] = Bufs(d)[k + 1] /\ Bufs(d)[k + 1] = d[k + 1].pbuf
    BY <1>2, <1>5, <2>1, Zenon
  <2> QED
    BY <2>2, <2>3, Zenon
<1>8. Bufs(t) = Tail(Bufs(d))
  BY <1>3, <1>5, <1>6, <1>7, SeqEqual
<1> QED
  BY <1>3, <1>4, <1>5, <1>8 DEF R, t

(* The next step of the ioctl.                                             *)
LEMMA ThenIs ==
  ASSUME NEW P, NEW C, ioc \in [pc : P, cmd : C], NEW l \in P, Then(l)
  PROVE  IF l = "idle" THEN ioc' = Idle
         ELSE ioc' \in [pc : P, cmd : C] /\ ioc'.pc = l /\ ioc'.cmd = ioc.cmd
<1>1. CASE l = "idle"
  BY <1>1, Zenon DEF Then
<1>2. CASE l # "idle"
  <2>1. ioc' = [ioc EXCEPT !.pc = l]
    BY <1>2, Zenon DEF Then
  <2>2. ioc' \in [pc : P, cmd : C] /\ ioc'.pc = l /\ ioc'.cmd = ioc.cmd
    BY <2>1, Zenon
  <2> QED
    BY <1>2, <2>2
<1> QED
  BY <1>1, <1>2

-----------------------------------------------------------------------------
LEMMA RxStart ==
  ASSUME SizesPositive, RxInit
  PROVE  RxInv
<1>1. PoolInv /\ ~ stuck /\ packet_size > 0 /\ usedlist = {}
  BY PoolStart DEF RxInit, PoolInit, SizesPositive
<1>2. UsedBufs = {}
  BY <1>1 DEF UsedBufs
<1>3. /\ posted = <<>> /\ done = <<>> /\ isr = IsrIdle /\ npkts = 0
      /\ wq = "idle" /\ ioc = Idle /\ user = {} /\ rxen = FALSE /\ bug = FALSE
  BY DEF RxInit
<1>4. Bufs(done) = <<>> /\ On(posted) = {} /\ On(Bufs(done)) = {}
      /\ NoRepeats(posted) /\ NoRepeats(Bufs(done))
  BY <1>3 DEF Bufs, On, NoRepeats
<1>5. FpgaBufs = {} /\ IsrBuf = {} /\ WqBuf = {}
  BY <1>3, <1>4 DEF FpgaBufs, IsrBuf, WqBuf
<1>6. RxHands
  BY <1>2, <1>3, <1>4, <1>5 DEF RxHands
<1>7. RxShape
  <2>1. /\ Idle \in [pc : {"idle", "clr_rxrdy", "rx_off", "rxen_off"}
                            \cup Stopped \cup Starting,
                     cmd : {"none", "on", "off", "size"}]
        /\ Idle.pc = "idle"
    BY DEF Idle
  <2>2. IsrIdle \in [pbuf : Int, pkt : Nat]
    BY DEF IsrIdle, NoBuf
  <2>3. posted \in Seq(Int) /\ done \in Seq([pbuf : Int, pkt : Nat])
    BY <1>3
  <2> QED
    BY <1>3, <2>1, <2>2, <2>3 DEF RxShape
<1>8. RxPhases
  BY <1>3 DEF RxPhases, Stopped, Starting, Idle
<1> QED
  BY <1>1, <1>3, <1>6, <1>7, <1>8 DEF RxInv

(* The FPGA fills a buffer.                                                *)
LEMMA RxReceive ==
  ASSUME RxInv, FpgaReceive
  PROVE  RxInv'
<1> DEFINE h == Head(posted)
           r == [pbuf |-> h, pkt |-> npkts + 1]
<1>1. /\ rxen /\ posted # <<>> /\ posted' = Tail(posted)
      /\ done' = Append(done, r) /\ npkts' = npkts + 1
      /\ UNCHANGED pvars
      /\ UNCHANGED <<rx_on, rxen, isr, wq, wq_pbuf, ioc, user, bug>>
  BY DEF FpgaReceive
<1>2. /\ PoolInv /\ ~ stuck /\ packet_size > 0 /\ RxShape /\ RxPhases /\ RxHands
      /\ ~ bug /\ posted \in Seq(Int) /\ done \in Seq([pbuf : Int, pkt : Nat])
      /\ npkts \in Nat /\ NoRepeats(posted) /\ NoRepeats(Bufs(done))
      /\ On(posted) \cap On(Bufs(done)) = {}
  BY DEF RxInv, RxShape, RxHands
<1>3. /\ h \in Int /\ h \in On(posted) /\ posted' \in Seq(Int)
      /\ NoRepeats(posted') /\ On(posted') = On(posted) \ {h}
  BY <1>1, <1>2, TailOfList
<1>4. r \in [pbuf : Int, pkt : Nat] /\ r.pbuf = h
  BY <1>2, <1>3
<1> HIDE DEF r, h
<1>5. done' \in Seq([pbuf : Int, pkt : Nat])
  BY <1>1, <1>2, <1>4, AppendProperties, Zenon
<1>6. Bufs(done)' = Append(Bufs(done), h) /\ Bufs(done) \in Seq(Int)
  BY <1>1, <1>2, <1>4, BufsAppend, BufsAre DEF Bufs
<1>7. /\ NoRepeats(Bufs(done)') /\ On(Bufs(done)') = On(Bufs(done)) \cup {h}
  BY <1>2, <1>3, <1>6, AppendToList
<1>8. FpgaBufs' = FpgaBufs
  BY <1>3, <1>7 DEF FpgaBufs, On
<1>9. IsrBuf' = IsrBuf /\ WqBuf' = WqBuf
  BY <1>1 DEF IsrBuf, WqBuf
<1>10. PoolInv' /\ ~ stuck' /\ packet_size' > 0 /\ UsedBufs' = UsedBufs
  BY <1>1, <1>2, PoolKept
<1>11. RxShape'
  BY <1>1, <1>2, <1>3, <1>5 DEF RxShape
<1>12. RxPhases'
  BY <1>1, <1>2 DEF RxPhases, Stopped, Starting
<1>13. RxHands'
  <2>1. NoRepeats(posted)' /\ NoRepeats(Bufs(done))'
        /\ On(posted)' \cap On(Bufs(done))' = {}
    BY <1>2, <1>3, <1>7 DEF On, NoRepeats
  <2> QED
    BY <1>1, <1>2, <1>8, <1>9, <1>10, <2>1 DEF RxHands
<1> QED
  BY <1>1, <1>2, <1>10, <1>11, <1>12, <1>13 DEF RxInv

(* The handler takes a filled buffer.                                      *)
LEMMA RxIsrRead ==
  ASSUME RxInv, IsrRead
  PROVE  RxInv'
<1>1. /\ isr = IsrIdle /\ done # <<>> /\ isr' = Head(done)
      /\ done' = Tail(done) /\ UNCHANGED pvars
      /\ UNCHANGED <<rx_on, rxen, posted, npkts, wq, wq_pbuf, ioc, user, bug>>
  BY DEF IsrRead
<1>2. /\ PoolInv /\ ~ stuck /\ packet_size > 0 /\ RxShape /\ RxPhases /\ RxHands
      /\ ~ bug /\ done \in Seq([pbuf : Int, pkt : Nat])
      /\ NoRepeats(posted) /\ NoRepeats(Bufs(done))
      /\ On(posted) \cap On(Bufs(done)) = {}
  BY DEF RxInv, RxShape, RxHands
<1> DEFINE h == Head(done)
<1>3. /\ h \in [pbuf : Int, pkt : Nat] /\ done' \in Seq([pbuf : Int, pkt : Nat])
      /\ Bufs(done) # <<>> /\ Head(Bufs(done)) = h.pbuf
      /\ Bufs(done)' = Tail(Bufs(done)) /\ Bufs(done) \in Seq(Int)
  BY <1>1, <1>2, BufsTail, BufsAre DEF Bufs
<1> HIDE DEF h
<1>4. /\ h.pbuf \in On(Bufs(done)) /\ NoRepeats(Bufs(done)')
      /\ On(Bufs(done)') = On(Bufs(done)) \ {h.pbuf}
  BY <1>2, <1>3, TailOfList
<1>5. h.pbuf \in UsedBufs
  BY <1>2, <1>4 DEF RxHands, FpgaBufs
<1>6. h # IsrIdle
  <2>1. h.pbuf \in 0 .. Size - 1
    <3>1. PICK e \in usedlist : h.pbuf = pentry2pbuf(e)
      BY <1>5 DEF UsedBufs
    <3>2. e \in Entries
      BY <1>2, <3>1 DEF PoolInv, PoolTypeOK
    <3> QED
      BY <1>2, <3>1, <3>2, PbufInRegion
  <2>2. h.pbuf # NoBuf
    BY <2>1, PoolAssumption DEF NoBuf
  <2> QED
    BY <2>2 DEF IsrIdle
<1>7. IsrBuf = {} /\ IsrBuf' = {h.pbuf} /\ WqBuf' = WqBuf
  BY <1>1, <1>6 DEF IsrBuf, WqBuf, h
<1>8. FpgaBufs' = FpgaBufs \ {h.pbuf}
  <2>1. On(posted)' = On(posted)
    BY <1>1 DEF On
  <2>2. On(Bufs(done))' = On(Bufs(done)) \ {h.pbuf}
    BY <1>4 DEF On
  <2> QED
    BY <1>2, <1>4, <2>1, <2>2 DEF FpgaBufs
<1>9. PoolInv' /\ ~ stuck' /\ packet_size' > 0 /\ UsedBufs' = UsedBufs
  BY <1>1, <1>2, PoolKept
<1>10. RxShape'
  BY <1>1, <1>2, <1>3 DEF RxShape, h
<1>11. RxPhases'
  BY <1>1, <1>2 DEF RxPhases
<1>12. RxHands'
  <2>1. NoRepeats(posted)' /\ NoRepeats(Bufs(done))'
        /\ On(posted)' \cap On(Bufs(done))' = {}
    <3>1. NoRepeats(posted)' /\ On(posted)' = On(posted)
      BY <1>1, <1>2 DEF On, NoRepeats
    <3>2. NoRepeats(Bufs(done))' /\ On(Bufs(done))' = On(Bufs(done)) \ {h.pbuf}
      BY <1>4 DEF On, NoRepeats
    <3> QED
      BY <1>2, <3>1, <3>2
  <2> QED
    BY <1>1, <1>2, <1>4, <1>7, <1>8, <1>9, <2>1 DEF RxHands, FpgaBufs
<1> QED
  BY <1>1, <1>2, <1>9, <1>10, <1>11, <1>12 DEF RxInv

(* The handler's pool_enqbuf: the buffer is one in use, so BUG_ON does not *)
(* fire.                                                                   *)
LEMMA RxIsrEnq ==
  ASSUME RxInv, IsrEnq
  PROVE  RxInv'
<1> DEFINE p == isr.pbuf
           d == [len |-> isr.pkt, ooblen |-> 0, flags |-> 0]
<1>1. /\ PoolInv /\ ~ stuck /\ packet_size > 0 /\ RxShape /\ RxPhases /\ RxHands
      /\ ~ bug /\ isr # IsrIdle /\ isr \in [pbuf : Int, pkt : Nat]
  BY DEF RxInv, RxShape, IsrEnq
<1>2. IsrBuf = {p}
  BY <1>1 DEF IsrBuf
<1>3. p \in UsedBufs /\ p \in Int
  BY <1>1, <1>2 DEF RxHands
<1>4. Accepts(p)
  BY <1>1, <1>3, UsedAccepted
<1>5. d \in [len : Nat, ooblen : Nat, flags : Nat]
  BY <1>1
<1>6. /\ enqbuf(p, d) /\ isr' = IsrIdle /\ bug' = bug
      /\ UNCHANGED <<rx_on, rxen, posted, done, npkts, wq, wq_pbuf, ioc, user>>
  BY <1>4, Zenon DEF IsrEnq, refused
<1> HIDE DEF p, d
<1>7. PoolInv'
  BY <1>1, <1>3, <1>5, <1>6, EnqInv
<1>8. UsedBufs' = UsedBufs \ {p} /\ ~ stuck' /\ packet_size' = packet_size
  BY <1>1, <1>6, UsedGive
<1>9. /\ IsrBuf' = {} /\ WqBuf' = WqBuf /\ FpgaBufs' = FpgaBufs
      /\ On(posted)' = On(posted) /\ On(Bufs(done))' = On(Bufs(done))
      /\ NoRepeats(posted)' = NoRepeats(posted)
      /\ NoRepeats(Bufs(done))' = NoRepeats(Bufs(done))
  BY <1>6 DEF IsrBuf, WqBuf, FpgaBufs, Bufs, On, NoRepeats
<1>10. RxHands'
  BY <1>1, <1>2, <1>6, <1>8, <1>9 DEF RxHands
<1>11. RxShape'
  BY <1>1, <1>6 DEF RxShape, IsrIdle, NoBuf
<1>12. RxPhases'
  BY <1>1, <1>6 DEF RxPhases
<1> QED
  BY <1>1, <1>6, <1>7, <1>8, <1>10, <1>11, <1>12 DEF RxInv

-----------------------------------------------------------------------------
(* A step that moves no buffer: what is left to show is where the task and *)
(* the ioctl are.                                                          *)
LEMMA RxNoMove ==
  ASSUME RxInv, UNCHANGED pvars, RxShape', RxPhases',
         UNCHANGED <<posted, done, isr, wq_pbuf, user, bug>>,
         wq = "put" <=> wq' = "put",
         ioc.pc \in {"flush_wq", "pool_flush"} =>
           ioc'.pc \in {"flush_wq", "pool_flush"}
  PROVE  RxInv'
<1>1. PoolInv /\ ~ stuck /\ packet_size > 0 /\ RxHands /\ ~ bug
  BY DEF RxInv
<1>2. PoolInv' /\ ~ stuck' /\ packet_size' > 0 /\ UsedBufs' = UsedBufs
  BY <1>1, PoolKept
<1>3. /\ IsrBuf' = IsrBuf /\ WqBuf' = WqBuf /\ FpgaBufs' = FpgaBufs
      /\ On(posted)' = On(posted) /\ On(Bufs(done))' = On(Bufs(done))
      /\ NoRepeats(posted)' = NoRepeats(posted)
      /\ NoRepeats(Bufs(done))' = NoRepeats(Bufs(done))
  BY DEF IsrBuf, WqBuf, FpgaBufs, Bufs, On, NoRepeats
<1>4. RxHands'
  BY <1>1, <1>2, <1>3 DEF RxHands
<1> QED
  BY <1>1, <1>2, <1>4 DEF RxInv

(* A step that empties the used list while nobody holds a buffer.          *)
LEMMA RxEmptied ==
  ASSUME PoolInv', ~ stuck', packet_size' > 0, UsedBufs' = {},
         RxShape', RxPhases', ~ bug',
         posted' = <<>>, done' = <<>>, isr' = IsrIdle, wq' = "idle", user' = {}
  PROVE  RxInv'
<1>1. /\ Bufs(done)' = <<>> /\ On(posted)' = {} /\ On(Bufs(done))' = {}
      /\ NoRepeats(posted)' /\ NoRepeats(Bufs(done))'
  BY DEF Bufs, On, NoRepeats
<1>2. FpgaBufs' = {} /\ IsrBuf' = {} /\ WqBuf' = {}
  BY <1>1 DEF FpgaBufs, IsrBuf, WqBuf
<1>3. RxHands'
  BY <1>1, <1>2 DEF RxHands
<1> QED
  BY <1>3 DEF RxInv

-----------------------------------------------------------------------------
(* The task.                                                               *)
LEMMA RxWqStart ==
  ASSUME RxInv, WqStart \/ WqLoop
  PROVE  RxInv'
<1>1. /\ UNCHANGED pvars /\ UNCHANGED <<posted, done, isr, wq_pbuf, user, bug>>
      /\ UNCHANGED <<rxen, npkts, ioc>>
      /\ wq \in {"queued", "loop"} /\ wq' \in {"loop", "get", "idle"}
  BY DEF WqStart, WqLoop
<1>2. RxShape /\ RxPhases
  BY DEF RxInv
<1>3. RxShape'
  BY <1>1, <1>2 DEF RxShape
<1>4. RxPhases'
  BY <1>1, <1>2 DEF RxPhases
<1> QED
  BY <1>1, <1>3, <1>4, RxNoMove

(* pool_getbuf_timeout: the task takes a buffer that nobody has.           *)
LEMMA RxWqGet ==
  ASSUME RxInv, WqGet
  PROVE  RxInv'
<1>1. /\ PoolInv /\ ~ stuck /\ packet_size > 0 /\ RxShape /\ RxPhases /\ RxHands
      /\ ~ bug
  BY DEF RxInv
<1>2. /\ wq = "get"
      /\ UNCHANGED <<rxen, posted, done, npkts, isr, ioc, user, bug>>
  BY DEF WqGet
<1>3. CASE wq' = "loop" /\ UNCHANGED <<pvars, wq_pbuf>>
  <2>1. RxShape'
    BY <1>1, <1>2, <1>3 DEF RxShape
  <2>2. RxPhases'
    BY <1>1, <1>2, <1>3 DEF RxPhases
  <2> QED
    BY <1>2, <1>3, <2>1, <2>2, RxNoMove
<1>4. CASE /\ \E e \in Entries : getbuf(e) /\ wq_pbuf' = pentry2pbuf(e)
           /\ wq' = "put"
  <2>1. PICK e \in Entries : getbuf(e) /\ wq_pbuf' = pentry2pbuf(e)
    BY <1>4
  <2>2. PoolInv'
    BY <1>1, <2>1, GetInv
  <2>3. /\ wq_pbuf' \in Int /\ wq_pbuf' \notin UsedBufs
        /\ UsedBufs' = UsedBufs \cup {wq_pbuf'}
        /\ ~ stuck' /\ packet_size' = packet_size
    BY <1>1, <2>1, UsedTake, Zenon
  <2>4. WqBuf = {} /\ WqBuf' = {wq_pbuf'}
    BY <1>2, <1>4 DEF WqBuf
  <2>5. /\ IsrBuf' = IsrBuf /\ FpgaBufs' = FpgaBufs
        /\ On(posted)' = On(posted) /\ On(Bufs(done))' = On(Bufs(done))
        /\ NoRepeats(posted)' = NoRepeats(posted)
        /\ NoRepeats(Bufs(done))' = NoRepeats(Bufs(done))
    BY <1>2 DEF IsrBuf, FpgaBufs, Bufs, On, NoRepeats
  <2>6. RxHands'
    BY <1>1, <1>2, <2>3, <2>4, <2>5 DEF RxHands
  <2>7. RxShape'
    BY <1>1, <1>2, <1>4 DEF RxShape
  <2>8. RxPhases'
    BY <1>1, <1>2, <1>4 DEF RxPhases
  <2> QED
    BY <1>1, <1>2, <2>2, <2>3, <2>6, <2>7, <2>8 DEF RxInv
<1> QED
  BY <1>3, <1>4 DEF WqGet

(* dma_ll_put_rx: the buffer goes to the FPGA, or is dropped by a port in  *)
(* reset, which happens only while the ioctl waits for the task.           *)
LEMMA RxWqPut ==
  ASSUME RxInv, WqPut
  PROVE  RxInv'
<1>1. /\ PoolInv /\ ~ stuck /\ packet_size > 0 /\ RxShape /\ RxPhases /\ RxHands
      /\ ~ bug /\ posted \in Seq(Int) /\ NoRepeats(posted)
  BY DEF RxInv, RxShape, RxHands
<1>2. /\ wq = "put" /\ wq' = "loop" /\ UNCHANGED pvars
      /\ posted' = IF rxen THEN Append(posted, wq_pbuf) ELSE posted
      /\ UNCHANGED <<rxen, done, npkts, isr, ioc, user, bug>>
  BY DEF WqPut
<1>3. PoolInv' /\ ~ stuck' /\ packet_size' > 0 /\ UsedBufs' = UsedBufs
  BY <1>1, <1>2, PoolKept
<1>4. WqBuf = {wq_pbuf} /\ WqBuf' = {} /\ IsrBuf' = IsrBuf
  BY <1>2 DEF WqBuf, IsrBuf
<1>5. wq_pbuf \in UsedBufs /\ wq_pbuf \notin FpgaBufs
  BY <1>1, <1>4 DEF RxHands
<1>6. wq_pbuf \in Int /\ wq_pbuf \notin On(posted)
  BY <1>1, <1>5, UsedAccepted DEF FpgaBufs
<1>7. /\ On(Bufs(done))' = On(Bufs(done))
      /\ NoRepeats(Bufs(done))' = NoRepeats(Bufs(done))
  BY <1>2 DEF Bufs, On, NoRepeats
<1>8. CASE rxen
  <2>1. posted' = Append(posted, wq_pbuf)
    BY <1>2, <1>8
  <2>2. /\ posted' \in Seq(Int) /\ NoRepeats(posted')
        /\ On(posted') = On(posted) \cup {wq_pbuf}
    BY <1>1, <1>6, <2>1, AppendToList
  <2>3. NoRepeats(posted)' /\ On(posted)' = On(posted) \cup {wq_pbuf}
    BY <2>2 DEF On, NoRepeats
  <2>4. FpgaBufs' = FpgaBufs \cup {wq_pbuf}
    BY <1>7, <2>3 DEF FpgaBufs
  <2>5. On(posted)' \cap On(Bufs(done))' = {} /\ NoRepeats(Bufs(done))'
    BY <1>1, <1>5, <1>7, <2>3 DEF RxHands, FpgaBufs
  <2>6. RxHands'
    BY <1>1, <1>2, <1>3, <1>4, <1>5, <2>3, <2>4, <2>5 DEF RxHands
  <2>7. RxShape'
    BY <1>1, <1>2, <2>2 DEF RxShape
  <2>8. ioc.pc \notin Stopped \cup Starting
    BY <1>1, <1>2, <1>8 DEF RxPhases, Stopped, Starting
  <2>9. RxPhases'
    BY <1>1, <1>2, <1>8, <2>8 DEF RxPhases
  <2> QED
    BY <1>1, <1>2, <1>3, <2>6, <2>7, <2>9 DEF RxInv
<1>9. CASE ~ rxen
  <2>1. posted' = posted /\ ioc.pc = "flush_wq"
    BY <1>1, <1>2, <1>9 DEF RxPhases
  <2>2. On(posted)' = On(posted) /\ NoRepeats(posted)'
        /\ FpgaBufs' = FpgaBufs
    BY <1>1, <1>7, <2>1 DEF On, NoRepeats, FpgaBufs
  <2>3. RxHands'
    BY <1>1, <1>2, <1>3, <1>4, <1>7, <2>1, <2>2 DEF RxHands
  <2>4. RxShape'
    BY <1>1, <1>2, <2>1 DEF RxShape
  <2>5. RxPhases'
    BY <1>1, <1>2, <2>1 DEF RxPhases
  <2> QED
    BY <1>1, <1>2, <1>3, <2>3, <2>4, <2>5 DEF RxInv
<1> QED
  BY <1>8, <1>9
-----------------------------------------------------------------------------
(* The reader.                                                             *)
LEMMA RxRead ==
  ASSUME ~ Overlap, RxInv, zap_read
  PROVE  RxInv'
<1>1. /\ PoolInv /\ ~ stuck /\ packet_size > 0 /\ RxShape /\ RxPhases /\ RxHands
      /\ ~ bug
  BY DEF RxInv
<1>2. PICK e \in Entries :
        deqbuf(e) /\ user' = user \cup {pentry2pbuf(e)}
  BY DEF zap_read
<1>3. /\ ioc = Idle
      /\ UNCHANGED <<rxen, posted, done, npkts, isr, wq, wq_pbuf, ioc, bug>>
  BY DEF zap_read, ReaderFree
<1> DEFINE p == pentry2pbuf(e)
<1>4. PoolInv'
  BY <1>1, <1>2, DeqInv
<1>5. /\ p \notin UsedBufs /\ UsedBufs' = UsedBufs \cup {p}
      /\ ~ stuck' /\ packet_size' = packet_size
  BY <1>1, <1>2, UsedTake, Zenon
<1>6. user' = user \cup {p}
  BY <1>2
<1> HIDE DEF p
<1>7. /\ IsrBuf' = IsrBuf /\ WqBuf' = WqBuf /\ FpgaBufs' = FpgaBufs
      /\ On(posted)' = On(posted) /\ On(Bufs(done))' = On(Bufs(done))
      /\ NoRepeats(posted)' = NoRepeats(posted)
      /\ NoRepeats(Bufs(done))' = NoRepeats(Bufs(done))
  BY <1>3 DEF IsrBuf, WqBuf, FpgaBufs, Bufs, On, NoRepeats
<1>8. RxHands'
  BY <1>1, <1>3, <1>5, <1>6, <1>7 DEF RxHands
<1>9. RxShape'
  BY <1>1, <1>3 DEF RxShape
<1>10. RxPhases'
  BY <1>1, <1>3 DEF RxPhases
<1> QED
  BY <1>1, <1>3, <1>4, <1>5, <1>8, <1>9, <1>10 DEF RxInv

LEMMA RxWrite ==
  ASSUME ~ Overlap, RxInv, NEW p \in user, zap_write(p)
  PROVE  RxInv'
<1>1. /\ PoolInv /\ ~ stuck /\ packet_size > 0 /\ RxShape /\ RxPhases /\ RxHands
      /\ ~ bug
  BY DEF RxInv
<1>2. freebuf(p) \/ ~ Accepts(p)
  BY DEF zap_write, refused
<1>3. /\ ioc = Idle /\ user' = user \ {p}
      /\ UNCHANGED <<rxen, posted, done, npkts, isr, wq, wq_pbuf, ioc, bug>>
  BY DEF zap_write, ReaderFree
<1>4. p \in UsedBufs
  BY <1>1 DEF RxHands
<1>5. p \in Int /\ freebuf(p)
  BY <1>1, <1>2, <1>4, UsedAccepted
<1>6. PoolInv'
  BY <1>1, <1>5, FreeInv
<1>7. UsedBufs' = UsedBufs \ {p} /\ ~ stuck' /\ packet_size' = packet_size
  BY <1>1, <1>5, UsedGive, Zenon
<1>8. /\ IsrBuf' = IsrBuf /\ WqBuf' = WqBuf /\ FpgaBufs' = FpgaBufs
      /\ On(posted)' = On(posted) /\ On(Bufs(done))' = On(Bufs(done))
      /\ NoRepeats(posted)' = NoRepeats(posted)
      /\ NoRepeats(Bufs(done))' = NoRepeats(Bufs(done))
  BY <1>3 DEF IsrBuf, WqBuf, FpgaBufs, Bufs, On, NoRepeats
<1>9. RxHands'
  BY <1>1, <1>3, <1>7, <1>8 DEF RxHands
<1>10. RxShape'
  BY <1>1, <1>3 DEF RxShape
<1>11. RxPhases'
  BY <1>1, <1>3 DEF RxPhases
<1> QED
  BY <1>1, <1>3, <1>6, <1>7, <1>9, <1>10, <1>11 DEF RxInv

-----------------------------------------------------------------------------
(* The ioctl.                                                              *)
LEMMA RxIoctlStarts ==
  ASSUME ~ Overlap, RxInv, NEW c \in Ioctls, zap_ioctl(c)
  PROVE  RxInv'
<1>1. RxShape /\ RxPhases
  BY DEF RxInv
<1>2. /\ ioc = Idle /\ user = {} /\ ioc' = [pc |-> "clr_rxrdy", cmd |-> c]
      /\ UNCHANGED pvars /\ UNCHANGED <<posted, done, isr, wq_pbuf, user, bug>>
      /\ UNCHANGED <<rxen, npkts, wq>>
  BY DEF zap_ioctl
<1>3. c \in {"on", "off", "size"}
  BY RxAssumption
<1>4. ioc'.pc = "clr_rxrdy" /\ ioc'.cmd = c /\ ioc.pc = "idle"
  BY <1>2 DEF Idle
<1>5. RxShape'
  BY <1>1, <1>2, <1>3, <1>4 DEF RxShape
<1>6. RxPhases'
  BY <1>1, <1>2, <1>4 DEF RxPhases, Stopped, Starting
<1> QED
  BY <1>2, <1>4, <1>5, <1>6, RxNoMove

(* The facts every step of the ioctl starts from; ~SMP keeps the handler   *)
(* out.                                                                    *)
LEMMA RxAt ==
  ASSUME ~ SMP, RxInv, NEW l, At(l), l # "idle"
  PROVE  /\ ioc.pc = l /\ isr = IsrIdle /\ user = {} /\ ioc.cmd # "none"
         /\ RxShape /\ RxPhases
<1>1. RxShape /\ RxPhases /\ ioc.pc = l /\ isr = IsrIdle
  BY DEF RxInv, At, CPUFree
<1>2. ioc # Idle
  BY <1>1 DEF Idle
<1> QED
  BY <1>1, <1>2 DEF RxShape, RxPhases

LEMMA RxThen ==
  ASSUME RxShape, ioc.cmd # "none",
         NEW l \in {"idle", "clr_rxrdy", "rx_off", "rxen_off"}
                     \cup Stopped \cup Starting, Then(l)
  PROVE  /\ ioc' \in [pc : {"idle", "clr_rxrdy", "rx_off", "rxen_off"}
                             \cup Stopped \cup Starting,
                      cmd : {"none", "on", "off", "size"}]
         /\ IF ioc'.pc = "idle" THEN ioc' = Idle ELSE ioc'.cmd # "none"
         /\ ioc'.pc = l
<1> DEFINE P == {"idle", "clr_rxrdy", "rx_off", "rxen_off"}
                  \cup Stopped \cup Starting
           C == {"none", "on", "off", "size"}
<1>1. ioc \in [pc : P, cmd : C]
  BY DEF RxShape
<1>2. l \in P
  OBVIOUS
<1>3. Idle \in [pc : P, cmd : C] /\ Idle.pc = "idle"
  BY DEF Idle
<1> HIDE DEF P, C
<1>4. IF l = "idle" THEN ioc' = Idle
      ELSE ioc' \in [pc : P, cmd : C] /\ ioc'.pc = l /\ ioc'.cmd = ioc.cmd
  BY <1>1, <1>2, ThenIs
<1>5. /\ ioc' \in [pc : P, cmd : C]
      /\ IF ioc'.pc = "idle" THEN ioc' = Idle ELSE ioc'.cmd # "none"
      /\ ioc'.pc = l
  BY <1>3, <1>4
<1> QED
  BY <1>5 DEF P, C

(* The steps that only set a flag or ask the pool whether it is busy.      *)
LEMMA RxFlagStep ==
  ASSUME ~ SMP, RxInv,
         \/ StopIntr \/ StopRxOn \/ StopFlushWq \/ StartBusy \/ StartIntr
         \/ StartOn
  PROVE  RxInv'
<1>1. PICK l \in {"clr_rxrdy", "rx_off", "flush_wq", "start_busy", "start_intr",
                  "start_on"}, m \in {"rx_off", "rxen_off", "pool_flush",
                  "idle", "start_port", "start_on", "start_work"} :
        /\ At(l) /\ Then(m)
        /\ <<l, m>> \in {<<"clr_rxrdy", "rx_off">>, <<"rx_off", "rxen_off">>,
                         <<"flush_wq", "pool_flush">>, <<"start_busy", "idle">>,
                         <<"start_busy", "start_port">>,
                         <<"start_intr", "start_on">>,
                         <<"start_on", "start_work">>}
        /\ l = "flush_wq" => wq = "idle"
  <2>1. ASSUME NEW l, NEW m, At(l), Then(m),
               <<l, m>> \in {<<"clr_rxrdy", "rx_off">>, <<"rx_off", "rxen_off">>,
                         <<"flush_wq", "pool_flush">>, <<"start_busy", "idle">>,
                         <<"start_busy", "start_port">>,
                         <<"start_intr", "start_on">>,
                         <<"start_on", "start_work">>},
               l = "flush_wq" => wq = "idle"
        PROVE  /\ l \in {"clr_rxrdy", "rx_off", "flush_wq", "start_busy",
                         "start_intr", "start_on"}
               /\ m \in {"rx_off", "rxen_off", "pool_flush",
                         "idle", "start_port", "start_on", "start_work"}
    BY <2>1
  <2>2. CASE StopIntr
    BY <2>2 DEF StopIntr
  <2>3. CASE StopRxOn
    BY <2>3 DEF StopRxOn
  <2>4. CASE StopFlushWq
    BY <2>4 DEF StopFlushWq
  <2>5. CASE StartBusy
    BY <2>5 DEF StartBusy
  <2>6. CASE StartIntr
    BY <2>6 DEF StartIntr
  <2>7. CASE StartOn
    BY <2>7 DEF StartOn
  <2> QED
    BY <2>2, <2>3, <2>4, <2>5, <2>6, <2>7
<1>2. /\ UNCHANGED pvars /\ UNCHANGED <<posted, done, isr, wq_pbuf, user, bug>>
      /\ UNCHANGED <<rxen, npkts, wq>>
  BY DEF StopIntr, StopRxOn, StopFlushWq, StartBusy, StartIntr, StartOn
<1>3. /\ ioc.pc = l /\ isr = IsrIdle /\ user = {} /\ ioc.cmd # "none"
      /\ RxShape /\ RxPhases
  BY <1>1, RxAt
<1>4. /\ ioc' \in [pc : {"idle", "clr_rxrdy", "rx_off", "rxen_off"}
                          \cup Stopped \cup Starting,
                   cmd : {"none", "on", "off", "size"}]
      /\ IF ioc'.pc = "idle" THEN ioc' = Idle ELSE ioc'.cmd # "none"
      /\ ioc'.pc = m
  <2>1. m \in {"idle", "clr_rxrdy", "rx_off", "rxen_off"}
                \cup Stopped \cup Starting
    BY <1>1 DEF Stopped, Starting
  <2> QED
    BY <1>1, <1>3, <2>1, RxThen
<1>5. RxShape'
  BY <1>2, <1>3, <1>4 DEF RxShape
<1>6. RxPhases'
  BY <1>1, <1>2, <1>3, <1>4 DEF RxPhases, Stopped, Starting
<1> QED
  BY <1>1, <1>2, <1>3, <1>4, <1>5, <1>6, RxNoMove

(* dma_ll_stop_rx clears RXEN: the FPGA has no buffer any more.            *)
LEMMA RxStopPort ==
  ASSUME ~ SMP, RxInv, StopPort
  PROVE  RxInv'
<1>1. /\ PoolInv /\ ~ stuck /\ packet_size > 0 /\ RxHands /\ ~ bug
  BY DEF RxInv
<1>2. /\ At("rxen_off") /\ Then("flush_wq") /\ rxen' = FALSE
      /\ posted' = <<>> /\ done' = <<>> /\ UNCHANGED pvars
      /\ UNCHANGED <<npkts, isr, wq, wq_pbuf, user, bug>>
  BY DEF StopPort
<1>3. /\ ioc.pc = "rxen_off" /\ isr = IsrIdle /\ user = {} /\ ioc.cmd # "none"
      /\ RxShape /\ RxPhases
  BY <1>2, RxAt
<1>4. /\ ioc' \in [pc : {"idle", "clr_rxrdy", "rx_off", "rxen_off"}
                          \cup Stopped \cup Starting,
                   cmd : {"none", "on", "off", "size"}]
      /\ IF ioc'.pc = "idle" THEN ioc' = Idle ELSE ioc'.cmd # "none"
      /\ ioc'.pc = "flush_wq"
  BY <1>2, <1>3, RxThen DEF Stopped
<1>5. PoolInv' /\ ~ stuck' /\ packet_size' > 0 /\ UsedBufs' = UsedBufs
  BY <1>1, <1>2, PoolKept
<1>6. /\ On(posted)' = {} /\ On(Bufs(done))' = {}
      /\ NoRepeats(posted)' /\ NoRepeats(Bufs(done))'
  BY <1>2 DEF Bufs, On, NoRepeats
<1>7. FpgaBufs' = {} /\ IsrBuf' = IsrBuf /\ WqBuf' = WqBuf
  BY <1>2, <1>6 DEF FpgaBufs, IsrBuf, WqBuf
<1>8. RxHands'
  BY <1>1, <1>2, <1>4, <1>5, <1>6, <1>7 DEF RxHands
<1>9. RxShape'
  <2>1. posted' \in Seq(Int) /\ done' \in Seq([pbuf : Int, pkt : Nat])
    BY <1>2
  <2> QED
    BY <1>2, <1>3, <1>4, <2>1 DEF RxShape
<1>10. RxPhases'
  BY <1>2, <1>3, <1>4 DEF RxPhases, Stopped, Starting
<1> QED
  BY <1>1, <1>2, <1>5, <1>8, <1>9, <1>10 DEF RxInv

(* dma_ll_start_rx turns the port on with nothing posted, and queues the   *)
(* task when it is done.                                                   *)
LEMMA RxStartPort ==
  ASSUME ~ SMP, RxInv, StartPort \/ StartWork
  PROVE  RxInv'
<1>1. PICK l \in {"start_port", "start_work"}, m \in {"start_intr", "idle"} :
        /\ At(l) /\ Then(m)
        /\ l = "start_port" => /\ m = "start_intr" /\ posted' = <<>>
                               /\ done' = <<>> /\ rxen' = TRUE /\ wq' = wq
        /\ l = "start_work" => /\ m = "idle" /\ UNCHANGED <<posted, done, rxen>>
                               /\ wq' = "queued"
        /\ UNCHANGED pvars /\ UNCHANGED <<npkts, isr, wq_pbuf, user, bug>>
  BY DEF StartPort, StartWork
<1>2. /\ ioc.pc = l /\ isr = IsrIdle /\ user = {} /\ ioc.cmd # "none"
      /\ RxShape /\ RxPhases
  BY <1>1, RxAt
<1>3. /\ ioc' \in [pc : {"idle", "clr_rxrdy", "rx_off", "rxen_off"}
                          \cup Stopped \cup Starting,
                   cmd : {"none", "on", "off", "size"}]
      /\ IF ioc'.pc = "idle" THEN ioc' = Idle ELSE ioc'.cmd # "none"
      /\ ioc'.pc = m
  BY <1>1, <1>2, RxThen DEF Starting
<1>4. /\ posted = <<>> /\ done = <<>> /\ wq = "idle"
      /\ l = "start_work" => rxen
  BY <1>1, <1>2 DEF RxPhases, Stopped, Starting
<1>5. posted' = <<>> /\ done' = <<>> /\ rxen' = TRUE /\ wq' \in {"idle", "queued"}
  BY <1>1, <1>2, <1>4 DEF RxShape
<1>6. RxShape'
  BY <1>1, <1>2, <1>3, <1>4, <1>5 DEF RxShape
<1>7. RxPhases'
  BY <1>1, <1>2, <1>3, <1>4, <1>5 DEF RxPhases, Stopped, Starting
<1> QED
  BY <1>1, <1>2, <1>4, <1>5, <1>6, <1>7, RxNoMove

(* The steps that put every buffer back on the free list: by then nobody   *)
(* has one.                                                                *)
LEMMA RxPoolStep ==
  ASSUME ~ SMP, SizesPositive, RxInv,
         StopFlushPool \/ SizeResize \/ StartFlushPool
  PROVE  RxInv'
<1>1. /\ PoolInv /\ ~ stuck /\ packet_size > 0 /\ ~ bug /\ RxShape
  BY DEF RxInv
<1>2. /\ \/ pool_flush(packet_size, num_packets)
         \/ \E ps \in PacketSizes : pool_resize(ps)
      /\ UNCHANGED <<rxen, posted, done, npkts, isr, wq, wq_pbuf, user, bug>>
  BY DEF StopFlushPool, SizeResize, StartFlushPool
<1>3. PICK l \in {"pool_flush", "resize", "start_flush"},
           m \in {"idle", "resize", "start_flush", "start_busy"} :
        At(l) /\ Then(m)
  <2>1. CASE StopFlushPool
    <3>1. At("pool_flush") /\ ioc.cmd \in {"on", "off", "size"}
      <4>1. At("pool_flush")
        BY <2>1 DEF StopFlushPool
      <4>2. ioc.cmd # "none"
        BY <4>1, RxAt
      <4> QED
        BY <1>1, <4>1, <4>2 DEF RxShape
    <3>2. Then("idle") \/ Then("resize") \/ Then("start_flush")
      BY <2>1, <3>1, Zenon DEF StopFlushPool
    <3> QED
      BY <3>1, <3>2
  <2>2. CASE SizeResize
    BY <2>2 DEF SizeResize
  <2>3. CASE StartFlushPool
    BY <2>3 DEF StartFlushPool
  <2> QED
    BY <2>1, <2>2, <2>3
<1>4. /\ ioc.pc = l /\ isr = IsrIdle /\ user = {} /\ ioc.cmd # "none"
      /\ RxPhases
  BY <1>3, RxAt
<1>5. /\ ioc' \in [pc : {"idle", "clr_rxrdy", "rx_off", "rxen_off"}
                          \cup Stopped \cup Starting,
                   cmd : {"none", "on", "off", "size"}]
      /\ IF ioc'.pc = "idle" THEN ioc' = Idle ELSE ioc'.cmd # "none"
      /\ ioc'.pc = m
  BY <1>1, <1>3, <1>4, RxThen DEF Stopped
<1>6. posted = <<>> /\ done = <<>> /\ wq = "idle" /\ ~ rxen
  BY <1>3, <1>4 DEF RxPhases, Stopped
<1>7. PoolInv'
  BY <1>1, <1>2, FlushNowInv
<1>8. UsedBufs' = {} /\ ~ stuck' /\ packet_size' \in PacketSizes \cup {packet_size}
  BY <1>2, UsedNone
<1>9. packet_size' > 0
  BY <1>1, <1>8, PoolAssumption DEF SizesPositive
<1>10. RxShape'
  BY <1>1, <1>2, <1>5 DEF RxShape
<1>11. RxPhases'
  BY <1>2, <1>3, <1>4, <1>5, <1>6 DEF RxPhases, Stopped, Starting
<1> QED
  BY <1>1, <1>2, <1>4, <1>6, <1>7, <1>8, <1>9, <1>10, <1>11, RxEmptied

-----------------------------------------------------------------------------
(* One step of a reader that gives back only what it holds.                *)
LEMMA RxStep ==
  ASSUME ~ SMP, ~ Overlap, SizesPositive, RxInv, [RxNext]_vars,
         \A p : zap_write(p) => p \in user
  PROVE  RxInv'
<1>1. CASE UNCHANGED vars
  <2>1. /\ UNCHANGED pvars
        /\ UNCHANGED <<posted, done, isr, wq_pbuf, user, bug>>
        /\ UNCHANGED <<rxen, npkts, wq, ioc>>
    BY <1>1 DEF vars, pvars
  <2>2. RxShape' /\ RxPhases'
    BY <2>1 DEF RxInv, RxShape, RxPhases
  <2> QED
    BY <2>1, <2>2, RxNoMove
<1>2. CASE FpgaReceive \/ Isr
  BY <1>2, RxReceive, RxIsrRead, RxIsrEnq DEF Isr
<1>3. CASE Wq
  BY <1>3, RxWqStart, RxWqGet, RxWqPut DEF Wq
<1>4. CASE \/ zap_read \/ \E p \in 0 .. Size : zap_write(p)
           \/ \E c \in Ioctls : zap_ioctl(c)
  BY <1>4, RxRead, RxWrite, RxIoctlStarts
<1>5. CASE Ioctl
  BY <1>5, RxFlagStep, RxStopPort, RxStartPort, RxPoolStep DEF Ioctl
<1> QED
  BY <1>1, <1>2, <1>3, <1>4, <1>5 DEF RxNext

(* A buffer given back wrongly is counted and the count never falls: while *)
(* it is zero every step was one of a reader of that kind.                 *)
LEMMA RxCounts ==
  ASSUME [RxNext]_vars
  PROVE  UNCHANGED foreign \/ \E p \in 0 .. Size : zap_write(p)
BY DEF RxNext, vars, FpgaReceive, Isr, IsrRead, IsrEnq, Wq, WqStart, WqLoop,
         WqGet, WqPut, zap_read, zap_ioctl, Ioctl, StopIntr, StopRxOn, StopPort,
         StopFlushWq, StopFlushPool, SizeResize, StartFlushPool, StartBusy,
         StartPort, StartIntr, StartOn, StartWork

LEMMA RxForeign ==
  ASSUME foreign \in Nat, [RxNext]_vars
  PROVE  /\ foreign' \in Nat /\ foreign' >= foreign
         /\ foreign' = foreign => \A p : zap_write(p) => p \in user
<1>1. UNCHANGED foreign \/ \E p \in 0 .. Size : zap_write(p)
  BY RxCounts
<1>2. ASSUME NEW p, zap_write(p)
      PROVE  \/ foreign' = foreign /\ p \in user
             \/ foreign' = foreign + 1
  BY <1>2 DEF zap_write
<1>3. foreign' = foreign \/ foreign' = foreign + 1
  BY <1>1, <1>2
<1>4. ASSUME NEW p, zap_write(p), foreign' = foreign PROVE p \in user
  BY <1>2, <1>4
<1> QED
  BY <1>3, <1>4

LEMMA RxOwnStep ==
  ASSUME ~ SMP, ~ Overlap, SizesPositive, RxOwnInv, [RxNext]_vars
  PROVE  RxOwnInv'
<1>1. foreign' \in Nat
  BY RxForeign DEF RxOwnInv
<1>2. ASSUME foreign' = 0 PROVE RxInv'
  <2>1. foreign = 0 /\ \A p : zap_write(p) => p \in user
    BY <1>2, RxForeign DEF RxOwnInv
  <2> QED
    BY <2>1, RxStep DEF RxOwnInv
<1> QED
  BY <1>1, <1>2 DEF RxOwnInv

LEMMA RxOwnStart ==
  ASSUME SizesPositive, RxInit
  PROVE  RxOwnInv
BY RxStart DEF RxOwnInv, RxInit

(* On one CPU, with a reader that leaves the driver alone during an ioctl  *)
(* and no packet size of zero, BUG_ON(err) in dma_isr (dma_zynq.c:346)     *)
(* does not fire before the reader gives back a buffer it does not hold,   *)
(* whatever the sizes, the ioctls and the packets.                         *)
THEOREM RxNoBug ==
  ASSUME ~ SMP, ~ Overlap, SizesPositive
  PROVE  RxSpec => []NoBug
<1>1. RxOwnInv => NoBug
  BY DEF RxOwnInv, RxInv, NoBug
<1> QED
  BY <1>1, RxOwnStart, RxOwnStep, PTL DEF RxSpec

(* Under the same conditions every buffer is in one hand, the pool knows   *)
(* every buffer that is in a hand to be in use, and outside an ioctl no    *)
(* other is in use, until the reader gives back a buffer it does not hold: *)
(* buffers are neither shared nor lost.                                    *)
THEOREM RxOwnership ==
  ASSUME ~ SMP, ~ Overlap, SizesPositive
  PROVE  RxSpec => []BufOwnership
<1>1. RxOwnInv => BufOwnership
  <2> SUFFICES ASSUME RxInv PROVE BufOwnership
    BY DEF RxOwnInv, BufOwnership
  <2>1. /\ PoolInv /\ ~ stuck /\ packet_size > 0 /\ RxShape /\ RxHands
        /\ posted \in Seq(Int) /\ done \in Seq([pbuf : Int, pkt : Nat])
    BY DEF RxInv, RxShape
  <2>2. Cardinality(FpgaBufs) = Len(posted) + Len(done)
    <3>1. Bufs(done) \in Seq(Int) /\ Len(Bufs(done)) = Len(done)
      BY <2>1, BufsAre
    <3>2. /\ IsFiniteSet(On(posted)) /\ Cardinality(On(posted)) = Len(posted)
          /\ IsFiniteSet(On(Bufs(done)))
          /\ Cardinality(On(Bufs(done))) = Len(done)
      BY <2>1, <3>1, CardOfList DEF RxHands
    <3>3. /\ Len(posted) \in Nat /\ Len(done) \in Nat
          /\ On(posted) \cap On(Bufs(done)) = {}
      BY <2>1, LenProperties DEF RxHands
    <3>4. Cardinality(On(posted) \cap On(Bufs(done))) = 0
      BY <3>3, FS_EmptySet
    <3>5. Cardinality(On(posted) \cup On(Bufs(done))) =
            Cardinality(On(posted)) + Cardinality(On(Bufs(done)))
              - Cardinality(On(posted) \cap On(Bufs(done)))
      BY <3>2, FS_Union
    <3> QED
      BY <3>2, <3>3, <3>4, <3>5 DEF FpgaBufs
  <2>3. /\ FpgaBufs \cap IsrBuf = {} /\ FpgaBufs \cap WqBuf = {}
        /\ IsrBuf \cap WqBuf = {} /\ FpgaBufs \cap user = {}
        /\ IsrBuf \cap user = {} /\ WqBuf \cap user = {}
    BY <2>1 DEF RxHands
  <2>4. NoSharedBuf
    BY <2>2, <2>3 DEF NoSharedBuf
  <2>5. FpgaBufs \cup IsrBuf \cup WqBuf \cup user \subseteq UsedBufs
    BY <2>1 DEF RxHands
  <2>6. \A p \in FpgaBufs \cup IsrBuf \cup WqBuf \cup user : Accepts(p)
    BY <2>1, <2>5, UsedAccepted
  <2>7. ioc = Idle => FpgaBufs \cup IsrBuf \cup WqBuf \cup user = UsedBufs
    BY <2>1, <2>5 DEF RxHands, Idle
  <2> QED
    BY <2>4, <2>6, <2>7 DEF BufOwnership
<1> QED
  BY <1>1, RxOwnStart, RxOwnStep, PTL DEF RxSpec
-----------------------------------------------------------------------------
(* The channel.  The packets of the filled buffers, as a list.             *)
RxDone == [pbuf : Int, pkt : Nat]

LEMMA PktsAre ==
  ASSUME NEW d \in Seq(RxDone)
  PROVE  /\ Pkts(d) \in Seq(Nat) /\ Len(Pkts(d)) = Len(d)
         /\ \A k \in 1 .. Len(d) : d[k] \in RxDone /\ Pkts(d)[k] = d[k].pkt
<1>1. /\ Len(d) \in Nat /\ DOMAIN d = 1 .. Len(d)
      /\ \A k \in 1 .. Len(d) : d[k] \in RxDone
  BY LenProperties, ElementOfSeq
<1>2. \A k \in 1 .. Len(d) : d[k].pkt \in Nat
  BY <1>1 DEF RxDone
<1>3. Pkts(d) = [k \in 1 .. Len(d) |-> d[k].pkt]
  BY <1>1 DEF Pkts
<1> QED
  BY <1>1, <1>2, <1>3

LEMMA PktsAppend ==
  ASSUME NEW d \in Seq(RxDone), NEW r \in RxDone
  PROVE  r.pkt \in Nat /\ Pkts(Append(d, r)) = Append(Pkts(d), r.pkt)
<1> DEFINE a == Append(d, r)
           n == r.pkt
           b == Append(Pkts(d), n)
<1>1. Len(d) \in Nat /\ n \in Nat
  BY LenProperties DEF RxDone
<1>2. /\ Pkts(d) \in Seq(Nat) /\ Len(Pkts(d)) = Len(d)
      /\ \A k \in 1 .. Len(d) : Pkts(d)[k] = d[k].pkt
  BY PktsAre
<1>3. /\ a \in Seq(RxDone) /\ Len(a) = Len(d) + 1 /\ a[Len(d) + 1] = r
      /\ \A k \in 1 .. Len(d) : a[k] = d[k]
  BY AppendProperties
<1> HIDE DEF a, n
<1>4. /\ b \in Seq(Nat) /\ Len(b) = Len(d) + 1 /\ b[Len(d) + 1] = n
      /\ \A k \in 1 .. Len(d) : b[k] = Pkts(d)[k]
  BY <1>1, <1>2, AppendProperties
<1> HIDE DEF b
<1>5. /\ Pkts(a) \in Seq(Nat) /\ Len(Pkts(a)) = Len(d) + 1
      /\ \A k \in 1 .. Len(d) + 1 : Pkts(a)[k] = a[k].pkt
  BY <1>3, PktsAre
<1>6. ASSUME NEW k \in 1 .. Len(d) + 1 PROVE Pkts(a)[k] = b[k]
  <2>1. k \in 1 .. Len(d) \/ k = Len(d) + 1
    BY <1>1
  <2>2. Pkts(a)[k] = a[k].pkt
    BY <1>5
  <2>3. CASE k \in 1 .. Len(d)
    <3>1. a[k] = d[k] /\ b[k] = d[k].pkt
      BY <1>2, <1>3, <1>4, <2>3
    <3> QED
      BY <2>2, <3>1
  <2>4. CASE k = Len(d) + 1
    BY <1>3, <1>4, <2>2, <2>4 DEF n
  <2> QED
    BY <2>1, <2>3, <2>4
<1>7. Pkts(a) = b
  BY <1>4, <1>5, <1>6, SeqEqual
<1> QED
  BY <1>1, <1>7 DEF a, b, n

LEMMA PktsTail ==
  ASSUME NEW d \in Seq(RxDone), d # <<>>
  PROVE  /\ Head(d).pkt \in Nat /\ Pkts(Tail(d)) \in Seq(Nat)
         /\ Pkts(d) = <<Head(d).pkt>> \o Pkts(Tail(d))
<1> DEFINE t == Tail(d)
           l == Pkts(d)
<1>1. /\ Len(d) \in Nat \ {0} /\ Head(d) = d[1] /\ t \in Seq(RxDone)
      /\ Len(t) = Len(d) - 1 /\ \A k \in 1 .. Len(t) : t[k] = d[k + 1]
  BY HeadTailProperties, EmptySeq
<1>2. /\ l \in Seq(Nat) /\ Len(l) = Len(d)
      /\ \A k \in 1 .. Len(d) : l[k] = d[k].pkt
  BY PktsAre
<1> HIDE DEF t, l
<1>3. /\ Pkts(t) \in Seq(Nat) /\ Len(Pkts(t)) = Len(t)
      /\ \A k \in 1 .. Len(t) : Pkts(t)[k] = t[k].pkt
  BY <1>1, PktsAre
<1>4. l # <<>>
  BY <1>1, <1>2
<1>5. /\ Head(l) \in Nat /\ l = <<Head(l)>> \o Tail(l) /\ Tail(l) \in Seq(Nat)
      /\ Len(Tail(l)) = Len(d) - 1
      /\ \A k \in 1 .. Len(d) - 1 : Tail(l)[k] = l[k + 1]
  BY <1>2, <1>4, FrontOfList, HeadTailProperties
<1>6. Head(l) = Head(d).pkt
  BY <1>1, <1>2, <1>4
<1>7. ASSUME NEW k \in 1 .. Len(d) - 1 PROVE Tail(l)[k] = Pkts(t)[k]
  <2>1. k \in 1 .. Len(t) /\ k + 1 \in 1 .. Len(d)
    BY <1>1
  <2>2. /\ Tail(l)[k] = l[k + 1] /\ l[k + 1] = d[k + 1].pkt
        /\ Pkts(t)[k] = t[k].pkt /\ t[k] = d[k + 1]
    BY <1>1, <1>2, <1>3, <1>5, <2>1
  <2> QED
    BY <2>2
<1>8. Tail(l) = Pkts(t)
  BY <1>1, <1>3, <1>5, <1>7, SeqEqual
<1> QED
  BY <1>3, <1>5, <1>6, <1>8 DEF t, l

(* The three parts of the list of packets under way.                       *)
LEMMA FlightParts ==
  ASSUME RxInv
  PROVE  /\ FifoLens \in Seq(Nat) /\ Hand \in Seq(Nat) /\ isr.pkt \in Nat
         /\ Pkts(done) \in Seq(Nat) /\ FifoLens \o Hand \in Seq(Nat)
         /\ InFlight \in Seq(Nat) /\ Len(InFlight) \in Nat
         /\ done \in Seq(RxDone) /\ npkts \in Nat
<1>1. /\ PoolInv /\ ~ stuck /\ done \in Seq(RxDone) /\ isr.pkt \in Nat
      /\ npkts \in Nat
  BY DEF RxInv, RxShape, RxDone
<1>2. FifoLens \in Seq(Nat) /\ Pkts(done) \in Seq(Nat)
  BY <1>1, FifoLensIs, PktsAre
<1>3. Hand \in Seq(Nat)
  BY <1>1 DEF Hand
<1>4. FifoLens \o Hand \in Seq(Nat)
  BY <1>2, <1>3, ConcatProperties
<1> QED
  BY <1>1, <1>2, <1>3, <1>4, ConcatProperties, LenProperties DEF InFlight

LEMMA RxChanKept ==
  ASSUME UNCHANGED <<npkts, last_read>>, InFlight' = InFlight
  PROVE  [Chan!Next]_(Chan!cvars)
<1>1. Up' = Up \/ Up' = ~ Up
  BY DEF Up
<1> QED
  BY <1>1 DEF Chan!cvars, Chan!Next, Chan!Switch

LEMMA RxChanDrops ==
  ASSUME UNCHANGED <<npkts, last_read>>, ~ Up, ~ Up',
         NEW k \in 0 .. Len(InFlight), Len(InFlight) \in Nat,
         InFlight' = SubSeq(InFlight, 1, k)
  PROVE  [Chan!Next]_(Chan!cvars)
<1>1. Up' = Up
  BY DEF Up
<1>2. 1 \in 1 .. Len(InFlight) + 1
  OBVIOUS
<1> QED
  BY <1>1, <1>2 DEF Chan!Next, Chan!Drop

-----------------------------------------------------------------------------
(* The FPGA receives a packet: put in the channel.                         *)
LEMMA ChanReceive ==
  ASSUME RxInv, FpgaReceive
  PROVE  [Chan!Next]_(Chan!cvars)
<1> DEFINE n == npkts + 1
           r == [pbuf |-> Head(posted), pkt |-> n]
<1>1. /\ posted # <<>> /\ done' = Append(done, r) /\ npkts' = n
      /\ UNCHANGED pvars /\ UNCHANGED <<isr, rxen, ioc, last_read>>
  BY DEF FpgaReceive
<1>2. /\ FifoLens \o Hand \in Seq(Nat) /\ Pkts(done) \in Seq(Nat)
      /\ done \in Seq(RxDone) /\ npkts \in Nat /\ posted \in Seq(Int)
  BY FlightParts DEF RxInv, RxShape
<1>3. r \in RxDone /\ r.pkt = n /\ n \in Nat
  BY <1>1, <1>2, HeadTailProperties DEF RxDone
<1> HIDE DEF n, r
<1>4. Pkts(done') = Append(Pkts(done), n)
  BY <1>1, <1>2, <1>3, PktsAppend
<1>5. FifoLens' = FifoLens /\ Hand' = Hand /\ Pkts(done)' = Pkts(done')
  BY <1>1 DEF FifoLens, Lens, Hand, pvars, Pkts
<1>6. InFlight' = Append(InFlight, n)
  BY <1>2, <1>3, <1>4, <1>5, AppendConcat DEF InFlight
<1>7. Up' = Up
  BY <1>1 DEF Up
<1>8. Chan!Put
  BY <1>1, <1>6, <1>7 DEF Chan!Put, n
<1> QED
  BY <1>8 DEF Chan!Next

(* The handler carries the oldest filled buffer to the fifo list.          *)
LEMMA ChanIsrRead ==
  ASSUME RxInv, RxInv', IsrRead
  PROVE  [Chan!Next]_(Chan!cvars)
<1> DEFINE h == Head(done)
           n == h.pkt
           F == FifoLens
<1>1. /\ isr = IsrIdle /\ done # <<>> /\ isr' = h /\ done' = Tail(done)
      /\ UNCHANGED pvars /\ UNCHANGED <<rxen, ioc, npkts, last_read>>
  BY DEF IsrRead
<1>2. F \in Seq(Nat) /\ done \in Seq(RxDone)
  BY FlightParts
<1>3. /\ n \in Nat /\ Pkts(done') \in Seq(Nat)
      /\ Pkts(done) = <<n>> \o Pkts(done')
  BY <1>1, <1>2, PktsTail
<1>4. h # IsrIdle
  <2>1. /\ PoolInv /\ ~ stuck /\ RxHands
        /\ done \in Seq([pbuf : Int, pkt : Nat])
        /\ NoRepeats(Bufs(done))
    BY DEF RxInv, RxShape, RxHands
  <2>2. h.pbuf \in On(Bufs(done))
    BY <1>1, <2>1, BufsTail, BufsAre, TailOfList
  <2>3. h.pbuf \in UsedBufs
    BY <2>1, <2>2 DEF RxHands, FpgaBufs
  <2>4. PICK e \in usedlist : h.pbuf = pentry2pbuf(e)
    BY <2>3 DEF UsedBufs
  <2>5. h.pbuf \in 0 .. Size - 1
    BY <2>1, <2>4, PbufInRegion DEF PoolInv, PoolTypeOK
  <2>6. h.pbuf # NoBuf
    BY <2>5, PoolAssumption DEF NoBuf
  <2> QED
    BY <2>6 DEF IsrIdle
<1>5. Hand = <<>> /\ Hand' = <<n>>
  BY <1>1, <1>4 DEF Hand
<1>6. F' = F /\ Pkts(done)' = Pkts(done')
  BY <1>1 DEF FifoLens, Lens, pvars, Pkts
<1> HIDE DEF n, F
<1>7. InFlight = F \o (<<n>> \o Pkts(done'))
  BY <1>2, <1>3, <1>5, ConcatEmptySeq DEF InFlight, F
<1>8. InFlight' = (F \o <<n>>) \o Pkts(done')
  BY <1>5, <1>6 DEF InFlight, F
<1>9. <<n>> \in Seq(Nat)
  BY <1>3
<1>10. InFlight' = InFlight
  BY <1>2, <1>3, <1>7, <1>8, <1>9, ConcatAssociative
<1> QED
  BY <1>1, <1>10, RxChanKept

LEMMA ChanIsrEnq ==
  ASSUME RxInv, IsrEnq
  PROVE  [Chan!Next]_(Chan!cvars)
<1> DEFINE n == isr.pkt
           F == FifoLens
           d == [len |-> n, ooblen |-> 0, flags |-> 0]
<1>1. /\ PoolInv /\ ~ stuck /\ packet_size > 0 /\ RxHands
      /\ isr # IsrIdle /\ n \in Nat /\ F \in Seq(Nat)
      /\ Pkts(done) \in Seq(Nat)
  BY FlightParts DEF RxInv, IsrEnq
<1>2. isr.pbuf \in UsedBufs
  BY <1>1 DEF RxHands, IsrBuf
<1>3. isr.pbuf \in Int /\ Accepts(isr.pbuf)
  BY <1>1, <1>2, UsedAccepted
<1>4. /\ enqbuf(isr.pbuf, d) /\ isr' = IsrIdle
      /\ UNCHANGED <<done, rxen, ioc, npkts, last_read>>
  BY <1>3, Zenon DEF IsrEnq, refused
<1>5. d \in [len : Nat, ooblen : Nat, flags : Nat] /\ d.len = n
  BY <1>1
<1> HIDE DEF d
<1>6. F' = Append(F, n)
  BY <1>1, <1>3, <1>4, <1>5, FifoLensEnq
<1>7. Hand = <<n>> /\ Hand' = <<>> /\ Pkts(done)' = Pkts(done)
  BY <1>1, <1>4 DEF Hand, Pkts
<1> HIDE DEF n, F
<1>8. F' = F \o <<n>> /\ F' \in Seq(Nat)
  BY <1>1, <1>6, AppendIsConcat, AppendProperties
<1>9. F' \o <<>> = F'
  BY <1>8, ConcatEmptySeq
<1>10. InFlight' = (F' \o <<>>) \o Pkts(done)
  BY <1>7 DEF InFlight, F
<1>11. InFlight = (F \o <<n>>) \o Pkts(done)
  BY <1>7 DEF InFlight, F
<1>12. InFlight' = InFlight
  BY <1>8, <1>9, <1>10, <1>11
<1> QED
  BY <1>4, <1>12, RxChanKept

(* zap_read gets the oldest packet.                                        *)
LEMMA ChanRead ==
  ASSUME RxInv, zap_read
  PROVE  [Chan!Next]_(Chan!cvars)
<1> DEFINE F == FifoLens
           P == Pkts(done)
<1>1. PICK e \in Entries : deqbuf(e) /\ last_read' = desc[e].len
  BY DEF zap_read
<1>2. UNCHANGED <<isr, done, rxen, ioc, npkts>>
  BY DEF zap_read
<1> DEFINE n == desc[e].len
<1>3. n \in Nat /\ F' \in Seq(Nat) /\ F = <<n>> \o F'
  BY <1>1, FifoLensDeq DEF RxInv
<1>4. Hand' = Hand /\ P' = P /\ Hand \in Seq(Nat) /\ P \in Seq(Nat)
  BY <1>2, FlightParts DEF Hand, Pkts
<1>5. InFlight = (F \o Hand) \o P /\ InFlight' = (F' \o Hand) \o P
  BY <1>4 DEF InFlight
<1> HIDE DEF n, F, P
<1>6. <<n>> \in Seq(Nat)
  BY <1>3
<1>7. /\ F' \o Hand \in Seq(Nat) /\ InFlight' \in Seq(Nat)
      /\ (<<n>> \o F') \o Hand = <<n>> \o (F' \o Hand)
  BY <1>3, <1>4, <1>5, <1>6, ConcatProperties, ConcatAssociative
<1>8. (<<n>> \o (F' \o Hand)) \o P = <<n>> \o ((F' \o Hand) \o P)
  BY <1>4, <1>6, <1>7, ConcatAssociative
<1>9. InFlight = <<n>> \o InFlight'
  BY <1>3, <1>5, <1>7, <1>8
<1>10. /\ InFlight # <<>> /\ Head(InFlight) = n
       /\ Tail(InFlight) = InFlight'
  BY <1>3, <1>7, <1>9, OneBefore
<1>11. Up' = Up /\ last_read' = n
  BY <1>1, <1>2 DEF Up, n
<1>12. Chan!Get
  BY <1>2, <1>10, <1>11 DEF Chan!Get
<1> QED
  BY <1>12 DEF Chan!Next

-----------------------------------------------------------------------------
(* The steps that move no packet: the task, the flags of the ioctl, and    *)
(* the reader giving a buffer back.                                        *)
LEMMA ChanStill ==
  ASSUME FifoLens' = FifoLens,
         UNCHANGED <<npkts, last_read, isr, done>>
  PROVE  [Chan!Next]_(Chan!cvars)
<1>1. Hand' = Hand /\ Pkts(done)' = Pkts(done)
  BY DEF Hand, Pkts
<1> QED
  BY <1>1, RxChanKept DEF InFlight

LEMMA ChanWq ==
  ASSUME RxInv, Wq
  PROVE  [Chan!Next]_(Chan!cvars)
<1>1. PoolInv /\ packet_size > 0
  BY DEF RxInv
<1>2. UNCHANGED <<npkts, last_read, isr, done>>
  BY DEF Wq, WqStart, WqLoop, WqGet, WqPut
<1>3. UNCHANGED pvars \/ \E e \in Entries : getbuf(e)
  BY Zenon DEF Wq, WqStart, WqLoop, WqGet, WqPut
<1>4. FifoLens' = FifoLens
  <2>1. CASE UNCHANGED pvars
    BY <2>1 DEF FifoLens, Lens, pvars
  <2>2. ASSUME NEW e \in Entries, getbuf(e) PROVE FifoLens' = FifoLens
    BY <1>1, <2>2, FifoLensKept
  <2> QED
    BY <1>3, <2>1, <2>2
<1> QED
  BY <1>2, <1>4, ChanStill

LEMMA ChanWrite ==
  ASSUME RxInv, NEW p \in user, zap_write(p)
  PROVE  [Chan!Next]_(Chan!cvars)
<1>1. PoolInv /\ ~ stuck /\ packet_size > 0 /\ RxHands
  BY DEF RxInv
<1>2. freebuf(p) \/ ~ Accepts(p)
  BY DEF zap_write, refused
<1>3. p \in UsedBufs
  BY <1>1 DEF RxHands
<1>4. p \in Int /\ freebuf(p)
  BY <1>1, <1>2, <1>3, UsedAccepted
<1>5. FifoLens' = FifoLens
  BY <1>1, <1>4, FifoLensKept
<1>6. UNCHANGED <<npkts, last_read, isr, done>>
  BY DEF zap_write
<1> QED
  BY <1>5, <1>6, ChanStill

LEMMA ChanFlag ==
  ASSUME ~ SMP, RxInv,
         \/ UNCHANGED vars \/ \E c \in Ioctls : zap_ioctl(c)
         \/ StopIntr \/ StopRxOn \/ StopFlushWq \/ StartBusy \/ StartPort
         \/ StartIntr \/ StartOn \/ StartWork
  PROVE  [Chan!Next]_(Chan!cvars)
<1>1. UNCHANGED pvars /\ UNCHANGED <<npkts, last_read, isr>>
  BY DEF vars, pvars, zap_ioctl, StopIntr, StopRxOn, StopFlushWq, StartBusy,
         StartPort, StartIntr, StartOn, StartWork
<1>2. done' = done
  <2>1. CASE StartPort
    <3>1. RxPhases /\ ioc.pc = "start_port" /\ done' = <<>>
      BY <2>1, RxAt DEF StartPort
    <3> QED
      BY <3>1 DEF RxPhases, Stopped
  <2> QED
    BY <2>1 DEF vars, zap_ioctl, StopIntr, StopRxOn, StopFlushWq, StartBusy,
                StartIntr, StartOn, StartWork
<1>3. FifoLens' = FifoLens
  BY <1>1 DEF FifoLens, Lens, pvars
<1> QED
  BY <1>1, <1>2, <1>3, ChanStill

-----------------------------------------------------------------------------
(* The steps that drop packets, all of them inside an ioctl: the reset of  *)
(* the port loses those the FPGA holds, the newest; emptying the pool      *)
(* loses those on the fifo list.                                           *)
LEMMA ChanStopPort ==
  ASSUME ~ SMP, RxInv, StopPort
  PROVE  [Chan!Next]_(Chan!cvars)
<1> DEFINE Kept == FifoLens \o Hand
<1>1. /\ At("rxen_off") /\ rxen' = FALSE /\ done' = <<>>
      /\ UNCHANGED pvars /\ UNCHANGED <<npkts, isr, last_read>>
  BY DEF StopPort
<1>2. ioc.pc = "rxen_off"
  BY <1>1, RxAt
<1>3. ~ Up /\ ~ Up'
  BY <1>1, <1>2 DEF Up, Idle
<1>4. /\ Kept \in Seq(Nat) /\ Pkts(done) \in Seq(Nat)
      /\ Len(InFlight) \in Nat
  BY FlightParts
<1>5. Kept' = Kept /\ Pkts(done)' = <<>>
  BY <1>1 DEF FifoLens, Lens, pvars, Hand, Pkts
<1>6. InFlight = Kept \o Pkts(done) /\ InFlight' = Kept \o <<>>
  BY <1>5 DEF InFlight
<1> HIDE DEF Kept
<1>7. InFlight' = Kept
  BY <1>4, <1>6, ConcatEmptySeq
<1>8. /\ Len(Kept) \in 0 .. Len(InFlight)
      /\ SubSeq(InFlight, 1, Len(Kept)) = Kept
  BY <1>4, <1>6, CutOff
<1> QED
  BY <1>1, <1>3, <1>4, <1>7, <1>8, RxChanDrops

LEMMA ChanFlush ==
  ASSUME ~ SMP, RxInv, StopFlushPool \/ SizeResize \/ StartFlushPool
  PROVE  [Chan!Next]_(Chan!cvars)
<1>1. /\ \/ pool_flush(packet_size, num_packets)
         \/ \E ps \in PacketSizes : pool_resize(ps)
      /\ UNCHANGED <<rxen, done, npkts, isr, last_read>>
  BY DEF StopFlushPool, SizeResize, StartFlushPool
<1>2. PICK l \in {"pool_flush", "resize", "start_flush"} : At(l)
  BY DEF StopFlushPool, SizeResize, StartFlushPool
<1>3. ioc.pc = l /\ isr = IsrIdle /\ RxPhases
  BY <1>2, RxAt
<1>4. done = <<>> /\ ~ rxen
  BY <1>3 DEF RxPhases, Stopped
<1>5. ~ Up /\ ~ Up'
  BY <1>1, <1>4 DEF Up
<1>6. fifolist' = <<>>
  BY <1>1, UsedNone
<1>7. FifoLens' = <<>> /\ Hand' = <<>> /\ Pkts(done)' = <<>>
  BY <1>1, <1>3, <1>4, <1>6 DEF FifoLens, Lens, Hand, Pkts
<1>8. <<>> \o <<>> = <<>>
  OBVIOUS
<1>9. InFlight' = <<>>
  BY <1>7, <1>8 DEF InFlight
<1>10. InFlight \in Seq(Nat) /\ Len(InFlight) \in Nat
  BY FlightParts
<1>11. 0 \in 0 .. Len(InFlight) /\ SubSeq(InFlight, 1, 0) = <<>>
  BY <1>10, SubSeqEmpty
<1> QED
  BY <1>1, <1>5, <1>9, <1>10, <1>11, RxChanDrops

(* The receive path implements the channel, for every pool, every sequence *)
(* of ioctls and any number of packets, on one CPU and with a reader that  *)
(* gives back only what zap_read gave it and leaves the driver alone       *)
(* during an ioctl: zap_read returns every packet once and in the order    *)
(* the FPGA received them (dma_isr adds at the tail of the fifo list,      *)
(* dma_zynq.c:336-347; zap_read takes its head), and packets are dropped   *)
(* only while an ioctl has the port off.                                   *)
THEOREM RxImplementsChannel ==
  ASSUME ~ SMP, ~ Overlap, SizesPositive, MaxForeign = 0
  PROVE  RxSpec => RxIsChannel
<1> DEFINE Inv == RxInv /\ foreign = 0
<1>1. RxInit => Inv /\ Chan!Init
  <2> SUFFICES ASSUME RxInit PROVE Inv /\ Chan!Init
    OBVIOUS
  <2>1. Inv
    BY RxStart DEF RxInit
  <2>2. /\ fifolist = <<>> /\ isr = IsrIdle /\ done = <<>>
        /\ rxen = FALSE /\ npkts = 0 /\ last_read = 0
    BY DEF RxInit, PoolInit
  <2>3. FifoLens = <<>> /\ Hand = <<>> /\ Pkts(done) = <<>>
    BY <2>2 DEF FifoLens, Lens, Hand, Pkts
  <2>4. <<>> \o <<>> = <<>>
    OBVIOUS
  <2>5. InFlight = <<>>
    BY <2>3, <2>4 DEF InFlight
  <2> QED
    BY <2>1, <2>2, <2>5 DEF Chan!Init, Up
<1>2. Inv /\ [RxNext]_vars => Inv' /\ [Chan!Next]_(Chan!cvars)
  <2> SUFFICES ASSUME RxInv, foreign = 0, [RxNext]_vars
               PROVE  Inv' /\ [Chan!Next]_(Chan!cvars)
    OBVIOUS
  <2>1. \A p : zap_write(p) => p \in user /\ foreign' = foreign
    BY DEF zap_write
  <2>2. foreign' = 0
    BY <2>1, RxCounts
  <2>3. Inv'
    BY <2>1, <2>2, RxStep
  <2>4. CASE FpgaReceive \/ Isr
    BY <2>3, <2>4, ChanReceive, ChanIsrRead, ChanIsrEnq DEF Isr
  <2>5. CASE Wq
    BY <2>3, <2>5, ChanWq
  <2>6. CASE zap_read \/ \E p \in 0 .. Size : zap_write(p)
    BY <2>1, <2>3, <2>6, ChanRead, ChanWrite
  <2>7. CASE UNCHANGED vars \/ \E c \in Ioctls : zap_ioctl(c)
    BY <2>3, <2>7, ChanFlag
  <2>8. CASE Ioctl
    BY <2>3, <2>8, ChanFlag, ChanStopPort, ChanFlush DEF Ioctl
  <2> QED
    BY <2>4, <2>5, <2>6, <2>7, <2>8 DEF RxNext
<1> QED
  BY <1>1, <1>2, PTL DEF RxSpec, RxIsChannel, Chan!Spec
=============================================================================

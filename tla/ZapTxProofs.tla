----------------------------- MODULE ZapTxProofs -----------------------------
(***************************************************************************)
(* Proofs about the transmit path (ZapTx), for every pool, every number of *)
(* writers, every FPGA fifo depth and every sequence of positive packet    *)
(* sizes and ioctls on one CPU: every buffer is in one hand and none is    *)
(* lost, and no packet is left on the fifo list with its interrupt off.    *)
(***************************************************************************)
EXTENDS ZapTx, PoolProofs

(* The handler's next step.                                                *)
LEMMA IsrStepIs ==
  ASSUME NEW P, NEW l \in P, IsrStep(l),
         isr \in [pc : P, pbuf : Int, pkt : Nat, free : BOOLEAN]
  PROVE  /\ isr' \in [pc : P, pbuf : Int, pkt : Nat, free : BOOLEAN]
         /\ isr'.pc = l /\ isr'.pbuf = isr.pbuf /\ isr'.pkt = isr.pkt
<1>1. isr' = [isr EXCEPT !.pc = l]
  BY DEF IsrStep
<1>2. isr' \in [pc : P, pbuf : Int, pkt : Nat, free : BOOLEAN]
  BY <1>1, Zenon
<1>3. isr'.pc = l /\ isr'.pbuf = isr.pbuf /\ isr'.pkt = isr.pkt
  BY <1>1, Zenon
<1> QED
  BY <1>2, <1>3

(* A writer gets a buffer nobody has, or parts with one.                   *)
LEMMA UserAdd ==
  ASSUME user \in [Writers -> SUBSET Int], NEW w \in Writers, NEW p \in Int,
         p \notin UserBufs, Apart, user' = [user EXCEPT ![w] = @ \cup {p}]
  PROVE  /\ user' \in [Writers -> SUBSET Int] /\ Apart'
         /\ UserBufs' = UserBufs \cup {p}
<1>1. \A v \in Writers : p \notin user[v]
  BY DEF UserBufs
<1>2. \A v \in Writers : user'[v] = IF v = w THEN user[v] \cup {p} ELSE user[v]
  OBVIOUS
<1>3. user' \in [Writers -> SUBSET Int]
  OBVIOUS
<1>4. Apart'
  BY <1>1, <1>2 DEF Apart
<1>5. UserBufs' = UserBufs \cup {p}
  BY <1>2 DEF UserBufs
<1> QED
  BY <1>3, <1>4, <1>5

LEMMA UserDel ==
  ASSUME user \in [Writers -> SUBSET Int], NEW w \in Writers, NEW p \in user[w],
         Apart, user' = [user EXCEPT ![w] = @ \ {p}]
  PROVE  /\ user' \in [Writers -> SUBSET Int] /\ Apart'
         /\ UserBufs' = UserBufs \ {p} /\ p \in UserBufs
<1>1. \A v \in Writers : v # w => p \notin user[v]
  BY DEF Apart
<1>2. \A v \in Writers : user'[v] = user[v] \ {p}
  BY <1>1
<1>3. user' \in [Writers -> SUBSET Int]
  OBVIOUS
<1>4. Apart'
  BY <1>2 DEF Apart
<1>5. UserBufs' = UserBufs \ {p} /\ p \in UserBufs
  BY <1>2 DEF UserBufs
<1> QED
  BY <1>3, <1>4, <1>5

(* The next step of the ioctl.                                             *)
LEMMA TxThen ==
  ASSUME TxTypes, ioc.cmd # "none",
         NEW l \in {"idle", "txen_off", "start_intr"} \cup Stopped, Then(l)
  PROVE  /\ ioc' \in [pc : {"idle", "txen_off", "start_intr"} \cup Stopped,
                      cmd : {"none", "on", "off", "size"}]
         /\ IF ioc'.pc = "idle" THEN ioc' = Idle ELSE ioc'.cmd # "none"
         /\ ioc'.pc = l
<1> DEFINE P == {"idle", "txen_off", "start_intr"} \cup Stopped
           C == {"none", "on", "off", "size"}
<1>1. ioc \in [pc : P, cmd : C] /\ l \in P
  BY DEF TxTypes
<1>2. Idle \in [pc : P, cmd : C] /\ Idle.pc = "idle"
  BY DEF Idle
<1> HIDE DEF P, C
<1>3. CASE l = "idle"
  <2>1. ioc' = Idle
    BY <1>3, Zenon DEF Then
  <2> QED
    BY <1>2, <1>3, <2>1 DEF P, C
<1>4. CASE l # "idle"
  <2>1. ioc' = [ioc EXCEPT !.pc = l]
    BY <1>4, Zenon DEF Then
  <2>2. ioc' \in [pc : P, cmd : C] /\ ioc'.pc = l /\ ioc'.cmd = ioc.cmd
    BY <1>1, <2>1, Zenon
  <2> QED
    BY <1>4, <2>2 DEF P, C
<1> QED
  BY <1>3, <1>4

-----------------------------------------------------------------------------
LEMMA TxStart ==
  ASSUME SizesPositive, TxInit
  PROVE  TxInv
<1>1. PoolInv /\ ~ stuck /\ packet_size > 0 /\ usedlist = {} /\ fifolist = <<>>
  BY PoolStart DEF TxInit, PoolInit, SizesPositive
<1>2. UsedBufs = {}
  BY <1>1 DEF UsedBufs
<1>3. /\ sending = <<>> /\ sent = <<>> /\ isr = IsrIdle /\ kick = {}
      /\ user = [w \in Writers |-> {}] /\ ioc = Idle /\ npkts = 0
      /\ txen = FALSE
  BY DEF TxInit
<1>4. IsrIdle.pc = "idle" /\ IsrIdle.pbuf = NoBuf /\ Idle.pc = "idle"
  BY DEF IsrIdle, Idle
<1>5. /\ On(sending) = {} /\ On(sent) = {}
      /\ NoRepeats(sending) /\ NoRepeats(sent)
  BY <1>3 DEF On, NoRepeats
<1>6. FpgaBufs = {} /\ IsrBuf = {} /\ UserBufs = {} /\ Apart
  BY <1>3, <1>4, <1>5 DEF FpgaBufs, IsrBuf, UserBufs, Apart
<1>7. TxHands
  BY <1>2, <1>5, <1>6 DEF TxHands
<1>8. TxShape
  <2>1. /\ Idle \in [pc : {"idle", "txen_off", "start_intr"} \cup Stopped,
                     cmd : {"none", "on", "off", "size"}]
        /\ IsrIdle \in [pc : {"idle", "full", "deq", "tbar", "retest", "clr",
                              "free", "freebuf"},
                        pbuf : Int, pkt : Nat, free : BOOLEAN]
    BY DEF Idle, IsrIdle, NoBuf
  <2>2. sending \in Seq(Int) /\ sent \in Seq(Int)
    BY <1>3
  <2>3. user \in [Writers -> SUBSET Int]
    BY <1>3
  <2> QED
    BY <1>3, <1>4, <2>1, <2>2, <2>3 DEF TxShape, TxTypes
<1>9. TxPhases
  BY <1>3, <1>4 DEF TxPhases, Stopped
<1> QED
  BY <1>1, <1>7, <1>8, <1>9 DEF TxInv, OneCpuInv, TxInit

(* A step that moves no buffer.                                            *)
LEMMA TxNoMove ==
  ASSUME OneCpuInv, UNCHANGED pvars, TxShape', TxPhases',
         UNCHANGED <<sending, sent, user>>, isr'.pbuf = isr.pbuf,
         ioc.pc \in {"clr_free", "pool_flush"} =>
           ioc'.pc \in {"clr_free", "pool_flush"}
  PROVE  OneCpuInv'
<1>1. PoolInv /\ ~ stuck /\ packet_size > 0 /\ TxHands
  BY DEF OneCpuInv
<1>2. PoolInv' /\ ~ stuck' /\ packet_size' > 0 /\ UsedBufs' = UsedBufs
  BY <1>1, PoolKept
<1>3. /\ IsrBuf' = IsrBuf /\ UserBufs' = UserBufs /\ FpgaBufs' = FpgaBufs
      /\ On(sending)' = On(sending) /\ On(sent)' = On(sent)
      /\ NoRepeats(sending)' = NoRepeats(sending)
      /\ NoRepeats(sent)' = NoRepeats(sent) /\ Apart' = Apart
  BY DEF IsrBuf, UserBufs, FpgaBufs, Apart, On, NoRepeats
<1>4. TxHands'
  BY <1>1, <1>2, <1>3 DEF TxHands
<1> QED
  BY <1>2, <1>4 DEF OneCpuInv

-----------------------------------------------------------------------------
(* The FPGA sends a buffer.                                                *)
LEMMA TxFpgaSend ==
  ASSUME OneCpuInv, FpgaSend
  PROVE  OneCpuInv'
<1> DEFINE h == Head(sending)
<1>1. /\ PoolInv /\ ~ stuck /\ packet_size > 0 /\ TxShape /\ TxPhases /\ TxHands
      /\ sending \in Seq(Int) /\ sent \in Seq(Int)
      /\ NoRepeats(sending) /\ NoRepeats(sent) /\ On(sending) \cap On(sent) = {}
  BY DEF OneCpuInv, TxShape, TxTypes, TxHands
<1>2. /\ txen /\ sending # <<>> /\ sent' = Append(sent, h)
      /\ sending' = Tail(sending) /\ UNCHANGED pvars
      /\ UNCHANGED <<txen, msk_full, isr, kick, user, ioc, npkts>>
  BY DEF FpgaSend
<1>3. /\ h \in Int /\ h \in On(sending) /\ sending' \in Seq(Int)
      /\ NoRepeats(sending') /\ On(sending') = On(sending) \ {h}
  BY <1>1, <1>2, TailOfList
<1> HIDE DEF h
<1>4. /\ sent' \in Seq(Int) /\ NoRepeats(sent')
      /\ On(sent') = On(sent) \cup {h}
  BY <1>1, <1>2, <1>3, AppendToList
<1>5. /\ NoRepeats(sending)' /\ NoRepeats(sent)'
      /\ On(sending)' = On(sending) \ {h} /\ On(sent)' = On(sent) \cup {h}
  BY <1>3, <1>4 DEF On, NoRepeats
<1>6. FpgaBufs' = FpgaBufs /\ On(sending)' \cap On(sent)' = {}
  BY <1>1, <1>3, <1>5 DEF FpgaBufs
<1>7. IsrBuf' = IsrBuf /\ UserBufs' = UserBufs /\ Apart' = Apart
  BY <1>2 DEF IsrBuf, UserBufs, Apart
<1>8. PoolInv' /\ ~ stuck' /\ packet_size' > 0 /\ UsedBufs' = UsedBufs
  BY <1>1, <1>2, PoolKept
<1>9. TxHands'
  BY <1>1, <1>2, <1>5, <1>6, <1>7, <1>8 DEF TxHands
<1>10. TxShape'
  BY <1>1, <1>2, <1>3, <1>4 DEF TxShape, TxTypes
<1>11. TxPhases'
  BY <1>1, <1>2 DEF TxPhases
<1> QED
  BY <1>8, <1>9, <1>10, <1>11 DEF OneCpuInv
-----------------------------------------------------------------------------
(* The handler.                                                            *)
LEMMA TxIsrEnter ==
  ASSUME OneCpuInv, IsrEnter
  PROVE  OneCpuInv'
<1>1. TxShape /\ TxPhases
  BY DEF OneCpuInv
<1>2. /\ isr = IsrIdle /\ (txen \/ sent # <<>>) /\ UNCHANGED pvars
      /\ UNCHANGED <<txen, msk_full, sending, sent, kick, user, ioc, npkts>>
      /\ isr' = [pc |-> IF msk_full /\ int_full THEN "full" ELSE "free",
                 pbuf |-> NoBuf, pkt |-> 0, free |-> msk_free /\ int_free]
  BY DEF IsrEnter, int_full, int_free
<1>3. txen
  BY <1>1, <1>2 DEF TxPhases
<1>4. /\ isr'.pc \in {"full", "free"} /\ isr'.pbuf = NoBuf /\ isr.pbuf = NoBuf
      /\ isr' \in [pc : {"full", "free"}, pbuf : Int, pkt : Nat, free : BOOLEAN]
  BY <1>2 DEF IsrIdle, NoBuf
<1>5. isr' \in [pc : {"idle", "full", "deq", "tbar", "retest", "clr", "free",
                      "freebuf"}, pbuf : Int, pkt : Nat, free : BOOLEAN]
  BY <1>4
<1>6. TxShape'
  BY <1>1, <1>2, <1>4, <1>5 DEF TxShape, TxTypes
<1>7. TxPhases'
  BY <1>1, <1>2, <1>3 DEF TxPhases
<1> QED
  BY <1>2, <1>4, <1>6, <1>7, TxNoMove

(* Its tests of the fifo list and the clearing of TX_FULL_RDY.             *)
LEMMA TxIsrTest ==
  ASSUME OneCpuInv, IsrFull \/ IsrRetest \/ IsrClr
  PROVE  OneCpuInv'
<1>1. TxShape /\ TxPhases
  BY DEF OneCpuInv
<1>2. PICK l \in {"deq", "clr", "free"} :
        /\ IsrStep(l) /\ isr.pc \in {"full", "retest", "clr"}
        /\ l = "clr" => fifolist = <<>>
        /\ msk_full' = msk_full \/ isr.pc = "clr"
  <2>1. CASE IsrFull
    BY <2>1 DEF IsrFull, IsrAt, pool_fifo_buf_available
  <2>2. CASE IsrRetest
    BY <2>2 DEF IsrRetest, IsrAt, pool_fifo_buf_available
  <2>3. CASE IsrClr
    BY <2>3 DEF IsrClr, IsrAt
  <2> QED
    BY <2>1, <2>2, <2>3
<1>3. /\ UNCHANGED pvars
      /\ UNCHANGED <<txen, sending, sent, kick, user, ioc, npkts>>
  BY DEF IsrFull, IsrRetest, IsrClr
<1>4. /\ isr' \in [pc : {"idle", "full", "deq", "tbar", "retest", "clr", "free",
                         "freebuf"}, pbuf : Int, pkt : Nat, free : BOOLEAN]
      /\ isr'.pc = l /\ isr'.pbuf = isr.pbuf
  <2> DEFINE P == {"idle", "full", "deq", "tbar", "retest", "clr", "free",
                   "freebuf"}
  <2>1. l \in P /\ isr \in [pc : P, pbuf : Int, pkt : Nat, free : BOOLEAN]
    BY <1>1, <1>2 DEF TxShape, TxTypes
  <2> HIDE DEF P
  <2>2. /\ isr' \in [pc : P, pbuf : Int, pkt : Nat, free : BOOLEAN]
        /\ isr'.pc = l /\ isr'.pbuf = isr.pbuf
    BY <1>2, <2>1, IsrStepIs
  <2> QED
    BY <2>2 DEF P
<1>5. TxShape'
  BY <1>1, <1>2, <1>3, <1>4 DEF TxShape, TxTypes
<1>6. isr # IsrIdle
  BY <1>2 DEF IsrIdle
<1>7. TxPhases'
  BY <1>1, <1>3, <1>6 DEF TxPhases
<1> QED
  BY <1>3, <1>4, <1>5, <1>7, TxNoMove

(* pool_deqbuf_try: the handler takes a buffer nobody has.                 *)
LEMMA TxIsrDeq ==
  ASSUME OneCpuInv, IsrDeq
  PROVE  OneCpuInv'
<1>1. /\ PoolInv /\ ~ stuck /\ packet_size > 0 /\ TxShape /\ TxPhases /\ TxHands
  BY DEF OneCpuInv
<1>2. /\ isr.pc = "deq"
      /\ UNCHANGED <<txen, msk_full, sending, sent, kick, user, ioc, npkts>>
  BY DEF IsrDeq, IsrAt
<1>3. isr.pbuf = NoBuf /\ isr # IsrIdle
  BY <1>1, <1>2 DEF TxShape, TxTypes, IsrIdle
<1>4. txen
  BY <1>1, <1>3 DEF TxPhases
<1>5. CASE isr' = IsrIdle /\ UNCHANGED pvars
  <2>1. /\ isr'.pc = "idle" /\ isr'.pbuf = NoBuf
        /\ isr' \in [pc : {"idle", "full", "deq", "tbar", "retest", "clr",
                           "free", "freebuf"},
                     pbuf : Int, pkt : Nat, free : BOOLEAN]
    BY <1>5 DEF IsrIdle, NoBuf
  <2>2. TxShape'
    BY <1>1, <1>2, <1>5, <2>1 DEF TxShape, TxTypes
  <2>3. TxPhases'
    BY <1>1, <1>2, <1>5 DEF TxPhases
  <2> QED
    BY <1>2, <1>3, <1>5, <2>1, <2>2, <2>3, TxNoMove
<1>6. CASE \E e \in Entries :
             /\ deqbuf(e)
             /\ isr' = [isr EXCEPT !.pc = "tbar", !.pbuf = pentry2pbuf(e),
                                   !.pkt = desc[e].len]
  <2>1. PICK e \in Entries :
             /\ deqbuf(e)
             /\ isr' = [isr EXCEPT !.pc = "tbar", !.pbuf = pentry2pbuf(e),
                                   !.pkt = desc[e].len]
    BY <1>6
  <2> DEFINE p == pentry2pbuf(e)
             P == {"idle", "full", "deq", "tbar", "retest", "clr", "free",
                   "freebuf"}
  <2>2. PoolInv'
    BY <1>1, <2>1, DeqInv
  <2>3. /\ p \in Int /\ p \notin UsedBufs /\ UsedBufs' = UsedBufs \cup {p}
        /\ ~ stuck' /\ packet_size' = packet_size
    BY <1>1, <2>1, UsedTake, Zenon
  <2>4. p # NoBuf
    BY <1>1, PbufInRegion DEF NoBuf
  <2>5. desc[e].len \in Nat
    <3>1. desc[e] \in [len : Nat, ooblen : Nat, flags : Nat]
      BY <1>1 DEF PoolInv, PoolTypeOK
    <3> QED
      BY <3>1
  <2>6. isr \in [pc : P, pbuf : Int, pkt : Nat, free : BOOLEAN] /\ "tbar" \in P
    BY <1>1 DEF TxShape, TxTypes
  <2>7. isr' \in [pc : P, pbuf : Int, pkt : Nat, free : BOOLEAN]
    <3> DEFINE n == desc[e].len
    <3>1. isr' = [isr EXCEPT !.pc = "tbar", !.pbuf = p, !.pkt = n]
      BY <2>1
    <3>2. n \in Nat
      BY <2>5
    <3> HIDE DEF p, n, P
    <3> QED
      BY <2>3, <2>6, <3>1, <3>2, Zenon
  <2>8. isr'.pc = "tbar" /\ isr'.pbuf = p
    BY <2>1, <2>6, Zenon
  <2>9. fifolist # <<>>
    BY <2>1 DEF deqbuf, pool_fifo_buf_available
  <2> HIDE DEF p
  <2>10. IsrBuf = {} /\ IsrBuf' = {p}
    BY <1>3, <2>4, <2>8 DEF IsrBuf
  <2>11. /\ UserBufs' = UserBufs /\ FpgaBufs' = FpgaBufs
         /\ On(sending)' = On(sending) /\ On(sent)' = On(sent)
         /\ NoRepeats(sending)' = NoRepeats(sending)
         /\ NoRepeats(sent)' = NoRepeats(sent) /\ Apart' = Apart
    BY <1>2 DEF UserBufs, FpgaBufs, Apart, On, NoRepeats
  <2>12. TxHands'
    BY <1>1, <1>2, <2>3, <2>10, <2>11 DEF TxHands
  <2>13. TxShape'
    BY <1>1, <1>2, <2>4, <2>7, <2>8 DEF TxShape, TxTypes
  <2>14. TxPhases'
    BY <1>1, <1>2, <1>4 DEF TxPhases
  <2> QED
    BY <1>1, <2>2, <2>3, <2>12, <2>13, <2>14 DEF OneCpuInv
<1> QED
  BY <1>5, <1>6 DEF IsrDeq

(* TBAR: the port is on, so the FPGA takes the buffer.                     *)
LEMMA TxIsrTbar ==
  ASSUME OneCpuInv, IsrTbar
  PROVE  OneCpuInv'
<1> DEFINE p == isr.pbuf
           P == {"idle", "full", "deq", "tbar", "retest", "clr", "free",
                 "freebuf"}
<1>1. /\ PoolInv /\ ~ stuck /\ packet_size > 0 /\ TxShape /\ TxPhases /\ TxHands
      /\ sending \in Seq(Int) /\ NoRepeats(sending)
      /\ isr \in [pc : P, pbuf : Int, pkt : Nat, free : BOOLEAN]
  BY DEF OneCpuInv, TxShape, TxTypes, TxHands
<1>2. /\ isr.pc = "tbar" /\ UNCHANGED pvars
      /\ sending' = IF txen THEN Append(sending, p) ELSE sending
      /\ isr' = [isr EXCEPT !.pc = "retest", !.pbuf = NoBuf, !.pkt = 0]
      /\ UNCHANGED <<txen, msk_full, sent, kick, user, ioc, npkts>>
  BY DEF IsrTbar, IsrAt
<1>3. p # NoBuf /\ isr # IsrIdle /\ p \in Int
  BY <1>1, <1>2 DEF TxShape, TxTypes, IsrIdle
<1>4. txen /\ sending' = Append(sending, p)
  BY <1>1, <1>2, <1>3 DEF TxPhases
<1>5. isr'.pc = "retest" /\ isr'.pbuf = NoBuf
  BY <1>1, <1>2, Zenon
<1>6. isr' \in [pc : P, pbuf : Int, pkt : Nat, free : BOOLEAN]
  <2>1. NoBuf \in Int /\ 0 \in Nat /\ "retest" \in P
    BY DEF NoBuf
  <2> HIDE DEF P
  <2> QED
    BY <1>1, <1>2, <2>1, Zenon
<1> HIDE DEF p
<1>7. IsrBuf = {p} /\ IsrBuf' = {}
  BY <1>3, <1>5 DEF IsrBuf, p
<1>8. p \in UsedBufs /\ p \notin FpgaBufs /\ p \notin UserBufs
  BY <1>1, <1>7 DEF TxHands
<1>9. /\ sending' \in Seq(Int) /\ NoRepeats(sending')
      /\ On(sending') = On(sending) \cup {p}
  BY <1>1, <1>3, <1>4, <1>8, AppendToList DEF FpgaBufs
<1>10. /\ NoRepeats(sending)' /\ On(sending)' = On(sending) \cup {p}
       /\ NoRepeats(sent)' = NoRepeats(sent) /\ On(sent)' = On(sent)
       /\ UserBufs' = UserBufs /\ Apart' = Apart
  <2>1. UNCHANGED <<sent, user>>
    BY <1>2
  <2> QED
    BY <1>9, <2>1 DEF On, NoRepeats, UserBufs, Apart
<1>11. FpgaBufs' = FpgaBufs \cup {p} /\ On(sending)' \cap On(sent)' = {}
  BY <1>1, <1>8, <1>10 DEF FpgaBufs, TxHands
<1>12. PoolInv' /\ ~ stuck' /\ packet_size' > 0 /\ UsedBufs' = UsedBufs
  BY <1>1, <1>2, PoolKept
<1>13. TxHands'
  BY <1>1, <1>2, <1>7, <1>8, <1>10, <1>11, <1>12 DEF TxHands
<1>14. TxShape'
  BY <1>1, <1>2, <1>5, <1>6, <1>9 DEF TxShape, TxTypes
<1>15. TxPhases'
  BY <1>1, <1>2, <1>4 DEF TxPhases
<1> QED
  BY <1>12, <1>13, <1>14, <1>15 DEF OneCpuInv
(* TBAR read back: a sent buffer passes to the handler.                    *)
LEMMA TxIsrFree ==
  ASSUME OneCpuInv, IsrFree
  PROVE  OneCpuInv'
<1> DEFINE h == Head(sent)
           P == {"idle", "full", "deq", "tbar", "retest", "clr", "free",
                 "freebuf"}
<1>1. /\ PoolInv /\ ~ stuck /\ packet_size > 0 /\ TxShape /\ TxPhases /\ TxHands
      /\ sent \in Seq(Int) /\ NoRepeats(sent)
      /\ isr \in [pc : P, pbuf : Int, pkt : Nat, free : BOOLEAN]
  BY DEF OneCpuInv, TxShape, TxTypes, TxHands
<1>2. /\ isr.pc = "free" /\ UNCHANGED pvars
      /\ UNCHANGED <<txen, msk_full, sending, kick, user, ioc, npkts>>
  BY DEF IsrFree, IsrAt
<1>3. isr.pbuf = NoBuf /\ isr # IsrIdle
  BY <1>1, <1>2 DEF TxShape, TxTypes, IsrIdle
<1>4. txen
  BY <1>1, <1>3 DEF TxPhases
<1>5. CASE isr' = IsrIdle /\ UNCHANGED sent
  <2>1. isr'.pc = "idle" /\ isr'.pbuf = NoBuf
        /\ isr' \in [pc : P, pbuf : Int, pkt : Nat, free : BOOLEAN]
    BY <1>5 DEF IsrIdle, NoBuf
  <2>2. TxShape'
    BY <1>1, <1>2, <1>5, <2>1 DEF TxShape, TxTypes
  <2>3. TxPhases'
    BY <1>1, <1>2, <1>5 DEF TxPhases
  <2> QED
    BY <1>2, <1>3, <1>5, <2>1, <2>2, <2>3, TxNoMove
<1>6. CASE /\ sent # <<>> /\ sent' = Tail(sent)
           /\ isr' = [isr EXCEPT !.pc = "freebuf", !.pbuf = h]
  <2>1. /\ h \in Int /\ h \in On(sent) /\ sent' \in Seq(Int)
        /\ NoRepeats(sent') /\ On(sent') = On(sent) \ {h}
    BY <1>1, <1>6, TailOfList
  <2> HIDE DEF h
  <2>2. isr'.pc = "freebuf" /\ isr'.pbuf = h
    BY <1>1, <1>6, Zenon
  <2>3. isr' \in [pc : P, pbuf : Int, pkt : Nat, free : BOOLEAN]
    <3>1. "freebuf" \in P
      OBVIOUS
    <3> HIDE DEF P
    <3> QED
      BY <1>1, <1>6, <2>1, <3>1, Zenon
  <2>4. h \in UsedBufs /\ h \in FpgaBufs
    BY <1>1, <2>1 DEF TxHands, FpgaBufs
  <2>5. h # NoBuf
    <3>1. PICK e \in usedlist : h = pentry2pbuf(e)
      BY <2>4 DEF UsedBufs
    <3>2. e \in Entries
      BY <1>1, <3>1 DEF PoolInv, PoolTypeOK
    <3>3. h \in 0 .. Size - 1
      BY <1>1, <3>1, <3>2, PbufInRegion
    <3> QED
      BY <3>3, PoolAssumption DEF NoBuf
  <2>6. IsrBuf = {} /\ IsrBuf' = {h}
    BY <1>3, <2>2, <2>5 DEF IsrBuf
  <2>7. /\ NoRepeats(sent)' /\ On(sent)' = On(sent) \ {h}
        /\ NoRepeats(sending)' = NoRepeats(sending)
        /\ On(sending)' = On(sending)
        /\ UserBufs' = UserBufs /\ Apart' = Apart
    BY <1>2, <2>1 DEF On, NoRepeats, UserBufs, Apart
  <2>8. FpgaBufs' = FpgaBufs \ {h} /\ On(sending)' \cap On(sent)' = {}
    BY <1>1, <2>1, <2>7 DEF FpgaBufs, TxHands
  <2>9. PoolInv' /\ ~ stuck' /\ packet_size' > 0 /\ UsedBufs' = UsedBufs
    BY <1>1, <1>2, PoolKept
  <2>10. TxHands'
    BY <1>1, <1>2, <2>4, <2>6, <2>7, <2>8, <2>9 DEF TxHands
  <2>11. TxShape'
    BY <1>1, <1>2, <2>1, <2>2, <2>3, <2>5 DEF TxShape, TxTypes
  <2>12. TxPhases'
    BY <1>1, <1>2, <1>4 DEF TxPhases
  <2> QED
    BY <2>9, <2>10, <2>11, <2>12 DEF OneCpuInv
<1> QED
  BY <1>5, <1>6, Zenon DEF IsrFree

(* pool_freebuf in the handler never fails.                                *)
LEMMA TxIsrFreebuf ==
  ASSUME OneCpuInv, IsrFreebuf
  PROVE  OneCpuInv'
<1> DEFINE p == isr.pbuf
<1>1. /\ PoolInv /\ ~ stuck /\ packet_size > 0 /\ TxShape /\ TxPhases /\ TxHands
  BY DEF OneCpuInv
<1>2. /\ isr.pc = "freebuf" /\ isr' = IsrIdle
      /\ freebuf(p) \/ (~ Accepts(p) /\ UNCHANGED pvars)
      /\ UNCHANGED <<txen, msk_full, sending, sent, kick, user, ioc, npkts>>
  BY DEF IsrFreebuf, IsrAt, refused
<1>3. p # NoBuf
  BY <1>1, <1>2 DEF TxShape, TxTypes
<1>4. IsrBuf = {p} /\ IsrBuf' = {}
  BY <1>2, <1>3 DEF IsrBuf, IsrIdle
<1> HIDE DEF p
<1>5. p \in UsedBufs
  BY <1>1, <1>4 DEF TxHands
<1>6. p \in Int /\ freebuf(p)
  BY <1>1, <1>2, <1>5, UsedAccepted
<1>7. PoolInv' /\ fifolist' = fifolist
  BY <1>1, <1>6, FreeInv, FreeKeepsFifo
<1>8. UsedBufs' = UsedBufs \ {p} /\ ~ stuck' /\ packet_size' = packet_size
  BY <1>1, <1>6, UsedGive, Zenon
<1>9. /\ UserBufs' = UserBufs /\ FpgaBufs' = FpgaBufs
      /\ On(sending)' = On(sending) /\ On(sent)' = On(sent)
      /\ NoRepeats(sending)' = NoRepeats(sending)
      /\ NoRepeats(sent)' = NoRepeats(sent) /\ Apart' = Apart
  BY <1>2 DEF UserBufs, FpgaBufs, Apart, On, NoRepeats
<1>10. TxHands'
  BY <1>1, <1>2, <1>4, <1>8, <1>9 DEF TxHands
<1>11. TxShape'
  BY <1>1, <1>2 DEF TxShape, TxTypes, IsrIdle, NoBuf
<1>12. TxPhases'
  BY <1>1, <1>2 DEF TxPhases
<1> QED
  BY <1>1, <1>7, <1>8, <1>10, <1>11, <1>12 DEF OneCpuInv

-----------------------------------------------------------------------------
(* The writers.                                                            *)
LEMMA TxRead ==
  ASSUME ~ smp, OneCpuInv, NEW w \in Writers, zap_read(w)
  PROVE  OneCpuInv'
<1>1. /\ PoolInv /\ ~ stuck /\ packet_size > 0 /\ TxShape /\ TxPhases /\ TxHands
      /\ user \in [Writers -> SUBSET Int] /\ Apart
  BY DEF OneCpuInv, TxShape, TxTypes, TxHands
<1>2. PICK e \in Entries :
        /\ getbuf(e)
        /\ user' = [user EXCEPT ![w] = @ \cup {pentry2pbuf(e)}]
  BY DEF zap_read
<1>3. /\ ioc = Idle
      /\ UNCHANGED <<txen, msk_full, sending, sent, isr, kick, ioc, npkts>>
  BY DEF zap_read
<1> DEFINE p == pentry2pbuf(e)
<1>4. PoolInv' /\ fifolist' = fifolist
  BY <1>1, <1>2, GetInv DEF getbuf
<1>5. /\ p \in Int /\ p \notin UsedBufs /\ UsedBufs' = UsedBufs \cup {p}
      /\ ~ stuck' /\ packet_size' = packet_size
  BY <1>1, <1>2, UsedTake, Zenon
<1>6. user' = [user EXCEPT ![w] = @ \cup {p}]
  BY <1>2
<1> HIDE DEF p
<1>7. p \notin UserBufs
  BY <1>1, <1>5 DEF TxHands
<1>8. /\ user' \in [Writers -> SUBSET Int] /\ Apart'
      /\ UserBufs' = UserBufs \cup {p}
  BY <1>1, <1>5, <1>6, <1>7, UserAdd
<1>9. /\ IsrBuf' = IsrBuf /\ FpgaBufs' = FpgaBufs
      /\ On(sending)' = On(sending) /\ On(sent)' = On(sent)
      /\ NoRepeats(sending)' = NoRepeats(sending)
      /\ NoRepeats(sent)' = NoRepeats(sent)
  BY <1>3 DEF IsrBuf, FpgaBufs, On, NoRepeats
<1>10. TxHands'
  BY <1>1, <1>3, <1>5, <1>8, <1>9 DEF TxHands
<1>11. TxShape'
  BY <1>1, <1>3, <1>8 DEF TxShape, TxTypes
<1>12. TxPhases'
  BY <1>1, <1>3 DEF TxPhases
<1> QED
  BY <1>1, <1>4, <1>5, <1>10, <1>11, <1>12 DEF OneCpuInv

(* Giving a buffer back, or enqueueing it and being about to kick.         *)
LEMMA TxGive ==
  ASSUME ~ smp, OneCpuInv, NEW w \in Writers, NEW p \in user[w],
         zap_write_free(w, p) \/ zap_write(w, p)
  PROVE  OneCpuInv'
<1>1. /\ PoolInv /\ ~ stuck /\ packet_size > 0 /\ TxShape /\ TxPhases /\ TxHands
      /\ user \in [Writers -> SUBSET Int] /\ Apart /\ npkts \in Nat
  BY DEF OneCpuInv, TxShape, TxTypes, TxHands
<1> DEFINE d == [len |-> npkts + 1, ooblen |-> 0, flags |-> 0]
<1>2. /\ d \in [len : Nat, ooblen : Nat, flags : Nat]
  BY <1>1
<1>3. /\ ioc = Idle /\ isr = IsrIdle
      /\ UNCHANGED <<txen, msk_full, sending, sent, isr, ioc>>
  BY DEF zap_write_free, zap_write, CPUFree
<1>4. /\ user' = [user EXCEPT ![w] = @ \ {p}]
      /\ \/ /\ freebuf(p) \/ ~ Accepts(p)
            /\ kick' = kick /\ npkts' = npkts
         \/ enqbuf(p, d) /\ kick' = kick \cup {w} /\ npkts' = npkts + 1
  <2>1. CASE zap_write_free(w, p)
    BY <2>1 DEF zap_write_free, Gives, refused
  <2>2. CASE zap_write(w, p)
    BY <2>2, Zenon DEF zap_write, Gives
  <2> QED
    BY <2>1, <2>2
<1> HIDE DEF d
<1>5. /\ user' \in [Writers -> SUBSET Int] /\ Apart'
      /\ UserBufs' = UserBufs \ {p} /\ p \in UserBufs
  BY <1>1, <1>4, UserDel
<1>6. p \in UsedBufs /\ p \in Int /\ (freebuf(p) \/ enqbuf(p, d))
  BY <1>1, <1>4, <1>5, UsedAccepted DEF TxHands
<1>7. PoolInv'
  BY <1>1, <1>2, <1>6, FreeInv, EnqInv
<1>8. UsedBufs' = UsedBufs \ {p} /\ ~ stuck' /\ packet_size' = packet_size
  BY <1>1, <1>6, UsedGive, Zenon
<1>9. /\ IsrBuf' = IsrBuf /\ FpgaBufs' = FpgaBufs
      /\ On(sending)' = On(sending) /\ On(sent)' = On(sent)
      /\ NoRepeats(sending)' = NoRepeats(sending)
      /\ NoRepeats(sent)' = NoRepeats(sent)
  BY <1>3 DEF IsrBuf, FpgaBufs, On, NoRepeats
<1>10. TxHands'
  BY <1>1, <1>3, <1>5, <1>8, <1>9 DEF TxHands
<1>11. TxShape'
  BY <1>1, <1>3, <1>4, <1>5 DEF TxShape, TxTypes
<1>12. TxPhases'
  BY <1>1, <1>3 DEF TxPhases
<1> QED
  BY <1>1, <1>7, <1>8, <1>10, <1>11, <1>12 DEF OneCpuInv
(* A refused write, and dma_ll_tx_write_buf.                               *)
LEMMA TxKick ==
  ASSUME ~ smp, OneCpuInv, NEW w \in Writers,
         zap_write_refused(w) \/ dma_ll_tx_write_buf(w)
  PROVE  OneCpuInv'
<1>1. TxShape /\ TxPhases
  BY DEF OneCpuInv
<1>2. /\ UNCHANGED pvars
      /\ UNCHANGED <<txen, sending, sent, isr, user, ioc, npkts>>
      /\ kick' \subseteq kick \cup {w} /\ (msk_full' \/ w \in kick')
      /\ ioc = Idle \/ w \in kick
  BY DEF zap_write_refused, dma_ll_tx_write_buf
<1>3. ioc = Idle
  BY <1>1, <1>2 DEF TxPhases
<1>4. TxShape'
  BY <1>1, <1>2 DEF TxShape, TxTypes
<1>5. TxPhases'
  BY <1>1, <1>2, <1>3 DEF TxPhases
<1> QED
  BY <1>2, <1>4, <1>5, TxNoMove

-----------------------------------------------------------------------------
(* The ioctl.                                                              *)
LEMMA TxIoctlStarts ==
  ASSUME OneCpuInv, NEW c \in Ioctls, zap_ioctl(c)
  PROVE  OneCpuInv'
<1>1. TxShape /\ TxPhases
  BY DEF OneCpuInv
<1>2. /\ ioc = Idle /\ kick = {} /\ \A w \in Writers : user[w] = {}
      /\ ioc' = [pc |-> "txen_off", cmd |-> c] /\ UNCHANGED pvars
      /\ UNCHANGED <<txen, msk_full, sending, sent, isr, kick, user, npkts>>
  BY DEF zap_ioctl
<1>3. c \in {"on", "off", "size"}
  BY TxAssumption
<1>4. ioc'.pc = "txen_off" /\ ioc'.cmd = c /\ ioc.pc = "idle"
  BY <1>2 DEF Idle
<1>5. TxShape'
  BY <1>1, <1>2, <1>3, <1>4 DEF TxShape, TxTypes
<1>6. TxPhases'
  BY <1>1, <1>2, <1>4 DEF TxPhases, Stopped
<1> QED
  BY <1>2, <1>4, <1>5, <1>6, TxNoMove

LEMMA TxAt ==
  ASSUME ~ smp, OneCpuInv, NEW l, At(l), l # "idle"
  PROVE  /\ ioc.pc = l /\ isr = IsrIdle /\ ioc.cmd # "none"
         /\ kick = {} /\ \A w \in Writers : user[w] = {}
         /\ TxShape /\ TxPhases
<1>1. TxShape /\ TxPhases /\ ioc.pc = l /\ isr = IsrIdle
  BY DEF OneCpuInv, At, CPUFree
<1>2. ioc # Idle
  BY <1>1 DEF Idle
<1> QED
  BY <1>1, <1>2 DEF TxShape, TxTypes, TxPhases

(* The steps that only set a flag, ask the pool whether it is busy, or     *)
(* turn the port on.                                                       *)
LEMMA TxFlagStep ==
  ASSUME ~ smp, OneCpuInv, StopIntr \/ StartBusy \/ StartPort \/ StartIntr
  PROVE  OneCpuInv'
<1>1. PICK l \in {"clr_free", "start_busy", "start_port", "start_intr"},
           m \in {"pool_flush", "idle", "start_port", "start_intr"} :
        /\ At(l) /\ Then(m)
        /\ l = "clr_free" => m = "pool_flush"
        /\ l # "clr_free" => m \in {"idle", "start_port", "start_intr"}
        /\ m = "start_port" => l = "start_busy"
        /\ IF l = "start_port" THEN /\ txen' = TRUE /\ m = "start_intr"
                                    /\ sending' = <<>> /\ sent' = <<>>
                               ELSE UNCHANGED <<txen, sending, sent>>
  <2>1. CASE StopIntr
    BY <2>1 DEF StopIntr
  <2>2. CASE StartBusy
    <3>1. PICK m \in {"idle", "start_port"} : Then(m)
      BY <2>2 DEF StartBusy
    <3> QED
      BY <2>2, <3>1 DEF StartBusy
  <2>3. CASE StartPort
    BY <2>3 DEF StartPort
  <2>4. CASE StartIntr
    BY <2>4 DEF StartIntr
  <2> QED
    BY <2>1, <2>2, <2>3, <2>4
<1>2. /\ UNCHANGED pvars /\ UNCHANGED <<msk_full, isr, kick, user, npkts>>
  BY DEF StopIntr, StartBusy, StartPort, StartIntr
<1>3. /\ ioc.pc = l /\ isr = IsrIdle /\ ioc.cmd # "none"
      /\ kick = {} /\ \A w \in Writers : user[w] = {}
      /\ TxShape /\ TxPhases
  BY <1>1, TxAt
<1>4. /\ ioc' \in [pc : {"idle", "txen_off", "start_intr"} \cup Stopped,
                   cmd : {"none", "on", "off", "size"}]
      /\ IF ioc'.pc = "idle" THEN ioc' = Idle ELSE ioc'.cmd # "none"
      /\ ioc'.pc = m
  BY <1>1, <1>3, TxThen DEF Stopped, TxShape
<1>5. UNCHANGED <<sending, sent>>
  BY <1>1, <1>3 DEF TxPhases, Stopped
<1>6. TxShape'
  <2>1. txen' \in BOOLEAN
    BY <1>1, <1>3 DEF TxShape, TxTypes
  <2> QED
    BY <1>2, <1>3, <1>4, <1>5, <2>1 DEF TxShape, TxTypes
<1>7. TxPhases'
  BY <1>1, <1>2, <1>3, <1>4, <1>5 DEF TxPhases, Stopped
<1> QED
  BY <1>1, <1>2, <1>3, <1>4, <1>5, <1>6, <1>7, TxNoMove

(* dma_ll_stop_tx clears TXEN: the FPGA has no buffer any more.            *)
LEMMA TxStopPort ==
  ASSUME ~ smp, OneCpuInv, StopPort
  PROVE  OneCpuInv'
<1>1. /\ PoolInv /\ ~ stuck /\ packet_size > 0 /\ TxHands
  BY DEF OneCpuInv
<1>2. /\ At("txen_off") /\ Then("clr_free") /\ txen' = FALSE
      /\ sending' = <<>> /\ sent' = <<>> /\ UNCHANGED pvars
      /\ UNCHANGED <<msk_full, isr, kick, user, npkts>>
  BY DEF StopPort
<1>3. /\ ioc.pc = "txen_off" /\ isr = IsrIdle /\ ioc.cmd # "none"
      /\ kick = {} /\ \A w \in Writers : user[w] = {}
      /\ TxShape /\ TxPhases
  BY <1>2, TxAt
<1>4. /\ ioc' \in [pc : {"idle", "txen_off", "start_intr"} \cup Stopped,
                   cmd : {"none", "on", "off", "size"}]
      /\ IF ioc'.pc = "idle" THEN ioc' = Idle ELSE ioc'.cmd # "none"
      /\ ioc'.pc = "clr_free"
  BY <1>2, <1>3, TxThen DEF Stopped, TxShape
<1>5. PoolInv' /\ ~ stuck' /\ packet_size' > 0 /\ UsedBufs' = UsedBufs
  BY <1>1, <1>2, PoolKept
<1>6. /\ On(sending)' = {} /\ On(sent)' = {}
      /\ NoRepeats(sending)' /\ NoRepeats(sent)'
  BY <1>2 DEF On, NoRepeats
<1>7. /\ FpgaBufs' = {} /\ IsrBuf' = IsrBuf /\ UserBufs' = UserBufs
      /\ Apart' = Apart
  BY <1>2, <1>6 DEF FpgaBufs, IsrBuf, UserBufs, Apart
<1>8. TxHands'
  BY <1>1, <1>4, <1>5, <1>6, <1>7 DEF TxHands
<1>9. TxShape'
  <2>1. sending' \in Seq(Int) /\ sent' \in Seq(Int)
    BY <1>2
  <2> QED
    BY <1>2, <1>3, <1>4, <2>1 DEF TxShape, TxTypes
<1>10. TxPhases'
  BY <1>2, <1>3, <1>4 DEF TxPhases, Stopped
<1> QED
  BY <1>5, <1>8, <1>9, <1>10 DEF OneCpuInv

(* The steps that put every buffer back on the free list: by then nobody   *)
(* has one, and the fifo list is emptied too.                              *)
LEMMA TxPoolStep ==
  ASSUME ~ smp, SizesPositive, OneCpuInv,
         StopFlushPool \/ SizeResize \/ StartFlushPool
  PROVE  OneCpuInv'
<1>1. PoolInv /\ ~ stuck /\ packet_size > 0 /\ TxShape
  BY DEF OneCpuInv
<1>2. /\ \/ pool_flush(packet_size, num_packets)
         \/ \E ps \in PacketSizes : pool_resize(ps)
      /\ UNCHANGED <<txen, sending, sent, isr, kick, user, npkts>>
  BY DEF StopFlushPool, SizeResize, StartFlushPool
<1>3. PICK l \in {"pool_flush", "resize", "start_flush"},
           m \in {"idle", "resize", "start_flush", "start_busy"} :
        At(l) /\ Then(m)
  <2>1. CASE StopFlushPool
    <3>1. At("pool_flush") /\ ioc.cmd \in {"on", "off", "size"}
      <4>1. At("pool_flush")
        BY <2>1 DEF StopFlushPool
      <4>2. ioc.cmd # "none"
        BY <4>1, TxAt
      <4> QED
        BY <1>1, <4>1, <4>2 DEF TxShape, TxTypes
    <3>2. Then("idle") \/ Then("resize") \/ Then("start_flush")
      BY <2>1, <3>1, Zenon DEF StopFlushPool
    <3> QED
      BY <3>1, <3>2
  <2>2. CASE SizeResize
    BY <2>2 DEF SizeResize
  <2>3. CASE StartFlushPool
    BY <2>3 DEF StartFlushPool
  <2> QED
    BY <2>1, <2>2, <2>3
<1>4. /\ ioc.pc = l /\ isr = IsrIdle /\ ioc.cmd # "none"
      /\ kick = {} /\ \A w \in Writers : user[w] = {}
      /\ TxPhases
  BY <1>3, TxAt
<1>5. /\ ioc' \in [pc : {"idle", "txen_off", "start_intr"} \cup Stopped,
                   cmd : {"none", "on", "off", "size"}]
      /\ IF ioc'.pc = "idle" THEN ioc' = Idle ELSE ioc'.cmd # "none"
      /\ ioc'.pc = m
  BY <1>1, <1>3, <1>4, TxThen DEF Stopped, TxShape
<1>6. sending = <<>> /\ sent = <<>> /\ ~ txen
  BY <1>3, <1>4 DEF TxPhases, Stopped
<1>7. PoolInv'
  BY <1>1, <1>2, FlushNowInv
<1>8. /\ UsedBufs' = {} /\ ~ stuck' /\ fifolist' = <<>>
      /\ packet_size' \in PacketSizes \cup {packet_size}
  BY <1>2, UsedNone
<1>9. packet_size' > 0
  BY <1>1, <1>8, PoolAssumption DEF SizesPositive
<1>10. /\ On(sending)' = {} /\ On(sent)' = {}
       /\ NoRepeats(sending)' /\ NoRepeats(sent)'
  BY <1>2, <1>6 DEF On, NoRepeats
<1>11. FpgaBufs' = {} /\ IsrBuf' = {} /\ UserBufs' = {} /\ Apart'
  BY <1>2, <1>4, <1>10 DEF FpgaBufs, IsrBuf, IsrIdle, UserBufs, Apart
<1>12. TxHands'
  BY <1>8, <1>10, <1>11 DEF TxHands
<1>13. TxShape'
  BY <1>1, <1>2, <1>5 DEF TxShape, TxTypes
<1>14. TxPhases'
  BY <1>2, <1>4, <1>5, <1>6 DEF TxPhases
<1> QED
  BY <1>7, <1>8, <1>9, <1>12, <1>13, <1>14 DEF OneCpuInv

-----------------------------------------------------------------------------
(* A buffer a writer passes without holding it is counted and the count    *)
(* never falls.                                                            *)
LEMMA TxForeign ==
  ASSUME foreign \in Nat, [TxNext]_vars
  PROVE  /\ smp' = smp /\ foreign' \in Nat
         /\ foreign' = 0 =>
              /\ foreign = 0
              /\ \A w \in Writers, p \in Int : Gives(w, p) => p \in user[w]
<1>1. /\ smp' = smp
      /\ UNCHANGED foreign \/ \E w \in Writers, p \in 0 .. Size : Gives(w, p)
  BY DEF TxNext, vars, FpgaSend, Isr, IsrEnter, IsrFull, IsrDeq, IsrTbar,
     IsrRetest, IsrClr, IsrFree, IsrFreebuf, zap_read, zap_write_free,
     zap_write, zap_write_refused, dma_ll_tx_write_buf, zap_ioctl, Ioctl,
     StopPort, StopIntr, StopFlushPool, SizeResize, StartFlushPool, StartBusy,
     StartPort, StartIntr
<1>2. ASSUME NEW w \in Writers, NEW p, Gives(w, p)
      PROVE  \/ foreign' = foreign /\ p \in user[w]
             \/ foreign' = foreign + 1
  BY <1>2 DEF Gives
<1>3. foreign' = foreign \/ foreign' = foreign + 1
  BY <1>1, <1>2
<1>4. ASSUME NEW w \in Writers, NEW p \in Int, Gives(w, p), foreign' = 0
      PROVE  p \in user[w]
  BY <1>2, <1>4
<1> QED
  BY <1>1, <1>3, <1>4

LEMMA TxStep ==
  ASSUME SizesPositive, TxInv, [TxNext]_vars
  PROVE  TxInv'
<1>1. /\ smp' = smp /\ foreign' \in Nat
      /\ foreign' = 0 =>
           /\ foreign = 0
           /\ \A w \in Writers, p \in Int : Gives(w, p) => p \in user[w]
  BY TxForeign DEF TxInv
<1> SUFFICES ASSUME ~ smp, OneCpuInv,
                    \A w \in Writers, p \in Int : Gives(w, p) => p \in user[w]
             PROVE  OneCpuInv'
  BY <1>1 DEF TxInv
<1>2. CASE UNCHANGED vars
  <2>1. /\ UNCHANGED pvars
        /\ UNCHANGED <<txen, msk_full, sending, sent, isr, kick, user, ioc,
                       npkts>>
    BY <1>2 DEF vars, pvars
  <2>2. TxShape' /\ TxPhases'
    BY <2>1 DEF OneCpuInv, TxShape, TxTypes, TxPhases, pvars
  <2> QED
    BY <2>1, <2>2, TxNoMove
<1>3. CASE FpgaSend \/ Isr
  BY <1>3, TxFpgaSend, TxIsrEnter, TxIsrTest, TxIsrDeq, TxIsrTbar, TxIsrFree,
     TxIsrFreebuf DEF Isr
<1>4. ASSUME NEW w \in Writers,
             zap_read(w) \/ zap_write_refused(w) \/ dma_ll_tx_write_buf(w)
      PROVE  OneCpuInv'
  BY <1>4, TxRead, TxKick
<1>5. ASSUME NEW w \in Writers, NEW p \in 0 .. Size,
             zap_write_free(w, p) \/ zap_write(w, p)
      PROVE  OneCpuInv'
  <2>1. p \in Int /\ Gives(w, p)
    BY <1>5 DEF zap_write_free, zap_write
  <2> QED
    BY <1>5, <2>1, TxGive
<1>6. CASE \E c \in Ioctls : zap_ioctl(c)
  BY <1>6, TxIoctlStarts
<1>7. CASE Ioctl
  BY <1>7, TxFlagStep, TxStopPort, TxPoolStep DEF Ioctl
<1> QED
  BY <1>2, <1>3, <1>4, <1>5, <1>6, <1>7 DEF TxNext

(* Outside an ioctl on one CPU the used list is exactly what the writers,  *)
(* the handler and the FPGA have in hand, each buffer in one hand          *)
(* (zap.c:70-71), as long as writers pass only the buffers they hold: none *)
(* is shared and none is lost.                                             *)
THEOREM TxBufOwnership ==
  ASSUME SizesPositive
  PROVE  TxSpec => []TxOwnership
<1>1. TxInv => TxOwnership
  <2> SUFFICES ASSUME TxInv, ~ smp, foreign = 0, ioc = Idle
               PROVE  /\ UsedBufs = FpgaBufs \cup IsrBuf \cup UserBufs
                      /\ Cardinality(usedlist) =
                           Len(sending) + Len(sent) + Cardinality(IsrBuf)
                             + Cardinality(UserBufs)
                      /\ Apart
    BY DEF TxOwnership
  <2>1. /\ PoolInv /\ ~ stuck /\ packet_size > 0 /\ TxHands
        /\ sending \in Seq(Int) /\ sent \in Seq(Int)
    BY DEF TxInv, OneCpuInv, TxShape, TxTypes
  <2>2. UsedBufs = FpgaBufs \cup IsrBuf \cup UserBufs /\ Apart
    BY <2>1 DEF TxHands, Idle
  <2>3. /\ IsFiniteSet(UsedBufs)
        /\ Cardinality(UsedBufs) = Cardinality(usedlist)
    BY <2>1, UsedCard
  <2>4. /\ IsFiniteSet(On(sending)) /\ Cardinality(On(sending)) = Len(sending)
        /\ IsFiniteSet(On(sent)) /\ Cardinality(On(sent)) = Len(sent)
        /\ Len(sending) \in Nat /\ Len(sent) \in Nat
    BY <2>1, CardOfList, LenProperties DEF TxHands
  <2>5. IsFiniteSet(IsrBuf) /\ IsFiniteSet(UserBufs)
    BY <2>2, <2>3, FS_Subset
  <2>6. ASSUME NEW S, NEW T, IsFiniteSet(S), IsFiniteSet(T), S \cap T = {}
        PROVE  /\ IsFiniteSet(S \cup T)
               /\ Cardinality(S \cup T) = Cardinality(S) + Cardinality(T)
    <3>1. /\ Cardinality(S \cap T) = 0 /\ Cardinality(S) \in Nat
          /\ Cardinality(T) \in Nat
      BY <2>6, FS_EmptySet, FS_CardinalityType
    <3>2. /\ IsFiniteSet(S \cup T)
          /\ Cardinality(S \cup T) =
               Cardinality(S) + Cardinality(T) - Cardinality(S \cap T)
      BY <2>6, FS_Union
    <3> QED
      BY <3>1, <3>2
  <2>7. /\ IsFiniteSet(FpgaBufs)
        /\ Cardinality(FpgaBufs) = Len(sending) + Len(sent)
    BY <2>1, <2>4, <2>6 DEF TxHands, FpgaBufs
  <2>8. /\ IsFiniteSet(FpgaBufs \cup IsrBuf)
        /\ Cardinality(FpgaBufs \cup IsrBuf) =
             Cardinality(FpgaBufs) + Cardinality(IsrBuf)
    BY <2>1, <2>5, <2>6, <2>7 DEF TxHands
  <2>9. Cardinality(UsedBufs) =
          Cardinality(FpgaBufs \cup IsrBuf) + Cardinality(UserBufs)
    BY <2>1, <2>2, <2>5, <2>6, <2>8 DEF TxHands
  <2> QED
    BY <2>2, <2>3, <2>7, <2>8, <2>9
<1> QED
  BY <1>1, TxStart, TxStep, PTL DEF TxSpec
-----------------------------------------------------------------------------
(* The channel, with any number of CPUs.  First the types.                 *)

IsrPcs == {"idle", "full", "deq", "tbar", "retest", "clr", "free", "freebuf"}
IsrSet == [pc : IsrPcs, pbuf : Int, pkt : Nat, free : BOOLEAN]

(* What a step of the handler may write to its state.                      *)
LEMMA IsrIdleIs == IsrIdle \in IsrSet /\ IsrIdle.pc = "idle" /\ IsrIdle.pkt = 0
BY DEF IsrIdle, IsrSet, IsrPcs, NoBuf

LEMMA IsrPc ==
  ASSUME isr \in IsrSet, NEW l \in IsrPcs, isr' = [isr EXCEPT !.pc = l]
  PROVE  isr' \in IsrSet /\ isr'.pc = l /\ isr'.pkt = isr.pkt
BY Zenon DEF IsrSet

LEMMA IsrPcBuf ==
  ASSUME isr \in IsrSet, NEW l \in IsrPcs, NEW p \in Int,
         isr' = [isr EXCEPT !.pc = l, !.pbuf = p]
  PROVE  isr' \in IsrSet /\ isr'.pc = l /\ isr'.pkt = isr.pkt
BY Zenon DEF IsrSet

LEMMA IsrPcBufPkt ==
  ASSUME isr \in IsrSet, NEW l \in IsrPcs, NEW p \in Int, NEW n \in Nat,
         isr' = [isr EXCEPT !.pc = l, !.pbuf = p, !.pkt = n]
  PROVE  isr' \in IsrSet /\ isr'.pc = l /\ isr'.pkt = n
BY Zenon DEF IsrSet

(* The handler's state after each of its steps, and what it leaves alone.  *)
LEMMA IsrMoves ==
  ASSUME PoolInv, ~ stuck, TxTypes, isr.pkt # 0 <=> isr.pc = "tbar", Isr
  PROVE  /\ isr' \in IsrSet /\ (isr'.pc = "idle" => isr' = IsrIdle)
         /\ isr'.pkt # 0 => isr'.pc = "tbar"
         /\ ~ IsrDeq => isr'.pc # "tbar"
         /\ UNCHANGED <<kick, user, ioc, npkts, txen>>
         /\ sending' \in Seq(Int) /\ sent' \in Seq(Int)
         /\ isr'.pc = "clr" => fifolist = <<>> /\ fifolist' = <<>>
<1>1. /\ isr \in IsrSet /\ sending \in Seq(Int) /\ sent \in Seq(Int)
      /\ isr.pbuf \in Int
  BY DEF TxTypes, IsrSet, IsrPcs
<1>2. {"idle", "full", "deq", "tbar", "retest", "clr", "free", "freebuf"}
        \subseteq IsrPcs /\ NoBuf \in Int
  BY DEF IsrPcs, NoBuf
<1>3. UNCHANGED <<kick, user, ioc, npkts, txen>>
  BY DEF Isr, IsrEnter, IsrFull, IsrDeq, IsrTbar, IsrRetest, IsrClr, IsrFree,
     IsrFreebuf
<1>4. CASE IsrEnter
  <2>1. /\ isr' = [pc |-> IF msk_full /\ int_full THEN "full" ELSE "free",
                   pbuf |-> NoBuf, pkt |-> 0, free |-> msk_free /\ int_free]
        /\ UNCHANGED <<sending, sent>>
    BY <1>4 DEF IsrEnter
  <2>2. /\ isr'.pc \in {"full", "free"} /\ isr'.pkt = 0
        /\ isr' \in IsrSet
    BY <2>1, <1>2 DEF IsrSet
  <2> QED
    BY <1>1, <1>3, <2>1, <2>2
<1>5. CASE IsrFull \/ IsrRetest \/ IsrClr
  <2>1. PICK l \in {"deq", "clr", "free"} :
          isr' = [isr EXCEPT !.pc = l] /\ (l = "clr" => fifolist = <<>>)
    BY <1>5, Zenon DEF IsrFull, IsrRetest, IsrClr, IsrStep,
       pool_fifo_buf_available
  <2>2. UNCHANGED <<sending, sent, fifolist>> /\ isr.pc # "tbar"
    BY <1>5 DEF IsrFull, IsrRetest, IsrClr, IsrAt, pvars
  <2>3. isr' \in IsrSet /\ isr'.pc = l /\ isr'.pkt = isr.pkt
    BY <1>1, <1>2, <2>1, IsrPc, Zenon
  <2> QED
    BY <1>1, <1>3, <2>1, <2>2, <2>3
<1>6. CASE IsrDeq
  <2>1. UNCHANGED <<sending, sent>>
    BY <1>6 DEF IsrDeq
  <2>2. CASE isr' = IsrIdle
    BY <1>1, <1>2, <1>3, <2>1, <2>2, IsrIdleIs, Zenon
  <2>3. ASSUME NEW e \in Entries, deqbuf(e),
               isr' = [isr EXCEPT !.pc = "tbar", !.pbuf = pentry2pbuf(e),
                                  !.pkt = desc[e].len]
        PROVE  isr' \in IsrSet /\ isr'.pc = "tbar"
    <3>1. desc[e].len \in Nat
      BY <2>3, FifoLensDeq
    <3>2. pentry2pbuf(e) \in Int
      BY PbufInRegion
    <3> QED
      BY <1>1, <1>2, <2>3, <3>1, <3>2, IsrPcBufPkt, Zenon
  <2> QED
    BY <1>1, <1>3, <1>6, <2>1, <2>2, <2>3, Zenon DEF IsrDeq
<1>7. CASE IsrTbar
  <2>1. /\ isr' = [isr EXCEPT !.pc = "retest", !.pbuf = NoBuf, !.pkt = 0]
        /\ sending' = IF txen THEN Append(sending, isr.pbuf) ELSE sending
        /\ sent' = sent
    BY <1>7 DEF IsrTbar
  <2>2. isr' \in IsrSet /\ isr'.pc = "retest" /\ isr'.pkt = 0
    <3>1. 0 \in Nat
      OBVIOUS
    <3> QED
      BY <1>1, <1>2, <2>1, <3>1, IsrPcBufPkt, Zenon
  <2>3. Append(sending, isr.pbuf) \in Seq(Int)
    BY <1>1, AppendProperties
  <2>4. sending' \in Seq(Int)
    BY <1>1, <2>1, <2>3, Zenon
  <2> QED
    BY <1>1, <1>3, <2>1, <2>2, <2>4, Zenon
<1>8. CASE IsrFree
  <2>1. isr.pc = "free" /\ sending' = sending
    BY <1>8 DEF IsrFree, IsrAt
  <2>2. CASE isr' = IsrIdle /\ UNCHANGED sent
    BY <1>1, <1>2, <1>3, <2>1, <2>2, IsrIdleIs, Zenon
  <2>3. CASE /\ sent # <<>> /\ sent' = Tail(sent)
             /\ isr' = [isr EXCEPT !.pc = "freebuf", !.pbuf = Head(sent)]
    <3>1. Head(sent) \in Int /\ Tail(sent) \in Seq(Int)
      BY <1>1, <2>3, HeadTailProperties
    <3>2. isr' \in IsrSet /\ isr'.pc = "freebuf" /\ isr'.pkt = isr.pkt
      BY <1>1, <1>2, <2>3, <3>1, IsrPcBuf, Zenon
    <3> QED
      BY <1>1, <1>3, <2>1, <2>3, <3>1, <3>2, Zenon
  <2> QED
    BY <1>8, <2>2, <2>3, Zenon DEF IsrFree
<1>9. CASE IsrFreebuf
  <2>1. isr' = IsrIdle /\ UNCHANGED <<sending, sent>>
    BY <1>9 DEF IsrFreebuf
  <2> QED
    BY <1>1, <1>2, <1>3, <2>1, IsrIdleIs, Zenon
<1> QED
  BY <1>4, <1>5, <1>6, <1>7, <1>8, <1>9 DEF Isr
(* The next step of the ioctl keeps the types.                             *)
LEMMA TypesThen ==
  ASSUME TxTypes, ioc.pc # "idle", UNCHANGED <<isr, kick, user, npkts>>,
         sending' \in Seq(Int), sent' \in Seq(Int), txen' \in BOOLEAN,
         NEW l \in {"idle", "txen_off", "start_intr"} \cup Stopped, Then(l)
  PROVE  TxTypes' /\ ioc'.pc = l
<1>1. ioc.cmd # "none"
  BY DEF TxTypes
<1>2. /\ ioc' \in [pc : {"idle", "txen_off", "start_intr"} \cup Stopped,
                   cmd : {"none", "on", "off", "size"}]
      /\ IF ioc'.pc = "idle" THEN ioc' = Idle ELSE ioc'.cmd # "none"
      /\ ioc'.pc = l
  BY <1>1, TxThen
<1> QED
  BY <1>2 DEF TxTypes

(* The steps of a channel, in the words of this module.                    *)
LEMMA ChanStays ==
  ASSUME UNCHANGED <<npkts, wire>>, Up' = Up, InFlight' = InFlight
  PROVE  [Chan!Next]_(Chan!cvars)
BY DEF Chan!cvars

LEMMA ChanSwitches ==
  ASSUME UNCHANGED <<npkts, wire>>, Up' = ~ Up, InFlight' = InFlight
  PROVE  [Chan!Next]_(Chan!cvars)
BY DEF Chan!Next, Chan!Switch

LEMMA ChanDrops ==
  ASSUME UNCHANGED <<npkts, wire>>, ~ Up, Up' = Up,
         NEW j \in 1 .. Len(InFlight) + 1, NEW k \in 0 .. Len(InFlight),
         InFlight' = SubSeq(InFlight, j, k)
  PROVE  [Chan!Next]_(Chan!cvars)
BY DEF Chan!Next, Chan!Drop

(* A step that touches no packet.                                          *)
LEMMA QueueKept ==
  ASSUME QueueInv, TxTypes', isr'.pkt = isr.pkt, PoolInv', ~ stuck',
         isr'.pc = "tbar" <=> isr.pc = "tbar", FifoLens' = FifoLens,
         (ioc.pc \in Stopped => ~ txen)', UNCHANGED <<npkts, wire>>
  PROVE  QueueInv' /\ InFlight' = InFlight /\ [Chan!Next]_(Chan!cvars)
<1>1. InFlight' = InFlight
  BY DEF InFlight, Hand
<1>2. QueueInv'
  BY DEF QueueInv
<1>3. Up' = Up \/ Up' = ~ Up
  BY DEF Up
<1> QED
  BY <1>1, <1>2, <1>3, ChanStays, ChanSwitches

LEMMA HandIs ==
  ASSUME QueueInv
  PROVE  /\ FifoLens \in Seq(Nat) /\ Hand \in Seq(Nat)
         /\ InFlight \in Seq(Nat) /\ Len(InFlight) \in Nat
<1>1. FifoLens \in Seq(Nat)
  BY FifoLensIs DEF QueueInv
<1>2. isr.pkt \in Nat
  BY DEF QueueInv, TxTypes
<1>3. Hand \in Seq(Nat)
  BY <1>2 DEF Hand
<1> QED
  BY <1>1, <1>3, ConcatProperties, LenProperties DEF InFlight

-----------------------------------------------------------------------------
(* pool_deqbuf_try in the handler: the packet goes from the head of the    *)
(* fifo list to the handler's hands, still the oldest.                     *)
LEMMA QueueDeq ==
  ASSUME QueueInv, IsrDeq
  PROVE  QueueInv' /\ [Chan!Next]_(Chan!cvars)
<1>1. /\ PoolInv /\ ~ stuck /\ TxTypes /\ isr \in IsrSet
      /\ isr.pkt # 0 <=> isr.pc = "tbar"
      /\ FifoLens \in Seq(Nat \ {0}) /\ (ioc.pc \in Stopped => ~ txen)
  BY DEF QueueInv, TxTypes, IsrSet, IsrPcs
<1>2. /\ isr' \in IsrSet /\ (isr'.pc = "idle" => isr' = IsrIdle)
      /\ UNCHANGED <<kick, user, ioc, npkts, txen>>
      /\ sending' \in Seq(Int) /\ sent' \in Seq(Int)
  BY <1>1, IsrMoves DEF Isr
<1>3. TxTypes'
  BY <1>1, <1>2 DEF TxTypes, IsrSet, IsrPcs
<1>4. isr.pc = "deq" /\ isr.pkt = 0 /\ wire' = wire
  BY <1>1 DEF IsrDeq, IsrAt
<1>5. CASE isr' = IsrIdle /\ UNCHANGED pvars
  <2>1. isr'.pkt = 0 /\ isr'.pc = "idle"
    BY <1>5, IsrIdleIs
  <2>2. PoolInv' /\ ~ stuck' /\ FifoLens' = FifoLens
    BY <1>1, <1>5, PoolStep DEF pvars, FifoLens, Lens
  <2> QED
    BY <1>1, <1>2, <1>3, <1>4, <2>1, <2>2, QueueKept
<1>6. ASSUME NEW e \in Entries, deqbuf(e),
             isr' = [isr EXCEPT !.pc = "tbar", !.pbuf = pentry2pbuf(e),
                                !.pkt = desc[e].len]
      PROVE  QueueInv' /\ [Chan!Next]_(Chan!cvars)
  <2> DEFINE n == desc[e].len
             F == FifoLens
  <2>1. /\ n \in Nat /\ F' \in Seq(Nat) /\ F = <<n>> \o F'
    BY <1>1, <1>6, FifoLensDeq
  <2>2. isr'.pc = "tbar" /\ isr'.pkt = n
    <3>1. "tbar" \in IsrPcs /\ pentry2pbuf(e) \in Int
      BY <1>1, PbufInRegion DEF IsrPcs
    <3> QED
      BY <1>1, <1>6, <2>1, <3>1, IsrPcBufPkt, Zenon
  <2> HIDE DEF n
  <2>3. F # <<>> /\ Head(F) = n /\ Tail(F) = F'
    BY <2>1, OneBefore
  <2>4. n \in Nat \ {0} /\ F' \in Seq(Nat \ {0})
    <3>1. Head(F) \in Nat \ {0} /\ Tail(F) \in Seq(Nat \ {0})
      BY <1>1, <2>3, HeadTailProperties
    <3> QED
      BY <2>3, <3>1
  <2>5. PoolInv' /\ ~ stuck'
    BY <1>1, <1>6, DeqInv DEF deqbuf
  <2>6. QueueInv'
    BY <1>1, <1>2, <1>3, <2>2, <2>4, <2>5 DEF QueueInv
  <2>7. InFlight' = InFlight
    <3>1. Hand = <<>> /\ Hand' = <<n>>
      BY <1>4, <2>2, <2>4 DEF Hand
    <3>2. <<>> \o F = F
      BY <1>1, ConcatEmptySeq
    <3> QED
      BY <2>1, <3>1, <3>2 DEF InFlight
  <2>8. Up' = Up
    BY <1>2 DEF Up
  <2> QED
    BY <1>2, <1>4, <2>6, <2>7, <2>8, ChanStays
<1> QED
  BY <1>5, <1>6, Zenon DEF IsrDeq

(* TBAR: the oldest packet leaves the channel, or is dropped by a port     *)
(* that an ioctl has stopped.                                              *)
LEMMA QueueTbar ==
  ASSUME QueueInv, IsrTbar
  PROVE  QueueInv' /\ [Chan!Next]_(Chan!cvars)
<1> DEFINE n == isr.pkt
           F == FifoLens
<1>1. /\ PoolInv /\ ~ stuck /\ TxTypes /\ n \in Nat
      /\ isr.pkt # 0 <=> isr.pc = "tbar"
      /\ F \in Seq(Nat \ {0}) /\ (ioc.pc \in Stopped => ~ txen)
  BY DEF QueueInv, TxTypes
<1>2. /\ isr.pc = "tbar" /\ UNCHANGED pvars
      /\ wire' = IF txen THEN isr.pkt ELSE wire
  BY DEF IsrTbar, IsrAt
<1>3. /\ isr' \in IsrSet /\ (isr'.pc = "idle" => isr' = IsrIdle)
      /\ isr'.pkt # 0 => isr'.pc = "tbar"
      /\ UNCHANGED <<kick, user, ioc, npkts, txen>>
      /\ sending' \in Seq(Int) /\ sent' \in Seq(Int)
      /\ isr'.pc # "tbar"
  BY <1>1, <1>2, IsrMoves DEF Isr, IsrDeq, IsrAt
<1>4. TxTypes'
  BY <1>1, <1>3 DEF TxTypes, IsrSet, IsrPcs
<1>5. PoolInv' /\ ~ stuck' /\ F' = F
  BY <1>1, <1>2, PoolStep DEF pvars, FifoLens, Lens
<1>6. QueueInv'
  BY <1>1, <1>3, <1>4, <1>5 DEF QueueInv
<1>7. Hand = <<n>> /\ Hand' = <<>>
  BY <1>1, <1>2, <1>3 DEF Hand
<1>8. F \in Seq(Nat)
  BY HandIs
<1> HIDE DEF n, F
<1>9. /\ InFlight = <<n>> \o F /\ InFlight' = F
  BY <1>5, <1>7, <1>8, ConcatEmptySeq DEF InFlight, F
<1>10. /\ InFlight \in Seq(Nat) /\ InFlight # <<>> /\ Head(InFlight) = n
       /\ InFlight' = Tail(InFlight)
  BY <1>1, <1>8, <1>9, OneBefore
<1>11. Up' = Up
  BY <1>3 DEF Up
<1>12. CASE txen
  <2>1. wire' = n
    BY <1>2, <1>12 DEF n
  <2>2. Chan!Get
    BY <1>3, <1>10, <1>11, <2>1 DEF Chan!Get
  <2> QED
    BY <1>6, <2>2 DEF Chan!Next
<1>13. CASE ~ txen
  <2>1. /\ ~ Up /\ wire' = wire
    BY <1>2, <1>13 DEF Up
  <2>2. /\ Tail(InFlight) = SubSeq(InFlight, 2, Len(InFlight))
        /\ Len(InFlight) \in Nat \ {0}
    BY <1>10, TailIsSubSeq, EmptySeq
  <2>3. 2 \in 1 .. Len(InFlight) + 1 /\ Len(InFlight) \in 0 .. Len(InFlight)
    BY <2>2
  <2> QED
    BY <1>3, <1>6, <1>10, <1>11, <2>1, <2>2, <2>3, ChanDrops
<1> QED
  BY <1>12, <1>13

(* The handler's other steps touch no packet.                              *)
LEMMA QueueIsr ==
  ASSUME QueueInv, Isr
  PROVE  QueueInv' /\ [Chan!Next]_(Chan!cvars)
<1>1. /\ PoolInv /\ ~ stuck /\ TxTypes
      /\ isr.pkt # 0 <=> isr.pc = "tbar"
      /\ ioc.pc \in Stopped => ~ txen
  BY DEF QueueInv
<1>2. CASE IsrDeq \/ IsrTbar
  BY <1>2, QueueDeq, QueueTbar
<1>3. CASE ~ IsrDeq /\ ~ IsrTbar
  <2>1. /\ isr' \in IsrSet /\ (isr'.pc = "idle" => isr' = IsrIdle)
        /\ isr'.pkt # 0 => isr'.pc = "tbar"
        /\ isr'.pc # "tbar"
        /\ UNCHANGED <<kick, user, ioc, npkts, txen>>
        /\ sending' \in Seq(Int) /\ sent' \in Seq(Int)
    BY <1>1, <1>3, IsrMoves
  <2>2. TxTypes'
    BY <1>1, <2>1 DEF TxTypes, IsrSet, IsrPcs
  <2>3. isr.pc # "tbar" /\ wire' = wire
    BY <1>3, IsrIdleIs DEF Isr, IsrEnter, IsrFull, IsrRetest, IsrClr, IsrFree,
       IsrFreebuf, IsrAt
  <2>4. PoolInv' /\ ~ stuck' /\ FifoLens' = FifoLens
    <3>1. CASE UNCHANGED pvars
      BY <1>1, <3>1, PoolStep DEF pvars, FifoLens, Lens
    <3>2. CASE freebuf(isr.pbuf)
      <4>1. isr.pbuf \in Int
        BY <1>1 DEF TxTypes
      <4> QED
        BY <1>1, <3>2, <4>1, FreeInv, FifoLensKept DEF freebuf
    <3> QED
      BY <1>3, <3>1, <3>2 DEF Isr, IsrEnter, IsrFull, IsrRetest, IsrClr,
         IsrFree, IsrFreebuf, refused
  <2> QED
    BY <1>1, <2>1, <2>2, <2>3, <2>4, QueueKept
<1> QED
  BY <1>2, <1>3
-----------------------------------------------------------------------------
(* The writers: zap_write puts a packet in, the other calls touch none.    *)
LEMMA QueueWriter ==
  ASSUME QueueInv, NEW w \in Writers,
         \/ zap_read(w) \/ zap_write_refused(w) \/ dma_ll_tx_write_buf(w)
         \/ \E p \in 0 .. Size : zap_write_free(w, p)
  PROVE  QueueInv' /\ [Chan!Next]_(Chan!cvars)
<1>1. /\ PoolInv /\ ~ stuck /\ TxTypes /\ (ioc.pc \in Stopped => ~ txen)
      /\ user \in [Writers -> SUBSET Int]
  BY DEF QueueInv, TxTypes
<1>2. /\ UNCHANGED <<txen, sending, sent, isr, ioc, npkts, wire>>
      /\ kick' \subseteq kick \cup {w}
  BY DEF zap_read, zap_write_free, zap_write_refused, dma_ll_tx_write_buf
<1>3. /\ user' \in [Writers -> SUBSET Int] /\ PoolInv' /\ ~ stuck'
      /\ FifoLens' = FifoLens
  <2>1. CASE zap_read(w)
    <3>1. PICK e \in Entries :
            /\ getbuf(e)
            /\ user' = [user EXCEPT ![w] = @ \cup {pentry2pbuf(e)}]
      BY <2>1 DEF zap_read
    <3>2. pentry2pbuf(e) \in Int
      BY <1>1, PbufInRegion
    <3>3. PoolInv' /\ ~ stuck' /\ FifoLens' = FifoLens
      <4>1. PoolInv' /\ ~ stuck'
        BY <1>1, <3>1, GetInv DEF getbuf
      <4>2. FifoLens' = FifoLens
        BY <1>1, <3>1, <3>2, FifoLensKept, Zenon
      <4> QED
        BY <4>1, <4>2
    <3>4. user' \in [Writers -> SUBSET Int]
      BY <1>1, <3>1, <3>2
    <3> QED
      BY <3>3, <3>4
  <2>2. CASE \E p \in 0 .. Size : zap_write_free(w, p)
    <3>1. PICK p \in 0 .. Size :
            /\ freebuf(p) \/ UNCHANGED pvars
            /\ user' = [user EXCEPT ![w] = @ \ {p}]
      BY <2>2 DEF zap_write_free, Gives, refused
    <3>2. p \in Int
      OBVIOUS
    <3>3. PoolInv' /\ ~ stuck' /\ FifoLens' = FifoLens
      <4>1. CASE freebuf(p)
        BY <1>1, <3>2, <4>1, FreeInv, FifoLensKept DEF freebuf
      <4>2. CASE UNCHANGED pvars
        BY <1>1, <4>2, PoolStep DEF pvars, FifoLens, Lens
      <4> QED
        BY <3>1, <4>1, <4>2
    <3>4. user' \in [Writers -> SUBSET Int]
      BY <1>1, <3>1
    <3> QED
      BY <3>3, <3>4
  <2>3. CASE zap_write_refused(w) \/ dma_ll_tx_write_buf(w)
    <3>1. UNCHANGED pvars /\ user' = user
      BY <2>3 DEF zap_write_refused, dma_ll_tx_write_buf
    <3> QED
      BY <1>1, <3>1, PoolStep DEF pvars, FifoLens, Lens
  <2> QED
    BY <2>1, <2>2, <2>3
<1>4. TxTypes'
  BY <1>1, <1>2, <1>3 DEF TxTypes
<1> QED
  BY <1>1, <1>2, <1>3, <1>4, QueueKept

LEMMA QueueWrite ==
  ASSUME QueueInv, NEW w \in Writers, NEW p \in 0 .. Size, zap_write(w, p)
  PROVE  QueueInv' /\ [Chan!Next]_(Chan!cvars)
<1> DEFINE n == npkts + 1
           d == [len |-> n, ooblen |-> 0, flags |-> 0]
<1>1. /\ PoolInv /\ ~ stuck /\ TxTypes /\ (ioc.pc \in Stopped => ~ txen)
      /\ user \in [Writers -> SUBSET Int] /\ npkts \in Nat
      /\ FifoLens \in Seq(Nat \ {0})
  BY DEF QueueInv, TxTypes
<1>2. enqbuf(p, d) /\ user' = [user EXCEPT ![w] = @ \ {p}]
  BY Zenon DEF zap_write, Gives
<1>3. /\ UNCHANGED <<txen, sending, sent, isr, ioc, wire>>
      /\ kick' = kick \cup {w} /\ npkts' = n
  BY DEF zap_write
<1>4. d \in [len : Nat, ooblen : Nat, flags : Nat] /\ d.len = n
      /\ n \in Nat \ {0} /\ p \in Int
  BY <1>1
<1> HIDE DEF d, n
<1>5. PoolInv' /\ ~ stuck'
  BY <1>1, <1>2, <1>4, EnqInv DEF enqbuf
<1>6. FifoLens' = Append(FifoLens, n)
  BY <1>1, <1>2, <1>4, FifoLensEnq
<1>7. FifoLens' \in Seq(Nat \ {0})
  BY <1>1, <1>4, <1>6, AppendProperties
<1>8. TxTypes'
  BY <1>1, <1>2, <1>3, <1>4 DEF TxTypes
<1>9. QueueInv'
  BY <1>3, <1>5, <1>7, <1>8 DEF QueueInv
<1>10. InFlight' = Append(InFlight, n)
  <2>1. FifoLens \in Seq(Nat) /\ Hand \in Seq(Nat) /\ Hand' = Hand
    BY <1>3, HandIs DEF Hand
  <2> QED
    BY <1>4, <1>6, <2>1, AppendConcat DEF InFlight
<1>11. Up' = Up
  BY <1>3 DEF Up
<1>12. Chan!Put
  BY <1>3, <1>10, <1>11 DEF Chan!Put, n
<1> QED
  BY <1>9, <1>12 DEF Chan!Next

-----------------------------------------------------------------------------
(* The ioctl: the channel goes down when it starts, and only while it is   *)
(* down are packets dropped.                                               *)
LEMMA QueueIoctl ==
  ASSUME QueueInv, NEW c \in Ioctls, zap_ioctl(c)
  PROVE  QueueInv' /\ [Chan!Next]_(Chan!cvars)
<1>1. PoolInv /\ ~ stuck /\ TxTypes
  BY DEF QueueInv
<1>2. /\ UNCHANGED pvars /\ ioc' = [pc |-> "txen_off", cmd |-> c]
      /\ UNCHANGED <<txen, sending, sent, isr, kick, user, npkts, wire>>
  BY DEF zap_ioctl
<1>3. c \in {"on", "off", "size"}
  BY TxAssumption
<1>4. ioc'.pc = "txen_off" /\ ioc'.cmd = c
  BY <1>2
<1>5. TxTypes'
  BY <1>1, <1>2, <1>3, <1>4 DEF TxTypes
<1>6. PoolInv' /\ ~ stuck' /\ FifoLens' = FifoLens
  BY <1>1, <1>2, PoolStep DEF pvars, FifoLens, Lens
<1>7. (ioc.pc \in Stopped => ~ txen)'
  BY <1>4 DEF Stopped
<1> QED
  BY <1>2, <1>5, <1>6, <1>7, QueueKept

LEMMA QueueFlag ==
  ASSUME QueueInv,
         StopPort \/ StopIntr \/ StartBusy \/ StartPort \/ StartIntr
  PROVE  QueueInv' /\ [Chan!Next]_(Chan!cvars)
<1>1. /\ PoolInv /\ ~ stuck /\ TxTypes /\ (ioc.pc \in Stopped => ~ txen)
      /\ sending \in Seq(Int) /\ sent \in Seq(Int) /\ txen \in BOOLEAN
  BY DEF QueueInv, TxTypes
<1>2. PICK l \in {"idle", "start_intr"} \cup Stopped :
        /\ Then(l) /\ ioc.pc # "idle"
        /\ l \in Stopped => ~ txen'
        /\ sending' \in Seq(Int) /\ sent' \in Seq(Int) /\ txen' \in BOOLEAN
  <2>1. CASE StopPort
    <3>1. <<>> \in Seq(Int)
      OBVIOUS
    <3> QED
      BY <2>1, <3>1 DEF StopPort, At, Stopped
  <2>2. CASE StopIntr
    BY <1>1, <2>2 DEF StopIntr, At, Stopped
  <2>3. CASE StartBusy
    <3>1. PICK l \in {"idle", "start_port"} : Then(l)
      BY <2>3 DEF StartBusy
    <3> QED
      BY <1>1, <2>3, <3>1 DEF StartBusy, At, Stopped
  <2>4. CASE StartPort
    <3>1. <<>> \in Seq(Int)
      OBVIOUS
    <3> QED
      BY <2>4, <3>1 DEF StartPort, At, Stopped
  <2>5. CASE StartIntr
    BY <1>1, <2>5 DEF StartIntr, At, Stopped
  <2> QED
    BY <2>1, <2>2, <2>3, <2>4, <2>5
<1>3. UNCHANGED pvars /\ UNCHANGED <<isr, kick, user, npkts, wire>>
  BY DEF StopPort, StopIntr, StartBusy, StartPort, StartIntr
<1>4. TxTypes' /\ ioc'.pc = l
  BY <1>1, <1>2, <1>3, TypesThen
<1>5. PoolInv' /\ ~ stuck' /\ FifoLens' = FifoLens
  BY <1>1, <1>3, PoolStep DEF pvars, FifoLens, Lens
<1> QED
  BY <1>2, <1>3, <1>4, <1>5, QueueKept

LEMMA QueueFlush ==
  ASSUME QueueInv, StopFlushPool \/ SizeResize \/ StartFlushPool
  PROVE  QueueInv' /\ [Chan!Next]_(Chan!cvars)
<1>1. /\ PoolInv /\ ~ stuck /\ TxTypes /\ (ioc.pc \in Stopped => ~ txen)
      /\ sending \in Seq(Int) /\ sent \in Seq(Int) /\ txen \in BOOLEAN
      /\ isr.pkt # 0 <=> isr.pc = "tbar"
  BY DEF QueueInv, TxTypes
<1>2. /\ \/ pool_flush(packet_size, num_packets)
         \/ \E ps \in PacketSizes : pool_resize(ps)
      /\ UNCHANGED <<txen, sending, sent, isr, kick, user, npkts, wire>>
      /\ ioc.pc \in {"pool_flush", "resize", "start_flush"}
  BY DEF StopFlushPool, SizeResize, StartFlushPool, At
<1>3. PICK l \in {"idle", "resize", "start_flush", "start_busy"} : Then(l)
  <2>1. CASE StopFlushPool
    <3>1. ioc.cmd \in {"on", "off", "size"}
      BY <1>1, <1>2 DEF TxTypes
    <3>2. Then("idle") \/ Then("resize") \/ Then("start_flush")
      BY <2>1, <3>1, Zenon DEF StopFlushPool
    <3> QED
      BY <3>2
  <2> QED
    BY <2>1 DEF SizeResize, StartFlushPool
<1>4. TxTypes' /\ ioc'.pc = l
  <2>1. l \in {"idle", "txen_off", "start_intr"} \cup Stopped
    BY DEF Stopped
  <2> QED
    BY <1>1, <1>2, <1>3, <2>1, TypesThen
<1>5. PoolInv'
  BY <1>1, <1>2, FlushNowInv
<1>6. ~ stuck' /\ fifolist' = <<>>
  BY <1>2, UsedNone
<1>7. FifoLens' = <<>>
  BY <1>6 DEF FifoLens, Lens
<1>8. ~ txen /\ ~ txen'
  BY <1>1, <1>2 DEF Stopped
<1>9. QueueInv'
  <2>1. FifoLens' \in Seq(Nat \ {0})
    BY <1>7
  <2> QED
    BY <1>1, <1>2, <1>4, <1>5, <1>6, <1>8, <2>1 DEF QueueInv
<1>10. /\ Hand \in Seq(Nat) /\ FifoLens \in Seq(Nat) /\ Hand' = Hand
       /\ Len(InFlight) \in Nat
  BY <1>2, HandIs DEF Hand
<1>11. InFlight' = Hand
  BY <1>7, <1>10, ConcatEmptySeq DEF InFlight
<1>12. /\ Len(Hand) \in 0 .. Len(InFlight)
       /\ SubSeq(InFlight, 1, Len(Hand)) = Hand
  BY <1>10, CutOff DEF InFlight
<1>13. 1 \in 1 .. Len(InFlight) + 1
  BY <1>10
<1>14. ~ Up /\ Up' = Up
  BY <1>8 DEF Up
<1> QED
  BY <1>2, <1>9, <1>11, <1>12, <1>13, <1>14, ChanDrops

LEMMA QueueStart ==
  ASSUME TxInit
  PROVE  QueueInv /\ Chan!Init
<1>1. PoolInv /\ ~ stuck /\ fifolist = <<>>
  BY PoolStart DEF TxInit, PoolInit
<1>2. /\ sending = <<>> /\ sent = <<>> /\ isr = IsrIdle /\ kick = {}
      /\ user = [w \in Writers |-> {}] /\ ioc = Idle /\ npkts = 0
      /\ txen = FALSE /\ wire = 0
  BY DEF TxInit
<1>3. TxTypes
  <2>1. /\ Idle \in [pc : {"idle", "txen_off", "start_intr"} \cup Stopped,
                     cmd : {"none", "on", "off", "size"}]
        /\ Idle.pc = "idle"
    BY DEF Idle
  <2>2. <<>> \in Seq(Int) /\ user \in [Writers -> SUBSET Int]
    BY <1>2
  <2> QED
    BY <1>2, <2>1, <2>2, IsrIdleIs DEF TxTypes, IsrSet, IsrPcs
<1>4. FifoLens = <<>>
  BY <1>1 DEF FifoLens, Lens
<1>5. QueueInv
  <2>1. FifoLens \in Seq(Nat \ {0})
    BY <1>4
  <2>2. isr.pkt = 0 /\ isr.pc = "idle"
    BY <1>2, IsrIdleIs
  <2> QED
    BY <1>1, <1>2, <1>3, <2>1, <2>2 DEF QueueInv
<1>6. InFlight = <<>>
  <2>1. Hand = <<>>
    BY <1>2, IsrIdleIs DEF Hand
  <2>2. <<>> \o <<>> = <<>>
    BY <1>4, <1>5, HandIs, ConcatEmptySeq
  <2> QED
    BY <1>4, <2>1, <2>2 DEF InFlight
<1> QED
  BY <1>2, <1>5, <1>6 DEF Chan!Init, Up

LEMMA QueueStep ==
  ASSUME QueueInv, [TxNext]_vars
  PROVE  QueueInv' /\ [Chan!Next]_(Chan!cvars)
<1>1. CASE UNCHANGED vars \/ FpgaSend
  <2>1. /\ UNCHANGED pvars
        /\ UNCHANGED <<txen, isr, kick, user, ioc, npkts, wire>>
    BY <1>1 DEF vars, pvars, FpgaSend
  <2>2. sending \in Seq(Int) /\ sent \in Seq(Int)
    BY DEF QueueInv, TxTypes
  <2>3. sending' \in Seq(Int) /\ sent' \in Seq(Int)
    <3>1. CASE UNCHANGED vars
      BY <2>2, <3>1 DEF vars
    <3>2. CASE FpgaSend
      <4>1. /\ sending # <<>> /\ sending' = Tail(sending)
            /\ sent' = Append(sent, Head(sending))
        BY <3>2 DEF FpgaSend
      <4>2. Head(sending) \in Int /\ Tail(sending) \in Seq(Int)
        BY <2>2, <4>1, HeadTailProperties
      <4> QED
        BY <2>2, <4>1, <4>2, AppendProperties
    <3> QED
      BY <1>1, <3>1, <3>2
  <2>4. TxTypes'
    BY <2>1, <2>3 DEF QueueInv, TxTypes
  <2>5. PoolInv' /\ ~ stuck' /\ FifoLens' = FifoLens
    BY <2>1, PoolStep DEF QueueInv, pvars, FifoLens, Lens
  <2> QED
    BY <2>1, <2>4, <2>5, QueueKept DEF QueueInv
<1>2. CASE Isr
  BY <1>2, QueueIsr
<1>3. ASSUME NEW w \in Writers,
             \/ zap_read(w) \/ zap_write_refused(w) \/ dma_ll_tx_write_buf(w)
             \/ \E p \in 0 .. Size : zap_write_free(w, p) \/ zap_write(w, p)
      PROVE  QueueInv' /\ [Chan!Next]_(Chan!cvars)
  BY <1>3, QueueWriter, QueueWrite
<1>4. CASE \E c \in Ioctls : zap_ioctl(c)
  BY <1>4, QueueIoctl
<1>5. CASE Ioctl
  BY <1>5, QueueFlag, QueueFlush DEF Ioctl
<1> QED
  BY <1>1, <1>2, <1>3, <1>4, <1>5 DEF TxNext

(* The transmit path implements the channel, for every pool, every number  *)
(* of writers and of CPUs and every FPGA fifo depth: the FPGA is handed    *)
(* every packet once, in the order of the writes (the handler takes the    *)
(* head of the fifo list, dma_zynq.c:350-373; zap_write adds at its tail,  *)
(* pool.c), and packets are dropped only while an ioctl has the port off.  *)
THEOREM TxImplementsChannel == TxSpec => TxIsChannel
BY QueueStart, QueueStep, PTL DEF TxSpec, TxIsChannel, Chan!Spec

-----------------------------------------------------------------------------
(* The interrupt request, on one CPU.                                      *)
LEMMA KickIsr ==
  ASSUME QueueInv, KickInv, Isr
  PROVE  KickInv'
<1>1. PoolInv /\ ~ stuck /\ TxTypes /\ (isr.pkt # 0 <=> isr.pc = "tbar")
  BY DEF QueueInv
<1>2. kick' = kick /\ (isr'.pc = "clr" => fifolist' = <<>>)
  BY <1>1, IsrMoves
<1>3. \/ msk_full' = msk_full
      \/ fifolist = <<>> /\ fifolist' = fifolist
  BY DEF KickInv, Isr, IsrEnter, IsrFull, IsrDeq, IsrTbar, IsrRetest, IsrClr,
     IsrAt, IsrFree, IsrFreebuf, pvars
<1>4. fifolist' = fifolist \/ fifolist # <<>>
  <2>1. CASE IsrFreebuf
    <3>1. isr.pbuf \in Int /\ (freebuf(isr.pbuf) \/ UNCHANGED pvars)
      BY <1>1, <2>1 DEF IsrFreebuf, refused, TxTypes
    <3> QED
      BY <1>1, <3>1, FreeKeepsFifo DEF pvars
  <2>2. CASE IsrDeq
    BY <2>2 DEF IsrDeq, deqbuf, pool_fifo_buf_available, pvars
  <2>3. CASE IsrEnter \/ IsrFull \/ IsrTbar \/ IsrRetest \/ IsrClr \/ IsrFree
    BY <2>3 DEF IsrEnter, IsrFull, IsrTbar, IsrRetest, IsrClr, IsrFree, pvars
  <2> QED
    BY <2>1, <2>2, <2>3 DEF Isr
<1> QED
  BY <1>2, <1>3, <1>4 DEF KickInv

(* A writer moves only while the handler does not run.                     *)
LEMMA KickWriter ==
  ASSUME QueueInv, KickInv, ~ smp, NEW w \in Writers,
         \/ zap_read(w) \/ zap_write_refused(w) \/ dma_ll_tx_write_buf(w)
         \/ \E p \in 0 .. Size : zap_write_free(w, p) \/ zap_write(w, p)
  PROVE  KickInv'
<1>1. PoolInv
  BY DEF QueueInv
<1>2. isr.pc = "idle" /\ isr' = isr
  BY IsrIdleIs DEF zap_read, zap_write_refused, dma_ll_tx_write_buf,
     zap_write_free, zap_write, CPUFree
<1>3. ASSUME NEW p \in 0 .. Size, zap_write_free(w, p)
      PROVE  fifolist' = fifolist /\ UNCHANGED <<msk_full, kick>>
  <2>1. p \in Int /\ (freebuf(p) \/ UNCHANGED pvars)
    BY <1>3 DEF zap_write_free, refused
  <2>2. fifolist' = fifolist
    BY <1>1, <2>1, FreeKeepsFifo DEF pvars
  <2> QED
    BY <1>3, <2>2 DEF zap_write_free
<1>4. ASSUME NEW p \in 0 .. Size, zap_write(w, p) PROVE kick' # {}
  BY <1>4 DEF zap_write
<1>5. CASE zap_read(w) \/ zap_write_refused(w) \/ dma_ll_tx_write_buf(w)
  BY <1>2, <1>5 DEF KickInv, zap_read, getbuf, zap_write_refused,
     dma_ll_tx_write_buf, pvars
<1> QED
  BY <1>2, <1>3, <1>4, <1>5 DEF KickInv

LEMMA KickStep ==
  ASSUME KickedInv, [TxNext]_vars
  PROVE  KickedInv'
<1>1. QueueInv /\ QueueInv'
  BY QueueStep DEF KickedInv
<1>2. smp' = smp
  BY DEF TxNext, vars, FpgaSend, Isr, IsrEnter, IsrFull, IsrDeq, IsrTbar,
     IsrRetest, IsrClr, IsrFree, IsrFreebuf, zap_read, zap_write_free,
     zap_write, zap_write_refused, dma_ll_tx_write_buf, zap_ioctl, Ioctl,
     StopPort, StopIntr, StopFlushPool, SizeResize, StartFlushPool, StartBusy,
     StartPort, StartIntr
<1> SUFFICES ASSUME ~ smp, KickInv PROVE KickInv'
  BY <1>1, <1>2 DEF KickedInv
<1>3. CASE Isr
  BY <1>1, <1>3, KickIsr
<1>4. ASSUME NEW w \in Writers,
             \/ zap_read(w) \/ zap_write_refused(w) \/ dma_ll_tx_write_buf(w)
             \/ \E p \in 0 .. Size : zap_write_free(w, p) \/ zap_write(w, p)
      PROVE  KickInv'
  BY <1>1, <1>4, KickWriter
<1>5. CASE \/ UNCHANGED vars \/ FpgaSend \/ \E c \in Ioctls : zap_ioctl(c)
           \/ Ioctl
  <2>1. UNCHANGED <<isr, msk_full, kick>>
    BY <1>5 DEF vars, FpgaSend, zap_ioctl, Ioctl, StopPort, StopIntr,
       StopFlushPool, SizeResize, StartFlushPool, StartBusy, StartPort,
       StartIntr
  <2>2. fifolist' = fifolist \/ fifolist' = <<>>
    BY <1>5, UsedNone DEF vars, pvars, FpgaSend, zap_ioctl, Ioctl, StopPort,
       StopIntr, StopFlushPool, SizeResize, StartFlushPool, StartBusy,
       StartPort, StartIntr
  <2> QED
    BY <2>1, <2>2 DEF KickInv
<1> QED
  BY <1>3, <1>4, <1>5 DEF TxNext

(* A packet on the fifo list of a running port has its interrupt enabled   *)
(* or a writer about to enable it (the handler clears TX_FULL_RDY,         *)
(* dma_zynq.c:375-379; zap_write sets it, dma_zynq.c:676-681): on one CPU  *)
(* none is left behind, for any number of writers and whatever buffers     *)
(* they pass.                                                              *)
THEOREM TxAlwaysKicked == TxSpec => []TxKicked
<1>1. TxInit => KickedInv
  <2> SUFFICES ASSUME TxInit PROVE KickedInv
    OBVIOUS
  <2>1. fifolist = <<>> /\ isr = IsrIdle
    BY DEF TxInit, PoolInit
  <2> QED
    BY <2>1, QueueStart DEF KickedInv, KickInv
<1>2. KickedInv => TxKicked
  BY DEF KickedInv, KickInv, TxKicked
<1> QED
  BY <1>1, <1>2, KickStep, PTL DEF TxSpec
=============================================================================

-------------------------------- MODULE ZapTx --------------------------------
(***************************************************************************)
(* The transmit path of one ZAP interface: writers of /dev/zaptx (zap.c),  *)
(* the process that starts, stops and resizes it (zap.c, dma.c), and the   *)
(* interrupt handler dma_isr (dma_zynq.c), around the transmit pool (Pool) *)
(* and the FPGA.                                                           *)
(*                                                                         *)
(* The FPGA is external: from how dma_zynq.c uses it, TX_FULL_RDY is up    *)
(* while the enabled port can take another buffer, writing TBAR and BSR    *)
(* hands it one, TX_FREE_RDY is up while a sent buffer waits to be read    *)
(* back from TBAR, and clearing TXEN resets the port.                      *)
(***************************************************************************)
EXTENDS Pool

CONSTANTS
  SMPs,        \* kernels: may the handler run beside a process (two CPUs)?
  Writers,     \* threads using /dev/zaptx
  FifoDepth,   \* buffers the FPGA takes before one is sent
  Ioctls,      \* subset of {"on", "off", "size"}
  MaxPkts,     \* bound on the packets written
  MaxForeign   \* bound on the buffers passed by who does not hold them

ASSUME TxAssumption ==
  /\ SMPs \subseteq BOOLEAN /\ Writers # {} /\ FifoDepth \in Nat \ {0}
  /\ Ioctls \subseteq {"on", "off", "size"} /\ MaxPkts \in Nat
  /\ MaxForeign \in Nat

VARIABLES
  smp,         \* the kernel runs on more than one CPU
  txen,        \* CSR_TXEN
  msk_full,    \* ICR_MSK_TX_FULL_RDY
  msk_free,    \* ICR_MSK_TX_FREE_RDY
  sending,     \* FPGA: buffers written to TBAR and not yet sent
  sent,        \* FPGA: sent buffers to be read back from TBAR
  isr,         \* dma_isr: next step, local pbuf, packet, TX_FREE_RDY as read
  kick,        \* writers between pool_enqbuf and ICR_SET_TX_FULL_RDY
  user,        \* pbufs each writer holds
  ioc,         \* the ioctl in progress and its next step
  npkts,       \* packets written so far
  wire,        \* the last packet the FPGA was handed
  lost,        \* packets written when the pool was last flushed
  foreign      \* buffers passed to zap_write by a writer not holding them

vars == <<packet_size, num_packets, freelist, fifolist, usedlist, pcur_list,
          desc, stuck, smp, txen, msk_full, msk_free, sending, sent, isr, kick,
          user, ioc, npkts, wire, lost, foreign>>

NoBuf == -1
IsrIdle == [pc |-> "idle", pbuf |-> NoBuf, pkt |-> 0, free |-> FALSE]
Idle == [pc |-> "idle", cmd |-> "none"]
CPUFree == smp \/ isr = IsrIdle

-----------------------------------------------------------------------------
(* The FPGA, external.                                                     *)

int_full == txen /\ Len(sending) < FifoDepth
int_free == sent # <<>>

FpgaSend ==
  /\ txen /\ sending # <<>>
  /\ sent' = Append(sent, Head(sending))
  /\ sending' = Tail(sending)
  /\ UNCHANGED <<pvars, txen, msk_full, msk_free, isr, kick, user, ioc, npkts,
                 wire, lost, smp, foreign>>

-----------------------------------------------------------------------------
(* dma_isr, the transmit parts.                                            *)

IsrAt(l) == isr.pc = l
IsrStep(l) == isr' = [isr EXCEPT !.pc = l]

(* Reading ISR: the two conditions are tested on this one value.           *)
IsrEnter ==
  /\ isr = IsrIdle
  /\ (msk_full /\ int_full) \/ (msk_free /\ int_free)
  /\ isr' = [pc |-> IF msk_full /\ int_full THEN "full" ELSE "free",
             pbuf |-> NoBuf, pkt |-> 0, free |-> msk_free /\ int_free]
  /\ UNCHANGED <<pvars, txen, msk_full, msk_free, sending, sent, kick, user,
                 ioc, npkts, wire, lost, smp, foreign>>

(* list_empty without the pool lock.                                       *)
IsrFull ==
  /\ IsrAt("full")
  /\ IsrStep(IF pool_fifo_buf_available THEN "deq" ELSE "clr")
  /\ UNCHANGED <<pvars, txen, msk_full, msk_free, sending, sent, kick, user,
                 ioc, npkts, wire, lost, smp, foreign>>

(* pool_deqbuf_try; on failure the handler returns at once.                *)
IsrDeq ==
  /\ IsrAt("deq")
  /\ \/ \E e \in Entries :
          /\ deqbuf(e)
          /\ isr' = [isr EXCEPT !.pc = "tbar", !.pbuf = pentry2pbuf(e),
                                !.pkt = desc[e].len]
     \/ /\ ~ pool_fifo_buf_available
        /\ isr' = IsrIdle
        /\ UNCHANGED pvars
  /\ UNCHANGED <<txen, msk_full, msk_free, sending, sent, kick, user, ioc,
                 npkts, wire, lost, smp, foreign>>

(* TBAR and BSR; a port in reset does not take them.                       *)
IsrTbar ==
  /\ IsrAt("tbar")
  /\ sending' = IF txen THEN Append(sending, isr.pbuf) ELSE sending
  /\ wire' = IF txen THEN isr.pkt ELSE wire
  /\ isr' = [isr EXCEPT !.pc = "retest", !.pbuf = NoBuf, !.pkt = 0]
  /\ UNCHANGED <<pvars, txen, msk_full, msk_free, sent, kick, user, ioc, npkts,
                 lost, smp, foreign>>

IsrRetestInverted ==
  /\ IsrAt("retest")
  /\ IsrStep(IF pool_fifo_buf_available THEN "clr" ELSE "free")
  /\ UNCHANGED <<pvars, txen, msk_full, msk_free, sending, sent, kick, user,
                 ioc, npkts, wire, lost, smp, foreign>>

IsrRetest ==
  /\ IsrAt("retest")
  /\ IsrStep(IF pool_fifo_buf_available THEN "free" ELSE "clr")
  /\ UNCHANGED <<pvars, txen, msk_full, msk_free, sending, sent, kick, user,
                 ioc, npkts, wire, lost, smp, foreign>>

IsrClr ==
  /\ IsrAt("clr")
  /\ msk_full' = FALSE
  /\ IsrStep("free")
  /\ UNCHANGED <<pvars, txen, msk_free, sending, sent, kick, user, ioc, npkts,
                 wire, lost, smp, foreign>>

(* TX_FREE_RDY: read back a sent buffer; a port in reset reads as none.    *)
IsrFreeSkipsAfterFull ==
  /\ IsrAt("free")
  /\ isr' = IsrIdle
  /\ sent' = IF isr.free /\ sent # <<>> THEN Tail(sent) ELSE sent
  /\ UNCHANGED <<pvars, txen, msk_full, msk_free, sending, kick, user, ioc,
                 npkts, wire, lost, smp, foreign>>

IsrFree ==
  /\ IsrAt("free")
  /\ IF isr.free /\ sent # <<>>
     THEN /\ isr' = [isr EXCEPT !.pc = "freebuf", !.pbuf = Head(sent)]
          /\ sent' = Tail(sent)
     ELSE isr' = IsrIdle /\ UNCHANGED sent
  /\ UNCHANGED <<pvars, txen, msk_full, msk_free, sending, kick, user, ioc,
                 npkts, wire, lost, smp, foreign>>

(* pool_freebuf; a failure is only logged.                                 *)
IsrFreebuf ==
  /\ IsrAt("freebuf")
  /\ \/ freebuf(isr.pbuf)
     \/ refused(isr.pbuf)
  /\ isr' = IsrIdle
  /\ UNCHANGED <<txen, msk_full, msk_free, sending, sent, kick, user, ioc,
                 npkts, wire, lost, smp, foreign>>

-----------------------------------------------------------------------------
(* Writers: zap_read gets a free buffer; zap_write either frees it (length *)
(* -1) or enqueues it, then sets TX_FULL_RDY whether or not that worked.   *)
(* It does so with the buffer in use at any offset, also one that zap_read *)
(* did not give this writer: those are counted.                            *)

zap_read(w) ==
  /\ CPUFree /\ ioc = Idle /\ w \notin kick
  /\ \E e \in Entries :
       getbuf(e) /\ user' = [user EXCEPT ![w] = @ \cup {pentry2pbuf(e)}]
  /\ UNCHANGED <<txen, msk_full, msk_free, sending, sent, isr, kick, ioc,
                 npkts, wire, lost, smp, foreign>>

Gives(w, p) ==
  /\ user' = [user EXCEPT ![w] = @ \ {p}]
  /\ \/ p \in user[w] /\ UNCHANGED foreign
     \/ p \notin user[w] /\ foreign < MaxForeign /\ foreign' = foreign + 1

zap_write_free(w, p) ==
  /\ CPUFree /\ ioc = Idle /\ w \notin kick
  /\ freebuf(p) \/ (p \in user[w] /\ refused(p))
  /\ Gives(w, p)
  /\ UNCHANGED <<txen, msk_full, msk_free, sending, sent, isr, kick, ioc,
                 npkts, wire, lost, smp>>

zap_write_no_kick(w, p) ==
  /\ CPUFree /\ ioc = Idle /\ w \notin kick /\ npkts < MaxPkts
  /\ npkts' = npkts + 1
  /\ enqbuf(p, [len |-> npkts + 1, ooblen |-> 0, flags |-> 0])
  /\ Gives(w, p)
  /\ UNCHANGED <<txen, msk_full, msk_free, sending, sent, isr, kick, ioc, wire,
                 lost, smp>>

zap_write(w, p) ==
  /\ CPUFree /\ ioc = Idle /\ w \notin kick /\ npkts < MaxPkts
  /\ npkts' = npkts + 1
  /\ enqbuf(p, [len |-> npkts + 1, ooblen |-> 0, flags |-> 0])
  /\ Gives(w, p)
  /\ kick' = kick \cup {w}
  /\ UNCHANGED <<txen, msk_full, msk_free, sending, sent, isr, ioc, wire,
                 lost, smp>>

(* pool_enqbuf refuses an offset that is no buffer in use: kicked anyhow.  *)
zap_write_refused(w) ==
  /\ CPUFree /\ ioc = Idle /\ w \notin kick
  /\ kick' = kick \cup {w}
  /\ UNCHANGED <<pvars, txen, msk_full, msk_free, sending, sent, isr, user,
                 ioc, npkts, wire, lost, smp, foreign>>

dma_ll_tx_write_buf(w) ==
  /\ CPUFree /\ w \in kick
  /\ msk_full' = TRUE
  /\ kick' = kick \ {w}
  /\ UNCHANGED <<pvars, txen, msk_free, sending, sent, isr, user, ioc, npkts,
                 wire, lost, smp, foreign>>

-----------------------------------------------------------------------------
(* zap_ioctl and zap_release: dma_ll_stop_tx step by step (TX_FULL_RDY is  *)
(* left as it is), then dma_start_tx_unsafe or pool_resize.  The caller    *)
(* uses no buffer meanwhile (pool.c:281).                                  *)

zap_ioctl(c) ==
  /\ CPUFree /\ ioc = Idle /\ kick = {} /\ \A w \in Writers : user[w] = {}
  /\ ioc' = [pc |-> "txen_off", cmd |-> c]
  /\ UNCHANGED <<pvars, txen, msk_full, msk_free, sending, sent, isr, kick,
                 user, npkts, wire, lost, smp, foreign>>

At(l) == CPUFree /\ ioc.pc = l
Then(l) == ioc' = IF l = "idle" THEN Idle ELSE [ioc EXCEPT !.pc = l]

StopPort ==
  /\ At("txen_off") /\ Then("clr_free")
  /\ txen' = FALSE /\ sending' = <<>> /\ sent' = <<>>
  /\ UNCHANGED <<pvars, msk_full, msk_free, isr, kick, user, npkts, wire, lost,
                 smp, foreign>>

StopIntr ==
  /\ At("clr_free") /\ Then("pool_flush")
  /\ msk_free' = FALSE
  /\ UNCHANGED <<pvars, txen, msk_full, sending, sent, isr, kick, user, npkts,
                 wire, lost, smp, foreign>>

StopFlushPool ==
  /\ At("pool_flush")
  /\ pool_flush(packet_size, num_packets)
  /\ lost' = npkts
  /\ CASE ioc.cmd = "off"  -> Then("idle")
       [] ioc.cmd = "size" -> Then("resize")
       [] ioc.cmd = "on"   -> Then("start_flush")
  /\ UNCHANGED <<txen, msk_full, msk_free, sending, sent, isr, kick, user,
                 npkts, wire, smp, foreign>>

SizeResize ==
  /\ At("resize") /\ Then("idle")
  /\ \E ps \in PacketSizes : pool_resize(ps)
  /\ UNCHANGED <<txen, msk_full, msk_free, sending, sent, isr, kick, user,
                 npkts, wire, lost, smp, foreign>>

StartFlushPool ==
  /\ At("start_flush") /\ Then("start_busy")
  /\ pool_flush(packet_size, num_packets)
  /\ UNCHANGED <<txen, msk_full, msk_free, sending, sent, isr, kick, user,
                 npkts, wire, lost, smp, foreign>>

StartBusy ==
  /\ At("start_busy")
  /\ Then(IF pool_busy THEN "idle" ELSE "start_port")
  /\ UNCHANGED <<pvars, txen, msk_full, msk_free, sending, sent, isr, kick,
                 user, npkts, wire, lost, smp, foreign>>

StartPort ==
  /\ At("start_port") /\ Then("start_intr")
  /\ txen' = TRUE /\ sending' = <<>> /\ sent' = <<>>
  /\ UNCHANGED <<pvars, msk_full, msk_free, isr, kick, user, npkts, wire,
                 lost, smp, foreign>>

StartIntrOmitted ==
  /\ At("start_intr") /\ Then("idle")
  /\ UNCHANGED <<pvars, txen, msk_full, msk_free, sending, sent, isr, kick,
                 user, npkts, wire, lost, smp, foreign>>

StartIntr ==
  /\ At("start_intr") /\ Then("idle")
  /\ msk_free' = TRUE
  /\ UNCHANGED <<pvars, txen, msk_full, sending, sent, isr, kick, user, npkts,
                 wire, lost, smp, foreign>>

-----------------------------------------------------------------------------
TxInit ==
  /\ PoolInit /\ smp \in SMPs
  /\ txen = FALSE /\ msk_full = FALSE /\ msk_free = FALSE
  /\ sending = <<>> /\ sent = <<>>
  /\ isr = IsrIdle /\ kick = {} /\ user = [w \in Writers |-> {}]
  /\ ioc = Idle /\ npkts = 0 /\ wire = 0 /\ lost = 0 /\ foreign = 0

Isr == IsrEnter \/ IsrFull \/ IsrDeq \/ IsrTbar \/ IsrRetest \/ IsrClr
       \/ IsrFree \/ IsrFreebuf
Ioctl == StopPort \/ StopIntr \/ StopFlushPool \/ SizeResize
         \/ StartFlushPool \/ StartBusy \/ StartPort \/ StartIntr

TxNext ==
  \/ FpgaSend
  \/ Isr
  \/ \E w \in Writers : zap_read(w) \/ zap_write_refused(w)
                        \/ dma_ll_tx_write_buf(w)
  \/ \E w \in Writers, p \in 0 .. Size :
       zap_write_free(w, p) \/ zap_write(w, p)
  \/ \E c \in Ioctls : zap_ioctl(c)
  \/ Ioctl

TxSpec == TxInit /\ [][TxNext]_vars

(* The FPGA sends, the handler runs when its interrupt is raised, and the  *)
(* kernel schedules a process inside zap_write or an ioctl; no writer has  *)
(* to read or write.                                                       *)
TxFairness ==
  /\ WF_vars(FpgaSend) /\ WF_vars(Isr) /\ WF_vars(Ioctl)
  /\ \A w \in Writers : WF_vars(dma_ll_tx_write_buf(w))

TxFairSpec == TxSpec /\ TxFairness

-----------------------------------------------------------------------------
IsrBuf == IF isr.pbuf = NoBuf THEN {} ELSE {isr.pbuf}
FpgaBufs == On(sending) \cup On(sent)
UserBufs == UNION {user[w] : w \in Writers}
Apart == \A v, w \in Writers : v # w => user[v] \cap user[w] = {}

(* Types of the driver's transmit state and of the FPGA's.                 *)
TxTypeOK ==
  /\ PoolTypeOK
  /\ txen \in BOOLEAN /\ msk_full \in BOOLEAN /\ msk_free \in BOOLEAN
  /\ FpgaBufs \cup IsrBuf \cup UserBufs \subseteq 0 .. Size - 1
  /\ Len(sending) <= FifoDepth
  /\ kick \subseteq Writers

(* No buffer is lost and none is in two hands: outside an ioctl the used   *)
(* list is exactly what the writers, the handler and the FPGA hold, each   *)
(* buffer in one place (zap.c:70-71); a buffer left out would never be     *)
(* sent or freed again.  With a second CPU a flush may overtake a running  *)
(* handler, and zap_write takes a buffer another writer holds or the FPGA  *)
(* is sending (zap.c:490-508): this is claimed of one CPU, as long as each *)
(* writer has passed only what zap_read gave it.                           *)
TxOwnership ==
  (~ smp /\ foreign = 0 /\ ioc = Idle) =>
    /\ UsedBufs = FpgaBufs \cup IsrBuf \cup UserBufs
    /\ Cardinality(usedlist) =
         Len(sending) + Len(sent) + Cardinality(IsrBuf) + Cardinality(UserBufs)
    /\ Apart

(* A packet that waits on the fifo list of a running port has its          *)
(* interrupt enabled, or a writer about to enable it: TX_FULL_RDY cleared  *)
(* by the handler and set by zap_write never leave a packet behind.  With  *)
(* a second CPU they do, between the handler's test and its write.         *)
TxKicked ==
  (~ smp /\ txen /\ fifolist # <<>> /\ isr = IsrIdle) =>
    (msk_full \/ kick # {})

(* The transmit path implements a channel, with any number of CPUs: the    *)
(* FPGA is handed every packet once and in the order of the writes,        *)
(* through the fifo list and the handler's hands, and none is dropped but  *)
(* by an ioctl, also when a flush overtakes a running handler and when     *)
(* writers pass buffers they do not hold.                                  *)
Hand == IF isr.pkt = 0 THEN <<>> ELSE <<isr.pkt>>
InFlight == Hand \o FifoLens
Up == txen /\ ioc = Idle

Chan == INSTANCE Channel WITH
  up <- Up, put <- npkts, queue <- InFlight, got <- wire

TxIsChannel == Chan!Spec

(* On one CPU every packet on a running port is handed to the FPGA unless  *)
(* a stop drops it.                                                        *)
TxSent ==
  \A n \in 1 .. MaxPkts :
    (~ smp /\ txen /\ npkts >= n) ~> (wire >= n \/ lost >= n)

(* Every buffer handed to the FPGA comes back from it, unless writers pass *)
(* buffers they do not hold: one of those may be sent again before it is   *)
(* back.                                                                   *)
TxBufsReturn ==
  \A i \in 0 .. MaxPackets - 1 :
    (pentry2pbuf(i) \in FpgaBufs) ~>
      (pentry2pbuf(i) \notin FpgaBufs \/ foreign # 0)
-----------------------------------------------------------------------------
(* What every step on one CPU keeps true, when no packet size is zero and  *)
(* writers pass only the buffers they hold.                                *)

SizesPositive == OpenSize > 0 /\ 0 \notin PacketSizes

Stopped == {"clr_free", "pool_flush", "resize", "start_flush", "start_busy",
            "start_port"}

TxTypes ==
  /\ sending \in Seq(Int) /\ sent \in Seq(Int)
  /\ isr \in [pc : {"idle", "full", "deq", "tbar", "retest", "clr", "free",
                    "freebuf"},
              pbuf : Int, pkt : Nat, free : BOOLEAN]
  /\ isr.pc = "idle" => isr = IsrIdle
  /\ ioc \in [pc : {"idle", "txen_off", "start_intr"} \cup Stopped,
              cmd : {"none", "on", "off", "size"}]
  /\ IF ioc.pc = "idle" THEN ioc = Idle ELSE ioc.cmd # "none"
  /\ user \in [Writers -> SUBSET Int] /\ kick \subseteq Writers
  /\ txen \in BOOLEAN /\ npkts \in Nat

TxShape == TxTypes /\ (isr.pbuf # NoBuf <=> isr.pc \in {"tbar", "freebuf"})

(* A port in reset holds no buffer and raises no interrupt, so the handler *)
(* runs only with the port on and no ioctl meets it half way; the writers  *)
(* have nothing in hand during an ioctl.                                   *)
TxPhases ==
  /\ isr # IsrIdle \/ sending # <<>> \/ sent # <<>> => txen
  /\ ioc.pc \in Stopped => ~ txen
  /\ ioc # Idle => kick = {} /\ \A w \in Writers : user[w] = {}

TxHands ==
  /\ NoRepeats(sending) /\ NoRepeats(sent) /\ On(sending) \cap On(sent) = {}
  /\ FpgaBufs \cap IsrBuf = {} /\ (FpgaBufs \cup IsrBuf) \cap UserBufs = {}
  /\ Apart
  /\ FpgaBufs \cup IsrBuf \cup UserBufs \subseteq UsedBufs
  /\ ioc.pc \notin {"clr_free", "pool_flush"} =>
       UsedBufs \subseteq FpgaBufs \cup IsrBuf \cup UserBufs

OneCpuInv ==
  /\ PoolInv /\ ~ stuck /\ packet_size > 0
  /\ TxShape /\ TxPhases /\ TxHands

TxInv == foreign \in Nat /\ (~ smp /\ foreign = 0 => OneCpuInv)

(* What every step keeps true with any number of CPUs: the handler has a   *)
(* packet exactly while it is about to hand it over, every packet on the   *)
(* fifo list is a written one, and the port is off while the pool is       *)
(* flushed.                                                                *)
QueueInv ==
  /\ PoolInv /\ ~ stuck /\ TxTypes
  /\ isr.pkt # 0 <=> isr.pc = "tbar"
  /\ FifoLens \in Seq(Nat \ {0})
  /\ ioc.pc \in Stopped => ~ txen

(* And on one CPU, whatever buffers the writers pass: nothing is written   *)
(* between the handler's test of the fifo list and its clearing of         *)
(* TX_FULL_RDY.                                                            *)
KickInv ==
  /\ isr.pc = "clr" => fifolist = <<>>
  /\ fifolist # <<>> => msk_full \/ kick # {}

KickedInv == QueueInv /\ (~ smp => KickInv)
=============================================================================

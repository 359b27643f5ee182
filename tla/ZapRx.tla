-------------------------------- MODULE ZapRx --------------------------------
(***************************************************************************)
(* The receive path of one ZAP interface: the reader of /dev/zaprx (zap.c),*)
(* the process that starts, stops and resizes it (zap.c, dma.c), the work  *)
(* item dma_rx_task and the interrupt handler dma_isr (dma_zynq.c), around *)
(* the receive pool (Pool) and the FPGA.                                   *)
(*                                                                         *)
(* The FPGA is external: from how dma_zynq.c uses it, writing RBAR posts a *)
(* buffer, a finished buffer raises RXRDY until RBAR and BSR are read, and *)
(* clearing RXEN resets the port.                                          *)
(*                                                                         *)
(* What the pool does with the address behind its last packet is PoolWait's*)
(* subject: here pool_freebuf refuses it.                                  *)
(***************************************************************************)
EXTENDS Pool

CONSTANTS
  SMP,         \* the handler may run beside a process on another CPU
  Overlap,     \* the reader goes on using buffers during an ioctl
  Ioctls,      \* subset of {"on", "off", "size"}
  MaxPkts,     \* bound on the packets the FPGA receives
  MaxForeign   \* bound on the buffers given back by who does not hold them

ASSUME RxAssumption ==
  /\ SMP \in BOOLEAN /\ Overlap \in BOOLEAN
  /\ Ioctls \subseteq {"on", "off", "size"} /\ MaxPkts \in Nat
  /\ MaxForeign \in Nat

VARIABLES
  rx_on,       \* pdma_if->interface[].rx_on
  rxen,        \* CSR_RXEN
  msk_rxrdy,   \* ICR_MSK_RXRDY
  posted,      \* FPGA: buffers written to RBAR and not yet filled
  done,        \* FPGA: filled buffers [pbuf, pkt] whose interrupt is pending
  npkts,       \* FPGA: packets received so far
  isr,         \* dma_isr: IsrIdle, or the [pbuf, pkt] it read and will enqueue
  wq,          \* dma_rx_task: idle, queued, loop, get, put
  wq_pbuf,     \* its local pbuf
  ioc,         \* the ioctl in progress and its next step
  user,        \* pbufs the reader holds
  last_read,   \* number of the last packet the reader got
  lost,        \* packets the FPGA had received when RXEN was last cleared
  bug,         \* BUG_ON(err) has fired
  foreign      \* buffers given back that zap_read had not given the reader

vars == <<packet_size, num_packets, freelist, fifolist, usedlist, pcur_list,
          desc, stuck, rx_on, rxen, msk_rxrdy, posted, done, npkts, isr, wq,
          wq_pbuf, ioc, user, last_read, lost, bug, foreign>>

NoBuf == -1
IsrIdle == [pbuf |-> NoBuf, pkt |-> 0]
Idle == [pc |-> "idle", cmd |-> "none"]

(* With one CPU nothing but the FPGA moves while the handler runs, and     *)
(* after BUG_ON in the handler nothing does.                               *)
CPUFree == ~ bug /\ (SMP \/ isr = IsrIdle)

-----------------------------------------------------------------------------
(* The FPGA, external.                                                     *)

FpgaReceive ==
  /\ rxen /\ posted # <<>> /\ npkts < MaxPkts
  /\ npkts' = npkts + 1
  /\ posted' = Tail(posted)
  /\ done' = Append(done, [pbuf |-> Head(posted), pkt |-> npkts + 1])
  /\ UNCHANGED <<pvars, rx_on, rxen, msk_rxrdy, isr, wq, wq_pbuf, ioc, user,
                 last_read, lost, bug, foreign>>

-----------------------------------------------------------------------------
(* dma_isr, the RXRDY part: read RBAR and BSR, then pool_enqbuf.           *)

IsrRead ==
  /\ isr = IsrIdle /\ ~ bug
  /\ msk_rxrdy /\ done # <<>>
  /\ isr' = Head(done)
  /\ done' = Tail(done)
  /\ UNCHANGED <<pvars, rx_on, rxen, msk_rxrdy, posted, npkts, wq, wq_pbuf,
                 ioc, user, last_read, lost, bug, foreign>>

(* BUG_ON does not return.                                                 *)
IsrEnq ==
  /\ isr # IsrIdle
  /\ \/ /\ enqbuf(isr.pbuf, [len |-> isr.pkt, ooblen |-> 0, flags |-> 0])
        /\ isr' = IsrIdle
        /\ UNCHANGED bug
     \/ /\ refused(isr.pbuf)
        /\ bug' = TRUE
        /\ UNCHANGED isr
  /\ UNCHANGED <<rx_on, rxen, msk_rxrdy, posted, done, npkts, wq, wq_pbuf, ioc,
                 user, last_read, lost, foreign>>

-----------------------------------------------------------------------------
(* dma_rx_task, on a single-threaded workqueue.                            *)

WqStart ==
  /\ CPUFree /\ wq = "queued"
  /\ wq' = "loop"
  /\ UNCHANGED <<pvars, rx_on, rxen, msk_rxrdy, posted, done, npkts, isr,
                 wq_pbuf, ioc, user, last_read, lost, bug, foreign>>

WqLoop ==
  /\ CPUFree /\ wq = "loop"
  /\ wq' = IF rx_on THEN "get" ELSE "idle"
  /\ UNCHANGED <<pvars, rx_on, rxen, msk_rxrdy, posted, done, npkts, isr,
                 wq_pbuf, ioc, user, last_read, lost, bug, foreign>>

(* pool_getbuf_timeout succeeds, or after HZ/2 returns -EAGAIN: the inner  *)
(* loop ends then when rx_on is clear.                                     *)
WqGetNoTimeout ==
  /\ CPUFree /\ wq = "get"
  /\ \E e \in Entries : getbuf(e) /\ wq_pbuf' = pentry2pbuf(e)
  /\ wq' = "put"
  /\ UNCHANGED <<rx_on, rxen, msk_rxrdy, posted, done, npkts, isr, ioc, user,
                 last_read, lost, bug, foreign>>

WqGet ==
  /\ CPUFree /\ wq = "get"
  /\ \/ /\ \E e \in Entries : getbuf(e) /\ wq_pbuf' = pentry2pbuf(e)
        /\ wq' = "put"
     \/ /\ ~ pool_buf_available /\ ~ rx_on
        /\ wq' = "loop"
        /\ UNCHANGED <<pvars, wq_pbuf>>
  /\ UNCHANGED <<rx_on, rxen, msk_rxrdy, posted, done, npkts, isr, ioc, user,
                 last_read, lost, bug, foreign>>

(* dma_ll_put_rx writes RBAR; a port in reset does not take it.            *)
WqPutDropped ==
  /\ CPUFree /\ wq = "put"
  /\ wq' = "loop" /\ wq_pbuf' = NoBuf
  /\ UNCHANGED <<pvars, rx_on, rxen, msk_rxrdy, posted, done, npkts, isr, ioc,
                 user, last_read, lost, bug, foreign>>

WqPut ==
  /\ CPUFree /\ wq = "put"
  /\ posted' = IF rxen THEN Append(posted, wq_pbuf) ELSE posted
  /\ wq' = "loop" /\ wq_pbuf' = NoBuf
  /\ UNCHANGED <<pvars, rx_on, rxen, msk_rxrdy, done, npkts, isr, ioc, user,
                 last_read, lost, bug, foreign>>

-----------------------------------------------------------------------------
(* The reader: zap_read takes the head of the fifo list, zap_write gives a *)
(* buffer back.                                                            *)

ReaderFree == CPUFree /\ (Overlap \/ ioc = Idle)

zap_read ==
  /\ ReaderFree
  /\ \E e \in Entries :
       /\ deqbuf(e)
       /\ user' = user \cup {pentry2pbuf(e)}
       /\ last_read' = desc[e].len
  /\ UNCHANGED <<rx_on, rxen, msk_rxrdy, posted, done, npkts, isr, wq, wq_pbuf,
                 ioc, lost, bug, foreign>>

(* It frees the buffer in use at any offset, also one that zap_read did    *)
(* not give the reader: those are counted.                                 *)
zap_write(p) ==
  /\ ReaderFree
  /\ \/ /\ p \in user
        /\ freebuf(p) \/ refused(p)
        /\ UNCHANGED foreign
     \/ /\ p \notin user /\ foreign < MaxForeign
        /\ freebuf(p)
        /\ foreign' = foreign + 1
  /\ user' = user \ {p}
  /\ UNCHANGED <<rx_on, rxen, msk_rxrdy, posted, done, npkts, isr, wq, wq_pbuf,
                 ioc, last_read, lost, bug>>

-----------------------------------------------------------------------------
(* zap_ioctl and zap_release, one at a time under dev->sem and pdma->sem:  *)
(* dma_ll_stop_rx step by step, then for "on" dma_start_rx_unsafe, for     *)
(* "size" pool_resize.                                                     *)

zap_ioctl(c) ==
  /\ CPUFree /\ ioc = Idle
  /\ Overlap \/ user = {}
  /\ ioc' = [pc |-> "clr_rxrdy", cmd |-> c]
  /\ UNCHANGED <<pvars, rx_on, rxen, msk_rxrdy, posted, done, npkts, isr, wq,
                 wq_pbuf, user, last_read, lost, bug, foreign>>

At(l) == CPUFree /\ ioc.pc = l
Then(l) == ioc' = IF l = "idle" THEN Idle ELSE [ioc EXCEPT !.pc = l]

StopIntr ==
  /\ At("clr_rxrdy") /\ Then("rx_off")
  /\ msk_rxrdy' = FALSE
  /\ UNCHANGED <<pvars, rx_on, rxen, posted, done, npkts, isr, wq, wq_pbuf,
                 user, last_read, lost, bug, foreign>>

StopRxOn ==
  /\ At("rx_off") /\ Then("rxen_off")
  /\ rx_on' = FALSE
  /\ UNCHANGED <<pvars, rxen, msk_rxrdy, posted, done, npkts, isr, wq, wq_pbuf,
                 user, last_read, lost, bug, foreign>>

StopPort ==
  /\ At("rxen_off") /\ Then("flush_wq")
  /\ rxen' = FALSE /\ posted' = <<>> /\ done' = <<>>
  /\ lost' = npkts
  /\ UNCHANGED <<pvars, rx_on, msk_rxrdy, npkts, isr, wq, wq_pbuf, user,
                 last_read, bug, foreign>>

(* flush_workqueue: wait until dma_rx_task has returned.                   *)
StopNoFlushWq ==
  /\ At("flush_wq") /\ Then("pool_flush")
  /\ UNCHANGED <<pvars, rx_on, rxen, msk_rxrdy, posted, done, npkts, isr, wq,
                 wq_pbuf, user, last_read, lost, bug, foreign>>

StopFlushWq ==
  /\ At("flush_wq") /\ wq = "idle" /\ Then("pool_flush")
  /\ UNCHANGED <<pvars, rx_on, rxen, msk_rxrdy, posted, done, npkts, isr, wq,
                 wq_pbuf, user, last_read, lost, bug, foreign>>

(* pool_flush and pool_busy; dma_stop_rx_unsafe ignores the result.        *)
StopFlushPool ==
  /\ At("pool_flush")
  /\ pool_flush(packet_size, num_packets)
  /\ CASE ioc.cmd = "off"  -> Then("idle")
       [] ioc.cmd = "size" -> Then("resize")
       [] ioc.cmd = "on"   -> Then("start_flush")
  /\ UNCHANGED <<rx_on, rxen, msk_rxrdy, posted, done, npkts, isr, wq, wq_pbuf,
                 user, last_read, lost, bug, foreign>>

SizeResize ==
  /\ At("resize") /\ Then("idle")
  /\ \E ps \in PacketSizes : pool_resize(ps)
  /\ UNCHANGED <<rx_on, rxen, msk_rxrdy, posted, done, npkts, isr, wq, wq_pbuf,
                 user, last_read, lost, bug, foreign>>

StartFlushPool ==
  /\ At("start_flush") /\ Then("start_busy")
  /\ pool_flush(packet_size, num_packets)
  /\ UNCHANGED <<rx_on, rxen, msk_rxrdy, posted, done, npkts, isr, wq, wq_pbuf,
                 user, last_read, lost, bug, foreign>>

(* A busy pool makes dma_start_rx return -EBUSY with the port still off.   *)
StartBusy ==
  /\ At("start_busy")
  /\ Then(IF pool_busy THEN "idle" ELSE "start_port")
  /\ UNCHANGED <<pvars, rx_on, rxen, msk_rxrdy, posted, done, npkts, isr, wq,
                 wq_pbuf, user, last_read, lost, bug, foreign>>

(* dma_ll_start_rx: RXEN off and on again, interrupts, rx_on, the work.    *)
StartPort ==
  /\ At("start_port") /\ Then("start_intr")
  /\ rxen' = TRUE /\ posted' = <<>> /\ done' = <<>>
  /\ UNCHANGED <<pvars, rx_on, msk_rxrdy, npkts, isr, wq, wq_pbuf, user,
                 last_read, lost, bug, foreign>>

StartIntrOmitted ==
  /\ At("start_intr") /\ Then("start_on")
  /\ UNCHANGED <<pvars, rx_on, rxen, msk_rxrdy, posted, done, npkts, isr, wq,
                 wq_pbuf, user, last_read, lost, bug, foreign>>

StartIntr ==
  /\ At("start_intr") /\ Then("start_on")
  /\ msk_rxrdy' = TRUE
  /\ UNCHANGED <<pvars, rx_on, rxen, posted, done, npkts, isr, wq, wq_pbuf,
                 user, last_read, lost, bug, foreign>>

StartOn ==
  /\ At("start_on") /\ Then("start_work")
  /\ rx_on' = TRUE
  /\ UNCHANGED <<pvars, rxen, msk_rxrdy, posted, done, npkts, isr, wq, wq_pbuf,
                 user, last_read, lost, bug, foreign>>

StartWork ==
  /\ At("start_work") /\ Then("idle")
  /\ wq' = "queued"
  /\ UNCHANGED <<pvars, rx_on, rxen, msk_rxrdy, posted, done, npkts, isr,
                 wq_pbuf, user, last_read, lost, bug, foreign>>

-----------------------------------------------------------------------------
RxInit ==
  /\ PoolInit
  /\ rx_on = FALSE /\ rxen = FALSE /\ msk_rxrdy = FALSE
  /\ posted = <<>> /\ done = <<>> /\ npkts = 0
  /\ isr = IsrIdle /\ wq = "idle" /\ wq_pbuf = NoBuf /\ ioc = Idle
  /\ user = {} /\ last_read = 0 /\ lost = 0 /\ bug = FALSE
  /\ foreign = 0

Isr == IsrRead \/ IsrEnq
Wq == WqStart \/ WqLoop \/ WqGet \/ WqPut
Ioctl ==
  \/ StopIntr \/ StopRxOn \/ StopPort \/ StopFlushWq \/ StopFlushPool
  \/ SizeResize
  \/ StartFlushPool \/ StartBusy \/ StartPort \/ StartIntr \/ StartOn
  \/ StartWork

RxNext ==
  \/ FpgaReceive
  \/ Isr
  \/ Wq
  \/ zap_read \/ \E p \in 0 .. Size : zap_write(p)
  \/ \E c \in Ioctls : zap_ioctl(c)
  \/ Ioctl

RxSpec == RxInit /\ [][RxNext]_vars

(* The handler runs when its interrupt is raised; the kernel schedules the *)
(* worker and the process inside the ioctl; the reader keeps reading and   *)
(* returning buffers.                                                      *)
RxFairness ==
  /\ WF_vars(Isr) /\ WF_vars(Wq) /\ WF_vars(Ioctl)
  /\ WF_vars(zap_read) /\ WF_vars(\E p \in user : zap_write(p))

RxFairSpec == RxSpec /\ RxFairness

-----------------------------------------------------------------------------
IsrBuf == IF isr = IsrIdle THEN {} ELSE {isr.pbuf}
WqBuf == IF wq = "put" THEN {wq_pbuf} ELSE {}
Bufs(d) == [k \in DOMAIN d |-> d[k].pbuf]
FpgaBufs == On(posted) \cup On(Bufs(done))

(* Types of the driver's receive state and of the FPGA's.                  *)
RxTypeOK ==
  /\ PoolTypeOK
  /\ rx_on \in BOOLEAN /\ rxen \in BOOLEAN /\ msk_rxrdy \in BOOLEAN
  /\ FpgaBufs \cup WqBuf \cup IsrBuf \cup user \subseteq 0 .. Size - 1
  /\ wq \in {"idle", "queued", "loop", "get", "put"}

(* BUG_ON(err) in dma_isr (dma_zynq.c:346) does not fire for a reader that *)
(* gives back only what zap_read gave it: a buffer the FPGA returns is     *)
(* then always one the pool knows to be in use.                            *)
NoBug == foreign = 0 => ~ bug

(* The buffers the FPGA, the worker, the handler and the reader have in    *)
(* hand are all different: the free list contains "pbufs that are NOT      *)
(* being used", the used list those "being used, by either the userspace   *)
(* app or the FPGA" (zap.c:69-71), so nobody is handed a buffer another    *)
(* still writes to or reads from.                                          *)
NoSharedBuf ==
  /\ Cardinality(FpgaBufs) = Len(posted) + Len(done)
  /\ \A s, t \in {<<"fpga", FpgaBufs>>, <<"isr", IsrBuf>>, <<"wq", WqBuf>>,
                  <<"user", user>>} : s[1] # t[1] => s[2] \cap t[2] = {}

(* And none is lost: the pool believes every one of them to be in use, and *)
(* outside an ioctl the used list has no other, so a buffer always comes   *)
(* back to the free list some day.  All of it for a reader that gives back *)
(* only what zap_read gave it: the driver itself takes back a buffer that  *)
(* the FPGA is still to fill (zap.c:519-520).                              *)
BufOwnership == foreign = 0 =>
  LET held == FpgaBufs \cup IsrBuf \cup WqBuf \cup user IN
  /\ NoSharedBuf
  /\ \A p \in held : Accepts(p)
  /\ ioc = Idle => held = UsedBufs

(* Packets received and not read yet, oldest first: the fifo list, the one *)
(* in the handler's hands, those the FPGA still holds.                     *)
Pkts(d) == [k \in DOMAIN d |-> d[k].pkt]
Hand == IF isr = IsrIdle THEN <<>> ELSE <<isr.pkt>>
InFlight == (FifoLens \o Hand) \o Pkts(done)
Up == rxen /\ ioc = Idle

(* The receive path implements a channel: the FPGA puts packets in, the    *)
(* reader gets them once and in order, through the FPGA's posted buffers,  *)
(* the handler's hands and the fifo list, and none is dropped but by an    *)
(* ioctl.  A buffer given back wrongly breaks none of this: the handler    *)
(* stops at the BUG_ON before a packet is passed over.                     *)
Chan == INSTANCE Channel WITH
  up <- Up, put <- npkts, queue <- InFlight, got <- last_read

RxIsChannel == Chan!Spec

(* Every ioctl that stops the receiver returns: flush_workqueue is never   *)
(* left waiting for a task that waits for a buffer (dma_zynq.c:221-233,    *)
(* 537).  Only a reader that gives back what it does not hold can bring    *)
(* the handler down, and every process with it.                            *)
StopReturns == ioc # Idle ~> ioc = Idle \/ foreign # 0

(* Every packet the FPGA receives reaches the reader unless the receiver   *)
(* is stopped first, or the reader gives back what it does not hold.       *)
RxDelivered ==
  \A n \in 1 .. MaxPkts :
    (npkts >= n) ~> (last_read >= n \/ lost >= n \/ foreign # 0)

-----------------------------------------------------------------------------
(* What every step on one CPU keeps true, when the reader leaves the       *)
(* driver alone during an ioctl and no packet size is zero.                *)

SizesPositive == OpenSize > 0 /\ 0 \notin PacketSizes

Stopped == {"flush_wq", "pool_flush", "resize", "start_flush", "start_busy",
            "start_port"}
Starting == {"start_intr", "start_on", "start_work"}

RxShape ==
  /\ posted \in Seq(Int) /\ done \in Seq([pbuf : Int, pkt : Nat])
  /\ isr \in [pbuf : Int, pkt : Nat] /\ npkts \in Nat
  /\ wq \in {"idle", "queued", "loop", "get", "put"}
  /\ ioc \in [pc : {"idle", "clr_rxrdy", "rx_off", "rxen_off"}
                     \cup Stopped \cup Starting,
              cmd : {"none", "on", "off", "size"}]
  /\ IF ioc.pc = "idle" THEN ioc = Idle ELSE ioc.cmd # "none"
  /\ rxen \in BOOLEAN

(* Where the ioctl is says who still holds buffers: once the port is in    *)
(* reset the FPGA and the handler hold none, once the workqueue is flushed *)
(* the task does not run, and it runs only with the port on.               *)
RxPhases ==
  /\ ioc.pc \in Stopped \cup Starting =>
       posted = <<>> /\ done = <<>> /\ isr = IsrIdle
  /\ ioc.pc \in (Stopped \cup Starting) \ {"flush_wq"} => wq = "idle"
  /\ ioc.pc \in Starting => rxen
  /\ ioc.pc \in Stopped => ~rxen
  /\ wq # "idle" => rxen \/ ioc.pc = "flush_wq"
  /\ ioc # Idle => user = {}

RxHands ==
  /\ NoRepeats(posted) /\ NoRepeats(Bufs(done))
  /\ On(posted) \cap On(Bufs(done)) = {} /\ FpgaBufs \cap IsrBuf = {}
  /\ (FpgaBufs \cup IsrBuf) \cap WqBuf = {}
  /\ (FpgaBufs \cup IsrBuf \cup WqBuf) \cap user = {}
  /\ FpgaBufs \cup IsrBuf \cup WqBuf \cup user \subseteq UsedBufs
  /\ ioc.pc \notin {"flush_wq", "pool_flush"} =>
       UsedBufs \subseteq FpgaBufs \cup IsrBuf \cup WqBuf \cup user

RxInv == /\ PoolInv /\ ~ stuck /\ packet_size > 0
         /\ RxShape /\ RxPhases /\ RxHands /\ ~ bug

RxOwnInv == foreign \in Nat /\ (foreign = 0 => RxInv)
=============================================================================

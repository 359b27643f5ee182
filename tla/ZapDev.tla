------------------------------- MODULE ZapDev -------------------------------
(***************************************************************************)
(* The ZAP character devices, recipes-kernel/iv-zap/src/zap.c with dma.c   *)
(* and dma_ll_update_fpga_parameters of dma_zynq.c: opening and closing    *)
(* /dev/zaprxN and /dev/zaptxN, the settings their ioctls change, the DMA  *)
(* switches and the memory each interface is given.  The buffers are in    *)
(* Pool, ZapRx and ZapTx; here a pool is its memory and its packet size.   *)
(*                                                                         *)
(* The body of zap_open, and of an ioctl, runs under dev->sem and is one   *)
(* action, or two when it sets a maximum size and then resizes the pool.   *)
(* What zap_open does before it takes that semaphore, and what zap_release *)
(* does before, are actions of their own: a close stops each direction     *)
(* under the semaphore of dma.c alone, so its flush may overlap an ioctl.  *)
(***************************************************************************)
EXTENDS Integers, FiniteSets

CONSTANTS
  Procs,           \* processes; each has at most one of the files open
  Modes,           \* subset of {"ro", "rw"}: O_RDONLY, or any other mode
  NumDevices,      \* zap_devp->num_devices, interfaces with device nodes
  NumInterfaces,   \* fpga_params.num_interfaces
  RxPoolSize, TxPoolSize,   \* the two halves of the reserved memory
  Page,            \* PAGE_SIZE
  UlongMod,        \* 2^w of an unsigned long
  DatFifo,         \* fpga_params.{rx,tx}_dat_fifo_size
  OobFifo,         \* fpga_params.{rx,tx}_oob_fifo_size
  IsJumboPacketSupported,
  Sizes,           \* arguments of the size ioctls
  Tuned,           \* bound: the devices whose size and jumbo ioctls are tried
  Cuttable,        \* bound: the devices of which a signal may cut short a close
  MaxCount         \* bound on open_count and the counts of in_use

ASSUME DevAssumption ==
  /\ IsFiniteSet(Procs) /\ Modes \subseteq {"ro", "rw"}
  /\ NumDevices \in Nat \ {0} /\ NumInterfaces \in 1 .. NumDevices
  /\ Page \in Nat \ {0} /\ UlongMod \in Nat \ {0}
  /\ RxPoolSize \in Nat /\ TxPoolSize \in Nat
  /\ RxPoolSize + TxPoolSize < UlongMod
  /\ DatFifo \in 0 .. UlongMod - 1 /\ OobFifo \in Nat
  /\ Sizes \subseteq 0 .. UlongMod - 1
  /\ Tuned \subseteq Nat \X {"rx", "tx"}
  /\ IsJumboPacketSupported \in BOOLEAN
  /\ Cuttable \subseteq Nat \X {"rx", "tx"} /\ MaxCount \in Nat

Dirs == {"rx", "tx"}
Minors == (0 .. NumDevices - 1) \X Dirs
Live == {m \in Minors : m[1] < NumInterfaces}

VARIABLES
  th,             \* per process: next step, minor and mode of its file
  version_mode,   \* register READ_VERSION: others read differently while set
  open_count,     \* dev->open_count
  in_use,         \* counts of the semaphores in_use_rx and in_use_tx
  region,         \* {rx,tx}_paddr and {rx,tx}_size
  max_size,       \* {rx,tx}_payload_max_size
  header_size,    \* {rx,tx}_header_size; *_header_enable says it is not 0
  jumbo,          \* {rx,tx}_jumbo_pkt_enable
  pool_size,      \* size of the pool, as pool_create was given it
  packet_size,    \* packet_size of the pool
  on,             \* rx_on, tx_on
  cut,            \* devices a close of which was cut short by a signal
  late,           \* the packet size that the flush of a close has read
  overtaken       \* devices whose size such a flush has since put back

settings == <<region, max_size, header_size, jumbo, pool_size, packet_size>>
flushing == <<late, overtaken>>
dvars == <<th, version_mode, open_count, in_use, region, max_size, header_size,
           jumbo, pool_size, packet_size, on, cut, late, overtaken>>

Closed == [pc |-> "closed", m |-> <<0, "rx">>, mode |-> "none"]
Goto(p, l) == th' = [th EXCEPT ![p].pc = l]
Close(p) == th' = [th EXCEPT ![p] = Closed]
At(p, l) == th[p].pc = l

(* The steps of a process per direction: an ioctl about to resize a pool,  *)
(* and a close about to stop a direction, in its flush, and done with it.  *)
Sizing(dir) == IF dir = "tx" THEN "sizing_tx" ELSE "sizing_rx"
Test(dir) == IF dir = "tx" THEN "opened" ELSE "test_rx"
Stop(dir) == IF dir = "tx" THEN "stop_tx" ELSE "stop_rx"
Flush(dir) == IF dir = "tx" THEN "flush_tx" ELSE "flush_rx"
Past(dir) == IF dir = "tx" THEN "test_rx" ELSE "release"

(* dev->sem of zap.c, and pdma->sem of dma.c.                              *)
DevSemFree == \A q \in Procs, dir \in Dirs : ~ At(q, Sizing(dir))
DmaSemFree == \A q \in Procs, dir \in Dirs : ~ At(q, Flush(dir))

-----------------------------------------------------------------------------
(* setup_multiple_pools: each half is cut in equal parts whose start is    *)
(* rounded up to a page; a size is the distance to the next start, and a   *)
(* half that is not cut keeps its own.                                     *)

PAGE_ALIGN(a) == ((a + Page - 1) \div Page) * Page

PoolBase(dir) == IF dir = "rx" THEN 0 ELSE RxPoolSize
PoolSize(dir) == IF dir = "rx" THEN RxPoolSize ELSE TxPoolSize

paddr_no_base(n, i, dir) == PAGE_ALIGN((RxPoolSize \div n) * i)

(* Both directions step by the size of the receive part.                   *)
paddr(n, i, dir) == PAGE_ALIGN(PoolBase(dir) + (RxPoolSize \div n) * i)

Part(n, m) ==
  [base |-> paddr(n, m[1], m[2]),
   size |-> LET end == IF m[1] = n - 1 THEN PoolBase(m[2]) + PoolSize(m[2])
                       ELSE paddr(n, m[1] + 1, m[2])
            IN  IF n = 1 THEN PoolSize(m[2])
                ELSE (end - paddr(n, m[1], m[2])) % UlongMod]

setup_multiple_pools ==
  [m \in Minors |-> IF m \in Live THEN Part(NumInterfaces, m) ELSE region[m]]

(* pool_resize returns -ENOMEM when a packet and a page do not fit.        *)
PoolTakes(size, ps) == ps <= (size - Page) % UlongMod

-----------------------------------------------------------------------------
(* zap_open.  The FPGA's parameters are read first, without the semaphore, *)
(* if no file is open.                                                     *)

OpenCheck(p, m, mode) ==
  /\ At(p, "closed")
  /\ open_count < MaxCount /\ in_use[m] < MaxCount
  /\ th' = [th EXCEPT ![p] =
              [pc |-> IF open_count = 0 THEN "ver_on" ELSE "open",
               m |-> m, mode |-> mode]]
  /\ UNCHANGED <<version_mode, open_count, in_use, settings, on, cut, flushing>>

VersionOn(p) ==
  /\ At(p, "ver_on") /\ Goto(p, "ver_off")
  /\ version_mode' = TRUE
  /\ UNCHANGED <<open_count, in_use, settings, on, cut, flushing>>

VersionOff(p) ==
  /\ At(p, "ver_off") /\ Goto(p, "open")
  /\ version_mode' = FALSE
  /\ UNCHANGED <<open_count, in_use, settings, on, cut, flushing>>

(* -ENXIO for an interface the FPGA does not have, -EBUSY for a device in  *)
(* use (setup_multiple_pools has run by then), -ERESTARTSYS for a signal.  *)
OpenRefused(p) ==
  /\ At(p, "open") /\ Close(p)
  /\ \/ /\ th[p].m \notin Live
        /\ UNCHANGED region
     \/ /\ th[p].m \in Live /\ th[p].mode = "rw" /\ in_use[th[p].m] = 0
        /\ DevSemFree
        /\ region' = setup_multiple_pools
     \/ /\ th[p].m \in Live
        /\ UNCHANGED region
  /\ UNCHANGED <<version_mode, open_count, in_use, max_size, header_size,
                 jumbo, pool_size, packet_size, on, cut, flushing>>

OpenReadOnly(p) ==
  /\ At(p, "open") /\ th[p].m \in Live /\ th[p].mode = "ro" /\ DevSemFree
  /\ Goto(p, "opened")
  /\ open_count' = open_count + 1
  /\ UNCHANGED <<version_mode, in_use, settings, on, cut, flushing>>

(* The error of pool_resize is only logged.                                *)
OpenReadWriteNoCount(p) ==
  LET m == th[p].m IN
  /\ At(p, "open") /\ m \in Live /\ th[p].mode = "rw" /\ in_use[m] > 0
  /\ DevSemFree /\ Goto(p, "opened")
  /\ in_use' = [in_use EXCEPT ![m] = @ - 1]
  /\ region' = setup_multiple_pools
  /\ pool_size' = [pool_size EXCEPT ![m] = region'[m].size]
  /\ max_size' = [max_size EXCEPT ![m] = DatFifo]
  /\ packet_size' = [packet_size EXCEPT ![m] = DatFifo]
  /\ UNCHANGED <<version_mode, open_count, header_size, jumbo, on, cut,
                 flushing>>

OpenReadWrite(p) ==
  LET m == th[p].m IN
  /\ At(p, "open") /\ m \in Live /\ th[p].mode = "rw" /\ in_use[m] > 0
  /\ DevSemFree /\ Goto(p, "opened")
  /\ in_use' = [in_use EXCEPT ![m] = @ - 1]
  /\ region' = setup_multiple_pools
  /\ pool_size' = [pool_size EXCEPT ![m] = region'[m].size]
  /\ max_size' = [max_size EXCEPT ![m] = DatFifo]
  /\ overtaken' = overtaken \ {m}
  /\ packet_size' = IF PoolTakes(pool_size'[m], DatFifo)
                    THEN [packet_size EXCEPT ![m] = DatFifo] ELSE packet_size
  /\ open_count' = open_count + 1
  /\ UNCHANGED <<version_mode, header_size, jumbo, on, cut, late>>

-----------------------------------------------------------------------------
(* zap_ioctl: whichever file it is called on, a command names a direction. *)
(* The commands that change a setting stop that direction first, and leave *)
(* it stopped when they fail.                                              *)

Stopped(m) == on' = [on EXCEPT ![m] = FALSE]

SizeAllowedAlways(m, n) == TRUE

(* ulTemp - header_size is an unsigned subtraction.                        *)
SizeAllowed(m, n) == jumbo[m] \/ (n - header_size[m]) % UlongMod <= DatFifo

W_MAX_SIZE(p, m, n) ==
  /\ Stopped(m)
  /\ \/ /\ SizeAllowed(m, n)
        /\ max_size' = [max_size EXCEPT ![m] = n]
        /\ Goto(p, Sizing(m[2]))
     \/ /\ ~ SizeAllowed(m, n)
        /\ UNCHANGED <<max_size, th>>
  /\ UNCHANGED <<region, header_size, jumbo, pool_size, packet_size>>

(* The pool_resize that ends the ioctl.                                    *)
W_MAX_SIZE_resize(p, dir) ==
  LET m == <<th[p].m[1], dir>> IN
  /\ At(p, Sizing(dir)) /\ Goto(p, "opened")
  /\ packet_size' = IF PoolTakes(pool_size[m], max_size[m])
                    THEN [packet_size EXCEPT ![m] = max_size[m]]
                    ELSE packet_size
  /\ overtaken' = overtaken \ {m}
  /\ UNCHANGED <<version_mode, open_count, in_use, region, max_size,
                 header_size, jumbo, pool_size, on, cut, late>>

W_HEADER_SIZE(m, n) ==
  /\ Stopped(m)
  /\ header_size' =
       IF n <= OobFifo /\ n < max_size[m]
          /\ (jumbo[m] \/ max_size[m] - n <= DatFifo)
       THEN [header_size EXCEPT ![m] = n] ELSE header_size
  /\ UNCHANGED <<th, region, max_size, jumbo, pool_size, packet_size>>

W_JUMBO_EN(m, b) ==
  /\ Stopped(m)
  /\ jumbo' = IF b /\ ~ IsJumboPacketSupported THEN jumbo
              ELSE [jumbo EXCEPT ![m] = b]
  /\ UNCHANGED <<th, region, max_size, header_size, pool_size, packet_size>>

(* Starting flushes the pool, which may refuse as pool_resize does.        *)
W_DMA_ON(m, b) ==
  /\ on' = [on EXCEPT ![m] = b /\ PoolTakes(pool_size[m], packet_size[m])]
  /\ UNCHANGED <<th, settings>>

zap_ioctl(p) ==
  /\ At(p, "opened") /\ DevSemFree /\ DmaSemFree
  /\ \E dir \in Dirs : LET m == <<th[p].m[1], dir>> IN
       \/ /\ m \in Tuned
          /\ \/ \E n \in Sizes : W_MAX_SIZE(p, m, n) \/ W_HEADER_SIZE(m, n)
             \/ \E b \in BOOLEAN : W_JUMBO_EN(m, b)
       \/ \E b \in BOOLEAN : W_DMA_ON(m, b)
  /\ UNCHANGED <<version_mode, open_count, in_use, cut, flushing>>

-----------------------------------------------------------------------------
(* zap_release: stop the direction tx if it runs, then rx, and under       *)
(* dev->sem give the device back, whatever mode it was opened in.  A       *)
(* signal makes any down_interruptible fail; the file is gone all the same.*)

ReleaseTestOwn(p, dir) ==
  /\ At(p, Test(dir))
  /\ Goto(p, IF on[th[p].m] /\ th[p].m[2] = dir THEN Stop(dir) ELSE Past(dir))
  /\ UNCHANGED <<version_mode, open_count, in_use, settings, on, cut, flushing>>

(* dma_tx_is_on and dma_rx_is_on take no lock.                             *)
ReleaseTest(p, dir) ==
  /\ At(p, Test(dir))
  /\ Goto(p, IF on[<<th[p].m[1], dir>>] THEN Stop(dir) ELSE Past(dir))
  /\ UNCHANGED <<version_mode, open_count, in_use, settings, on, cut, flushing>>

(* The direction is off, and pool_flush has read the pool's packet size.   *)
ReleaseStop(p, dir) ==
  LET m == <<th[p].m[1], dir>> IN
  /\ At(p, Stop(dir)) /\ DmaSemFree /\ Goto(p, Flush(dir))
  /\ on' = [on EXCEPT ![m] = FALSE]
  /\ late' = packet_size[m]
  /\ UNCHANGED <<version_mode, open_count, in_use, settings, cut, overtaken>>

ReleaseStopInterrupted(p, dir) ==
  /\ <<th[p].m[1], dir>> \in Cuttable \ cut
  /\ At(p, Stop(dir)) /\ Goto(p, Past(dir))
  /\ cut' = cut \cup {<<th[p].m[1], dir>>}
  /\ UNCHANGED <<version_mode, open_count, in_use, settings, on, flushing>>

(* The pool_resize of the flush: with the size read, not the pool's own.   *)
ReleaseFlush(p, dir) ==
  LET m == <<th[p].m[1], dir>> IN
  /\ At(p, Flush(dir)) /\ Goto(p, Past(dir))
  /\ packet_size' = IF PoolTakes(pool_size[m], late)
                    THEN [packet_size EXCEPT ![m] = late] ELSE packet_size
  /\ overtaken' = IF packet_size' = packet_size THEN overtaken
                  ELSE overtaken \cup {m}
  /\ late' = 0
  /\ UNCHANGED <<version_mode, open_count, in_use, region, max_size,
                 header_size, jumbo, pool_size, on, cut>>

zap_release_no_up(p) ==
  /\ At(p, "release") /\ DevSemFree /\ Close(p)
  /\ open_count' = open_count - 1
  /\ UNCHANGED <<version_mode, in_use, settings, on, cut, flushing>>

zap_release(p) ==
  /\ At(p, "release") /\ DevSemFree /\ Close(p)
  /\ in_use' = [in_use EXCEPT ![th[p].m] = @ + 1]
  /\ open_count' = open_count - 1
  /\ UNCHANGED <<version_mode, settings, on, cut, flushing>>

zap_release_interrupted(p) ==
  /\ th[p].m \in Cuttable \ cut
  /\ At(p, "release") /\ Close(p)
  /\ cut' = cut \cup {th[p].m}
  /\ UNCHANGED <<version_mode, open_count, in_use, settings, on, flushing>>

-----------------------------------------------------------------------------
(* zap_probe has run: devices registered, interfaces zeroed.               *)
DevInit ==
  /\ th = [p \in Procs |-> Closed]
  /\ version_mode = FALSE /\ open_count = 0
  /\ in_use = [m \in Minors |-> 1]
  /\ region = [m \in Minors |-> [base |-> 0, size |-> 0]]
  /\ max_size = [m \in Minors |-> 0]
  /\ header_size = [m \in Minors |-> 0]
  /\ jumbo = [m \in Minors |-> FALSE]
  /\ pool_size = [m \in Minors |-> 0]
  /\ packet_size = [m \in Minors |-> 0]
  /\ on = [m \in Minors |-> FALSE]
  /\ cut = {} /\ late = 0 /\ overtaken = {}

DevNext ==
  \E p \in Procs :
    \/ \E m \in Minors, mode \in Modes : OpenCheck(p, m, mode)
    \/ VersionOn(p) \/ VersionOff(p)
    \/ OpenRefused(p) \/ OpenReadOnly(p) \/ OpenReadWrite(p)
    \/ zap_ioctl(p)
    \/ \E dir \in Dirs :
         \/ W_MAX_SIZE_resize(p, dir)
         \/ ReleaseTest(p, dir) \/ ReleaseStop(p, dir)
         \/ ReleaseStopInterrupted(p, dir) \/ ReleaseFlush(p, dir)
    \/ zap_release(p) \/ zap_release_interrupted(p)

DevSpec == DevInit /\ [][DevNext]_dvars

-----------------------------------------------------------------------------
HasFile(p) == th[p].pc \notin {"closed", "ver_on", "ver_off", "open"}
Files(m, mode) ==
  {p \in Procs : HasFile(p) /\ th[p].m = m /\ th[p].mode = mode}

(* Types of the device's fields; open_count is unsigned and in_use a       *)
(* semaphore count, so neither may go below zero.                          *)
Pcs == {"closed", "ver_on", "ver_off", "open", "opened", "sizing_tx",
        "sizing_rx", "stop_tx", "flush_tx", "test_rx", "stop_rx", "flush_rx",
        "release"}
ThType == [pc : Pcs, m : Minors, mode : Modes \cup {"none"}]
Ulong == 0 .. UlongMod - 1

DevTypeOK ==
  /\ th \in [Procs -> ThType]
  /\ open_count \in Nat /\ in_use \in [Minors -> Nat]
  /\ max_size \in [Minors -> Ulong] /\ packet_size \in [Minors -> Ulong]
  /\ pool_size \in [Minors -> Ulong]
  /\ header_size \in [Minors -> 0 .. OobFifo]
  /\ jumbo \in [Minors -> BOOLEAN] /\ on \in [Minors -> BOOLEAN]
  /\ cut \subseteq Minors /\ overtaken \subseteq Minors /\ late \in Ulong

(* R_INSTANCE_COUNT reports the files that are open (zap.c:825): every     *)
(* path of zap_open and zap_release keeps open_count equal to their number,*)
(* and a close that a signal cuts short leaves it too high, never too low. *)
OpenCountExact ==
  LET files == Cardinality({p \in Procs : HasFile(p)}) IN
  open_count >= files /\ (cut = {} => open_count = files)

(* A device that nobody has open for writing can be opened: its semaphore  *)
(* is not left down by a refused open or a close that ran to its end.      *)
Reopenable ==
  \A m \in Minors \ cut : Files(m, "rw") = {} => in_use[m] > 0

(* A second open for writing is refused: "Device %d IN USE" (zap.c:289,    *)
(* 314).  Two would share one pool.                                        *)
ExclusiveWriter == \A m \in Minors : Cardinality(Files(m, "rw")) <= 1

(* An interface no file is open on does not run: its DMA cannot go on      *)
(* writing memory that nobody reads, whichever file started it, unless a   *)
(* signal cut a stop short.                                                *)
ClosedMeansStopped ==
  \A m \in Minors \ cut :
    on[m] => \E p \in Procs : HasFile(p) /\ th[p].m[1] = m[1]

(* "Check to make sure Packet larger than max size is not being sent"      *)
(* (zap.c:499): the length zap_write lets through, and the size that       *)
(* dma_ll_start_rx programs, do not exceed the pool's packets, once the    *)
(* ioctl that sets it has resized the pool.  The exception: pool_flush     *)
(* reads the size it applies before it has the lock (pool.c:621), so the   *)
(* flush of another file's close that spans a change puts the old size     *)
(* back, and that size stays until the next change.                        *)
MaxSizeFitsPacket ==
  \A m \in Minors \ overtaken :
    \/ max_size[m] <= packet_size[m]
    \/ \E p \in Procs : th[p].m[1] = m[1] /\ At(p, Sizing(m[2]))

(* However many interfaces there are, their parts lie apart and in the     *)
(* half they are cut from.                                                 *)
EverySplitApart ==
  \A n \in 1 .. NumDevices : \A m \in (0 .. n - 1) \X Dirs :
    LET a == Part(n, m) IN
    /\ PoolBase(m[2]) <= a.base
    /\ a.base + a.size <= PoolBase(m[2]) + PoolSize(m[2])
    /\ \A k \in (0 .. n - 1) \X Dirs : k # m =>
         LET b == Part(n, k) IN
         b.base + b.size <= a.base \/ a.base + a.size <= b.base

(* "this pool will be split up among devices" (_zap.h:74): for any number  *)
(* of interfaces setup_multiple_pools makes parts that do not overlap and  *)
(* lie in the half they are cut from, and an open pool is the part of its  *)
(* interface.                                                              *)
PoolsSplit ==
  /\ EverySplitApart
  /\ \A m \in Minors, mode \in Modes :
       (mode = "rw" /\ Files(m, mode) # {}) =>
         pool_size[m] = Part(NumInterfaces, m).size

(***************************************************************************)
(* The inductive invariant.  A file is one of an interface the FPGA has; a *)
(* direction that runs has a file that will stop it, since every close     *)
(* tests it; a pool that was created is the part of its interface.         *)
(***************************************************************************)
FilesLive == \A p \in Procs : HasFile(p) => th[p].m \in Live

WillStop(p, dir) ==
  th[p].pc \in {"opened", "sizing_tx", "sizing_rx", "stop_tx"} \cup
    (IF dir = "tx" THEN {} ELSE {"flush_tx", "test_rx", "stop_rx"})

RunsForOpened ==
  \A m \in Minors \ cut :
    on[m] => \E p \in Procs : WillStop(p, m[2]) /\ th[p].m[1] = m[1]

PoolIsPart ==
  \A m \in Minors :
    /\ pool_size[m] \in {0, Part(NumInterfaces, m).size}
    /\ Files(m, "rw") # {} => pool_size[m] = Part(NumInterfaces, m).size

DevInv == /\ DevTypeOK /\ OpenCountExact /\ Reopenable
          /\ FilesLive /\ RunsForOpened /\ PoolIsPart

(* What the settings need: no jumbo packets, and room in every part for    *)
(* the largest packet the FIFOs allow and a page.                          *)
FifosFit ==
  /\ ~ IsJumboPacketSupported
  /\ DatFifo + OobFifo + Page <= UlongMod
  /\ \A m \in Live :
       PoolTakes(Part(NumInterfaces, m).size, DatFifo + OobFifo)

SizesInv ==
  /\ \A m \in Minors : ~ jumbo[m] /\ max_size[m] <= DatFifo + OobFifo
  /\ MaxSizeFitsPacket

(* What the split needs: halves as in the device tree (atlas-z8-inc.dtsi,  *)
(* pool-sizes), whole pages and that of the receive side not larger.       *)
HalvesFit == RxPoolSize % Page = 0 /\ RxPoolSize <= TxPoolSize
=============================================================================

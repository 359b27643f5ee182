# TLA+ verification of meta-iveia

meta-iveia is a Yocto layer for iVeia's Zynq and ZynqMP boards. Its own
programs are kernel drivers for the FPGA (`recipes-kernel/`), the `ivfru`
command that keeps a board's IPMI FRU record (`recipes-bsp/`), boot-time board
setup (FSBL and U-Boot) and an installer. This directory holds TLA+ models of
the parts that have state and control of their own, the TLC runs that check
them, and TLAPS proofs of their safety properties for every value of the
constants.

To check a run: `tlc -config MCPoolWait.cfg MCPoolWait` (module and configuration are
listed per run in `PROJECT.json`); to check the proofs: `tlapm PoolProofs.tla`, and
the same for every other module whose name ends in `Proofs`.

## Inventory

| Part | State | Operations | How it interacts | What is hard | What makes it correct |
|---|---|---|---|---|---|
| ZAP buffer pool, `iv-zap/src/pool.c` | free, fifo and used lists of packets, packet size, two wait queues, a spinlock | get, free, enqueue, dequeue (try, timed, blocking), resize, flush, busy | called by file operations, by a work item and by the interrupt handler | sleeping and waking, a failing allocation under the lock, sizes from user space | every packet on one list, packets disjoint, no lost wake-up |
| ZAP receive path, `dma_zynq.c`, `dma.c`, `zap.c` | interrupt mask, RXEN, work item, buffers in the FPGA | interrupt, refill task, read, write-back, on, off, resize | handler, task and processes share the pool; the FPGA fills buffers | stop against a running task or handler | no packet lost, repeated or reordered, no buffer in two hands, every stop returns |
| ZAP transmit path, same files | interrupt masks, TXEN, buffers in the FPGA | interrupt, write, on, off, resize | as above; the FPGA empties buffers | a mask turned off by the handler and on by a writer | each packet sent once and in order, each buffer comes back |
| ZAP devices, `zap.c` | open count, two semaphores per interface, settings, memory regions | open, close, ioctls | opens split the memory and re-create the pools | work before the semaphore, signals in close, read-only opens | counts exact, devices reopenable, sizes within packets, regions disjoint |
| Event driver, `iv-events/src/events.c` | list of open files, pending bits and mask per file, enable register | open, close, write (mask), read, interrupt | handler sets bits and wakes readers | bits cleared while the handler sets others | no event lost, no reader left asleep |
| FRU records and `ivfru`, `shared/files/ivfru_common.c`, `ivfru/files/*` | image file, board storage, write-protect pin | create, xcreate, add, rm, fix, read, write, display | file and board storage through eeprog and flashcp | lengths in bytes and in eights, two formats, a command killed half-way | images stay valid and say what was asked; what was written is read back |
| OCP windows, `iv-ocp/src/ocp.c` | windows and their mappings, a semaphore, a count of open files; the kernel's nodes, regions and mappings | probe, remove, open, close, read, write, llseek, mmap | file positions are the kernel's, around the driver's lock | positions two threads change, nodes reachable before the probe has ended, a cleanup that runs after any step | accesses stay in the window, nothing missing is touched, nothing is left over |
| FSBL boot sequencing, `fsbl-firmware/files/iv_z8_*boot*` | boot mode and multi-boot registers, place in the sequence | read the part number, try a device and image number, reset, give up | the boot ROM and the Xilinx loader read the registers before and after | the same code runs again after its own reset, with the registers it left | the first image there is booted, loader and U-Boot come from one image, the resets end |
| U-Boot board scan, `u-boot/files/iveia-init.c` | environment (board strings, ordinals, forced strings, addresses), its saved copy | scan at start and after an overlay, `/chosen` at boot, saveenv | reads the EEPROMs that `ivfru` writes and the FSBL reads; tells Linux | saved values of boards since exchanged | Linux is told of the boards that are there, addresses are unique |
| `ivfru` in U-Boot, `u-boot/files/ivfru*.c` | image in memory, GPIO requests | as `ivfru` in Linux | the same boards as Linux, between resets | every error ends the command where it is | success means written and protected |
| Installer, small drivers, test tools | - | - | external tools and kernel frameworks | - | - |

`PROJECT.json` lists every part under `components`, with the reason for each
one that is not modelled, and under `hazards` what in this code is hard to
test, each at its line.

## Modules

| Module | Models | Extends |
|---|---|---|
| `Pool` | the routines of `pool.c` that run under the pool's lock, one action each | |
| `PoolWait` | blocking, timed and try variants, wait queues, timeouts, signals | `Pool` |
| `Channel` | abstract: what one direction of an interface promises, a FIFO that may drop packets while it is stopped | |
| `ZapRx` | receive path around one pool; implements `Channel` | `Pool`, instance of `Channel` |
| `ZapTx` | transmit path around one pool; implements `Channel` | `Pool`, instance of `Channel` |
| `ZapDev` | character devices, settings, memory split | |
| `Events` | event driver | |
| `Ocp` | OCP driver | |
| `Fru` | FRU images and the `ivfru` command of Linux | |
| `FruUboot` | the `ivfru` command of U-Boot, and resets between the two systems | `Fru` |
| `Boot` | FSBL boot sequencer, with the ROM and media around it | |
| `BoardScan` | U-Boot's board scan, and the whole start from power-up to Linux | `Boot` |
| `MC*` | constants for TLC | the module checked |
| `PoolProofs` | theorems about `Pool` and `PoolWait` | `PoolWait`, `TLAPS` |
| `ZapRxProofs`, `ZapTxProofs` | theorems about `ZapRx` and `ZapTx` | the module, `PoolProofs` |
| `ZapDevProofs`, `EventsProofs`, `OcpProofs` | theorems about the module named | the module, `TLAPS` |
| `FruProofs` | theorems about `Fru` and `FruUboot` | `FruUboot`, `TLAPS` and the theorems on sequences, finite sets and well-founded relations |
| `BootProofs` | theorems about `Boot` and `BoardScan` | `BoardScan`, `TLAPS` |

How state and actions correspond to the code:

* **Pool.** `freelist` and `fifolist` are sequences and `usedlist` a set of
  entry numbers; `desc` holds length, out-of-band length and flags of an entry.
  `pentry2pbuf` and `pbuf2pentry` do the code's address arithmetic with the
  width of an unsigned long as a constant. `getbuf`, `freebuf`, `enqbuf`,
  `deqbuf`, `pool_resize`, `pool_flush` are the locked bodies; `pool_flush` gets
  the size and count as arguments, since the code reads them before it has the
  lock. Any address is tried, not only a buffer's. The test of an address
  (pool.c:166) lets the entry behind the last one through: what is read there
  decides, so with `BehindMayMatch` the call may go on to move an entry that does not
  exist (`stray`), and nothing is claimed of the pool after it. `pool_resize_nomem` is the failing `kzalloc`,
  which returns with the spinlock held: the variable `stuck` stops the pool
  from then on, which is why the run `pool_wait` says `CHECK_DEADLOCK FALSE`.
* **PoolWait.** Each thread has a program counter: call, test of the condition,
  asleep, take. `wake_up` is a step of its own after the unlock, as in the code.
  A signal and a timeout end a sleep in the same way (`GetGiveUp`, `DeqGiveUp`).
  A flush is three steps (`FlushSize`, `FlushNum`, `FlushLock`): the two reads and
  the locked part, with what was read then.
* **Channel.** `RxIsChannel` and `TxIsChannel` map `ZapRx` and `ZapTx` to it: the
  receiver's queue is the fifo list, the packet in the handler's hands and those
  the FPGA has filled and still holds; the transmitter's is the packet in the
  handler's hands and the fifo list, and a packet is out when it is handed to the
  FPGA; `up` holds
  while the direction runs and no ioctl is changing it. The refinement says that a
  step of the detailed model puts, gets, drops (only while not up) or does
  nothing, so it forbids loss, repetition and reordering in one property.
* **ZapRx, ZapTx.** The handler, the work item and the ioctl are split at
  every register access, list test and pool call, so that each other actor can
  come between. On one CPU (`SMP`, `smp` false) the handler runs to its end once
  entered; on two it interleaves with everything. The FPGA is external.
  `zap_write` takes the buffer in use at any offset, as the code does, which keeps no
  record of who holds one. `foreign` counts the times a process passed a buffer
  that `zap_read` had not given it (at most `MaxForeign`). On the receive side such a
  call frees a buffer the FPGA is still to fill and the handler then ends in
  BUG_ON, so `NoBug`, `BufOwnership`, `StopReturns` and `RxDelivered` are stated of
  readers that give back only their own; on the transmit side `TxOwnership` is,
  while the order of packets (`TxIsChannel`), the kicks and the sending hold whatever
  is passed. `RxIsChannel` is checked with such calls too, and proved without. The
  address behind the last packet is tried in `pool_wait` alone (`BehindMayMatch`).
* **ZapDev.** What runs under `dev->sem` is one action; the version registers,
  which `zap_open` switches before it takes the semaphore, and the stops in
  `zap_release` are actions of their own: for each direction the test whether it
  runs, the stop under the DMA's semaphore (which a signal may cut short), the read
  of the packet size and the flush that applies it, all without `dev->sem`. A size
  ioctl stores the maximum and then resizes. A flush of a close that spans such a
  change puts the old packet size back; `overtaken` has the devices this happened to,
  until their size is next set. A pool is here its memory and packet
  size. `cut` records the closes that a signal cut short.
* **Events.** The handler is split into reading PENDING, one wake-up per file,
  clearing and masking; `open` and `close` run between disable_irq and enable_irq,
  so no handler runs beside them; `read` into test, sleep, taking the bits and the load and
  store with which it clears them. In a behaviour with `use` "paced" one file at
  a time is open and its thread writes one mask before each read; with "debug"
  events also come through the debugfs trigger, whose walk over the files is
  split at each load, store and wake-up; with "any" signals come (also in close,
  which then leaves its file on the list: `cut`), allocations fail and reads may
  wait for all of several events; with "shared" a second thread (`other`) reads and
  writes the same file, and `shared` records what it did while the first was in a
  read. The trigger's walk takes no lock: when the file it is at is closed the walk
  is at freed memory (`"freed"`); its next step (`TriggerWild`) may do anything, and
  the model ends there. A signal may come at either `down_interruptible` of a read, and
  a failing copy_to_user after the clear loses what was taken, as a return does.
  `due` is a history variable: events raised
  and not yet reported to a file.
* **Fru.** Images are bytes. Each command computes its image in a private buffer
  in one action and then saves (truncate, write) or writes a board (unprotect,
  write, protect) step by step. It may be killed or fail between any two. `made`
  and `stored` are history variables: what the commands were told, and what was
  last written to a board. A command that refuses changes nothing under Linux and
  is no action. `pins` are the EEPROMs with a write-protect pin. Linux drives it with
  `echo` and looks at no result, so both steps may leave the pin as it is
  (`WpOff`, `WpOn`): a protected EEPROM then keeps its bytes (`WriteI2cNothing`), and
  one that stays open is in `bare`. A blank board holds bytes of `Blanks`. A board starts blank or with a whole image that says what is known of it
  (`SuppliedAssumption`, `Faithful`); any other bytes come in as a file the user puts
  at the location, of which nothing is known (`Supply`). Nothing is known either of
  an image whose fields have outgrown the length byte (`Eights` beyond 255: the byte
  wraps, and what later commands make of it is an accident); `FileValid` and
  `FileSays` except an empty pre-defined field and a new image of 512 bytes
  (`Regular`), which ivfru does not get right.
* **FruUboot.** The U-Boot commands reuse the image operators and differ in the
  platform: the location is memory that a reset loses and that the commands change as
  they go. A create that refuses a field has replaced what comes before it
  (`uboot_create_refused`), a read that fails, or whose length byte makes a negative
  size, leaves its first part there (`uboot_read_fails`, `uboot_read_negative`); nothing
  is known of the image then. The GPIO is requested, driven, driven back and freed with an
  error possible at each (`held` are the requests left over), `sf update` keeps
  what it does not write. `Restart` changes system at any point. `told` is the
  board a write has just been reported a success of.
* **Ocp.** `dev` is the driver's structure, `kern` what the kernel holds for it
  (regions, devices, nodes, mappings, and those `left` by a failing
  class_create). Probe is one action per step that can be observed or can fail;
  each failure runs `ocp_remove`. A read or write is the kernel loading the
  position (`vfs_enter`), the driver's body under the semaphore (`Transfer`), the
  kernel storing it (`vfs_leave`). `oops` records the first touch of an item that
  is not there and ends the behaviour; `loose` says whether it was by the probe,
  by a file opened before the probe had returned, or by one still open when the
  driver was unbound. `Unbind` is `ocp_remove` with or without open files, as sysfs
  calls it; the removal of the module is the case without.
* **Boot, BoardScan.** `pc` is what runs: the ROM, the FSBL (start, an entry of
  `boot_seq`, an attempt), the loading of U-Boot, its prompt, Linux. The
  registers, media and EEPROMs are variables; what is plugged in is chosen at
  power-up. An EEPROM is what its readers tell apart: whether it answers, whether
  the fixed part the FSBL checks is right, whether the whole image is valid and
  printable, part number and serial number, whose letters may be in lower case
  (`toupper`). `bootm` finds `/chosen` in the device tree, or does not and tells Linux
  nothing. The two modules share the EEPROMs and
  the start; only the registers outlive a reboot and only the saved environment
  outlives the power.

## Runs

| Run | Shows | Bounds |
|---|---|---|
| `pool_wait` | the three lists partition the packets, packets disjoint and inside the memory, no lost wake-up, one holder per buffer | 3 threads, 48 bytes of memory, up to 3 packets, all addresses (the one behind the last packet included), resizes, 1 thread that flushes, timeouts, signals, failing allocation |
| `rx` | `ZapRx` implements `Channel`; ownership, no BUG_ON, stops return, packets are delivered | 3 buffers (1 after a resize), 4 packets, all ioctls, one CPU, 1 buffer given back by who does not hold it |
| `rx_smp` | *violation*: BUG_ON fires | the same on two CPUs, with a reader that gives back its own |
| `tx` | `ZapTx` implements `Channel` on one and two CPUs; ownership, kicks, delivery and return of buffers on one | 2 writers, 2 buffers (1 after a resize), 2 packets, FPGA that holds 1, 1 buffer passed by who does not hold it |
| `dev` | open count, reopening, stopped when closed, disjoint memory, sizes within packets but for what an overtaking flush does | 2 processes, 2 device nodes, 1 interface present, counts up to 2; on one direction sizes are tried and 1 close may be interrupted |
| `dev_shared` | *violation*: two writers | the same, no signals |
| `events` | list of files, no sleep on a true condition, reads report what they waited for (without the trigger), also with a second thread on the file but for what it took or changed; paced use loses nothing and returns | 2 files, 2 events, all masks, both modes, up to 2 raised or triggered, 1 interrupted close, signals, failing allocation; with a second thread one file is open at a time; paced, up to 4 raised |
| `events_clear` | *violation*: an event is lost | 1 file, 2 events, all masks, up to 3 raised |
| `ocp` | accesses in their window, aligned positions, exact count, only probes, early opens and files open at an unbind touch what is missing, cleanup leaves nothing | 2 threads, 2 files, 2 adjacent windows, 2 probes, 1 interrupted close |
| `boot` | one image, the first choice, truth to Linux, unique addresses; every start settles | 2 boot sequences, 3 settings of the pins, 8 media, 6 pairs of EEPROMs, 2 forced strings, 2 starts, both processors |
| `fru` | valid images that say what was asked, boards valid and protected, reads return what was written, U-Boot's success is true | 1 board of either storage, with and without a pin, blank in 2 ways or written, both systems, up to 2 custom fields, 2 lengths and 2 refused ones |
| `fru_read` | *violation*: a 512-byte area is read back as 64 bytes | 7 added fields of 63 bytes |

Why the bounds are enough: three buffers and four packets let the fifo, the FPGA
and the reader each hold one while the pool is empty, and force reuse of a
buffer; the transmitter's two buffers and two packets do with one writer, the handler
and the FPGA, and leave a buffer for a second writer to pass; two writers, files, threads or processes give every pairwise interleaving; the
resize in `rx` and `tx` changes the number of buffers, so stale addresses occur.
Field data in `fru` look like the end marker and like padding, and with a long
and a short field images grow and shrink across multiples of eight.
Two starts let a board, a card or a saved environment change once between a
first and a second boot, and three settings of the pins cover JTAG, flash and
card. Two adjacent windows make an access past the end of one a hit in the other.
`MCFru` also evaluates, as an assumption, that every date from 2 January 1996
to 24 November 2027 is shown as given, and that the day after is not (`SameDate`
proves the first half).

`CHECK_DEADLOCK FALSE` is used where the system may stop: after the failed
allocation (`pool_wait`), a reader nobody wakes any more once the bound on raised
events is reached (`events`), at the bound on counts (`dev`), after an oops or
the last probe (`ocp`), and with the power off (`boot`).

The type invariants (`WaitTypeOK`, `RxTypeOK`, ...) document the state and are
the base of the inductive invariants; the runs spend their properties on the
rest.

### Fairness

Liveness is checked in `rx`, `tx`, `events` and `boot`. Weak fairness is given to
the FPGA (it fills or sends what it was handed), to the interrupt handler (the
interrupt line is level-triggered and stays up until served), to the work item
(the kernel's workqueue runs what is queued; a timed wait ends) and to a process
inside a system call. In `rx` the reader is assumed to go on reading, without
which nothing is delivered. Nobody is assumed to start, write or close anything. In `boot` the
processor goes on (one weak fairness of everything the ROM, the FSBL and U-Boot
do up to the prompt); the user and the power are assumed nothing of.

## Proofs

Every safety property of the passing runs is also a theorem: the runs show it on
a small instance, the theorem for every value of the constants that satisfies the module's named assumption
(`PoolAssumption`, `RxAssumption`, ...), which TLC evaluates on the run's instance.
Each proof has the same shape. A lemma says that the initial states satisfy the
inductive invariant, one lemma per action (or per group of actions that change
the state in the same way) says that the action keeps it, the last step joins them
with PTL. The invariants are defined at the end of the modules they are about, and
TLC confirmed each on the run's instance before it was proved.

| Module | Theorem | Property | Needs besides the module's assumption |
|---|---|---|---|
| `PoolProofs` | `PoolTypeCorrect`, `PoolPartition`, `PoolPacketsDisjoint` | `PoolTypeOK`, `ListPartition`, `PacketsDisjoint` | |
| | `WaitTypeCorrect`, `WaitNoLostWakeup`, `WaitOneHolder` | `WaitTypeOK`, `NoLostWakeup`, `OneHolder` | |
| | `WaitImplementsPool` | `WaitSpec => PoolSpec` | |
| `ZapRxProofs` | `RxNoBug`, `RxOwnership` | `NoBug`, `BufOwnership` (of a reader that gives back its own: `foreign = 0`) | `~SMP`, `~Overlap`, `SizesPositive` |
| | `RxImplementsChannel` | `RxIsChannel` | the same, and `MaxForeign = 0` |
| `ZapTxProofs` | `TxBufOwnership` | `TxOwnership` (of writers that pass their own: `foreign = 0`) | `SizesPositive` |
| | `TxAlwaysKicked`, `TxImplementsChannel` | `TxKicked`, `TxIsChannel` | |
| `ZapDevProofs` | `DevOpenCountExact`, `DevReopenable`, `DevClosedMeansStopped` | the property named | |
| | `DevPoolsSplit` | `PoolsSplit` | `HalvesFit` |
| | `DevMaxSizeFitsPacket` | `MaxSizeFitsPacket` | `FifosFit` |
| `EventsProofs` | `EvListIsOpenFiles`, `EvNoSleepOnReady`, `EvReadReports` | the property named | |
| | `EvPacedLosesNothing` | `PacedLosesNothing` | `~SMP` |
| `OcpProofs` | `OcpInvariant`, `OcpAccessInWindow`, `OcpPosAligned`, `OcpCountExact`, `OcpOnceBoundSafe`, `OcpCleanupFrees` | `OcpInv` and the property named | |
| `BootProofs` | `BootOneImage`, `ScanLinuxToldTruth`, `ScanMacsUnique` | the property named | |
| | `BootFirstChoice` | `FirstChoice` | `FlashLast` |
| `FruProofs` | `SavedFilesAreValid`, `SavedFilesSayWhatWasTold` | `FileValid`, `FileSays` | |
| | `CreateFaithful`, `AddFaithful`, `RmFaithful`, `FixFaithful` | what each command makes of an image | as the theorem states |
| | `SameDate` | dates come back as they were given | a date three bytes can hold |
| | `WriteProtectRestored`, `BoardsHoldValidImages`, `ReadReturnsWritten`, `SuccessMeansWritten` | `WpRestored`, `BoardValid`, `ReadBack`, `SuccessIsTrue` | |

What the last column asks for is what the properties really depend on; each is
evaluated by TLC in the MC module or fixed in the run. One CPU (`SMP` false; the
run `rx_smp` and the list below say what goes wrong on two). A reader that gives
its buffers back before an ioctl and makes no call during one (`Overlap` false, as
the comment at pool.c:281-286 asks of the user; see below for the rest), and that
gives back only the buffers it has read (`foreign = 0` in the property, or
`MaxForeign = 0`). No packet
size of zero (`SizesPositive`): the ioctl and `pool_resize` accept it, and then all
packets have one address, so that no buffer has an owner of its own. A receive half
of whole pages that is not larger than the transmit half (`HalvesFit`, as in the
device tree). FPGA fifos that fit a part of the memory, without jumbo packets
(`FifosFit`). No boot sequence that names the flash before a card (`FlashLast`; the
one in `iv_z8_user_boot_sequence.c` has the flash last, "the fallback mode").

### The inductive invariants, and why they are needed

* **`PoolInv`** joins the types, the partition and two facts on the sizes: the
  packet size in force is one `pool_resize` accepted, and the number of packets is
  at most what that size leaves room for (without them nothing bounds the address
  of the last packet, and `pool_flush` could grow the pool). The partition says of
  the free and fifo lists that they repeat no entry: without it, taking the head
  of a list could leave a second copy behind.
* **`WaitInv`** adds the threads' types and the two properties to `PoolInv`. They
  need nothing more: a taken entry was on another list than the used one, so
  nobody holds its packet (`TakeStep`). A flush with the size of long ago needs that
  every size a thread has read is one the pool accepts. Each step of a thread is a locked section
  of `Pool` or leaves the lists alone, which is the refinement `WaitSpec => PoolSpec`.
* **`RxInv`** says who has each buffer, as long as none was given back wrongly
  (`RxOwnInv`: the count is a number, and if it is 0 the rest holds). `RxHands`: the FPGA (posted and filled), the
  handler, the work item and the reader hold different buffers, all on the used
  list, and the used list has no others except between the stop and the flush.
  That is preserved only because of `RxPhases`: where the ioctl is says who can
  still hold one (once the port is in reset, neither FPGA nor handler; once
  the workqueue is flushed, not the task). `NoBug` follows since the handler is
  given only buffers the FPGA was handed. The refinement to `Channel` then maps
  each step to a put, get, drop or stutter.
* **`TxInv`** is, on one CPU and while writers pass their own (`OneCpuInv`), the same
  for the transmitter. **`KickedInv`** needs neither who holds what nor the writers'
  manners: nothing is written between the handler's test of the fifo list and its
  clearing of the interrupt mask, so a packet in the list has its interrupt on or a
  writer about to turn it on. The refinement needs only **`QueueInv`**, which holds
  for any number of CPUs: order and multiplicity do not depend on the kicks.
* **`DevInv`** has the counts and semaphores, and that files are of present
  interfaces (`FilesLive`), that a running direction has a file that is not being
  closed, or whose close is on its way to stop it (`WillStop`, `RunsForOpened`) and that a created pool is its interface's part
  (`PoolIsPart`). `ClosedMeansStopped` and `PoolsSplit` follow from it.
  **`SizesInv`** adds the settings; a size is accepted only if the pool takes it, and a
  close that has read a packet size will put back that one or has been overtaken.
* **`EvInv`** adds to the properties that a debugfs write has an event and comes only
  in the debug use (`TrigBusy`), and that a reader who goes on to take its events
  finds them (`TakeFinds`) unless a second thread had them; and that one thread at a
  time clears bits, the two being kept apart by the semaphore (`OneClears`).
  **`PacedInv`** follows the paced thread around its loop:
  events are enabled only from its write to the end of its wait, and one that the
  handler is about to clear and that has happened again is still in the controller.
* **`OcpInv`** has which windows are mapped when (`WindowsMapped`), which numbers the
  driver holds and which are left registered (`MajorsApart`), what each step of the probe finds
  (`ProbeOrder`) and which files belong to the load that runs (`FilesOfLoad`). The
  last is what makes the count exact over failed probes and reloads.
* **`ImageInv`** relates the registers, the place in the sequence and the
  image loaded, over resets; **`FirstInv`** says which card images the sequencer has
  passed by; **`ToldInv`** that the environment tells the truth from the prompt on,
  and **`MacInv`** that the addresses of one scan are those of the boards it found.
  `ScanMacsUnique` rests on lemmas that different upper-case serial numbers of the same
  length give different numbers, hence addresses that are apart.
* **`FruInv`**: a command that writes a board has a whole valid image in its buffer
  and the board's kind of storage fixes its step (`RunShape`); what was last written
  is at the start of the storage (`BoardsInv`), which needs that cutting a valid file
  at its length byte leaves it valid (`CutValid`), that overwriting keeps a prefix
  (`OverIs`), and that `ivfru_read` takes as many bytes as the image has
  (`ReadsAll`); an EEPROM with a pin is open only in the two steps around the write, or
  is in `bare` (`WpOpen`). **`TellInv`** carries the error of the write to the step that reports.
* **`TruthInv`** (with `FruInv`) is what `FileValid` and `FileSays` need: not only the
  file but also the buffer of the running command and every board hold an image that
  is whole, validates and says what is known of it (`Truthful`, `Faithful`), for
  the next read, edit or write starts from any of the three. Two more things had to
  be said for it to be inductive. The length byte is 64 only in an old image or where
  the fields need it (the third conjunct of `Faithful`): otherwise the read that takes
  64 for the old format could cut short any image. And what such a read leaves is
  no image that another command would take (the second case of `Truthful`). While a
  file is being written nothing is known of it (the last conjunct).

### Images

The first part of `FruProofs` is about images alone. `ivfru_bia_validate`,
`ivfru_add`, `ivfru_rm` and `ivfru_fix` go over the fields of an area by a walk of
any length, the checksum sums any number of bytes: what they compute takes an
induction. The library's induction theorems take an operator, which the provers
cannot instantiate; the proofs state the induction over a *set* of numbers instead.
`Least` gets a least element of a set of naturals from `WFMin` and the
well-foundedness of `<`, `Induct` follows from it, and each use defines its set of
good numbers. A recursive function is by definition a `CHOOSE` of a solution of its
equation: the proofs first show that a solution exists (`Walk`, the checksum, `Size`,
`MonthStart`), by an explicit one or by `Induct`, and only then unfold it. The argument:

1. the walk over an area is the one sequence of positions that starts at the first
   field and goes from each to the next up to the end marker (`IsWalk`, and that
   there is only one);
2. an area is *laid* at such positions (`Laid`) and *tells* its fields (`Tells`);
   putting a field in at a position (`Inserted`) moves the later positions up,
   taking one out (`Removed`) moves them down, and the fields told change by just that
   field, bytes of data that look like end markers included;
3. `Finish` rounds up to eights, pads, sets the length byte and the checksum: with
   a laid area that fits the length byte the image validates (`FinishFaithful`);
4. so `create`, `add`, `rm` and `fix` keep `Faithful`; for `create` with the four
   fields laid out one by one, and `SameDate` for the date.

### What is only model-checked

* Liveness, since fairness and ENABLED are beyond the prover: `StopReturns`,
  `RxDelivered`, `TxSent`, `TxBufsReturn`, `AnyReturns`, `BootSettles`. They are the
  only properties of passing runs without a theorem.
* The violations, which are statements about one instance.

## Disagreements between code and text

Four are runs, with the line they contradict in `PROJECT.json` under `findings`.
Others were met while modelling; each is reproduced by changing constants:

* `ZapRx` with `Overlap = TRUE`: a reader that holds a buffer over a restart
  shares it with the FPGA (`NoSharedBuf`). pool.c:289 says "At this point, there
  are no outstanding bufs in use"; the test is commented out.
* `ZapRx`, `ZapTx` with 0 in `PacketSizes`: `ZAP_IOC_W_RX_MAX_SIZE` and its
  transmit counterpart accept a size of zero (zap.c:595-618), and every packet of
  the pool then starts at the same address (`PacketsDisjoint` excepts it, the
  ownership theorems assume it away).
* `ZapRx`, `ZapTx`: `zap_write` takes any buffer in use (zap.c:490-520), whoever holds
  it (`NoBug`, `BufOwnership`, `TxOwnership` without their conditions on `foreign`),
  though zap.c:69-71 has each buffer either with the application or with the FPGA.
* `Pool`: pool.c:166 has `>` where `>=` is meant, and reads the entry behind the last
  one (`stray`).
* `ZapTx` on two CPUs: a packet written between the handler's test of the list
  and its register write waits for the next write (`TxKicked` without its first
  conjunct).
* `ZapDev` with `IsJumboPacketSupported = TRUE` and a size beyond the pool: the
  maximum size stays though `pool_resize` refused it (`MaxSizeFitsPacket`).
* `ZapDev`: the flush of a close runs without `dev->sem` and may undo a size another
  file has just set (`MaxSizeFitsPacket` without `overtaken`).
* `ZapDev` with `TxPoolSize` below `RxPoolSize`: transmit parts are stepped by
  the size of the receive parts and start beyond the pool (`PoolsSplit`).
* `ZapDev`: of two first opens one may switch the version registers while the
  other has the device open, against dma_zynq.c:700.
* `Events` with `SMP = TRUE`: the handler's last write disables events that the
  next `write` has just enabled (`AnyReturns`). A read that waits for *all* of
  several events is never woken: the first event disables the others. A write to
  the debugfs trigger stores over bits the handler has just set: a read may then
  return with no event (`ReadReports` without its first condition). Of two threads that
  read one file either may find its events taken, and one may sleep on although the
  other has asked for an event that is there. A close frees the item that a write to
  the trigger is at (`TriggerWild`), though events.c:139 has events_wake_up called
  from interrupt context only.
* `Ocp`: the first node can be opened before the semaphore is initialised and the
  windows are mapped (ocp.c:389-418); a failing kzalloc goes to the cleanup, which
  dereferences the missing structure, against the comment at ocp.c:315-319; a
  failing class_create returns without any cleanup; the region is given back with
  one minor too few and stays taken (`oops`, `kern.left`, `kern.regions`). An unbind
  frees the structure under open files (`loose`).
* `BoardScan`: iveia-init.c:219-222 says that saved variables are reset because
  they "might be wrong if the EEPROM read fails"; the reset comes after the
  read, so they stay in exactly that case (`LinuxToldTruth` without its
  condition). A forced string (225-231) is not looked at then either. An ordinal
  stays when the new part number has none. Addresses once set stay, and two ports
  may then have one address (`MacsUnique` without `oldmacs`). `/chosen` gets the
  main board's variables twice and the backplane's never.
* `Boot`: iv_z8_sequence_boot.h:12-14 speaks of QSPI only, the sequence runs in
  every mode but JTAG; a board whose loader was found at image 1 of the flash does
  not come up if the sequence finds nothing, since image 0 is then asked for.
* `FruUboot`: after an error of the GPIO the request stays and every later write
  of that board is refused until a reset; an error of gpio_set_value leaves the
  board unprotected (variable `bare`, excepted by `WpRestored`). A refused create and a
  read of a negative size have changed the image in memory.
* `Fru`: an empty pre-defined field, more than 255 eights, and dates after
  24 November 2027 give images that are invalid or say something else
  (`Regular`, `Eights` in `do_ivfru_add`, `Says`); eeprog's exit status and the result of
  driving the write-protect pin are ignored when writing (so Linux's success means less
  than U-Boot's, and `SuccessIsTrue` is about the latter), and eeprog's early end makes `ivfru read` loop for ever.

## Not modelled

Straight-line register and table setup (FSBL board files, clkinit headers),
drivers that only fill in a kernel framework's structures, shell and Tcl around
external tools, and printing. `zap_mmap`, `zap_poll`, the ioctls that only report,
`pool_dump`, `ivfru display`, the ioctl of OCP change no state. Probe and remove
of ZAP and of the event driver are the initial states (OCP's are modelled). The
boot scripts in `iveia-config.h` and the EEPROM table `eeprom-ipmi-00130.c` are
data. The device-tree lookups of `ivfru` are a choice of storage.
`ivfru_add` goes on using pointers into its buffer after ivfru_plat_reserve_memory
may have moved it (ivfru_common.c:1099-1132); the move is not modelled. In U-Boot
reserving memory does nothing; under Linux the buffer is the last block the command
has allocated when it is grown, and grows in place with the allocators of the image.
The strings of the board scan are taken to fit their 64 bytes (iveia-init.c:78, 214,
238): longer fields are not modelled. A copy_to_user that fails in `zap_read` leaves
its buffer in use until the next stop (zap.c:454). An eeprog that ends early
makes `ivfru read` loop (ivfru_plat.c:312), which changes no state. Out-of-band data, and cache flushing around DMA, carry no
control.

## Plan

1. Done: `Pool`, `PoolWait`, `ZapRx`, `ZapTx`, `ZapDev`, `Events`, `Fru`, and the
   proofs about `Pool`.
2. Done: `Ocp`, `Boot`, `BoardScan`, `FruUboot`, and `Channel` with the two
   refinements.
3. Done: the theorems above, and the refinements of `PoolWait`, `ZapRx` and `ZapTx`.
4. Done: what `create`, `add`, `rm` and `fix` make of an image and of a date, and with
   it `FileValid` and `FileSays`.
5. Left: that the properties of `ZapRx` and `ZapTx` which the code keeps on any
   number of CPUs hold there too (for `ZapTx` the refinement is proved so; which
   buffers stay apart is not), and the bounds on what a stop drops.

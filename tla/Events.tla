------------------------------- MODULE Events -------------------------------
(***************************************************************************)
(* The FPGA event driver, recipes-kernel/iv-events/src/events.c: files     *)
(* that each ask for a set of events (write) and wait for any or all of    *)
(* them (read), and the interrupt handler that collects them.              *)
(*                                                                         *)
(* The event controller is external: from how events.c uses it, an event   *)
(* sets its bit of PENDING, writing PENDING clears the bits written,       *)
(* writing MASK_EN enables events, MASK holds the enabled ones, and the    *)
(* interrupt is up while a pending event is enabled.                       *)
(*                                                                         *)
(* Each file has a thread that opens and closes it; one thread more may    *)
(* read and write any of the files in between.  dev->sem orders the        *)
(* threads, never thread and handler.                                      *)
(***************************************************************************)
EXTENDS Integers, FiniteSets

CONSTANTS
  Files,          \* open files and the threads that opened them
  EventBits,      \* the events, bits 0 to 30
  Masks,          \* the sets of events that are asked for
  WaitForAll,     \* subset of BOOLEAN: values of bit 31 in a write
  SMP,            \* the handler may run beside a thread on another CPU
  Uses,           \* ways the driver is used, of EveryUse
  PacedMask,      \* the events a paced thread asks for, every time
  MaxOpen,        \* bound, for each use, on the files open at a time
  MaxRaised,      \* bound, for each use, on the events raised, by the FPGA
                  \* or by debugfs
  MaxCut          \* bound on the closes cut short by a signal

EveryUse == {"paced", "any", "shared", "debug"}

ASSUME EvAssumption ==
  /\ IsFiniteSet(Files) /\ "none" \notin Files /\ "freed" \notin Files
  /\ Masks \subseteq SUBSET EventBits
  /\ WaitForAll \subseteq BOOLEAN /\ SMP \in BOOLEAN
  /\ Uses \subseteq EveryUse /\ PacedMask \in Masks
  /\ MaxOpen \in [EveryUse -> Nat] /\ MaxRaised \in [EveryUse -> Nat]
  /\ MaxCut \in Nat

VARIABLES
  use,            \* "paced": one file is open at a time, its thread reads
                  \* after every write and writes before every read, always
                  \* one mask; "any": signals come, allocations fail, and a
                  \* read may wait for all its events; "shared": so it may,
                  \* and a second thread uses the files too; "debug": events
                  \* are also reported through debugfs
  PENDING_REG, MASK_REG,   \* the controller's registers
  raised,         \* number of events raised so far
  irq_depth,      \* disable_irq calls without enable_irq
  opened,         \* dev->opened
  filelist,       \* dev->filelist
  pending, pending_mask, all_events,   \* fields of each events_file
  th,             \* each thread: next step, local events, loaded word
  isr,            \* handler: next step, snapshot of PENDING, events to report
  trig,           \* a write to the debugfs file: next step, its event, the
                  \* files still to visit, the current one and its word
  other,          \* the second thread: next step, file, events to clear, word
  shared,         \* what the second thread did to each file since its own
                  \* thread called read: "took" events, "wrote" the mask
  cut,            \* closes cut short: their files stay on the list, unused
  due             \* events not yet reported to a file: those pending in the
                  \* controller when it was opened, or raised since

evars == <<use, PENDING_REG, MASK_REG, raised, irq_depth, opened, filelist,
           pending, pending_mask, all_events, th, isr, trig, other, shared,
           cut, due>>

Paced == use = "paced"
NoTrig == [pc |-> "idle", event |-> "none", left |-> {}, file |-> "none",
           word |-> {}]
IsrIdle == [pc |-> "idle", snap |-> {}, todo |-> {}]
Closed == [pc |-> "closed", events |-> {}, todo |-> {}, word |-> {}]
OtherIdle == [pc |-> "idle", file |-> "none", todo |-> {}, word |-> {}]
CPUFree == SMP \/ isr = IsrIdle
At(f, l) == CPUFree /\ th[f].pc = l
Goto(f, l) == th' = [th EXCEPT ![f].pc = l]

(* dev->sem: only a reader that takes and clears its events keeps it over  *)
(* more than one step.                                                     *)
SemFree == /\ \A f \in Files : th[f].pc \notin {"clear", "store"}
           /\ other.pc \notin {"clear", "store"}

(* The record of unreported events is kept in the uses a property claims   *)
(* something of it for.                                                    *)
Owed(events) == {e \in events : use \in {"paced", "any"}}

ARE_REQUESTED_EVENTS_PENDING(f, p) ==
  IF all_events[f] THEN pending_mask[f] \subseteq p
  ELSE p \cap pending_mask[f] # {}

-----------------------------------------------------------------------------
(* The controller, external.                                               *)

Raise(e) ==
  /\ raised < MaxRaised[use]
  /\ raised' = raised + 1
  /\ PENDING_REG' = PENDING_REG \cup {e}
  /\ due' = [f \in Files |-> due[f] \cup {x \in Owed({e}) : f \in filelist}]
  /\ UNCHANGED <<use, MASK_REG, irq_depth, opened, filelist, pending,
                 pending_mask, all_events, th, isr, trig, cut, other, shared>>

-----------------------------------------------------------------------------
(* events_isr: a snapshot of PENDING, each event of it recorded in every   *)
(* file and the readers it satisfies woken, the snapshot cleared, all      *)
(* events disabled.                                                        *)

IsrEnter ==
  /\ isr = IsrIdle /\ irq_depth = 0
  /\ PENDING_REG \cap MASK_REG # {}
  /\ isr' = [pc |-> "wake", snap |-> PENDING_REG, todo |-> PENDING_REG]
  /\ UNCHANGED <<use, PENDING_REG, MASK_REG, raised, irq_depth, opened,
                 filelist, pending, pending_mask, all_events, th, trig, cut,
                 due, other, shared>>

events_wake_up(e) ==
  /\ isr.pc = "wake" /\ e \in isr.todo
  /\ isr' = [isr EXCEPT !.todo = @ \ {e}]
  /\ pending' = [f \in Files |-> IF f \in filelist THEN pending[f] \cup {e}
                                 ELSE pending[f]]
  /\ th' = [f \in Files |->
              IF /\ th[f].pc = "asleep"
                 /\ ARE_REQUESTED_EVENTS_PENDING(f, pending'[f])
              THEN [th[f] EXCEPT !.pc = "woken"] ELSE th[f]]
  /\ UNCHANGED <<use, PENDING_REG, MASK_REG, raised, irq_depth, opened,
                 filelist, pending_mask, all_events, trig, cut, due, other,
                 shared>>

IsrClearAll ==
  /\ isr.pc = "wake" /\ isr.todo = {}
  /\ PENDING_REG' = {}
  /\ isr' = [isr EXCEPT !.pc = "mask"]
  /\ UNCHANGED <<use, MASK_REG, raised, irq_depth, opened, filelist, pending,
                 pending_mask, all_events, th, trig, cut, due, other, shared>>

IsrClear ==
  /\ isr.pc = "wake" /\ isr.todo = {}
  /\ PENDING_REG' = PENDING_REG \ isr.snap
  /\ isr' = [isr EXCEPT !.pc = "mask"]
  /\ UNCHANGED <<use, MASK_REG, raised, irq_depth, opened, filelist, pending,
                 pending_mask, all_events, th, trig, cut, due, other, shared>>

IsrMask ==
  /\ isr.pc = "mask"
  /\ MASK_REG' = {}
  /\ isr' = IsrIdle
  /\ UNCHANGED <<use, PENDING_REG, raised, irq_depth, opened, filelist,
                 pending, pending_mask, all_events, th, trig, cut, due, other,
                 shared>>

-----------------------------------------------------------------------------
(* The fields of the events_file, as open sets them.                       *)
Fresh(f) ==
  /\ pending' = [pending EXCEPT ![f] = {}]
  /\ pending_mask' = [pending_mask EXCEPT ![f] = {}]
  /\ all_events' = [all_events EXCEPT ![f] = FALSE]

(* open and close: disable_irq waits for a running handler, so the list    *)
(* changes while none runs.                                                *)

events_open(f) ==
  /\ At(f, "closed") /\ isr = IsrIdle /\ SemFree
  /\ Paced => filelist = {}
  /\ Cardinality(filelist) < MaxOpen[use]
  /\ filelist' = filelist \cup {f}
  /\ opened' = opened + 1
  /\ Fresh(f)
  /\ due' = [due EXCEPT ![f] = Owed(PENDING_REG)]
  /\ Goto(f, "ready")
  /\ UNCHANGED <<use, PENDING_REG, MASK_REG, raised, irq_depth, isr, trig, cut,
                 other, shared>>

(* No memory: -ENOMEM, and the interrupt stays disabled.                   *)
events_open_nomem(f) ==
  /\ use = "any" /\ irq_depth = 0
  /\ At(f, "closed") /\ isr = IsrIdle /\ SemFree
  /\ irq_depth' = irq_depth + 1
  /\ UNCHANGED <<use, PENDING_REG, MASK_REG, raised, opened, filelist, pending,
                 pending_mask, all_events, th, isr, trig, cut, due, other,
                 shared>>

(* The item of a closed file is unlinked and freed, with no regard to a    *)
(* write to debugfs: one that is at it has its pointer into freed memory.  *)
Freed(f) ==
  trig' = IF trig.file = f THEN [trig EXCEPT !.file = "freed"]
          ELSE [trig EXCEPT !.left = @ \ {f}]

(* The kernel closes a file when the last call of a thread on it is over.  *)
Unused(f) == other.file # f

events_release_unlinked(f) ==
  /\ At(f, "ready") /\ isr = IsrIdle /\ SemFree /\ Unused(f)
  /\ opened' = opened - 1
  /\ due' = [due EXCEPT ![f] = {}]
  /\ Fresh(f)
  /\ th' = [th EXCEPT ![f] = Closed]
  /\ UNCHANGED <<use, PENDING_REG, MASK_REG, raised, irq_depth, filelist, isr,
                 trig, cut, other, shared>>

events_release(f) ==
  /\ At(f, "ready") /\ isr = IsrIdle /\ SemFree /\ Unused(f)
  /\ filelist' = filelist \ {f}
  /\ opened' = opened - 1
  /\ due' = [due EXCEPT ![f] = {}]
  /\ Fresh(f)
  /\ th' = [th EXCEPT ![f] = Closed]
  /\ Freed(f)
  /\ UNCHANGED <<use, PENDING_REG, MASK_REG, raised, irq_depth, isr, cut,
                 other, shared>>

(* A signal while close waits for the semaphore: the kernel closes the     *)
(* file, but its events_file stays on the list and in the count.           *)
events_release_interrupted(f) ==
  /\ use = "any" /\ cut < MaxCut
  /\ At(f, "ready") /\ Unused(f)
  /\ filelist' = filelist \ {f}
  /\ cut' = cut + 1
  /\ due' = [due EXCEPT ![f] = {}]
  /\ Fresh(f)
  /\ th' = [th EXCEPT ![f] = Closed]
  /\ UNCHANGED <<use, PENDING_REG, MASK_REG, raised, irq_depth, opened, isr,
                 trig, other, shared>>

-----------------------------------------------------------------------------
(* trigger_set: user space reports an event through debugfs.  It walks the *)
(* list as the handler does, but as a thread and under no lock: the word   *)
(* it sets the bit in is loaded and stored, and the reader woken, while    *)
(* the handler and the other threads run, and the step to the next item    *)
(* follows a pointer of the last one.  A mask of several events is several *)
(* of these in a row.                                                      *)

trigger_set(e) ==
  /\ use = "debug" /\ CPUFree /\ trig = NoTrig
  /\ raised < MaxRaised[use]
  /\ raised' = raised + 1
  /\ trig' = [NoTrig EXCEPT !.pc = "next", !.event = e, !.left = filelist]
  /\ UNCHANGED <<use, PENDING_REG, MASK_REG, irq_depth, opened, filelist,
                 pending, pending_mask, all_events, th, isr, cut, due, other,
                 shared>>

TriggerLoad(f) ==
  /\ CPUFree /\ trig.pc = "next" /\ trig.file # "freed" /\ f \in trig.left
  /\ trig' = [trig EXCEPT !.pc = "store", !.left = @ \ {f}, !.file = f,
                          !.word = pending[f]]
  /\ UNCHANGED <<use, PENDING_REG, MASK_REG, raised, irq_depth, opened,
                 filelist, pending, pending_mask, all_events, th, isr, cut,
                 due, other, shared>>

TriggerStore ==
  /\ CPUFree /\ trig.pc = "store" /\ trig.file # "freed"
  /\ pending' = [pending EXCEPT ![trig.file] = trig.word \cup {trig.event}]
  /\ trig' = [trig EXCEPT !.pc = "wake", !.word = {}]
  /\ UNCHANGED <<use, PENDING_REG, MASK_REG, raised, irq_depth, opened,
                 filelist, pending_mask, all_events, th, isr, cut, due, other,
                 shared>>

TriggerWake ==
  /\ CPUFree /\ trig.pc = "wake" /\ trig.file # "freed"
  /\ th' = [th EXCEPT ![trig.file].pc =
              IF /\ @ = "asleep"
                 /\ ARE_REQUESTED_EVENTS_PENDING(trig.file,
                                                 pending[trig.file])
              THEN "woken" ELSE @]
  /\ trig' = [trig EXCEPT !.pc = "next"]
  /\ UNCHANGED <<use, PENDING_REG, MASK_REG, raised, irq_depth, opened,
                 filelist, pending, pending_mask, all_events, isr, cut, due,
                 other, shared>>

TriggerEnd ==
  /\ CPUFree /\ trig.pc = "next" /\ trig.file # "freed" /\ trig.left = {}
  /\ trig' = NoTrig
  /\ UNCHANGED <<use, PENDING_REG, MASK_REG, raised, irq_depth, opened,
                 filelist, pending, pending_mask, all_events, th, isr, cut,
                 due, other, shared>>

(* A step at a freed item reads or writes memory that is no longer the     *)
(* driver's: anything may follow, and nothing is modelled past it.         *)
TriggerWild ==
  /\ CPUFree /\ trig.pc # "idle" /\ trig.file = "freed"
  /\ trig' = [trig EXCEPT !.pc = "wild"]
  /\ UNCHANGED <<use, PENDING_REG, MASK_REG, raised, irq_depth, opened,
                 filelist, pending, pending_mask, all_events, th, isr, cut,
                 due, other, shared>>

-----------------------------------------------------------------------------
(* write: the events to wait for, and enabling them.  A paced thread goes  *)
(* on to read.                                                             *)

events_write_no_enable(f, mask, all) ==
  /\ At(f, "ready") /\ SemFree
  /\ Paced => mask = PacedMask
  /\ all => use \in {"any", "shared"}
  /\ pending_mask' = [pending_mask EXCEPT ![f] = mask]
  /\ all_events' = [all_events EXCEPT ![f] = all]
  /\ Goto(f, IF Paced THEN "read" ELSE "ready")
  /\ UNCHANGED <<use, PENDING_REG, MASK_REG, raised, irq_depth, opened,
                 filelist, pending, isr, trig, cut, due, other, shared>>

events_write(f, mask, all) ==
  /\ At(f, "ready") /\ SemFree
  /\ Paced => mask = PacedMask
  /\ all => use \in {"any", "shared"}
  /\ pending_mask' = [pending_mask EXCEPT ![f] = mask]
  /\ all_events' = [all_events EXCEPT ![f] = all]
  /\ MASK_REG' = MASK_REG \cup mask
  /\ Goto(f, IF Paced THEN "read" ELSE "ready")
  /\ UNCHANGED <<use, PENDING_REG, raised, irq_depth, opened, filelist,
                 pending, isr, trig, cut, due, other, shared>>

(* read: dev->sem is taken and given back, wait_event_interruptible sleeps *)
(* unless the condition holds, and tests it again when woken; then, with   *)
(* dev->sem, the events asked for are taken, and cleared bit by bit with a *)
(* load, an and, a store.                                                  *)
ReadWaitNoTest(f) ==
  /\ \/ At(f, "woken") /\ UNCHANGED shared
     \/ /\ At(f, IF Paced THEN "read" ELSE "ready") /\ SemFree
        /\ shared' = [shared EXCEPT ![f] = {}]
  /\ Goto(f, "asleep")
  /\ UNCHANGED <<use, PENDING_REG, MASK_REG, raised, irq_depth, opened,
                 filelist, pending, pending_mask, all_events, isr, trig, cut,
                 due, other>>

ReadWaitNoRecheck(f) ==
  /\ \/ At(f, "woken") /\ UNCHANGED shared
     \/ /\ At(f, IF Paced THEN "read" ELSE "ready") /\ SemFree
        /\ shared' = [shared EXCEPT ![f] = {}]
  /\ Goto(f, IF th[f].pc = "woken" \/ pending[f] # {} THEN "take"
              ELSE "asleep")
  /\ UNCHANGED <<use, PENDING_REG, MASK_REG, raised, irq_depth, opened,
                 filelist, pending, pending_mask, all_events, isr, trig, cut,
                 due, other>>

ReadWait(f) ==
  /\ \/ At(f, "woken") /\ UNCHANGED shared
     \/ /\ At(f, IF Paced THEN "read" ELSE "ready") /\ SemFree
        /\ shared' = [shared EXCEPT ![f] = {}]
  /\ Goto(f, IF ARE_REQUESTED_EVENTS_PENDING(f, pending[f])
             THEN "take" ELSE "asleep")
  /\ UNCHANGED <<use, PENDING_REG, MASK_REG, raised, irq_depth, opened,
                 filelist, pending, pending_mask, all_events, isr, trig, cut,
                 due, other>>

(* A signal in the wait or in the second down: -ERESTARTSYS.               *)
ReadInterrupted(f) ==
  /\ use \in {"any", "shared"}
  /\ At(f, "asleep") \/ At(f, "take")
  /\ Goto(f, "ready")
  /\ UNCHANGED <<use, PENDING_REG, MASK_REG, raised, irq_depth, opened,
                 filelist, pending, pending_mask, all_events, isr, trig, cut,
                 due, other, shared>>

ReadTake(f) ==
  LET events == pending[f] \cap pending_mask[f] IN
  /\ At(f, "take") /\ SemFree
  /\ th' = [th EXCEPT ![f].pc = "clear", ![f].events = events,
                      ![f].todo = events]
  /\ due' = [due EXCEPT ![f] = @ \ events]
  /\ UNCHANGED <<use, PENDING_REG, MASK_REG, raised, irq_depth, opened,
                 filelist, pending, pending_mask, all_events, isr, trig, cut,
                 other, shared>>

ReadLoad(f) ==
  /\ At(f, "clear") /\ th[f].todo # {}
  /\ th' = [th EXCEPT ![f].pc = "store", ![f].word = pending[f]]
  /\ UNCHANGED <<use, PENDING_REG, MASK_REG, raised, irq_depth, opened,
                 filelist, pending, pending_mask, all_events, isr, trig, cut,
                 due, other, shared>>

ReadStore(f, e) ==
  /\ At(f, "store") /\ e \in th[f].todo
  /\ pending' = [pending EXCEPT ![f] = th[f].word \ {e}]
  /\ th' = [th EXCEPT ![f].pc = "clear", ![f].todo = @ \ {e}, ![f].word = {}]
  /\ UNCHANGED <<use, PENDING_REG, MASK_REG, raised, irq_depth, opened,
                 filelist, pending_mask, all_events, isr, trig, cut, due,
                 other, shared>>

(* The events go to the caller; if copy_to_user fails they are gone, and   *)
(* the caller is told so: -EFAULT.                                         *)
ReadReturn(f) ==
  /\ At(f, "clear") /\ th[f].todo = {}
  /\ th' = [th EXCEPT ![f].pc = "ready", ![f].events = {}]
  /\ UNCHANGED <<use, PENDING_REG, MASK_REG, raised, irq_depth, opened,
                 filelist, pending, pending_mask, all_events, isr, trig, cut,
                 due, other, shared>>

-----------------------------------------------------------------------------
(* The second thread: it reads and writes a file that is open, beside the  *)
(* file's own thread.  While it sleeps in read it changes nothing, so its  *)
(* read starts when it finds its events.                                   *)

OtherMay(f) == CPUFree /\ use = "shared" /\ f \in filelist /\ SemFree

OtherWait(f) ==
  /\ OtherMay(f) /\ other = OtherIdle
  /\ ARE_REQUESTED_EVENTS_PENDING(f, pending[f])
  /\ other' = [OtherIdle EXCEPT !.pc = "take", !.file = f]
  /\ UNCHANGED <<use, PENDING_REG, MASK_REG, raised, irq_depth, opened,
                 filelist, pending, pending_mask, all_events, th, isr, trig,
                 cut, due, shared>>

OtherTake(f) ==
  /\ OtherMay(f) /\ other.pc = "take" /\ other.file = f
  /\ other' = [other EXCEPT !.pc = "clear",
                            !.todo = pending[f] \cap pending_mask[f]]
  /\ UNCHANGED <<use, PENDING_REG, MASK_REG, raised, irq_depth, opened,
                 filelist, pending, pending_mask, all_events, th, isr, trig,
                 cut, due, shared>>

OtherLoad(f) ==
  /\ CPUFree /\ other.pc = "clear" /\ other.file = f /\ other.todo # {}
  /\ other' = [other EXCEPT !.pc = "store", !.word = pending[f]]
  /\ UNCHANGED <<use, PENDING_REG, MASK_REG, raised, irq_depth, opened,
                 filelist, pending, pending_mask, all_events, th, isr, trig,
                 cut, due, shared>>

OtherStore(f, e) ==
  /\ CPUFree /\ other.pc = "store" /\ other.file = f /\ e \in other.todo
  /\ pending' = [pending EXCEPT ![f] = other.word \ {e}]
  /\ other' = [other EXCEPT !.pc = "clear", !.todo = @ \ {e}, !.word = {}]
  /\ shared' = [shared EXCEPT ![f] = @ \cup {"took"}]
  /\ UNCHANGED <<use, PENDING_REG, MASK_REG, raised, irq_depth, opened,
                 filelist, pending_mask, all_events, th, isr, trig, cut, due>>

(* The end of its read, or a signal in the second down.                    *)
OtherReturn ==
  /\ CPUFree
  /\ \/ other.pc = "clear" /\ other.todo = {}
     \/ other.pc = "take"
  /\ other' = OtherIdle
  /\ UNCHANGED <<use, PENDING_REG, MASK_REG, raised, irq_depth, opened,
                 filelist, pending, pending_mask, all_events, th, isr, trig,
                 cut, due, shared>>

OtherWrite(f, mask, all) ==
  /\ OtherMay(f) /\ other = OtherIdle
  /\ pending_mask' = [pending_mask EXCEPT ![f] = mask]
  /\ all_events' = [all_events EXCEPT ![f] = all]
  /\ MASK_REG' = MASK_REG \cup mask
  /\ shared' = [shared EXCEPT ![f] = @ \cup {"wrote"}]
  /\ UNCHANGED <<use, PENDING_REG, raised, irq_depth, opened, filelist,
                 pending, th, isr, trig, cut, due, other>>

Other ==
  \/ \E f \in Files :
       \/ OtherWait(f) \/ OtherTake(f) \/ OtherLoad(f)
       \/ \E e \in EventBits : OtherStore(f, e)
       \/ \E mask \in Masks, all \in WaitForAll : OtherWrite(f, mask, all)
  \/ OtherReturn

-----------------------------------------------------------------------------
EvInit ==
  /\ use \in Uses
  /\ PENDING_REG = {} /\ MASK_REG = {} /\ raised = 0
  /\ irq_depth = 0 /\ opened = 0 /\ filelist = {}
  /\ pending = [f \in Files |-> {}]
  /\ pending_mask = [f \in Files |-> {}]
  /\ all_events = [f \in Files |-> FALSE]
  /\ th = [f \in Files |-> Closed]
  /\ isr = IsrIdle /\ trig = NoTrig /\ cut = 0
  /\ other = OtherIdle /\ shared = [f \in Files |-> {}]
  /\ due = [f \in Files |-> {}]

Isr == IsrEnter \/ (\E e \in EventBits : events_wake_up(e))
         \/ IsrClear \/ IsrMask
Read(f) ==
  \/ ReadWait(f) \/ ReadTake(f) \/ ReadLoad(f)
  \/ \E e \in EventBits : ReadStore(f, e)
  \/ ReadReturn(f)

Trigger == \/ \E e \in EventBits : trigger_set(e)
           \/ \E f \in Files : TriggerLoad(f)
           \/ TriggerStore \/ TriggerWake \/ TriggerEnd \/ TriggerWild

EvNext ==
  /\ trig.pc # "wild"
  /\ \/ \E e \in EventBits : Raise(e)
     \/ Trigger
     \/ Other
     \/ Isr
     \/ \E f \in Files :
          \/ events_open(f) \/ events_open_nomem(f) \/ events_release(f)
          \/ events_release_interrupted(f)
          \/ \E mask \in Masks, all \in WaitForAll :
               events_write(f, mask, all)
          \/ Read(f) \/ ReadInterrupted(f)

EvSpec == EvInit /\ [][EvNext]_evars

(* A raised interrupt is served and a thread inside read is scheduled; no  *)
(* event has to happen and no thread has to call.                          *)
EvFairness == WF_evars(Isr) /\ \A f \in Files : WF_evars(Read(f))
EvFairSpec == EvSpec /\ EvFairness

-----------------------------------------------------------------------------
(* Types of the driver's state.                                            *)
ThType == [pc : {"closed", "ready", "read", "asleep", "woken", "take", "clear",
                 "store"},
           events : SUBSET EventBits, todo : SUBSET EventBits,
           word : SUBSET EventBits]
IsrType == [pc : {"idle", "wake", "mask"}, snap : SUBSET EventBits,
            todo : SUBSET EventBits]
TrigType == [pc : {"idle", "next", "store", "wake", "wild"},
             event : EventBits \cup {"none"}, left : SUBSET Files,
             file : Files \cup {"none", "freed"}, word : SUBSET EventBits]
OtherType == [pc : {"idle", "take", "clear", "store"},
              file : Files \cup {"none"}, todo : SUBSET EventBits,
              word : SUBSET EventBits]

EvTypeOK ==
  /\ use \in Uses
  /\ PENDING_REG \subseteq EventBits /\ MASK_REG \subseteq EventBits
  /\ raised \in Nat /\ irq_depth \in Nat /\ opened \in Int /\ cut \in Nat
  /\ filelist \subseteq Files
  /\ pending \in [Files -> SUBSET EventBits]
  /\ pending_mask \in [Files -> SUBSET EventBits]
  /\ all_events \in [Files -> BOOLEAN]
  /\ due \in [Files -> SUBSET EventBits]
  /\ th \in [Files -> ThType] /\ isr \in IsrType /\ trig \in TrigType
  /\ other \in OtherType /\ shared \in [Files -> SUBSET {"took", "wrote"}]

(* The list the handler walks has exactly the files that are open, and     *)
(* those whose close was cut short; BUG_ON(dev->opened < 0) (events.c:256) *)
(* never fires: the handler neither misses an open file nor reaches a      *)
(* freed one.  A write to debugfs does reach one (TriggerWild): it walks   *)
(* the list as a thread, which nothing keeps off it.                       *)
ListIsOpenFiles ==
  /\ filelist = {f \in Files : th[f].pc # "closed"}
  /\ opened = Cardinality(filelist) + cut

(* No wake-up is lost between the test of wait_event_interruptible and the *)
(* wake_up_interruptible of the handler or of a write to debugfs: a reader *)
(* never sleeps on a condition that already holds, but for the moment      *)
(* between the latter's store and its wake-up; and if a second thread has  *)
(* changed the mask under it, which wakes nobody.                          *)
NoSleepOnReady ==
  \A f \in Files :
    th[f].pc = "asleep" /\ "wrote" \notin shared[f] =>
      \/ ~ ARE_REQUESTED_EVENTS_PENDING(f, pending[f])
      \/ trig.pc = "wake" /\ trig.file = f

(* "Block until pending bits set, then clear them" (events.c:328): a read  *)
(* that returns reports an event, or all that were asked for if it waits   *)
(* for all (events.c:366-368).  Two things spoil this: a write to debugfs  *)
(* that stores over what the handler has just set; and a second thread     *)
(* that takes the events, or changes the mask, between this one's wait     *)
(* (events.c:337) and its taking them (events.c:341-343).                  *)
ReadReports ==
  \A f \in Files :
    use # "debug" /\ shared[f] = {} /\ th[f].pc \in {"clear", "store"} =>
    IF all_events[f] THEN th[f].events = pending_mask[f] ELSE th[f].events # {}

(* "We have to be careful, though to clear them atomically, because we can *)
(* be resetting them in the ISR" (events.c:331-332): an event raised while *)
(* a file is open and not yet reported to it is still held somewhere.      *)
NoEventLost ==
  \A f \in Files : due[f] \subseteq PENDING_REG \cup isr.todo \cup pending[f]

(* A paced thread loses no event: the handler has disabled all events when *)
(* it wakes the reader, and nothing enables one until the next write.      *)
PacedLosesNothing == Paced => NoEventLost

(***************************************************************************)
(* The inductive invariants.  Of every use: a write to debugfs has an      *)
(* event to report, and comes only in the debug use; a reader that goes on *)
(* to take its events finds them, unless debugfs stored over them or a     *)
(* second thread had them; one thread at a time clears events, so what the *)
(* second one stores back has no event that was not pending.               *)
(***************************************************************************)
TrigBusy ==
  /\ trig.pc # "idle" => use = "debug" /\ trig.event \in EventBits
  /\ trig.pc = "idle" => trig = NoTrig

TakeFinds ==
  \A f \in Files :
    use # "debug" /\ shared[f] = {} /\ th[f].pc = "take" =>
      ARE_REQUESTED_EVENTS_PENDING(f, pending[f])

OneClears ==
  /\ other.pc # "idle" => use = "shared" /\ other.file \in filelist
  /\ other.pc = "idle" => other = OtherIdle
  /\ other.pc \in {"clear", "store"} =>
       \A f \in Files : th[f].pc \notin {"clear", "store"}
  /\ other.pc = "store" => other.word \subseteq pending[other.file]

EvCore == /\ EvTypeOK /\ TrigBusy /\ TakeFinds
          /\ ListIsOpenFiles /\ NoSleepOnReady /\ ReadReports
EvInv == EvCore /\ OneClears

(***************************************************************************)
(* Of the paced use on one CPU: one file, always one mask; events are      *)
(* enabled only while its thread is between the write and the end of the   *)
(* wait, and then none of those it asked for is pending in the file until  *)
(* the handler runs; one that it is about to clear and that has happened   *)
(* again is still pending in the controller.                               *)
(***************************************************************************)
Waiting(f) == th[f].pc \in {"read", "asleep", "woken"}

PacedFile(f) ==
  /\ f \notin filelist => due[f] = {}
  /\ \A g \in filelist : f \in filelist => g = f
  /\ ~ all_events[f]
  /\ th[f].pc \notin {"closed", "ready"} => pending_mask[f] = PacedMask
  /\ f \in filelist /\ ~ Waiting(f) => isr = IsrIdle /\ MASK_REG = {}
  /\ th[f].pc = "woken" => MASK_REG = {} \/ isr # IsrIdle
  /\ th[f].pc \in {"read", "asleep"} =>
       MASK_REG = {} \/ isr # IsrIdle \/ pending[f] \cap PacedMask = {}
  /\ th[f].pc = "ready" => pending[f] \cap PacedMask = {}
  /\ th[f].pc \in {"clear", "store"} =>
       /\ pending[f] \cap PacedMask \subseteq th[f].todo
       /\ due[f] \cap th[f].todo \subseteq PENDING_REG
  /\ th[f].pc = "store" => th[f].word = pending[f]
  /\ f \in filelist /\ isr.pc = "wake" =>
       isr.snap \ isr.todo \subseteq pending[f]

PacedInv ==
  Paced => /\ \A f \in Files : PacedFile(f)
           /\ filelist = {} => isr = IsrIdle /\ MASK_REG = {}
           /\ isr.pc # "wake" => isr.todo = {}
           /\ isr.pc = "idle" => isr = IsrIdle
           /\ NoEventLost

(* Nor does it wait for ever for an event that has happened: what it asked *)
(* for any of is pending in the controller only until it is woken.         *)
AnyReturns ==
  \A f \in Files :
    (Paced /\ th[f].pc = "asleep" /\ pending_mask[f] \cap due[f] # {})
      ~> (th[f].pc # "asleep")
=============================================================================

---------------------------- MODULE EventsProofs ----------------------------
(***************************************************************************)
(* For any files, events and masks: the handler's list is the open files,  *)
(* no wake-up is lost and a read that returns reports what was asked for,  *)
(* on one CPU or several; and on one CPU a paced thread loses no event.    *)
(***************************************************************************)
EXTENDS Events, FiniteSetTheorems, TLAPS

-----------------------------------------------------------------------------
(* What the three properties of readers say of one file.                   *)
FileOK(f) ==
  /\ th[f].pc = "asleep" /\ "wrote" \notin shared[f] =>
       \/ ~ ARE_REQUESTED_EVENTS_PENDING(f, pending[f])
       \/ trig.pc = "wake" /\ trig.file = f
  /\ use # "debug" /\ shared[f] = {} /\ th[f].pc = "take" =>
       ARE_REQUESTED_EVENTS_PENDING(f, pending[f])
  /\ use # "debug" /\ shared[f] = {} /\ th[f].pc \in {"clear", "store"} =>
       IF all_events[f] THEN th[f].events = pending_mask[f]
       ELSE th[f].events # {}

LEMMA FilesOK ==
  (NoSleepOnReady /\ TakeFinds /\ ReadReports) <=> \A f \in Files : FileOK(f)
  BY Zenon DEF NoSleepOnReady, TakeFinds, ReadReports, FileOK

LEMMA FilesOKNext ==
  (\A f \in Files : FileOK(f)') => (NoSleepOnReady /\ TakeFinds /\ ReadReports)'
  BY Zenon DEF NoSleepOnReady, TakeFinds, ReadReports, FileOK

(* A file none of whose state a step touches.                              *)
LEMMA SameFile ==
  ASSUME NEW f \in Files, FileOK(f), use' = use, th'[f] = th[f],
         pending'[f] = pending[f], pending_mask'[f] = pending_mask[f],
         all_events'[f] = all_events[f], shared[f] \subseteq shared'[f],
         trig.pc = "wake" /\ trig.file = f => trig'.pc = "wake" /\ trig'.file = f
  PROVE  FileOK(f)'
  BY DEF FileOK, ARE_REQUESTED_EVENTS_PENDING

LEMMA InitialRecords ==
  /\ Closed \in ThType /\ IsrIdle \in IsrType /\ NoTrig \in TrigType
  /\ OtherIdle \in OtherType
  BY DEF Closed, ThType, IsrIdle, IsrType, NoTrig, TrigType, OtherIdle,
     OtherType

LEMMA EvStart == EvInit => EvInv
<1> SUFFICES ASSUME EvInit PROVE EvInv
  OBVIOUS
<1>1. EvTypeOK
  BY InitialRecords, EvAssumption DEF EvInit, EvTypeOK
<1>2. \A f \in Files : th[f].pc = "closed"
  BY DEF EvInit, Closed
<1>3. \A f \in Files : FileOK(f)
  BY <1>2 DEF FileOK
<1>4. ListIsOpenFiles
  <2>1. opened = Cardinality(filelist) + cut
    BY FS_EmptySet DEF EvInit
  <2>2. filelist = {f \in Files : th[f].pc # "closed"}
    BY <1>2 DEF EvInit
  <2> QED
    BY <2>1, <2>2 DEF ListIsOpenFiles
<1>5. TrigBusy
  BY DEF EvInit, TrigBusy, NoTrig
<1>6. OneClears
  BY DEF EvInit, OneClears, OtherIdle
<1> QED
  BY <1>1, <1>3, <1>4, <1>5, <1>6, FilesOK DEF EvInv, EvCore

-----------------------------------------------------------------------------
(* The threads' records after a step of one of them, field by field.       *)

LEMMA GotoEffect ==
  ASSUME EvTypeOK, NEW f \in Files, NEW l, Goto(f, l),
         l \in {"closed", "ready", "read", "asleep", "woken", "take", "clear",
                "store"}
  PROVE  /\ th' \in [Files -> ThType]
         /\ th'[f].pc = l /\ th'[f].events = th[f].events
         /\ th'[f].todo = th[f].todo /\ th'[f].word = th[f].word
         /\ \A g \in Files : g # f => th'[g] = th[g]
<1>1. th \in [Files -> ThType] /\ th' = [th EXCEPT ![f].pc = l]
  BY DEF EvTypeOK, Goto
<1> DEFINE r == [th[f] EXCEPT !.pc = l]
<1>2. r \in ThType
  BY <1>1, Zenon DEF ThType
<1>3. /\ r.pc = l /\ r.events = th[f].events /\ r.todo = th[f].todo
      /\ r.word = th[f].word
  BY <1>1, Zenon DEF ThType
<1>4. th' = [th EXCEPT ![f] = r]
  BY <1>1, Zenon
<1> HIDE DEF r
<1> QED
  BY <1>1, <1>2, <1>3, <1>4

LEMMA ReadTakeEffect ==
  ASSUME EvTypeOK, NEW f \in Files, ReadTake(f)
  PROVE  LET events == pending[f] \cap pending_mask[f] IN
         /\ th' \in [Files -> ThType]
         /\ th'[f].pc = "clear" /\ th'[f].events = events
         /\ th'[f].todo = events /\ th'[f].word = th[f].word
         /\ \A g \in Files : g # f => th'[g] = th[g]
         /\ due' = [due EXCEPT ![f] = due[f] \ events]
<1> DEFINE E == pending[f] \cap pending_mask[f]
           r == [th[f] EXCEPT !.pc = "clear", !.events = E, !.todo = E]
<1>1. th \in [Files -> ThType] /\ E \in SUBSET EventBits
  BY DEF EvTypeOK
<1>2. /\ th' = [th EXCEPT ![f].pc = "clear", ![f].events = E, ![f].todo = E]
      /\ due' = [due EXCEPT ![f] = @ \ E]
  BY Zenon DEF ReadTake
<1> HIDE DEF E
<1>3. r \in ThType
  BY <1>1, Zenon DEF ThType
<1>4. r.pc = "clear" /\ r.events = E /\ r.todo = E /\ r.word = th[f].word
  BY <1>1, Zenon DEF ThType
<1>5. th' = [th EXCEPT ![f] = r]
  BY <1>1, <1>2, Zenon
<1> HIDE DEF r
<1>6. /\ th' \in [Files -> ThType] /\ th'[f] = r
      /\ \A g \in Files : g # f => th'[g] = th[g]
  BY <1>1, <1>3, <1>5
<1> QED
  BY <1>2, <1>4, <1>6, Zenon DEF E

LEMMA ReadLoadEffect ==
  ASSUME EvTypeOK, NEW f \in Files, ReadLoad(f)
  PROVE  /\ th' \in [Files -> ThType]
         /\ th'[f].pc = "store" /\ th'[f].events = th[f].events
         /\ th'[f].todo = th[f].todo /\ th'[f].word = pending[f]
         /\ \A g \in Files : g # f => th'[g] = th[g]
<1> DEFINE r == [th[f] EXCEPT !.pc = "store", !.word = pending[f]]
<1>1. th \in [Files -> ThType] /\ pending[f] \in SUBSET EventBits
  BY DEF EvTypeOK
<1>2. th' = [th EXCEPT ![f].pc = "store", ![f].word = pending[f]]
  BY Zenon DEF ReadLoad
<1>3. r \in ThType
  BY <1>1, Zenon DEF ThType
<1>4. /\ r.pc = "store" /\ r.events = th[f].events /\ r.todo = th[f].todo
      /\ r.word = pending[f]
  BY <1>1, Zenon DEF ThType
<1>5. th' = [th EXCEPT ![f] = r]
  BY <1>1, <1>2, Zenon
<1> HIDE DEF r
<1> QED
  BY <1>1, <1>3, <1>4, <1>5

LEMMA ReadStoreEffect ==
  ASSUME EvTypeOK, NEW f \in Files, NEW e \in EventBits, ReadStore(f, e)
  PROVE  /\ th' \in [Files -> ThType]
         /\ th'[f].pc = "clear" /\ th'[f].events = th[f].events
         /\ th'[f].todo = th[f].todo \ {e} /\ th'[f].word = {}
         /\ \A g \in Files : g # f => th'[g] = th[g]
         /\ pending' = [pending EXCEPT ![f] = th[f].word \ {e}]
         /\ th[f].word \ {e} \in SUBSET EventBits
<1> DEFINE T == th[f].todo \ {e}
           r == [th[f] EXCEPT !.pc = "clear", !.todo = T, !.word = {}]
<1>1. th \in [Files -> ThType] /\ T \in SUBSET EventBits
  BY DEF EvTypeOK, ThType
<1>2. /\ th' = [th EXCEPT ![f].pc = "clear", ![f].todo = @ \ {e},
                          ![f].word = {}]
      /\ pending' = [pending EXCEPT ![f] = th[f].word \ {e}]
  BY Zenon DEF ReadStore
<1>3. th' = [th EXCEPT ![f] = r]
  BY <1>1, <1>2, Zenon
<1>4. th[f].word \ {e} \in SUBSET EventBits
  BY DEF EvTypeOK, ThType
<1> HIDE DEF T
<1>5. r \in ThType
  <2>1. {} \in SUBSET EventBits
    OBVIOUS
  <2> QED
    BY <1>1, <2>1, Zenon DEF ThType
<1>6. r.pc = "clear" /\ r.events = th[f].events /\ r.todo = T /\ r.word = {}
  BY <1>1, Zenon DEF ThType
<1> HIDE DEF r
<1>7. /\ th' \in [Files -> ThType] /\ th'[f] = r
      /\ \A g \in Files : g # f => th'[g] = th[g]
  BY <1>1, <1>3, <1>5
<1> QED
  BY <1>2, <1>4, <1>6, <1>7, Zenon DEF T

LEMMA ReadReturnEffect ==
  ASSUME EvTypeOK, NEW f \in Files, ReadReturn(f)
  PROVE  /\ th' \in [Files -> ThType]
         /\ th'[f].pc = "ready" /\ th'[f].events = {}
         /\ th'[f].todo = th[f].todo /\ th'[f].word = th[f].word
         /\ \A g \in Files : g # f => th'[g] = th[g]
<1> DEFINE r == [th[f] EXCEPT !.pc = "ready", !.events = {}]
<1>1. th \in [Files -> ThType] /\ {} \in SUBSET EventBits
  BY DEF EvTypeOK
<1>2. th' = [th EXCEPT ![f].pc = "ready", ![f].events = {}]
  BY Zenon DEF ReadReturn
<1>3. r \in ThType
  BY <1>1, Zenon DEF ThType
<1>4. /\ r.pc = "ready" /\ r.events = {} /\ r.todo = th[f].todo
      /\ r.word = th[f].word
  BY <1>1, Zenon DEF ThType
<1>5. th' = [th EXCEPT ![f] = r]
  BY <1>1, <1>2, Zenon
<1> HIDE DEF r
<1> QED
  BY <1>1, <1>3, <1>4, <1>5

LEMMA CloseEffect ==
  ASSUME EvTypeOK, NEW f \in Files, th' = [th EXCEPT ![f] = Closed]
  PROVE  /\ th' \in [Files -> ThType]
         /\ th'[f].pc = "closed" /\ \A g \in Files : g # f => th'[g] = th[g]
<1>1. Closed.pc = "closed"
  BY DEF Closed
<1> QED
  BY <1>1, InitialRecords DEF EvTypeOK

(* A thread that is woken: its next step changes, nothing else.            *)
LEMMA Woken ==
  ASSUME NEW r \in ThType
  PROVE  LET w == [r EXCEPT !.pc = "woken"] IN
         /\ w \in ThType /\ w.pc = "woken" /\ w.events = r.events
         /\ w.todo = r.todo /\ w.word = r.word
  BY Zenon DEF ThType

LEMMA WakeUpEffect ==
  ASSUME EvTypeOK, NEW e \in EventBits, events_wake_up(e)
  PROVE  /\ th' \in [Files -> ThType]
         /\ \A f \in Files :
              /\ th'[f] = th[f] \/ (th[f].pc = "asleep" /\ th'[f].pc = "woken")
              /\ th[f].pc = "asleep" =>
                   (th'[f].pc = "woken"
                      <=> ARE_REQUESTED_EVENTS_PENDING(f, pending'[f]))
         /\ pending' \in [Files -> SUBSET EventBits]
         /\ \A f \in filelist : pending'[f] = pending[f] \cup {e}
         /\ \A f \in Files : f \notin filelist => pending'[f] = pending[f]
         /\ isr' \in IsrType /\ isr'.pc = "wake" /\ isr'.snap = isr.snap
         /\ isr'.todo = isr.todo \ {e} /\ isr.pc = "wake" /\ e \in isr.todo
<1> DEFINE C(f) == th[f].pc = "asleep"
                     /\ ARE_REQUESTED_EVENTS_PENDING(f, pending'[f])
           w(f) == [th[f] EXCEPT !.pc = "woken"]
           T == isr.todo \ {e}
<1>1. th \in [Files -> ThType] /\ isr \in IsrType /\ T \in SUBSET EventBits
  BY DEF EvTypeOK, IsrType
<1>2. /\ th' = [f \in Files |-> IF C(f) THEN w(f) ELSE th[f]]
      /\ isr' = [isr EXCEPT !.todo = T]
      /\ isr.pc = "wake" /\ e \in isr.todo
  BY Zenon DEF events_wake_up
<1>3. \A f \in Files : w(f) \in ThType /\ w(f).pc = "woken"
  BY <1>1, Woken, Zenon
<1>4. /\ pending' \in [Files -> SUBSET EventBits]
      /\ \A f \in filelist : pending'[f] = pending[f] \cup {e}
      /\ \A f \in Files : f \notin filelist => pending'[f] = pending[f]
  BY DEF EvTypeOK, events_wake_up
<1> HIDE DEF T
<1>5. /\ isr' \in IsrType /\ isr'.pc = isr.pc /\ isr'.snap = isr.snap
      /\ isr'.todo = T
  BY <1>1, <1>2, Zenon DEF IsrType
<1>6. \A f \in Files : C(f) <=> th[f].pc = "asleep"
                             /\ ARE_REQUESTED_EVENTS_PENDING(f, pending'[f])
  BY Zenon
<1> HIDE DEF w, C
<1>7. th' \in [Files -> ThType]
  BY <1>1, <1>2, <1>3, Zenon
<1>8. \A f \in Files : IF C(f) THEN th'[f] = w(f) ELSE th'[f] = th[f]
  BY <1>2, Zenon
<1>9. \A f \in Files :
        /\ th'[f] = th[f] \/ (th[f].pc = "asleep" /\ th'[f].pc = "woken")
        /\ th[f].pc = "asleep" =>
             (th'[f].pc = "woken"
                <=> ARE_REQUESTED_EVENTS_PENDING(f, pending'[f]))
  BY <1>3, <1>6, <1>8
<1> QED
  BY <1>2, <1>4, <1>5, <1>7, <1>9, Zenon DEF T

LEMMA IsrClearEffect ==
  ASSUME EvTypeOK, IsrClear
  PROVE  isr' \in IsrType /\ isr'.pc = "mask" /\ isr'.todo = {}
<1>1. isr \in IsrType /\ isr' = [isr EXCEPT !.pc = "mask"] /\ isr.todo = {}
  BY Zenon DEF EvTypeOK, IsrClear
<1> QED
  BY <1>1, Zenon DEF IsrType

-----------------------------------------------------------------------------
(* The walk of a write to debugfs.                                         *)

LEMMA FreedEffect ==
  ASSUME EvTypeOK, TrigBusy, NEW f \in Files, Freed(f), use' = use
  PROVE  /\ trig' \in TrigType /\ TrigBusy'
         /\ \A g \in Files : g # f /\ trig.pc = "wake" /\ trig.file = g
                               => trig'.pc = "wake" /\ trig'.file = g
<1>1. CASE trig.file = f
  <2>1. trig' = [trig EXCEPT !.file = "freed"]
    BY <1>1, Zenon DEF Freed
  <2>2. trig \in TrigType /\ "freed" \in Files \cup {"none", "freed"}
    BY DEF EvTypeOK
  <2>3. trig' \in TrigType
    BY <2>1, <2>2, Zenon DEF TrigType
  <2>4. trig'.pc = trig.pc /\ trig'.event = trig.event
    BY <2>1, <2>2, Zenon DEF TrigType
  <2>5. trig.pc # "idle"
    <3> SUFFICES ASSUME trig.pc = "idle" PROVE FALSE
      OBVIOUS
    <3>1. f = "none"
      BY <1>1 DEF TrigBusy, NoTrig
    <3> QED
      BY <3>1, EvAssumption
  <2> QED
    BY <1>1, <2>3, <2>4, <2>5 DEF TrigBusy
<1>2. CASE trig.file # f
  <2> DEFINE L == trig.left \ {f}
  <2>1. trig' = [trig EXCEPT !.left = L]
    BY <1>2, Zenon DEF Freed
  <2>2. trig \in TrigType /\ L \in SUBSET Files
    BY DEF EvTypeOK, TrigType
  <2> HIDE DEF L
  <2>3. trig' \in TrigType
    BY <2>1, <2>2, Zenon DEF TrigType
  <2>4. /\ trig'.pc = trig.pc /\ trig'.event = trig.event /\ trig'.left = L
        /\ trig'.file = trig.file /\ trig'.word = trig.word
    BY <2>1, <2>2, Zenon DEF TrigType
  <2>5. trig.pc = "idle" => trig' = trig
    <3> SUFFICES ASSUME trig.pc = "idle" PROVE L = trig.left
      BY <2>1, <2>2, Zenon DEF TrigType
    <3>1. trig.left = {}
      BY DEF TrigBusy, NoTrig
    <3> QED
      BY <3>1 DEF L
  <2>6. TrigBusy'
    BY <2>4, <2>5 DEF TrigBusy, NoTrig
  <2> QED
    BY <2>3, <2>4, <2>6, Zenon
<1> QED
  BY <1>1, <1>2, Zenon

LEMMA TriggerSetEffect ==
  ASSUME EvTypeOK, NEW e \in EventBits, trigger_set(e)
  PROVE  /\ trig' \in TrigType /\ trig'.pc = "next" /\ trig'.event = e
         /\ trig'.left = filelist /\ trig'.file = "none"
<1>1. trig' = [NoTrig EXCEPT !.pc = "next", !.event = e, !.left = filelist]
  BY Zenon DEF trigger_set
<1>2. filelist \in SUBSET Files /\ e \in EventBits \cup {"none"}
  BY DEF EvTypeOK
<1>3. trig' \in TrigType
  BY <1>1, <1>2, InitialRecords, Zenon DEF TrigType
<1>4. /\ trig'.pc = "next" /\ trig'.event = e /\ trig'.left = filelist
      /\ trig'.file = NoTrig.file
  BY <1>1, InitialRecords, Zenon DEF TrigType
<1>5. NoTrig.file = "none"
  BY DEF NoTrig
<1> QED
  BY <1>3, <1>4, <1>5, Zenon

LEMMA TriggerLoadEffect ==
  ASSUME EvTypeOK, NEW f \in Files, TriggerLoad(f)
  PROVE  /\ trig' \in TrigType /\ trig'.pc = "store"
         /\ trig'.event = trig.event /\ trig'.left = trig.left \ {f}
         /\ trig'.file = f
<1> DEFINE L == trig.left \ {f}
           W == pending[f]
<1>1. trig' = [trig EXCEPT !.pc = "store", !.left = L, !.file = f, !.word = W]
  BY Zenon DEF TriggerLoad
<1>2. /\ trig \in TrigType /\ L \in SUBSET Files /\ W \in SUBSET EventBits
      /\ f \in Files \cup {"none", "freed"}
  BY DEF EvTypeOK, TrigType
<1> HIDE DEF L, W
<1>3. trig' \in TrigType
  BY <1>1, <1>2, Zenon DEF TrigType
<1>4. /\ trig'.pc = "store" /\ trig'.event = trig.event /\ trig'.left = L
      /\ trig'.file = f
  BY <1>1, <1>2, Zenon DEF TrigType
<1> QED
  BY <1>3, <1>4, Zenon DEF L

LEMMA TriggerStoreEffect ==
  ASSUME EvTypeOK, TriggerStore
  PROVE  /\ trig' \in TrigType /\ trig'.pc = "wake"
         /\ trig'.event = trig.event /\ trig'.left = trig.left
         /\ trig'.file = trig.file
<1>1. trig' = [trig EXCEPT !.pc = "wake", !.word = {}]
  BY Zenon DEF TriggerStore
<1>2. trig \in TrigType /\ {} \in SUBSET EventBits
  BY DEF EvTypeOK
<1>3. trig' \in TrigType
  BY <1>1, <1>2, Zenon DEF TrigType
<1>4. /\ trig'.pc = "wake" /\ trig'.event = trig.event /\ trig'.left = trig.left
      /\ trig'.file = trig.file
  BY <1>1, <1>2, Zenon DEF TrigType
<1> QED
  BY <1>3, <1>4, Zenon

LEMMA TriggerWakeEffect ==
  ASSUME EvTypeOK, TriggerWake
  PROVE  /\ trig' \in TrigType /\ trig'.pc = "next"
         /\ trig'.event = trig.event
         /\ th' \in [Files -> ThType]
         /\ \A g \in Files : g # trig.file => th'[g] = th[g]
         /\ \A g \in Files : g = trig.file =>
              IF th[g].pc = "asleep"
                 /\ ARE_REQUESTED_EVENTS_PENDING(g, pending[g])
              THEN th'[g].pc = "woken"
              ELSE /\ th'[g].pc = th[g].pc /\ th'[g].events = th[g].events
                   /\ th'[g].todo = th[g].todo
<1>1. trig' = [trig EXCEPT !.pc = "next"]
  BY Zenon DEF TriggerWake
<1>2. /\ trig \in TrigType
      /\ th \in [Files -> ThType]
  BY DEF EvTypeOK
<1>3. trig' \in TrigType
  BY <1>1, <1>2, Zenon DEF TrigType
<1>4. trig'.pc = "next" /\ trig'.event = trig.event
  BY <1>1, <1>2, Zenon DEF TrigType
<1> DEFINE c == th[trig.file].pc = "asleep"
                  /\ ARE_REQUESTED_EVENTS_PENDING(trig.file, pending[trig.file])
           l == IF c THEN "woken" ELSE th[trig.file].pc
           r == [th[trig.file] EXCEPT !.pc = l]
<1>5. th' = [th EXCEPT ![trig.file] = r]
  BY Zenon DEF TriggerWake
<1>6. trig.file \in Files => l \in {"closed", "ready", "read", "asleep", "woken",
                                    "take", "clear", "store"}
  BY <1>2 DEF ThType
<1>7. c => l = "woken"
  BY Zenon
<1>8. ~c => l = th[trig.file].pc
  BY Zenon
<1> HIDE DEF l
<1>9. trig.file \in Files => /\ r \in ThType /\ r.pc = l
                             /\ r.events = th[trig.file].events
                             /\ r.todo = th[trig.file].todo
  BY <1>2, <1>6, Zenon DEF ThType
<1> HIDE DEF r
<1>10. th' \in [Files -> ThType]
  BY <1>2, <1>5, <1>9
<1>11. \A g \in Files : g # trig.file => th'[g] = th[g]
  BY <1>2, <1>5
<1>12. trig.file \in Files => th'[trig.file] = r
  BY <1>2, <1>5
<1> QED
  BY <1>3, <1>4, <1>7, <1>8, <1>9, <1>10, <1>11, <1>12, Zenon
-----------------------------------------------------------------------------
(* What a step leaves alone.                                               *)

LEMMA ListFrame ==
  ASSUME ListIsOpenFiles, TrigBusy,
         UNCHANGED <<use, opened, filelist, trig, cut>>,
         \A g \in Files : th'[g].pc = "closed" <=> th[g].pc = "closed"
  PROVE  ListIsOpenFiles' /\ TrigBusy'
<1>1. TrigBusy'
  BY Zenon DEF TrigBusy, NoTrig
<1>2. filelist' = {g \in Files : th'[g].pc # "closed"}
  BY DEF ListIsOpenFiles
<1>3. opened' = Cardinality(filelist') + cut'
  BY DEF ListIsOpenFiles
<1> QED
  BY <1>1, <1>2, <1>3 DEF ListIsOpenFiles

(* The FPGA and the handler's registers: no file and no thread changes.    *)
LEMMA QuietStep ==
  ASSUME EvInv, EvTypeOK',
         UNCHANGED <<use, opened, filelist, pending, pending_mask, all_events,
                     th, trig, cut, shared>>
  PROVE  EvCore'
<1>1. ListIsOpenFiles' /\ TrigBusy'
  BY ListFrame DEF EvInv, EvCore
<1>2. \A f \in Files : FileOK(f)'
  BY FilesOK, SameFile DEF EvInv, EvCore
<1> QED
  BY <1>1, <1>2, FilesOKNext DEF EvInv, EvCore

(* One thread moves between two steps of an open file.                     *)
LEMMA ThreadStep ==
  ASSUME EvInv, EvTypeOK', NEW f \in Files, FileOK(f)',
         th[f].pc # "closed", th'[f].pc # "closed",
         \A g \in Files : g # f => /\ th'[g] = th[g] /\ pending'[g] = pending[g]
                                   /\ pending_mask'[g] = pending_mask[g]
                                   /\ all_events'[g] = all_events[g]
                                   /\ shared'[g] = shared[g],
         UNCHANGED <<use, opened, filelist, trig, cut>>
  PROVE  EvCore'
<1>1. ListIsOpenFiles' /\ TrigBusy'
  BY ListFrame DEF EvInv, EvCore
<1>2. \A g \in Files : g # f => FileOK(g)'
  BY FilesOK, SameFile DEF EvInv, EvCore
<1> QED
  BY <1>1, <1>2, FilesOKNext DEF EvInv, EvCore

-----------------------------------------------------------------------------
(* The controller and the handler.                                         *)

LEMMA RaiseStep ==
  ASSUME EvInv, NEW e \in EventBits, Raise(e)
  PROVE  EvCore'
<1>1. EvTypeOK'
  <2>1. /\ PENDING_REG' \subseteq EventBits /\ raised' \in Nat
        /\ due' \in [Files -> SUBSET EventBits]
    BY DEF EvInv, EvCore, EvTypeOK, Raise, Owed
  <2> QED
    BY <2>1 DEF EvInv, EvCore, EvTypeOK, Raise
<1> QED
  BY <1>1, QuietStep DEF Raise

LEMMA IsrRegisterStep ==
  ASSUME EvInv, IsrEnter \/ IsrClear \/ IsrMask
  PROVE  EvCore'
<1>1. isr' \in IsrType
  <2>1. CASE IsrEnter
    BY <2>1 DEF IsrEnter, EvInv, EvCore, EvTypeOK, IsrType
  <2>2. CASE IsrClear
    BY <2>2, IsrClearEffect DEF EvInv, EvCore
  <2>3. CASE IsrMask
    BY <2>3, InitialRecords DEF IsrMask
  <2> QED
    BY <2>1, <2>2, <2>3
<1>2. PENDING_REG' \subseteq EventBits /\ MASK_REG' \subseteq EventBits
  <2>1. CASE IsrEnter
    BY <2>1 DEF IsrEnter, EvInv, EvCore, EvTypeOK
  <2>2. PENDING_REG \subseteq EventBits /\ MASK_REG \subseteq EventBits
    BY DEF EvInv, EvCore, EvTypeOK
  <2>3. CASE IsrClear
    <3>1. PENDING_REG' = PENDING_REG \ isr.snap /\ MASK_REG' = MASK_REG
      BY <2>3, Zenon DEF IsrClear
    <3> QED
      BY <2>2, <3>1
  <2>4. CASE IsrMask
    BY <2>2, <2>4 DEF IsrMask
  <2> QED
    BY <2>1, <2>3, <2>4
<1>3. UNCHANGED <<use, raised, irq_depth, opened, filelist, pending,
                  pending_mask, all_events, th, trig, cut, due, other, shared>>
  BY Zenon DEF IsrEnter, IsrClear, IsrMask
<1>4. EvTypeOK'
  BY <1>1, <1>2, <1>3 DEF EvInv, EvCore, EvTypeOK
<1> QED
  BY <1>3, <1>4, QuietStep

(* More events pending never make a satisfied reader unsatisfied.          *)
LEMMA RequestedGrows ==
  ASSUME NEW f, NEW p, NEW q, p \subseteq q, ARE_REQUESTED_EVENTS_PENDING(f, p)
  PROVE  ARE_REQUESTED_EVENTS_PENDING(f, q)
  BY DEF ARE_REQUESTED_EVENTS_PENDING

LEMMA WakeUpStep ==
  ASSUME EvInv, NEW e \in EventBits, events_wake_up(e)
  PROVE  EvCore'
<1>1. EvTypeOK
  BY DEF EvInv, EvCore
<1>2. /\ th' \in [Files -> ThType] /\ isr' \in IsrType
      /\ pending' \in [Files -> SUBSET EventBits]
  BY <1>1, WakeUpEffect
<1>3. UNCHANGED <<use, PENDING_REG, MASK_REG, raised, irq_depth, opened,
                  filelist, pending_mask, all_events, trig, cut, due, other,
                  shared>>
  BY Zenon DEF events_wake_up
<1>4. EvTypeOK'
  BY <1>1, <1>2, <1>3 DEF EvTypeOK
<1>5. ListIsOpenFiles' /\ TrigBusy'
  BY <1>1, <1>3, WakeUpEffect, ListFrame DEF EvInv, EvCore
<1>6. \A f \in Files : FileOK(f)'
  <2> SUFFICES ASSUME NEW f \in Files PROVE FileOK(f)'
    OBVIOUS
  <2>1. /\ th'[f] = th[f] \/ (th[f].pc = "asleep" /\ th'[f].pc = "woken")
        /\ th[f].pc = "asleep" =>
             (th'[f].pc = "woken"
                <=> ARE_REQUESTED_EVENTS_PENDING(f, pending'[f]))
        /\ pending[f] \subseteq pending'[f]
    BY <1>1, WakeUpEffect
  <2>2. ARE_REQUESTED_EVENTS_PENDING(f, pending[f])
          => ARE_REQUESTED_EVENTS_PENDING(f, pending'[f])
    BY <2>1, RequestedGrows
  <2>3. ARE_REQUESTED_EVENTS_PENDING(f, pending[f])'
          <=> ARE_REQUESTED_EVENTS_PENDING(f, pending'[f])
    BY <1>3 DEF ARE_REQUESTED_EVENTS_PENDING
  <2>4. FileOK(f)
    BY FilesOK DEF EvInv, EvCore
  <2> HIDE DEF ARE_REQUESTED_EVENTS_PENDING
  <2> QED
    BY <1>3, <2>1, <2>2, <2>3, <2>4 DEF FileOK
<1> QED
  BY <1>4, <1>5, <1>6, FilesOKNext DEF EvInv, EvCore

-----------------------------------------------------------------------------
(* Open and close.                                                         *)

LEMMA OpenStep ==
  ASSUME EvInv, NEW f \in Files, events_open(f)
  PROVE  EvCore'
<1>1. EvTypeOK
  BY DEF EvInv, EvCore
<1>2. Goto(f, "ready") /\ th[f].pc = "closed"
  BY DEF events_open, At
<1>3. /\ th' \in [Files -> ThType] /\ th'[f].pc = "ready"
      /\ \A g \in Files : g # f => th'[g] = th[g]
  BY <1>1, <1>2, GotoEffect
<1>4. /\ filelist' = filelist \cup {f} /\ opened' = opened + 1
      /\ pending' = [pending EXCEPT ![f] = {}]
      /\ pending_mask' = [pending_mask EXCEPT ![f] = {}]
      /\ all_events' = [all_events EXCEPT ![f] = FALSE]
      /\ due' = [due EXCEPT ![f] = Owed(PENDING_REG)]
      /\ UNCHANGED <<use, PENDING_REG, MASK_REG, raised, irq_depth, isr, trig,
                     cut, other, shared>>
  BY Zenon DEF events_open, Fresh
<1>5. EvTypeOK'
  BY <1>1, <1>3, <1>4 DEF EvTypeOK, Owed
<1>6. f \notin filelist /\ filelist = {g \in Files : th[g].pc # "closed"}
  BY <1>2 DEF EvInv, EvCore, ListIsOpenFiles
<1>7. filelist' = {g \in Files : th'[g].pc # "closed"}
  BY <1>3, <1>4, <1>6
<1>8. opened' = Cardinality(filelist') + cut'
  <2>1. IsFiniteSet(filelist)
    BY <1>1, EvAssumption, FS_Subset DEF EvTypeOK
  <2>2. Cardinality(filelist') = Cardinality(filelist) + 1
    BY <1>4, <1>6, <2>1, FS_AddElement
  <2>3. Cardinality(filelist) \in Nat
    BY <2>1, FS_CardinalityType
  <2> QED
    BY <1>1, <1>4, <2>2, <2>3 DEF EvInv, EvCore, ListIsOpenFiles, EvTypeOK
<1>9. ListIsOpenFiles' /\ TrigBusy'
  BY <1>4, <1>7, <1>8 DEF EvInv, EvCore, ListIsOpenFiles, TrigBusy, NoTrig
<1>10. FileOK(f)'
  BY <1>3 DEF FileOK
<1>11. \A g \in Files : g # f => FileOK(g)'
  BY <1>1, <1>3, <1>4, FilesOK, SameFile DEF EvInv, EvCore, EvTypeOK
<1> QED
  BY <1>5, <1>9, <1>10, <1>11, FilesOKNext DEF EvInv, EvCore

(* A close that ends leaves the count; one that a signal cuts short leaves *)
(* its file in the count.                                                  *)
LEMMA ReleaseStep ==
  ASSUME EvInv, NEW f \in Files,
         events_release(f) \/ events_release_interrupted(f)
  PROVE  EvCore'
<1>1. EvTypeOK
  BY DEF EvInv, EvCore
<1>2. /\ th' = [th EXCEPT ![f] = Closed] /\ th[f].pc = "ready"
      /\ Freed(f) \/ trig' = trig
  BY DEF events_release, events_release_interrupted, At
<1>3. /\ th' \in [Files -> ThType] /\ th'[f].pc = "closed"
      /\ \A g \in Files : g # f => th'[g] = th[g]
  BY <1>1, <1>2, CloseEffect
<1>4. /\ filelist' = filelist \ {f}
      /\ pending' = [pending EXCEPT ![f] = {}]
      /\ pending_mask' = [pending_mask EXCEPT ![f] = {}]
      /\ all_events' = [all_events EXCEPT ![f] = FALSE]
      /\ due' = [due EXCEPT ![f] = {}]
      /\ UNCHANGED <<use, PENDING_REG, MASK_REG, raised, irq_depth, isr, other,
                     shared>>
  BY Zenon DEF events_release, events_release_interrupted, Fresh
<1>5. \/ opened' = opened - 1 /\ cut' = cut
      \/ opened' = opened /\ cut' = cut + 1
  BY Zenon DEF events_release, events_release_interrupted
<1>6. /\ trig' \in TrigType /\ TrigBusy'
      /\ \A g \in Files : g # f /\ trig.pc = "wake" /\ trig.file = g
                            => trig'.pc = "wake" /\ trig'.file = g
  <2>1. CASE Freed(f)
    BY <1>4, <2>1, FreedEffect DEF EvInv, EvCore
  <2>2. CASE trig' = trig
    BY <1>1, <1>4, <2>2 DEF EvInv, EvCore, EvTypeOK, TrigBusy, NoTrig
  <2> QED
    BY <1>2, <2>1, <2>2
<1>7. EvTypeOK'
  BY <1>1, <1>3, <1>4, <1>5, <1>6 DEF EvTypeOK
<1>8. f \in filelist /\ filelist = {g \in Files : th[g].pc # "closed"}
  BY <1>2 DEF EvInv, EvCore, ListIsOpenFiles
<1>9. filelist' = {g \in Files : th'[g].pc # "closed"}
  BY <1>3, <1>4, <1>8
<1>10. opened' = Cardinality(filelist') + cut'
  <2>1. IsFiniteSet(filelist)
    BY <1>1, EvAssumption, FS_Subset DEF EvTypeOK
  <2>2. Cardinality(filelist') = Cardinality(filelist) - 1
    BY <1>4, <1>8, <2>1, FS_RemoveElement
  <2>3. Cardinality(filelist) \in Nat
    BY <2>1, FS_CardinalityType
  <2>4. opened = Cardinality(filelist) + cut /\ opened \in Int /\ cut \in Nat
    BY <1>1 DEF EvInv, EvCore, ListIsOpenFiles, EvTypeOK
  <2> QED
    BY <1>5, <2>2, <2>3, <2>4
<1>11. ListIsOpenFiles'
  BY <1>6, <1>9, <1>10 DEF ListIsOpenFiles
<1>12. FileOK(f)'
  BY <1>3 DEF FileOK
<1>13. \A g \in Files : g # f => FileOK(g)'
  BY <1>1, <1>3, <1>4, <1>6, FilesOK, SameFile DEF EvInv, EvCore, EvTypeOK
<1> QED
  BY <1>6, <1>7, <1>11, <1>12, <1>13, FilesOKNext DEF EvInv, EvCore

LEMMA OpenNomemStep ==
  ASSUME EvInv, NEW f \in Files, events_open_nomem(f)
  PROVE  EvCore'
<1>1. EvTypeOK'
  BY DEF EvInv, EvCore, EvTypeOK, events_open_nomem
<1> QED
  BY <1>1, QuietStep DEF events_open_nomem
-----------------------------------------------------------------------------
(* A write to debugfs: it moves, and may set a file's word or wake its     *)
(* reader; in its use the events a reader takes are not claimed.           *)

LEMMA TriggerStep ==
  ASSUME EvInv, Trigger
  PROVE  EvCore'
<1>1. EvTypeOK /\ TrigBusy /\ ListIsOpenFiles /\ \A f \in Files : FileOK(f)
  BY FilesOK DEF EvInv, EvCore
<1>2. UNCHANGED <<use, PENDING_REG, MASK_REG, irq_depth, opened, filelist,
                  pending_mask, all_events, isr, cut, due, other, shared>>
  BY Zenon DEF Trigger, trigger_set, TriggerLoad, TriggerStore, TriggerWake,
     TriggerEnd, TriggerWild
<1>3. ASSUME NEW e \in EventBits, trigger_set(e) PROVE EvCore'
  <2>1. use = "debug" /\ trig.pc = "idle" /\ UNCHANGED <<pending, th>>
    BY <1>3 DEF trigger_set, NoTrig
  <2>2. raised' \in Nat
    BY <1>1, <1>3 DEF trigger_set, EvTypeOK
  <2>3. /\ trig' \in TrigType /\ trig'.pc = "next" /\ trig'.event = e
        /\ trig'.left = filelist /\ trig'.file = "none"
    BY <1>1, <1>3, TriggerSetEffect
  <2>4. EvTypeOK'
    BY <1>1, <1>2, <2>1, <2>2, <2>3 DEF EvTypeOK
  <2>5. TrigBusy'
    BY <1>2, <2>1, <2>3 DEF TrigBusy
  <2>6. ListIsOpenFiles'
    BY <1>1, <1>2, <2>1, <2>3 DEF ListIsOpenFiles
  <2>7. \A f \in Files : FileOK(f)'
    BY <1>1, <1>2, <2>1, SameFile
  <2> QED
    BY <2>4, <2>5, <2>6, <2>7, FilesOKNext DEF EvInv, EvCore
<1>4. ASSUME NEW f \in Files, TriggerLoad(f) PROVE EvCore'
  <2>1. /\ trig.pc = "next" /\ f \in trig.left
        /\ UNCHANGED <<raised, pending, th>>
    BY <1>4 DEF TriggerLoad
  <2>2. /\ trig' \in TrigType /\ trig'.pc = "store"
        /\ trig'.event = trig.event /\ trig'.left = trig.left \ {f}
        /\ trig'.file = f
    BY <1>1, <1>4, TriggerLoadEffect
  <2>3. EvTypeOK'
    BY <1>1, <1>2, <2>1, <2>2 DEF EvTypeOK
  <2>4. TrigBusy'
    BY <1>1, <1>2, <2>1, <2>2 DEF TrigBusy
  <2>5. ListIsOpenFiles'
    BY <1>1, <1>2, <2>1, <2>2 DEF ListIsOpenFiles
  <2>6. \A g \in Files : FileOK(g)'
    BY <1>1, <1>2, <2>1, SameFile
  <2> QED
    BY <2>3, <2>4, <2>5, <2>6, FilesOKNext DEF EvInv, EvCore
<1>5. CASE TriggerStore
  <2>1. /\ trig.pc = "store" /\ UNCHANGED <<raised, th>>
        /\ pending' = [pending EXCEPT ![trig.file] =
                         trig.word \cup {trig.event}]
    BY <1>5, Zenon DEF TriggerStore
  <2>2. use = "debug" /\ trig.event \in EventBits
    BY <1>1, <2>1 DEF TrigBusy
  <2>3. /\ trig' \in TrigType /\ trig'.pc = "wake"
        /\ trig'.event = trig.event /\ trig'.left = trig.left
        /\ trig'.file = trig.file
    BY <1>1, <1>5, TriggerStoreEffect
  <2>4. trig.word \cup {trig.event} \in SUBSET EventBits
    BY <1>1, <2>2 DEF EvTypeOK, TrigType
  <2>5. /\ pending' \in [Files -> SUBSET EventBits]
        /\ \A g \in Files : g # trig.file => pending'[g] = pending[g]
    BY <1>1, <2>1, <2>4 DEF EvTypeOK
  <2>6. EvTypeOK'
    BY <1>1, <1>2, <2>1, <2>3, <2>5 DEF EvTypeOK
  <2>7. TrigBusy'
    BY <1>2, <2>2, <2>3 DEF TrigBusy
  <2>8. ListIsOpenFiles'
    BY <1>1, <1>2, <2>1, <2>3 DEF ListIsOpenFiles
  <2>9. \A g \in Files : FileOK(g)'
    <3> SUFFICES ASSUME NEW g \in Files PROVE FileOK(g)'
      OBVIOUS
    <3>1. CASE g = trig.file
      BY <1>2, <2>2, <2>3, <3>1 DEF FileOK
    <3>2. CASE g # trig.file
      BY <1>1, <1>2, <2>1, <2>5, <3>2, SameFile
    <3> QED
      BY <3>1, <3>2
  <2> QED
    BY <2>6, <2>7, <2>8, <2>9, FilesOKNext DEF EvInv, EvCore
<1>6. CASE TriggerWake
  <2>1. trig.pc = "wake" /\ UNCHANGED <<raised, pending>>
    BY <1>6 DEF TriggerWake
  <2>2. use = "debug" /\ trig.event \in EventBits
    BY <1>1, <2>1 DEF TrigBusy
  <2>3. /\ trig' \in TrigType /\ trig'.pc = "next"
        /\ trig'.event = trig.event /\ th' \in [Files -> ThType]
        /\ \A g \in Files : g # trig.file => th'[g] = th[g]
    BY <1>1, <1>6, TriggerWakeEffect
  <2>4. \A g \in Files : g = trig.file =>
          IF th[g].pc = "asleep" /\ ARE_REQUESTED_EVENTS_PENDING(g, pending[g])
          THEN th'[g].pc = "woken" ELSE th'[g].pc = th[g].pc
    BY <1>1, <1>6, TriggerWakeEffect
  <2>5. EvTypeOK'
    BY <1>1, <1>2, <2>1, <2>3 DEF EvTypeOK
  <2>6. TrigBusy'
    BY <1>2, <2>2, <2>3 DEF TrigBusy
  <2>7. ListIsOpenFiles'
    <3>1. \A g \in Files : th'[g].pc = "closed" <=> th[g].pc = "closed"
      BY <2>3, <2>4
    <3>2. filelist' = {g \in Files : th'[g].pc # "closed"}
      BY <1>1, <1>2, <3>1 DEF ListIsOpenFiles
    <3> QED
      BY <1>1, <1>2, <2>3, <3>2 DEF ListIsOpenFiles
  <2>8. \A g \in Files : FileOK(g)'
    <3> SUFFICES ASSUME NEW g \in Files PROVE FileOK(g)'
      OBVIOUS
    <3>1. CASE g = trig.file
      <4>1. ARE_REQUESTED_EVENTS_PENDING(g, pending[g])'
              <=> ARE_REQUESTED_EVENTS_PENDING(g, pending[g])
        BY <1>2, <2>1 DEF ARE_REQUESTED_EVENTS_PENDING
      <4> QED
        BY <1>2, <2>2, <2>4, <3>1, <4>1 DEF FileOK
    <3>2. CASE g # trig.file
      BY <1>1, <1>2, <2>1, <2>3, <3>2, SameFile
    <3> QED
      BY <3>1, <3>2
  <2> QED
    BY <2>5, <2>6, <2>7, <2>8, FilesOKNext DEF EvInv, EvCore
<1>7. CASE TriggerEnd
  <2>1. trig.pc = "next" /\ trig' = NoTrig /\ UNCHANGED <<raised, pending, th>>
    BY <1>7, Zenon DEF TriggerEnd
  <2>2. NoTrig.pc = "idle" /\ NoTrig.left = {} /\ NoTrig.file = "none"
    BY DEF NoTrig
  <2> HIDE DEF NoTrig
  <2>3. EvTypeOK'
    BY <1>1, <1>2, <2>1, InitialRecords DEF EvTypeOK
  <2>4. TrigBusy'
    BY <2>1, <2>2 DEF TrigBusy
  <2>5. ListIsOpenFiles'
    BY <1>1, <1>2, <2>1, <2>2 DEF ListIsOpenFiles
  <2>6. \A g \in Files : FileOK(g)'
    BY <1>1, <1>2, <2>1, SameFile
  <2> QED
    BY <2>3, <2>4, <2>5, <2>6, FilesOKNext DEF EvInv, EvCore
<1>8. CASE TriggerWild
  <2>1. /\ trig.pc # "idle" /\ trig.file = "freed"
        /\ trig' = [trig EXCEPT !.pc = "wild"]
        /\ UNCHANGED <<raised, pending, th>>
    BY <1>8, Zenon DEF TriggerWild
  <2>2. trig \in TrigType
    BY <1>1 DEF EvTypeOK
  <2>3. trig' \in TrigType
    BY <2>1, <2>2, Zenon DEF TrigType
  <2>4. trig'.pc = "wild" /\ trig'.event = trig.event
    BY <2>1, <2>2, Zenon DEF TrigType
  <2>5. EvTypeOK'
    BY <1>1, <1>2, <2>1, <2>3 DEF EvTypeOK
  <2>6. TrigBusy'
    BY <1>1, <1>2, <2>1, <2>4 DEF TrigBusy
  <2>7. ListIsOpenFiles'
    BY <1>1, <1>2, <2>1 DEF ListIsOpenFiles
  <2>8. \A g \in Files : g # trig.file
    BY <2>1, EvAssumption
  <2>9. \A g \in Files : FileOK(g)'
    BY <1>1, <1>2, <2>1, <2>8, SameFile
  <2> QED
    BY <2>5, <2>6, <2>7, <2>9, FilesOKNext DEF EvInv, EvCore
<1> QED
  BY <1>3, <1>4, <1>5, <1>6, <1>7, <1>8, Zenon DEF Trigger

-----------------------------------------------------------------------------
(* write and the steps of read.                                            *)

LEMMA WriteStep ==
  ASSUME EvInv, NEW f \in Files, NEW mask \in Masks, NEW all \in WaitForAll,
         events_write(f, mask, all)
  PROVE  EvCore'
<1> DEFINE l == IF Paced THEN "read" ELSE "ready"
<1>1. EvTypeOK /\ mask \in SUBSET EventBits /\ all \in BOOLEAN
  BY EvAssumption DEF EvInv, EvCore
<1>2. Goto(f, l) /\ th[f].pc = "ready"
  BY DEF events_write, At
<1>3. l \in {"ready", "read"}
  OBVIOUS
<1> HIDE DEF l
<1>4. /\ th' \in [Files -> ThType] /\ th'[f].pc = l
      /\ \A g \in Files : g # f => th'[g] = th[g]
  BY <1>1, <1>2, <1>3, GotoEffect
<1>5. /\ pending_mask' = [pending_mask EXCEPT ![f] = mask]
      /\ all_events' = [all_events EXCEPT ![f] = all]
      /\ MASK_REG' = MASK_REG \cup mask
      /\ UNCHANGED <<use, PENDING_REG, raised, irq_depth, opened, filelist,
                     pending, isr, trig, cut, due, other, shared>>
  BY Zenon DEF events_write
<1>6. EvTypeOK'
  BY <1>1, <1>4, <1>5 DEF EvTypeOK
<1>7. FileOK(f)'
  BY <1>3, <1>4 DEF FileOK
<1> QED
  BY <1>1, <1>2, <1>3, <1>4, <1>5, <1>6, <1>7, ThreadStep DEF EvTypeOK

LEMMA ReadStep ==
  ASSUME EvInv, NEW f \in Files, Read(f) \/ ReadInterrupted(f)
  PROVE  EvCore'
<1>1. EvTypeOK /\ FileOK(f)
  BY FilesOK DEF EvInv, EvCore
<1>2. UNCHANGED <<use, PENDING_REG, MASK_REG, raised, irq_depth, opened,
                  filelist, pending_mask, all_events, isr, trig, cut, other>>
  BY Zenon DEF Read, ReadWait, ReadInterrupted, ReadTake, ReadLoad, ReadStore,
     ReadReturn
<1>3. CASE ReadWait(f)
  <2> DEFINE c == ARE_REQUESTED_EVENTS_PENDING(f, pending[f])
             l == IF c THEN "take" ELSE "asleep"
  <2>1. /\ Goto(f, l) /\ th[f].pc \in {"read", "woken", "ready"}
        /\ UNCHANGED <<pending, due>>
        /\ shared' = shared \/ shared' = [shared EXCEPT ![f] = {}]
    BY <1>3 DEF ReadWait, At
  <2>2. l \in {"take", "asleep"} /\ (l = "take" <=> c)
    OBVIOUS
  <2>3. c' <=> c
    BY <1>2, <2>1 DEF ARE_REQUESTED_EVENTS_PENDING
  <2> HIDE DEF l
  <2>4. /\ th' \in [Files -> ThType] /\ th'[f].pc = l
        /\ \A g \in Files : g # f => th'[g] = th[g]
    BY <1>1, <2>1, <2>2, GotoEffect
  <2>5. /\ shared' \in [Files -> SUBSET {"took", "wrote"}]
        /\ \A g \in Files : g # f => shared'[g] = shared[g]
    BY <1>1, <2>1 DEF EvTypeOK
  <2>6. EvTypeOK'
    BY <1>1, <1>2, <2>1, <2>4, <2>5 DEF EvTypeOK
  <2>7. FileOK(f)'
    BY <2>2, <2>3, <2>4 DEF FileOK
  <2> QED
    BY <1>2, <2>1, <2>2, <2>4, <2>5, <2>6, <2>7, ThreadStep
<1>4. CASE ReadInterrupted(f)
  <2>1. /\ Goto(f, "ready") /\ th[f].pc \in {"asleep", "take"}
        /\ UNCHANGED <<pending, due, shared>>
    BY <1>4 DEF ReadInterrupted, At
  <2>2. /\ th' \in [Files -> ThType] /\ th'[f].pc = "ready"
        /\ \A g \in Files : g # f => th'[g] = th[g]
    BY <1>1, <2>1, GotoEffect
  <2>3. EvTypeOK'
    BY <1>1, <1>2, <2>1, <2>2 DEF EvTypeOK
  <2>4. FileOK(f)'
    BY <2>2 DEF FileOK
  <2> QED
    BY <1>2, <2>1, <2>2, <2>3, <2>4, ThreadStep
<1>5. CASE ReadTake(f)
  <2> DEFINE E == pending[f] \cap pending_mask[f]
  <2>1. th[f].pc = "take" /\ UNCHANGED <<pending, shared>>
    BY <1>5 DEF ReadTake, At
  <2>2. /\ th' \in [Files -> ThType]
        /\ th'[f].pc = "clear" /\ th'[f].events = E
        /\ \A g \in Files : g # f => th'[g] = th[g]
        /\ due' = [due EXCEPT ![f] = due[f] \ E]
    BY <1>1, <1>5, ReadTakeEffect
  <2>3. EvTypeOK'
    BY <1>1, <1>2, <2>1, <2>2 DEF EvTypeOK
  <2>4. use # "debug" /\ shared[f] = {} =>
          IF all_events[f] THEN E = pending_mask[f] ELSE E # {}
    BY <1>1, <2>1 DEF FileOK, ARE_REQUESTED_EVENTS_PENDING
  <2>5. FileOK(f)'
    BY <1>2, <2>1, <2>2, <2>4 DEF FileOK
  <2> QED
    BY <1>2, <2>1, <2>2, <2>3, <2>5, ThreadStep
<1>6. CASE ReadLoad(f)
  <2>1. th[f].pc = "clear" /\ UNCHANGED <<pending, due, shared>>
    BY <1>6 DEF ReadLoad, At
  <2>2. /\ th' \in [Files -> ThType]
        /\ th'[f].pc = "store" /\ th'[f].events = th[f].events
        /\ \A g \in Files : g # f => th'[g] = th[g]
    BY <1>1, <1>6, ReadLoadEffect
  <2>3. EvTypeOK'
    BY <1>1, <1>2, <2>1, <2>2 DEF EvTypeOK
  <2>4. FileOK(f)'
    BY <1>1, <1>2, <2>1, <2>2 DEF FileOK
  <2> QED
    BY <1>2, <2>1, <2>2, <2>3, <2>4, ThreadStep
<1>7. ASSUME NEW e \in EventBits, ReadStore(f, e) PROVE EvCore'
  <2>1. th[f].pc = "store" /\ UNCHANGED <<due, shared>>
    BY <1>7 DEF ReadStore, At
  <2>2. /\ th' \in [Files -> ThType]
        /\ th'[f].pc = "clear" /\ th'[f].events = th[f].events
        /\ \A g \in Files : g # f => th'[g] = th[g]
        /\ pending' = [pending EXCEPT ![f] = th[f].word \ {e}]
        /\ th[f].word \ {e} \in SUBSET EventBits
    BY <1>1, <1>7, ReadStoreEffect
  <2>3. EvTypeOK'
    BY <1>1, <1>2, <2>1, <2>2 DEF EvTypeOK
  <2>4. FileOK(f)'
    BY <1>1, <1>2, <2>1, <2>2 DEF FileOK
  <2>5. \A g \in Files : g # f => pending'[g] = pending[g]
    BY <1>1, <2>2 DEF EvTypeOK
  <2> QED
    BY <1>2, <2>1, <2>2, <2>3, <2>4, <2>5, ThreadStep
<1>8. CASE ReadReturn(f)
  <2>1. th[f].pc = "clear" /\ UNCHANGED <<pending, due, shared>>
    BY <1>8 DEF ReadReturn, At
  <2>2. /\ th' \in [Files -> ThType] /\ th'[f].pc = "ready"
        /\ \A g \in Files : g # f => th'[g] = th[g]
    BY <1>1, <1>8, ReadReturnEffect
  <2>3. EvTypeOK'
    BY <1>1, <1>2, <2>1, <2>2 DEF EvTypeOK
  <2>4. FileOK(f)'
    BY <2>2 DEF FileOK
  <2> QED
    BY <1>2, <2>1, <2>2, <2>3, <2>4, ThreadStep
<1> QED
  BY <1>3, <1>4, <1>5, <1>6, <1>7, <1>8, Zenon DEF Read

-----------------------------------------------------------------------------
(* The second thread's steps.                                              *)

LEMMA StoreEffect ==
  ASSUME other \in OtherType, NEW f, NEW e, OtherStore(f, e)
  PROVE  /\ other' \in OtherType /\ other'.pc = "clear"
         /\ other'.file = other.file
<1> DEFINE T == other.todo \ {e}
<1>1. other' = [other EXCEPT !.pc = "clear", !.todo = T, !.word = {}]
  BY Zenon DEF OtherStore
<1>2. T \in SUBSET EventBits /\ {} \in SUBSET EventBits
  BY DEF OtherType
<1> HIDE DEF T
<1> QED
  BY <1>1, <1>2, Zenon DEF OtherType

LEMMA OtherEffect ==
  ASSUME EvTypeOK, Other
  PROVE  /\ other' \in OtherType
         /\ shared' \in [Files -> SUBSET {"took", "wrote"}]
         /\ UNCHANGED <<use, PENDING_REG, raised, irq_depth, opened, filelist,
                        th, isr, trig, cut, due>>
<1>1. UNCHANGED <<use, PENDING_REG, raised, irq_depth, opened, filelist,
                  th, isr, trig, cut, due>>
  BY Zenon DEF Other, OtherWait, OtherTake, OtherLoad, OtherStore, OtherReturn,
     OtherWrite
<1>2. shared' \in [Files -> SUBSET {"took", "wrote"}]
  <2>1. \/ shared' = shared
        \/ \E f \in Files : shared' = [shared EXCEPT ![f] = @ \cup {"took"}]
        \/ \E f \in Files : shared' = [shared EXCEPT ![f] = @ \cup {"wrote"}]
    BY Zenon DEF Other, OtherWait, OtherTake, OtherLoad, OtherStore,
       OtherReturn, OtherWrite
  <2>2. shared \in [Files -> SUBSET {"took", "wrote"}]
    BY DEF EvTypeOK
  <2> QED
    BY <2>1, <2>2
<1>3. other \in OtherType
  BY DEF EvTypeOK
<1>4. other' \in OtherType
  <2>1. ASSUME NEW f \in Files, OtherWait(f) PROVE other' \in OtherType
    <3>1. other' = [OtherIdle EXCEPT !.pc = "take", !.file = f]
      BY <2>1, Zenon DEF OtherWait
    <3>2. f \in Files \cup {"none"}
      OBVIOUS
    <3> QED
      BY <3>1, <3>2, InitialRecords, Zenon DEF OtherType
  <2>2. ASSUME NEW f \in Files, OtherTake(f) PROVE other' \in OtherType
    <3> DEFINE E == pending[f] \cap pending_mask[f]
    <3>1. other' = [other EXCEPT !.pc = "clear", !.todo = E]
      BY <2>2, Zenon DEF OtherTake
    <3>2. E \in SUBSET EventBits
      BY DEF EvTypeOK
    <3> HIDE DEF E
    <3> QED
      BY <1>3, <3>1, <3>2, Zenon DEF OtherType
  <2>3. ASSUME NEW f \in Files, OtherLoad(f) PROVE other' \in OtherType
    <3>1. other' = [other EXCEPT !.pc = "store", !.word = pending[f]]
      BY <2>3, Zenon DEF OtherLoad
    <3>2. pending[f] \in SUBSET EventBits
      BY DEF EvTypeOK
    <3> QED
      BY <1>3, <3>1, <3>2, Zenon DEF OtherType
  <2>4. ASSUME NEW f \in Files, NEW e \in EventBits, OtherStore(f, e)
        PROVE  other' \in OtherType
    BY <1>3, <2>4, StoreEffect
  <2>5. CASE OtherReturn
    BY <2>5, InitialRecords DEF OtherReturn
  <2>6. ASSUME NEW f \in Files, NEW mask \in Masks, NEW all \in WaitForAll,
               OtherWrite(f, mask, all)
        PROVE  other' \in OtherType
    BY <1>3, <2>6 DEF OtherWrite
  <2> QED
    BY <2>1, <2>2, <2>3, <2>4, <2>5, <2>6, Zenon DEF Other
<1> QED
  BY <1>1, <1>2, <1>4

(* Its step on one file's fields: only a store and a write change them,    *)
(* and it is noted that they did.                                          *)
LEMMA OtherFields ==
  ASSUME EvInv, Other
  PROVE  /\ pending' \in [Files -> SUBSET EventBits]
         /\ pending_mask' \in [Files -> SUBSET EventBits]
         /\ all_events' \in [Files -> BOOLEAN] /\ MASK_REG' \subseteq EventBits
         /\ \A g \in Files :
              /\ shared[g] \subseteq shared'[g]
              /\ pending'[g] \subseteq pending[g]
              /\ pending'[g] # pending[g] => shared'[g] # {}
              /\ \/ /\ pending_mask'[g] = pending_mask[g]
                    /\ all_events'[g] = all_events[g]
                 \/ "wrote" \in shared'[g]
<1>1. EvTypeOK /\ OneClears
  BY DEF EvInv, EvCore
<1>2. ASSUME UNCHANGED <<pending, pending_mask, all_events, MASK_REG, shared>>
      PROVE  /\ pending' \in [Files -> SUBSET EventBits]
             /\ pending_mask' \in [Files -> SUBSET EventBits]
             /\ all_events' \in [Files -> BOOLEAN]
             /\ MASK_REG' \subseteq EventBits
             /\ \A g \in Files :
                  /\ shared[g] \subseteq shared'[g]
                  /\ pending'[g] \subseteq pending[g]
                  /\ pending'[g] # pending[g] => shared'[g] # {}
                  /\ pending_mask'[g] = pending_mask[g]
                  /\ all_events'[g] = all_events[g]
  BY <1>1, <1>2 DEF EvTypeOK
<1>3. ASSUME NEW f \in Files, NEW e \in EventBits, OtherStore(f, e)
      PROVE  /\ pending' \in [Files -> SUBSET EventBits]
             /\ pending_mask' \in [Files -> SUBSET EventBits]
             /\ all_events' \in [Files -> BOOLEAN]
             /\ MASK_REG' \subseteq EventBits
             /\ \A g \in Files :
                  /\ shared[g] \subseteq shared'[g]
                  /\ pending'[g] \subseteq pending[g]
                  /\ pending'[g] # pending[g] => shared'[g] # {}
                  /\ pending_mask'[g] = pending_mask[g]
                  /\ all_events'[g] = all_events[g]
  <2>1. /\ pending' = [pending EXCEPT ![f] = other.word \ {e}]
        /\ shared' = [shared EXCEPT ![f] = shared[f] \cup {"took"}]
        /\ UNCHANGED <<pending_mask, all_events, MASK_REG>>
        /\ other.pc = "store" /\ other.file = f
    BY <1>3, Zenon DEF OtherStore
  <2>2. other.word \subseteq pending[f]
    BY <1>1, <2>1 DEF OneClears
  <2> QED
    BY <1>1, <2>1, <2>2 DEF EvTypeOK
<1>4. ASSUME NEW f \in Files, NEW mask \in Masks, NEW all \in WaitForAll,
             OtherWrite(f, mask, all)
      PROVE  /\ pending' \in [Files -> SUBSET EventBits]
             /\ pending_mask' \in [Files -> SUBSET EventBits]
             /\ all_events' \in [Files -> BOOLEAN]
             /\ MASK_REG' \subseteq EventBits
             /\ \A g \in Files :
                  /\ shared[g] \subseteq shared'[g]
                  /\ pending'[g] \subseteq pending[g]
                  /\ pending'[g] # pending[g] => shared'[g] # {}
                  /\ \/ /\ pending_mask'[g] = pending_mask[g]
                        /\ all_events'[g] = all_events[g]
                     \/ "wrote" \in shared'[g]
  <2>1. /\ pending_mask' = [pending_mask EXCEPT ![f] = mask]
        /\ all_events' = [all_events EXCEPT ![f] = all]
        /\ MASK_REG' = MASK_REG \cup mask /\ pending' = pending
        /\ shared' = [shared EXCEPT ![f] = shared[f] \cup {"wrote"}]
    BY <1>4, Zenon DEF OtherWrite
  <2>2. mask \in SUBSET EventBits /\ all \in BOOLEAN
    BY EvAssumption
  <2> QED
    BY <1>1, <2>1, <2>2 DEF EvTypeOK
<1>5. \/ UNCHANGED <<pending, pending_mask, all_events, MASK_REG, shared>>
      \/ \E f \in Files, e \in EventBits : OtherStore(f, e)
      \/ \E f \in Files, mask \in Masks, all \in WaitForAll :
           OtherWrite(f, mask, all)
  BY Zenon DEF Other, OtherWait, OtherTake, OtherLoad, OtherReturn
<1> QED
  BY <1>2, <1>3, <1>4, <1>5, Zenon

LEMMA OtherStep ==
  ASSUME EvInv, Other
  PROVE  EvCore'
<1>1. EvTypeOK /\ TrigBusy /\ \A f \in Files : FileOK(f)
  BY FilesOK DEF EvInv, EvCore
<1>2. UNCHANGED <<use, PENDING_REG, raised, irq_depth, opened, filelist, th,
                  isr, trig, cut, due>>
  BY <1>1, OtherEffect
<1>3. EvTypeOK'
  BY <1>1, <1>2, OtherEffect, OtherFields DEF EvTypeOK
<1>4. ListIsOpenFiles' /\ TrigBusy'
  BY <1>2, ListFrame DEF EvInv, EvCore
<1>5. \A f \in Files : FileOK(f)'
  <2> SUFFICES ASSUME NEW f \in Files PROVE FileOK(f)'
    OBVIOUS
  <2>1. /\ shared[f] \subseteq shared'[f]
        /\ pending'[f] \subseteq pending[f]
        /\ pending'[f] # pending[f] => shared'[f] # {}
        /\ \/ /\ pending_mask'[f] = pending_mask[f]
              /\ all_events'[f] = all_events[f]
           \/ "wrote" \in shared'[f]
    BY OtherFields
  <2>2. CASE "wrote" \in shared'[f]
    BY <2>2 DEF FileOK
  <2>3. CASE /\ pending_mask'[f] = pending_mask[f]
             /\ all_events'[f] = all_events[f]
    <3>1. ARE_REQUESTED_EVENTS_PENDING(f, pending[f])'
            => ARE_REQUESTED_EVENTS_PENDING(f, pending[f])
      BY <2>1, <2>3 DEF ARE_REQUESTED_EVENTS_PENDING
    <3>2. CASE pending'[f] = pending[f]
      BY <1>1, <1>2, <2>1, <2>3, <3>2, SameFile
    <3>3. CASE pending'[f] # pending[f]
      <4>1. shared'[f] # {} /\ FileOK(f)
        BY <1>1, <2>1, <3>3
      <4>2. "wrote" \notin shared'[f] => "wrote" \notin shared[f]
        BY <2>1
      <4> HIDE DEF ARE_REQUESTED_EVENTS_PENDING
      <4> QED
        BY <1>2, <3>1, <4>1, <4>2 DEF FileOK
    <3> QED
      BY <3>2, <3>3
  <2> QED
    BY <2>1, <2>2, <2>3
<1> QED
  BY <1>3, <1>4, <1>5, FilesOKNext DEF EvInv, EvCore

LEMMA CoreStep == EvInv /\ [EvNext]_evars => EvCore'
<1> SUFFICES ASSUME EvInv, [EvNext]_evars PROVE EvCore'
  OBVIOUS
<1>1. CASE UNCHANGED evars
  <2>1. EvTypeOK'
    BY <1>1 DEF evars, EvInv, EvCore, EvTypeOK
  <2> QED
    BY <1>1, <2>1, QuietStep DEF evars
<1>2. CASE EvNext
  <2>1. CASE Isr
    BY <2>1, IsrRegisterStep, WakeUpStep, Zenon DEF Isr
  <2>2. CASE \E e \in EventBits : Raise(e)
    BY <2>2, RaiseStep, Zenon
  <2>3. CASE \E f \in Files :
               \/ events_open(f) \/ events_open_nomem(f) \/ events_release(f)
               \/ events_release_interrupted(f)
               \/ \E mask \in Masks, all \in WaitForAll :
                    events_write(f, mask, all)
               \/ Read(f) \/ ReadInterrupted(f)
    BY <2>3, OpenStep, OpenNomemStep, ReleaseStep, WriteStep, ReadStep, Zenon
  <2> QED
    BY <1>2, <2>1, <2>2, <2>3, TriggerStep, OtherStep, Zenon DEF EvNext
<1> QED
  BY <1>1, <1>2

-----------------------------------------------------------------------------
(* dev->sem: one thread at a time clears events.                           *)

(* A step of no thread and not of debugfs: pending events only grow.       *)
LEMMA OneClearsFrame ==
  ASSUME EvInv, UNCHANGED <<use, other>>,
         filelist \subseteq filelist',
         \A f \in Files : /\ th'[f].pc \in {"clear", "store"}
                               => th[f].pc \in {"clear", "store"}
                          /\ f \in filelist => pending[f] \subseteq pending'[f]
  PROVE  OneClears'
<1>1. EvTypeOK /\ OneClears
  BY DEF EvInv, EvCore
<1>2. other.pc # "idle" => use' = "shared" /\ other.file \in filelist'
  BY <1>1 DEF OneClears
<1>3. other.pc \in {"clear", "store"} =>
        \A f \in Files : th'[f].pc \notin {"clear", "store"}
  BY <1>1 DEF OneClears
<1>4. other.pc = "store" => other.word \subseteq pending'[other.file]
  BY <1>1 DEF OneClears, EvTypeOK
<1>5. other.pc = "idle" => other = OtherIdle
  BY <1>1 DEF OneClears
<1> QED
  BY <1>2, <1>3, <1>4, <1>5 DEF OneClears, OtherIdle

(* A step of a thread while the second one is not in its section.          *)
LEMMA OneClearsOut ==
  ASSUME EvInv, UNCHANGED <<use, other>>,
         other.pc \notin {"clear", "store"},
         other.file \in filelist => other.file \in filelist'
  PROVE  OneClears'
<1>1. OneClears
  BY DEF EvInv
<1>2. other.pc # "idle" => use' = "shared" /\ other.file \in filelist'
  BY <1>1 DEF OneClears
<1>3. other.pc = "idle" => other = OtherIdle
  BY <1>1 DEF OneClears
<1> QED
  BY <1>2, <1>3 DEF OneClears, OtherIdle

LEMMA OneClearsTrigger ==
  ASSUME EvInv, Trigger
  PROVE  OneClears'
<1>1. UNCHANGED <<use, other, filelist>>
  BY Zenon DEF Trigger, trigger_set, TriggerLoad, TriggerStore, TriggerWake,
     TriggerEnd, TriggerWild
<1>2. use = "debug"
  <2>1. TrigBusy
    BY DEF EvInv, EvCore
  <2> QED
    BY <2>1 DEF Trigger, trigger_set, TriggerLoad, TriggerStore, TriggerWake,
       TriggerEnd, TriggerWild, TrigBusy
<1>3. other.pc \notin {"clear", "store"}
  BY <1>2 DEF EvInv, OneClears
<1> QED
  BY <1>1, <1>3, OneClearsOut

LEMMA OneClearsFile ==
  ASSUME EvInv, NEW f \in Files,
         \/ events_open(f) \/ events_open_nomem(f) \/ events_release(f)
         \/ events_release_interrupted(f)
         \/ \E mask \in Masks, all \in WaitForAll : events_write(f, mask, all)
  PROVE  OneClears'
<1>1. EvTypeOK /\ ListIsOpenFiles
  BY DEF EvInv, EvCore
<1>2. CASE events_open(f)
  BY <1>2, OneClearsOut DEF events_open, SemFree
<1>3. CASE events_open_nomem(f)
  BY <1>3, OneClearsOut DEF events_open_nomem, SemFree
<1>4. CASE events_release(f)
  BY <1>4, OneClearsOut DEF events_release, SemFree, Unused
<1>5. CASE events_release_interrupted(f)
  <2>1. use = "any"
    BY <1>5 DEF events_release_interrupted
  <2>2. other.pc = "idle" /\ UNCHANGED <<use, other>>
    BY <1>5, <2>1 DEF EvInv, OneClears, events_release_interrupted
  <2>3. (other.pc = "idle" /\ other = OtherIdle)'
    BY <2>2 DEF EvInv, OneClears, OtherIdle
  <2> QED
    BY <2>3 DEF OneClears
<1>6. ASSUME NEW mask \in Masks, NEW all \in WaitForAll,
             events_write(f, mask, all)
      PROVE  OneClears'
  BY <1>6, OneClearsOut DEF events_write, SemFree
<1> QED
  BY <1>2, <1>3, <1>4, <1>5, <1>6

LEMMA OneClearsRead ==
  ASSUME EvInv, NEW f \in Files, Read(f) \/ ReadInterrupted(f)
  PROVE  OneClears'
<1>1. EvTypeOK
  BY DEF EvInv, EvCore
<1>2. UNCHANGED <<use, other, filelist>>
  BY Zenon DEF Read, ReadWait, ReadInterrupted, ReadTake, ReadLoad, ReadStore,
     ReadReturn
<1>3. ASSUME NEW l \in {"ready", "take", "asleep"}, Goto(f, l),
             pending' = pending
      PROVE  OneClears'
  <2>1. th'[f].pc = l /\ \A g \in Files : g # f => th'[g] = th[g]
    BY <1>1, <1>3, GotoEffect
  <2> QED
    BY <1>2, <1>3, <2>1, OneClearsFrame
<1>4. CASE ReadWait(f)
  <2>1. \E l \in {"ready", "take", "asleep"} : Goto(f, l)
    BY <1>4 DEF ReadWait
  <2> QED
    BY <1>3, <1>4, <2>1 DEF ReadWait
<1>5. CASE ReadInterrupted(f)
  BY <1>3, <1>5 DEF ReadInterrupted
<1>6. CASE ReadTake(f)
  BY <1>2, <1>6, OneClearsOut DEF ReadTake, SemFree
<1>7. CASE ReadLoad(f) \/ (\E e \in EventBits : ReadStore(f, e))
             \/ ReadReturn(f)
  <2>1. th[f].pc \in {"clear", "store"}
    BY <1>7 DEF ReadLoad, ReadStore, ReadReturn, At
  <2>2. other.pc \notin {"clear", "store"}
    BY <2>1 DEF EvInv, OneClears
  <2> QED
    BY <1>2, <2>2, OneClearsOut
<1> QED
  BY <1>4, <1>5, <1>6, <1>7, Zenon DEF Read

LEMMA OneClearsOther ==
  ASSUME EvInv, Other
  PROVE  OneClears'
<1>1. EvTypeOK /\ OneClears
  BY DEF EvInv, EvCore
<1>2. UNCHANGED <<use, filelist, th>> /\ other' \in OtherType
  BY <1>1, OtherEffect
<1>3. other \in OtherType
  BY <1>1 DEF EvTypeOK
<1>4. ASSUME NEW f \in Files, OtherWait(f) PROVE OneClears'
  <2>1. /\ other' = [OtherIdle EXCEPT !.pc = "take", !.file = f]
        /\ use = "shared" /\ f \in filelist
    BY <1>4, Zenon DEF OtherWait, OtherMay
  <2>2. other'.pc = "take" /\ other'.file = f
    BY <2>1, InitialRecords, Zenon DEF OtherType
  <2> QED
    BY <1>2, <2>1, <2>2 DEF OneClears
<1>5. ASSUME NEW f \in Files, OtherTake(f) PROVE OneClears'
  <2>1. /\ other' = [other EXCEPT !.pc = "clear",
                                  !.todo = pending[f] \cap pending_mask[f]]
        /\ use = "shared" /\ f \in filelist /\ other.file = f /\ SemFree
    BY <1>5, Zenon DEF OtherTake, OtherMay
  <2>2. other'.pc = "clear" /\ other'.file = f
    BY <1>3, <2>1, Zenon DEF OtherType
  <2>3. \A g \in Files : th'[g].pc \notin {"clear", "store"}
    BY <1>2, <2>1 DEF SemFree
  <2> QED
    BY <1>2, <2>1, <2>2, <2>3 DEF OneClears
<1>6. ASSUME NEW f \in Files, OtherLoad(f) PROVE OneClears'
  <2>1. /\ other' = [other EXCEPT !.pc = "store", !.word = pending[f]]
        /\ other.pc = "clear" /\ other.file = f /\ pending' = pending
    BY <1>6, Zenon DEF OtherLoad
  <2>2. other'.pc = "store" /\ other'.file = f /\ other'.word = pending[f]
    BY <1>3, <2>1, Zenon DEF OtherType
  <2> QED
    BY <1>1, <1>2, <2>1, <2>2 DEF OneClears
<1>7. ASSUME NEW f \in Files, NEW e \in EventBits, OtherStore(f, e)
      PROVE  OneClears'
  <2>1. other.pc = "store" /\ other.file = f
    BY <1>7 DEF OtherStore
  <2>2. other'.pc = "clear" /\ other'.file = f
    BY <1>3, <1>7, <2>1, StoreEffect
  <2> QED
    BY <1>1, <1>2, <2>1, <2>2 DEF OneClears
<1>8. CASE OtherReturn
  <2>1. (other = OtherIdle /\ other.pc = "idle")'
    BY <1>8 DEF OtherReturn, OtherIdle
  <2> QED
    BY <2>1 DEF OneClears
<1>9. ASSUME NEW f \in Files, NEW mask \in Masks, NEW all \in WaitForAll,
             OtherWrite(f, mask, all)
      PROVE  OneClears'
  <2>1. other = OtherIdle /\ other' = other
    BY <1>9 DEF OtherWrite
  <2>2. (other = OtherIdle /\ other.pc = "idle")'
    BY <2>1 DEF OtherIdle
  <2> QED
    BY <2>2 DEF OneClears
<1> QED
  BY <1>4, <1>5, <1>6, <1>7, <1>8, <1>9, Zenon DEF Other

LEMMA OneClearsStep == EvInv /\ [EvNext]_evars => OneClears'
<1> SUFFICES ASSUME EvInv, [EvNext]_evars PROVE OneClears'
  OBVIOUS
<1>1. CASE UNCHANGED evars
  BY <1>1, OneClearsFrame DEF evars
<1>2. CASE EvNext
  <2>1. CASE IsrEnter \/ IsrClear \/ IsrMask
    BY <2>1, OneClearsFrame DEF IsrEnter, IsrClear, IsrMask
  <2>2. ASSUME NEW e \in EventBits, events_wake_up(e) PROVE OneClears'
    <3>1. UNCHANGED <<use, other, filelist>>
      BY <2>2, Zenon DEF events_wake_up
    <3>2. EvTypeOK /\ filelist \subseteq Files
      BY DEF EvInv, EvCore, EvTypeOK
    <3>3. \A f \in Files :
            /\ th'[f].pc \in {"clear", "store"}
                 => th[f].pc \in {"clear", "store"}
            /\ f \in filelist => pending[f] \subseteq pending'[f]
      BY <2>2, <3>2, WakeUpEffect
    <3> QED
      BY <3>1, <3>3, OneClearsFrame
  <2>3. CASE \E e \in EventBits : Raise(e)
    BY <2>3, OneClearsFrame DEF Raise
  <2>4. CASE \E f \in Files :
               \/ events_open(f) \/ events_open_nomem(f) \/ events_release(f)
               \/ events_release_interrupted(f)
               \/ \E mask \in Masks, all \in WaitForAll :
                    events_write(f, mask, all)
               \/ Read(f) \/ ReadInterrupted(f)
    BY <2>4, OneClearsFile, OneClearsRead, Zenon
  <2> QED
    BY <1>2, <2>1, <2>2, <2>3, <2>4, OneClearsTrigger, OneClearsOther, Zenon
    DEF EvNext, Isr
<1> QED
  BY <1>1, <1>2

LEMMA EvStep == EvInv /\ [EvNext]_evars => EvInv'
  BY CoreStep, OneClearsStep DEF EvInv

-----------------------------------------------------------------------------
(* The list the handler walks is the open files, and                       *)
(* BUG_ON(dev->opened < 0) (events.c:257) never fires.                     *)
THEOREM EvListIsOpenFiles == EvSpec => []ListIsOpenFiles
<1>1. EvInv => ListIsOpenFiles
  BY DEF EvInv, EvCore
<1> QED
  BY <1>1, EvStart, EvStep, PTL DEF EvSpec

(* No wake-up is lost between a reader's test and its sleep, on one CPU or *)
(* several (events.c:143-150, 337-340).                                    *)
THEOREM EvNoSleepOnReady == EvSpec => []NoSleepOnReady
<1>1. EvInv => NoSleepOnReady
  BY DEF EvInv, EvCore
<1> QED
  BY <1>1, EvStart, EvStep, PTL DEF EvSpec

(* A read that returns reports what was asked for (events.c:343-356),      *)
(* unless a second thread used the file while it ran.                      *)
THEOREM EvReadReports == EvSpec => []ReadReports
<1>1. EvInv => ReadReports
  BY DEF EvInv, EvCore
<1> QED
  BY <1>1, EvStart, EvStep, PTL DEF EvSpec
-----------------------------------------------------------------------------
(* The paced use on one CPU.  What PacedInv says when the use is paced.    *)
PacedOK ==
  /\ \A f \in Files : PacedFile(f)
  /\ filelist = {} => isr = IsrIdle /\ MASK_REG = {}
  /\ isr.pc # "wake" => isr.todo = {}
  /\ isr.pc = "idle" => isr = IsrIdle
  /\ NoEventLost

LEMMA IdleFields ==
  IsrIdle.pc = "idle" /\ IsrIdle.snap = {} /\ IsrIdle.todo = {}
  BY DEF IsrIdle

(* A file that is not open.                                                *)
LEMMA ClosedFile ==
  ASSUME NEW g \in Files, g \notin filelist, th[g].pc = "closed",
         due[g] = {}, ~ all_events[g]
  PROVE  PacedFile(g)
  BY DEF PacedFile, Waiting

(* At most one file is open: the others are closed, and owed nothing.      *)
LEMMA OnlyFile ==
  ASSUME PacedOK, ListIsOpenFiles, NEW f \in Files, th[f].pc # "closed",
         NEW g \in Files, g # f
  PROVE  /\ g \notin filelist /\ th[g].pc = "closed" /\ due[g] = {}
         /\ ~ all_events[g] /\ filelist = {f}
<1>1. f \in filelist /\ filelist \subseteq Files
  BY DEF ListIsOpenFiles
<1>2. PacedFile(f) /\ PacedFile(g)
  BY DEF PacedOK
<1>3. g \notin filelist /\ filelist = {f}
  BY <1>1, <1>2 DEF PacedFile
<1> QED
  BY <1>2, <1>3 DEF PacedFile, ListIsOpenFiles

(* A step of the thread of the one open file.                              *)
LEMMA PacedThread ==
  ASSUME PacedOK, ListIsOpenFiles, NEW f \in Files, th[f].pc # "closed",
         \A g \in Files : g # f => /\ th'[g] = th[g] /\ due'[g] = due[g]
                                   /\ all_events'[g] = all_events[g],
         UNCHANGED <<filelist, isr>>,
         PacedFile(f)',
         due'[f] \subseteq PENDING_REG' \cup isr'.todo \cup pending'[f]
  PROVE  PacedOK'
<1>1. \A g \in Files : g # f => PacedFile(g)' /\ due'[g] = {}
  <2> SUFFICES ASSUME NEW g \in Files, g # f
               PROVE  PacedFile(g)' /\ due'[g] = {}
    OBVIOUS
  <2>1. /\ g \notin filelist /\ th[g].pc = "closed" /\ due[g] = {}
        /\ ~ all_events[g]
    BY OnlyFile
  <2>2. /\ g \notin filelist' /\ th'[g].pc = "closed" /\ due'[g] = {}
        /\ ~ all_events'[g]
    BY <2>1
  <2> QED
    BY <2>2 DEF PacedFile, Waiting
<1>2. f \in filelist
  BY DEF ListIsOpenFiles
<1>3. \A g \in Files : PacedFile(g)'
  BY <1>1
<1>4. NoEventLost'
  BY <1>1 DEF NoEventLost
<1>5. filelist' # {}
  BY <1>2
<1>6. isr'.pc # "wake" => isr'.todo = {}
  BY DEF PacedOK
<1>7. isr'.pc = "idle" => isr' = IsrIdle
  BY DEF PacedOK
<1> QED
  BY <1>3, <1>4, <1>5, <1>6, <1>7 DEF PacedOK, IsrIdle

LEMMA PacedStart == EvInit => PacedInv
<1> SUFFICES ASSUME EvInit PROVE PacedOK
  BY Zenon DEF PacedInv, PacedOK
<1>1. \A f \in Files : PacedFile(f)
  <2>1. \A f \in Files : /\ f \notin filelist /\ th[f].pc = "closed"
                         /\ due[f] = {} /\ ~ all_events[f]
    BY DEF EvInit, Closed
  <2> QED
    BY <2>1, ClosedFile
<1>2. NoEventLost
  BY DEF EvInit, NoEventLost
<1> QED
  BY <1>1, <1>2, IdleFields DEF EvInit, PacedOK

LEMMA PacedRaise ==
  ASSUME EvInv, PacedOK, NEW e \in EventBits, Raise(e)
  PROVE  PacedOK'
<1>1. /\ PENDING_REG' = PENDING_REG \cup {e}
      /\ due' = [f \in Files |-> due[f] \cup {x \in Owed({e}) : f \in filelist}]
      /\ UNCHANGED <<use, MASK_REG, filelist, pending, pending_mask, all_events,
                     th, isr>>
  BY Zenon DEF Raise
<1>2. \A f \in Files : /\ f \notin filelist => due'[f] = due[f]
                       /\ due'[f] \subseteq due[f] \cup {e}
  BY <1>1 DEF Owed
<1>3. NoEventLost'
  BY <1>1, <1>2 DEF PacedOK, NoEventLost
<1>4. \A f \in Files : PacedFile(f)'
  <2> SUFFICES ASSUME NEW f \in Files PROVE PacedFile(f)'
    OBVIOUS
  <2>1. PacedFile(f)
    BY DEF PacedOK
  <2>2. th[f].pc \in {"clear", "store"} =>
          due'[f] \cap th[f].todo \subseteq PENDING_REG'
    BY <1>1, <1>2, <2>1 DEF PacedFile
  <2> QED
    BY <1>1, <1>2, <2>1, <2>2 DEF PacedFile, Waiting, IsrIdle
<1> QED
  BY <1>1, <1>3, <1>4 DEF PacedOK, IsrIdle

(* The handler runs only while the reader waits: events were enabled.      *)
LEMMA PacedEnter ==
  ASSUME EvInv, PacedOK, IsrEnter
  PROVE  PacedOK'
<1>1. /\ isr = IsrIdle /\ PENDING_REG \cap MASK_REG # {}
      /\ isr' = [pc |-> "wake", snap |-> PENDING_REG, todo |-> PENDING_REG]
      /\ UNCHANGED <<use, PENDING_REG, MASK_REG, filelist, pending,
                     pending_mask, all_events, th, due>>
  BY Zenon DEF IsrEnter
<1>2. isr'.pc = "wake" /\ isr'.snap = PENDING_REG /\ isr'.todo = PENDING_REG
  BY <1>1
<1>3. MASK_REG # {} /\ filelist # {} /\ isr' # IsrIdle
  BY <1>1, <1>2, IdleFields DEF PacedOK
<1>4. \A f \in Files : PacedFile(f)'
  <2> SUFFICES ASSUME NEW f \in Files PROVE PacedFile(f)'
    OBVIOUS
  <2>1. PacedFile(f)
    BY DEF PacedOK
  <2>2. (isr # IsrIdle)'
    BY <1>3 DEF IsrIdle
  <2> QED
    BY <1>1, <1>2, <1>3, <2>1, <2>2 DEF PacedFile, Waiting
<1>5. NoEventLost'
  BY <1>1, <1>2, IdleFields DEF PacedOK, NoEventLost
<1> QED
  BY <1>1, <1>2, <1>3, <1>4, <1>5 DEF PacedOK

LEMMA PacedWakeUp ==
  ASSUME EvInv, PacedOK, NEW e \in EventBits, events_wake_up(e)
  PROVE  PacedOK'
<1>1. EvTypeOK
  BY DEF EvInv, EvCore
<1>2. /\ isr'.pc = "wake" /\ isr'.snap = isr.snap
      /\ isr'.todo = isr.todo \ {e} /\ isr.pc = "wake" /\ e \in isr.todo
      /\ \A f \in filelist : pending'[f] = pending[f] \cup {e}
      /\ \A f \in Files : f \notin filelist => pending'[f] = pending[f]
  BY <1>1, WakeUpEffect
<1>3. UNCHANGED <<use, PENDING_REG, MASK_REG, filelist, pending_mask,
                  all_events, due>>
  BY Zenon DEF events_wake_up
<1>4. isr # IsrIdle /\ isr' # IsrIdle
  BY <1>2, IdleFields
<1>5. (isr # IsrIdle)'
  BY <1>4 DEF IsrIdle
<1>6. \A f \in Files : PacedFile(f)'
  <2> SUFFICES ASSUME NEW f \in Files PROVE PacedFile(f)'
    OBVIOUS
  <2>1. PacedFile(f) /\ (f \in filelist <=> th[f].pc # "closed")
    BY DEF PacedOK, EvInv, EvCore, ListIsOpenFiles
  <2>2. th'[f] = th[f] \/ (th[f].pc = "asleep" /\ th'[f].pc = "woken")
    BY <1>1, WakeUpEffect
  <2>3. f \in filelist => th[f].pc \in {"read", "asleep", "woken"}
    BY <1>4, <2>1 DEF PacedFile, Waiting
  <2>4. /\ f \in filelist => th'[f].pc \in {"read", "asleep", "woken"}
        /\ f \notin filelist => th'[f].pc = "closed"
    BY <2>1, <2>2, <2>3
  <2>5. f \in filelist => isr'.snap \ isr'.todo \subseteq pending'[f]
    BY <1>2, <2>1 DEF PacedFile
  <2>6. th'[f].pc \notin {"closed", "ready"} => pending_mask[f] = PacedMask
    BY <2>1, <2>3, <2>4 DEF PacedFile
  <2> QED
    BY <1>3, <1>5, <2>1, <2>4, <2>5, <2>6 DEF PacedFile, Waiting
<1>7. NoEventLost'
  <2> SUFFICES ASSUME NEW f \in Files
               PROVE  due'[f] \subseteq PENDING_REG' \cup isr'.todo \cup pending'[f]
    BY DEF NoEventLost
  <2>1. due[f] \subseteq PENDING_REG \cup isr.todo \cup pending[f]
    BY DEF PacedOK, NoEventLost
  <2>2. f \notin filelist => due[f] = {}
    BY DEF PacedOK, PacedFile
  <2> QED
    BY <1>2, <1>3, <2>1, <2>2
<1>8. filelist' # {}
  BY <1>3, <1>4 DEF PacedOK
<1> QED
  BY <1>2, <1>6, <1>7, <1>8 DEF PacedOK

LEMMA PacedClear ==
  ASSUME EvInv, PacedOK, IsrClear
  PROVE  PacedOK'
<1>1. /\ isr.pc = "wake" /\ isr.todo = {}
      /\ PENDING_REG' = PENDING_REG \ isr.snap
      /\ UNCHANGED <<use, MASK_REG, filelist, pending, pending_mask, all_events,
                     th, due>>
  BY Zenon DEF IsrClear
<1>2. isr'.pc = "mask" /\ isr'.todo = {}
  BY IsrClearEffect DEF EvInv, EvCore
<1>3. isr # IsrIdle /\ isr' # IsrIdle
  BY <1>1, <1>2, IdleFields
<1>4. (isr # IsrIdle)'
  BY <1>3 DEF IsrIdle
<1>5. \A f \in Files : PacedFile(f)'
  <2> SUFFICES ASSUME NEW f \in Files PROVE PacedFile(f)'
    OBVIOUS
  <2>1. PacedFile(f) /\ (f \in filelist <=> th[f].pc # "closed")
    BY DEF PacedOK, EvInv, EvCore, ListIsOpenFiles
  <2>2. f \in filelist => th[f].pc \in {"read", "asleep", "woken"}
    BY <1>3, <2>1 DEF PacedFile, Waiting
  <2> QED
    BY <1>1, <1>2, <1>4, <2>1, <2>2 DEF PacedFile, Waiting
<1>6. NoEventLost'
  <2> SUFFICES ASSUME NEW f \in Files
               PROVE  due'[f] \subseteq PENDING_REG' \cup isr'.todo \cup pending'[f]
    BY DEF NoEventLost
  <2>1. due[f] \subseteq PENDING_REG \cup isr.todo \cup pending[f]
    BY DEF PacedOK, NoEventLost
  <2>2. /\ f \notin filelist => due[f] = {}
        /\ f \in filelist => isr.snap \ isr.todo \subseteq pending[f]
    BY <1>1 DEF PacedOK, PacedFile
  <2> QED
    BY <1>1, <1>2, <2>1, <2>2
<1>7. filelist' # {}
  BY <1>1, <1>3 DEF PacedOK
<1> QED
  BY <1>2, <1>5, <1>6, <1>7 DEF PacedOK

LEMMA PacedMaskAll ==
  ASSUME EvInv, PacedOK, IsrMask
  PROVE  PacedOK'
<1>1. /\ isr.pc = "mask" /\ isr' = IsrIdle /\ MASK_REG' = {}
      /\ UNCHANGED <<use, PENDING_REG, filelist, pending, pending_mask,
                     all_events, th, due>>
  BY Zenon DEF IsrMask
<1>2. isr.todo = {} /\ isr'.pc = "idle" /\ isr'.todo = {} /\ (isr = IsrIdle)'
  BY <1>1, IdleFields DEF PacedOK, IsrIdle
<1>3. \A f \in Files : PacedFile(f)'
  BY <1>1, <1>2 DEF PacedOK, PacedFile, Waiting
<1>4. NoEventLost'
  BY <1>1, <1>2 DEF PacedOK, NoEventLost
<1> QED
  BY <1>1, <1>2, <1>3, <1>4 DEF PacedOK
(* A close leaves no file open, and no event enabled.                      *)
LEMMA PacedOpenClose ==
  ASSUME EvInv, PacedOK, Paced, NEW f \in Files,
         events_open(f) \/ events_release(f)
  PROVE  PacedOK'
<1>1. EvTypeOK /\ ListIsOpenFiles
  BY DEF EvInv, EvCore
<1>2. /\ pending' = [pending EXCEPT ![f] = {}]
      /\ all_events' = [all_events EXCEPT ![f] = FALSE]
      /\ isr = IsrIdle
      /\ UNCHANGED <<use, PENDING_REG, MASK_REG, isr>>
  BY Zenon DEF events_open, events_release, Fresh
<1>3. isr'.pc = "idle" /\ isr'.todo = {} /\ (isr = IsrIdle)'
  BY <1>2, IdleFields DEF IsrIdle
<1>4. CASE events_open(f)
  <2>1. /\ filelist = {} /\ filelist' = {f} /\ Goto(f, "ready")
        /\ due' = [due EXCEPT ![f] = Owed(PENDING_REG)]
    BY <1>4 DEF events_open
  <2>2. MASK_REG = {}
    BY <2>1 DEF PacedOK
  <2>3. th'[f].pc = "ready" /\ \A g \in Files : g # f => th'[g] = th[g]
    BY <1>1, <2>1, GotoEffect
  <2>4. \A g \in Files : g # f =>
          /\ g \notin filelist' /\ th'[g].pc = "closed"
          /\ due'[g] = {} /\ ~ all_events'[g]
    <3> SUFFICES ASSUME NEW g \in Files, g # f
                 PROVE  /\ g \notin filelist' /\ th'[g].pc = "closed"
                        /\ due'[g] = {} /\ ~ all_events'[g]
      OBVIOUS
    <3>1. PacedFile(g) /\ g \notin filelist /\ th[g].pc = "closed"
      BY <1>1, <2>1 DEF PacedOK, ListIsOpenFiles
    <3> QED
      BY <1>1, <1>2, <2>1, <2>3, <3>1 DEF PacedFile, EvTypeOK
  <2>5. \A g \in Files : g # f => PacedFile(g)'
    BY <2>4 DEF PacedFile, Waiting
  <2>6. pending'[f] = {} /\ ~ all_events'[f] /\ due'[f] \subseteq PENDING_REG
    BY <1>1, <1>2, <2>1 DEF EvTypeOK, Owed
  <2>7. PacedFile(f)'
    BY <1>2, <1>3, <2>1, <2>2, <2>3, <2>6 DEF PacedFile, Waiting
  <2>8. NoEventLost'
    BY <1>2, <2>4, <2>6 DEF NoEventLost
  <2> QED
    BY <1>3, <2>1, <2>5, <2>7, <2>8 DEF PacedOK
<1>5. CASE events_release(f)
  <2>1. /\ filelist' = filelist \ {f} /\ th' = [th EXCEPT ![f] = Closed]
        /\ due' = [due EXCEPT ![f] = {}] /\ th[f].pc = "ready"
    BY <1>5 DEF events_release, At
  <2>2. /\ th'[f].pc = "closed" /\ \A g \in Files : g # f => th'[g] = th[g]
    BY <1>1, <2>1, CloseEffect
  <2>3. f \in filelist /\ MASK_REG = {}
    BY <1>1, <2>1 DEF PacedOK, PacedFile, Waiting, ListIsOpenFiles
  <2>4. \A g \in Files :
          /\ g \notin filelist' /\ th'[g].pc = "closed"
          /\ due'[g] = {} /\ ~ all_events'[g]
    <3> SUFFICES ASSUME NEW g \in Files
                 PROVE  /\ g \notin filelist' /\ th'[g].pc = "closed"
                        /\ due'[g] = {} /\ ~ all_events'[g]
      OBVIOUS
    <3>1. CASE g = f
      BY <1>1, <1>2, <2>1, <2>2, <3>1 DEF EvTypeOK
    <3>2. CASE g # f
      <4>1. /\ g \notin filelist /\ th[g].pc = "closed" /\ due[g] = {}
            /\ ~ all_events[g]
        BY <1>1, <2>1, <3>2, OnlyFile
      <4> QED
        BY <1>1, <1>2, <2>1, <2>2, <3>2, <4>1 DEF EvTypeOK
    <3> QED
      BY <3>1, <3>2
  <2>5. \A g \in Files : PacedFile(g)'
    BY <2>4 DEF PacedFile, Waiting
  <2>6. NoEventLost'
    BY <2>4 DEF NoEventLost
  <2> QED
    BY <1>2, <1>3, <2>3, <2>5, <2>6 DEF PacedOK
<1> QED
  BY <1>4, <1>5

LEMMA PacedWrite ==
  ASSUME EvInv, PacedOK, Paced, NEW f \in Files, NEW mask \in Masks,
         NEW all \in WaitForAll, ~ SMP, events_write(f, mask, all)
  PROVE  PacedOK'
<1>1. EvTypeOK /\ ListIsOpenFiles /\ all \in BOOLEAN
  BY EvAssumption DEF EvInv, EvCore
<1>2. /\ Goto(f, "read") /\ th[f].pc = "ready" /\ mask = PacedMask /\ ~ all
      /\ isr = IsrIdle
  BY <1>1 DEF events_write, At, CPUFree, Paced
<1>3. /\ pending_mask' = [pending_mask EXCEPT ![f] = mask]
      /\ all_events' = [all_events EXCEPT ![f] = all]
      /\ UNCHANGED <<use, PENDING_REG, filelist, pending, isr, due>>
  BY Zenon DEF events_write
<1>4. th'[f].pc = "read" /\ \A g \in Files : g # f => th'[g] = th[g]
  BY <1>1, <1>2, GotoEffect
<1>5. PacedFile(f) /\ f \in filelist
  BY <1>1, <1>2 DEF PacedOK, ListIsOpenFiles
<1>6. isr'.pc = "idle"
  BY <1>2, <1>3, IdleFields
<1>7. pending_mask'[f] = PacedMask /\ ~ all_events'[f]
  BY <1>1, <1>2, <1>3 DEF EvTypeOK
<1>8. PacedFile(f)'
  BY <1>2, <1>3, <1>4, <1>5, <1>6, <1>7 DEF PacedFile, Waiting
<1>9. due'[f] \subseteq PENDING_REG' \cup isr'.todo \cup pending'[f]
  BY <1>3 DEF PacedOK, NoEventLost
<1> QED
  BY <1>1, <1>2, <1>3, <1>4, <1>8, <1>9, PacedThread DEF EvTypeOK

(* The reader's steps: it goes on only when the handler has disabled all   *)
(* events, so nothing comes between a load and the store that follows it.  *)
LEMMA PacedRead ==
  ASSUME EvInv, PacedOK, Paced, NEW f \in Files, ~ SMP, Read(f)
  PROVE  PacedOK'
<1>1. EvTypeOK /\ ListIsOpenFiles /\ PacedFile(f)
  BY DEF EvInv, EvCore, PacedOK
<1>2. UNCHANGED <<use, PENDING_REG, MASK_REG, filelist, pending_mask,
                  all_events, isr>>
  BY Zenon DEF Read, ReadWait, ReadTake, ReadLoad, ReadStore, ReadReturn
<1>3. isr = IsrIdle /\ th[f].pc # "closed"
  BY DEF Read, ReadWait, ReadTake, ReadLoad, ReadStore, ReadReturn, At, CPUFree
<1>4. isr'.pc = "idle" /\ isr'.todo = {} /\ (isr = IsrIdle)' /\ f \in filelist
  BY <1>1, <1>2, <1>3, IdleFields DEF ListIsOpenFiles, IsrIdle
<1>5. due[f] \subseteq PENDING_REG \cup pending[f]
  BY <1>2, <1>4 DEF PacedOK, NoEventLost
<1>6. CASE ReadWait(f)
  <2> DEFINE c == ARE_REQUESTED_EVENTS_PENDING(f, pending[f])
             l == IF c THEN "take" ELSE "asleep"
  <2>1. /\ Goto(f, l) /\ th[f].pc \in {"read", "woken"}
        /\ UNCHANGED <<pending, due>>
    BY <1>6 DEF ReadWait, At
  <2>2. l \in {"take", "asleep"} /\ (l = "take" <=> c)
    OBVIOUS
  <2>3. c <=> pending[f] \cap PacedMask # {}
    BY <1>1, <2>1 DEF ARE_REQUESTED_EVENTS_PENDING, PacedFile
  <2> HIDE DEF l, c
  <2>4. th'[f].pc = l /\ \A g \in Files : g # f => th'[g] = th[g]
    BY <1>1, <2>1, <2>2, GotoEffect
  <2>5. /\ l = "take" => MASK_REG = {}
        /\ l = "asleep" => pending[f] \cap PacedMask = {}
    BY <1>1, <1>3, <2>1, <2>2, <2>3 DEF PacedFile
  <2>6. PacedFile(f)'
    BY <1>1, <1>2, <1>4, <2>1, <2>2, <2>4, <2>5 DEF PacedFile, Waiting
  <2> QED
    BY <1>1, <1>2, <1>3, <1>5, <2>1, <2>4, <2>6, PacedThread
<1>7. CASE ReadTake(f)
  <2> DEFINE E == pending[f] \cap pending_mask[f]
  <2>1. th[f].pc = "take" /\ pending' = pending
    BY <1>7 DEF ReadTake, At
  <2>2. /\ th'[f].pc = "clear" /\ th'[f].todo = E
        /\ \A g \in Files : g # f => th'[g] = th[g]
        /\ due' = [due EXCEPT ![f] = due[f] \ E]
    BY <1>1, <1>7, ReadTakeEffect
  <2>3. /\ due'[f] = due[f] \ E
        /\ \A g \in Files : g # f => due'[g] = due[g]
    BY <1>1, <2>2 DEF EvTypeOK
  <2>4. MASK_REG = {} /\ pending_mask[f] = PacedMask
    BY <1>1, <1>4, <2>1 DEF PacedFile, Waiting
  <2>5. PacedFile(f)'
    BY <1>1, <1>2, <1>4, <2>1, <2>2, <2>3, <2>4 DEF PacedFile, Waiting
  <2>6. due'[f] \subseteq PENDING_REG' \cup isr'.todo \cup pending'[f]
    BY <1>2, <1>5, <2>1, <2>3
  <2> QED
    BY <1>1, <1>2, <1>3, <2>2, <2>3, <2>5, <2>6, PacedThread
<1>8. CASE ReadLoad(f)
  <2>1. th[f].pc = "clear" /\ UNCHANGED <<pending, due>>
    BY <1>8 DEF ReadLoad, At
  <2>2. /\ th'[f].pc = "store" /\ th'[f].todo = th[f].todo
        /\ th'[f].word = pending[f]
        /\ \A g \in Files : g # f => th'[g] = th[g]
    BY <1>1, <1>8, ReadLoadEffect
  <2>3. PacedFile(f)'
    BY <1>1, <1>2, <1>4, <2>1, <2>2 DEF PacedFile, Waiting
  <2> QED
    BY <1>1, <1>2, <1>3, <1>5, <2>1, <2>2, <2>3, PacedThread
<1>9. ASSUME NEW e \in EventBits, ReadStore(f, e) PROVE PacedOK'
  <2>1. th[f].pc = "store" /\ due' = due /\ e \in th[f].todo
    BY <1>9 DEF ReadStore, At
  <2>2. /\ th'[f].pc = "clear" /\ th'[f].todo = th[f].todo \ {e}
        /\ \A g \in Files : g # f => th'[g] = th[g]
        /\ pending' = [pending EXCEPT ![f] = th[f].word \ {e}]
    BY <1>1, <1>9, ReadStoreEffect
  <2>3. pending'[f] = pending[f] \ {e}
    BY <1>1, <2>1, <2>2 DEF EvTypeOK, PacedFile
  <2>4. PacedFile(f)'
    BY <1>1, <1>2, <1>4, <2>1, <2>2, <2>3 DEF PacedFile, Waiting
  <2>5. e \in due[f] => e \in PENDING_REG
    BY <1>1, <2>1 DEF PacedFile
  <2>6. due'[f] \subseteq PENDING_REG' \cup isr'.todo \cup pending'[f]
    BY <1>2, <1>5, <2>1, <2>3, <2>5
  <2> QED
    BY <1>1, <1>2, <1>3, <2>1, <2>2, <2>4, <2>6, PacedThread
<1>10. CASE ReadReturn(f)
  <2>1. th[f].pc = "clear" /\ th[f].todo = {} /\ UNCHANGED <<pending, due>>
    BY <1>10 DEF ReadReturn, At
  <2>2. th'[f].pc = "ready" /\ \A g \in Files : g # f => th'[g] = th[g]
    BY <1>1, <1>10, ReadReturnEffect
  <2>3. PacedFile(f)'
    BY <1>1, <1>2, <1>4, <2>1, <2>2 DEF PacedFile, Waiting
  <2> QED
    BY <1>1, <1>2, <1>3, <1>5, <2>1, <2>2, <2>3, PacedThread
<1> QED
  BY <1>6, <1>7, <1>8, <1>9, <1>10, Zenon DEF Read

LEMMA PacedStep ==
  ASSUME ~ SMP
  PROVE  EvInv /\ PacedInv /\ [EvNext]_evars => PacedInv'
<1> SUFFICES ASSUME EvInv, PacedInv, [EvNext]_evars, Paced' PROVE PacedOK'
  BY Zenon DEF PacedInv, PacedOK
<1>1. use' = use
  BY Zenon DEF EvNext, evars, Raise, Trigger, trigger_set, TriggerLoad,
     TriggerStore, TriggerWake, TriggerEnd, Isr, IsrEnter, events_wake_up,
     IsrClear, IsrMask, events_open, events_open_nomem, events_release,
     events_release_interrupted, events_write, Read, ReadWait, ReadTake,
     ReadLoad, ReadStore, ReadReturn, ReadInterrupted, TriggerWild, Other,
     OtherWait, OtherTake, OtherLoad, OtherStore, OtherReturn, OtherWrite
<1>2. Paced /\ use = "paced" /\ PacedOK
  BY <1>1, Zenon DEF Paced, PacedInv, PacedOK
<1>3. CASE UNCHANGED evars
  <2>1. \A f \in Files : PacedFile(f)'
    BY <1>2, <1>3 DEF evars, PacedOK, PacedFile, Waiting, IsrIdle
  <2> QED
    BY <1>2, <1>3, <2>1 DEF evars, PacedOK, NoEventLost, IsrIdle
<1>4. CASE EvNext
  <2>1. CASE Isr
    BY <1>2, <2>1, PacedEnter, PacedWakeUp, PacedClear, PacedMaskAll, Zenon
    DEF Isr
  <2>2. CASE \E e \in EventBits : Raise(e)
    BY <1>2, <2>2, PacedRaise, Zenon
  <2>3. ~ Trigger
    <3>1. trig.pc = "idle"
      BY <1>2 DEF EvInv, EvCore, EvTypeOK, TrigType, TrigBusy
    <3> QED
      BY <1>2, <3>1 DEF Trigger, trigger_set, TriggerLoad, TriggerStore,
         TriggerWake, TriggerEnd, TriggerWild
  <2>4. ASSUME NEW f \in Files
        PROVE  ~ (\/ events_open_nomem(f) \/ events_release_interrupted(f)
                  \/ ReadInterrupted(f))
    BY <1>2 DEF events_open_nomem, events_release_interrupted, ReadInterrupted
  <2>5. CASE \E f \in Files :
               \/ events_open(f) \/ events_open_nomem(f) \/ events_release(f)
               \/ events_release_interrupted(f)
               \/ \E mask \in Masks, all \in WaitForAll :
                    events_write(f, mask, all)
               \/ Read(f) \/ ReadInterrupted(f)
    BY <1>2, <2>4, <2>5, PacedOpenClose, PacedWrite, PacedRead, Zenon
  <2>6. ~ Other
    <3>1. other.pc = "idle"
      BY <1>2 DEF EvInv, OneClears
    <3> QED
      BY <1>2, <3>1 DEF Other, OtherMay, OtherWait, OtherTake, OtherLoad,
         OtherStore, OtherReturn, OtherWrite
  <2> QED
    BY <1>4, <2>1, <2>2, <2>3, <2>5, <2>6, Zenon DEF EvNext
<1> QED
  BY <1>3, <1>4

(* On one CPU a paced thread loses no event: each one raised while its     *)
(* file is open is reported, or still held in the file, by the handler or  *)
(* in the controller (events.c:331-334).                                   *)
THEOREM EvPacedLosesNothing ==
  ASSUME ~ SMP
  PROVE  EvSpec => []PacedLosesNothing
<1>1. PacedInv => PacedLosesNothing
  BY DEF PacedInv, PacedLosesNothing
<1> QED
  BY <1>1, EvStart, EvStep, PacedStart, PacedStep, PTL DEF EvSpec
=============================================================================

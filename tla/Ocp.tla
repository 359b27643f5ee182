-------------------------------- MODULE Ocp --------------------------------
(***************************************************************************)
(* The OCP driver (recipes-kernel/iv-ocp/src/ocp.c): windows of physical   *)
(* memory as character devices.  Minor 0 ("ocp") and minor 1 ("ocp0") are  *)
(* the first window of the device tree's reg property, minor i + 1         *)
(* ("ocp<i>") is window i.  A file is read, written, seeked and mapped;    *)
(* all but mmap run under dev->sem, but the position that read and write   *)
(* get was loaded by the kernel before and is stored by it after, under no *)
(* lock.  Probe makes the devices reachable step by step, and every step   *)
(* may fail into the cleanup of ocp_remove.                                *)
(***************************************************************************)
EXTENDS Integers, FiniteSets

CONSTANTS
  Files,        \* open files
  Threads,      \* threads that use them; several may use the same file
  Majors,       \* major numbers the kernel has to give
  NumWindows,   \* windows of reg, at least one
  Windows,      \* [0 .. NumWindows - 1 -> [phys, size]]
  Page,         \* PAGE_SIZE
  Word,         \* sizeof(unsigned int)
  UintMod,      \* 2^32: the width of the unsigned ints of ocp_mmap
  Counts,       \* counts user space asks to read or write
  Offsets,      \* offsets it seeks, preads or pwrites at
  MaxPos,       \* bound: no seek beyond it
  MaxCut,       \* bound: closes cut short by a signal
  MaxLoads      \* bound: probes

ASSUME OcpAssumption ==
  /\ IsFiniteSet(Files) /\ Majors \subseteq Nat \ {0}
  /\ NumWindows \in Nat \ {0} /\ Page \in Nat \ {0} /\ Word \in Nat \ {0}
  /\ UintMod \in Nat /\ Counts \subseteq Nat /\ Offsets \subseteq Int
  /\ Windows \in [0 .. NumWindows - 1 -> [phys : Nat, size : Nat \ {0}]]
  /\ \A i \in 0 .. NumWindows - 1 : Windows[i].size % Word = 0
  /\ \A i \in 0 .. NumWindows - 1 :
       /\ Windows[i].phys % Page = 0
       /\ Windows[i].phys + Windows[i].size < UintMod

VARIABLES
  probe,        \* the step ocp_probe has reached
  dev,          \* struct ocp_dev
  kern,         \* what the kernel holds for the driver
  count,        \* dev->instance_count
  files, op,    \* the open files; the call each thread is in
  last,         \* the bytes of memory the last access reached
  oops,         \* the first access to an item that is not there
  cut, loads    \* closes cut short of this device; probes so far

vars == <<probe, dev, kern, count, files, op, last, oops, cut, loads>>

Index == 0 .. NumWindows - 1
Minors == 0 .. NumWindows

NoDev == [alloc |-> FALSE, major |-> 0, sem |-> FALSE, maps |-> FALSE,
          size |-> [i \in Index |-> 0], virt |-> [i \in Index |-> FALSE]]
Closed == [open |-> FALSE, minor |-> 0, pos |-> 0, gen |-> 0, loose |-> FALSE]
Idle == [pc |-> "idle", file |-> "none", own |-> FALSE, pos |-> 0, n |-> 0]
NoAccess == [minor |-> 0, lo |-> 0, n |-> 0]
NoOops == [what |-> "none", loose |-> FALSE]

minor_to_mapping_index(minor) == IF minor = 0 THEN 0 ELSE minor - 1

(***************************************************************************)
(* The device a file was opened on: it is gone once ocp_remove has freed   *)
(* it, whatever has been probed since.                                     *)
(***************************************************************************)
Alive(f) == dev.alloc /\ files[f].gen = loads

(***************************************************************************)
(* An access to an item that is not there.  It is loose when it is one of  *)
(* probe, or of a file that was opened before probe had returned or that   *)
(* an unbind has left behind.                                              *)
(***************************************************************************)
Oops(what, loose) == oops' = [what |-> what, loose |-> loose]

----------------------------------------------------------------------------
(***************************************************************************)
(* ocp_remove: the cleanup, and the error path of probe.  The region is    *)
(* given back with one minor less than it was taken with, so the kernel    *)
(* does not find it and it stays taken.                                    *)
(***************************************************************************)
unregister_chrdev_region(major, minors) ==
  kern.regions \ {[major |-> major, minors |-> minors]}

ocp_remove_no_destroy ==
  /\ dev.alloc
  /\ dev' = NoDev /\ probe' = "unbound" /\ count' = 0 /\ cut' = 0
  /\ kern' = [kern EXCEPT !.nodes = @ \ {0}, !.iomem = {},
                !.cdevs = @ \ {dev.major}]
  /\ oops' = oops

ocp_remove ==
  /\ IF ~dev.alloc
       THEN Oops("null", TRUE) /\ UNCHANGED <<dev, kern, count, cut>>
       ELSE /\ dev' = NoDev /\ count' = 0 /\ cut' = 0 /\ oops' = oops
            /\ kern' = [regions |->
                          unregister_chrdev_region(dev.major, NumWindows),
                        cdevs   |-> kern.cdevs \ {dev.major},
                        left    |-> kern.left,
                        nodes   |-> IF dev.maps THEN {}
                                    ELSE kern.nodes \ {0},
                        iomem   |-> IF dev.maps
                                    THEN kern.iomem
                                           \ {i \in Index : dev.virt[i]}
                                    ELSE kern.iomem]
  /\ probe' = "unbound"

(***************************************************************************)
(* The driver is unbound, by the module's removal or through sysfs.  Only  *)
(* the module's removal waits until no file is open: an unbind frees the   *)
(* device under the files, and even under the calls, that use it.          *)
(***************************************************************************)
Orphaned == [f \in Files |->
               [files[f] EXCEPT !.loose = @ \/ files[f].open]]

Unbind ==
  /\ probe = "bound"
  /\ ocp_remove
  /\ files' = Orphaned
  /\ last' = NoAccess
  /\ UNCHANGED <<op, loads>>

(***************************************************************************)
(* ocp_probe.  A failing step jumps to ocp_remove, but for the failure of  *)
(* class_create, which returns at once and leaves everything behind.       *)
(***************************************************************************)
Fail(step) == probe = step /\ ocp_remove
              /\ last' = NoAccess
              /\ UNCHANGED <<files, op, loads>>

ProbeStart ==
  /\ probe = "unbound" /\ loads < MaxLoads
  /\ loads' = loads + 1
  /\ \/ /\ dev' = [NoDev EXCEPT !.alloc = TRUE] /\ probe' = "region"
        /\ count' = 0
     \/ dev' = NoDev /\ probe' = "nomem" /\ count' = count
  /\ last' = NoAccess
  /\ UNCHANGED <<kern, files, op, oops, cut>>

ProbeRegion ==
  /\ probe = "region"
  /\ \E m \in Majors \ {r.major : r \in kern.regions} :
       /\ dev' = [dev EXCEPT !.major = m]
       /\ kern' = [kern EXCEPT !.regions =
                     @ \cup {[major |-> m, minors |-> NumWindows + 1]}]
  /\ probe' = "cdev"
  /\ last' = NoAccess
  /\ UNCHANGED <<count, files, op, oops, cut, loads>>

ProbeCdev ==
  /\ probe = "cdev" /\ probe' = "maps"
  /\ kern' = [kern EXCEPT !.cdevs = @ \cup {dev.major}]
  /\ last' = NoAccess
  /\ UNCHANGED <<dev, count, files, op, oops, cut, loads>>

ProbeMaps ==
  /\ probe = "maps" /\ probe' = "class"
  /\ \E got \in BOOLEAN : dev' = [dev EXCEPT !.maps = got]
  /\ last' = NoAccess
  /\ UNCHANGED <<kern, count, files, op, oops, cut, loads>>

ProbeClass ==
  /\ probe = "class"
  /\ \/ /\ probe' = "sema" /\ dev' = dev
        /\ kern' = [kern EXCEPT !.nodes = @ \cup {0}]
     \/ /\ probe' = "unbound" /\ dev' = NoDev
        /\ kern' = [kern EXCEPT !.left = @ \cup {dev.major}]
  /\ last' = NoAccess
  /\ UNCHANGED <<count, files, op, oops, cut, loads>>

ProbeSemaNoInit ==
  /\ probe = "sema" /\ probe' = "size"
  /\ last' = NoAccess
  /\ UNCHANGED <<dev, kern, count, files, op, oops, cut, loads>>

ProbeSema ==
  /\ probe = "sema" /\ probe' = "size"
  /\ dev' = [dev EXCEPT !.sem = TRUE]
  /\ count' = 0
  /\ last' = NoAccess
  /\ UNCHANGED <<kern, files, op, oops, cut, loads>>

NextWindow == CHOOSE i \in Index :
                /\ ~dev.virt[i] /\ \A j \in Index : j < i => dev.virt[j]

ProbeSize ==
  /\ probe = "size"
  /\ IF dev.maps
       THEN /\ dev' = [dev EXCEPT !.size[NextWindow] =
                         Windows[NextWindow].size]
            /\ probe' = "map" /\ oops' = oops
       ELSE Oops("mappings", TRUE) /\ UNCHANGED <<dev, probe>>
  /\ last' = NoAccess
  /\ UNCHANGED <<kern, count, files, op, cut, loads>>

ProbeMap ==
  /\ probe = "map"
  /\ dev' = [dev EXCEPT !.virt[NextWindow] = TRUE]
  /\ kern' = [kern EXCEPT !.iomem = @ \cup {NextWindow},
                          !.nodes = @ \cup {NextWindow + 1}]
  /\ probe' = IF \A i \in Index : dev'.virt[i] THEN "bound" ELSE "size"
  /\ last' = NoAccess
  /\ UNCHANGED <<count, files, op, oops, cut, loads>>

ProbeFails == \E step \in {"nomem", "region", "cdev", "map"} : Fail(step)

----------------------------------------------------------------------------
(***************************************************************************)
(* open and close.  A signal while the semaphore is awaited fails an open, *)
(* but closes the file all the same: the count is then not given back.     *)
(***************************************************************************)
ocp_open(f, minor) ==
  /\ ~files[f].open /\ minor \in kern.nodes
  /\ IF dev.sem
       THEN /\ count' = count + 1 /\ oops' = oops
            /\ files' = [files EXCEPT ![f] =
                 [open |-> TRUE, minor |-> minor, pos |-> 0, gen |-> loads,
                  loose |-> probe # "bound"]]
       ELSE Oops("sem", probe # "bound") /\ UNCHANGED <<count, files>>
  /\ last' = NoAccess
  /\ UNCHANGED <<probe, dev, kern, op, cut, loads>>

Unused(f) == \A t \in Threads : op[t].file # f

ocp_release_uncounted(f) ==
  /\ files[f].open /\ Unused(f) /\ Alive(f)
  /\ files' = [files EXCEPT ![f] = Closed]
  /\ last' = NoAccess
  /\ UNCHANGED <<probe, dev, kern, count, op, oops, cut, loads>>

ocp_release(f) ==
  /\ files[f].open /\ Unused(f)
  /\ files' = [files EXCEPT ![f] = Closed]
  /\ IF Alive(f) THEN count' = count - 1 /\ oops' = oops
                 ELSE count' = count /\ Oops("freed", files[f].loose)
  /\ last' = NoAccess
  /\ UNCHANGED <<probe, dev, kern, op, cut, loads>>

ocp_release_interrupted(f) ==
  /\ files[f].open /\ Unused(f) /\ Alive(f) /\ cut < MaxCut
  /\ files' = [files EXCEPT ![f] = Closed]
  /\ cut' = cut + 1
  /\ last' = NoAccess
  /\ UNCHANGED <<probe, dev, kern, count, op, oops, loads>>

(***************************************************************************)
(* The kernel's half of read and write: the position is f_pos, or the      *)
(* offset of a pread or pwrite, and only the former is stored afterwards.  *)
(***************************************************************************)
vfs_enter(t, f) ==
  /\ op[t].pc = "idle" /\ files[f].open
  /\ \E n \in Counts :
       \/ op' = [op EXCEPT ![t] = [pc |-> "call", file |-> f, own |-> FALSE,
                                   pos |-> files[f].pos, n |-> n]]
       \/ \E p \in Offsets \cap Nat :
            op' = [op EXCEPT ![t] = [pc |-> "call", file |-> f, own |-> TRUE,
                                     pos |-> p, n |-> n]]
  /\ last' = NoAccess
  /\ UNCHANGED <<probe, dev, kern, count, files, oops, cut, loads>>

Returns(t, pos) ==
  op' = [op EXCEPT ![t] = IF op[t].own THEN Idle
                          ELSE [@ EXCEPT !.pc = "done", !.pos = pos, !.n = 0]]

vfs_leave(t) ==
  /\ op[t].pc = "done"
  /\ files' = [files EXCEPT ![op[t].file].pos = op[t].pos]
  /\ op' = [op EXCEPT ![t] = Idle]
  /\ last' = NoAccess
  /\ UNCHANGED <<probe, dev, kern, count, oops, cut, loads>>

(***************************************************************************)
(* The bytes a transfer of n at pos moves in a window of the given size:   *)
(* up to its end, and whole words or nothing.                              *)
(***************************************************************************)
Least(a, b) == IF a <= b THEN a ELSE b
ClippedNot(pos, n, size) == n
Clipped(pos, n, size) == Least(n, size - pos)
WholeAny(n) == TRUE
Whole(n) == n % Word = 0

(***************************************************************************)
(* ocp_read and ocp_write, which differ in the direction only.  A fault in *)
(* the user's buffer moves a part and reports -EFAULT, as a signal before  *)
(* the semaphore and a count of odd bytes do: no position is stored.       *)
(***************************************************************************)
Transfer(t) ==
  LET f == op[t].file
      i == minor_to_mapping_index(files[f].minor)
      n == Clipped(op[t].pos, op[t].n, dev.size[i])
  IN /\ op[t].pc = "call"
     /\ CASE ~Alive(f) ->
               Oops("freed", files[f].loose) /\ UNCHANGED <<op, last>>
          [] Alive(f) /\ i \notin Index ->
               Oops("index", files[f].loose) /\ UNCHANGED <<op, last>>
          [] OTHER ->
               \/ /\ ~dev.maps
                  /\ Oops("mappings", files[f].loose) /\ UNCHANGED <<op, last>>
               \/ /\ dev.maps /\ op[t].pos >= dev.size[i]
                  /\ Returns(t, op[t].pos) /\ UNCHANGED <<oops, last>>
               \/ /\ dev.maps /\ op[t].pos < dev.size[i] /\ Whole(n)
                  /\ IF dev.virt[i]
                       THEN /\ last' = [minor |-> files[f].minor, n |-> n,
                                 lo |-> Windows[i].phys + op[t].pos]
                            /\ oops' = oops
                            /\ \/ Returns(t, op[t].pos + n)
                               \/ op' = [op EXCEPT ![t] = Idle]
                       ELSE Oops("virt", files[f].loose)
                              /\ UNCHANGED <<op, last>>
               \/ op' = [op EXCEPT ![t] = Idle] /\ UNCHANGED <<oops, last>>
     /\ UNCHANGED <<probe, dev, kern, count, files, cut, loads>>

ocp_read(t) == Transfer(t)
ocp_write(t) == Transfer(t)

(***************************************************************************)
(* ocp_llseek, by SEEK_SET, SEEK_CUR or SEEK_END, the last of which needs  *)
(* the mappings (without them all sizes are 0, the base of SEEK_SET).  A   *)
(* refused position changes nothing; one beyond the window is taken.       *)
(***************************************************************************)
AlignedAny(pos) == pos >= 0
Aligned(pos) == pos >= 0 /\ pos % Word = 0

ocp_llseek(f) ==
  /\ files[f].open
  /\ \/ ~Alive(f) /\ Oops("freed", files[f].loose) /\ files' = files
     \/ /\ Alive(f) /\ ~dev.maps
        /\ Oops("mappings", files[f].loose) /\ files' = files
     \/ /\ Alive(f) /\ oops' = oops
        /\ \E off \in Offsets :
           \E base \in {0, files[f].pos,
                        dev.size[minor_to_mapping_index(files[f].minor)]} :
             /\ Aligned(base + off) /\ base + off <= MaxPos
             /\ files' = [files EXCEPT ![f].pos = base + off]
  /\ last' = NoAccess
  /\ UNCHANGED <<probe, dev, kern, count, op, cut, loads>>

(***************************************************************************)
(* ocp_mmap, without the semaphore and with 32 bit sums.  The kernel has   *)
(* already refused an offset and size whose sum does not fit a long.  A    *)
(* mapping is recorded as an access to the whole of it.                    *)
(***************************************************************************)
FitsStart(off, size, available) == off <= available
Fits(off, size, available) == off + size <= available

ocp_mmap(f) ==
  /\ files[f].open
  /\ IF ~Alive(f) \/ ~dev.maps
       THEN /\ Oops(IF Alive(f) THEN "mappings" ELSE "freed", files[f].loose)
            /\ last' = last
       ELSE LET i == minor_to_mapping_index(files[f].minor)
                available == dev.size[i] % UintMod
            IN \E pgoff, pages \in 0 .. UintMod \div Page :
                 /\ pages > 0 /\ (pgoff + pages) * Page < UintMod
                 /\ Fits(pgoff * Page, pages * Page, available)
                 /\ oops' = oops
                 /\ last' = [minor |-> files[f].minor, n |-> pages * Page,
                             lo |-> (Windows[i].phys + pgoff * Page)
                                      % UintMod]
  /\ UNCHANGED <<probe, dev, kern, count, files, op, cut, loads>>

----------------------------------------------------------------------------
OcpInit ==
  /\ probe = "unbound" /\ dev = NoDev /\ count = 0
  /\ kern = [regions |-> {}, cdevs |-> {}, left |-> {}, nodes |-> {},
             iomem |-> {}]
  /\ files = [f \in Files |-> Closed] /\ op = [t \in Threads |-> Idle]
  /\ last = NoAccess /\ oops = NoOops /\ cut = 0 /\ loads = 0

OcpNext ==
  /\ oops = NoOops
  /\ \/ ProbeStart \/ ProbeRegion \/ ProbeCdev \/ ProbeMaps \/ ProbeClass
     \/ ProbeSema \/ ProbeSize \/ ProbeMap \/ ProbeFails \/ Unbind
     \/ \E f \in Files :
          \/ \E minor \in Minors : ocp_open(f, minor)
          \/ ocp_release(f) \/ ocp_release_interrupted(f)
          \/ ocp_llseek(f) \/ ocp_mmap(f)
          \/ \E t \in Threads : vfs_enter(t, f)
     \/ \E t \in Threads : ocp_read(t) \/ ocp_write(t) \/ vfs_leave(t)

OcpSpec == OcpInit /\ [][OcpNext]_vars

----------------------------------------------------------------------------
DevType == [alloc : BOOLEAN, major : Nat, sem : BOOLEAN, maps : BOOLEAN,
            size : [Index -> Nat], virt : [Index -> BOOLEAN]]
KernType == [regions : SUBSET [major : Majors, minors : {NumWindows + 1}],
             cdevs : SUBSET Majors, left : SUBSET Majors,
             nodes : SUBSET Minors, iomem : SUBSET Index]
FileType == [open : BOOLEAN, minor : Minors, pos : Nat, gen : Nat,
             loose : BOOLEAN]
OpType == [pc : {"idle", "call", "done"}, file : Files \cup {"none"},
           own : BOOLEAN, pos : Nat, n : Nat]

OcpTypeOK ==
  /\ probe \in {"unbound", "nomem", "region", "cdev", "maps", "class", "sema",
                "size", "map", "bound"}
  /\ dev \in DevType /\ kern \in KernType
  /\ files \in [Files -> FileType] /\ op \in [Threads -> OpType]
  /\ last \in [minor : Minors, lo : Nat, n : Nat]
  /\ oops \in [what : {"none", "null", "mappings", "sem", "freed", "index",
                       "virt"}, loose : BOOLEAN]
  /\ count \in Int /\ cut \in Nat /\ loads \in Nat

(***************************************************************************)
(* The inductive invariant: what each step of probe has set up, and what a *)
(* file or a call may rely on.                                             *)
(***************************************************************************)
Registered == {"maps", "class", "sema", "size", "map", "bound"}
Mapping == {"size", "map", "bound"}

(* The window loop of probe has mapped the windows below some index, all   *)
(* of them once bound; a size is set just before its window is mapped.     *)
WindowsMapped ==
  /\ \A i \in Index : dev.size[i] \in {0, Windows[i].size}
  /\ \A i \in kern.iomem : dev.virt[i]
  /\ probe \notin Mapping => \A i \in Index : ~dev.virt[i]
  /\ probe \in {"size", "map"} =>
       \E n \in Index : \A i \in Index : dev.virt[i] <=> i < n
  /\ probe = "bound" => \A i \in Index : dev.virt[i]
  /\ probe \in {"map", "bound"} => dev.maps

(* The major number in use is registered for no other device.              *)
MajorsApart ==
  /\ kern.left \subseteq {r.major : r \in kern.regions}
  /\ probe = "cdev" \/ probe \in Registered =>
       /\ dev.major \in {r.major : r \in kern.regions} /\ dev.major \in Majors
       /\ dev.major \notin kern.left
  /\ kern.cdevs = IF probe \in Registered THEN kern.left \cup {dev.major}
                  ELSE kern.left

(* The device, its semaphore and its nodes exist from one step of probe to *)
(* the cleanup.                                                            *)
ProbeOrder ==
  /\ dev.alloc <=> probe \notin {"unbound", "nomem"}
  /\ dev.sem <=> probe \in Mapping
  /\ ~dev.sem => cut = 0
  /\ probe \notin Mapping => kern.iomem = {}
  /\ probe \notin Mapping \cup {"sema"} => kern.nodes = {}
  /\ probe = "region" => dev.major = 0

(* What a file was opened on, and what a call keeps of its file.           *)
FilesOfLoad ==
  /\ \A f \in Files : files[f].open =>
       /\ files[f].gen <= loads
       /\ files[f].gen = loads /\ dev.alloc => dev.sem
       /\ ~files[f].loose => probe = "bound" /\ files[f].gen = loads
  /\ \A t \in Threads : op[t].pc # "idle" =>
       /\ op[t].file \in Files /\ files[op[t].file].open
       /\ ~op[t].own => op[t].pos % Word = 0
       /\ op[t].pc = "done" => ~op[t].own

(* An access or a mapping reaches only the window the device node names,   *)
(* whatever offset the file or the call asks for (ocp.c 117, 162, 287).    *)
AccessInWindow ==
  LET w == Windows[IF last.minor = 0 THEN 0 ELSE last.minor - 1]
  IN last.n > 0 => /\ w.phys <= last.lo
                   /\ last.lo + last.n <= w.phys + w.size

(* The position of a file is always a whole number of words, although two  *)
(* threads load and store it around the semaphore and a seek may come in   *)
(* between (ocp.c 120, 165, 257).                                          *)
PosAligned == \A f \in Files : files[f].pos >= 0 /\ files[f].pos % Word = 0

(* instance_count is the number of open files, and of the closes that a    *)
(* signal cut short (ocp.c 78, 90), over failed probes and reloads.        *)
CountExact ==
  dev.sem => count = Cardinality({f \in Files :
                                    files[f].open /\ Alive(f)}) + cut

(* Only a probe, a file opened before the probe had returned, or a file    *)
(* still open when the driver was unbound touches an item that is missing  *)
(* or freed: a file opened on a bound device never does while the driver   *)
(* stays bound, over failed probes, reloads and cuts (ocp.c 320, 386-417). *)
OnceBoundSafe == oops.what # "none" => oops.loose

(* After a remove or a failed probe no device node, no mapping and no      *)
(* device is left, but for the devices that class_create's failure leaves  *)
(* registered (ocp.c 320-347, 389).                                        *)
CleanupFrees ==
  probe = "unbound" =>
    kern.nodes = {} /\ kern.iomem = {} /\ kern.cdevs = kern.left

OcpInv ==
  /\ OcpTypeOK /\ WindowsMapped /\ MajorsApart /\ ProbeOrder /\ FilesOfLoad
  /\ AccessInWindow /\ PosAligned /\ CountExact /\ OnceBoundSafe
=============================================================================

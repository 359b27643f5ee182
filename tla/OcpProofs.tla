----------------------------- MODULE OcpProofs -----------------------------
(***************************************************************************)
(* For every set of windows, files, threads and offsets: an access stays   *)
(* in its window, positions stay whole words, the instance count is exact, *)
(* a file opened on a bound device never meets a missing item, and the     *)
(* cleanup leaves nothing behind but what class_create's failure leaves.   *)
(***************************************************************************)
EXTENDS Ocp, FiniteSetTheorems, TLAPS

-----------------------------------------------------------------------------
(* Whole words: multiples of a positive number, and their sums.            *)
LEMMA Multiple ==
  ASSUME NEW w \in Nat, w > 0, NEW a \in Nat
  PROVE  /\ a \div w \in Nat
         /\ a % w = 0 => a = (a \div w) * w
         /\ (a * w) % w = 0
  OBVIOUS

LEMMA WholeSum ==
  ASSUME NEW a \in Nat, NEW b \in Nat, a % Word = 0, b % Word = 0
  PROVE  (a + b) % Word = 0
<1> DEFINE p == a \div Word
           q == b \div Word
<1>1. Word \in Nat /\ Word > 0
  BY OcpAssumption
<1>2. p \in Nat /\ q \in Nat /\ a = p * Word /\ b = q * Word
  BY <1>1, Multiple
<1> HIDE DEF p, q
<1>3. a + b = (p + q) * Word /\ p + q \in Nat
  BY <1>1, <1>2
<1> QED
  BY <1>1, <1>3, Multiple

(* The initial records have the types of the variables they initialise.    *)
LEMMA InitialTypes ==
  /\ NoDev \in DevType /\ Closed \in FileType /\ Idle \in OpType
  /\ NoAccess \in [minor : Minors, lo : Nat, n : Nat]
  BY OcpAssumption
  DEF NoDev, DevType, Closed, FileType, Idle, OpType, NoAccess, Minors

LEMMA OcpStart == OcpInit => OcpInv
<1> SUFFICES ASSUME OcpInit PROVE OcpInv
  OBVIOUS
<1>1. OcpTypeOK
  BY InitialTypes, OcpAssumption
  DEF OcpInit, OcpTypeOK, NoOops, KernType, Index, Minors
<1>2. WindowsMapped /\ MajorsApart /\ ProbeOrder /\ FilesOfLoad
  BY OcpAssumption
  DEF OcpInit, WindowsMapped, MajorsApart, ProbeOrder, FilesOfLoad, NoDev,
      Registered, Mapping, Closed, Idle
<1>3. AccessInWindow /\ PosAligned /\ OnceBoundSafe /\ CountExact
  BY OcpAssumption
  DEF OcpInit, AccessInWindow, PosAligned, OnceBoundSafe, CountExact, NoDev,
      NoAccess, NoOops, Closed
<1> QED
  BY <1>1, <1>2, <1>3 DEF OcpInv

-----------------------------------------------------------------------------
(* The steps of ocp_probe, field by field of the records they update.      *)

LEMMA ProbeStartEffect ==
  ASSUME ProbeStart
  PROVE  /\ dev' \in DevType /\ ~dev'.sem /\ dev'.major = 0 /\ ~dev'.maps
         /\ dev'.size = NoDev.size /\ dev'.virt = NoDev.virt
         /\ \/ dev'.alloc /\ probe' = "region" /\ count' = 0
            \/ ~dev'.alloc /\ probe' = "nomem" /\ count' = count
<1>1. CASE dev' = [NoDev EXCEPT !.alloc = TRUE] /\ probe' = "region" /\ count' = 0
  <2>1. dev' \in DevType
    BY <1>1, InitialTypes, Zenon DEF DevType
  <2>2. /\ dev'.alloc /\ dev'.sem = NoDev.sem /\ dev'.major = NoDev.major
        /\ dev'.maps = NoDev.maps /\ dev'.size = NoDev.size
        /\ dev'.virt = NoDev.virt
    BY <1>1, InitialTypes, Zenon DEF DevType
  <2>3. ~NoDev.sem /\ NoDev.major = 0 /\ ~NoDev.maps
    BY DEF NoDev
  <2> QED
    BY <1>1, <2>1, <2>2, <2>3, Zenon
<1>2. CASE dev' = NoDev /\ probe' = "nomem" /\ count' = count
  <2>1. ~NoDev.sem /\ NoDev.major = 0 /\ ~NoDev.maps /\ ~NoDev.alloc
    BY DEF NoDev
  <2> QED
    BY <1>2, <2>1, InitialTypes, Zenon
<1> QED
  BY <1>1, <1>2, Zenon DEF ProbeStart

LEMMA ProbeRegionEffect ==
  ASSUME OcpTypeOK, ProbeRegion
  PROVE  /\ dev' \in DevType /\ kern' \in KernType
         /\ dev'.major \in Majors
         /\ dev'.major \notin {r.major : r \in kern.regions}
         /\ dev'.alloc = dev.alloc /\ dev'.sem = dev.sem
         /\ dev'.maps = dev.maps /\ dev'.size = dev.size /\ dev'.virt = dev.virt
         /\ kern'.regions = kern.regions
              \cup {[major |-> dev'.major, minors |-> NumWindows + 1]}
         /\ kern'.cdevs = kern.cdevs /\ kern'.left = kern.left
         /\ kern'.nodes = kern.nodes /\ kern'.iomem = kern.iomem
<1>1. PICK m \in Majors \ {r.major : r \in kern.regions} :
        /\ dev' = [dev EXCEPT !.major = m]
        /\ kern' = [kern EXCEPT !.regions =
                      @ \cup {[major |-> m, minors |-> NumWindows + 1]}]
  BY Zenon DEF ProbeRegion
<1>2. m \in Nat /\ dev \in DevType /\ kern \in KernType
  BY OcpAssumption DEF OcpTypeOK
<1>3. dev' \in DevType
  BY <1>1, <1>2, Zenon DEF DevType
<1>4. /\ dev'.major = m /\ dev'.alloc = dev.alloc /\ dev'.sem = dev.sem
      /\ dev'.maps = dev.maps /\ dev'.size = dev.size /\ dev'.virt = dev.virt
  BY <1>1, <1>2, Zenon DEF DevType
<1> DEFINE R == kern.regions \cup {[major |-> m, minors |-> NumWindows + 1]}
<1>5. R \in SUBSET [major : Majors, minors : {NumWindows + 1}]
  BY <1>2 DEF KernType
<1>6. kern' = [kern EXCEPT !.regions = R]
  BY <1>1, Zenon
<1> HIDE DEF R
<1>7. /\ kern'.regions = R /\ kern'.cdevs = kern.cdevs /\ kern'.left = kern.left
      /\ kern'.nodes = kern.nodes /\ kern'.iomem = kern.iomem
  BY <1>2, <1>6, Zenon DEF KernType
<1>8. kern' \in KernType
  BY <1>2, <1>5, <1>6, Zenon DEF KernType
<1> QED
  BY <1>3, <1>4, <1>7, <1>8, Zenon DEF R

LEMMA ProbeCdevEffect ==
  ASSUME OcpTypeOK, ProbeCdev, dev.major \in Majors
  PROVE  /\ kern' \in KernType /\ kern'.cdevs = kern.cdevs \cup {dev.major}
         /\ kern'.regions = kern.regions /\ kern'.left = kern.left
         /\ kern'.nodes = kern.nodes /\ kern'.iomem = kern.iomem
<1> DEFINE C == kern.cdevs \cup {dev.major}
<1>1. kern \in KernType /\ C \in SUBSET Majors
  BY DEF OcpTypeOK, KernType
<1>2. kern' = [kern EXCEPT !.cdevs = C]
  BY Zenon DEF ProbeCdev
<1> HIDE DEF C
<1>3. kern' \in KernType
  BY <1>1, <1>2, Zenon DEF KernType
<1>4. /\ kern'.cdevs = C /\ kern'.regions = kern.regions
      /\ kern'.left = kern.left /\ kern'.nodes = kern.nodes
      /\ kern'.iomem = kern.iomem
  BY <1>1, <1>2, Zenon DEF KernType
<1> QED
  BY <1>3, <1>4, Zenon DEF C

LEMMA ProbeMapsEffect ==
  ASSUME OcpTypeOK, ProbeMaps
  PROVE  /\ dev' \in DevType /\ dev'.alloc = dev.alloc /\ dev'.sem = dev.sem
         /\ dev'.major = dev.major /\ dev'.size = dev.size
         /\ dev'.virt = dev.virt
<1>1. PICK got \in BOOLEAN : dev' = [dev EXCEPT !.maps = got]
  BY Zenon DEF ProbeMaps
<1>2. dev' \in DevType
  BY <1>1, Zenon DEF OcpTypeOK, DevType
<1>3. /\ dev'.alloc = dev.alloc /\ dev'.sem = dev.sem /\ dev'.major = dev.major
      /\ dev'.size = dev.size /\ dev'.virt = dev.virt
  BY <1>1, Zenon DEF OcpTypeOK, DevType
<1> QED
  BY <1>2, <1>3, Zenon

LEMMA ProbeClassEffect ==
  ASSUME OcpTypeOK, ProbeClass, dev.major \in Majors
  PROVE  /\ kern' \in KernType
         /\ kern'.regions = kern.regions /\ kern'.cdevs = kern.cdevs
         /\ kern'.iomem = kern.iomem
         /\ \/ /\ probe' = "sema" /\ dev' = dev /\ kern'.left = kern.left
            \/ /\ probe' = "unbound" /\ dev' = NoDev
               /\ kern'.left = kern.left \cup {dev.major}
               /\ kern'.nodes = kern.nodes
<1> DEFINE N == kern.nodes \cup {0}
           L == kern.left \cup {dev.major}
<1>1. kern \in KernType /\ N \in SUBSET Minors /\ L \in SUBSET Majors
  BY OcpAssumption DEF OcpTypeOK, KernType, Minors
<1>2. \/ kern' = [kern EXCEPT !.nodes = N] /\ probe' = "sema" /\ dev' = dev
      \/ kern' = [kern EXCEPT !.left = L] /\ probe' = "unbound" /\ dev' = NoDev
  BY Zenon DEF ProbeClass
<1> HIDE DEF N, L
<1>3. CASE kern' = [kern EXCEPT !.nodes = N] /\ probe' = "sema" /\ dev' = dev
  <2>1. kern' \in KernType
    BY <1>1, <1>3, Zenon DEF KernType
  <2>2. /\ kern'.regions = kern.regions /\ kern'.cdevs = kern.cdevs
        /\ kern'.iomem = kern.iomem /\ kern'.left = kern.left
    BY <1>1, <1>3, Zenon DEF KernType
  <2> QED
    BY <1>3, <2>1, <2>2, Zenon
<1>4. CASE kern' = [kern EXCEPT !.left = L] /\ probe' = "unbound" /\ dev' = NoDev
  <2>1. kern' \in KernType
    BY <1>1, <1>4, Zenon DEF KernType
  <2>2. /\ kern'.regions = kern.regions /\ kern'.cdevs = kern.cdevs
        /\ kern'.iomem = kern.iomem /\ kern'.nodes = kern.nodes
        /\ kern'.left = L
    BY <1>1, <1>4, Zenon DEF KernType
  <2> QED
    BY <1>4, <2>1, <2>2, Zenon DEF L
<1> QED
  BY <1>2, <1>3, <1>4, Zenon

LEMMA ProbeSemaEffect ==
  ASSUME OcpTypeOK, ProbeSema
  PROVE  /\ dev' \in DevType /\ dev'.alloc = dev.alloc /\ dev'.sem
         /\ dev'.major = dev.major /\ dev'.size = dev.size
         /\ dev'.virt = dev.virt
<1>1. dev' = [dev EXCEPT !.sem = TRUE]
  BY Zenon DEF ProbeSema
<1>2. dev' \in DevType
  BY <1>1, Zenon DEF OcpTypeOK, DevType
<1>3. /\ dev'.alloc = dev.alloc /\ dev'.sem /\ dev'.major = dev.major
      /\ dev'.size = dev.size /\ dev'.virt = dev.virt
  BY <1>1, Zenon DEF OcpTypeOK, DevType
<1> QED
  BY <1>2, <1>3, Zenon

(* The window loop of probe goes on with the first window not yet mapped   *)
(* (ocp.c 399-415).                                                        *)
LEMMA NextIsFirst ==
  ASSUME NEW n \in Index, \A i \in Index : dev.virt[i] <=> i < n
  PROVE  NextWindow = n
<1>1. Index \subseteq Int
  BY OcpAssumption DEF Index
<1>2. ~dev.virt[n] /\ \A j \in Index : j < n => dev.virt[j]
  BY <1>1
<1>3. /\ NextWindow \in Index /\ ~dev.virt[NextWindow]
      /\ \A j \in Index : j < NextWindow => dev.virt[j]
  BY <1>2, Zenon DEF NextWindow
<1> QED
  BY <1>1, <1>2, <1>3

LEMMA ProbeSizeEffect ==
  ASSUME OcpTypeOK, ProbeSize, dev.maps,
         NEW n \in Index, \A i \in Index : dev.virt[i] <=> i < n
  PROVE  /\ dev' \in DevType /\ dev'.alloc = dev.alloc /\ dev'.sem = dev.sem
         /\ dev'.major = dev.major /\ dev'.maps = dev.maps
         /\ dev'.size = [dev.size EXCEPT ![n] = Windows[n].size]
         /\ dev'.virt = dev.virt /\ probe' = "map" /\ oops' = oops
<1> DEFINE z == Windows[n].size
<1>1. dev \in DevType /\ z \in Nat
  BY OcpAssumption DEF OcpTypeOK, Index
<1>2. NextWindow = n
  BY NextIsFirst
<1>3. dev' = [dev EXCEPT !.size[n] = z] /\ probe' = "map" /\ oops' = oops
  BY <1>2, Zenon DEF ProbeSize
<1> HIDE DEF z
<1>4. dev' \in DevType
  BY <1>1, <1>3, Zenon DEF DevType
<1>5. /\ dev'.alloc = dev.alloc /\ dev'.sem = dev.sem /\ dev'.major = dev.major
      /\ dev'.maps = dev.maps /\ dev'.virt = dev.virt
      /\ dev'.size = [dev.size EXCEPT ![n] = z]
  BY <1>1, <1>3, Zenon DEF DevType
<1> QED
  BY <1>3, <1>4, <1>5, Zenon DEF z

LEMMA ProbeMapEffect ==
  ASSUME OcpTypeOK, ProbeMap,
         NEW n \in Index, \A i \in Index : dev.virt[i] <=> i < n
  PROVE  /\ dev' \in DevType /\ dev'.alloc = dev.alloc /\ dev'.sem = dev.sem
         /\ dev'.major = dev.major /\ dev'.maps = dev.maps
         /\ dev'.size = dev.size /\ dev'.virt = [dev.virt EXCEPT ![n] = TRUE]
         /\ kern' \in KernType /\ kern'.iomem = kern.iomem \cup {n}
         /\ kern'.regions = kern.regions /\ kern'.cdevs = kern.cdevs
         /\ kern'.left = kern.left
<1> DEFINE I == kern.iomem \cup {n}
           N == kern.nodes \cup {n + 1}
<1>1. /\ dev \in DevType /\ kern \in KernType
      /\ I \in SUBSET Index /\ N \in SUBSET Minors
  <2>1. n + 1 \in Minors
    BY OcpAssumption DEF Index, Minors
  <2> QED
    BY <2>1 DEF OcpTypeOK, KernType
<1>2. NextWindow = n
  BY NextIsFirst
<1>3. /\ dev' = [dev EXCEPT !.virt[n] = TRUE]
      /\ kern' = [kern EXCEPT !.iomem = I, !.nodes = N]
  BY <1>2, Zenon DEF ProbeMap
<1> HIDE DEF I, N
<1>4. dev' \in DevType
  BY <1>1, <1>3, Zenon DEF DevType
<1>5. /\ dev'.alloc = dev.alloc /\ dev'.sem = dev.sem /\ dev'.major = dev.major
      /\ dev'.maps = dev.maps /\ dev'.size = dev.size
      /\ dev'.virt = [dev.virt EXCEPT ![n] = TRUE]
  BY <1>1, <1>3, Zenon DEF DevType
<1>6. kern' \in KernType
  BY <1>1, <1>3, Zenon DEF KernType
<1>7. /\ kern'.iomem = I /\ kern'.regions = kern.regions
      /\ kern'.cdevs = kern.cdevs /\ kern'.left = kern.left
  BY <1>1, <1>3, Zenon DEF KernType
<1> QED
  BY <1>4, <1>5, <1>6, <1>7, Zenon DEF I

(* The cleanup frees the device and what it mapped (ocp.c 320-347).  The   *)
(* region it gives back is not the one it took, so none is freed.          *)
LEMMA RemoveEffect ==
  ASSUME OcpTypeOK, ocp_remove, dev.alloc
  PROVE  /\ dev' = NoDev /\ count' = 0 /\ cut' = 0 /\ oops' = oops
         /\ probe' = "unbound" /\ kern' \in KernType
         /\ kern'.regions = kern.regions /\ kern'.left = kern.left
         /\ kern'.cdevs = kern.cdevs \ {dev.major}
         /\ kern'.nodes = IF dev.maps THEN {} ELSE kern.nodes \ {0}
         /\ kern'.iomem = IF dev.maps THEN kern.iomem \ {i \in Index : dev.virt[i]}
                          ELSE kern.iomem
<1>1. kern.regions \subseteq [major : Majors, minors : {NumWindows + 1}]
  BY DEF OcpTypeOK, KernType
<1>2. unregister_chrdev_region(dev.major, NumWindows) = kern.regions
  <2>1. \A r \in kern.regions : r.minors # NumWindows
    BY <1>1, OcpAssumption
  <2> QED
    BY <2>1 DEF unregister_chrdev_region
<1> QED
  BY <1>2 DEF ocp_remove, OcpTypeOK, KernType

(* A read or write that returns leaves the position for the kernel to      *)
(* store, unless the call brought its own (ocp.c 120, 165).                *)
LEMMA ReturnsEffect ==
  ASSUME OcpTypeOK, NEW t \in Threads, NEW p \in Nat, Returns(t, p)
  PROVE  /\ op' \in [Threads -> OpType]
         /\ \A u \in Threads : u # t => op'[u] = op[u]
         /\ op[t].own => op'[t] = Idle
         /\ ~op[t].own => /\ op'[t].pc = "done" /\ op'[t].file = op[t].file
                         /\ ~op'[t].own /\ op'[t].pos = p
<1> DEFINE o == op[t]
           r == [o EXCEPT !.pc = "done", !.pos = p, !.n = 0]
           e == IF o.own THEN Idle ELSE r
<1>1. o \in OpType /\ 0 \in Nat
  BY DEF OcpTypeOK
<1> HIDE DEF o
<1>2. r \in OpType
  BY <1>1, Zenon DEF OpType
<1>3. r.pc = "done" /\ r.file = o.file /\ r.own = o.own /\ r.pos = p
  BY <1>1, Zenon DEF OpType
<1>4. op' = [op EXCEPT ![t] = e]
  BY Zenon DEF Returns, o
<1>5. e \in OpType
  BY <1>2, InitialTypes, Zenon
<1>6. /\ o.own => e = Idle
      /\ ~o.own => e.pc = "done" /\ e.file = o.file /\ ~e.own /\ e.pos = p
  BY <1>3, Zenon
<1> HIDE DEF r, e
<1>7. op' \in [Threads -> OpType] /\ op'[t] = e
      /\ \A u \in Threads : u # t => op'[u] = op[u]
  BY <1>4, <1>5 DEF OcpTypeOK
<1> QED
  BY <1>6, <1>7, Zenon DEF o

(* Storing a position changes nothing else of the files (ocp.c 257).       *)
LEMMA StorePos ==
  ASSUME OcpTypeOK, NEW f \in Files, NEW p \in Nat,
         files' = [files EXCEPT ![f].pos = p]
  PROVE  /\ files' \in [Files -> FileType] /\ files'[f].pos = p
         /\ \A g \in Files : /\ g # f => files'[g].pos = files[g].pos
                             /\ files'[g].open = files[g].open
                             /\ files'[g].minor = files[g].minor
                             /\ files'[g].gen = files[g].gen
                             /\ files'[g].loose = files[g].loose
<1> DEFINE o == files[f]
           r == [o EXCEPT !.pos = p]
<1>1. o \in FileType
  BY DEF OcpTypeOK
<1> HIDE DEF o
<1>2. r \in FileType
  BY <1>1, Zenon DEF FileType
<1>3. /\ r.pos = p /\ r.open = o.open /\ r.minor = o.minor /\ r.gen = o.gen
      /\ r.loose = o.loose
  BY <1>1, Zenon DEF FileType
<1>4. files' = [files EXCEPT ![f] = r]
  BY Zenon DEF o
<1> HIDE DEF r
<1>5. /\ files' \in [Files -> FileType] /\ files'[f] = r
      /\ \A g \in Files : g # f => files'[g] = files[g]
  BY <1>2, <1>4, Zenon DEF OcpTypeOK
<1> QED
  BY <1>3, <1>5, Zenon DEF o

-----------------------------------------------------------------------------
(* A step of probe or of the cleanup leaves the files and the calls alone. *)
LEMMA ProbeFrame ==
  ASSUME OcpInv, files' = files, op' = op, last' = NoAccess
  PROVE  /\ AccessInWindow' /\ PosAligned'
         /\ files' \in [Files -> FileType] /\ op' \in [Threads -> OpType]
         /\ last' \in [minor : Minors, lo : Nat, n : Nat]
<1>1. AccessInWindow'
  BY DEF AccessInWindow, NoAccess
<1>2. PosAligned'
  BY DEF OcpInv, PosAligned
<1> QED
  BY <1>1, <1>2, InitialTypes DEF OcpInv, OcpTypeOK

LEMMA ProbeStartStep == OcpInv /\ ProbeStart => OcpInv'
<1> SUFFICES ASSUME OcpInv, ProbeStart PROVE OcpInv'
  OBVIOUS
<1>1. /\ dev' \in DevType /\ ~dev'.sem /\ dev'.major = 0 /\ ~dev'.maps
      /\ dev'.size = NoDev.size /\ dev'.virt = NoDev.virt
      /\ \/ dev'.alloc /\ probe' = "region" /\ count' = 0
         \/ ~dev'.alloc /\ probe' = "nomem" /\ count' = count
  BY ProbeStartEffect
<1>2. /\ probe = "unbound" /\ loads' = loads + 1 /\ last' = NoAccess
      /\ kern' = kern /\ files' = files /\ op' = op /\ oops' = oops
      /\ cut' = cut
  BY DEF ProbeStart
<1>3. /\ AccessInWindow' /\ PosAligned' /\ files' \in [Files -> FileType]
      /\ op' \in [Threads -> OpType]
      /\ last' \in [minor : Minors, lo : Nat, n : Nat]
  BY <1>2, ProbeFrame
<1>4. OcpTypeOK'
  BY <1>1, <1>2, <1>3 DEF OcpInv, OcpTypeOK
<1>5. WindowsMapped' /\ MajorsApart' /\ ProbeOrder'
  BY <1>1, <1>2
  DEF OcpInv, WindowsMapped, MajorsApart, ProbeOrder, Registered, Mapping, NoDev
<1>6. FilesOfLoad'
  BY <1>1, <1>2 DEF OcpInv, OcpTypeOK, FilesOfLoad, FileType
<1>7. CountExact' /\ OnceBoundSafe'
  BY <1>1, <1>2 DEF OcpInv, CountExact, OnceBoundSafe
<1> QED
  BY <1>3, <1>4, <1>5, <1>6, <1>7 DEF OcpInv

LEMMA ProbeRegionStep == OcpInv /\ ProbeRegion => OcpInv'
<1> SUFFICES ASSUME OcpInv, ProbeRegion PROVE OcpInv'
  OBVIOUS
<1>1. /\ dev' \in DevType /\ kern' \in KernType
      /\ dev'.major \in Majors
      /\ dev'.major \notin {r.major : r \in kern.regions}
      /\ dev'.alloc = dev.alloc /\ dev'.sem = dev.sem
      /\ dev'.maps = dev.maps /\ dev'.size = dev.size /\ dev'.virt = dev.virt
      /\ kern'.regions = kern.regions
           \cup {[major |-> dev'.major, minors |-> NumWindows + 1]}
      /\ kern'.cdevs = kern.cdevs /\ kern'.left = kern.left
      /\ kern'.nodes = kern.nodes /\ kern'.iomem = kern.iomem
  BY ProbeRegionEffect DEF OcpInv
<1>2. /\ probe = "region" /\ count' = count
      /\ probe' = "cdev" /\ last' = NoAccess /\ files' = files /\ op' = op
      /\ oops' = oops /\ cut' = cut /\ loads' = loads
  BY DEF ProbeRegion
<1>3. /\ AccessInWindow' /\ PosAligned' /\ files' \in [Files -> FileType]
      /\ op' \in [Threads -> OpType]
      /\ last' \in [minor : Minors, lo : Nat, n : Nat]
  BY <1>2, ProbeFrame
<1>4. OcpTypeOK'
  BY <1>1, <1>2, <1>3 DEF OcpInv, OcpTypeOK
<1>5. WindowsMapped' /\ ProbeOrder'
  BY <1>1, <1>2
  DEF OcpInv, WindowsMapped, ProbeOrder, Registered, Mapping
<1>8. MajorsApart'
  <2>1. dev'.major \in {r.major : r \in kern'.regions}
    <3> DEFINE r0 == [major |-> dev'.major, minors |-> NumWindows + 1]
    <3>1. r0 \in kern'.regions
      BY <1>1, Zenon
    <3>2. r0.major = dev'.major
      BY Zenon
    <3> HIDE DEF r0
    <3> QED
      BY <3>1, <3>2, Zenon
  <2>2. {r.major : r \in kern.regions} \subseteq {r.major : r \in kern'.regions}
    BY <1>1
  <2> QED
    BY <1>1, <1>2, <2>1, <2>2 DEF OcpInv, MajorsApart, Registered
<1>6. FilesOfLoad'
  BY <1>1, <1>2
  DEF OcpInv, OcpTypeOK, FilesOfLoad, FileType, ProbeOrder, Mapping
<1>7. CountExact' /\ OnceBoundSafe'
  BY <1>1, <1>2 DEF OcpInv, ProbeOrder, Mapping, CountExact, OnceBoundSafe
<1> QED
  BY <1>3, <1>4, <1>5, <1>6, <1>7, <1>8 DEF OcpInv

LEMMA ProbeCdevStep == OcpInv /\ ProbeCdev => OcpInv'
<1> SUFFICES ASSUME OcpInv, ProbeCdev PROVE OcpInv'
  OBVIOUS
<1>0. dev.major \in Majors
  BY DEF OcpInv, MajorsApart, ProbeCdev
<1>1. /\ kern' \in KernType /\ kern'.cdevs = kern.cdevs \cup {dev.major}
      /\ kern'.regions = kern.regions /\ kern'.left = kern.left
      /\ kern'.nodes = kern.nodes /\ kern'.iomem = kern.iomem
  BY <1>0, ProbeCdevEffect DEF OcpInv
<1>2. /\ probe = "cdev" /\ dev' = dev /\ count' = count
      /\ probe' = "maps" /\ last' = NoAccess /\ files' = files /\ op' = op
      /\ oops' = oops /\ cut' = cut /\ loads' = loads
  BY DEF ProbeCdev
<1>3. /\ AccessInWindow' /\ PosAligned' /\ files' \in [Files -> FileType]
      /\ op' \in [Threads -> OpType]
      /\ last' \in [minor : Minors, lo : Nat, n : Nat]
  BY <1>2, ProbeFrame
<1>4. OcpTypeOK'
  BY <1>1, <1>2, <1>3 DEF OcpInv, OcpTypeOK
<1>5. WindowsMapped' /\ MajorsApart' /\ ProbeOrder'
  BY <1>1, <1>2, OcpAssumption
  DEF OcpInv, OcpTypeOK, WindowsMapped, MajorsApart, ProbeOrder, Registered,
      Mapping, NoDev, DevType, KernType
<1>6. FilesOfLoad'
  BY <1>1, <1>2
  DEF OcpInv, OcpTypeOK, FilesOfLoad, FileType, ProbeOrder, Mapping
<1>7. CountExact' /\ OnceBoundSafe'
  BY <1>1, <1>2 DEF OcpInv, ProbeOrder, Mapping, CountExact, OnceBoundSafe
<1> QED
  BY <1>3, <1>4, <1>5, <1>6, <1>7 DEF OcpInv

LEMMA ProbeMapsStep == OcpInv /\ ProbeMaps => OcpInv'
<1> SUFFICES ASSUME OcpInv, ProbeMaps PROVE OcpInv'
  OBVIOUS
<1>1. /\ dev' \in DevType /\ dev'.alloc = dev.alloc /\ dev'.sem = dev.sem
      /\ dev'.major = dev.major /\ dev'.size = dev.size /\ dev'.virt = dev.virt
  BY ProbeMapsEffect DEF OcpInv
<1>2. /\ probe = "maps" /\ kern' = kern /\ count' = count
      /\ probe' = "class" /\ last' = NoAccess /\ files' = files /\ op' = op
      /\ oops' = oops /\ cut' = cut /\ loads' = loads
  BY DEF ProbeMaps
<1>3. /\ AccessInWindow' /\ PosAligned' /\ files' \in [Files -> FileType]
      /\ op' \in [Threads -> OpType]
      /\ last' \in [minor : Minors, lo : Nat, n : Nat]
  BY <1>2, ProbeFrame
<1>4. OcpTypeOK'
  BY <1>1, <1>2, <1>3 DEF OcpInv, OcpTypeOK
<1>5. WindowsMapped' /\ MajorsApart' /\ ProbeOrder'
  BY <1>1, <1>2, OcpAssumption
  DEF OcpInv, OcpTypeOK, WindowsMapped, MajorsApart, ProbeOrder, Registered,
      Mapping, NoDev, DevType, KernType
<1>6. FilesOfLoad'
  BY <1>1, <1>2
  DEF OcpInv, OcpTypeOK, FilesOfLoad, FileType, ProbeOrder, Mapping
<1>7. CountExact' /\ OnceBoundSafe'
  BY <1>1, <1>2 DEF OcpInv, ProbeOrder, Mapping, CountExact, OnceBoundSafe
<1> QED
  BY <1>3, <1>4, <1>5, <1>6, <1>7 DEF OcpInv

LEMMA ProbeClassStep == OcpInv /\ ProbeClass => OcpInv'
<1> SUFFICES ASSUME OcpInv, ProbeClass PROVE OcpInv'
  OBVIOUS
<1>0. dev.major \in Majors
  BY DEF OcpInv, MajorsApart, ProbeClass, Registered
<1>1. /\ kern' \in KernType
      /\ kern'.regions = kern.regions /\ kern'.cdevs = kern.cdevs
      /\ kern'.iomem = kern.iomem
      /\ \/ /\ probe' = "sema" /\ dev' = dev /\ kern'.left = kern.left
         \/ /\ probe' = "unbound" /\ dev' = NoDev
            /\ kern'.left = kern.left \cup {dev.major}
            /\ kern'.nodes = kern.nodes
  BY <1>0, ProbeClassEffect DEF OcpInv
<1>2. /\ probe = "class" /\ count' = count
      /\ last' = NoAccess /\ files' = files /\ op' = op
      /\ oops' = oops /\ cut' = cut /\ loads' = loads
  BY DEF ProbeClass
<1>3. /\ AccessInWindow' /\ PosAligned' /\ files' \in [Files -> FileType]
      /\ op' \in [Threads -> OpType]
      /\ last' \in [minor : Minors, lo : Nat, n : Nat]
  BY <1>2, ProbeFrame
<1>4. OcpTypeOK'
  BY <1>1, <1>2, <1>3, InitialTypes DEF OcpInv, OcpTypeOK
<1>5. WindowsMapped' /\ ProbeOrder'
  BY <1>1, <1>2
  DEF OcpInv, WindowsMapped, ProbeOrder, Registered, Mapping, NoDev
<1>8. MajorsApart'
  BY <1>0, <1>1, <1>2, Zenon DEF OcpInv, MajorsApart, Registered
<1>6. FilesOfLoad'
  BY <1>1, <1>2
  DEF OcpInv, OcpTypeOK, FilesOfLoad, FileType, ProbeOrder, Mapping, NoDev
<1>7. CountExact' /\ OnceBoundSafe'
  BY <1>1, <1>2
  DEF OcpInv, ProbeOrder, Mapping, CountExact, OnceBoundSafe, NoDev
<1> QED
  BY <1>3, <1>4, <1>5, <1>6, <1>7, <1>8 DEF OcpInv

LEMMA ProbeSemaStep == OcpInv /\ ProbeSema => OcpInv'
<1> SUFFICES ASSUME OcpInv, ProbeSema PROVE OcpInv'
  OBVIOUS
<1>1. /\ dev' \in DevType /\ dev'.alloc = dev.alloc /\ dev'.sem
      /\ dev'.major = dev.major /\ dev'.size = dev.size /\ dev'.virt = dev.virt
  BY ProbeSemaEffect DEF OcpInv
<1>2. /\ probe = "sema" /\ probe' = "size" /\ kern' = kern /\ count' = 0
      /\ last' = NoAccess /\ files' = files /\ op' = op
      /\ oops' = oops /\ cut' = cut /\ loads' = loads
  BY DEF ProbeSema
<1>3. /\ AccessInWindow' /\ PosAligned' /\ files' \in [Files -> FileType]
      /\ op' \in [Threads -> OpType]
      /\ last' \in [minor : Minors, lo : Nat, n : Nat]
  BY <1>2, ProbeFrame
<1>4. OcpTypeOK'
  BY <1>1, <1>2, <1>3, InitialTypes DEF OcpInv, OcpTypeOK
<1>5. WindowsMapped'
  <2>1. 0 \in Index /\ \A i \in Index : ~(i < 0)
    BY OcpAssumption DEF Index
  <2> QED
    BY <1>1, <1>2, <2>1 DEF OcpInv, WindowsMapped, Mapping
<1>8. MajorsApart' /\ ProbeOrder'
  BY <1>1, <1>2 DEF OcpInv, MajorsApart, ProbeOrder, Registered, Mapping
<1>6. FilesOfLoad'
  BY <1>1, <1>2
  DEF OcpInv, OcpTypeOK, FilesOfLoad, FileType, ProbeOrder, Mapping, NoDev
<1>7. CountExact'
  <2>1. {f \in Files : files'[f].open /\ Alive(f)'} = {} /\ cut = 0
    BY <1>1, <1>2 DEF OcpInv, FilesOfLoad, ProbeOrder, Mapping, Alive
  <2> QED
    BY <1>2, <2>1, FS_EmptySet DEF CountExact
<1>9. OnceBoundSafe'
  BY <1>2 DEF OcpInv, OnceBoundSafe
<1> QED
  BY <1>3, <1>4, <1>5, <1>6, <1>7, <1>8, <1>9 DEF OcpInv

(* The count stays exact while neither files nor device change.            *)
LEMMA CountFrame ==
  ASSUME OcpInv, files' = files, count' = count, cut' = cut, loads' = loads,
         dev'.alloc = dev.alloc, dev'.sem = dev.sem
  PROVE  CountExact'
<1>1. {f \in Files : files'[f].open /\ Alive(f)'}
        = {f \in Files : files[f].open /\ Alive(f)}
  BY DEF Alive
<1> QED
  BY <1>1, Zenon DEF OcpInv, CountExact

LEMMA ProbeSizeStep == OcpInv /\ ProbeSize => OcpInv'
<1> SUFFICES ASSUME OcpInv, ProbeSize PROVE OcpInv'
  OBVIOUS
<1>1. /\ probe = "size" /\ last' = NoAccess /\ kern' = kern /\ count' = count
      /\ files' = files /\ op' = op /\ cut' = cut /\ loads' = loads
  BY DEF ProbeSize
<1>2. /\ AccessInWindow' /\ PosAligned' /\ files' \in [Files -> FileType]
      /\ op' \in [Threads -> OpType]
      /\ last' \in [minor : Minors, lo : Nat, n : Nat]
  BY <1>1, ProbeFrame
<1>3. CASE dev.maps
  <2>1. PICK n \in Index : \A i \in Index : dev.virt[i] <=> i < n
    BY <1>1 DEF OcpInv, WindowsMapped
  <2>2. /\ dev' \in DevType /\ dev'.alloc = dev.alloc /\ dev'.sem = dev.sem
        /\ dev'.major = dev.major /\ dev'.maps = dev.maps
        /\ dev'.size = [dev.size EXCEPT ![n] = Windows[n].size]
        /\ dev'.virt = dev.virt /\ probe' = "map" /\ oops' = oops
    BY <1>3, <2>1, ProbeSizeEffect DEF OcpInv
  <2>3. OcpTypeOK'
    BY <1>1, <1>2, <2>2 DEF OcpInv, OcpTypeOK
  <2>4. WindowsMapped'
    <3>1. \A i \in Index : dev'.size[i] \in {0, Windows[i].size}
      BY <2>2 DEF OcpInv, WindowsMapped, OcpTypeOK, DevType
    <3> QED
      BY <1>1, <1>3, <2>1, <2>2, <3>1 DEF OcpInv, WindowsMapped, Mapping
  <2>5. MajorsApart' /\ ProbeOrder'
    BY <1>1, <2>2 DEF OcpInv, MajorsApart, ProbeOrder, Registered, Mapping
  <2>6. FilesOfLoad'
    BY <1>1, <2>2 DEF OcpInv, FilesOfLoad
  <2>7. CountExact' /\ OnceBoundSafe'
    BY <1>1, <2>2, CountFrame DEF OcpInv, OnceBoundSafe
  <2> QED
    BY <1>2, <2>3, <2>4, <2>5, <2>6, <2>7 DEF OcpInv
<1>4. CASE ~dev.maps
  <2>1. /\ oops' = [what |-> "mappings", loose |-> TRUE] /\ dev' = dev
        /\ probe' = probe
    BY <1>4 DEF ProbeSize, Oops
  <2>2. OcpTypeOK'
    BY <1>1, <1>2, <2>1 DEF OcpInv, OcpTypeOK
  <2>3. WindowsMapped' /\ MajorsApart' /\ ProbeOrder' /\ FilesOfLoad'
    BY <1>1, <2>1, Zenon
    DEF OcpInv, WindowsMapped, MajorsApart, ProbeOrder, FilesOfLoad
  <2>4. CountExact' /\ OnceBoundSafe'
    BY <1>1, <2>1, CountFrame DEF OnceBoundSafe
  <2> QED
    BY <1>2, <2>2, <2>3, <2>4 DEF OcpInv
<1> QED
  BY <1>3, <1>4

LEMMA ProbeMapStep == OcpInv /\ ProbeMap => OcpInv'
<1> SUFFICES ASSUME OcpInv, ProbeMap PROVE OcpInv'
  OBVIOUS
<1>1. /\ probe = "map" /\ last' = NoAccess /\ count' = count /\ files' = files
      /\ op' = op /\ oops' = oops /\ cut' = cut /\ loads' = loads
      /\ probe' = IF \A i \in Index : dev'.virt[i] THEN "bound" ELSE "size"
  BY DEF ProbeMap
<1>2. /\ AccessInWindow' /\ PosAligned' /\ files' \in [Files -> FileType]
      /\ op' \in [Threads -> OpType]
      /\ last' \in [minor : Minors, lo : Nat, n : Nat]
  BY <1>1, ProbeFrame
<1>3. PICK n \in Index : \A i \in Index : dev.virt[i] <=> i < n
  BY <1>1 DEF OcpInv, WindowsMapped
<1>4. /\ dev' \in DevType /\ dev'.alloc = dev.alloc /\ dev'.sem = dev.sem
      /\ dev'.major = dev.major /\ dev'.maps = dev.maps
      /\ dev'.size = dev.size /\ dev'.virt = [dev.virt EXCEPT ![n] = TRUE]
      /\ kern' \in KernType /\ kern'.iomem = kern.iomem \cup {n}
      /\ kern'.regions = kern.regions /\ kern'.cdevs = kern.cdevs
      /\ kern'.left = kern.left
  BY <1>3, ProbeMapEffect DEF OcpInv
<1>5. OcpTypeOK'
  BY <1>1, <1>2, <1>4 DEF OcpInv, OcpTypeOK
<1>6. WindowsMapped'
  <2>1. \A i \in Index : dev'.virt[i] <=> i < n + 1
    <3>1. Index \subseteq Int
      BY OcpAssumption DEF Index
    <3>2. dev.virt \in [Index -> BOOLEAN]
      BY DEF OcpInv, OcpTypeOK, DevType
    <3>3. dev'.virt[n] /\ \A i \in Index : i # n => dev'.virt[i] = dev.virt[i]
      BY <1>4, <3>2, Zenon
    <3>4. \A i \in Index : i # n => (i < n <=> i < n + 1)
      BY <3>1
    <3>5. n < n + 1
      BY <3>1
    <3> QED
      BY <1>3, <3>3, <3>4, <3>5, Zenon
  <2>2. ASSUME probe' = "size" PROVE n + 1 \in Index
    <3>1. PICK i \in Index : ~dev'.virt[i]
      BY <1>1, <2>2
    <3>2. ~(i < n + 1) /\ i \in 0 .. NumWindows - 1 /\ n \in 0 .. NumWindows - 1
      BY <2>1, <3>1 DEF Index
    <3>3. NumWindows \in Nat
      BY OcpAssumption
    <3> QED
      BY <3>2, <3>3 DEF Index
  <2>3. \A i \in kern'.iomem : dev'.virt[i]
    <3>1. dev.virt \in [Index -> BOOLEAN] /\ kern.iomem \subseteq Index
      BY DEF OcpInv, OcpTypeOK, DevType, KernType
    <3> QED
      BY <1>4, <3>1 DEF OcpInv, WindowsMapped
  <2> QED
    BY <1>1, <1>4, <2>1, <2>2, <2>3 DEF OcpInv, WindowsMapped, Mapping
<1>7. MajorsApart' /\ ProbeOrder'
  BY <1>1, <1>4 DEF OcpInv, MajorsApart, ProbeOrder, Registered, Mapping
<1>8. FilesOfLoad'
  BY <1>1, <1>4 DEF OcpInv, FilesOfLoad
<1>9. CountExact' /\ OnceBoundSafe'
  BY <1>1, <1>4, CountFrame DEF OcpInv, OnceBoundSafe
<1> QED
  BY <1>2, <1>5, <1>6, <1>7, <1>8, <1>9 DEF OcpInv

(* The files an unbind leaves behind: as they were, but loose (ocp.c 320). *)
LEMMA OrphanedEffect ==
  ASSUME OcpTypeOK
  PROVE  /\ Orphaned \in [Files -> FileType]
         /\ \A g \in Files : /\ Orphaned[g].open = files[g].open
                             /\ Orphaned[g].pos = files[g].pos
                             /\ Orphaned[g].gen = files[g].gen
                             /\ Orphaned[g].open => Orphaned[g].loose
<1> DEFINE O(g) == [files[g] EXCEPT !.loose = @ \/ files[g].open]
<1>1. ASSUME NEW g \in Files
      PROVE  /\ O(g) \in FileType /\ O(g).open = files[g].open
             /\ O(g).pos = files[g].pos /\ O(g).gen = files[g].gen
             /\ O(g).open => O(g).loose
  <2> DEFINE o == files[g]
             l == o.loose \/ o.open
             r == [o EXCEPT !.loose = l]
  <2>1. o \in FileType /\ l \in BOOLEAN
    BY Zenon DEF OcpTypeOK
  <2>2. O(g) = r
    BY Zenon
  <2>3. o.open => l
    BY Zenon
  <2> HIDE DEF o, l
  <2>4. r \in FileType
    BY <2>1, Zenon DEF FileType
  <2>5. /\ r.open = o.open /\ r.pos = o.pos /\ r.gen = o.gen
        /\ r.loose = l
    BY <2>1, Zenon DEF FileType
  <2> HIDE DEF r, O
  <2> QED
    BY <2>2, <2>3, <2>4, <2>5, Zenon DEF o
<1>2. Orphaned = [g \in Files |-> O(g)]
  BY Zenon DEF Orphaned
<1> HIDE DEF O
<1> QED
  BY <1>1, <1>2, Zenon

(* The cleanup, from a failed step of probe or when the driver is unbound. *)
LEMMA CleanupStep ==
  ASSUME OcpInv, ocp_remove, last' = NoAccess, op' = op, loads' = loads,
         \/ /\ probe \in {"nomem", "region", "cdev", "map"}
            /\ files' = files
         \/ probe = "bound" /\ files' = Orphaned
  PROVE  OcpInv'
<1>0. /\ files' \in [Files -> FileType]
      /\ \A g \in Files : /\ files'[g].open = files[g].open
                          /\ files'[g].pos = files[g].pos
                          /\ files'[g].gen = files[g].gen
                          /\ files'[g].open /\ ~files'[g].loose
                              => ~files[g].loose /\ probe # "bound"
  <2>1. CASE probe = "bound" /\ files' = Orphaned
    BY <2>1, OrphanedEffect, Zenon DEF OcpInv
  <2>2. CASE probe \in {"nomem", "region", "cdev", "map"} /\ files' = files
    BY <2>2 DEF OcpInv, OcpTypeOK
  <2> QED
    BY <2>1, <2>2
<1>1. /\ AccessInWindow' /\ PosAligned' /\ files' \in [Files -> FileType]
      /\ op' \in [Threads -> OpType]
      /\ last' \in [minor : Minors, lo : Nat, n : Nat]
  <2>1. AccessInWindow'
    BY DEF AccessInWindow, NoAccess
  <2>2. PosAligned'
    BY <1>0 DEF OcpInv, PosAligned
  <2> QED
    BY <1>0, <2>1, <2>2, InitialTypes DEF OcpInv, OcpTypeOK
<1>2. CASE ~dev.alloc
  <2>1. /\ oops' = [what |-> "null", loose |-> TRUE] /\ dev' = dev
        /\ kern' = kern /\ count' = count /\ cut' = cut /\ probe' = "unbound"
    BY <1>2 DEF ocp_remove, Oops
  <2>2. probe = "nomem" /\ files' = files
    BY <1>2 DEF OcpInv, ProbeOrder
  <2>3. OcpTypeOK'
    BY <1>1, <2>1 DEF OcpInv, OcpTypeOK
  <2>4. WindowsMapped' /\ MajorsApart' /\ ProbeOrder' /\ FilesOfLoad'
    BY <2>1, <2>2
    DEF OcpInv, WindowsMapped, MajorsApart, ProbeOrder, FilesOfLoad,
        Registered, Mapping
  <2>5. CountExact' /\ OnceBoundSafe'
    BY <2>1, <2>2, CountFrame DEF OnceBoundSafe
  <2> QED
    BY <1>1, <2>3, <2>4, <2>5 DEF OcpInv
<1>3. CASE dev.alloc
  <2>1. /\ dev' = NoDev /\ count' = 0 /\ cut' = 0 /\ oops' = oops
        /\ probe' = "unbound" /\ kern' \in KernType
        /\ kern'.regions = kern.regions /\ kern'.left = kern.left
        /\ kern'.cdevs = kern.cdevs \ {dev.major}
        /\ kern'.nodes = IF dev.maps THEN {} ELSE kern.nodes \ {0}
        /\ kern'.iomem = IF dev.maps
                         THEN kern.iomem \ {i \in Index : dev.virt[i]}
                         ELSE kern.iomem
    BY <1>3, RemoveEffect DEF OcpInv
  <2>2. probe \in {"region", "cdev", "map", "bound"}
    BY <1>3 DEF OcpInv, ProbeOrder
  <2>3. OcpTypeOK'
    BY <1>1, <2>1, InitialTypes DEF OcpInv, OcpTypeOK
  <2>4. kern'.nodes = {} /\ kern'.iomem = {}
    <3>1. kern.iomem \subseteq {i \in Index : dev.virt[i]}
      BY DEF OcpInv, OcpTypeOK, KernType, WindowsMapped
    <3>2. dev.maps \/ (kern.nodes = {} /\ kern.iomem = {})
      BY <2>2 DEF OcpInv, WindowsMapped, ProbeOrder, Mapping
    <3> QED
      BY <2>1, <3>1, <3>2
  <2>5. WindowsMapped' /\ ProbeOrder'
    BY <2>1, <2>4 DEF WindowsMapped, ProbeOrder, NoDev, Mapping
  <2>6. MajorsApart'
    <3>1. kern.cdevs \ {dev.major} = kern.left
      <4>1. CASE probe = "region"
        <5>1. dev.major = 0 /\ kern.cdevs = kern.left /\ 0 \notin kern.left
          BY <4>1, OcpAssumption
          DEF OcpInv, OcpTypeOK, KernType, ProbeOrder, MajorsApart, Registered
        <5> QED
          BY <5>1
      <4>2. CASE probe \in {"cdev", "map", "bound"}
        BY <4>2 DEF OcpInv, MajorsApart, Registered
      <4> QED
        BY <2>2, <4>1, <4>2
    <3> QED
      BY <2>1, <3>1 DEF OcpInv, MajorsApart, Registered
  <2>7. FilesOfLoad'
    <3>1. ~dev'.alloc
      BY <2>1 DEF NoDev
    <3>2. \A g \in Files : files'[g].open =>
            files'[g].gen <= loads' /\ files'[g].loose
      BY <1>0, Zenon DEF OcpInv, FilesOfLoad
    <3>3. \A t \in Threads : op'[t].pc # "idle" =>
            /\ op'[t].file \in Files /\ files'[op'[t].file].open
            /\ ~op'[t].own => op'[t].pos % Word = 0
            /\ op'[t].pc = "done" => ~op'[t].own
      BY <1>0, Zenon DEF OcpInv, FilesOfLoad
    <3> QED
      BY <3>1, <3>2, <3>3, Zenon DEF FilesOfLoad
  <2>8. CountExact' /\ OnceBoundSafe'
    BY <2>1 DEF OcpInv, CountExact, OnceBoundSafe, NoDev
  <2> QED
    BY <1>1, <2>3, <2>5, <2>6, <2>7, <2>8 DEF OcpInv
<1> QED
  BY <1>2, <1>3

-----------------------------------------------------------------------------
(* The calls on files leave the device and the kernel's items alone.       *)
LEMMA DeviceFrame ==
  ASSUME OcpInv, probe' = probe, dev' = dev, kern' = kern
  PROVE  /\ WindowsMapped' /\ MajorsApart'
         /\ cut' = cut \/ dev.sem => ProbeOrder'
  BY Zenon DEF OcpInv, WindowsMapped, MajorsApart, ProbeOrder

(* The files a count stands for: finite, and one more or less with a file. *)
LEMMA CountedFiles ==
  ASSUME NEW S \in SUBSET Files
  PROVE  /\ IsFiniteSet(S) /\ Cardinality(S) \in Nat
         /\ \A f \in Files \ S : Cardinality(S \cup {f}) = Cardinality(S) + 1
         /\ \A f \in S : Cardinality(S \ {f}) = Cardinality(S) - 1
<1>1. IsFiniteSet(S)
  BY OcpAssumption, FS_Subset
<1>2. Cardinality(S) \in Nat
  BY <1>1, FS_CardinalityType
<1>3. \A f \in Files \ S : Cardinality(S \cup {f}) = Cardinality(S) + 1
  BY <1>1, FS_AddElement
<1>4. \A f \in S : Cardinality(S \ {f}) = Cardinality(S) - 1
  BY <1>1, FS_RemoveElement
<1> QED
  BY <1>1, <1>2, <1>3, <1>4

LEMMA OpenStep ==
  ASSUME OcpInv, oops = NoOops, NEW f \in Files, NEW minor \in Minors,
         ocp_open(f, minor)
  PROVE  OcpInv'
<1> DEFINE S == {g \in Files : files[g].open /\ Alive(g)}
<1>1. /\ ~files[f].open /\ last' = NoAccess /\ probe' = probe /\ dev' = dev
      /\ kern' = kern /\ op' = op /\ cut' = cut /\ loads' = loads
  BY DEF ocp_open
<1>2. WindowsMapped' /\ MajorsApart' /\ ProbeOrder'
  BY <1>1, DeviceFrame
<1>3. AccessInWindow'
  BY <1>1 DEF AccessInWindow, NoAccess
<1>4. CASE dev.sem
  <2> DEFINE r == [open |-> TRUE, minor |-> minor, pos |-> 0, gen |-> loads,
                   loose |-> probe # "bound"]
  <2>1. /\ count' = count + 1 /\ oops' = oops
        /\ files' = [files EXCEPT ![f] = r]
    BY <1>4 DEF ocp_open
  <2>2. r \in FileType
    BY DEF OcpInv, OcpTypeOK, FileType
  <2>8. r.open /\ r.pos = 0 /\ r.gen = loads /\ (r.loose <=> probe # "bound")
    BY Zenon
  <2> HIDE DEF r
  <2>3. /\ files' \in [Files -> FileType] /\ files'[f] = r
        /\ \A g \in Files : g # f => files'[g] = files[g]
    BY <2>1, <2>2 DEF OcpInv, OcpTypeOK
  <2>4. OcpTypeOK'
    BY <1>1, <2>1, <2>3, InitialTypes DEF OcpInv, OcpTypeOK
  <2>5. FilesOfLoad'
    BY <1>1, <1>4, <2>3, <2>8 DEF OcpInv, OcpTypeOK, FilesOfLoad
  <2>6. PosAligned'
    <3>1. 0 % Word = 0
      BY OcpAssumption
    <3> QED
      BY <2>3, <2>8, <3>1 DEF OcpInv, PosAligned
  <2>7. CountExact'
    <3>1. dev.alloc
      BY <1>4 DEF OcpInv, ProbeOrder, Mapping
    <3>2. {g \in Files : files'[g].open /\ Alive(g)'} = S \cup {f}
      BY <1>1, <2>3, <2>8, <3>1 DEF Alive
    <3>3. f \in Files \ S /\ S \in SUBSET Files
      BY <1>1
    <3>4. Cardinality(S \cup {f}) = Cardinality(S) + 1 /\ Cardinality(S) \in Nat
      BY <3>3, CountedFiles
    <3>5. count = Cardinality(S) + cut /\ cut \in Nat
      BY <1>4 DEF OcpInv, OcpTypeOK, CountExact
    <3> HIDE DEF S
    <3>6. count' = Cardinality(S \cup {f}) + cut'
      BY <1>1, <2>1, <3>4, <3>5
    <3> QED
      BY <3>2, <3>6 DEF CountExact
  <2> QED
    BY <1>2, <1>3, <2>1, <2>4, <2>5, <2>6, <2>7 DEF OcpInv, OnceBoundSafe
<1>5. CASE ~dev.sem
  <2>1. /\ oops' = [what |-> "sem", loose |-> probe # "bound"]
        /\ count' = count /\ files' = files
    BY <1>5 DEF ocp_open, Oops
  <2>2. OcpTypeOK'
    BY <1>1, <2>1, InitialTypes DEF OcpInv, OcpTypeOK
  <2>3. FilesOfLoad' /\ PosAligned'
    BY <1>1, <2>1 DEF OcpInv, FilesOfLoad, PosAligned
  <2>4. CountExact'
    BY <1>1, <2>1, CountFrame
  <2>5. OnceBoundSafe'
    BY <1>5, <2>1 DEF OcpInv, ProbeOrder, Mapping, OnceBoundSafe
  <2> QED
    BY <1>2, <1>3, <2>2, <2>3, <2>4, <2>5 DEF OcpInv
<1> QED
  BY <1>4, <1>5

(* Both closes: the one that takes the semaphore and gives the count back, *)
(* and the one a signal cuts short (ocp.c 84-93).                          *)
LEMMA ReleaseStep ==
  ASSUME OcpInv, oops = NoOops, NEW f \in Files,
         ocp_release(f) \/ ocp_release_interrupted(f)
  PROVE  OcpInv'
<1> DEFINE S == {g \in Files : files[g].open /\ Alive(g)}
<1>1. /\ files[f].open /\ Unused(f) /\ files' = [files EXCEPT ![f] = Closed]
      /\ last' = NoAccess /\ probe' = probe /\ dev' = dev
      /\ kern' = kern /\ op' = op /\ loads' = loads
  BY DEF ocp_release, ocp_release_interrupted
<1>2. /\ files' \in [Files -> FileType] /\ files'[f] = Closed
      /\ \A g \in Files : g # f => files'[g] = files[g]
  BY <1>1, InitialTypes DEF OcpInv, OcpTypeOK
<1>3. \/ Alive(f) /\ count' = count - 1 /\ oops' = oops /\ cut' = cut
      \/ Alive(f) /\ count' = count /\ oops' = oops /\ cut' = cut + 1
      \/ /\ ~Alive(f) /\ count' = count /\ cut' = cut
         /\ oops' = [what |-> "freed", loose |-> files[f].loose]
  BY DEF ocp_release, ocp_release_interrupted, Oops
<1>4. OcpTypeOK'
  BY <1>1, <1>2, <1>3, InitialTypes DEF OcpInv, OcpTypeOK, FileType
<1>5. WindowsMapped' /\ MajorsApart' /\ ProbeOrder'
  <2>1. Alive(f) => dev.sem
    BY <1>1 DEF OcpInv, FilesOfLoad, Alive
  <2> QED
    BY <1>1, <1>3, <2>1, DeviceFrame
<1>6. FilesOfLoad'
  <2>1. ~Closed.open
    BY DEF Closed
  <2>2. \A t \in Threads : op[t].pc # "idle" => op[t].file # f
    BY <1>1 DEF Unused
  <2> QED
    BY <1>1, <1>2, <2>1, <2>2 DEF OcpInv, FilesOfLoad
<1>7. PosAligned' /\ AccessInWindow'
  BY <1>1, <1>2, OcpAssumption
  DEF OcpInv, PosAligned, AccessInWindow, Closed, NoAccess
<1>8. OnceBoundSafe'
  <2>1. Alive(f) \/ files[f].loose
    BY <1>1 DEF OcpInv, FilesOfLoad, ProbeOrder, Alive
  <2> QED
    BY <1>3, <2>1 DEF OcpInv, OnceBoundSafe
<1>9. CountExact'
  <2>1. {g \in Files : files'[g].open /\ Alive(g)'} = S \ {f}
    BY <1>1, <1>2 DEF Alive, Closed
  <2>2. S \in SUBSET Files /\ (Alive(f) => f \in S) /\ (~Alive(f) => S \ {f} = S)
    BY <1>1
  <2>3. /\ Cardinality(S) \in Nat
        /\ Alive(f) => Cardinality(S \ {f}) = Cardinality(S) - 1
    BY <2>2, CountedFiles
  <2>4. dev.sem => count = Cardinality(S) + cut
    BY DEF OcpInv, CountExact
  <2>5. count \in Int /\ cut \in Nat /\ Cardinality(S) \in Nat
    BY <2>3 DEF OcpInv, OcpTypeOK
  <2> HIDE DEF S
  <2>6. dev.sem => count' = Cardinality(S \ {f}) + cut'
    <3>1. CASE Alive(f) /\ count' = count - 1 /\ cut' = cut
      BY <2>3, <2>4, <2>5, <3>1
    <3>2. CASE Alive(f) /\ count' = count /\ cut' = cut + 1
      BY <2>3, <2>4, <2>5, <3>2
    <3>3. CASE ~Alive(f) /\ count' = count /\ cut' = cut
      BY <2>2, <2>4, <3>3
    <3> QED
      BY <1>3, <3>1, <3>2, <3>3
  <2> QED
    BY <1>1, <2>1, <2>6 DEF CountExact
<1> QED
  BY <1>4, <1>5, <1>6, <1>7, <1>8, <1>9 DEF OcpInv

(* A position that is stored is whole words, and leaves the count and what *)
(* the files were opened on as they are.                                   *)
LEMMA StorePosStep ==
  ASSUME OcpInv, NEW f \in Files, NEW p \in Nat, p % Word = 0,
         files' = [files EXCEPT ![f].pos = p],
         probe' = probe, dev' = dev, kern' = kern, loads' = loads,
         count' = count, cut' = cut
  PROVE  /\ files' \in [Files -> FileType] /\ PosAligned' /\ CountExact'
         /\ WindowsMapped' /\ MajorsApart' /\ ProbeOrder'
         /\ \A g \in Files : /\ files'[g].open = files[g].open
                             /\ files'[g].gen = files[g].gen
                             /\ files'[g].loose = files[g].loose
<1>1. /\ files' \in [Files -> FileType] /\ files'[f].pos = p
      /\ \A g \in Files : /\ g # f => files'[g].pos = files[g].pos
                          /\ files'[g].open = files[g].open
                          /\ files'[g].minor = files[g].minor
                          /\ files'[g].gen = files[g].gen
                          /\ files'[g].loose = files[g].loose
  BY StorePos DEF OcpInv
<1>2. PosAligned'
  BY <1>1 DEF OcpInv, PosAligned
<1>3. CountExact'
  <2>1. {g \in Files : files'[g].open /\ Alive(g)'}
          = {g \in Files : files[g].open /\ Alive(g)}
    BY <1>1 DEF Alive
  <2> QED
    BY <2>1, Zenon DEF OcpInv, CountExact
<1>4. WindowsMapped' /\ MajorsApart' /\ ProbeOrder'
  BY DeviceFrame
<1> QED
  BY <1>1, <1>2, <1>3, <1>4, Zenon

LEMMA SeekStep ==
  ASSUME OcpInv, oops = NoOops, NEW f \in Files, ocp_llseek(f)
  PROVE  OcpInv'
<1>1. /\ files[f].open /\ last' = NoAccess /\ probe' = probe /\ dev' = dev
      /\ kern' = kern /\ count' = count /\ op' = op /\ cut' = cut
      /\ loads' = loads
  BY Zenon DEF ocp_llseek
<1>2. AccessInWindow'
  BY <1>1 DEF AccessInWindow, NoAccess
<1>3. CASE ~Alive(f)
  <2>1. oops' = [what |-> "freed", loose |-> files[f].loose] /\ files' = files
    BY <1>3, Zenon DEF ocp_llseek, Oops
  <2>2. OcpTypeOK'
    BY <1>1, <2>1, InitialTypes DEF OcpInv, OcpTypeOK, FileType
  <2>3. WindowsMapped' /\ MajorsApart' /\ ProbeOrder' /\ CountExact'
    BY <1>1, <2>1, DeviceFrame, CountFrame
  <2>4. FilesOfLoad' /\ PosAligned'
    BY <1>1, <2>1 DEF OcpInv, FilesOfLoad, PosAligned
  <2>5. OnceBoundSafe'
    BY <1>1, <1>3, <2>1
    DEF OcpInv, FilesOfLoad, ProbeOrder, Alive, OnceBoundSafe
  <2> QED
    BY <1>2, <2>2, <2>3, <2>4, <2>5 DEF OcpInv
<1>5. CASE /\ Alive(f) /\ ~dev.maps /\ files' = files
           /\ Oops("mappings", files[f].loose)
  <2>1. oops' = [what |-> "mappings", loose |-> files[f].loose]
    BY <1>5, Zenon DEF Oops
  <2>2. OcpTypeOK'
    BY <1>1, <1>5, <2>1, InitialTypes DEF OcpInv, OcpTypeOK, FileType
  <2>3. WindowsMapped' /\ MajorsApart' /\ ProbeOrder' /\ CountExact'
    BY <1>1, <1>5, DeviceFrame, CountFrame
  <2>4. FilesOfLoad' /\ PosAligned'
    BY <1>1, <1>5 DEF OcpInv, FilesOfLoad, PosAligned
  <2>5. OnceBoundSafe'
    BY <1>1, <1>5, <2>1
    DEF OcpInv, FilesOfLoad, WindowsMapped, OnceBoundSafe
  <2> QED
    BY <1>2, <2>2, <2>3, <2>4, <2>5 DEF OcpInv
<1>4. CASE Alive(f) /\ oops' = oops
  <2>1. PICK off \in Offsets,
             base \in {0, files[f].pos,
                       dev.size[minor_to_mapping_index(files[f].minor)]} :
          /\ Aligned(base + off) /\ oops' = oops
          /\ files' = [files EXCEPT ![f].pos = base + off]
    <3>1. oops' = oops /\ oops.what # "freed" /\ oops.what # "mappings"
      BY <1>4 DEF NoOops
    <3>2. /\ ~Oops("freed", files[f].loose)
          /\ ~Oops("mappings", files[f].loose)
      BY <3>1 DEF Oops
    <3> QED
      BY <1>4, <3>2, Zenon DEF ocp_llseek
  <2> DEFINE p == base + off
  <2>2. p \in Nat /\ p % Word = 0
    <3>1. minor_to_mapping_index(files[f].minor) \in Index
      <4>1. files[f].minor \in 0 .. NumWindows /\ NumWindows \in Nat \ {0}
        BY OcpAssumption DEF OcpInv, OcpTypeOK, FileType, Minors
      <4> QED
        BY <4>1 DEF minor_to_mapping_index, Index
    <3>2. files[f].pos \in Nat /\ dev.size \in [Index -> Nat]
      BY DEF OcpInv, OcpTypeOK, FileType, DevType
    <3>3. base \in Nat /\ off \in Int
      BY <3>1, <3>2, OcpAssumption
    <3> QED
      BY <2>1, <3>3 DEF Aligned
  <2>3. files' = [files EXCEPT ![f].pos = p]
    BY <2>1, Zenon
  <2> HIDE DEF p
  <2>4. /\ files' \in [Files -> FileType] /\ PosAligned' /\ CountExact'
        /\ WindowsMapped' /\ MajorsApart' /\ ProbeOrder'
        /\ \A g \in Files : /\ files'[g].open = files[g].open
                            /\ files'[g].gen = files[g].gen
                            /\ files'[g].loose = files[g].loose
    BY <1>1, <2>2, <2>3, StorePosStep, Zenon
  <2>5. oops' = oops
    BY <2>1, Zenon
  <2>6. OcpTypeOK'
    BY <1>1, <2>4, <2>5, InitialTypes DEF OcpInv, OcpTypeOK
  <2>7. FilesOfLoad' /\ OnceBoundSafe'
    BY <1>1, <2>4, <2>5 DEF OcpInv, FilesOfLoad, OnceBoundSafe
  <2> QED
    BY <1>2, <2>4, <2>6, <2>7 DEF OcpInv
<1> QED
  BY <1>3, <1>4, <1>5, Zenon DEF ocp_llseek

LEMMA EnterStep ==
  ASSUME OcpInv, oops = NoOops, NEW t \in Threads, NEW f \in Files,
         vfs_enter(t, f)
  PROVE  OcpInv'
<1>1. /\ files[f].open /\ last' = NoAccess /\ probe' = probe /\ dev' = dev
      /\ kern' = kern /\ count' = count /\ files' = files /\ oops' = oops
      /\ cut' = cut /\ loads' = loads
  BY DEF vfs_enter
<1>2. PICK n \in Nat, own \in BOOLEAN, p \in Nat :
        /\ op' = [op EXCEPT ![t] = [pc |-> "call", file |-> f, own |-> own,
                                    pos |-> p, n |-> n]]
        /\ ~own => p % Word = 0
  <2>1. files[f].pos \in Nat /\ files[f].pos % Word = 0 /\ Counts \subseteq Nat
    BY OcpAssumption DEF OcpInv, OcpTypeOK, FileType, PosAligned
  <2> QED
    BY <2>1 DEF vfs_enter
<1> DEFINE o == [pc |-> "call", file |-> f, own |-> own, pos |-> p, n |-> n]
<1>3. /\ o \in OpType /\ o.pc = "call" /\ o.file = f /\ o.own = own
      /\ o.pos = p
  BY DEF OpType
<1> HIDE DEF o
<1>4. /\ op' \in [Threads -> OpType] /\ op'[t] = o
      /\ \A u \in Threads : u # t => op'[u] = op[u]
  BY <1>2, <1>3 DEF OcpInv, OcpTypeOK, o
<1>5. OcpTypeOK'
  BY <1>1, <1>4, InitialTypes DEF OcpInv, OcpTypeOK
<1>6. WindowsMapped' /\ MajorsApart' /\ ProbeOrder' /\ CountExact'
  BY <1>1, DeviceFrame, CountFrame
<1>7. FilesOfLoad'
  BY <1>1, <1>2, <1>3, <1>4 DEF OcpInv, FilesOfLoad
<1>8. AccessInWindow' /\ PosAligned' /\ OnceBoundSafe'
  BY <1>1 DEF OcpInv, AccessInWindow, PosAligned, OnceBoundSafe, NoAccess
<1> QED
  BY <1>5, <1>6, <1>7, <1>8 DEF OcpInv

LEMMA LeaveStep ==
  ASSUME OcpInv, oops = NoOops, NEW t \in Threads, vfs_leave(t)
  PROVE  OcpInv'
<1> DEFINE f == op[t].file
           p == op[t].pos
<1>1. /\ op[t].pc = "done" /\ files' = [files EXCEPT ![f].pos = p]
      /\ op' = [op EXCEPT ![t] = Idle] /\ last' = NoAccess /\ probe' = probe
      /\ dev' = dev /\ kern' = kern /\ count' = count /\ oops' = oops
      /\ cut' = cut /\ loads' = loads
  BY Zenon DEF vfs_leave
<1>2. op[t].pc = "done"
  BY <1>1, Zenon
<1>3. f \in Files /\ p \in Nat /\ p % Word = 0
  BY <1>2 DEF OcpInv, OcpTypeOK, FilesOfLoad, OpType
<1> HIDE DEF f, p
<1>4. /\ files' \in [Files -> FileType] /\ PosAligned' /\ CountExact'
      /\ WindowsMapped' /\ MajorsApart' /\ ProbeOrder'
      /\ \A g \in Files : /\ files'[g].open = files[g].open
                          /\ files'[g].gen = files[g].gen
                          /\ files'[g].loose = files[g].loose
  BY <1>1, <1>3, StorePosStep, Zenon
<1>5. /\ op' = [op EXCEPT ![t] = Idle] /\ last' = NoAccess /\ probe' = probe
      /\ dev' = dev /\ kern' = kern /\ count' = count /\ oops' = oops
      /\ cut' = cut /\ loads' = loads
  BY <1>1, Zenon
<1>6. /\ op' \in [Threads -> OpType] /\ op'[t] = Idle
      /\ \A u \in Threads : u # t => op'[u] = op[u]
  BY <1>5, InitialTypes DEF OcpInv, OcpTypeOK
<1>7. OcpTypeOK'
  BY <1>4, <1>5, <1>6, InitialTypes DEF OcpInv, OcpTypeOK
<1>8. FilesOfLoad'
  BY <1>4, <1>5, <1>6 DEF OcpInv, FilesOfLoad, Idle
<1>9. AccessInWindow' /\ OnceBoundSafe'
  BY <1>5 DEF OcpInv, AccessInWindow, OnceBoundSafe, NoAccess
<1> QED
  BY <1>4, <1>7, <1>8, <1>9 DEF OcpInv

(* The window of a minor, and what its device holds for it: nothing yet or *)
(* the whole window, which 32 bits can address (ocp.c 47-53, 287).         *)
LEMMA WindowOf ==
  ASSUME OcpInv, NEW minor \in Minors
  PROVE  LET i == minor_to_mapping_index(minor)
         IN /\ i \in Index /\ i = (IF minor = 0 THEN 0 ELSE minor - 1)
            /\ Windows[i].phys \in Nat /\ Windows[i].size \in Nat
            /\ Windows[i].size % Word = 0
            /\ Windows[i].phys + Windows[i].size < UintMod
            /\ dev.size[i] \in {0, Windows[i].size}
<1> DEFINE i == minor_to_mapping_index(minor)
<1>1. minor \in 0 .. NumWindows /\ NumWindows \in Nat \ {0}
  BY OcpAssumption DEF Minors
<1>2. i \in Index /\ i = (IF minor = 0 THEN 0 ELSE minor - 1)
  BY <1>1 DEF minor_to_mapping_index, Index
<1> HIDE DEF i
<1>3. i \in 0 .. NumWindows - 1
  BY <1>2 DEF Index
<1>4. /\ Windows[i].phys \in Nat /\ Windows[i].size \in Nat
      /\ Windows[i].size % Word = 0
      /\ Windows[i].phys + Windows[i].size < UintMod
  BY <1>3, OcpAssumption
<1>5. dev.size[i] \in {0, Windows[i].size}
  BY <1>2 DEF OcpInv, WindowsMapped
<1> QED
  BY <1>2, <1>4, <1>5, Zenon DEF i

LEMMA MmapStep ==
  ASSUME OcpInv, oops = NoOops, NEW f \in Files, ocp_mmap(f)
  PROVE  OcpInv'
<1>1. /\ files[f].open /\ probe' = probe /\ dev' = dev /\ kern' = kern
      /\ count' = count /\ files' = files /\ op' = op /\ cut' = cut
      /\ loads' = loads
  BY Zenon DEF ocp_mmap
<1>2. WindowsMapped' /\ MajorsApart' /\ ProbeOrder' /\ CountExact'
  BY <1>1, DeviceFrame, CountFrame
<1>3. FilesOfLoad' /\ PosAligned'
  BY <1>1 DEF OcpInv, FilesOfLoad, PosAligned
<1>4. CASE ~Alive(f) \/ ~dev.maps
  <2> DEFINE what == IF Alive(f) THEN "mappings" ELSE "freed"
  <2>1. oops' = [what |-> what, loose |-> files[f].loose] /\ last' = last
    BY <1>4, Zenon DEF ocp_mmap, Oops
  <2>5. what \in {"mappings", "freed"}
    OBVIOUS
  <2> HIDE DEF what
  <2>2. OcpTypeOK'
    BY <1>1, <2>1, <2>5 DEF OcpInv, OcpTypeOK, FileType
  <2>3. OnceBoundSafe'
    <3>1. files[f].loose
      BY <1>1, <1>4 DEF OcpInv, FilesOfLoad, ProbeOrder, WindowsMapped, Alive
    <3> QED
      BY <2>1, <3>1 DEF OnceBoundSafe
  <2>4. AccessInWindow'
    BY <2>1 DEF OcpInv, AccessInWindow
  <2> QED
    BY <1>2, <1>3, <2>2, <2>3, <2>4 DEF OcpInv
<1>5. CASE Alive(f) /\ dev.maps
  <2> DEFINE m == files[f].minor
             i == minor_to_mapping_index(m)
             available == dev.size[i] % UintMod
  <2>1. PICK pgoff \in 0 .. UintMod \div Page, pages \in 0 .. UintMod \div Page :
          /\ Fits(pgoff * Page, pages * Page, available)
          /\ oops' = oops
          /\ last' = [minor |-> m, n |-> pages * Page,
                      lo |-> (Windows[i].phys + pgoff * Page) % UintMod]
    BY <1>5, Zenon DEF ocp_mmap
  <2> DEFINE off == pgoff * Page
             len == pages * Page
             w == Windows[i]
  <2>2. off \in Nat /\ len \in Nat
    BY OcpAssumption
  <2>3. m \in Minors
    BY DEF OcpInv, OcpTypeOK, FileType
  <2>4. /\ i = (IF m = 0 THEN 0 ELSE m - 1) /\ w.phys \in Nat /\ w.size \in Nat
        /\ w.phys + w.size < UintMod /\ dev.size[i] \in {0, w.size}
    BY <2>3, WindowOf
  <2>5. last' = [minor |-> m, n |-> len, lo |-> (w.phys + off) % UintMod]
    BY <2>1, Zenon
  <2>6. off + len <= dev.size[i] % UintMod
    BY <2>1, Zenon DEF Fits
  <2> HIDE DEF off, len, w, i, m
  <2>7. UintMod \in Nat /\ dev.size[i] \in Nat /\ dev.size[i] <= w.size
    <3>1. UintMod \in Nat
      BY OcpAssumption
    <3> QED
      BY <2>4, <3>1
  <2>8. dev.size[i] % UintMod = dev.size[i]
    BY <2>4, <2>7
  <2>9. off + len <= w.size
    BY <2>2, <2>4, <2>6, <2>7, <2>8
  <2>10. (w.phys + off) % UintMod = w.phys + off
    BY <2>2, <2>4, <2>7, <2>9
  <2>11. last' = [minor |-> m, n |-> len, lo |-> w.phys + off]
    BY <2>5, <2>10, Zenon
  <2>12. AccessInWindow'
    <3>1. last'.minor = m /\ last'.n = len /\ last'.lo = w.phys + off
      BY <2>11
    <3>2. Windows[IF last'.minor = 0 THEN 0 ELSE last'.minor - 1] = w
      BY <2>4, <3>1, Zenon DEF w
    <3>3. w.phys <= last'.lo /\ last'.lo + last'.n <= w.phys + w.size
      BY <2>2, <2>4, <2>9, <3>1
    <3> QED
      BY <3>2, <3>3, Zenon DEF AccessInWindow
  <2>13. oops' = oops
    BY <2>1, Zenon
  <2>14. OcpTypeOK' /\ OnceBoundSafe'
    BY <1>1, <2>2, <2>3, <2>4, <2>11, <2>13
    DEF OcpInv, OcpTypeOK, OnceBoundSafe
  <2> QED
    BY <1>2, <1>3, <2>12, <2>14 DEF OcpInv
<1> QED
  BY <1>4, <1>5

(* A call that ends: its position is dropped, or left to be stored, and    *)
(* then it is whole words.                                                 *)
LEMMA CallEnds ==
  ASSUME OcpInv, NEW t \in Threads, op[t].pc = "call",
         probe' = probe, dev' = dev, kern' = kern, count' = count,
         files' = files, cut' = cut, loads' = loads, oops' = oops,
         last' \in [minor : Minors, lo : Nat, n : Nat], AccessInWindow',
         \/ op' = [op EXCEPT ![t] = Idle]
         \/ \E p \in Nat : Returns(t, p) /\ (~op[t].own => p % Word = 0)
  PROVE  OcpInv'
<1>1. WindowsMapped' /\ MajorsApart' /\ ProbeOrder' /\ CountExact'
  BY DeviceFrame, CountFrame
<1>2. PosAligned' /\ OnceBoundSafe'
  BY DEF OcpInv, PosAligned, OnceBoundSafe
<1>3. op[t].file \in Files /\ files[op[t].file].open
  BY DEF OcpInv, FilesOfLoad
<1>4. CASE op' = [op EXCEPT ![t] = Idle]
  <2>1. /\ op' \in [Threads -> OpType] /\ op'[t] = Idle
        /\ \A u \in Threads : u # t => op'[u] = op[u]
    BY <1>4, InitialTypes DEF OcpInv, OcpTypeOK
  <2>2. OcpTypeOK'
    BY <2>1 DEF OcpInv, OcpTypeOK
  <2>3. FilesOfLoad'
    BY <2>1 DEF OcpInv, FilesOfLoad, Idle
  <2> QED
    BY <1>1, <1>2, <2>2, <2>3 DEF OcpInv
<1>5. ASSUME NEW p \in Nat, Returns(t, p), ~op[t].own => p % Word = 0
      PROVE  OcpInv'
  <2>1. /\ op' \in [Threads -> OpType]
        /\ \A u \in Threads : u # t => op'[u] = op[u]
        /\ op[t].own => op'[t] = Idle
        /\ ~op[t].own => /\ op'[t].pc = "done" /\ op'[t].file = op[t].file
                        /\ ~op'[t].own /\ op'[t].pos = p
    BY <1>5, ReturnsEffect DEF OcpInv
  <2>2. OcpTypeOK'
    BY <2>1 DEF OcpInv, OcpTypeOK
  <2>3. FilesOfLoad'
    BY <1>3, <1>5, <2>1 DEF OcpInv, FilesOfLoad, Idle
  <2> QED
    BY <1>1, <1>2, <2>2, <2>3 DEF OcpInv
<1> QED
  BY <1>4, <1>5

(* A transfer moves bytes of its window only, from a position that was     *)
(* loaded under no lock (ocp.c 99-187).                                    *)
LEMMA TransferStep ==
  ASSUME OcpInv, oops = NoOops, NEW t \in Threads, Transfer(t)
  PROVE  OcpInv'
<1> DEFINE f == op[t].file
           m == files[f].minor
           i == minor_to_mapping_index(m)
           w == Windows[i]
           z == dev.size[i]
           pos == op[t].pos
           n == Clipped(pos, op[t].n, z)
<1>1. /\ op[t].pc = "call" /\ probe' = probe /\ dev' = dev /\ kern' = kern
      /\ count' = count /\ files' = files /\ cut' = cut /\ loads' = loads
  BY Zenon DEF Transfer
<1>2. WindowsMapped' /\ MajorsApart' /\ ProbeOrder' /\ CountExact' /\ PosAligned'
  BY <1>1, DeviceFrame, CountFrame DEF OcpInv, PosAligned
<1>3. /\ f \in Files /\ files[f].open /\ pos \in Nat /\ op[t].n \in Nat
      /\ m \in Minors /\ files[f].loose \in BOOLEAN
      /\ ~op[t].own => pos % Word = 0
  BY <1>1 DEF OcpInv, OcpTypeOK, FilesOfLoad, OpType, FileType
<1>4. /\ i \in Index /\ i = (IF m = 0 THEN 0 ELSE m - 1) /\ w.phys \in Nat
      /\ w.size \in Nat /\ z \in {0, w.size}
  BY <1>3, WindowOf
<1>5. CASE ~Alive(f)
  <2>1. /\ oops' = [what |-> "freed", loose |-> files[f].loose] /\ op' = op
        /\ last' = last
    BY <1>5, Zenon DEF Transfer, Oops
  <2> HIDE DEF f
  <2>2. OcpTypeOK'
    BY <1>1, <1>3, <2>1 DEF OcpInv, OcpTypeOK
  <2>3. OnceBoundSafe'
    BY <1>3, <1>5, <2>1
    DEF OcpInv, FilesOfLoad, ProbeOrder, Alive, OnceBoundSafe
  <2>4. AccessInWindow' /\ FilesOfLoad'
    BY <1>1, <2>1 DEF OcpInv, AccessInWindow, FilesOfLoad
  <2> QED
    BY <1>2, <2>2, <2>3, <2>4 DEF OcpInv
<1>6. CASE Alive(f)
  <2>1. \/ /\ Returns(t, pos) /\ oops' = oops /\ last' = last
        \/ /\ pos < z /\ Whole(n) /\ dev.virt[i] /\ oops' = oops
           /\ last' = [minor |-> m, n |-> n, lo |-> w.phys + pos]
           /\ Returns(t, pos + n) \/ op' = [op EXCEPT ![t] = Idle]
        \/ /\ ~dev.virt[i] /\ oops' = [what |-> "virt", loose |-> files[f].loose]
           /\ op' = op /\ last' = last
        \/ /\ ~dev.maps
           /\ oops' = [what |-> "mappings", loose |-> files[f].loose]
           /\ op' = op /\ last' = last
        \/ /\ op' = [op EXCEPT ![t] = Idle] /\ oops' = oops /\ last' = last
    BY <1>4, <1>6, Zenon DEF Transfer, Oops
  <2> HIDE DEF f, m, i, w, z
  <2>2. CASE \/ Returns(t, pos) /\ oops' = oops /\ last' = last
             \/ op' = [op EXCEPT ![t] = Idle] /\ oops' = oops /\ last' = last
    <3>1. last' \in [minor : Minors, lo : Nat, n : Nat] /\ AccessInWindow'
      BY <2>2 DEF OcpInv, OcpTypeOK, AccessInWindow
    <3> QED
      BY <1>1, <1>3, <2>2, <3>1, CallEnds, Zenon
  <2>3. CASE /\ pos < z /\ Whole(n) /\ oops' = oops
             /\ last' = [minor |-> m, n |-> n, lo |-> w.phys + pos]
             /\ Returns(t, pos + n) \/ op' = [op EXCEPT ![t] = Idle]
    <3>1. n \in Nat /\ n % Word = 0 /\ pos + n <= w.size
      BY <1>3, <1>4, <2>3 DEF Clipped, Least, Whole
    <3>2. pos + n \in Nat /\ (~op[t].own => (pos + n) % Word = 0)
      BY <1>3, <3>1, WholeSum
    <3> HIDE DEF pos, n
    <3>3. last'.minor = m /\ last'.n = n /\ last'.lo = w.phys + pos
      BY <2>3
    <3>4. Windows[IF last'.minor = 0 THEN 0 ELSE last'.minor - 1] = w
      BY <1>4, <3>3, Zenon DEF w
    <3>5. w.phys <= last'.lo /\ last'.lo + last'.n <= w.phys + w.size
      BY <1>3, <1>4, <3>1, <3>3
    <3>6. AccessInWindow'
      BY <3>4, <3>5, Zenon DEF AccessInWindow
    <3>7. last' \in [minor : Minors, lo : Nat, n : Nat]
      BY <1>3, <1>4, <2>3, <3>1
    <3> QED
      BY <1>1, <2>3, <3>2, <3>6, <3>7, CallEnds, Zenon
  <2>4. CASE /\ ~dev.virt[i] /\ oops' = [what |-> "virt", loose |-> files[f].loose]
             /\ op' = op /\ last' = last
    <3>1. OcpTypeOK'
      BY <1>1, <1>3, <2>4 DEF OcpInv, OcpTypeOK
    <3>2. files[f].loose
      BY <1>3, <1>4, <2>4 DEF OcpInv, FilesOfLoad, WindowsMapped
    <3>3. FilesOfLoad' /\ AccessInWindow' /\ OnceBoundSafe'
      BY <1>1, <2>4, <3>2
      DEF OcpInv, FilesOfLoad, AccessInWindow, OnceBoundSafe
    <3> QED
      BY <1>2, <3>1, <3>3 DEF OcpInv
  <2>5. CASE /\ ~dev.maps
             /\ oops' = [what |-> "mappings", loose |-> files[f].loose]
             /\ op' = op /\ last' = last
    <3>1. OcpTypeOK'
      BY <1>1, <1>3, <2>5 DEF OcpInv, OcpTypeOK
    <3>2. files[f].loose
      BY <1>3, <2>5 DEF OcpInv, FilesOfLoad, WindowsMapped
    <3>3. FilesOfLoad' /\ AccessInWindow' /\ OnceBoundSafe'
      BY <1>1, <2>5, <3>2
      DEF OcpInv, FilesOfLoad, AccessInWindow, OnceBoundSafe
    <3> QED
      BY <1>2, <3>1, <3>3 DEF OcpInv
  <2> QED
    BY <2>1, <2>2, <2>3, <2>4, <2>5, Zenon
<1> QED
  BY <1>5, <1>6

-----------------------------------------------------------------------------
(* Every step of the driver, and every step that changes nothing of it,    *)
(* keeps the invariant.                                                    *)
LEMMA OcpStep == OcpInv /\ [OcpNext]_vars => OcpInv'
<1> SUFFICES ASSUME OcpInv, [OcpNext]_vars PROVE OcpInv'
  OBVIOUS
<1>1. CASE UNCHANGED vars
  <2>1. /\ probe' = probe /\ dev' = dev /\ kern' = kern /\ count' = count
        /\ files' = files /\ op' = op /\ last' = last /\ oops' = oops
        /\ cut' = cut /\ loads' = loads
    BY <1>1 DEF vars
  <2>2. OcpTypeOK' /\ WindowsMapped' /\ MajorsApart' /\ ProbeOrder'
    BY <2>1, DeviceFrame DEF OcpInv, OcpTypeOK
  <2>3. /\ FilesOfLoad' /\ AccessInWindow' /\ PosAligned' /\ CountExact'
        /\ OnceBoundSafe'
    BY <2>1, CountFrame
    DEF OcpInv, FilesOfLoad, AccessInWindow, PosAligned, OnceBoundSafe
  <2> QED
    BY <2>2, <2>3 DEF OcpInv
<1>2. CASE OcpNext
  <2>1. oops = NoOops
    BY <1>2, Zenon DEF OcpNext
  <2>2. CASE ProbeStart \/ ProbeRegion \/ ProbeCdev \/ ProbeMaps
             \/ ProbeClass \/ ProbeSema \/ ProbeSize \/ ProbeMap
    BY <2>2, ProbeStartStep, ProbeRegionStep, ProbeCdevStep, ProbeMapsStep,
       ProbeClassStep, ProbeSemaStep, ProbeSizeStep, ProbeMapStep, Zenon
  <2>3. CASE ProbeFails
    <3>1. /\ probe \in {"nomem", "region", "cdev", "map"} /\ ocp_remove
          /\ last' = NoAccess /\ files' = files /\ op' = op /\ loads' = loads
      BY <2>3 DEF ProbeFails, Fail
    <3> QED
      BY <3>1, CleanupStep
  <2>4. CASE Unbind
    <3>1. /\ probe = "bound" /\ ocp_remove /\ last' = NoAccess
          /\ files' = Orphaned /\ op' = op /\ loads' = loads
      BY <2>4, Zenon DEF Unbind
    <3> QED
      BY <3>1, CleanupStep
  <2>5. ASSUME NEW f \in Files,
               \/ \E minor \in Minors : ocp_open(f, minor)
               \/ ocp_release(f) \/ ocp_release_interrupted(f)
               \/ ocp_llseek(f) \/ ocp_mmap(f)
               \/ \E t \in Threads : vfs_enter(t, f)
        PROVE  OcpInv'
    BY <2>1, <2>5, OpenStep, ReleaseStep, SeekStep, MmapStep, EnterStep, Zenon
  <2>6. ASSUME NEW t \in Threads, ocp_read(t) \/ ocp_write(t) \/ vfs_leave(t)
        PROVE  OcpInv'
    BY <2>1, <2>6, TransferStep, LeaveStep, Zenon DEF ocp_read, ocp_write
  <2> QED
    BY <1>2, <2>2, <2>3, <2>4, <2>5, <2>6, Zenon DEF OcpNext
<1> QED
  BY <1>1, <1>2, Zenon

(* The driver's steps keep the whole invariant: what probe has set up at   *)
(* each of its steps, and what files and calls rely on.                    *)
THEOREM OcpInvariant == OcpSpec => []OcpInv
  BY OcpStart, OcpStep, PTL DEF OcpSpec

(* Whatever offsets, counts and seeks user space asks for, from any number *)
(* of threads, a read, a write or a mapping reaches only the window that   *)
(* the device node names (ocp.c 117, 162, 287).                            *)
THEOREM OcpAccessInWindow == OcpSpec => []AccessInWindow
<1>1. OcpInv => AccessInWindow
  BY DEF OcpInv
<1> QED
  BY <1>1, OcpInvariant, PTL

(* A file's position is whole words, however the unlocked loads and stores *)
(* of several threads and their seeks interleave (ocp.c 120, 165, 257).    *)
THEOREM OcpPosAligned == OcpSpec => []PosAligned
<1>1. OcpInv => PosAligned
  BY DEF OcpInv
<1> QED
  BY <1>1, OcpInvariant, PTL

(* instance_count is the number of open files and of closes cut short by a *)
(* signal, for any number of files (ocp.c 78, 90).                         *)
THEOREM OcpCountExact == OcpSpec => []CountExact
<1>1. OcpInv => CountExact
  BY DEF OcpInv
<1> QED
  BY <1>1, OcpInvariant, PTL

(* A file opened on a bound device meets no missing or freed item while    *)
(* the driver stays bound: only a probe, a file opened before the probe    *)
(* had returned, or one left open by an unbind can (ocp.c 320, 386-417).   *)
THEOREM OcpOnceBoundSafe == OcpSpec => []OnceBoundSafe
<1>1. OcpInv => OnceBoundSafe
  BY DEF OcpInv
<1> QED
  BY <1>1, OcpInvariant, PTL

(* After a remove, or a probe that failed at any step, no node, mapping or *)
(* device is left but those that class_create's failure left registered    *)
(* (ocp.c 320-347, 389).                                                   *)
THEOREM OcpCleanupFrees == OcpSpec => []CleanupFrees
<1>1. OcpInv => CleanupFrees
  BY DEF OcpInv, CleanupFrees, ProbeOrder, MajorsApart, Registered, Mapping
<1> QED
  BY <1>1, OcpInvariant, PTL
=============================================================================

---------------------------- MODULE ZapDevProofs ----------------------------
(***************************************************************************)
(* For any processes, devices, sizes and memory: the count of open files   *)
(* is exact, a device nobody has open for writing can be opened, an        *)
(* interface without a file does not run; and, where the memory is cut as  *)
(* in the device tree and the FIFOs fit, the pools are apart and no packet *)
(* is larger than its buffer.                                              *)
(***************************************************************************)
EXTENDS ZapDev, FiniteSetTheorems, TLAPS

-----------------------------------------------------------------------------
(* Unsigned arithmetic: values in range, and the wrap below zero.          *)
LEMMA ModSmall ==
  ASSUME NEW M \in Nat, M > 0, NEW a \in Int
  PROVE  /\ a % M \in 0 .. M - 1
         /\ 0 <= a /\ a < M => a % M = a
         /\ a < 0 /\ - M <= a => a % M = a + M
  OBVIOUS

LEMMA DivMod ==
  ASSUME NEW M \in Nat, M > 0, NEW a \in Nat
  PROVE  /\ a \div M \in Nat /\ a % M \in 0 .. M - 1
         /\ a = (a \div M) * M + (a % M)
  OBVIOUS

LEMMA Multiple ==
  ASSUME NEW M \in Nat, M > 0, NEW a \in Nat
  PROVE  (a * M) % M = 0
  OBVIOUS

(* Rounding up to a page: upwards, in order, and not past a whole page.    *)
LEMMA PageAlign ==
  ASSUME NEW a \in Nat
  PROVE  /\ PAGE_ALIGN(a) \in Nat /\ a <= PAGE_ALIGN(a)
         /\ PAGE_ALIGN(a) < a + Page
         /\ PAGE_ALIGN(a) % Page = 0
<1> DEFINE x == a + Page - 1
           q == x \div Page
           r == x % Page
<1>1. Page \in Nat /\ Page > 0 /\ x \in Nat
  BY DevAssumption
<1>2. PAGE_ALIGN(a) = q * Page
  BY DEF PAGE_ALIGN
<1>3. x = a + Page - 1
  OBVIOUS
<1> HIDE DEF x
<1>4. q \in Nat /\ r \in 0 .. Page - 1 /\ x = q * Page + r
  BY <1>1, DivMod
<1> HIDE DEF q, r
<1>5. q * Page \in Nat /\ (q * Page) % Page = 0
  BY <1>1, <1>4
<1> QED
  BY <1>1, <1>2, <1>3, <1>4, <1>5

LEMMA PageAlignBelow ==
  ASSUME NEW a \in Nat, NEW b \in Nat, a <= b, b % Page = 0
  PROVE  PAGE_ALIGN(a) <= b
<1> DEFINE q == (a + Page - 1) \div Page
           k == b \div Page
<1>1. Page \in Nat /\ Page > 0
  BY DevAssumption
<1>2. k \in Nat /\ b = k * Page
  BY <1>1
<1>3. q \in Nat /\ PAGE_ALIGN(a) = q * Page /\ q * Page < a + Page
  BY <1>1, PageAlign DEF PAGE_ALIGN
<1> HIDE DEF q, k
<1>4. q * Page < (k + 1) * Page
  BY <1>1, <1>2, <1>3
<1>5. q < k + 1
  BY <1>1, <1>2, <1>3, <1>4
<1>6. q * Page <= k * Page
  BY <1>1, <1>2, <1>3, <1>5
<1> QED
  BY <1>2, <1>3, <1>6
-----------------------------------------------------------------------------
(* setup_multiple_pools (zap.c:155-180): the starts of the parts are in    *)
(* order, inside their half.                                               *)

LEMMA Halves ==
  ASSUME HalvesFit, NEW d \in Dirs
  PROVE  /\ PoolBase(d) \in Nat /\ PoolSize(d) \in Nat
         /\ PoolBase(d) % Page = 0 /\ (PoolBase(d) + RxPoolSize) % Page = 0
         /\ RxPoolSize <= PoolSize(d)
         /\ PoolBase(d) + PoolSize(d) < UlongMod
<1>1. /\ Page \in Nat /\ Page > 0 /\ RxPoolSize \in Nat /\ TxPoolSize \in Nat
      /\ RxPoolSize + TxPoolSize < UlongMod /\ UlongMod \in Nat
  BY DevAssumption
<1>2. RxPoolSize % Page = 0 /\ RxPoolSize <= TxPoolSize
  BY DEF HalvesFit
<1> DEFINE k == RxPoolSize \div Page
<1>3. k \in Nat /\ RxPoolSize = k * Page
  BY <1>1, <1>2, DivMod
<1> HIDE DEF k
<1>4. RxPoolSize + RxPoolSize = (k + k) * Page /\ k + k \in Nat
  BY <1>1, <1>3
<1>5. (RxPoolSize + RxPoolSize) % Page = 0
  BY <1>1, <1>4, Multiple
<1>6. 0 % Page = 0
  BY <1>1
<1> QED
  BY <1>1, <1>2, <1>5, <1>6 DEF PoolBase, PoolSize, Dirs

(* The step between starts, times the parts before one.                    *)
LEMMA Stride ==
  ASSUME NEW n \in Nat, n > 0, NEW i \in Nat, NEW j \in Nat, i <= j, j <= n
  PROVE  /\ RxPoolSize \div n \in Nat
         /\ (RxPoolSize \div n) * i \in Nat /\ (RxPoolSize \div n) * j \in Nat
         /\ (RxPoolSize \div n) * i <= (RxPoolSize \div n) * j
         /\ (RxPoolSize \div n) * j <= RxPoolSize
<1> DEFINE s == RxPoolSize \div n
<1>1. RxPoolSize \in Nat
  BY DevAssumption
<1>2. s \in Nat /\ s * n <= RxPoolSize
  BY <1>1, DivMod
<1> HIDE DEF s
<1>3. s * i \in Nat /\ s * j \in Nat /\ s * i <= s * j /\ s * j <= s * n
  BY <1>2
<1>4. s * n \in Nat
  BY <1>2
<1>5. s * j <= RxPoolSize
  BY <1>1, <1>2, <1>3, <1>4
<1> QED
  BY <1>2, <1>3, <1>5 DEF s

LEMMA PaddrOrder ==
  ASSUME HalvesFit, NEW n \in Nat, n > 0, NEW d \in Dirs,
         NEW i \in Nat, NEW j \in Nat, i <= j, j <= n
  PROVE  /\ paddr(n, i, d) \in Nat /\ paddr(n, j, d) \in Nat
         /\ PoolBase(d) <= paddr(n, i, d)
         /\ paddr(n, i, d) <= paddr(n, j, d)
         /\ paddr(n, j, d) <= PoolBase(d) + PoolSize(d)
<1> DEFINE u == (RxPoolSize \div n) * i
           v == (RxPoolSize \div n) * j
           a == PoolBase(d) + u
           b == PoolBase(d) + v
<1>1. paddr(n, i, d) = PAGE_ALIGN(a) /\ paddr(n, j, d) = PAGE_ALIGN(b)
  BY DEF paddr
<1>2. /\ PoolBase(d) \in Nat /\ PoolSize(d) \in Nat
      /\ (PoolBase(d) + RxPoolSize) % Page = 0 /\ RxPoolSize <= PoolSize(d)
  BY Halves
<1>3. RxPoolSize \in Nat
  BY DevAssumption
<1>4. /\ a \in Nat /\ b \in Nat /\ PoolBase(d) <= a /\ a <= b
      /\ b <= PoolBase(d) + RxPoolSize
  <2>1. u \in Nat /\ v \in Nat /\ u <= v /\ v <= RxPoolSize
    BY Stride
  <2> HIDE DEF u, v
  <2> QED
    BY <1>2, <1>3, <2>1
<1> HIDE DEF a, b
<1>5. /\ PAGE_ALIGN(a) \in Nat /\ PAGE_ALIGN(b) \in Nat
      /\ a <= PAGE_ALIGN(a) /\ b <= PAGE_ALIGN(b) /\ PAGE_ALIGN(b) % Page = 0
  BY <1>4, PageAlign
<1>6. PAGE_ALIGN(a) <= PAGE_ALIGN(b)
  <2>1. a <= PAGE_ALIGN(b)
    BY <1>4, <1>5
  <2> QED
    BY <1>4, <1>5, <2>1, PageAlignBelow
<1>7. PAGE_ALIGN(b) <= PoolBase(d) + RxPoolSize
  BY <1>2, <1>3, <1>4, PageAlignBelow
<1> QED
  BY <1>1, <1>2, <1>3, <1>4, <1>5, <1>6, <1>7

(* A part runs to the next start, the last one to the end of the half.     *)
End(n, i, d) == IF i = n - 1 THEN PoolBase(d) + PoolSize(d)
                ELSE paddr(n, i + 1, d)

LEMMA PartEnd ==
  ASSUME HalvesFit, NEW n \in Nat, n > 0, NEW d \in Dirs, NEW i \in 0 .. n - 1
  PROVE  LET a == Part(n, <<i, d>>) IN
         /\ a.base = paddr(n, i, d) /\ a.base \in Nat
         /\ a.size \in Nat /\ a.base + a.size = End(n, i, d)
<1> DEFINE a == Part(n, <<i, d>>)
           z == End(n, i, d)
<1>1. /\ a.base = paddr(n, i, d)
      /\ a.size = IF n = 1 THEN PoolSize(d)
                  ELSE (z - paddr(n, i, d)) % UlongMod
  BY DEF Part, End
<1>2. /\ PoolBase(d) \in Nat /\ PoolSize(d) \in Nat /\ PoolBase(d) % Page = 0
      /\ PoolBase(d) + PoolSize(d) < UlongMod /\ UlongMod \in Nat
  BY Halves, DevAssumption
<1>3. /\ paddr(n, i, d) \in Nat /\ PoolBase(d) <= paddr(n, i, d)
      /\ z \in Nat /\ paddr(n, i, d) <= z /\ z <= PoolBase(d) + PoolSize(d)
  <2>1. CASE i = n - 1
    BY <1>2, <2>1, PaddrOrder DEF End
  <2>2. CASE i # n - 1
    <3>1. i + 1 \in Nat /\ i <= i + 1 /\ i + 1 <= n /\ i \in Nat
      BY <2>2
    <3>2. /\ paddr(n, i, d) \in Nat /\ paddr(n, i + 1, d) \in Nat
          /\ PoolBase(d) <= paddr(n, i, d)
          /\ paddr(n, i, d) <= paddr(n, i + 1, d)
          /\ paddr(n, i + 1, d) <= PoolBase(d) + PoolSize(d)
      BY <3>1, PaddrOrder
    <3> QED
      BY <2>2, <3>2 DEF End
  <2> QED
    BY <2>1, <2>2
<1>4. ASSUME n = 1 PROVE a.size \in Nat /\ a.base + a.size = z
  <2>1. i = 0 /\ (RxPoolSize \div n) * 0 = 0
    BY <1>4, Stride
  <2>2. paddr(n, i, d) = PAGE_ALIGN(PoolBase(d))
    BY <1>2, <2>1 DEF paddr
  <2>3. PAGE_ALIGN(PoolBase(d)) <= PoolBase(d)
    BY <1>2, PageAlignBelow
  <2>4. z = PoolBase(d) + PoolSize(d)
    BY <1>4, <2>1 DEF End
  <2> HIDE DEF a, z
  <2> QED
    BY <1>1, <1>2, <1>3, <1>4, <2>2, <2>3, <2>4
<1>5. ASSUME n # 1 PROVE a.size \in Nat /\ a.base + a.size = z
  <2> HIDE DEF a, z
  <2>1. z - paddr(n, i, d) \in Nat /\ z - paddr(n, i, d) < UlongMod
    BY <1>2, <1>3
  <2>2. (z - paddr(n, i, d)) % UlongMod = z - paddr(n, i, d)
    BY <1>2, <2>1, ModSmall
  <2> QED
    BY <1>1, <1>3, <1>5, <2>1, <2>2
<1> QED
  BY <1>1, <1>3, <1>4, <1>5

LEMMA PartsApart ==
  ASSUME HalvesFit, NEW n \in Nat, n > 0, NEW m \in (0 .. n - 1) \X Dirs
  PROVE  LET a == Part(n, m) IN
         /\ PoolBase(m[2]) <= a.base
         /\ a.base + a.size <= PoolBase(m[2]) + PoolSize(m[2])
         /\ \A k \in (0 .. n - 1) \X Dirs : k # m =>
              LET b == Part(n, k) IN
              b.base + b.size <= a.base \/ a.base + a.size <= b.base
<1>1. ASSUME NEW d \in Dirs, NEW i \in 0 .. n - 1
      PROVE  /\ PoolBase(d) <= paddr(n, i, d) /\ End(n, i, d) \in Nat
             /\ End(n, i, d) <= PoolBase(d) + PoolSize(d)
             /\ paddr(n, i, d) \in Nat
  <2>1. /\ paddr(n, i, d) \in Nat /\ PoolBase(d) <= paddr(n, i, d)
        /\ PoolBase(d) \in Nat /\ PoolSize(d) \in Nat
    BY PaddrOrder, Halves
  <2>2. CASE i = n - 1
    BY <2>1, <2>2 DEF End
  <2>3. CASE i # n - 1
    <3>1. i + 1 \in Nat /\ i <= i + 1 /\ i + 1 <= n /\ i \in Nat
      BY <2>3
    <3> QED
      BY <2>1, <2>3, <3>1, PaddrOrder DEF End
  <2> QED
    BY <2>2, <2>3
<1>2. ASSUME NEW d \in Dirs, NEW i \in 0 .. n - 1, NEW j \in 0 .. n - 1, i < j
      PROVE  End(n, i, d) <= paddr(n, j, d)
  <2>1. i + 1 \in Nat /\ i + 1 <= j /\ j <= n /\ j \in Nat /\ i # n - 1
    BY <1>2
  <2> QED
    BY <2>1, PaddrOrder DEF End
<1>3. ASSUME NEW d \in Dirs, NEW i \in 0 .. n - 1, NEW e \in Dirs,
             NEW j \in 0 .. n - 1, <<i, d>> # <<j, e>>
      PROVE  End(n, i, d) <= paddr(n, j, e) \/ End(n, j, e) <= paddr(n, i, d)
  <2>1. CASE d = e
    <3>1. i < j \/ j < i
      BY <1>3, <2>1
    <3> QED
      BY <1>2, <2>1, <3>1
  <2>2. CASE d # e
    <3>1. /\ PoolBase("rx") + PoolSize("rx") = PoolBase("tx")
          /\ PoolBase("tx") \in Nat
      BY DevAssumption DEF PoolBase, PoolSize
    <3>2. (d = "rx" /\ e = "tx") \/ (d = "tx" /\ e = "rx")
      BY <2>2 DEF Dirs
    <3>3. /\ End(n, i, d) \in Nat /\ End(n, j, e) \in Nat
          /\ paddr(n, i, d) \in Nat /\ paddr(n, j, e) \in Nat
          /\ End(n, i, d) <= PoolBase(d) + PoolSize(d)
          /\ End(n, j, e) <= PoolBase(e) + PoolSize(e)
          /\ PoolBase(d) <= paddr(n, i, d) /\ PoolBase(e) <= paddr(n, j, e)
      BY <1>1
    <3>4. CASE d = "rx" /\ e = "tx"
      BY <3>1, <3>3, <3>4
    <3>5. CASE d = "tx" /\ e = "rx"
      BY <3>1, <3>3, <3>5
    <3> QED
      BY <3>2, <3>4, <3>5
  <2> QED
    BY <2>1, <2>2
<1>4. PICK i \in 0 .. n - 1, d \in Dirs : m = <<i, d>>
  OBVIOUS
<1>5. /\ Part(n, m).base = paddr(n, i, d)
      /\ Part(n, m).base + Part(n, m).size = End(n, i, d)
  BY <1>4, PartEnd
<1>6. /\ PoolBase(m[2]) <= Part(n, m).base
      /\ Part(n, m).base + Part(n, m).size <= PoolBase(m[2]) + PoolSize(m[2])
  <2>1. m[2] = d
    BY <1>4
  <2> QED
    BY <1>1, <1>5, <2>1
<1>7. ASSUME NEW k \in (0 .. n - 1) \X Dirs, k # m
      PROVE  \/ Part(n, k).base + Part(n, k).size <= Part(n, m).base
             \/ Part(n, m).base + Part(n, m).size <= Part(n, k).base
  <2>1. PICK j \in 0 .. n - 1, e \in Dirs : k = <<j, e>>
    OBVIOUS
  <2>2. /\ Part(n, k).base = paddr(n, j, e)
        /\ Part(n, k).base + Part(n, k).size = End(n, j, e)
    BY <2>1, PartEnd
  <2> QED
    BY <1>3, <1>4, <1>5, <1>7, <2>1, <2>2
<1> QED
  BY <1>6, <1>7
-----------------------------------------------------------------------------
(* The processes' records after a step, field by field.                    *)

LEMMA ClosedType == Closed \in ThType /\ Closed.pc = "closed"
<1>1. <<0, "rx">> \in Minors
  BY DevAssumption DEF Minors, Dirs
<1> QED
  BY <1>1 DEF Closed, ThType, Pcs

LEMMA GotoEffect ==
  ASSUME DevTypeOK, NEW p \in Procs, NEW l \in Pcs, Goto(p, l)
  PROVE  /\ th' \in [Procs -> ThType]
         /\ th'[p].pc = l /\ th'[p].m = th[p].m /\ th'[p].mode = th[p].mode
         /\ \A q \in Procs : q # p => th'[q] = th[q]
<1> DEFINE r == [th[p] EXCEPT !.pc = l]
<1>1. th \in [Procs -> ThType] /\ th' = [th EXCEPT ![p] = r]
  BY Zenon DEF DevTypeOK, Goto
<1>2. r \in ThType
  BY <1>1, Zenon DEF ThType
<1>3. r.pc = l /\ r.m = th[p].m /\ r.mode = th[p].mode
  BY <1>1, Zenon DEF ThType
<1> HIDE DEF r
<1> QED
  BY <1>1, <1>2, <1>3

LEMMA CloseEffect ==
  ASSUME DevTypeOK, NEW p \in Procs, Close(p)
  PROVE  /\ th' \in [Procs -> ThType] /\ th'[p].pc = "closed"
         /\ \A q \in Procs : q # p => th'[q] = th[q]
  BY ClosedType DEF DevTypeOK, Close

LEMMA OpenCheckEffect ==
  ASSUME DevTypeOK, NEW p \in Procs, NEW m \in Minors, NEW mode \in Modes,
         OpenCheck(p, m, mode)
  PROVE  /\ th' \in [Procs -> ThType] /\ th'[p].pc \in {"ver_on", "open"}
         /\ \A q \in Procs : q # p => th'[q] = th[q]
<1> DEFINE l == IF open_count = 0 THEN "ver_on" ELSE "open"
           r == [pc |-> l, m |-> m, mode |-> mode]
<1>1. th \in [Procs -> ThType] /\ th' = [th EXCEPT ![p] = r]
  BY DEF DevTypeOK, OpenCheck
<1>2. l \in {"ver_on", "open"}
  OBVIOUS
<1> HIDE DEF l
<1>3. r \in ThType /\ r.pc = l
  BY <1>2 DEF ThType, Pcs
<1> HIDE DEF r
<1> QED
  BY <1>1, <1>2, <1>3

-----------------------------------------------------------------------------
(* The files open on a device, before and after a step.                    *)
FileSet == {p \in Procs : HasFile(p)}

LEMMA FileSetFinite ==
  IsFiniteSet(FileSet) /\ Cardinality(FileSet) \in Nat
<1>1. FileSet \subseteq Procs
  BY DEF FileSet
<1> QED
  BY <1>1, DevAssumption, FS_Subset, FS_CardinalityType

LEMMA SameFiles ==
  ASSUME \A q \in Procs : HasFile(q)' <=> HasFile(q),
         \A q \in Procs : HasFile(q) => /\ th'[q].m = th[q].m
                                        /\ th'[q].mode = th[q].mode
  PROVE  /\ FileSet' = FileSet
         /\ \A m, mode : Files(m, mode)' = Files(m, mode)
  BY DEF FileSet, Files

LEMMA ExactFiles ==
  OpenCountExact <=> /\ open_count >= Cardinality(FileSet)
                     /\ cut = {} => open_count = Cardinality(FileSet)
  BY DEF OpenCountExact, FileSet

LEMMA ExactFilesNext ==
  OpenCountExact' <=> /\ open_count' >= Cardinality(FileSet')
                      /\ cut' = {} => open_count' = Cardinality(FileSet')
  BY DEF OpenCountExact, FileSet

(* The steps of zap_open that end without a file, or before there is one.  *)
LEMMA NoFileStep ==
  ASSUME DevInv, NEW p \in Procs, ~ HasFile(p), ~ HasFile(p)',
         th' \in [Procs -> ThType],
         \A q \in Procs : q # p => th'[q] = th[q],
         UNCHANGED <<open_count, in_use, max_size, header_size, jumbo, pool_size,
                     packet_size, on, cut, late, overtaken>>
  PROVE  DevInv'
<1>1. DevTypeOK'
  BY DEF DevInv, DevTypeOK
<1>2. \A q \in Procs : HasFile(q)' <=> HasFile(q)
  BY DEF HasFile
<1>3. \A q \in Procs : HasFile(q) => th'[q] = th[q]
  BY DEF HasFile
<1>4. FileSet' = FileSet /\ \A m, mode : Files(m, mode)' = Files(m, mode)
  BY <1>2, <1>3, SameFiles
<1>5. OpenCountExact'
  BY <1>4, ExactFiles, ExactFilesNext DEF DevInv
<1>6. Reopenable' /\ PoolIsPart'
  BY <1>4 DEF DevInv, Reopenable, PoolIsPart
<1>7. FilesLive'
  BY <1>2, <1>3 DEF DevInv, FilesLive
<1>8. RunsForOpened'
  BY <1>3 DEF DevInv, RunsForOpened, WillStop, HasFile
<1> QED
  BY <1>1, <1>5, <1>6, <1>7, <1>8 DEF DevInv

LEMMA BeforeOpen ==
  ASSUME DevInv, NEW p \in Procs,
         \/ \E m \in Minors, mode \in Modes : OpenCheck(p, m, mode)
         \/ VersionOn(p) \/ VersionOff(p) \/ OpenRefused(p)
  PROVE  DevInv'
<1>1. DevTypeOK
  BY DEF DevInv
<1>2. UNCHANGED <<open_count, in_use, max_size, header_size, jumbo, pool_size,
                  packet_size, on, cut, late, overtaken>>
  BY Zenon DEF OpenCheck, VersionOn, VersionOff, OpenRefused, settings,
     flushing
<1>3. ~ HasFile(p)
  BY DEF OpenCheck, VersionOn, VersionOff, OpenRefused, At, HasFile
<1>4. /\ th' \in [Procs -> ThType] /\ ~ HasFile(p)'
      /\ \A q \in Procs : q # p => th'[q] = th[q]
  <2>1. CASE \E m \in Minors, mode \in Modes : OpenCheck(p, m, mode)
    BY <1>1, <2>1, OpenCheckEffect DEF HasFile
  <2>2. CASE VersionOn(p)
    BY <1>1, <2>2, GotoEffect DEF VersionOn, HasFile, Pcs
  <2>3. CASE VersionOff(p)
    BY <1>1, <2>3, GotoEffect DEF VersionOff, HasFile, Pcs
  <2>4. CASE OpenRefused(p)
    BY <1>1, <2>4, CloseEffect DEF OpenRefused, HasFile
  <2> QED
    BY <2>1, <2>2, <2>3, <2>4
<1> QED
  BY <1>2, <1>3, <1>4, NoFileStep
-----------------------------------------------------------------------------
(* A pool's size is an unsigned long, however the memory is cut.           *)
LEMMA PartSize ==
  ASSUME NEW m \in Live
  PROVE  Part(NumInterfaces, m).size \in Ulong
<1> DEFINE n == NumInterfaces
           i == m[1]
           d == m[2]
<1>1. /\ n \in Nat /\ n > 0 /\ i \in 0 .. n - 1 /\ d \in Dirs
      /\ UlongMod \in Nat /\ UlongMod > 0
      /\ RxPoolSize \in Nat /\ TxPoolSize \in Nat
      /\ RxPoolSize + TxPoolSize < UlongMod
  BY DevAssumption DEF Live, Minors
<1>2. PoolBase(d) \in Nat /\ PoolSize(d) \in 0 .. UlongMod - 1
  BY <1>1 DEF PoolBase, PoolSize, Dirs
<1>3. \A j \in 0 .. n : paddr(n, j, d) \in Nat
  <2> SUFFICES ASSUME NEW j \in 0 .. n PROVE paddr(n, j, d) \in Nat
    OBVIOUS
  <2>1. (RxPoolSize \div n) * j \in Nat
    BY <1>1, Stride
  <2>2. PoolBase(d) + (RxPoolSize \div n) * j \in Nat
    BY <1>2, <2>1
  <2> QED
    BY <2>2, PageAlign DEF paddr
<1> DEFINE z == IF i = n - 1 THEN PoolBase(d) + PoolSize(d)
                ELSE paddr(n, i + 1, d)
<1>4. z \in Nat /\ paddr(n, i, d) \in Nat
  BY <1>1, <1>2, <1>3
<1>5. Part(n, m).size = IF n = 1 THEN PoolSize(d)
                        ELSE (z - paddr(n, i, d)) % UlongMod
  BY DEF Part
<1> HIDE DEF z, n, i, d
<1>6. (z - paddr(n, i, d)) % UlongMod \in 0 .. UlongMod - 1
  BY <1>1, <1>4, ModSmall
<1>7. Part(n, m).size \in 0 .. UlongMod - 1
  BY <1>2, <1>5, <1>6
<1> QED
  BY <1>7 DEF Ulong, n

(* zap_open succeeds (zap.c:263-348): one file more, and for a writer the  *)
(* device taken and its pool made anew.                                    *)
LEMMA OpenStep ==
  ASSUME DevInv, NEW p \in Procs, OpenReadOnly(p) \/ OpenReadWrite(p)
  PROVE  DevInv'
<1> DEFINE m0 == th[p].m
           S == Part(NumInterfaces, m0).size
<1>1. DevTypeOK
  BY DEF DevInv
<1>2. Goto(p, "opened") /\ th[p].pc = "open" /\ m0 \in Live /\ m0 \in Minors
  BY DEF OpenReadOnly, OpenReadWrite, At, Live
<1>3. /\ th' \in [Procs -> ThType] /\ th'[p].pc = "opened"
      /\ th'[p].m = th[p].m /\ th'[p].mode = th[p].mode
      /\ \A q \in Procs : q # p => th'[q] = th[q]
  BY <1>1, <1>2, GotoEffect DEF Pcs
<1>4. /\ open_count' = open_count + 1
      /\ UNCHANGED <<header_size, jumbo, on, cut, late>>
      /\ overtaken' \subseteq overtaken
  BY Zenon DEF OpenReadOnly, OpenReadWrite, settings, flushing
<1>5. S \in Ulong
  BY <1>2, PartSize
<1>6. \/ /\ th[p].mode = "ro"
         /\ UNCHANGED <<in_use, max_size, packet_size, pool_size>>
      \/ /\ th[p].mode = "rw" /\ in_use[m0] > 0
         /\ in_use' = [in_use EXCEPT ![m0] = in_use[m0] - 1]
         /\ pool_size' = [pool_size EXCEPT ![m0] = S]
         /\ max_size' = [max_size EXCEPT ![m0] = DatFifo]
         /\ \/ packet_size' = packet_size
            \/ packet_size' = [packet_size EXCEPT ![m0] = DatFifo]
  <2>1. CASE OpenReadOnly(p)
    BY <2>1, Zenon DEF OpenReadOnly, settings
  <2>2. CASE OpenReadWrite(p)
    <3>1. region' = setup_multiple_pools
      BY <2>2, Zenon DEF OpenReadWrite
    <3>2. region'[m0] = Part(NumInterfaces, m0)
      BY <1>2, <3>1, Zenon DEF setup_multiple_pools
    <3> QED
      BY <2>2, <3>2, Zenon DEF OpenReadWrite
  <2> QED
    BY <2>1, <2>2
<1> HIDE DEF S
<1>7. DevTypeOK'
  <2>1. DatFifo \in Ulong
    BY DevAssumption DEF Ulong
  <2>2. /\ in_use' \in [Minors -> Nat] /\ pool_size' \in [Minors -> Ulong]
        /\ max_size' \in [Minors -> Ulong] /\ packet_size' \in [Minors -> Ulong]
    BY <1>1, <1>2, <1>5, <1>6, <2>1 DEF DevTypeOK
  <2> QED
    BY <1>1, <1>3, <1>4, <2>2 DEF DevTypeOK
<1>8. /\ ~ HasFile(p) /\ HasFile(p)'
      /\ \A q \in Procs : q # p => (HasFile(q)' <=> HasFile(q))
  BY <1>2, <1>3 DEF HasFile
<1>9. OpenCountExact'
  <2>1. FileSet' = FileSet \cup {p} /\ p \notin FileSet
    BY <1>8 DEF FileSet
  <2>2. Cardinality(FileSet') = Cardinality(FileSet) + 1
    BY <2>1, FileSetFinite, FS_AddElement
  <2> QED
    BY <1>1, <1>4, <2>2, FileSetFinite, ExactFiles, ExactFilesNext
    DEF DevInv, DevTypeOK
<1>10. \A m, mode : /\ Files(m, mode) \subseteq Files(m, mode)'
                    /\ Files(m, mode)' \subseteq Files(m, mode) \cup {p}
                    /\ p \in Files(m, mode)' <=> (m = m0 /\ mode = th[p].mode)
  BY <1>3, <1>8 DEF Files
<1>11. Reopenable'
  <2> SUFFICES ASSUME NEW m \in Minors \ cut', Files(m, "rw")' = {}
               PROVE  in_use'[m] > 0
    BY DEF Reopenable
  <2>1. Files(m, "rw") = {} /\ ~ (m = m0 /\ "rw" = th[p].mode)
    BY <1>10
  <2>2. in_use[m] > 0
    BY <1>4, <2>1 DEF DevInv, Reopenable
  <2> QED
    BY <1>1, <1>6, <2>1, <2>2 DEF DevTypeOK
<1>12. FilesLive'
  BY <1>2, <1>3, <1>8 DEF DevInv, FilesLive
<1>13. RunsForOpened'
  <2> SUFFICES ASSUME NEW m \in Minors \ cut, on[m]
               PROVE  \E q \in Procs : WillStop(q, m[2])' /\ th'[q].m[1] = m[1]
    BY <1>4 DEF RunsForOpened
  <2>1. PICK q \in Procs : WillStop(q, m[2]) /\ th[q].m[1] = m[1]
    BY DEF DevInv, RunsForOpened
  <2>2. q # p
    BY <1>2, <2>1 DEF WillStop
  <2> QED
    BY <1>3, <2>1, <2>2 DEF WillStop
<1>14. PoolIsPart'
  <2> SUFFICES ASSUME NEW m \in Minors
               PROVE  /\ pool_size'[m] \in {0, Part(NumInterfaces, m).size}
                      /\ Files(m, "rw")' # {} =>
                           pool_size'[m] = Part(NumInterfaces, m).size
    BY DEF PoolIsPart
  <2>1. /\ pool_size[m] \in {0, Part(NumInterfaces, m).size}
        /\ Files(m, "rw") # {} => pool_size[m] = Part(NumInterfaces, m).size
    BY DEF DevInv, PoolIsPart
  <2>2. CASE m = m0 /\ th[p].mode = "rw"
    <3>1. pool_size'[m] = S
      BY <1>1, <1>6, <2>2 DEF DevTypeOK
    <3> QED
      BY <2>2, <3>1 DEF S
  <2>3. CASE ~ (m = m0 /\ th[p].mode = "rw")
    <3>1. pool_size'[m] = pool_size[m]
      BY <1>1, <1>6, <2>3 DEF DevTypeOK
    <3>2. p \notin Files(m, "rw")'
      BY <1>10, <2>3
    <3>3. Files(m, "rw")' = Files(m, "rw")
      BY <1>10, <3>2
    <3> QED
      BY <2>1, <3>1, <3>3
  <2> QED
    BY <2>2, <2>3
<1> QED
  BY <1>7, <1>9, <1>11, <1>12, <1>13, <1>14 DEF DevInv

-----------------------------------------------------------------------------
(* A step of a process that has a file and keeps it.                       *)
LEMMA FileMoves ==
  ASSUME DevInv, NEW p \in Procs, HasFile(p), HasFile(p)',
         th'[p].m = th[p].m, th'[p].mode = th[p].mode,
         \A q \in Procs : q # p => th'[q] = th[q],
         UNCHANGED <<open_count, in_use, pool_size>>, cut \subseteq cut',
         DevTypeOK', RunsForOpened'
  PROVE  DevInv'
<1>1. \A q \in Procs : HasFile(q)' <=> HasFile(q)
  BY DEF HasFile
<1>2. FileSet' = FileSet /\ \A m, mode : Files(m, mode)' = Files(m, mode)
  BY <1>1, SameFiles
<1>3. OpenCountExact'
  BY <1>2, ExactFiles, ExactFilesNext DEF DevInv
<1>4. Reopenable' /\ PoolIsPart'
  BY <1>2 DEF DevInv, Reopenable, PoolIsPart
<1>5. FilesLive'
  BY <1>1 DEF DevInv, FilesLive
<1> QED
  BY <1>3, <1>4, <1>5 DEF DevInv

(* A direction that runs after a step ran before, or is started by one who *)
(* will stop it; and no one who would have stopped it goes past it.        *)
LEMMA StillStopped ==
  ASSUME DevInv, NEW p \in Procs, th'[p].m = th[p].m,
         \A q \in Procs : q # p => th'[q] = th[q], cut \subseteq cut',
         \A m \in Minors \ cut' :
           on'[m] => \/ on[m]
                     \/ m[1] = th[p].m[1] /\ WillStop(p, m[2])',
         \A m \in Minors \ cut' :
           on'[m] /\ m[1] = th[p].m[1] /\ WillStop(p, m[2])
             => WillStop(p, m[2])'
  PROVE  RunsForOpened'
<1> SUFFICES ASSUME NEW m \in Minors \ cut', on'[m]
             PROVE  \E q \in Procs : WillStop(q, m[2])' /\ th'[q].m[1] = m[1]
  BY DEF RunsForOpened
<1>1. CASE m[1] = th[p].m[1] /\ WillStop(p, m[2])'
  BY <1>1
<1>2. CASE on[m]
  <2>1. PICK q \in Procs : WillStop(q, m[2]) /\ th[q].m[1] = m[1]
    BY <1>2 DEF DevInv, RunsForOpened
  <2>2. CASE q = p
    BY <2>1, <2>2
  <2>3. CASE q # p
    BY <2>1, <2>3 DEF WillStop
  <2> QED
    BY <2>2, <2>3
<1> QED
  BY <1>1, <1>2

(* The steps named for a direction are steps of a process with a file.     *)
LEMMA DirPcs ==
  ASSUME NEW d \in Dirs
  PROVE  /\ {Sizing(d), Test(d), Stop(d), Flush(d), Past(d)} \subseteq Pcs
         /\ {Sizing(d), Test(d), Stop(d), Flush(d), Past(d)} \cap
              {"closed", "ver_on", "ver_off", "open"} = {}
  BY DEF Dirs, Pcs, Sizing, Test, Stop, Flush, Past

-----------------------------------------------------------------------------
(* A direction's settings and its switch, from a file of its interface.    *)

LEMMA IoctlTypes ==
  ASSUME DevInv, NEW p \in Procs, zap_ioctl(p)
  PROVE  /\ UNCHANGED <<open_count, in_use, cut, pool_size, late, overtaken>>
         /\ UNCHANGED th \/ \E d \in Dirs : Goto(p, Sizing(d))
         /\ max_size' \in [Minors -> Ulong] /\ packet_size' \in [Minors -> Ulong]
         /\ header_size' \in [Minors -> 0 .. OobFifo]
         /\ jumbo' \in [Minors -> BOOLEAN]
         /\ \E d \in Dirs, b \in BOOLEAN :
              <<th[p].m[1], d>> \in Minors
              /\ on' = [on EXCEPT ![<<th[p].m[1], d>>] = b]
<1>1. DevTypeOK
  BY DEF DevInv
<1>2. PICK d \in Dirs : LET m == <<th[p].m[1], d>> IN
       \/ /\ m \in Tuned
          /\ \/ \E n \in Sizes : W_MAX_SIZE(p, m, n) \/ W_HEADER_SIZE(m, n)
             \/ \E b \in BOOLEAN : W_JUMBO_EN(m, b)
       \/ \E b \in BOOLEAN : W_DMA_ON(m, b)
  BY Zenon DEF zap_ioctl
<1> DEFINE m == <<th[p].m[1], d>>
<1>3. m \in Minors /\ m[2] = d
  BY <1>1 DEF DevTypeOK, ThType, Minors
<1>4. UNCHANGED <<open_count, in_use, cut, late, overtaken>>
  BY Zenon DEF zap_ioctl, flushing
<1> HIDE DEF m
<1>5. ASSUME NEW n \in Sizes, W_MAX_SIZE(p, m, n)
      PROVE  /\ UNCHANGED <<pool_size, packet_size, header_size, jumbo>>
             /\ UNCHANGED th \/ Goto(p, Sizing(d))
             /\ max_size' \in [Minors -> Ulong]
             /\ on' = [on EXCEPT ![m] = FALSE]
  <2>1. n \in Ulong
    BY DevAssumption DEF Ulong
  <2>2. max_size' = max_size \/ max_size' = [max_size EXCEPT ![m] = n]
    BY <1>5, Zenon DEF W_MAX_SIZE
  <2>3. /\ UNCHANGED <<pool_size, packet_size, header_size, jumbo>>
        /\ on' = [on EXCEPT ![m] = FALSE]
        /\ UNCHANGED th \/ Goto(p, Sizing(m[2]))
    BY <1>5, Zenon DEF W_MAX_SIZE, Stopped
  <2>4. max_size' \in [Minors -> Ulong]
    BY <1>1, <1>3, <2>1, <2>2 DEF DevTypeOK
  <2> QED
    BY <1>3, <2>3, <2>4, Zenon
<1>6. ASSUME NEW n \in Sizes, W_HEADER_SIZE(m, n)
      PROVE  /\ UNCHANGED <<th, pool_size, max_size, packet_size, jumbo>>
             /\ header_size' \in [Minors -> 0 .. OobFifo]
             /\ on' = [on EXCEPT ![m] = FALSE]
  <2>1. n \in Nat /\ OobFifo \in Nat
    BY DevAssumption
  <2>2. \/ header_size' = header_size
        \/ n <= OobFifo /\ header_size' = [header_size EXCEPT ![m] = n]
    BY <1>6, Zenon DEF W_HEADER_SIZE
  <2>3. /\ UNCHANGED <<th, pool_size, max_size, packet_size, jumbo>>
        /\ on' = [on EXCEPT ![m] = FALSE]
    BY <1>6, Zenon DEF W_HEADER_SIZE, Stopped
  <2> QED
    BY <1>1, <1>3, <2>1, <2>2, <2>3 DEF DevTypeOK
<1>7. ASSUME NEW b \in BOOLEAN, W_JUMBO_EN(m, b)
      PROVE  /\ UNCHANGED <<th, pool_size, max_size, packet_size, header_size>>
             /\ jumbo' \in [Minors -> BOOLEAN]
             /\ on' = [on EXCEPT ![m] = FALSE]
  <2>1. jumbo' = jumbo \/ jumbo' = [jumbo EXCEPT ![m] = b]
    BY <1>7, Zenon DEF W_JUMBO_EN
  <2>2. /\ UNCHANGED <<th, pool_size, max_size, packet_size, header_size>>
        /\ on' = [on EXCEPT ![m] = FALSE]
    BY <1>7, Zenon DEF W_JUMBO_EN, Stopped
  <2> QED
    BY <1>1, <1>3, <2>1, <2>2 DEF DevTypeOK
<1>8. ASSUME NEW b \in BOOLEAN, W_DMA_ON(m, b)
      PROVE  /\ UNCHANGED <<th, pool_size, max_size, packet_size, header_size,
                            jumbo>>
             /\ \E c \in BOOLEAN : on' = [on EXCEPT ![m] = c]
  <2> DEFINE c == b /\ PoolTakes(pool_size[m], packet_size[m])
  <2>1. c \in BOOLEAN
    BY Zenon
  <2>2. on' = [on EXCEPT ![m] = c]
    BY <1>8, Zenon DEF W_DMA_ON
  <2> HIDE DEF c
  <2> QED
    BY <1>8, <2>1, <2>2, Zenon DEF W_DMA_ON, settings
<1>9. /\ \E c \in BOOLEAN : on' = [on EXCEPT ![m] = c]
      /\ pool_size' = pool_size
      /\ UNCHANGED th \/ Goto(p, Sizing(d))
      /\ max_size' \in [Minors -> Ulong] /\ packet_size' \in [Minors -> Ulong]
      /\ header_size' \in [Minors -> 0 .. OobFifo]
      /\ jumbo' \in [Minors -> BOOLEAN]
  <2>1. FALSE \in BOOLEAN
    OBVIOUS
  <2> QED
    BY <1>1, <1>2, <1>5, <1>6, <1>7, <1>8, <2>1, Zenon DEF m, DevTypeOK
<1> QED
  BY <1>3, <1>4, <1>9, Zenon DEF m

LEMMA IoctlStep ==
  ASSUME DevInv, NEW p \in Procs, zap_ioctl(p)
  PROVE  DevInv'
<1>1. /\ UNCHANGED <<open_count, in_use, cut, pool_size, late, overtaken>>
      /\ max_size' \in [Minors -> Ulong] /\ packet_size' \in [Minors -> Ulong]
      /\ header_size' \in [Minors -> 0 .. OobFifo]
      /\ jumbo' \in [Minors -> BOOLEAN]
      /\ UNCHANGED th \/ \E d \in Dirs : Goto(p, Sizing(d))
  BY IoctlTypes
<1>2. PICK d \in Dirs, b \in BOOLEAN :
        <<th[p].m[1], d>> \in Minors
        /\ on' = [on EXCEPT ![<<th[p].m[1], d>>] = b]
  BY IoctlTypes
<1>3. th[p].pc = "opened"
  BY DEF zap_ioctl, At
<1>4. /\ th' \in [Procs -> ThType]
      /\ th'[p].pc \in {"opened", "sizing_tx", "sizing_rx"}
      /\ th'[p].m = th[p].m /\ th'[p].mode = th[p].mode
      /\ \A q \in Procs : q # p => th'[q] = th[q]
  <2>1. CASE UNCHANGED th
    BY <1>3, <2>1 DEF DevInv, DevTypeOK
  <2>2. CASE \E e \in Dirs : Goto(p, Sizing(e))
    <3>1. PICK e \in Dirs : Goto(p, Sizing(e))
      BY <2>2
    <3>2. Sizing(e) \in Pcs /\ Sizing(e) \in {"sizing_tx", "sizing_rx"}
      BY DirPcs DEF Sizing
    <3> QED
      BY <3>1, <3>2, GotoEffect DEF DevInv
  <2> QED
    BY <1>1, <2>1, <2>2
<1>5. DevTypeOK'
  BY <1>1, <1>2, <1>4 DEF DevInv, DevTypeOK
<1>6. HasFile(p) /\ HasFile(p)' /\ \A e : WillStop(p, e)'
  BY <1>3, <1>4 DEF HasFile, WillStop
<1>7. RunsForOpened'
  <2>1. \A m \in Minors : on'[m] => on[m] \/ m[1] = th[p].m[1]
    BY <1>2 DEF DevInv, DevTypeOK
  <2> QED
    BY <1>1, <1>4, <1>6, <2>1, StillStopped
<1> QED
  BY <1>1, <1>4, <1>5, <1>6, <1>7, FileMoves

(* The pool_resize at the end of W_MAX_SIZE, and that of a close's flush.  *)
LEMMA ResizeStep ==
  ASSUME DevInv, NEW p \in Procs, NEW d \in Dirs,
         W_MAX_SIZE_resize(p, d) \/ ReleaseFlush(p, d)
  PROVE  DevInv'
<1> DEFINE m == <<th[p].m[1], d>>
<1>1. DevTypeOK /\ m \in Minors
  BY DEF DevInv, DevTypeOK, ThType, Minors
<1>2. /\ UNCHANGED <<open_count, in_use, max_size, header_size, jumbo,
                     pool_size, on, cut>>
      /\ late' \in {late, 0} /\ overtaken' \subseteq overtaken \cup {m}
      /\ packet_size' \in {packet_size,
                           [packet_size EXCEPT ![m] = late],
                           [packet_size EXCEPT ![m] = max_size[m]]}
  BY Zenon DEF W_MAX_SIZE_resize, ReleaseFlush
<1>3. PICK l \in Pcs : /\ Goto(p, l)
                       /\ l \in {"opened", "test_rx", "release"}
                       /\ \/ th[p].pc = Sizing(d) /\ l = "opened"
                          \/ th[p].pc = Flush(d) /\ l = Past(d)
  <2>1. "opened" \in Pcs /\ Past(d) \in Pcs \cap {"test_rx", "release"}
    BY DirPcs DEF Past, Pcs
  <2> QED
    BY <2>1, Zenon DEF W_MAX_SIZE_resize, ReleaseFlush, At
<1>4. /\ th' \in [Procs -> ThType] /\ th'[p].pc = l
      /\ th'[p].m = th[p].m /\ th'[p].mode = th[p].mode
      /\ \A q \in Procs : q # p => th'[q] = th[q]
  BY <1>1, <1>3, GotoEffect
<1>5. HasFile(p) /\ HasFile(p)'
  BY <1>3, <1>4, DirPcs DEF HasFile
<1>6. \A e \in Dirs : WillStop(p, e) => WillStop(p, e)'
  BY <1>3, <1>4 DEF WillStop, Flush, Past, Dirs, Sizing
<1>7. DevTypeOK'
  <2>1. late' \in Ulong
    BY <1>1, <1>2, DevAssumption DEF DevTypeOK, Ulong
  <2>2. packet_size' \in [Minors -> Ulong]
    BY <1>1, <1>2 DEF DevTypeOK
  <2>3. overtaken' \subseteq Minors
    BY <1>1, <1>2 DEF DevTypeOK
  <2> QED
    BY <1>1, <1>2, <1>4, <2>1, <2>2, <2>3 DEF DevTypeOK
<1>8. RunsForOpened'
  <2>1. \A k \in Minors : k[2] \in Dirs
    BY DEF Minors
  <2> QED
    BY <1>2, <1>4, <1>6, <2>1, StillStopped
<1> QED
  BY <1>2, <1>4, <1>5, <1>7, <1>8, FileMoves

-----------------------------------------------------------------------------
(* zap_release (zap.c:350-391).                                            *)

LEMMA ReleaseStopStep ==
  ASSUME DevInv, NEW p \in Procs, NEW d \in Dirs,
         \/ ReleaseTest(p, d) \/ ReleaseStop(p, d)
         \/ ReleaseStopInterrupted(p, d)
  PROVE  DevInv'
<1> DEFINE m == <<th[p].m[1], d>>
<1>1. DevTypeOK /\ m \in Minors
  BY DEF DevInv, DevTypeOK, ThType, Minors
<1>2. UNCHANGED <<open_count, in_use, max_size, header_size, jumbo, pool_size,
                  packet_size, overtaken>>
  BY Zenon DEF ReleaseTest, ReleaseStop, ReleaseStopInterrupted, settings,
     flushing
<1>3. PICK l \in Pcs :
        /\ Goto(p, l)
        /\ \/ /\ th[p].pc = Test(d) /\ l = Stop(d)
              /\ UNCHANGED <<on, cut, late>>
           \/ /\ th[p].pc = Test(d) /\ l = Past(d) /\ ~ on[m]
              /\ UNCHANGED <<on, cut, late>>
           \/ /\ th[p].pc = Stop(d) /\ l = Flush(d)
              /\ on' = [on EXCEPT ![m] = FALSE]
              /\ cut' = cut /\ late' = packet_size[m]
           \/ /\ th[p].pc = Stop(d) /\ l = Past(d)
              /\ cut' = cut \cup {m} /\ UNCHANGED <<on, late>>
  <2>1. Stop(d) \in Pcs /\ Past(d) \in Pcs /\ Flush(d) \in Pcs
    BY DirPcs
  <2>2. CASE ReleaseTest(p, d)
    BY <2>1, <2>2, Zenon DEF ReleaseTest, At, flushing
  <2>3. CASE ReleaseStop(p, d)
    BY <2>1, <2>3, Zenon DEF ReleaseStop, At
  <2>4. CASE ReleaseStopInterrupted(p, d)
    BY <2>1, <2>4, Zenon DEF ReleaseStopInterrupted, At, flushing
  <2> QED
    BY <2>2, <2>3, <2>4
<1>4. /\ th' \in [Procs -> ThType] /\ th'[p].pc = l
      /\ th'[p].m = th[p].m /\ th'[p].mode = th[p].mode
      /\ \A q \in Procs : q # p => th'[q] = th[q]
  BY <1>1, <1>3, GotoEffect
<1>5. HasFile(p) /\ HasFile(p)'
  BY <1>3, <1>4, DirPcs DEF HasFile
<1>6. DevTypeOK'
  <2>1. /\ on' \in [Minors -> BOOLEAN] /\ cut' \subseteq Minors
        /\ late' \in Ulong
    <3>1. on' \in {on, [on EXCEPT ![m] = FALSE]} /\ cut' \in {cut, cut \cup {m}}
          /\ late' \in {late, packet_size[m]}
      BY <1>3, Zenon
    <3> HIDE DEF m
    <3>2. on' \in [Minors -> BOOLEAN]
      BY <1>1, <3>1, Zenon DEF DevTypeOK
    <3>3. cut' \subseteq Minors
      BY <1>1, <3>1 DEF DevTypeOK
    <3>4. late' \in Ulong
      BY <1>1, <3>1 DEF DevTypeOK
    <3> QED
      BY <3>2, <3>3, <3>4
  <2> QED
    BY <1>1, <1>2, <1>4, <2>1 DEF DevTypeOK
<1>7. cut \subseteq cut'
  BY <1>3
<1>8. RunsForOpened'
  <2>1. \A k \in Minors \ cut' : on'[k] => on[k]
    BY <1>1, <1>3 DEF DevTypeOK
  <2>2. ASSUME NEW k \in Minors \ cut', on'[k], k[1] = th[p].m[1],
               WillStop(p, k[2])
        PROVE  WillStop(p, k[2])'
    <3>1. k = <<k[1], k[2]>> /\ k[2] \in Dirs
      BY DEF Minors
    <3>2. CASE k[2] = d
      <4>1. k = m
        BY <2>2, <3>1, <3>2
      <4>2. l = Stop(d)
        BY <1>1, <1>3, <2>2, <4>1 DEF DevTypeOK
      <4> QED
        BY <1>4, <3>2, <4>2 DEF WillStop, Stop, Dirs
    <3>3. CASE k[2] # d
      BY <1>3, <1>4, <2>2, <3>1, <3>3
      DEF WillStop, Test, Stop, Flush, Past, Dirs
    <3> QED
      BY <3>2, <3>3
  <2> QED
    BY <1>4, <1>7, <2>1, <2>2, StillStopped
<1> QED
  BY <1>2, <1>4, <1>5, <1>6, <1>7, <1>8, FileMoves

LEMMA ReleaseStep ==
  ASSUME DevInv, NEW p \in Procs, zap_release(p) \/ zap_release_interrupted(p)
  PROVE  DevInv'
<1> DEFINE m0 == th[p].m
<1>1. DevTypeOK /\ m0 \in Minors
  BY DEF DevInv, DevTypeOK, ThType
<1>2. Close(p) /\ th[p].pc = "release"
  BY DEF zap_release, zap_release_interrupted, At
<1>3. /\ th' \in [Procs -> ThType] /\ th'[p].pc = "closed"
      /\ \A q \in Procs : q # p => th'[q] = th[q]
  BY <1>1, <1>2, CloseEffect
<1>4. UNCHANGED <<max_size, header_size, jumbo, pool_size, packet_size, on,
                  late, overtaken>>
  BY Zenon DEF zap_release, zap_release_interrupted, settings, flushing
<1>5. \/ /\ in_use' = [in_use EXCEPT ![m0] = in_use[m0] + 1]
         /\ open_count' = open_count - 1 /\ cut' = cut
      \/ in_use' = in_use /\ open_count' = open_count /\ cut' = cut \cup {m0}
  BY Zenon DEF zap_release, zap_release_interrupted
<1>6. /\ HasFile(p) /\ ~ HasFile(p)'
      /\ \A q \in Procs : q # p => (HasFile(q)' <=> HasFile(q))
  BY <1>2, <1>3 DEF HasFile
<1>7. /\ FileSet' = FileSet \ {p} /\ p \in FileSet
  BY <1>6 DEF FileSet
<1>8. /\ Cardinality(FileSet') = Cardinality(FileSet) - 1
      /\ Cardinality(FileSet) \in Nat /\ Cardinality(FileSet') \in Nat
  <2>1. Cardinality(FileSet') = Cardinality(FileSet) - 1
    BY <1>7, FileSetFinite, FS_RemoveElement
  <2>2. Cardinality(FileSet) # 0
    BY <1>7, FileSetFinite, FS_EmptySet
  <2> QED
    BY <2>1, <2>2, FileSetFinite
<1>9. open_count >= Cardinality(FileSet)
      /\ (cut = {} => open_count = Cardinality(FileSet))
  BY ExactFiles DEF DevInv
<1>10. DevTypeOK'
  <2>1. in_use' \in [Minors -> Nat] /\ open_count' \in Nat
    BY <1>1, <1>5, <1>8, <1>9 DEF DevTypeOK
  <2>2. cut' \subseteq Minors
    BY <1>1, <1>5 DEF DevTypeOK
  <2> QED
    BY <1>1, <1>3, <1>4, <2>1, <2>2 DEF DevTypeOK
<1>11. OpenCountExact'
  <2>1. open_count \in Nat /\ (cut' = {} => cut' = cut)
    BY <1>1, <1>5 DEF DevTypeOK
  <2>2. \/ open_count' = open_count - 1 /\ cut' = cut
        \/ open_count' = open_count /\ cut' # {}
    BY <1>5
  <2>3. /\ open_count' >= Cardinality(FileSet')
        /\ cut' = {} => open_count' = Cardinality(FileSet')
    BY <1>8, <1>9, <2>1, <2>2
  <2> QED
    BY <2>3, ExactFilesNext
<1>12. \A m, mode : /\ Files(m, mode)' \subseteq Files(m, mode)
                    /\ m # m0 => Files(m, mode)' = Files(m, mode)
  BY <1>3, <1>6 DEF Files
<1>13. Reopenable'
  <2> SUFFICES ASSUME NEW m \in Minors \ cut', Files(m, "rw")' = {}
               PROVE  in_use'[m] > 0
    BY DEF Reopenable
  <2>1. CASE m = m0
    BY <1>1, <1>5, <2>1 DEF DevTypeOK
  <2>2. CASE m # m0
    <3>1. m \notin cut /\ Files(m, "rw") = {}
      BY <1>5, <1>12, <2>2
    <3>2. in_use[m] > 0
      BY <3>1 DEF DevInv, Reopenable
    <3> QED
      BY <1>1, <1>5, <2>2, <3>2 DEF DevTypeOK
  <2> QED
    BY <2>1, <2>2
<1>14. PoolIsPart'
  <2> SUFFICES ASSUME NEW m \in Minors
               PROVE  /\ pool_size'[m] \in {0, Part(NumInterfaces, m).size}
                      /\ Files(m, "rw")' # {} =>
                           pool_size'[m] = Part(NumInterfaces, m).size
    BY DEF PoolIsPart
  <2>1. Files(m, "rw")' # {} => Files(m, "rw") # {}
    BY <1>12
  <2> QED
    BY <1>4, <2>1 DEF DevInv, PoolIsPart
<1>15. FilesLive'
  BY <1>3, <1>6 DEF DevInv, FilesLive
<1>16. RunsForOpened'
  <2> SUFFICES ASSUME NEW m \in Minors \ cut', on'[m]
               PROVE  \E q \in Procs : WillStop(q, m[2])' /\ th'[q].m[1] = m[1]
    BY DEF RunsForOpened
  <2>1. m \notin cut /\ on[m]
    BY <1>4, <1>5
  <2>2. PICK q \in Procs : WillStop(q, m[2]) /\ th[q].m[1] = m[1]
    BY <2>1 DEF DevInv, RunsForOpened
  <2>3. q # p
    BY <1>2, <2>2 DEF WillStop
  <2> QED
    BY <1>3, <2>2, <2>3 DEF WillStop
<1> QED
  BY <1>10, <1>11, <1>13, <1>14, <1>15, <1>16 DEF DevInv
-----------------------------------------------------------------------------
LEMMA DevStart == DevInit => DevInv /\ SizesInv
<1> SUFFICES ASSUME DevInit PROVE DevInv /\ SizesInv
  OBVIOUS
<1>1. th = [p \in Procs |-> Closed] /\ \A p \in Procs : th[p].pc = "closed"
  BY ClosedType DEF DevInit
<1>2. DevTypeOK
  <2>1. 0 \in Ulong /\ 0 \in 0 .. OobFifo /\ 1 \in Nat
    BY DevAssumption DEF Ulong
  <2>2. th \in [Procs -> ThType]
    BY <1>1, ClosedType
  <2> QED
    BY <2>1, <2>2 DEF DevInit, DevTypeOK
<1>3. FileSet = {} /\ \A m, mode : Files(m, mode) = {}
  BY <1>1 DEF FileSet, Files, HasFile
<1>4. OpenCountExact
  BY <1>3, ExactFiles, FS_EmptySet DEF DevInit
<1>5. Reopenable /\ PoolIsPart
  BY <1>3 DEF DevInit, Reopenable, PoolIsPart
<1>6. FilesLive /\ RunsForOpened
  BY <1>1 DEF DevInit, FilesLive, RunsForOpened, HasFile
<1>7. SizesInv
  BY DevAssumption DEF DevInit, SizesInv, MaxSizeFitsPacket
<1> QED
  BY <1>2, <1>4, <1>5, <1>6, <1>7 DEF DevInv

LEMMA DevStep == DevInv /\ [DevNext]_dvars => DevInv'
<1> SUFFICES ASSUME DevInv, [DevNext]_dvars PROVE DevInv'
  OBVIOUS
<1>1. CASE UNCHANGED dvars
  <2>1. UNCHANGED <<th, open_count, in_use, max_size, header_size, jumbo,
                    pool_size, packet_size, on, cut, late, overtaken>>
    BY <1>1, Zenon DEF dvars
  <2>2. (\A q \in Procs : HasFile(q)' <=> HasFile(q))
    BY <2>1 DEF HasFile
  <2>3. FileSet' = FileSet /\ \A m, mode : Files(m, mode)' = Files(m, mode)
    BY <2>1, <2>2, SameFiles
  <2>4. DevTypeOK'
    BY <2>1 DEF DevInv, DevTypeOK
  <2>5. OpenCountExact'
    BY <2>1, <2>3, ExactFiles, ExactFilesNext DEF DevInv
  <2>6. Reopenable' /\ PoolIsPart'
    BY <2>1, <2>3 DEF DevInv, Reopenable, PoolIsPart
  <2>7. FilesLive' /\ RunsForOpened'
    BY <2>1, <2>2 DEF DevInv, FilesLive, RunsForOpened, WillStop
  <2> QED
    BY <2>4, <2>5, <2>6, <2>7 DEF DevInv
<1>2. CASE DevNext
  <2>1. PICK p \in Procs :
          \/ \E m \in Minors, mode \in Modes : OpenCheck(p, m, mode)
          \/ VersionOn(p) \/ VersionOff(p)
          \/ OpenRefused(p) \/ OpenReadOnly(p) \/ OpenReadWrite(p)
          \/ zap_ioctl(p)
          \/ \E dir \in Dirs :
               \/ W_MAX_SIZE_resize(p, dir)
               \/ ReleaseTest(p, dir) \/ ReleaseStop(p, dir)
               \/ ReleaseStopInterrupted(p, dir) \/ ReleaseFlush(p, dir)
          \/ zap_release(p) \/ zap_release_interrupted(p)
    BY <1>2, Zenon DEF DevNext
  <2> QED
    BY <2>1, BeforeOpen, OpenStep, IoctlStep, ResizeStep, ReleaseStopStep,
       ReleaseStep, Zenon
<1> QED
  BY <1>1, <1>2

-----------------------------------------------------------------------------
(* Sizes: a length the check of W_MAX_SIZE lets through is one the FIFOs   *)
(* and the pool take.                                                      *)

LEMMA AllowedFits ==
  ASSUME FifosFit, DevInv, NEW m \in Live, ~ jumbo[m], NEW n \in Sizes,
         SizeAllowed(m, n)
  PROVE  n <= DatFifo + OobFifo
<1> DEFINE h == header_size[m]
<1>1. m \in Minors /\ h \in 0 .. OobFifo
  BY DEF Live, DevInv, DevTypeOK
<1>2. /\ n \in Nat /\ n < UlongMod /\ UlongMod \in Nat /\ UlongMod > 0
      /\ DatFifo \in Nat /\ OobFifo \in Nat /\ Page \in Nat /\ Page > 0
      /\ DatFifo + OobFifo + Page <= UlongMod
  BY DevAssumption DEF FifosFit
<1>3. (n - h) % UlongMod <= DatFifo
  BY DEF SizeAllowed
<1> HIDE DEF h
<1>4. n >= h
  <2> SUFFICES ASSUME n < h PROVE FALSE
    BY <1>1, <1>2
  <2>1. n - h \in Int /\ n - h < 0 /\ - UlongMod <= n - h
    BY <1>1, <1>2
  <2>2. (n - h) % UlongMod = n - h + UlongMod
    BY <1>2, <2>1, ModSmall
  <2> QED
    BY <1>1, <1>2, <1>3, <2>2
<1>5. n - h \in Int /\ 0 <= n - h /\ n - h < UlongMod
  BY <1>1, <1>2, <1>4
<1>6. (n - h) % UlongMod = n - h
  BY <1>2, <1>5, ModSmall
<1> QED
  BY <1>1, <1>2, <1>3, <1>6

LEMMA FitsPool ==
  ASSUME FifosFit, DevInv, NEW m \in Live, NEW n \in Nat,
         n <= DatFifo + OobFifo
  PROVE  PoolTakes(pool_size[m], n)
<1> DEFINE z == Part(NumInterfaces, m).size
<1>1. m \in Minors /\ pool_size[m] \in {0, z}
  BY DEF Live, DevInv, DevTypeOK, PoolIsPart
<1>2. /\ UlongMod \in Nat /\ UlongMod > 0
      /\ DatFifo \in Nat /\ OobFifo \in Nat /\ Page \in Nat /\ Page > 0
      /\ DatFifo + OobFifo + Page <= UlongMod
  BY DevAssumption DEF FifosFit
<1>6. CASE pool_size[m] = 0
  <2>1. 0 - Page \in Int /\ 0 - Page < 0 /\ - UlongMod <= 0 - Page
    BY <1>2
  <2>2. (0 - Page) % UlongMod = 0 - Page + UlongMod
    BY <1>2, <2>1, ModSmall
  <2> QED
    BY <1>2, <1>6, <2>2 DEF PoolTakes
<1>7. CASE pool_size[m] = z
  <2>1. z \in Ulong
    BY PartSize
  <2>2. DatFifo + OobFifo <= (z - Page) % UlongMod
    BY DEF FifosFit, PoolTakes
  <2> HIDE DEF z
  <2>3. (z - Page) % UlongMod \in Int
    BY <1>2, <2>1, ModSmall DEF Ulong
  <2> QED
    BY <1>2, <1>7, <2>2, <2>3 DEF PoolTakes
<1> QED
  BY <1>1, <1>6, <1>7

(* A step that changes no size, and moves no process out of a change.      *)
LEMMA SizesKept ==
  ASSUME SizesInv, UNCHANGED <<jumbo, max_size, packet_size>>,
         overtaken \subseteq overtaken',
         \A q \in Procs, d \in Dirs :
           At(q, Sizing(d)) => At(q, Sizing(d))' /\ th'[q].m = th[q].m
  PROVE  SizesInv'
<1>1. \A m \in Minors : m[2] \in Dirs
  BY DEF Minors
<1> QED
  BY <1>1 DEF SizesInv, MaxSizeFitsPacket

(* The steps of zap_open and zap_release leave the processes in an ioctl   *)
(* where they are.                                                         *)
LEMMA SizingStays ==
  ASSUME DevInv, NEW p \in Procs,
         \/ \E m \in Minors, mode \in Modes : OpenCheck(p, m, mode)
         \/ VersionOn(p) \/ VersionOff(p) \/ OpenRefused(p) \/ OpenReadOnly(p)
         \/ OpenReadWrite(p) \/ zap_release(p) \/ zap_release_interrupted(p)
         \/ \E d \in Dirs :
              \/ ReleaseTest(p, d) \/ ReleaseStop(p, d)
              \/ ReleaseStopInterrupted(p, d) \/ ReleaseFlush(p, d)
  PROVE  \A q \in Procs, d \in Dirs :
           At(q, Sizing(d)) => At(q, Sizing(d))' /\ th'[q].m = th[q].m
<1>1. \A q \in Procs : q # p => th'[q] = th[q]
  BY Zenon DEF OpenCheck, VersionOn, VersionOff, OpenRefused, OpenReadOnly,
     OpenReadWrite, zap_release, zap_release_interrupted, ReleaseTest,
     ReleaseStop, ReleaseStopInterrupted, ReleaseFlush, Goto, Close, DevInv,
     DevTypeOK
<1>2. \A d \in Dirs : ~ At(p, Sizing(d))
  BY DEF OpenCheck, VersionOn, VersionOff, OpenRefused, OpenReadOnly,
     OpenReadWrite, zap_release, zap_release_interrupted, ReleaseTest,
     ReleaseStop, ReleaseStopInterrupted, ReleaseFlush, At, Dirs, Sizing, Test,
     Stop, Flush
<1> QED
  BY <1>1, <1>2 DEF At

LEMMA SizesStep ==
  ASSUME FifosFit
  PROVE  DevInv /\ SizesInv /\ [DevNext]_dvars => SizesInv'
<1> SUFFICES ASSUME DevInv, SizesInv, [DevNext]_dvars PROVE SizesInv'
  OBVIOUS
<1>1. /\ DevTypeOK
      /\ \A m \in Minors : ~ jumbo[m] /\ max_size[m] <= DatFifo + OobFifo
      /\ MaxSizeFitsPacket /\ DatFifo \in Nat /\ OobFifo \in Nat
  BY DevAssumption DEF DevInv, SizesInv
<1>2. ASSUME NEW p \in Procs,
             \/ \E m \in Minors, mode \in Modes : OpenCheck(p, m, mode)
             \/ VersionOn(p) \/ VersionOff(p) \/ OpenRefused(p)
             \/ OpenReadOnly(p) \/ zap_release(p) \/ zap_release_interrupted(p)
             \/ \E d \in Dirs :
                  \/ ReleaseTest(p, d) \/ ReleaseStop(p, d)
                  \/ ReleaseStopInterrupted(p, d)
      PROVE  SizesInv'
  <2>1. UNCHANGED <<jumbo, max_size, packet_size, overtaken>>
    BY <1>2, Zenon DEF OpenCheck, VersionOn, VersionOff, OpenRefused,
       OpenReadOnly, zap_release, zap_release_interrupted, ReleaseTest,
       ReleaseStop, ReleaseStopInterrupted, settings, flushing
  <2>2. \A q \in Procs, d \in Dirs :
          At(q, Sizing(d)) => At(q, Sizing(d))' /\ th'[q].m = th[q].m
    BY <1>2, SizingStays, Zenon
  <2> QED
    BY <2>1, <2>2, SizesKept
<1>3. ASSUME NEW p \in Procs, OpenReadWrite(p) PROVE SizesInv'
  <2> DEFINE m0 == th[p].m
             z == pool_size'[m0]
  <2>1. /\ m0 \in Live /\ m0 \in Minors /\ jumbo' = jumbo
        /\ pool_size' = [pool_size EXCEPT ![m0] = region'[m0].size]
        /\ region' = setup_multiple_pools
        /\ max_size' = [max_size EXCEPT ![m0] = DatFifo]
        /\ overtaken' = overtaken \ {m0}
        /\ packet_size' = IF PoolTakes(z, DatFifo)
                          THEN [packet_size EXCEPT ![m0] = DatFifo]
                          ELSE packet_size
    BY <1>3, Zenon DEF OpenReadWrite, Live
  <2>2. region'[m0] = Part(NumInterfaces, m0)
    BY <2>1, Zenon DEF setup_multiple_pools
  <2>3. z = Part(NumInterfaces, m0).size
    BY <1>1, <2>1, <2>2, Zenon DEF DevTypeOK
  <2>4. PoolTakes(z, DatFifo)
    <3>1. z \in Ulong /\ PoolTakes(z, DatFifo + OobFifo)
      BY <2>1, <2>3, PartSize DEF FifosFit
    <3>2. /\ DatFifo \in Nat /\ OobFifo \in Nat /\ UlongMod \in Nat
          /\ UlongMod > 0 /\ Page \in Nat
      BY DevAssumption
    <3> HIDE DEF z
    <3>3. (z - Page) % UlongMod \in Int
      BY <3>1, <3>2, ModSmall DEF Ulong
    <3> QED
      BY <3>1, <3>2, <3>3 DEF PoolTakes
  <2>5. packet_size' = [packet_size EXCEPT ![m0] = DatFifo]
    BY <2>1, <2>4, Zenon
  <2>6. \A q \in Procs, d \in Dirs :
          At(q, Sizing(d)) => At(q, Sizing(d))' /\ th'[q].m = th[q].m
    BY <1>3, SizingStays, Zenon
  <2>7. ASSUME NEW m \in Minors
        PROVE  /\ ~ jumbo'[m] /\ max_size'[m] <= DatFifo + OobFifo
               /\ m \notin overtaken' =>
                    \/ max_size'[m] <= packet_size'[m]
                    \/ \E q \in Procs : th'[q].m[1] = m[1]
                                        /\ At(q, Sizing(m[2]))'
    <3>1. CASE m = m0
      BY <1>1, <2>1, <2>5, <3>1 DEF DevTypeOK
    <3>2. CASE m # m0
      <4>1. /\ max_size'[m] = max_size[m] /\ packet_size'[m] = packet_size[m]
            /\ m \notin overtaken' => m \notin overtaken
        BY <1>1, <2>1, <2>5, <3>2 DEF DevTypeOK
      <4>2. m[2] \in Dirs
        BY DEF Minors
      <4> QED
        BY <1>1, <2>1, <2>6, <4>1, <4>2 DEF MaxSizeFitsPacket
    <3> QED
      BY <3>1, <3>2
  <2> QED
    BY <2>7 DEF SizesInv, MaxSizeFitsPacket
<1>4. ASSUME NEW p \in Procs, zap_ioctl(p) PROVE SizesInv'
  <2>1. PICK d \in Dirs : LET m == <<th[p].m[1], d>> IN
         \/ /\ m \in Tuned
            /\ \/ \E n \in Sizes : W_MAX_SIZE(p, m, n) \/ W_HEADER_SIZE(m, n)
               \/ \E b \in BOOLEAN : W_JUMBO_EN(m, b)
         \/ \E b \in BOOLEAN : W_DMA_ON(m, b)
    BY <1>4, Zenon DEF zap_ioctl
  <2> DEFINE m == <<th[p].m[1], d>>
  <2>2. m \in Live /\ m \in Minors /\ m[1] = th[p].m[1] /\ m[2] = d
    <3>1. th[p].m \in Live
      BY <1>4 DEF zap_ioctl, At, DevInv, FilesLive, HasFile
    <3> QED
      BY <3>1 DEF Live, Minors
  <2> HIDE DEF m
  <2>3. th[p].pc = "opened" /\ overtaken' = overtaken
    BY <1>4, Zenon DEF zap_ioctl, At, flushing
  <2>4. th' = th /\ UNCHANGED <<jumbo, max_size, packet_size>> => SizesInv'
    BY <2>3, SizesKept DEF At
  <2>5. ASSUME NEW n \in Sizes, W_MAX_SIZE(p, m, n) PROVE SizesInv'
    <3>1. UNCHANGED <<jumbo, packet_size>>
      BY <2>5, Zenon DEF W_MAX_SIZE
    <3>2. CASE UNCHANGED <<th, max_size>>
      BY <2>4, <3>1, <3>2
    <3>3. CASE /\ SizeAllowed(m, n) /\ Goto(p, Sizing(m[2]))
               /\ max_size' = [max_size EXCEPT ![m] = n]
      <4>1. n <= DatFifo + OobFifo /\ n \in Nat
        BY <1>1, <2>2, <3>3, AllowedFits, DevAssumption
      <4>2. Sizing(m[2]) \in Pcs
        BY <2>2, DirPcs
      <4>3. /\ th'[p].pc = Sizing(m[2]) /\ th'[p].m = th[p].m
            /\ \A q \in Procs : q # p => th'[q] = th[q]
        BY <1>1, <3>3, <4>2, GotoEffect
      <4>4. \A e \in Dirs : ~ At(p, Sizing(e))
        BY <2>3 DEF At, Sizing, Dirs
      <4>5. ASSUME NEW k \in Minors
            PROVE  /\ ~ jumbo'[k] /\ max_size'[k] <= DatFifo + OobFifo
                   /\ k \notin overtaken' =>
                        \/ max_size'[k] <= packet_size'[k]
                        \/ \E q \in Procs : th'[q].m[1] = k[1]
                                            /\ At(q, Sizing(k[2]))'
        <5>1. CASE k = m
          BY <1>1, <2>2, <3>1, <3>3, <4>1, <4>3, <5>1 DEF DevTypeOK, At
        <5>2. CASE k # m
          <6>1. max_size'[k] = max_size[k] /\ k[2] \in Dirs
            BY <1>1, <3>3, <5>2 DEF DevTypeOK, Minors
          <6> QED
            BY <1>1, <2>3, <3>1, <4>3, <4>4, <6>1 DEF MaxSizeFitsPacket, At
        <5> QED
          BY <5>1, <5>2
      <4> QED
        BY <4>5 DEF SizesInv, MaxSizeFitsPacket
    <3> QED
      BY <2>5, <3>2, <3>3, Zenon DEF W_MAX_SIZE
  <2>6. ASSUME NEW n \in Sizes, W_HEADER_SIZE(m, n) PROVE SizesInv'
    BY <2>4, <2>6, Zenon DEF W_HEADER_SIZE
  <2>7. ASSUME NEW b \in BOOLEAN, W_JUMBO_EN(m, b) PROVE SizesInv'
    <3>1. /\ UNCHANGED <<th, max_size, packet_size>>
          /\ jumbo' = IF b /\ ~ IsJumboPacketSupported THEN jumbo
                      ELSE [jumbo EXCEPT ![m] = b]
      BY <2>7, Zenon DEF W_JUMBO_EN
    <3>2. ~ IsJumboPacketSupported
      BY DEF FifosFit
    <3>3. jumbo' = jumbo \/ jumbo' = [jumbo EXCEPT ![m] = FALSE]
      BY <3>1, <3>2
    <3>4. jumbo' = jumbo
      BY <1>1, <2>2, <3>3 DEF DevTypeOK
    <3> QED
      BY <2>4, <3>1, <3>4
  <2>8. ASSUME NEW b \in BOOLEAN, W_DMA_ON(m, b) PROVE SizesInv'
    BY <2>4, <2>8, Zenon DEF W_DMA_ON, settings
  <2> QED
    BY <2>1, <2>5, <2>6, <2>7, <2>8, Zenon DEF m
<1>5. ASSUME NEW p \in Procs, NEW d \in Dirs, W_MAX_SIZE_resize(p, d)
      PROVE  SizesInv'
  <2> DEFINE m == <<th[p].m[1], d>>
  <2>1. th[p].pc = Sizing(d)
    BY <1>5, Zenon DEF W_MAX_SIZE_resize, At
  <2>2. m \in Live /\ m \in Minors /\ m[1] = th[p].m[1] /\ m[2] = d
    <3>1. th[p].m \in Live
      BY <2>1, DirPcs DEF DevInv, FilesLive, HasFile
    <3> QED
      BY <3>1 DEF Live, Minors
  <2>3. max_size[m] \in Nat /\ PoolTakes(pool_size[m], max_size[m])
    <3>1. max_size[m] \in Nat
      BY <1>1, <2>2, DevAssumption DEF DevTypeOK, Ulong
    <3>2. max_size[m] <= DatFifo + OobFifo
      BY <1>1, <2>2
    <3> QED
      BY <2>2, <3>1, <3>2, FitsPool
  <2>4. /\ UNCHANGED <<jumbo, max_size>> /\ overtaken' = overtaken \ {m}
        /\ packet_size' = [packet_size EXCEPT ![m] = max_size[m]]
        /\ Goto(p, "opened")
    BY <1>5, <2>3, Zenon DEF W_MAX_SIZE_resize
  <2>5. /\ \A q \in Procs : q # p => th'[q] = th[q]
    BY <1>1, <2>4, GotoEffect DEF Pcs
  <2> HIDE DEF m
  <2>6. ASSUME NEW k \in Minors, k \notin overtaken'
        PROVE  \/ max_size'[k] <= packet_size'[k]
               \/ \E q \in Procs : th'[q].m[1] = k[1] /\ At(q, Sizing(k[2]))'
    <3>1. CASE k = m
      BY <1>1, <2>2, <2>3, <2>4, <3>1 DEF DevTypeOK
    <3>2. CASE k # m
      <4>1. packet_size'[k] = packet_size[k] /\ k \notin overtaken
        BY <1>1, <2>4, <2>6, <3>2 DEF DevTypeOK
      <4>2. k = <<k[1], k[2]>> /\ k[2] \in Dirs
        BY DEF Minors
      <4>3. ~ (th[p].m[1] = k[1] /\ At(p, Sizing(k[2])))
        <5> SUFFICES ASSUME th[p].m[1] = k[1], At(p, Sizing(k[2])) PROVE FALSE
          OBVIOUS
        <5>1. k[2] = d
          BY <2>1, <4>2 DEF At, Sizing, Dirs
        <5> QED
          BY <3>2, <4>2, <5>1 DEF m
      <4> QED
        BY <1>1, <2>4, <2>5, <4>1, <4>3 DEF MaxSizeFitsPacket, At
    <3> QED
      BY <3>1, <3>2
  <2> QED
    BY <1>1, <2>4, <2>6 DEF SizesInv, MaxSizeFitsPacket
<1>6. ASSUME NEW p \in Procs, NEW d \in Dirs, ReleaseFlush(p, d)
      PROVE  SizesInv'
  <2> DEFINE m == <<th[p].m[1], d>>
  <2>1. /\ UNCHANGED <<jumbo, max_size>>
        /\ packet_size' \in {packet_size, [packet_size EXCEPT ![m] = late]}
        /\ overtaken' = IF packet_size' = packet_size THEN overtaken
                        ELSE overtaken \cup {m}
    BY <1>6, Zenon DEF ReleaseFlush
  <2>2. \A q \in Procs, e \in Dirs :
          At(q, Sizing(e)) => At(q, Sizing(e))' /\ th'[q].m = th[q].m
    BY <1>6, SizingStays, Zenon
  <2>3. CASE packet_size' = packet_size
    BY <2>1, <2>2, <2>3, SizesKept
  <2>4. CASE packet_size' # packet_size
    <3>1. \A k \in Minors : k \notin overtaken' =>
            k \notin overtaken /\ packet_size'[k] = packet_size[k]
      BY <1>1, <2>1, <2>4 DEF DevTypeOK
    <3>2. \A k \in Minors : k[2] \in Dirs
      BY DEF Minors
    <3> QED
      BY <1>1, <2>1, <2>2, <3>1, <3>2 DEF SizesInv, MaxSizeFitsPacket
  <2> QED
    BY <2>3, <2>4
<1>7. CASE UNCHANGED dvars
  <2>1. UNCHANGED <<th, jumbo, max_size, packet_size, overtaken>>
    BY <1>7, Zenon DEF dvars
  <2> QED
    BY <2>1, SizesKept DEF At
<1>8. CASE DevNext
  <2>1. PICK p \in Procs :
          \/ \E m \in Minors, mode \in Modes : OpenCheck(p, m, mode)
          \/ VersionOn(p) \/ VersionOff(p)
          \/ OpenRefused(p) \/ OpenReadOnly(p) \/ OpenReadWrite(p)
          \/ zap_ioctl(p)
          \/ \E dir \in Dirs :
               \/ W_MAX_SIZE_resize(p, dir)
               \/ ReleaseTest(p, dir) \/ ReleaseStop(p, dir)
               \/ ReleaseStopInterrupted(p, dir) \/ ReleaseFlush(p, dir)
          \/ zap_release(p) \/ zap_release_interrupted(p)
    BY <1>8, Zenon DEF DevNext
  <2> QED
    BY <1>2, <1>3, <1>4, <1>5, <1>6, <2>1, Zenon
<1> QED
  BY <1>7, <1>8

-----------------------------------------------------------------------------
(* R_INSTANCE_COUNT (zap.c:826): open_count is the number of open files,   *)
(* or more by the closes a signal cut short, never less.                   *)
THEOREM DevOpenCountExact == DevSpec => []OpenCountExact
<1>1. DevInv => OpenCountExact
  BY DEF DevInv
<1> QED
  BY <1>1, DevStart, DevStep, PTL DEF DevSpec

(* A refused open or a completed close leaves a device that nobody writes  *)
(* free to be opened.                                                      *)
THEOREM DevReopenable == DevSpec => []Reopenable
<1>1. DevInv => Reopenable
  BY DEF DevInv
<1> QED
  BY <1>1, DevStart, DevStep, PTL DEF DevSpec

(* An interface on which no file is open does not run, whichever file      *)
(* started it, unless a signal cut a stop short.                           *)
THEOREM DevClosedMeansStopped == DevSpec => []ClosedMeansStopped
<1>1. DevInv => ClosedMeansStopped
  BY DEF DevInv, RunsForOpened, ClosedMeansStopped, HasFile, WillStop
<1> QED
  BY <1>1, DevStart, DevStep, PTL DEF DevSpec

(* Halves of whole pages, the receive side's not the larger, are cut into  *)
(* parts that do not overlap, for any number of interfaces; an open pool   *)
(* is the part of its interface (zap.c:155-180).                           *)
THEOREM DevPoolsSplit ==
  ASSUME HalvesFit
  PROVE  DevSpec => []PoolsSplit
<1>1. DevInv => PoolsSplit
  <2> SUFFICES ASSUME DevInv PROVE PoolsSplit
    OBVIOUS
  <2>1. \A n \in 1 .. NumDevices : n \in Nat /\ n > 0
    BY DevAssumption
  <2>2. \A n \in 1 .. NumDevices : \A m \in (0 .. n - 1) \X Dirs :
          LET a == Part(n, m) IN
          /\ PoolBase(m[2]) <= a.base
          /\ a.base + a.size <= PoolBase(m[2]) + PoolSize(m[2])
          /\ \A k \in (0 .. n - 1) \X Dirs : k # m =>
               LET b == Part(n, k) IN
               b.base + b.size <= a.base \/ a.base + a.size <= b.base
    BY <2>1, PartsApart, Zenon
  <2>3. \A m \in Minors, mode \in Modes :
          (mode = "rw" /\ Files(m, mode) # {}) =>
            pool_size[m] = Part(NumInterfaces, m).size
    BY Zenon DEF DevInv, PoolIsPart
  <2> QED
    BY <2>2, <2>3, Zenon DEF PoolsSplit, EverySplitApart
<1> QED
  BY <1>1, DevStart, DevStep, PTL DEF DevSpec

(* Where the FIFOs fit into the pools and jumbo packets are not supported, *)
(* no length that zap_write lets through exceeds the pool's packets        *)
(* (zap.c:499), whatever the ioctls set in which order, once each has      *)
(* resized the pool, unless the flush of another file's close that spans   *)
(* a change has put an older packet size back (zap.c:364, pool.c:621).     *)
THEOREM DevMaxSizeFitsPacket ==
  ASSUME FifosFit
  PROVE  DevSpec => []MaxSizeFitsPacket
<1>1. SizesInv => MaxSizeFitsPacket
  BY DEF SizesInv
<1> QED
  BY <1>1, DevStart, DevStep, SizesStep, PTL DEF DevSpec
=============================================================================

----------------------------- MODULE PoolProofs -----------------------------
(***************************************************************************)
(* For every region, entry size, alignment and sequence of packet sizes:   *)
(* the pool's lists partition its entries, and its packets are disjoint    *)
(* parts of the region.  Then, for any number of threads: the blocking     *)
(* routines move the lists only as the locked sections do, no wake-up is   *)
(* lost between test and sleep, and no buffer has two holders.             *)
(***************************************************************************)
EXTENDS PoolWait, SequenceTheorems, FiniteSetTheorems, TLAPS

-----------------------------------------------------------------------------
(* Division of natural numbers.                                            *)

LEMMA DivBounds ==
  ASSUME NEW a \in Nat, NEW b \in Nat, b > 0
  PROVE  /\ a \div b \in Nat
         /\ (a \div b) * b <= a
         /\ a < (a \div b) * b + b
  OBVIOUS

LEMMA MulMono ==
  ASSUME NEW a \in Nat, NEW b \in Nat, NEW c \in Nat, a <= b
  PROVE  a * c <= b * c
  OBVIOUS

(* Rounding up to the alignment adds less than one unit of it              *)
(* (aligned_packet_size, pool.c:297).                                      *)
LEMMA AlignedSizeBounds ==
  ASSUME NEW ps \in Nat
  PROVE  /\ AlignedSize(ps) \in Nat
         /\ ps <= AlignedSize(ps)
         /\ AlignedSize(ps) < ps + WordAlign
<1> DEFINE x == ps + (WordAlign - 1)
<1>1. x \in Nat /\ WordAlign \in Nat /\ WordAlign > 0
  BY PoolAssumption
<1>2. /\ x \div WordAlign \in Nat
      /\ (x \div WordAlign) * WordAlign <= x
      /\ x < (x \div WordAlign) * WordAlign + WordAlign
  BY <1>1, DivBounds
<1>3. (x \div WordAlign) * WordAlign \in Nat
  BY <1>1, <1>2
<1>4. AlignedSize(ps) = (x \div WordAlign) * WordAlign
  BY DEF AlignedSize
<1> QED
  BY <1>1, <1>2, <1>3, <1>4

(* A size that passes the test of pool_resize yields at least one packet,  *)
(* and the packets with their entries fit the region (pool.c:277-301).     *)
LEMMA PacketsForBounds ==
  ASSUME NEW ps \in Nat, PacketFits(ps)
  PROVE  /\ PacketsFor(ps) \in 1 .. MaxPackets
         /\ PacketsFor(ps) * AlignedSize(ps) <= Size
<1> DEFINE A == EntrySize + AlignedSize(ps)
           n == Size \div A
<1>1. AlignedSize(ps) \in Nat /\ AlignedSize(ps) < ps + WordAlign
  BY AlignedSizeBounds
<1>2. A \in Nat /\ A > 0 /\ Size \in Nat
  BY <1>1, PoolAssumption
<1>3. (Size - EntryPage) % UlongMod = Size - EntryPage
  <2>1. Size - EntryPage \in Nat /\ Size - EntryPage < UlongMod
    BY PoolAssumption
  <2> QED
    BY <2>1, PoolAssumption
<1>4. A <= Size
  BY <1>1, <1>3, PoolAssumption DEF PacketFits
<1>5. n \in Nat /\ n * A <= Size /\ Size < n * A + A
  BY <1>2, DivBounds
<1>6. n >= 1
  <2>1. ASSUME n = 0 PROVE FALSE
    BY <2>1, <1>2, <1>4, <1>5
  <2> QED
    BY <2>1, <1>5
<1>7. n * AlignedSize(ps) <= Size
  <2>1. n * A = n * EntrySize + n * AlignedSize(ps)
    BY <1>1, <1>5, PoolAssumption
  <2>2. n * EntrySize \in Nat /\ n * AlignedSize(ps) \in Nat
    BY <1>1, <1>5, PoolAssumption
  <2> QED
    BY <2>1, <2>2, <1>2, <1>5
<1>8. PacketsFor(ps) = IF n < MaxPackets THEN n ELSE MaxPackets
  BY DEF PacketsFor
<1>9. PacketsFor(ps) \in 1 .. MaxPackets /\ PacketsFor(ps) <= n
  BY <1>5, <1>6, <1>8, PoolAssumption
<1>10. PacketsFor(ps) * AlignedSize(ps) <= n * AlignedSize(ps)
  BY <1>1, <1>5, <1>9, MulMono
<1>11. PacketsFor(ps) * AlignedSize(ps) \in Nat /\ n * AlignedSize(ps) \in Nat
  BY <1>1, <1>5, <1>9
<1> QED
  BY <1>2, <1>7, <1>9, <1>10, <1>11

-----------------------------------------------------------------------------
(* What the list operations do to the entries of a list.                   *)

(* list_move of the head entry (pool.c:71-74, 136-144).                    *)
LEMMA TailOfList ==
  ASSUME NEW S, NEW s \in Seq(S), s # <<>>, NoRepeats(s)
  PROVE  /\ Head(s) \in S /\ Head(s) \in On(s)
         /\ Tail(s) \in Seq(S)
         /\ NoRepeats(Tail(s))
         /\ On(Tail(s)) = On(s) \ {Head(s)}
<1>1. /\ Len(s) \in Nat /\ Len(s) >= 1 /\ DOMAIN s = 1 .. Len(s)
      /\ \A k \in 1 .. Len(s) : s[k] \in S
  BY EmptySeq, LenProperties, ElementOfSeq
<1>2. /\ Head(s) = s[1] /\ Tail(s) \in Seq(S) /\ Len(Tail(s)) = Len(s) - 1
      /\ \A k \in 1 .. Len(Tail(s)) : Tail(s)[k] = s[k + 1]
  BY HeadTailProperties
<1>3. DOMAIN Tail(s) = 1 .. Len(s) - 1
  BY <1>2, LenProperties
<1>4. NoRepeats(Tail(s))
  <2> SUFFICES ASSUME NEW j \in 1 .. Len(s) - 1, NEW k \in 1 .. Len(s) - 1,
                      Tail(s)[j] = Tail(s)[k]
               PROVE  j = k
    BY <1>3 DEF NoRepeats
  <2>1. s[j + 1] = s[k + 1] /\ j + 1 \in DOMAIN s /\ k + 1 \in DOMAIN s
    BY <1>1, <1>2
  <2>2. j + 1 = k + 1
    BY <2>1 DEF NoRepeats
  <2> QED
    BY <2>2
<1>5. ASSUME NEW x \in On(Tail(s)) PROVE x \in On(s) \ {Head(s)}
  <2>1. PICK k \in 1 .. Len(s) - 1 : x = Tail(s)[k]
    BY <1>3 DEF On
  <2>2. x = s[k + 1] /\ k + 1 \in DOMAIN s /\ 1 \in DOMAIN s /\ k + 1 # 1
    BY <2>1, <1>1, <1>2
  <2>3. x # s[1]
    BY <2>2 DEF NoRepeats
  <2> QED
    BY <2>2, <2>3, <1>2 DEF On
<1>6. ASSUME NEW x \in On(s) \ {Head(s)} PROVE x \in On(Tail(s))
  <2>1. PICK k \in 1 .. Len(s) : x = s[k]
    BY <1>1 DEF On
  <2>2. k # 1
    BY <2>1, <1>2
  <2>3. k - 1 \in 1 .. Len(s) - 1 /\ Tail(s)[k - 1] = s[k]
    BY <2>2, <1>1, <1>2
  <2> QED
    BY <2>1, <2>3, <1>3 DEF On
<1>7. Head(s) \in S /\ Head(s) \in On(s)
  BY <1>1, <1>2 DEF On
<1> QED
  BY <1>2, <1>4, <1>5, <1>6, <1>7

(* list_move_tail onto a list the entry was not on (pool.c:91, 112).       *)
LEMMA AppendToList ==
  ASSUME NEW S, NEW s \in Seq(S), NEW e \in S, e \notin On(s), NoRepeats(s)
  PROVE  /\ Append(s, e) \in Seq(S)
         /\ NoRepeats(Append(s, e))
         /\ On(Append(s, e)) = On(s) \cup {e}
<1>1. Len(s) \in Nat /\ DOMAIN s = 1 .. Len(s)
  BY LenProperties
<1>2. /\ Append(s, e) \in Seq(S)
      /\ Len(Append(s, e)) = Len(s) + 1
      /\ \A k \in 1 .. Len(s) : Append(s, e)[k] = s[k]
      /\ Append(s, e)[Len(s) + 1] = e
  BY AppendProperties
<1>3. DOMAIN Append(s, e) = 1 .. Len(s) + 1
  BY <1>2, LenProperties
<1>4. \A k \in 1 .. Len(s) : s[k] # e
  BY <1>1 DEF On
<1>5. NoRepeats(Append(s, e))
  <2> SUFFICES ASSUME NEW j \in 1 .. Len(s) + 1, NEW k \in 1 .. Len(s) + 1,
                      Append(s, e)[j] = Append(s, e)[k]
               PROVE  j = k
    BY <1>3 DEF NoRepeats
  <2>1. CASE j <= Len(s) /\ k <= Len(s)
    <3>1. j \in DOMAIN s /\ k \in DOMAIN s /\ s[j] = s[k]
      BY <2>1, <1>1, <1>2
    <3> QED
      BY <3>1 DEF NoRepeats
  <2>2. CASE j <= Len(s) /\ k = Len(s) + 1
    BY <2>2, <1>1, <1>2, <1>4
  <2>3. CASE j = Len(s) + 1 /\ k <= Len(s)
    BY <2>3, <1>1, <1>2, <1>4
  <2> QED
    BY <2>1, <2>2, <2>3, <1>1
<1>6. ASSUME NEW x \in On(Append(s, e)) PROVE x \in On(s) \cup {e}
  <2>1. PICK k \in 1 .. Len(s) + 1 : x = Append(s, e)[k]
    BY <1>3 DEF On
  <2>2. CASE k = Len(s) + 1
    BY <2>1, <2>2, <1>2
  <2>3. CASE k \in 1 .. Len(s)
    BY <2>1, <2>3, <1>1, <1>2 DEF On
  <2> QED
    BY <2>2, <2>3, <1>1
<1>7. ASSUME NEW x \in On(s) \cup {e} PROVE x \in On(Append(s, e))
  <2>1. CASE x = e
    <3>1. Len(s) + 1 \in DOMAIN Append(s, e) /\ x = Append(s, e)[Len(s) + 1]
      BY <2>1, <1>1, <1>2, <1>3
    <3> QED
      BY <3>1 DEF On
  <2>2. CASE x \in On(s)
    <3>1. PICK k \in 1 .. Len(s) : x = s[k]
      BY <2>2, <1>1 DEF On
    <3>2. k \in DOMAIN Append(s, e) /\ x = Append(s, e)[k]
      BY <3>1, <1>1, <1>2, <1>3
    <3> QED
      BY <3>2 DEF On
  <2> QED
    BY <2>1, <2>2
<1> QED
  BY <1>2, <1>5, <1>6, <1>7

(* Unlinking an entry from a list it is not on changes nothing.            *)
LEMMA RemoveAbsent ==
  ASSUME NEW S, NEW s \in Seq(S), NEW e, e \notin On(s)
  PROVE  RemoveFirst(s, e) = s
<1>1. ~ \E k \in 1 .. Len(s) : s[k] = e
  BY LenProperties DEF On
<1> QED
  BY <1>1 DEF RemoveFirst

(* The free list as pool_resize builds it (pool.c:316-322).                *)
LEMMA FreshList ==
  ASSUME NEW n \in Nat
  PROVE  LET s == [k \in 1 .. n |-> n - k] IN
         /\ s \in Seq(0 .. n - 1)
         /\ NoRepeats(s)
         /\ On(s) = 0 .. n - 1
<1> DEFINE s == [k \in 1 .. n |-> n - k]
<1>1. s \in Seq(0 .. n - 1)
  <2>1. \A k \in 1 .. n : n - k \in 0 .. n - 1
    OBVIOUS
  <2> QED
    BY <2>1, IsASeq
<1>2. DOMAIN s = 1 .. n /\ \A k \in 1 .. n : s[k] = n - k
  OBVIOUS
<1>3. NoRepeats(s)
  <2> SUFFICES ASSUME NEW j \in 1 .. n, NEW k \in 1 .. n, n - j = n - k
               PROVE  j = k
    BY <1>2 DEF NoRepeats
  <2> QED
    OBVIOUS
<1>4. ASSUME NEW x \in 0 .. n - 1 PROVE x \in On(s)
  <2>1. n - x \in 1 .. n /\ x = s[n - x]
    OBVIOUS
  <2> QED
    BY <2>1, <1>2 DEF On
<1>5. ASSUME NEW x \in On(s) PROVE x \in 0 .. n - 1
  <2>1. PICK k \in 1 .. n : x = n - k
    BY <1>2 DEF On
  <2> QED
    BY <2>1
<1> QED
  BY <1>1, <1>3, <1>4, <1>5

-----------------------------------------------------------------------------
(* The pool's steps.                                                       *)

(* A valid pbuf in use names an entry that is on the used list only.       *)
LEMMA AcceptedEntry ==
  ASSUME PoolInv, ~ stuck, NEW p \in Int, Accepts(p)
  PROVE  /\ pbuf2pentry(p) \in Entries
         /\ pcur_list[pbuf2pentry(p)] = "used"
         /\ pbuf2pentry(p) \notin On(freelist)
         /\ pbuf2pentry(p) \notin On(fifolist)
<1>1. pbuf2pentry(p) \in Entries /\ pcur_list[pbuf2pentry(p)] = "used"
  BY DEF Accepts, pool_bufinuse
<1> QED
  BY <1>1 DEF PoolInv, ListPartition

(* What pool_resize and pool_flush make of a number asked for.             *)
LEMMA AtMostBounds ==
  ASSUME NEW ps \in Nat, PacketFits(ps), NEW n \in Nat \ {0}
  PROVE  AtMost(n, PacketsFor(ps)) \in 1 .. PacketsFor(ps)
<1>1. PacketsFor(ps) \in Nat /\ PacketsFor(ps) >= 1
  BY PacketsForBounds, PoolAssumption
<1> QED
  BY <1>1 DEF AtMost

LEMMA SizesAreNat == Sizes \subseteq Nat
  BY PoolAssumption DEF Sizes

(* pool_resize and pool_flush leave a pool that satisfies the invariant.   *)
LEMMA PopulateInv ==
  ASSUME NEW ps \in Sizes, NEW n \in Nat, PacketFits(ps),
         n \in 1 .. PacketsFor(ps), Populate(ps, n), stuck \in BOOLEAN,
         UNCHANGED stuck
  PROVE  PoolInv'
<1>1. /\ packet_size' = ps /\ num_packets' = n
      /\ freelist' = [k \in 1 .. n |-> n - k]
      /\ fifolist' = <<>> /\ usedlist' = {}
      /\ pcur_list' = [i \in 0 .. n - 1 |-> "free"]
      /\ desc' = [i \in 0 .. n - 1 |-> [len |-> ps, ooblen |-> 0, flags |-> 0]]
  BY DEF Populate
<1>0. ps \in Nat
  BY SizesAreNat
<1>2. Entries' = 0 .. n - 1
  BY <1>1 DEF Entries
<1>3. /\ freelist' \in Seq(0 .. n - 1) /\ NoRepeats(freelist')
      /\ On(freelist') = 0 .. n - 1
  BY <1>1, FreshList
<1>4. fifolist' \in Seq(0 .. n - 1) /\ NoRepeats(fifolist') /\ On(fifolist') = {}
  BY <1>1 DEF NoRepeats, On
<1>5. PoolTypeOK'
  <2>1. desc' \in [0 .. n - 1 -> [len : Nat, ooblen : Nat, flags : Nat]]
    BY <1>0, <1>1
  <2>2. pcur_list' \in [0 .. n - 1 -> ListNames]
    BY <1>1 DEF ListNames
  <2> QED
    BY <1>0, <1>1, <1>2, <1>3, <1>4, <2>1, <2>2 DEF PoolTypeOK
<1>6. ListPartition'
  BY <1>1, <1>2, <1>3, <1>4 DEF ListPartition
<1>7. /\ PacketFits(packet_size)' /\ (packet_size \in Sizes)'
      /\ (num_packets \in 1 .. PacketsFor(packet_size))'
  BY <1>1 DEF PacketFits, PacketsFor, AlignedSize, Sizes
<1> QED
  BY <1>5, <1>6, <1>7 DEF PoolInv

(* Steps that keep the sizes keep what the invariant says of them.         *)
LEMMA SizesKept ==
  ASSUME PoolInv, UNCHANGED <<packet_size, num_packets>>
  PROVE  /\ (packet_size \in Sizes)' /\ PacketFits(packet_size)'
         /\ (num_packets \in 1 .. PacketsFor(packet_size))'
<1>1. packet_size' = packet_size /\ num_packets' = num_packets
  OBVIOUS
<1>2. /\ packet_size \in Sizes /\ PacketFits(packet_size)
      /\ num_packets \in 1 .. PacketsFor(packet_size)
  BY DEF PoolInv
<1>3. packet_size' \in Sizes /\ PacketFits(packet_size')
  BY <1>1, <1>2
<1>4. num_packets' \in 1 .. PacketsFor(packet_size')
  BY <1>1, <1>2
<1> QED
  BY <1>3, <1>4 DEF Sizes

(* A head entry moves to the used list.                                    *)
LEMMA GetInv ==
  ASSUME PoolInv, NEW e, getbuf(e)
  PROVE  PoolInv'
<1>1. /\ ~ stuck /\ freelist # <<>> /\ e = Head(freelist)
      /\ freelist' = Tail(freelist) /\ usedlist' = usedlist \cup {e}
      /\ pcur_list' = [pcur_list EXCEPT ![e] = "used"]
      /\ UNCHANGED <<packet_size, num_packets, fifolist, desc, stuck>>
  BY DEF getbuf, pool_buf_available
<1>2. /\ freelist \in Seq(Entries) /\ fifolist \in Seq(Entries)
      /\ usedlist \in SUBSET Entries /\ pcur_list \in [Entries -> ListNames]
      /\ NoRepeats(freelist) /\ NoRepeats(fifolist)
      /\ On(freelist) = {i \in Entries : pcur_list[i] = "free"}
      /\ On(fifolist) = {i \in Entries : pcur_list[i] = "fifo"}
      /\ usedlist = {i \in Entries : pcur_list[i] = "used"}
  BY <1>1 DEF PoolInv, PoolTypeOK, ListPartition
<1>3. /\ e \in Entries /\ e \in On(freelist)
      /\ Tail(freelist) \in Seq(Entries) /\ NoRepeats(Tail(freelist))
      /\ On(Tail(freelist)) = On(freelist) \ {e}
  BY <1>1, <1>2, TailOfList
<1>4. Entries' = Entries
  BY <1>1 DEF Entries
<1>5. PoolTypeOK'
  BY <1>1, <1>2, <1>3, <1>4 DEF PoolTypeOK, ListNames, PoolInv
<1>6. pcur_list[e] = "free"
  BY <1>2, <1>3
<1>7. ListPartition'
  <2>1. NoRepeats(freelist') /\ NoRepeats(fifolist')
    BY <1>1, <1>2, <1>3, <1>4, <1>6
  <2>2. On(freelist') = {i \in Entries : pcur_list'[i] = "free"}
    BY <1>1, <1>2, <1>3, <1>4, <1>6
  <2>3. On(fifolist') = {i \in Entries : pcur_list'[i] = "fifo"}
    BY <1>1, <1>2, <1>3, <1>4, <1>6
  <2>4. usedlist' = {i \in Entries : pcur_list'[i] = "used"}
    BY <1>1, <1>2, <1>3, <1>4, <1>6
  <2> QED
    BY <2>1, <2>2, <2>3, <2>4, <1>4 DEF ListPartition
<1> QED
  BY <1>1, <1>5, <1>7, SizesKept DEF PoolInv

LEMMA DeqInv ==
  ASSUME PoolInv, NEW e, deqbuf(e)
  PROVE  PoolInv'
<1>1. /\ ~ stuck /\ fifolist # <<>> /\ e = Head(fifolist)
      /\ fifolist' = Tail(fifolist) /\ usedlist' = usedlist \cup {e}
      /\ pcur_list' = [pcur_list EXCEPT ![e] = "used"]
      /\ UNCHANGED <<packet_size, num_packets, freelist, desc, stuck>>
  BY DEF deqbuf, pool_fifo_buf_available
<1>2. /\ freelist \in Seq(Entries) /\ fifolist \in Seq(Entries)
      /\ usedlist \in SUBSET Entries /\ pcur_list \in [Entries -> ListNames]
      /\ NoRepeats(freelist) /\ NoRepeats(fifolist)
      /\ On(freelist) = {i \in Entries : pcur_list[i] = "free"}
      /\ On(fifolist) = {i \in Entries : pcur_list[i] = "fifo"}
      /\ usedlist = {i \in Entries : pcur_list[i] = "used"}
  BY <1>1 DEF PoolInv, PoolTypeOK, ListPartition
<1>3. /\ e \in Entries /\ e \in On(fifolist)
      /\ Tail(fifolist) \in Seq(Entries) /\ NoRepeats(Tail(fifolist))
      /\ On(Tail(fifolist)) = On(fifolist) \ {e}
  BY <1>1, <1>2, TailOfList
<1>4. Entries' = Entries
  BY <1>1 DEF Entries
<1>5. PoolTypeOK'
  BY <1>1, <1>2, <1>3, <1>4 DEF PoolTypeOK, ListNames, PoolInv
<1>6. pcur_list[e] = "fifo"
  BY <1>2, <1>3
<1>7. ListPartition'
  <2>1. NoRepeats(freelist') /\ NoRepeats(fifolist')
    BY <1>1, <1>2, <1>3, <1>4, <1>6
  <2>2. On(freelist') = {i \in Entries : pcur_list'[i] = "free"}
    BY <1>1, <1>2, <1>3, <1>4, <1>6
  <2>3. On(fifolist') = {i \in Entries : pcur_list'[i] = "fifo"}
    BY <1>1, <1>2, <1>3, <1>4, <1>6
  <2>4. usedlist' = {i \in Entries : pcur_list'[i] = "used"}
    BY <1>1, <1>2, <1>3, <1>4, <1>6
  <2> QED
    BY <2>1, <2>2, <2>3, <2>4, <1>4 DEF ListPartition
<1> QED
  BY <1>1, <1>5, <1>7, SizesKept DEF PoolInv

(* A used entry moves to the tail of the free or of the fifo list.         *)
LEMMA FreeInv ==
  ASSUME PoolInv, NEW p \in Int, freebuf(p)
  PROVE  PoolInv'
<1> DEFINE e == pbuf2pentry(p)
<1>1. ~ stuck /\ Accepts(p)
  BY DEF freebuf
<1>2. /\ freelist \in Seq(Entries) /\ fifolist \in Seq(Entries)
      /\ usedlist \in SUBSET Entries /\ pcur_list \in [Entries -> ListNames]
      /\ desc \in [Entries -> [len : Nat, ooblen : Nat, flags : Nat]]
      /\ packet_size \in Nat
      /\ NoRepeats(freelist) /\ NoRepeats(fifolist)
      /\ On(freelist) = {i \in Entries : pcur_list[i] = "free"}
      /\ On(fifolist) = {i \in Entries : pcur_list[i] = "fifo"}
      /\ usedlist = {i \in Entries : pcur_list[i] = "used"}
  BY <1>1 DEF PoolInv, PoolTypeOK, ListPartition
<1>3. /\ e \in Entries /\ pcur_list[e] = "used"
      /\ e \notin On(freelist) /\ e \notin On(fifolist)
  BY <1>1, AcceptedEntry
<1>4. RemoveFirst(freelist, e) = freelist /\ RemoveFirst(fifolist, e) = fifolist
  BY <1>2, <1>3, RemoveAbsent
<1>5. /\ freelist' = Append(freelist, e) /\ fifolist' = fifolist
      /\ usedlist' = usedlist \ {e}
      /\ pcur_list' = [pcur_list EXCEPT ![e] = "free"]
      /\ desc' = [desc EXCEPT ![e].len = packet_size]
      /\ UNCHANGED <<packet_size, num_packets, stuck>>
  BY <1>4 DEF freebuf
<1>6. /\ Append(freelist, e) \in Seq(Entries) /\ NoRepeats(Append(freelist, e))
      /\ On(Append(freelist, e)) = On(freelist) \cup {e}
  BY <1>2, <1>3, AppendToList
<1> HIDE DEF e
<1>7. Entries' = Entries
  BY <1>5 DEF Entries
<1>8. PoolTypeOK'
  <2>1. desc' \in [Entries -> [len : Nat, ooblen : Nat, flags : Nat]]
    BY <1>2, <1>3, <1>5
  <2> QED
    BY <1>1, <1>2, <1>3, <1>5, <1>6, <1>7, <2>1 DEF PoolTypeOK, ListNames, PoolInv
<1>9. ListPartition'
  <2>1. NoRepeats(freelist') /\ NoRepeats(fifolist')
    BY <1>1, <1>2, <1>3, <1>5, <1>6, <1>7
  <2>2. On(freelist') = {i \in Entries : pcur_list'[i] = "free"}
    BY <1>1, <1>2, <1>3, <1>5, <1>6, <1>7
  <2>3. On(fifolist') = {i \in Entries : pcur_list'[i] = "fifo"}
    BY <1>1, <1>2, <1>3, <1>5, <1>6, <1>7
  <2>4. usedlist' = {i \in Entries : pcur_list'[i] = "used"}
    BY <1>1, <1>2, <1>3, <1>5, <1>6, <1>7
  <2> QED
    BY <2>1, <2>2, <2>3, <2>4, <1>7 DEF ListPartition
<1> QED
  BY <1>5, <1>8, <1>9, SizesKept DEF PoolInv

LEMMA EnqInv ==
  ASSUME PoolInv, NEW p \in Int,
         NEW d \in [len : Nat, ooblen : Nat, flags : Nat], enqbuf(p, d)
  PROVE  PoolInv'
<1> DEFINE e == pbuf2pentry(p)
<1>1. ~ stuck /\ Accepts(p)
  BY DEF enqbuf
<1>2. /\ freelist \in Seq(Entries) /\ fifolist \in Seq(Entries)
      /\ usedlist \in SUBSET Entries /\ pcur_list \in [Entries -> ListNames]
      /\ desc \in [Entries -> [len : Nat, ooblen : Nat, flags : Nat]]
      /\ packet_size \in Nat
      /\ NoRepeats(freelist) /\ NoRepeats(fifolist)
      /\ On(freelist) = {i \in Entries : pcur_list[i] = "free"}
      /\ On(fifolist) = {i \in Entries : pcur_list[i] = "fifo"}
      /\ usedlist = {i \in Entries : pcur_list[i] = "used"}
  BY <1>1 DEF PoolInv, PoolTypeOK, ListPartition
<1>3. /\ e \in Entries /\ pcur_list[e] = "used"
      /\ e \notin On(freelist) /\ e \notin On(fifolist)
  BY <1>1, AcceptedEntry
<1>4. RemoveFirst(freelist, e) = freelist /\ RemoveFirst(fifolist, e) = fifolist
  BY <1>2, <1>3, RemoveAbsent
<1>5. /\ fifolist' = Append(fifolist, e) /\ freelist' = freelist
      /\ usedlist' = usedlist \ {e}
      /\ pcur_list' = [pcur_list EXCEPT ![e] = "fifo"]
      /\ desc' = [desc EXCEPT ![e] = d]
      /\ UNCHANGED <<packet_size, num_packets, stuck>>
  BY <1>4 DEF enqbuf
<1>6. /\ Append(fifolist, e) \in Seq(Entries) /\ NoRepeats(Append(fifolist, e))
      /\ On(Append(fifolist, e)) = On(fifolist) \cup {e}
  BY <1>2, <1>3, AppendToList
<1> HIDE DEF e
<1>7. Entries' = Entries
  BY <1>5 DEF Entries
<1>8. PoolTypeOK'
  <2>1. desc' \in [Entries -> [len : Nat, ooblen : Nat, flags : Nat]]
    BY <1>2, <1>3, <1>5
  <2> QED
    BY <1>1, <1>2, <1>3, <1>5, <1>6, <1>7, <2>1 DEF PoolTypeOK, ListNames, PoolInv
<1>9. ListPartition'
  <2>1. NoRepeats(freelist') /\ NoRepeats(fifolist')
    BY <1>1, <1>2, <1>3, <1>5, <1>6, <1>7
  <2>2. On(freelist') = {i \in Entries : pcur_list'[i] = "free"}
    BY <1>1, <1>2, <1>3, <1>5, <1>6, <1>7
  <2>3. On(fifolist') = {i \in Entries : pcur_list'[i] = "fifo"}
    BY <1>1, <1>2, <1>3, <1>5, <1>6, <1>7
  <2>4. usedlist' = {i \in Entries : pcur_list'[i] = "used"}
    BY <1>1, <1>2, <1>3, <1>5, <1>6, <1>7
  <2> QED
    BY <2>1, <2>2, <2>3, <2>4, <1>7 DEF ListPartition
<1> QED
  BY <1>5, <1>8, <1>9, SizesKept DEF PoolInv

(* Every step of the pool keeps the invariant.                             *)
LEMMA PoolStep ==
  ASSUME PoolInv, [PoolNext]_pvars
  PROVE  PoolInv'
<1>1. ASSUME NEW e \in Entries, getbuf(e) PROVE PoolInv'
  BY <1>1, GetInv
<1>2. ASSUME NEW e \in Entries, deqbuf(e) PROVE PoolInv'
  BY <1>2, DeqInv
<1>3. ASSUME NEW p \in 0 .. Size, freebuf(p) PROVE PoolInv'
  BY <1>3, FreeInv
<1>4. ASSUME NEW p \in 0 .. Size, NEW d \in Descs, enqbuf(p, d) PROVE PoolInv'
  <2>1. d \in [len : Nat, ooblen : Nat, flags : Nat]
    BY PoolAssumption
  <2> QED
    BY <1>4, <2>1, EnqInv
<1>5. ASSUME NEW ps \in PacketSizes, pool_resize(ps) PROVE PoolInv'
  <2>1. /\ ps \in Nat /\ ps \in Sizes /\ PacketFits(ps)
        /\ Populate(ps, PacketsFor(ps)) /\ UNCHANGED stuck
    BY <1>5, PoolAssumption DEF pool_resize, Sizes
  <2>2. PacketsFor(ps) \in 1 .. MaxPackets
    BY <2>1, PacketsForBounds
  <2>3. PacketsFor(ps) \in Nat /\ PacketsFor(ps) \in 1 .. PacketsFor(ps)
    BY <2>2, PoolAssumption
  <2> QED
    BY <2>1, <2>3, PopulateInv DEF PoolInv, PoolTypeOK
<1>6. ASSUME NEW ps \in Sizes, NEW m \in 1 .. MaxPackets, pool_resize_nomem(ps, m)
      PROVE  PoolInv'
  <2> DEFINE n == AtMost(m, PacketsFor(ps))
  <2>1. ps \in Nat /\ PacketFits(ps)
    BY <1>6, SizesAreNat DEF pool_resize_nomem
  <2>2. n \in 1 .. PacketsFor(ps) /\ PacketsFor(ps) \in 1 .. MaxPackets
    BY <2>1, AtMostBounds, PacketsForBounds, PoolAssumption
  <2>3. packet_size' = ps /\ num_packets' = n /\ stuck' = TRUE
    BY <1>6 DEF pool_resize_nomem
  <2> HIDE DEF n
  <2>4. n \in Nat
    BY <2>2, PoolAssumption
  <2>5. PoolTypeOK' /\ ListPartition'
    BY <2>1, <2>3, <2>4 DEF PoolTypeOK, ListPartition
  <2> QED
    BY <2>1, <2>2, <2>3, <2>5
    DEF PoolInv, PacketFits, PacketsFor, AlignedSize, Sizes
<1>7. ASSUME NEW ps \in Sizes, NEW m \in 1 .. MaxPackets, pool_flush(ps, m)
      PROVE  PoolInv'
  <2> DEFINE n == AtMost(m, PacketsFor(ps))
  <2>1. ps \in Nat /\ PacketFits(ps)
    BY <1>7, SizesAreNat DEF pool_flush
  <2>2. n \in 1 .. PacketsFor(ps) /\ PacketsFor(ps) \in 1 .. MaxPackets
    BY <2>1, AtMostBounds, PacketsForBounds, PoolAssumption
  <2>3. Populate(ps, n) /\ UNCHANGED stuck
    BY <1>7 DEF pool_flush
  <2> HIDE DEF n
  <2>4. n \in Nat /\ stuck \in BOOLEAN
    BY <2>2, PoolAssumption DEF PoolInv, PoolTypeOK
  <2> QED
    BY <2>1, <2>2, <2>3, <2>4, PopulateInv
<1>9. ASSUME NEW p \in 0 .. Size, stray(p) PROVE PoolInv'
  <2>1. stuck' = TRUE /\ UNCHANGED <<packet_size, num_packets>>
    BY <1>9 DEF stray
  <2>2. PoolTypeOK' /\ ListPartition'
    BY <2>1 DEF PoolInv, PoolTypeOK, ListPartition
  <2> QED
    BY <2>1, <2>2, SizesKept DEF PoolInv
<1>8. CASE UNCHANGED pvars
  <2>1. PoolTypeOK'
    BY <1>8 DEF pvars, PoolInv, PoolTypeOK, Entries
  <2>2. ListPartition'
    BY <1>8 DEF pvars, PoolInv, ListPartition, Entries, NoRepeats, On
  <2> QED
    BY <1>8, <2>1, <2>2, SizesKept DEF pvars, PoolInv
<1> QED
  BY <1>1, <1>2, <1>3, <1>4, <1>5, <1>6, <1>7, <1>8, <1>9 DEF PoolNext

LEMMA PoolStart == PoolInit => PoolInv
<1> SUFFICES ASSUME PoolInit PROVE PoolInv
  OBVIOUS
<1> DEFINE n == PacketsFor(OpenSize)
<1>1. OpenSize \in Nat /\ PacketFits(OpenSize)
  BY PoolAssumption
<1>2. n \in 1 .. MaxPackets
  BY <1>1, PacketsForBounds
<1>3. n \in Nat /\ n \in 1 .. PacketsFor(OpenSize)
  BY <1>2, PoolAssumption
<1>4. /\ packet_size = OpenSize /\ num_packets = n /\ Entries = 0 .. n - 1
      /\ freelist = [k \in 1 .. n |-> n - k] /\ fifolist = <<>> /\ usedlist = {}
      /\ pcur_list = [i \in 0 .. n - 1 |-> "free"] /\ stuck = FALSE
      /\ desc = [i \in 0 .. n - 1 |-> [len |-> OpenSize, ooblen |-> 0, flags |-> 0]]
  BY DEF PoolInit, Entries
<1> HIDE DEF n
<1>5. freelist \in Seq(0 .. n - 1) /\ NoRepeats(freelist) /\ On(freelist) = 0 .. n - 1
  BY <1>3, <1>4, FreshList
<1>6. fifolist \in Seq(0 .. n - 1) /\ NoRepeats(fifolist) /\ On(fifolist) = {}
  BY <1>4 DEF NoRepeats, On
<1>7. PoolTypeOK
  <2>1. desc \in [0 .. n - 1 -> [len : Nat, ooblen : Nat, flags : Nat]]
    BY <1>1, <1>4
  <2>2. pcur_list \in [0 .. n - 1 -> ListNames]
    BY <1>4 DEF ListNames
  <2> QED
    BY <1>1, <1>3, <1>4, <1>5, <1>6, <2>1, <2>2 DEF PoolTypeOK
<1>8. ListPartition
  BY <1>4, <1>5, <1>6 DEF ListPartition
<1> QED
  BY <1>1, <1>3, <1>4, <1>7, <1>8 DEF PoolInv, Sizes

(* The invariant implies that the packets are disjoint.                    *)
LEMMA InvDisjoint == PoolInv => PacketsDisjoint
<1> SUFFICES ASSUME PoolInv PROVE PacketsDisjoint
  OBVIOUS
<1> DEFINE A == AlignedSize(packet_size)
<1>1. /\ packet_size \in Nat /\ PacketFits(packet_size) /\ num_packets \in Nat
      /\ num_packets \in 1 .. PacketsFor(packet_size)
  BY DEF PoolInv, PoolTypeOK
<1>2. /\ PacketsFor(packet_size) \in 1 .. MaxPackets
      /\ PacketsFor(packet_size) * A <= Size
  BY <1>1, PacketsForBounds
<1>3. A \in Nat /\ packet_size <= A
  BY <1>1, AlignedSizeBounds
<1> HIDE DEF A
<1>4. num_packets \in 1 .. MaxPackets
  BY <1>1, <1>2, PoolAssumption
<1>5. \A i \in Entries : (i + 1) * A = i * A + A /\ i * A \in Nat
  BY <1>1, <1>3 DEF Entries
<1>6. ASSUME NEW i \in Entries PROVE pentry2pbuf(i) + packet_size <= Size
  <2>1. i + 1 \in Nat /\ i + 1 <= PacketsFor(packet_size) /\ PacketsFor(packet_size) \in Nat
    BY <1>1, <1>2, PoolAssumption DEF Entries
  <2>2. (i + 1) * A <= PacketsFor(packet_size) * A
    BY <2>1, <1>3, MulMono
  <2>3. pentry2pbuf(i) = i * A
    BY DEF pentry2pbuf, A
  <2>4. PacketsFor(packet_size) * A \in Nat
    BY <2>1, <1>3
  <2> QED
    BY <2>2, <2>3, <2>4, <1>1, <1>2, <1>3, <1>5, PoolAssumption
<1>7. ASSUME NEW i \in Entries, NEW j \in Entries, i < j
      PROVE  pentry2pbuf(i) + packet_size <= pentry2pbuf(j)
  <2>1. i + 1 \in Nat /\ j \in Nat /\ i + 1 <= j
    BY <1>1, <1>7 DEF Entries
  <2>2. (i + 1) * A <= j * A
    BY <2>1, <1>3, MulMono
  <2>3. pentry2pbuf(i) = i * A /\ pentry2pbuf(j) = j * A
    BY DEF pentry2pbuf, A
  <2> QED
    BY <2>2, <2>3, <1>1, <1>3, <1>5
<1> QED
  BY <1>4, <1>6, <1>7 DEF PacketsDisjoint

-----------------------------------------------------------------------------
(* A packet starts inside the region, and two packets start apart          *)
(* (pool.c:297-322).                                                       *)
LEMMA PbufInRegion ==
  ASSUME PoolInv, NEW e \in Entries
  PROVE  pentry2pbuf(e) \in 0 .. Size - 1
<1> DEFINE A == AlignedSize(packet_size)
<1>1. packet_size \in Nat /\ num_packets \in Nat /\ Size \in Nat /\ Size >= 1
  BY PoolAssumption DEF PoolInv, PoolTypeOK
<1>2. A \in Nat /\ A < packet_size + WordAlign
  BY <1>1, AlignedSizeBounds
<1>3. e \in Nat
  BY <1>1 DEF Entries
<1>4. e * A \in Nat
  BY <1>2, <1>3
<1>5. pentry2pbuf(e) = e * A
  BY DEF pentry2pbuf
<1>6. CASE packet_size > 0
  <2>1. pentry2pbuf(e) + packet_size <= Size
    BY <1>6, InvDisjoint DEF PacketsDisjoint
  <2> HIDE DEF A
  <2> QED
    BY <1>1, <1>4, <1>5, <1>6, <2>1
<1>7. CASE packet_size = 0
  <2>1. A = 0
    <3>1. WordAlign \in Nat /\ WordAlign > 0
      BY PoolAssumption
    <3>2. (0 + (WordAlign - 1)) \div WordAlign = 0
      BY <3>1
    <3> QED
      BY <1>7, <3>1, <3>2 DEF AlignedSize
  <2> HIDE DEF A
  <2> QED
    BY <1>1, <1>3, <1>5, <2>1
<1> QED
  BY <1>1, <1>6, <1>7

LEMMA PbufInjective ==
  ASSUME PoolInv, packet_size > 0, NEW i \in Entries, NEW j \in Entries,
         pentry2pbuf(i) = pentry2pbuf(j)
  PROVE  i = j
<1>1. packet_size \in Nat /\ num_packets \in Nat /\ Size \in Nat
  BY PoolAssumption DEF PoolInv, PoolTypeOK
<1>2. pentry2pbuf(i) \in 0 .. Size - 1 /\ pentry2pbuf(j) \in 0 .. Size - 1
  BY PbufInRegion
<1>3. /\ i < j => pentry2pbuf(i) + packet_size <= pentry2pbuf(j)
      /\ j < i => pentry2pbuf(j) + packet_size <= pentry2pbuf(i)
  BY InvDisjoint DEF PacketsDisjoint
<1> QED
  BY <1>1, <1>2, <1>3 DEF Entries

(* An address of an entry leads back to it (pool.c, pbuf2pentry).          *)
LEMMA PbufEntry ==
  ASSUME PoolInv, packet_size > 0, NEW e \in Entries
  PROVE  pbuf2pentry(pentry2pbuf(e)) = e /\ is_valid_pbuf(pentry2pbuf(e))
<1> DEFINE A == AlignedSize(packet_size)
<1>1. packet_size \in Nat /\ num_packets \in Nat /\ Size \in Nat
  BY PoolAssumption DEF PoolInv, PoolTypeOK
<1>2. A \in Nat /\ A > 0 /\ e \in Nat
  BY <1>1, AlignedSizeBounds DEF Entries
<1>3. pentry2pbuf(e) = e * A
  BY DEF pentry2pbuf
<1> DEFINE q == (e * A) \div A
<1>4. q = e
  <2> HIDE DEF A
  <2>1. e * A \in Nat
    BY <1>2
  <2>2. q \in Nat /\ q * A <= e * A /\ e * A < q * A + A
    BY <1>2, <2>1, DivBounds
  <2> HIDE DEF q
  <2>3. ~ (q < e)
    <3>1. q < e => q * A + A <= e * A
      <4>1. SUFFICES ASSUME q < e PROVE q * A + A <= e * A
        OBVIOUS
      <4>2. q + 1 <= e /\ q + 1 \in Nat
        BY <1>2, <2>2, <4>1
      <4>3. (q + 1) * A <= e * A
        BY <1>2, <4>2, MulMono
      <4> QED
        BY <1>2, <2>2, <4>3
    <3> QED
      BY <1>2, <2>1, <2>2, <3>1
  <2>4. ~ (e < q)
    <3>1. e < q => e * A + A <= q * A
      <4>1. SUFFICES ASSUME e < q PROVE e * A + A <= q * A
        OBVIOUS
      <4>2. e + 1 <= q /\ e + 1 \in Nat
        BY <1>2, <2>2, <4>1
      <4>3. (e + 1) * A <= q * A
        BY <1>2, <2>2, <4>2, MulMono
      <4> QED
        BY <1>2, <2>2, <4>3
    <3> QED
      BY <1>2, <2>1, <2>2, <3>1
  <2> QED
    BY <1>2, <2>2, <2>3, <2>4
<1> HIDE DEF q
<1>5. pbuf2pentry(pentry2pbuf(e)) = e
  BY <1>2, <1>3, <1>4 DEF pbuf2pentry, q
<1>6. pentry2pbuf(e) \in 0 .. Size - 1
  BY PbufInRegion
<1>7. 0 <= pentry2pbuf(e) /\ pentry2pbuf(e) <= Size
  BY <1>1, <1>6
<1>8. e \in 0 .. num_packets
  BY <1>1 DEF Entries
<1> QED
  BY <1>5, <1>7, <1>8 DEF is_valid_pbuf

(* The buffers in use are those pool_freebuf and pool_enqbuf accept.       *)
LEMMA UsedAccepted ==
  ASSUME PoolInv, ~ stuck, packet_size > 0, NEW p
  PROVE  /\ p \in UsedBufs => p \in Int /\ Accepts(p)
         /\ Accepts(p) => p \in UsedBufs
<1>1. usedlist = {i \in Entries : pcur_list[i] = "used"}
  BY DEF PoolInv, ListPartition
<1>2. ASSUME p \in UsedBufs PROVE p \in Int /\ Accepts(p)
  <2>1. PICK e \in usedlist : p = pentry2pbuf(e)
    BY <1>2 DEF UsedBufs
  <2>2. e \in Entries /\ pcur_list[e] = "used"
    BY <1>1, <2>1
  <2>3. pbuf2pentry(p) = e /\ is_valid_pbuf(p) /\ p \in 0 .. Size - 1
    BY <2>1, <2>2, PbufEntry, PbufInRegion
  <2> QED
    BY <2>2, <2>3 DEF Accepts, pool_bufinuse
<1>3. ASSUME Accepts(p) PROVE p \in UsedBufs
  <2>1. pbuf2pentry(p) \in Entries /\ pcur_list[pbuf2pentry(p)] = "used"
        /\ pentry2pbuf(pbuf2pentry(p)) = p
    BY <1>3 DEF Accepts, is_valid_pbuf, pool_bufinuse
  <2> QED
    BY <1>1, <2>1 DEF UsedBufs
<1> QED
  BY <1>2, <1>3

(* What the locked sections do to the buffers in use.                      *)
LEMMA UsedTake ==
  ASSUME PoolInv, packet_size > 0, NEW e, getbuf(e) \/ deqbuf(e)
  PROVE  /\ e \in Entries /\ pentry2pbuf(e) \in Int
         /\ pentry2pbuf(e) \notin UsedBufs
         /\ UsedBufs' = UsedBufs \cup {pentry2pbuf(e)}
         /\ ~ stuck' /\ packet_size' = packet_size
<1>1. /\ ~ stuck /\ ~ stuck' /\ usedlist' = usedlist \cup {e}
      /\ packet_size' = packet_size
      /\ \/ freelist # <<>> /\ e = Head(freelist)
         \/ fifolist # <<>> /\ e = Head(fifolist)
  BY DEF getbuf, deqbuf, pool_buf_available, pool_fifo_buf_available
<1>2. /\ freelist \in Seq(Entries) /\ fifolist \in Seq(Entries)
      /\ NoRepeats(freelist) /\ NoRepeats(fifolist)
      /\ On(freelist) = {i \in Entries : pcur_list[i] = "free"}
      /\ On(fifolist) = {i \in Entries : pcur_list[i] = "fifo"}
      /\ usedlist = {i \in Entries : pcur_list[i] = "used"}
  BY <1>1 DEF PoolInv, PoolTypeOK, ListPartition
<1>3. e \in Entries /\ (e \in On(freelist) \/ e \in On(fifolist))
  BY <1>1, <1>2, TailOfList
<1>4. e \notin usedlist /\ usedlist \subseteq Entries
  BY <1>2, <1>3
<1>5. \A i : pentry2pbuf(i)' = pentry2pbuf(i)
  BY <1>1 DEF pentry2pbuf
<1>6. pentry2pbuf(e) \notin UsedBufs
  BY <1>3, <1>4, PbufInjective DEF UsedBufs
<1>7. UsedBufs' = UsedBufs \cup {pentry2pbuf(e)}
  <2>1. UsedBufs' = {pentry2pbuf(i) : i \in usedlist'}
    BY <1>5, Zenon DEF UsedBufs
  <2> QED
    BY <1>1, <2>1, Zenon DEF UsedBufs
<1>8. pentry2pbuf(e) \in Int
  BY <1>3, PbufInRegion
<1> QED
  BY <1>1, <1>3, <1>6, <1>7, <1>8

LEMMA UsedGive ==
  ASSUME PoolInv, packet_size > 0, NEW p, NEW d, freebuf(p) \/ enqbuf(p, d)
  PROVE  /\ p \in UsedBufs /\ UsedBufs' = UsedBufs \ {p}
         /\ ~ stuck' /\ packet_size' = packet_size
<1> DEFINE e == pbuf2pentry(p)
<1>1. /\ ~ stuck /\ Accepts(p) /\ ~ stuck' /\ usedlist' = usedlist \ {e}
      /\ packet_size' = packet_size
  BY DEF freebuf, enqbuf
<1>2. p \in UsedBufs
  BY <1>1, UsedAccepted
<1>3. usedlist = {i \in Entries : pcur_list[i] = "used"}
  BY <1>1 DEF PoolInv, ListPartition
<1>4. e \in Entries /\ pentry2pbuf(e) = p
  BY <1>1 DEF Accepts, is_valid_pbuf
<1>5. \A i : pentry2pbuf(i)' = pentry2pbuf(i)
  BY <1>1 DEF pentry2pbuf
<1> HIDE DEF e
<1>6. \A i \in usedlist : pentry2pbuf(i) = p => i = e
  BY <1>3, <1>4, PbufInjective
<1>7. UsedBufs' = {pentry2pbuf(i) : i \in usedlist'}
  BY <1>5, Zenon DEF UsedBufs
<1>8. UsedBufs' = UsedBufs \ {p}
  BY <1>1, <1>4, <1>6, <1>7, Zenon DEF UsedBufs
<1> QED
  BY <1>1, <1>2, <1>8

(* pool_resize and pool_flush leave no buffer in use.                      *)
LEMMA UsedNone ==
  ASSUME \/ pool_flush(packet_size, num_packets)
         \/ \E ps \in PacketSizes : pool_resize(ps)
  PROVE  /\ UsedBufs' = {} /\ ~ stuck' /\ fifolist' = <<>>
         /\ packet_size' \in PacketSizes \cup {packet_size}
BY DEF pool_resize, pool_flush, Populate, UsedBufs

(* A flush that no resize overtakes, or a resize.                          *)
LEMMA FlushNowInv ==
  ASSUME PoolInv,
         \/ pool_flush(packet_size, num_packets)
         \/ \E ps \in PacketSizes : pool_resize(ps)
  PROVE  PoolInv'
<1>1. packet_size \in Sizes /\ num_packets \in 1 .. MaxPackets
  <2>1. packet_size \in Nat /\ PacketFits(packet_size)
    BY DEF PoolInv, PoolTypeOK
  <2>2. PacketsFor(packet_size) \in 1 .. MaxPackets
    BY <2>1, PacketsForBounds
  <2> QED
    BY <2>2, PoolAssumption DEF PoolInv
<1> QED
  BY <1>1, PoolStep DEF PoolNext

(* A step that leaves the pool as it is.                                   *)
LEMMA PoolKept ==
  ASSUME PoolInv, ~ stuck, packet_size > 0, UNCHANGED pvars
  PROVE  PoolInv' /\ ~ stuck' /\ packet_size' > 0 /\ UsedBufs' = UsedBufs
BY PoolStep DEF pvars, UsedBufs, pentry2pbuf

(* pool_freebuf leaves the fifo list alone: the buffer was in use.         *)
LEMMA FreeKeepsFifo ==
  ASSUME PoolInv, NEW p \in Int, freebuf(p)
  PROVE  fifolist' = fifolist
<1>1. /\ ~ stuck /\ Accepts(p)
      /\ fifolist' = RemoveFirst(fifolist, pbuf2pentry(p))
  BY DEF freebuf
<1>2. fifolist \in Seq(Entries) /\ pbuf2pentry(p) \notin On(fifolist)
  BY <1>1, AcceptedEntry DEF PoolInv, PoolTypeOK
<1> QED
  BY <1>1, <1>2, RemoveAbsent

(* As many buffers are in use as entries are on the used list.             *)
LEMMA UsedCard ==
  ASSUME PoolInv, ~ stuck, packet_size > 0
  PROVE  /\ IsFiniteSet(UsedBufs)
         /\ Cardinality(UsedBufs) = Cardinality(usedlist)
<1> DEFINE f == [e \in usedlist |-> pentry2pbuf(e)]
<1>1. usedlist \in SUBSET Entries /\ num_packets \in Nat
  BY DEF PoolInv, PoolTypeOK
<1>2. IsFiniteSet(usedlist)
  <2>1. IsFiniteSet(0 .. num_packets - 1)
    BY <1>1, FS_Interval
  <2> QED
    BY <1>1, <2>1, FS_Subset DEF Entries
<1>3. \A i, j \in usedlist : pentry2pbuf(i) = pentry2pbuf(j) => i = j
  BY <1>1, PbufInjective
<1>4. /\ f \in [usedlist -> UsedBufs]
      /\ \A i, j \in usedlist : f[i] = f[j] => i = j
      /\ \A b \in UsedBufs : \E e \in usedlist : f[e] = b
  BY <1>3, Zenon DEF UsedBufs
<1> HIDE DEF f
<1>5. ExistsBijection(usedlist, UsedBufs)
  BY <1>4 DEF ExistsBijection, Bijection, Injection, Surjection, IsInjective
<1> QED
  BY <1>2, <1>5, FS_Bijection

(* As many buffers as a list without repeats has places.                   *)
LEMMA CardOfList ==
  ASSUME NEW S, NEW s \in Seq(S), NoRepeats(s)
  PROVE  IsFiniteSet(On(s)) /\ Cardinality(On(s)) = Len(s)
<1>1. Len(s) \in Nat /\ DOMAIN s = 1 .. Len(s)
  BY LenProperties
<1>2. s \in [1 .. Len(s) -> On(s)]
  BY <1>1 DEF On
<1>3. s \in Bijection(1 .. Len(s), On(s))
  BY <1>1, <1>2 DEF Bijection, Injection, Surjection, IsInjective, On,
     NoRepeats
<1>4. ExistsBijection(1 .. Len(s), On(s))
  BY <1>3 DEF ExistsBijection
<1>5. Cardinality(On(s)) = Len(s)
  BY <1>1, <1>4, FS_CountingElements
<1>6. IsFiniteSet(On(s))
  BY <1>1, <1>4, FS_NatBijection
<1> QED
  BY <1>5, <1>6

-----------------------------------------------------------------------------
(* Lists of packet numbers: an element taken off the front, one added at   *)
(* the end, the end cut off.                                               *)
LEMMA FrontOfList ==
  ASSUME NEW S, NEW s \in Seq(S), s # <<>>
  PROVE  /\ Head(s) \in S /\ Tail(s) \in Seq(S)
         /\ s = <<Head(s)>> \o Tail(s)
<1>1. /\ Head(s) \in S /\ Tail(s) \in Seq(S) /\ Len(s) \in Nat \ {0}
  BY HeadTailProperties, EmptySeq
<1>2. /\ s = SubSeq(s, 1, Len(s)) /\ Tail(s) = SubSeq(s, 2, Len(s))
      /\ Head(s) = s[1]
  BY SubSeqFull, TailIsSubSeq
<1>3. SubSeq(s, 1, Len(s)) = <<s[1]>> \o SubSeq(s, 1 + 1, Len(s))
  BY <1>1, SubSeqRecursiveFirst
<1> QED
  BY <1>1, <1>2, <1>3

LEMMA OneBefore ==
  ASSUME NEW S, NEW h \in S, NEW t \in Seq(S)
  PROVE  /\ <<h>> \o t \in Seq(S) /\ <<h>> \o t # <<>>
         /\ Head(<<h>> \o t) = h /\ Tail(<<h>> \o t) = t
<1> DEFINE s == <<h>> \o t
<1>1. <<h>> \in Seq(S) /\ Len(<<h>>) = 1 /\ <<h>>[1] = h /\ Len(t) \in Nat
  BY LenProperties
<1>2. /\ s \in Seq(S) /\ Len(s) = 1 + Len(t)
      /\ \A i \in 1 .. 1 + Len(t) : s[i] = IF i <= 1 THEN h ELSE t[i - 1]
  BY <1>1, ConcatProperties
<1> HIDE DEF s
<1>3. s # <<>> /\ Head(s) = h
  BY <1>1, <1>2
<1>4. /\ Tail(s) \in Seq(S) /\ Len(Tail(s)) = Len(t)
      /\ \A i \in 1 .. Len(t) : Tail(s)[i] = s[i + 1]
  BY <1>1, <1>2, <1>3, HeadTailProperties
<1>5. \A i \in 1 .. Len(t) : Tail(s)[i] = t[i]
  BY <1>1, <1>2, <1>4
<1>6. Tail(s) = t
  BY <1>4, <1>5, SeqEqual
<1> QED
  BY <1>2, <1>3, <1>6 DEF s

LEMMA AppendConcat ==
  ASSUME NEW S, NEW s \in Seq(S), NEW t \in Seq(S), NEW n \in S
  PROVE  s \o Append(t, n) = Append(s \o t, n)
<1>1. <<n>> \in Seq(S) /\ s \o t \in Seq(S)
  BY ConcatProperties
<1>2. Append(t, n) = t \o <<n>> /\ Append(s \o t, n) = (s \o t) \o <<n>>
  BY <1>1, AppendIsConcat
<1> QED
  BY <1>1, <1>2, ConcatAssociative

LEMMA CutOff ==
  ASSUME NEW S, NEW s \in Seq(S), NEW t \in Seq(S)
  PROVE  /\ Len(s) \in 0 .. Len(s \o t)
         /\ SubSeq(s \o t, 1, Len(s)) = s
<1>1. /\ s \o t \in Seq(S) /\ Len(s \o t) = Len(s) + Len(t)
      /\ Len(s) \in Nat /\ Len(t) \in Nat
  BY ConcatProperties, LenProperties
<1>2. CASE Len(s) = 0
  <2>1. s = <<>>
    BY <1>2, EmptySeq
  <2>2. SubSeq(s \o t, 1, 0) = <<>>
    BY SubSeqEmpty
  <2> QED
    BY <1>1, <1>2, <2>1, <2>2
<1>3. CASE Len(s) # 0
  <2>1. 1 \in 1 .. Len(s) /\ Len(s) \in 1 .. Len(s)
    BY <1>1, <1>3
  <2>2. SubSeq(s \o t, 1, Len(s)) = SubSeq(s, 1, Len(s))
    BY <2>1, SubSeqOfConcat1
  <2> QED
    BY <1>1, <2>2, SubSeqFull
<1> QED
  BY <1>2, <1>3

(* The lengths of the packets on a list.                                   *)
DescSet == [len : Nat, ooblen : Nat, flags : Nat]

LEMMA LensIs ==
  ASSUME NEW S, NEW f \in Seq(S),
         NEW d \in [S -> DescSet]
  PROVE  /\ Lens(f, d) \in Seq(Nat) /\ Len(Lens(f, d)) = Len(f)
         /\ \A k \in 1 .. Len(f) : f[k] \in S /\ Lens(f, d)[k] = d[f[k]].len
<1>1. /\ Len(f) \in Nat /\ DOMAIN f = 1 .. Len(f)
      /\ \A k \in 1 .. Len(f) : f[k] \in S
  BY LenProperties, ElementOfSeq
<1>2. \A k \in 1 .. Len(f) : d[f[k]].len \in Nat
  BY <1>1 DEF DescSet
<1>3. Lens(f, d) = [k \in 1 .. Len(f) |-> d[f[k]].len]
  BY <1>1 DEF Lens
<1> QED
  BY <1>1, <1>2, <1>3

LEMMA LensAppend ==
  ASSUME NEW S, NEW f \in Seq(S), NEW e \in S, e \notin On(f),
         NEW d \in [S -> DescSet],
         NEW c \in [S -> DescSet],
         \A i \in S : i # e => c[i] = d[i]
  PROVE  /\ Lens(Append(f, e), c) = Append(Lens(f, d), c[e].len)
         /\ Lens(f, c) = Lens(f, d)
<1> DEFINE g == Append(f, e)
           n == c[e].len
           a == Append(Lens(f, d), n)
<1>1. /\ Len(f) \in Nat /\ DOMAIN f = 1 .. Len(f) /\ n \in Nat
  BY LenProperties DEF DescSet
<1>2. /\ g \in Seq(S) /\ Len(g) = Len(f) + 1 /\ g[Len(f) + 1] = e
      /\ \A k \in 1 .. Len(f) : g[k] = f[k]
  BY AppendProperties
<1>3. /\ Lens(f, d) \in Seq(Nat) /\ Len(Lens(f, d)) = Len(f)
      /\ \A k \in 1 .. Len(f) : f[k] \in S /\ Lens(f, d)[k] = d[f[k]].len
      /\ Lens(f, c) \in Seq(Nat) /\ Len(Lens(f, c)) = Len(f)
      /\ \A k \in 1 .. Len(f) : Lens(f, c)[k] = c[f[k]].len
  BY LensIs
<1> HIDE DEF g, n
<1>4. /\ Lens(g, c) \in Seq(Nat) /\ Len(Lens(g, c)) = Len(f) + 1
      /\ \A k \in 1 .. Len(f) + 1 : Lens(g, c)[k] = c[g[k]].len
  BY <1>2, LensIs
<1>5. /\ a \in Seq(Nat) /\ Len(a) = Len(f) + 1 /\ a[Len(f) + 1] = n
      /\ \A k \in 1 .. Len(f) : a[k] = Lens(f, d)[k]
  BY <1>1, <1>3, AppendProperties
<1> HIDE DEF a
<1>6. ASSUME NEW k \in 1 .. Len(f) PROVE c[f[k]] = d[f[k]]
  BY <1>1, <1>3 DEF On
<1>7. ASSUME NEW k \in 1 .. Len(f) + 1 PROVE Lens(g, c)[k] = a[k]
  <2>1. k \in 1 .. Len(f) \/ k = Len(f) + 1
    BY <1>1
  <2>2. Lens(g, c)[k] = c[g[k]].len
    BY <1>4
  <2>3. CASE k \in 1 .. Len(f)
    <3>1. g[k] = f[k] /\ a[k] = d[f[k]].len /\ c[f[k]] = d[f[k]]
      BY <1>2, <1>3, <1>5, <1>6, <2>3
    <3> QED
      BY <2>2, <3>1
  <2>4. CASE k = Len(f) + 1
    BY <1>2, <1>5, <2>2, <2>4 DEF n
  <2> QED
    BY <2>1, <2>3, <2>4
<1>8. Lens(g, c) = a
  BY <1>4, <1>5, <1>7, SeqEqual
<1>9. ASSUME NEW k \in 1 .. Len(f) PROVE Lens(f, c)[k] = Lens(f, d)[k]
  <2>1. /\ Lens(f, c)[k] = c[f[k]].len /\ Lens(f, d)[k] = d[f[k]].len
        /\ c[f[k]] = d[f[k]]
    BY <1>3, <1>6
  <2> QED
    BY <2>1
<1>10. Lens(f, c) = Lens(f, d)
  BY <1>3, <1>9, SeqEqual
<1> QED
  BY <1>8, <1>10 DEF g, n, a

LEMMA LensTail ==
  ASSUME NEW S, NEW f \in Seq(S), f # <<>>,
         NEW d \in [S -> DescSet]
  PROVE  /\ d[Head(f)].len \in Nat /\ Lens(Tail(f), d) \in Seq(Nat)
         /\ Lens(f, d) = <<d[Head(f)].len>> \o Lens(Tail(f), d)
<1> DEFINE t == Tail(f)
           l == Lens(f, d)
<1>1. /\ Len(f) \in Nat \ {0} /\ Head(f) = f[1] /\ Head(f) \in S
      /\ t \in Seq(S) /\ Len(t) = Len(f) - 1
      /\ \A k \in 1 .. Len(t) : t[k] = f[k + 1]
  BY HeadTailProperties, EmptySeq
<1>0. ASSUME NEW g \in Seq(S)
      PROVE  /\ Lens(g, d) \in Seq(Nat) /\ Len(Lens(g, d)) = Len(g)
             /\ \A k \in 1 .. Len(g) : g[k] \in S /\ Lens(g, d)[k] = d[g[k]].len
  BY LensIs
<1>2. /\ l \in Seq(Nat) /\ Len(l) = Len(f)
      /\ \A k \in 1 .. Len(f) : f[k] \in S /\ l[k] = d[f[k]].len
  BY <1>0
<1>3. /\ Lens(t, d) \in Seq(Nat) /\ Len(Lens(t, d)) = Len(t)
      /\ \A k \in 1 .. Len(t) : Lens(t, d)[k] = d[t[k]].len
  <2> HIDE DEF t
  <2>1. t \in Seq(S)
    BY <1>1
  <2> QED
    BY <1>0, <2>1
<1> HIDE DEF t, l
<1>4. l # <<>>
  BY <1>1, <1>2
<1>5. /\ Head(l) \in Nat /\ l = <<Head(l)>> \o Tail(l) /\ Tail(l) \in Seq(Nat)
      /\ Len(Tail(l)) = Len(f) - 1
      /\ \A k \in 1 .. Len(f) - 1 : Tail(l)[k] = l[k + 1]
  BY <1>2, <1>4, FrontOfList, HeadTailProperties
<1>6. Head(l) = d[Head(f)].len
  BY <1>1, <1>2, <1>4
<1>7. ASSUME NEW k \in 1 .. Len(f) - 1 PROVE Tail(l)[k] = Lens(t, d)[k]
  <2>1. k \in 1 .. Len(t) /\ k + 1 \in 1 .. Len(f)
    BY <1>1
  <2>2. /\ Tail(l)[k] = l[k + 1] /\ l[k + 1] = d[f[k + 1]].len
        /\ Lens(t, d)[k] = d[t[k]].len /\ t[k] = f[k + 1]
    BY <1>1, <1>2, <1>3, <1>5, <2>1
  <2> QED
    BY <2>2
<1>8. Tail(l) = Lens(t, d)
  BY <1>1, <1>3, <1>5, <1>7, SeqEqual
<1> QED
  BY <1>3, <1>5, <1>6, <1>8 DEF t, l

(* On the fifo list pool_enqbuf adds a length at the end, pool_deqbuf      *)
(* takes one off the front, pool_getbuf and pool_freebuf leave it alone.   *)
LEMMA FifoLensIs ==
  ASSUME PoolInv, ~ stuck
  PROVE  FifoLens \in Seq(Nat)
<1>1. /\ fifolist \in Seq(Entries)
      /\ desc \in [Entries -> DescSet]
  BY DEF PoolInv, PoolTypeOK, DescSet
<1> QED
  BY <1>1, LensIs DEF FifoLens

LEMMA FifoLensEnq ==
  ASSUME PoolInv, NEW p \in Int,
         NEW d \in [len : Nat, ooblen : Nat, flags : Nat], enqbuf(p, d)
  PROVE  FifoLens' = Append(FifoLens, d.len)
<1> DEFINE e == pbuf2pentry(p)
           R == DescSet
<1>1. /\ ~ stuck /\ Accepts(p)
      /\ fifolist' = Append(RemoveFirst(fifolist, e), e)
      /\ desc' = [desc EXCEPT ![e] = d]
  BY DEF enqbuf
<1>2. /\ fifolist \in Seq(Entries) /\ e \in Entries /\ e \notin On(fifolist)
      /\ desc \in [Entries -> R] /\ d \in R
  BY <1>1, AcceptedEntry DEF PoolInv, PoolTypeOK, DescSet
<1>3. fifolist' = Append(fifolist, e)
  BY <1>1, <1>2, RemoveAbsent
<1>4. /\ desc'[e] = d /\ \A i \in Entries : i # e => desc'[i] = desc[i]
      /\ desc' \in [Entries -> R]
  <2> HIDE DEF e, R
  <2> QED
    BY <1>1, <1>2
<1>5. Lens(Append(fifolist, e), desc') = Append(FifoLens, desc'[e].len)
  <2> HIDE DEF e
  <2> QED
    BY <1>2, <1>4, LensAppend DEF FifoLens
<1>6. FifoLens' = Lens(fifolist', desc')
  BY DEF FifoLens, Lens
<1> QED
  BY <1>3, <1>4, <1>5, <1>6

LEMMA FifoLensDeq ==
  ASSUME PoolInv, NEW e, deqbuf(e)
  PROVE  /\ desc[e].len \in Nat /\ FifoLens' \in Seq(Nat)
         /\ FifoLens = <<desc[e].len>> \o FifoLens'
<1>1. /\ ~ stuck /\ fifolist # <<>> /\ e = Head(fifolist)
      /\ fifolist' = Tail(fifolist) /\ desc' = desc
  BY DEF deqbuf, pool_fifo_buf_available
<1>2. /\ fifolist \in Seq(Entries)
      /\ desc \in [Entries -> DescSet]
  BY <1>1 DEF PoolInv, PoolTypeOK, DescSet
<1>3. FifoLens' = Lens(Tail(fifolist), desc)
  BY <1>1 DEF FifoLens, Lens
<1> QED
  BY <1>1, <1>2, <1>3, LensTail DEF FifoLens

LEMMA FifoLensKept ==
  ASSUME PoolInv, NEW e, NEW p \in Int, getbuf(e) \/ freebuf(p)
  PROVE  FifoLens' = FifoLens
<1>1. CASE getbuf(e)
  BY <1>1 DEF getbuf, FifoLens, Lens
<1>2. CASE freebuf(p)
  <2> DEFINE i == pbuf2pentry(p)
             R == DescSet
  <2>1. /\ ~ stuck /\ Accepts(p) /\ fifolist' = fifolist
        /\ desc' = [desc EXCEPT ![i].len = packet_size]
    BY <1>2, FreeKeepsFifo DEF freebuf
  <2>2. /\ fifolist \in Seq(Entries) /\ i \in Entries /\ i \notin On(fifolist)
        /\ desc \in [Entries -> R] /\ packet_size \in Nat
    BY <2>1, AcceptedEntry DEF PoolInv, PoolTypeOK, DescSet
  <2>3. /\ \A j \in Entries : j # i => desc'[j] = desc[j]
        /\ desc' \in [Entries -> R]
    <3>1. [desc[i] EXCEPT !.len = packet_size] \in R
      <4>1. desc[i] \in R
        BY <2>2
      <4> QED
        BY <2>2, <4>1, Zenon DEF DescSet
    <3> DEFINE x == [desc[i] EXCEPT !.len = packet_size]
    <3>2. desc' = [desc EXCEPT ![i] = x]
      BY <2>1, Zenon
    <3> HIDE DEF x, i, R
    <3> QED
      BY <2>2, <3>1, <3>2 DEF x
  <2>4. Lens(fifolist, desc') = Lens(fifolist, desc)
    <3> HIDE DEF i
    <3> QED
      BY <2>2, <2>3, LensAppend
  <2> QED
    BY <2>1, <2>4 DEF FifoLens, Lens
<1> QED
  BY <1>1, <1>2

-----------------------------------------------------------------------------
(* Type correctness of the pool for every size and every sequence of       *)
(* get, free, enq, deq, resize and flush calls.                            *)
THEOREM PoolTypeCorrect == PoolSpec => []PoolTypeOK
<1>1. PoolInit => PoolInv
  BY PoolStart
<1>2. PoolInv /\ [PoolNext]_pvars => PoolInv'
  BY PoolStep
<1>3. PoolInv => PoolTypeOK
  BY DEF PoolInv
<1> QED
  BY <1>1, <1>2, <1>3, PTL DEF PoolSpec

(* "A pbuf is always in one of the lists at any time" (zap.c:66-67), for   *)
(* every sequence of calls, with any pbuf argument.                        *)
THEOREM PoolPartition == PoolSpec => []ListPartition
<1>1. PoolInit => PoolInv
  BY PoolStart
<1>2. PoolInv /\ [PoolNext]_pvars => PoolInv'
  BY PoolStep
<1>3. PoolInv => ListPartition
  BY DEF PoolInv
<1> QED
  BY <1>1, <1>2, <1>3, PTL DEF PoolSpec

(* The arithmetic of pool_resize never makes two packets share a byte,     *)
(* leave the region or leave the pool without a packet.                    *)
THEOREM PoolPacketsDisjoint == PoolSpec => []PacketsDisjoint
<1>1. PoolInit => PoolInv
  BY PoolStart
<1>2. PoolInv /\ [PoolNext]_pvars => PoolInv'
  BY PoolStep
<1>3. PoolInv => PacketsDisjoint
  BY InvDisjoint
<1> QED
  BY <1>1, <1>2, <1>3, PTL DEF PoolSpec

-----------------------------------------------------------------------------
(* The blocking routines.                                                  *)

(* The inductive invariant: the pool's own, the threads' types, and the    *)
(* two properties, which need nothing more.                                *)
WaitInv == PoolInv /\ WaitTypeOK /\ NoLostWakeup /\ OneHolder

(* A routine of a thread changes the pool by one locked section, or not at *)
(* all.                                                                    *)
LEMMA WaitStepIsPoolStep == WaitTypeOK /\ WaitNext => [PoolNext]_pvars
<1> SUFFICES ASSUME WaitTypeOK, NEW t \in Threads,
               \/ ThreadStep(t)
               \/ FlushSize(t) \/ FlushNum(t) \/ FlushLock(t) \/ ResizeNoMem(t)
             PROVE [PoolNext]_pvars
  BY Zenon DEF WaitNext
<1>0. asize[t] \in Sizes /\ anum[t] \in 1 .. MaxPackets
  BY DEF WaitTypeOK
<1>1. CASE \/ GetCall(t) \/ GetCond(t) \/ GetGiveUp(t) \/ DeqCall(t)
           \/ DeqCond(t) \/ DeqGiveUp(t) \/ FreeWake(t) \/ EnqWake(t)
           \/ FlushSize(t) \/ FlushNum(t)
  BY <1>1, Zenon DEF GetCall, GetCond, GetGiveUp, DeqCall, DeqCond, DeqGiveUp,
     FreeWake, EnqWake, FlushSize, FlushNum
<1>2. CASE GetLock(t) \/ GetTry(t) \/ DeqLock(t) \/ DeqTry(t)
  BY <1>2, Zenon DEF GetLock, GetTry, DeqLock, DeqTry, PoolNext
<1>3. CASE Free(t) \/ Enq(t) \/ Stray(t) \/ Resize(t)
  BY <1>3, Zenon DEF Free, Enq, Stray, Resize, PoolNext
<1>4. CASE FlushLock(t)
  BY <1>0, <1>4, Zenon DEF FlushLock, PoolNext
<1>5. CASE ResizeNoMem(t)
  <2>1. MaxPackets \in 1 .. MaxPackets /\ PacketSizes \subseteq Sizes
    BY PoolAssumption DEF Sizes
  <2>2. \E ps \in Sizes, n \in 1 .. MaxPackets : pool_resize_nomem(ps, n)
    BY <1>0, <1>5, <2>1, Zenon DEF ResizeNoMem
  <2> QED
    BY <2>2, Zenon DEF PoolNext
<1> QED
  BY <1>1, <1>2, <1>3, <1>4, <1>5, Zenon DEF ThreadStep

-----------------------------------------------------------------------------
(* Taking: the entry a thread is given was on another list, so nobody      *)
(* holds its packet.                                                       *)
LEMMA TakeStep ==
  ASSUME WaitInv, ~ stuck, NEW t \in Threads, NEW e \in Entries,
         pcur_list[e] # "used", Take(t, e), usedlist' = usedlist \cup {e},
         UNCHANGED <<packet_size, num_packets, stuck>>
  PROVE  held' \in [Threads -> SUBSET (0 .. Size - 1)] /\ OneHolder'
<1> DEFINE b == pentry2pbuf(e)
<1>1. PoolInv /\ held \in [Threads -> SUBSET (0 .. Size - 1)]
  BY DEF WaitInv, WaitTypeOK
<1>2. b \in 0 .. Size - 1
  BY <1>1, PbufInRegion
<1>3. held' = [held EXCEPT ![t] = held[t] \cup {b}]
  BY DEF Take
<1>4. usedlist \subseteq Entries /\ e \notin usedlist
  BY DEF WaitInv, PoolInv, PoolTypeOK, ListPartition
<1>5. \A i : pentry2pbuf(i)' = pentry2pbuf(i)
  BY DEF pentry2pbuf, AlignedSize
<1>6. held' \in [Threads -> SUBSET (0 .. Size - 1)]
  BY <1>1, <1>2, <1>3
<1>7. ASSUME packet_size > 0 PROVE OneHolder'
  <2>1. /\ \A u, v \in Threads : u # v => held[u] \cap held[v] = {}
        /\ \A p \in 0 .. Size - 1 : (\E u \in Threads : p \in held[u])
                                    <=> (\E i \in usedlist : p = pentry2pbuf(i))
    BY <1>7 DEF WaitInv, OneHolder
  <2>2. \A i \in usedlist : b # pentry2pbuf(i)
    BY <1>1, <1>4, <1>7, PbufInjective
  <2>3. \A u \in Threads : b \notin held[u]
    BY <1>2, <2>1, <2>2
  <2>4. /\ held'[t] = held[t] \cup {b}
        /\ \A u \in Threads : u # t => held'[u] = held[u]
    BY <1>1, <1>3
  <2>5. \A u, v \in Threads : u # v => held'[u] \cap held'[v] = {}
    BY <2>1, <2>3, <2>4
  <2>6. \A p : (\E u \in Threads : p \in held'[u])
                <=> (p = b \/ \E u \in Threads : p \in held[u])
    BY <2>4
  <2>7. \A p : (\E i \in usedlist' : p = pentry2pbuf(i)')
                <=> (p = b \/ \E i \in usedlist : p = pentry2pbuf(i))
    BY <1>5
  <2> HIDE DEF b
  <2>8. \A p \in 0 .. Size - 1 : (\E u \in Threads : p \in held'[u])
                                <=> (\E i \in usedlist' : p = pentry2pbuf(i)')
    BY <2>1, <2>6, <2>7, Zenon
  <2> QED
    BY <2>5, <2>8 DEF OneHolder
<1>8. ASSUME ~ (packet_size > 0) PROVE OneHolder'
  BY <1>8 DEF OneHolder
<1> QED
  BY <1>6, <1>7, <1>8

(* Returning: the packet of an accepted address is nobody's any more.      *)
LEMMA DropStep ==
  ASSUME WaitInv, ~ stuck, NEW p \in 0 .. Size, Accepts(p), Drop(p),
         usedlist' = usedlist \ {pbuf2pentry(p)},
         UNCHANGED <<packet_size, num_packets, stuck>>
  PROVE  held' \in [Threads -> SUBSET (0 .. Size - 1)] /\ OneHolder'
<1> DEFINE e == pbuf2pentry(p)
<1>1. PoolInv /\ held \in [Threads -> SUBSET (0 .. Size - 1)]
  BY DEF WaitInv, WaitTypeOK
<1>2. held' = [u \in Threads |-> held[u] \ {p}]
  BY DEF Drop
<1>3. e \in Entries /\ pentry2pbuf(e) = p
  BY DEF Accepts, is_valid_pbuf
<1> HIDE DEF e
<1>4. usedlist \subseteq Entries /\ usedlist' = usedlist \ {e}
  BY DEF WaitInv, PoolInv, PoolTypeOK, e
<1>5. \A i : pentry2pbuf(i)' = pentry2pbuf(i)
  BY DEF pentry2pbuf, AlignedSize
<1>6. held' \in [Threads -> SUBSET (0 .. Size - 1)]
  BY <1>1, <1>2
<1>7. ASSUME packet_size > 0 PROVE OneHolder'
  <2>1. /\ \A u, v \in Threads : u # v => held[u] \cap held[v] = {}
        /\ \A q \in 0 .. Size - 1 : (\E u \in Threads : q \in held[u])
                                    <=> (\E i \in usedlist : q = pentry2pbuf(i))
    BY <1>7 DEF WaitInv, OneHolder
  <2>2. \A i \in usedlist : pentry2pbuf(i) = p => i = e
    BY <1>1, <1>3, <1>4, <1>7, PbufInjective
  <2>3. \A u, v \in Threads : u # v => held'[u] \cap held'[v] = {}
    BY <1>2, <2>1
  <2>4. \A q : (\E u \in Threads : q \in held'[u])
                <=> (q # p /\ \E u \in Threads : q \in held[u])
    BY <1>2
  <2>5. \A q : (\E i \in usedlist' : q = pentry2pbuf(i)')
                <=> (q # p /\ \E i \in usedlist : q = pentry2pbuf(i))
    BY <1>3, <1>4, <1>5, <2>2
  <2>6. \A q \in 0 .. Size - 1 : (\E u \in Threads : q \in held'[u])
                                <=> (\E i \in usedlist' : q = pentry2pbuf(i)')
    BY <2>1, <2>4, <2>5, Zenon
  <2> QED
    BY <2>3, <2>6 DEF OneHolder
<1>8. ASSUME ~ (packet_size > 0) PROVE OneHolder'
  BY <1>8 DEF OneHolder
<1> QED
  BY <1>6, <1>7, <1>8

(* Threads that only move in a routine leave holders and lists alone.      *)
LEMMA HolderFrame ==
  ASSUME WaitInv, UNCHANGED <<pvars, held>>
  PROVE  held' \in [Threads -> SUBSET (0 .. Size - 1)] /\ OneHolder'
<1>1. \A i : pentry2pbuf(i)' = pentry2pbuf(i)
  BY DEF pentry2pbuf, AlignedSize, pvars
<1>2. OneHolder'
  BY <1>1 DEF WaitInv, OneHolder, pvars
<1> QED
  BY <1>2 DEF WaitInv, WaitTypeOK

(* What the locked sections do to the two waited-for lists.                *)
LEMMA GetEffect ==
  ASSUME WaitInv, NEW e, getbuf(e)
  PROVE  /\ ~ stuck /\ pcur_list[e] # "used" /\ freelist # <<>>
         /\ fifolist' = fifolist /\ usedlist' = usedlist \cup {e}
         /\ UNCHANGED <<packet_size, num_packets, stuck>>
<1>1. /\ ~ stuck /\ freelist # <<>> /\ e = Head(freelist)
      /\ fifolist' = fifolist /\ usedlist' = usedlist \cup {e}
      /\ UNCHANGED <<packet_size, num_packets, stuck>>
  BY DEF getbuf, pool_buf_available
<1>2. freelist \in Seq(Entries) /\ NoRepeats(freelist)
      /\ On(freelist) = {i \in Entries : pcur_list[i] = "free"}
  BY <1>1 DEF WaitInv, PoolInv, PoolTypeOK, ListPartition
<1>3. e \in On(freelist)
  BY <1>1, <1>2, TailOfList
<1> QED
  BY <1>1, <1>2, <1>3

LEMMA DeqEffect ==
  ASSUME WaitInv, NEW e, deqbuf(e)
  PROVE  /\ ~ stuck /\ pcur_list[e] # "used" /\ fifolist # <<>>
         /\ freelist' = freelist /\ usedlist' = usedlist \cup {e}
         /\ UNCHANGED <<packet_size, num_packets, stuck>>
<1>1. /\ ~ stuck /\ fifolist # <<>> /\ e = Head(fifolist)
      /\ freelist' = freelist /\ usedlist' = usedlist \cup {e}
      /\ UNCHANGED <<packet_size, num_packets, stuck>>
  BY DEF deqbuf, pool_fifo_buf_available
<1>2. fifolist \in Seq(Entries) /\ NoRepeats(fifolist)
      /\ On(fifolist) = {i \in Entries : pcur_list[i] = "fifo"}
  BY <1>1 DEF WaitInv, PoolInv, PoolTypeOK, ListPartition
<1>3. e \in On(fifolist)
  BY <1>1, <1>2, TailOfList
<1> QED
  BY <1>1, <1>2, <1>3

LEMMA FreeEffect ==
  ASSUME WaitInv, NEW p \in Int, freebuf(p)
  PROVE  /\ ~ stuck /\ Accepts(p) /\ fifolist' = fifolist
         /\ usedlist' = usedlist \ {pbuf2pentry(p)}
         /\ UNCHANGED <<packet_size, num_packets, stuck>>
<1>1. /\ ~ stuck /\ Accepts(p)
      /\ fifolist' = RemoveFirst(fifolist, pbuf2pentry(p))
      /\ usedlist' = usedlist \ {pbuf2pentry(p)}
      /\ UNCHANGED <<packet_size, num_packets, stuck>>
  BY Zenon DEF freebuf
<1>2. pbuf2pentry(p) \notin On(fifolist)
  BY <1>1, AcceptedEntry DEF WaitInv
<1>3. fifolist \in Seq(Entries)
  BY <1>1 DEF WaitInv, PoolInv, PoolTypeOK
<1>4. fifolist' = fifolist
  BY <1>1, <1>2, <1>3, RemoveAbsent
<1> QED
  BY <1>1, <1>4

LEMMA EnqEffect ==
  ASSUME WaitInv, NEW p \in Int, NEW d, enqbuf(p, d)
  PROVE  /\ ~ stuck /\ Accepts(p) /\ freelist' = freelist
         /\ usedlist' = usedlist \ {pbuf2pentry(p)}
         /\ UNCHANGED <<packet_size, num_packets, stuck>>
<1>1. /\ ~ stuck /\ Accepts(p)
      /\ freelist' = RemoveFirst(freelist, pbuf2pentry(p))
      /\ usedlist' = usedlist \ {pbuf2pentry(p)}
      /\ UNCHANGED <<packet_size, num_packets, stuck>>
  BY Zenon DEF enqbuf
<1>2. pbuf2pentry(p) \notin On(freelist)
  BY <1>1, AcceptedEntry DEF WaitInv
<1>3. freelist \in Seq(Entries)
  BY <1>1 DEF WaitInv, PoolInv, PoolTypeOK
<1>4. freelist' = freelist
  BY <1>1, <1>2, <1>3, RemoveAbsent
<1> QED
  BY <1>1, <1>4

-----------------------------------------------------------------------------
(* Every step of a thread keeps the invariant; the pool's part of it is    *)
(* PoolStep.                                                               *)
LEMMA WaitStep == WaitInv /\ [WaitNext]_wvars => WaitInv'
<1> SUFFICES ASSUME WaitInv, [WaitNext]_wvars PROVE WaitInv'
  OBVIOUS
<1> DEFINE Args == asize \in [Threads -> Sizes] /\ anum \in [Threads -> 1 .. MaxPackets]
           Rest == /\ pc' \in [Threads -> PCs] /\ missed' \subseteq {"free"}
                   /\ held' \in [Threads -> SUBSET (0 .. Size - 1)]
                   /\ NoLostWakeup' /\ OneHolder'
<1>1. PoolInv'
  <2>1. UNCHANGED wvars => UNCHANGED pvars
    BY DEF wvars, pvars
  <2>2. [PoolNext]_pvars
    BY <2>1, WaitStepIsPoolStep DEF WaitInv
  <2> QED
    BY <2>2, PoolStep DEF WaitInv
<1>0. Args'
  <2>1. Args /\ packet_size \in Sizes /\ num_packets \in 1 .. MaxPackets
    <3>1. packet_size \in Nat /\ PacketFits(packet_size) /\ packet_size \in Sizes
          /\ num_packets \in 1 .. PacketsFor(packet_size)
      BY DEF WaitInv, PoolInv, PoolTypeOK
    <3>2. PacketsFor(packet_size) \in 1 .. MaxPackets
      BY <3>1, PacketsForBounds
    <3> QED
      BY <3>1, <3>2, PoolAssumption DEF WaitInv, WaitTypeOK
  <2>2. OpenSize \in Sizes /\ 1 \in 1 .. MaxPackets
    BY PoolAssumption DEF Sizes
  <2>3. Sizes' = Sizes
    BY DEF Sizes
  <2>4. ASSUME NEW t \in Threads, Forget(t) PROVE Args'
    BY <2>1, <2>2, <2>3, <2>4 DEF Forget
  <2>5. ASSUME NEW t \in Threads, FlushSize(t) \/ FlushNum(t) PROVE Args'
    BY <2>1, <2>3, <2>5 DEF FlushSize, FlushNum
  <2>6. CASE UNCHANGED args
    BY <2>1, <2>3, <2>6 DEF args
  <2> QED
    BY <2>4, <2>5, <2>6, Zenon DEF WaitNext, wvars, args, FlushLock, ResizeNoMem
<1>2. pc \in [Threads -> PCs] /\ missed \subseteq {"free"}
  BY DEF WaitInv, WaitTypeOK
<1>3. SUFFICES Rest
  BY <1>0, <1>1 DEF WaitInv, WaitTypeOK, PoolInv
<1> HIDE DEF Args
<1> USE DEF NoLostWakeup, pool_buf_available, pool_fifo_buf_available
<1>4. CASE UNCHANGED wvars
  BY <1>2, <1>4, HolderFrame DEF WaitInv, wvars, pvars
<1>5. ASSUME NEW t \in Threads, NEW l \in PCs, Goto(t, l),
             pc[t] \notin {"wakefree", "wakefifo"},
             l = "getsleep" => freelist' = <<>>,
             l = "deqsleep" => fifolist' = <<>>,
             freelist' # <<>> => freelist # <<>>,
             fifolist' # <<>> => fifolist # <<>>, missed' = missed
      PROVE  /\ pc' \in [Threads -> PCs] /\ missed' \subseteq {"free"}
             /\ NoLostWakeup'
  <2>1. /\ pc' \in [Threads -> PCs] /\ pc'[t] = l
        /\ \A u \in Threads : u # t => pc'[u] = pc[u]
    BY <1>2, <1>5 DEF Goto
  <2>2. /\ \A u \in Threads : pc[u] = "wakefree" => pc'[u] = "wakefree"
        /\ \A u \in Threads : pc[u] = "wakefifo" => pc'[u] = "wakefifo"
    BY <1>5, <2>1
  <2>3. /\ freelist' # <<>> =>
             \A u \in Threads : pc'[u] = "getsleep" => pc[u] = "getsleep"
        /\ fifolist' # <<>> =>
             \A u \in Threads : pc'[u] = "deqsleep" => pc[u] = "deqsleep"
    BY <1>5, <2>1
  <2>4. NoLostWakeup
    BY DEF WaitInv
  <2>5. NoLostWakeup'
    BY <1>5, <2>2, <2>3, <2>4, Zenon
  <2> QED
    BY <1>2, <1>5, <2>1, <2>5
<1>6. ASSUME NEW t \in Threads,
             \/ GetCall(t) \/ GetCond(t) \/ GetGiveUp(t)
             \/ DeqCall(t) \/ DeqCond(t) \/ DeqGiveUp(t)
             \/ FlushSize(t) \/ FlushNum(t)
             \/ GetLock(t) /\ UNCHANGED <<pvars, held>>
             \/ DeqLock(t) /\ UNCHANGED <<pvars, held>>
      PROVE  Rest
  <2>1. UNCHANGED <<pvars, held, missed>>
    BY <1>6 DEF GetCall, GetCond, GetGiveUp, DeqCall, DeqCond, DeqGiveUp,
       GetLock, DeqLock, FlushSize, FlushNum
  <2>2. held' \in [Threads -> SUBSET (0 .. Size - 1)] /\ OneHolder'
    BY <2>1, HolderFrame
  <2>3. freelist' = freelist /\ fifolist' = fifolist /\ missed' = missed
    BY <2>1 DEF pvars
  <2>4. \E l \in PCs : /\ Goto(t, l) /\ pc[t] \notin {"wakefree", "wakefifo"}
                       /\ l = "getsleep" => freelist = <<>>
                       /\ l = "deqsleep" => fifolist = <<>>
    <3>1. CASE GetCall(t) \/ DeqCall(t)
      BY <3>1 DEF GetCall, DeqCall, PCs
    <3>2. CASE GetLock(t) \/ DeqLock(t)
      BY <3>2 DEF GetLock, DeqLock, PCs
    <3>3. CASE GetCond(t) \/ GetGiveUp(t)
      BY <3>3 DEF GetCond, GetGiveUp, PCs
    <3>4. CASE DeqCond(t) \/ DeqGiveUp(t)
      BY <3>4 DEF DeqCond, DeqGiveUp, PCs
    <3>5. CASE FlushSize(t) \/ FlushNum(t)
      BY <3>5 DEF FlushSize, FlushNum, PCs
    <3> QED
      BY <1>6, <3>1, <3>2, <3>3, <3>4, <3>5
  <2>5. pc' \in [Threads -> PCs] /\ missed' \subseteq {"free"} /\ NoLostWakeup'
    BY <1>5, <2>3, <2>4
  <2> QED
    BY <2>2, <2>5
<1>7. ASSUME NEW t \in Threads, NEW e \in Entries, NEW l \in {"idle"},
             Take(t, e), Goto(t, l), missed' = missed,
             pc[t] \notin {"wakefree", "wakefifo"}, getbuf(e) \/ deqbuf(e)
      PROVE  Rest
  <2>1. /\ ~ stuck /\ pcur_list[e] # "used" /\ usedlist' = usedlist \cup {e}
        /\ UNCHANGED <<packet_size, num_packets, stuck>>
        /\ freelist' # <<>> => freelist # <<>>
        /\ fifolist' # <<>> => fifolist # <<>>
    BY <1>7, GetEffect, DeqEffect
  <2>2. held' \in [Threads -> SUBSET (0 .. Size - 1)] /\ OneHolder'
    BY <1>7, <2>1, TakeStep
  <2>3. pc' \in [Threads -> PCs] /\ missed' \subseteq {"free"} /\ NoLostWakeup'
    BY <1>5, <1>7, <2>1 DEF PCs
  <2> QED
    BY <2>2, <2>3
<1>8. ASSUME NEW t \in Threads, GetTry(t) \/ DeqTry(t) PROVE Rest
  <2>1. Goto(t, "idle") /\ pc[t] = "idle"
    BY <1>2, <1>8 DEF GetTry, DeqTry, Goto
  <2>2. PICK e \in Entries : Take(t, e) /\ (getbuf(e) \/ deqbuf(e))
    BY <1>8 DEF GetTry, DeqTry
  <2>3. missed' = missed
    BY <1>8 DEF GetTry, DeqTry
  <2> QED
    BY <1>7, <2>1, <2>2, <2>3
<1>9. ASSUME NEW t \in Threads, GetLock(t) \/ DeqLock(t) PROVE Rest
  <2>1. pc[t] \in {"getlock", "deqlock"} /\ missed' = missed
    BY <1>9 DEF GetLock, DeqLock
  <2>2. CASE UNCHANGED <<pvars, held>>
    BY <1>6, <1>9, <2>2
  <2>3. CASE \E e \in Entries : /\ Take(t, e) /\ Goto(t, "idle")
                                /\ getbuf(e) \/ deqbuf(e)
    BY <1>7, <2>1, <2>3
  <2> QED
    BY <1>9, <2>2, <2>3 DEF GetLock, DeqLock
<1>10. ASSUME NEW t \in Threads, Free(t) PROVE Rest
  <2>1. PICK p \in 0 .. Size : freebuf(p) /\ Drop(p)
    BY <1>10 DEF Free
  <2>2. p \in Int
    BY PoolAssumption
  <2>3. /\ ~ stuck /\ Accepts(p) /\ fifolist' = fifolist
        /\ usedlist' = usedlist \ {pbuf2pentry(p)}
        /\ UNCHANGED <<packet_size, num_packets, stuck>>
    BY <2>1, <2>2, FreeEffect
  <2>4. held' \in [Threads -> SUBSET (0 .. Size - 1)] /\ OneHolder'
    BY <2>1, <2>3, DropStep
  <2>5. pc[t] = "idle" /\ pc' = [pc EXCEPT ![t] = "wakefree"] /\ missed' = missed
    BY <1>10 DEF Free, Goto
  <2>6. /\ pc' \in [Threads -> PCs] /\ pc'[t] = "wakefree"
        /\ \A u \in Threads : u # t => pc'[u] = pc[u]
    BY <1>2, <2>5 DEF PCs
  <2>7. NoLostWakeup
    BY DEF WaitInv
  <2>8. NoLostWakeup'
    BY <2>3, <2>5, <2>6, <2>7
  <2> QED
    BY <1>2, <2>4, <2>5, <2>6, <2>8
<1>11. ASSUME NEW t \in Threads, Enq(t) PROVE Rest
  <2>1. PICK p \in 0 .. Size, d \in Descs : enqbuf(p, d) /\ Drop(p)
    BY <1>11 DEF Enq
  <2>2. p \in Int
    BY PoolAssumption
  <2>3. /\ ~ stuck /\ Accepts(p) /\ freelist' = freelist
        /\ usedlist' = usedlist \ {pbuf2pentry(p)}
        /\ UNCHANGED <<packet_size, num_packets, stuck>>
    BY <2>1, <2>2, EnqEffect
  <2>4. held' \in [Threads -> SUBSET (0 .. Size - 1)] /\ OneHolder'
    BY <2>1, <2>3, DropStep
  <2>5. pc[t] = "idle" /\ pc' = [pc EXCEPT ![t] = "wakefifo"] /\ missed' = missed
    BY <1>11 DEF Enq, Goto
  <2>6. /\ pc' \in [Threads -> PCs] /\ pc'[t] = "wakefifo"
        /\ \A u \in Threads : u # t => pc'[u] = pc[u]
    BY <1>2, <2>5 DEF PCs
  <2>7. NoLostWakeup
    BY DEF WaitInv
  <2>8. NoLostWakeup'
    BY <2>3, <2>5, <2>6, <2>7
  <2> QED
    BY <1>2, <2>4, <2>5, <2>6, <2>8
<1>12. ASSUME NEW t \in Threads, FreeWake(t) \/ EnqWake(t) PROVE Rest
  <2>1. UNCHANGED <<pvars, held>>
    BY <1>12 DEF FreeWake, EnqWake
  <2>2. held' \in [Threads -> SUBSET (0 .. Size - 1)] /\ OneHolder'
    BY <2>1, HolderFrame
  <2>3. freelist' = freelist /\ fifolist' = fifolist
    BY <2>1 DEF pvars
  <2>4. NoLostWakeup
    BY DEF WaitInv
  <2>5. CASE FreeWake(t)
    <3>1. pc' \in [Threads -> PCs] /\ missed' \subseteq {"free"}
      BY <1>2, <2>5 DEF FreeWake, PCs
    <3>2. /\ \A u \in Threads : pc'[u] # "getsleep"
          /\ \A u \in Threads : pc'[u] = "deqsleep" => pc[u] = "deqsleep"
          /\ \A u \in Threads : pc[u] = "wakefifo" => pc'[u] = "wakefifo"
      BY <2>5 DEF FreeWake
    <3> QED
      BY <2>2, <2>3, <2>4, <3>1, <3>2
  <2>6. CASE EnqWake(t)
    <3>1. pc' \in [Threads -> PCs] /\ missed' = missed
      BY <1>2, <2>6 DEF EnqWake, PCs
    <3>2. /\ \A u \in Threads : pc'[u] # "deqsleep"
          /\ \A u \in Threads : pc'[u] = "getsleep" => pc[u] = "getsleep"
          /\ \A u \in Threads : pc[u] = "wakefree" => pc'[u] = "wakefree"
      BY <2>6 DEF EnqWake
    <3> QED
      BY <1>2, <2>2, <2>3, <2>4, <3>1, <3>2
  <2> QED
    BY <1>12, <2>5, <2>6
<1>13. ASSUME NEW t \in Threads, Resize(t) \/ FlushLock(t) PROVE Rest
  <2>1. fifolist' = <<>> /\ usedlist' = {}
    BY <1>13 DEF Resize, FlushLock, pool_flush, pool_resize, Populate
  <2>2. held' = [u \in Threads |-> {}] /\ missed' = missed \cup {"free"}
    BY <1>13 DEF Resize, FlushLock, Emptied
  <2>6. pc' \in [Threads -> PCs]
    BY <1>2, <1>13 DEF Resize, FlushLock, Goto, PCs
  <2>3. held' \in [Threads -> SUBSET (0 .. Size - 1)]
    BY <2>2
  <2>4. OneHolder'
    BY <2>1, <2>2 DEF OneHolder
  <2>5. NoLostWakeup'
    BY <2>1, <2>2
  <2> QED
    BY <1>2, <2>2, <2>3, <2>4, <2>5, <2>6
<1>14. ASSUME NEW t \in Threads, ResizeNoMem(t) \/ Stray(t) PROVE Rest
  <2>1. /\ stuck' /\ freelist' = freelist /\ fifolist' = fifolist
        /\ held' = held /\ missed' = missed
    BY <1>14 DEF ResizeNoMem, pool_resize_nomem, Stray, stray
  <2>2. OneHolder' /\ held' \in [Threads -> SUBSET (0 .. Size - 1)]
    BY <2>1 DEF WaitInv, WaitTypeOK, OneHolder
  <2>3. pc[t] \in {"idle", "flushlock"} /\ Goto(t, "idle")
    BY <1>2, <1>14 DEF ResizeNoMem, Stray, Goto
  <2>4. PICK l \in PCs : l = "idle"
    BY DEF PCs
  <2>5. pc' \in [Threads -> PCs] /\ missed' \subseteq {"free"} /\ NoLostWakeup'
    BY <1>5, <2>1, <2>3, <2>4
  <2> QED
    BY <2>2, <2>5
<1> QED
  BY <1>4, <1>6, <1>8, <1>9, <1>10, <1>11, <1>12, <1>13, <1>14, Zenon
  DEF WaitNext, ThreadStep

LEMMA WaitStart == WaitInit => WaitInv
<1> SUFFICES ASSUME WaitInit PROVE WaitInv
  OBVIOUS
<1>1. PoolInv
  BY PoolStart DEF WaitInit
<1>2. WaitTypeOK
  <2>1. OpenSize \in Sizes /\ 1 \in 1 .. MaxPackets
    BY PoolAssumption DEF Sizes
  <2> QED
    BY <1>1, <2>1 DEF WaitInit, WaitTypeOK, PoolInv, PCs
<1>3. NoLostWakeup
  BY DEF WaitInit, NoLostWakeup
<1>4. OneHolder
  BY DEF WaitInit, PoolInit, OneHolder
<1> QED
  BY <1>1, <1>2, <1>3, <1>4 DEF WaitInv

(* The threads' states and what they hold are of their types, and every    *)
(* held pbuf lies in the region (zap.c:66-71).                             *)
THEOREM WaitTypeCorrect == WaitSpec => []WaitTypeOK
<1>1. WaitInv => WaitTypeOK
  BY DEF WaitInv
<1> QED
  BY <1>1, WaitStart, WaitStep, PTL DEF WaitSpec

(* No wake-up is lost between the test of wait_event_interruptible, the    *)
(* sleep, the locked move of a buffer and the wake_up after the unlock     *)
(* (pool.c:359-622), for any number of threads.                            *)
THEOREM WaitNoLostWakeup == WaitSpec => []NoLostWakeup
<1>1. WaitInv => NoLostWakeup
  BY DEF WaitInv
<1> QED
  BY <1>1, WaitStart, WaitStep, PTL DEF WaitSpec

(* No sequence of get, deq, free and enq calls of any number of threads,   *)
(* with any addresses, gives a buffer to two of them (zap.c:70-71).        *)
THEOREM WaitOneHolder == WaitSpec => []OneHolder
<1>1. WaitInv => OneHolder
  BY DEF WaitInv
<1> QED
  BY <1>1, WaitStart, WaitStep, PTL DEF WaitSpec

(* The blocking routines implement the pool: what threads, sleeps and      *)
(* wake-ups do to the lists is a behaviour of the locked sections alone,   *)
(* so all that is proved of the pool holds of it with its waiters.         *)
THEOREM WaitImplementsPool == WaitSpec => PoolSpec
<1>1. WaitInit => PoolInit
  BY DEF WaitInit
<1>2. WaitInv /\ [WaitNext]_wvars => [PoolNext]_pvars
  <2>1. UNCHANGED wvars => UNCHANGED pvars
    BY DEF wvars, pvars
  <2> QED
    BY <2>1, WaitStepIsPoolStep DEF WaitInv
<1> QED
  BY <1>1, <1>2, WaitStart, WaitStep, PTL DEF WaitSpec, PoolSpec
=============================================================================

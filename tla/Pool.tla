-------------------------------- MODULE Pool --------------------------------
(***************************************************************************)
(* The ZAP buffer pool, recipes-kernel/iv-zap/src/pool.c: a region of      *)
(* memory cut into packets, each described by a pool_entry that sits on    *)
(* one of three lists (free, fifo, used).  Every routine takes the pool    *)
(* spinlock with interrupts off, so each action here is one locked         *)
(* section; sleeping and waking are in PoolWait.                           *)
(*                                                                         *)
(* A pbuf is its offset from ppackets, a pool_entry is its index.  The     *)
(* order of the used list is observed by nothing, so it is a set.          *)
(***************************************************************************)
EXTENDS Integers, Sequences, FiniteSets, SequencesExt

CONSTANTS
  Size,          \* ppool->size, in bytes
  EntrySize,     \* sizeof(struct pool_entry)
  EntryPage,     \* PAGE_ALIGN(sizeof(struct pool_entry))
  WordAlign,     \* sizeof(int), the alignment of a packet
  UlongMod,      \* 2^w of an unsigned long
  OpenSize,      \* the packet size zap_open gives the pool
  PacketSizes,   \* the packet sizes later calls of pool_resize ask for
  MaxPackets,    \* the max_packets every caller passes
  Descs,         \* the [len, ooblen, flags] that pool_enqbuf is given
  AllocMayFail,  \* whether kzalloc may return NULL
  BehindMayMatch \* whether the memory behind the entries may read as an
                 \* entry in use

VARIABLES
  packet_size,   \* ppool->packet_size
  num_packets,   \* ppool->num_packets
  freelist,      \* ppool->freelist, head first
  fifolist,      \* ppool->fifolist, head first
  usedlist,      \* ppool->usedlist
  pcur_list,     \* pentries[i].pcur_list
  desc,          \* pentries[i].{len, ooblen, flags}
  stuck          \* the pool is lost: pool_resize has returned with the lock
                 \* held, or an entry behind the last one has been moved

pvars == <<packet_size, num_packets, freelist, fifolist, usedlist,
           pcur_list, desc, stuck>>

-----------------------------------------------------------------------------
(* The size of a packet rounded up to WordAlign; the number of packets and *)
(* the test that one fits, whose subtraction is on unsigned longs.         *)

AlignedSizeDown(ps) == (ps \div WordAlign) * WordAlign

AlignedSize(ps) == ((ps + (WordAlign - 1)) \div WordAlign) * WordAlign

PacketsFor(ps) ==
  LET n == Size \div (EntrySize + AlignedSize(ps))
  IN  IF n < MaxPackets THEN n ELSE MaxPackets

PacketFits(ps) == ps <= (Size - EntryPage) % UlongMod

ASSUME PoolAssumption ==
  /\ Size \in Nat /\ EntrySize \in Nat \ {0} /\ WordAlign \in Nat \ {0}
  /\ EntryPage \in Nat /\ EntrySize + WordAlign <= EntryPage
  /\ UlongMod \in Nat \ {0} /\ MaxPackets \in Nat \ {0}
  /\ EntryPage <= Size /\ Size < UlongMod
  /\ OpenSize \in Nat /\ PacketSizes \subseteq Nat
  /\ Descs \subseteq [len : Nat, ooblen : Nat, flags : Nat]
  /\ AllocMayFail \in BOOLEAN /\ BehindMayMatch \in BOOLEAN
  /\ PacketFits(OpenSize)

Sizes == PacketSizes \cup {OpenSize}
Entries == 0 .. num_packets - 1
ListNames == {"free", "fifo", "used"}

pentry2pbuf(i) == i * AlignedSize(packet_size)

(* On Arm an integer division by zero yields 0.                            *)
pbuf2pentry(p) ==
  IF AlignedSize(packet_size) = 0 THEN 0 ELSE p \div AlignedSize(packet_size)

(* The test lets pentries[num_packets] through, an entry that is not       *)
(* there: what is read as its pbuf may or may not be p.                    *)
is_valid_pbuf(p) ==
  /\ 0 <= p /\ p <= Size
  /\ pbuf2pentry(p) \in 0 .. num_packets
  /\ pentry2pbuf(pbuf2pentry(p)) = p

pool_bufinuse(p) == pcur_list[pbuf2pentry(p)] = "used"

(* The check pool_freebuf and pool_enqbuf start with; otherwise -EINVAL.   *)
Accepts(p) ==
  is_valid_pbuf(p) /\ pbuf2pentry(p) \in Entries /\ pool_bufinuse(p)

(* The same check of the address behind the last packet: it passes if the  *)
(* memory behind the entries happens to read as an entry of p in use.      *)
MayAccept(p) ==
  BehindMayMatch /\ is_valid_pbuf(p) /\ pbuf2pentry(p) \notin Entries

(* The addresses of the buffers in use, the lengths of those on the fifo.  *)
UsedBufs == {pentry2pbuf(e) : e \in usedlist}
Lens(list, d) == [k \in DOMAIN list |-> d[list[k]].len]
FifoLens == Lens(fifolist, desc)

pool_buf_available == freelist # <<>>
pool_fifo_buf_available == fifolist # <<>>

-----------------------------------------------------------------------------
(* The locked sections.                                                    *)

refused(p) == ~ Accepts(p) /\ UNCHANGED pvars

getbuf_peek(e) ==
  /\ ~ stuck /\ pool_buf_available /\ e = Head(freelist)
  /\ usedlist' = usedlist \cup {e}
  /\ pcur_list' = [pcur_list EXCEPT ![e] = "used"]
  /\ UNCHANGED <<packet_size, num_packets, freelist, fifolist, desc, stuck>>

getbuf(e) ==
  /\ ~ stuck /\ pool_buf_available /\ e = Head(freelist)
  /\ freelist' = Tail(freelist)
  /\ usedlist' = usedlist \cup {e}
  /\ pcur_list' = [pcur_list EXCEPT ![e] = "used"]
  /\ UNCHANGED <<packet_size, num_packets, fifolist, desc, stuck>>

deqbuf(e) ==
  /\ ~ stuck /\ pool_fifo_buf_available /\ e = Head(fifolist)
  /\ fifolist' = Tail(fifolist)
  /\ usedlist' = usedlist \cup {e}
  /\ pcur_list' = [pcur_list EXCEPT ![e] = "used"]
  /\ UNCHANGED <<packet_size, num_packets, freelist, desc, stuck>>

(* list_move_tail unlinks the entry from whatever list it is on.           *)
freebuf(p) ==
  /\ ~ stuck /\ Accepts(p)
  /\ LET e == pbuf2pentry(p) IN
       /\ freelist' = Append(RemoveFirst(freelist, e), e)
       /\ fifolist' = RemoveFirst(fifolist, e)
       /\ usedlist' = usedlist \ {e}
       /\ pcur_list' = [pcur_list EXCEPT ![e] = "free"]
       /\ desc' = [desc EXCEPT ![e].len = packet_size]
  /\ UNCHANGED <<packet_size, num_packets, stuck>>

enqbuf_head(p, d) ==
  /\ ~ stuck /\ Accepts(p)
  /\ LET e == pbuf2pentry(p) IN
       /\ fifolist' = <<e>> \o RemoveFirst(fifolist, e)
       /\ freelist' = RemoveFirst(freelist, e)
       /\ usedlist' = usedlist \ {e}
       /\ pcur_list' = [pcur_list EXCEPT ![e] = "fifo"]
       /\ desc' = [desc EXCEPT ![e] = d]
  /\ UNCHANGED <<packet_size, num_packets, stuck>>

enqbuf(p, d) ==
  /\ ~ stuck /\ Accepts(p)
  /\ LET e == pbuf2pentry(p) IN
       /\ fifolist' = Append(RemoveFirst(fifolist, e), e)
       /\ freelist' = RemoveFirst(freelist, e)
       /\ usedlist' = usedlist \ {e}
       /\ pcur_list' = [pcur_list EXCEPT ![e] = "fifo"]
       /\ desc' = [desc EXCEPT ![e] = d]
  /\ UNCHANGED <<packet_size, num_packets, stuck>>

(* pool_freebuf and pool_enqbuf move an entry that is not there: they      *)
(* follow and write what the memory behind the entries holds.              *)
stray(p) ==
  /\ ~ stuck /\ MayAccept(p)
  /\ stuck' = TRUE
  /\ UNCHANGED <<packet_size, num_packets, freelist, fifolist, usedlist,
                 pcur_list, desc>>

(* Every entry goes back to the free list, index 0 last, whatever list it  *)
(* was on: nobody checks that the pool is idle.                            *)
Populate(ps, n) ==
  /\ packet_size' = ps
  /\ num_packets' = n
  /\ freelist' = [k \in 1 .. n |-> n - k]
  /\ fifolist' = <<>>
  /\ usedlist' = {}
  /\ pcur_list' = [i \in 0 .. n - 1 |-> "free"]
  /\ desc' = [i \in 0 .. n - 1 |-> [len |-> ps, ooblen |-> 0, flags |-> 0]]

AtMost(n, m) == IF m < n THEN m ELSE n

pool_resize(ps) ==
  /\ ~ stuck /\ PacketFits(ps)
  /\ Populate(ps, PacketsFor(ps))
  /\ UNCHANGED stuck

(* kzalloc fails: the routine returns without unlocking, the old entries   *)
(* freed, the lists not yet reset.                                         *)
pool_resize_nomem(ps, n) ==
  /\ AllocMayFail
  /\ ~ stuck /\ PacketFits(ps)
  /\ packet_size' = ps
  /\ num_packets' = AtMost(n, PacketsFor(ps))
  /\ stuck' = TRUE
  /\ UNCHANGED <<freelist, fifolist, usedlist, pcur_list, desc>>

(* pool_flush: resize with ps and n, what packet_size and num_packets were *)
(* when it read them; that was before pool_resize takes the lock.          *)
pool_flush(ps, n) ==
  /\ ~ stuck /\ PacketFits(ps)
  /\ Populate(ps, AtMost(n, PacketsFor(ps)))
  /\ UNCHANGED stuck

(* pool_busy is 0 when the used list is empty, -EBUSY otherwise.           *)
pool_busy == usedlist # {}

-----------------------------------------------------------------------------
(* zap_open: pool_create on an idle pool, then pool_resize.                *)
PoolInit ==
  /\ packet_size = OpenSize
  /\ num_packets = PacketsFor(OpenSize)
  /\ freelist = [k \in 1 .. num_packets |-> num_packets - k]
  /\ fifolist = <<>>
  /\ usedlist = {}
  /\ pcur_list = [i \in Entries |-> "free"]
  /\ desc = [i \in Entries |-> [len |-> OpenSize, ooblen |-> 0, flags |-> 0]]
  /\ stuck = FALSE

(* A caller may hand in any address of the region, aligned or not; a flush *)
(* may come with the sizes of any earlier moment.                          *)
PoolNext ==
  \/ \E e \in Entries : getbuf(e) \/ deqbuf(e)
  \/ \E p \in 0 .. Size : freebuf(p)
  \/ \E p \in 0 .. Size, d \in Descs : enqbuf(p, d)
  \/ \E p \in 0 .. Size : stray(p)
  \/ \E ps \in PacketSizes : pool_resize(ps)
  \/ \E ps \in Sizes, n \in 1 .. MaxPackets :
       pool_flush(ps, n) \/ pool_resize_nomem(ps, n)

PoolSpec == PoolInit /\ [][PoolNext]_pvars

-----------------------------------------------------------------------------
(* Types of the pool's fields while it is whole (pool.h, struct pool).     *)
PoolTypeOK ==
  /\ packet_size \in Nat
  /\ num_packets \in Nat
  /\ stuck \in BOOLEAN
  /\ ~ stuck =>
       /\ freelist \in Seq(Entries)
       /\ fifolist \in Seq(Entries)
       /\ usedlist \in SUBSET Entries
       /\ pcur_list \in [Entries -> ListNames]
       /\ desc \in [Entries -> [len : Nat, ooblen : Nat, flags : Nat]]

On(s) == {s[k] : k \in DOMAIN s}
NoRepeats(s) == \A j, k \in DOMAIN s : s[j] = s[k] => j = k

(* "A pbuf is always in one of the lists at any time" (zap.c:66-67), until *)
(* a failed kzalloc or an address behind the last packet loses the pool,   *)
(* and whatever else the callers pass, the sizes of a late flush too: the  *)
(* three lists partition the entries, no list links an entry twice, and    *)
(* pcur_list, which is what the checks of pool_freebuf and pool_enqbuf     *)
(* consult, names the list the entry is really on.                         *)
ListPartition ==
  ~ stuck =>
    /\ NoRepeats(freelist) /\ NoRepeats(fifolist)
    /\ On(freelist) = {i \in Entries : pcur_list[i] = "free"}
    /\ On(fifolist) = {i \in Entries : pcur_list[i] = "fifo"}
    /\ usedlist = {i \in Entries : pcur_list[i] = "used"}

(* Whatever sizes pool_resize is asked for, the pool keeps at least one    *)
(* packet, all packets lie inside the region, and two packets never share  *)
(* a byte (a zero packet size puts all packets at one address).            *)
PacketsDisjoint ==
  /\ num_packets \in 1 .. MaxPackets
  /\ packet_size > 0 =>
       \A i \in Entries :
         /\ pentry2pbuf(i) + packet_size <= Size
         /\ \A j \in Entries :
              i < j => pentry2pbuf(i) + packet_size <= pentry2pbuf(j)

(* The inductive invariant behind both: the current sizes are ones that    *)
(* pool_resize accepted.                                                   *)
PoolInv ==
  /\ PoolTypeOK
  /\ ListPartition
  /\ packet_size \in Sizes /\ PacketFits(packet_size)
  /\ num_packets \in 1 .. PacketsFor(packet_size)
=============================================================================

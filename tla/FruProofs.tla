------------------------------ MODULE FruProofs ------------------------------
(***************************************************************************)
(* For any boards, commands, images and points at which a write may be     *)
(* torn, under Linux and U-Boot in turns:                                  *)
(*                                                                         *)
(*   - create, add, rm and fix make whole images that say what they were   *)
(*     told, and a file that was saved is such an image;                   *)
(*   - what a board holds after a write that ran to its end is valid, a    *)
(*     read returns it whole, a success that U-Boot reports is one, and a  *)
(*     write-protect pin is left open only where a kill or the pin itself  *)
(*     is to blame.                                                        *)
(*                                                                         *)
(* The first half is about images alone: the walk over the fields of an    *)
(* area, what becomes of it when a field is put in or taken out, the       *)
(* checksum, the dates.  The second half takes the commands' steps one by  *)
(* one; there the walk and the checksum are not expanded any more.         *)
(***************************************************************************)
EXTENDS FruUboot, SequenceTheorems, FiniteSetTheorems, WellFoundedInduction,
        TLAPS

-----------------------------------------------------------------------------
(* Induction over a set of numbers, and the walk over the fields.          *)

LEMMA ByteIsNat == \A x \in Byte : x \in Nat /\ x <= 255
  BY DEF Byte

(* Induction, from the well-foundedness of the natural numbers.            *)
LEMMA Least ==
  ASSUME NEW T \in SUBSET Nat, T # {}
  PROVE  \E x \in T : \A y \in T : x <= y
<1> DEFINE R == {ss \in Nat \X Nat : ss[1] < ss[2]}
<1>1. IsWellFoundedOn(R, Nat)
  BY NatLessThanWellFounded DEF OpToRel
<1>2. ASSUME NEW x \in Nat, NEW y \in Nat, y < x
      PROVE  <<y, x>> \in R
  BY <1>2
<1> HIDE DEF R
<1>3. PICK x \in T : \A y \in T : ~ (<<y, x>> \in R)
  BY <1>1, WFMin
<1>4. ASSUME NEW y \in T PROVE x <= y
  <2>1. x \in Nat /\ y \in Nat /\ ~ (<<y, x>> \in R)
    BY <1>3
  <2> QED
    BY <1>2, <2>1
<1> QED
  BY <1>4

LEMMA Induct ==
  ASSUME NEW S \in SUBSET Nat, 0 \in S, \A n \in S : n + 1 \in S
  PROVE  \A n \in Nat : n \in S
<1> DEFINE T == Nat \ S
<1>1. SUFFICES ASSUME T # {} PROVE FALSE
  OBVIOUS
<1>2. PICK x \in T : \A y \in T : x <= y
  BY <1>1, Least
<1>3. x # 0 /\ x - 1 \in Nat /\ x - 1 \notin T
  BY <1>2
<1> QED
  BY <1>2, <1>3

-----------------------------------------------------------------------------
(* The walk over the fields of an area.                                    *)

Pos == Nat \ {0}

(* From a position: where the walk goes next, and where it ends.           *)
Stops(bia, p) == p > Len(bia) \/ bia[p] = FRU_END_MARKER
NextField(bia, p) == p + 1 + fru_tl_get_length(bia[p])
WalkStep(bia, f, p) ==
  IF Stops(bia, p) THEN <<p>> ELSE <<p>> \o f[NextField(bia, p)]

IsWalk(bia, p, w) ==
  /\ w \in Seq(Pos) /\ Len(w) >= 1 /\ w[1] = p
  /\ \A k \in 1 .. Len(w) - 1 :
       ~ Stops(bia, w[k]) /\ w[k + 1] = NextField(bia, w[k])
  /\ Stops(bia, w[Len(w)])

LEMMA TlLength ==
  ASSUME NEW byte \in Byte
  PROVE  fru_tl_get_length(byte) \in 0 .. 63
  BY DEF Byte, fru_tl_get_length, FRU_END_MARKER

LEMMA NextIs ==
  ASSUME NEW bia \in Seq(Byte), NEW p \in Pos, ~ Stops(bia, p)
  PROVE  /\ p \in 1 .. Len(bia) /\ bia[p] \in Byte
         /\ fru_tl_get_length(bia[p]) \in 0 .. 63
         /\ NextField(bia, p) \in Pos
         /\ NextField(bia, p) > p /\ NextField(bia, p) <= p + 64
<1>1. Len(bia) \in Nat
  BY LenProperties
<1>2. p \in 1 .. Len(bia)
  BY <1>1 DEF Stops, Pos
<1>3. bia[p] \in Byte
  BY <1>2, ElementOfSeq
<1>4. fru_tl_get_length(bia[p]) \in 0 .. 63
  BY <1>3, TlLength
<1>5. p \in Nat
  BY DEF Pos
<1>6. /\ NextField(bia, p) \in Nat /\ NextField(bia, p) # 0
      /\ NextField(bia, p) > p /\ NextField(bia, p) <= p + 64
  <2> DEFINE l == fru_tl_get_length(bia[p])
  <2>1. l \in 0 .. 63 /\ NextField(bia, p) = p + 1 + l
    BY <1>4 DEF NextField
  <2> HIDE DEF l
  <2> QED
    BY <1>5, <2>1
<1> QED
  BY <1>2, <1>3, <1>4, <1>6 DEF Pos

(* The recursive definition of Walk has a solution ...                     *)
LEMMA WalkExists ==
  ASSUME NEW bia \in Seq(Byte)
  PROVE  \E f : f = [p \in Pos |-> WalkStep(bia, f, p)]
<1> DEFINE Sol(n, f) == \A p \in Pos : p + n > Len(bia) => f[p] = WalkStep(bia, f, p)
           S == {n \in Nat : \E f : Sol(n, f)}
<1>0. Len(bia) \in Nat
  BY LenProperties
<1>1. 0 \in S
  <2> DEFINE f == [p \in Pos |-> <<p>>]
  <2>1. ASSUME NEW p \in Pos, p + 0 > Len(bia)
        PROVE  f[p] = WalkStep(bia, f, p)
    <3>1. Stops(bia, p)
      BY <2>1, <1>0 DEF Pos, Stops
    <3> QED
      BY <3>1 DEF WalkStep
  <2> QED
    BY <2>1
<1>2. ASSUME NEW n \in S PROVE n + 1 \in S
  <2>1. PICK f : Sol(n, f)
    BY <1>2
  <2> DEFINE g == [p \in Pos |-> WalkStep(bia, f, p)]
  <2>2. ASSUME NEW p \in Pos, p + (n + 1) > Len(bia)
        PROVE  g[p] = WalkStep(bia, g, p)
    <3>1. CASE Stops(bia, p)
      BY <3>1 DEF WalkStep
    <3>2. CASE ~ Stops(bia, p)
      <4> DEFINE q == NextField(bia, p)
      <4>1. q \in Pos /\ q > p
        BY <3>2, NextIs
      <4>2. q + n > Len(bia)
        BY <1>0, <2>2, <4>1 DEF Pos
      <4>3. g[q] = f[q]
        BY <2>1, <4>1, <4>2
      <4> QED
        BY <3>2, <4>3 DEF WalkStep
    <3> QED
      BY <3>1, <3>2
  <2> HIDE DEF g
  <2>3. Sol(n + 1, g)
    BY <2>2
  <2> QED
    BY <2>3
<1> HIDE DEF S
<1>3. Len(bia) \in S
  <2>1. S \in SUBSET Nat
    BY DEF S
  <2> QED
    BY <1>0, <1>1, <1>2, <2>1, Induct
<1>4. PICK f : Sol(Len(bia), f)
  BY <1>3 DEF S
<1> DEFINE g == [p \in Pos |-> WalkStep(bia, f, p)]
<1>5. ASSUME NEW p \in Pos PROVE f[p] = WalkStep(bia, f, p)
  BY <1>0, <1>4 DEF Pos
<1>6. ASSUME NEW p \in Pos PROVE WalkStep(bia, f, p) = WalkStep(bia, g, p)
  <2>1. CASE Stops(bia, p)
    BY <2>1 DEF WalkStep
  <2>2. CASE ~ Stops(bia, p)
    <3>1. NextField(bia, p) \in Pos
      BY <2>2, NextIs
    <3>2. g[NextField(bia, p)] = f[NextField(bia, p)]
      BY <1>5, <3>1
    <3> QED
      BY <2>2, <3>2 DEF WalkStep
  <2> QED
    BY <2>1, <2>2
<1>7. g = [p \in Pos |-> WalkStep(bia, g, p)]
  BY <1>6
<1> HIDE DEF g
<1> QED
  BY <1>7

LEMMA WalkUnfolds ==
  ASSUME NEW bia \in Seq(Byte)
  PROVE  \E f : /\ f = [p \in Pos |-> WalkStep(bia, f, p)]
                /\ Walk(bia) = f[7]
<1> DEFINE F == CHOOSE f : f = [p \in Pos |-> WalkStep(bia, f, p)]
<1>1. F = [p \in Pos |-> WalkStep(bia, F, p)]
  BY WalkExists
<1>2. Walk(bia) = F[7]
  BY DEF Walk, WalkStep, Stops, NextField, Pos
<1> QED
  BY <1>1, <1>2

(* ... and it is the walk.                                                 *)
LEMMA WalkIs ==
  ASSUME NEW bia \in Seq(Byte)
  PROVE  IsWalk(bia, 7, Walk(bia))
<1>0. Len(bia) \in Nat
  BY LenProperties
<1>1. PICK f : f = [p \in Pos |-> WalkStep(bia, f, p)] /\ Walk(bia) = f[7]
  BY WalkUnfolds
<1> DEFINE S == {n \in Nat : \A p \in Pos : p + n > Len(bia) => IsWalk(bia, p, f[p])}
<1>2. ASSUME NEW p \in Pos, Stops(bia, p)
      PROVE  IsWalk(bia, p, f[p])
  <2>1. f[p] = <<p>>
    BY <1>1, <1>2 DEF WalkStep
  <2> QED
    BY <1>2, <2>1 DEF IsWalk
<1>3. ASSUME NEW p \in Pos, ~ Stops(bia, p),
             IsWalk(bia, NextField(bia, p), f[NextField(bia, p)])
      PROVE  IsWalk(bia, p, f[p])
  <2> DEFINE w == f[NextField(bia, p)]
             v == <<p>> \o w
  <2>1. f[p] = v
    BY <1>1, <1>3 DEF WalkStep
  <2>2. w \in Seq(Pos) /\ Len(w) >= 1 /\ Len(w) \in Nat
    BY <1>3, LenProperties DEF IsWalk
  <2> HIDE DEF w
  <2>3. /\ v \in Seq(Pos) /\ Len(v) = Len(w) + 1 /\ v[1] = p
        /\ \A k \in 1 .. Len(w) : v[k + 1] = w[k]
    BY <2>2
  <2> HIDE DEF v
  <2>4. ASSUME NEW k \in 1 .. Len(v) - 1
        PROVE  ~ Stops(bia, v[k]) /\ v[k + 1] = NextField(bia, v[k])
    <3>1. CASE k = 1
      <4>1. v[2] = w[1] /\ w[1] = NextField(bia, p)
        BY <1>3, <2>2, <2>3 DEF w, IsWalk
      <4> QED
        BY <1>3, <2>3, <3>1, <4>1
    <3>2. CASE k # 1
      <4>1. k - 1 \in 1 .. Len(w) - 1
        BY <2>2, <2>3, <3>2
      <4>2. v[k] = w[k - 1] /\ v[k + 1] = w[k - 1 + 1]
        BY <2>2, <2>3, <4>1
      <4>3. ~ Stops(bia, w[k - 1]) /\ w[k - 1 + 1] = NextField(bia, w[k - 1])
        BY <1>3, <4>1 DEF w, IsWalk
      <4> QED
        BY <4>2, <4>3
    <3> QED
      BY <3>1, <3>2
  <2>5. Stops(bia, v[Len(v)])
    <3>1. v[Len(v)] = w[Len(w)]
      BY <2>2, <2>3
    <3> QED
      BY <1>3, <3>1 DEF w, IsWalk
  <2> QED
    BY <2>1, <2>2, <2>3, <2>4, <2>5 DEF IsWalk
<1>4. 0 \in S
  <2>1. ASSUME NEW p \in Pos, p + 0 > Len(bia) PROVE IsWalk(bia, p, f[p])
    <3>1. Stops(bia, p)
      BY <1>0, <2>1 DEF Pos, Stops
    <3> QED
      BY <1>2, <3>1
  <2> QED
    BY <2>1
<1>5. ASSUME NEW n \in S PROVE n + 1 \in S
  <2>1. ASSUME NEW p \in Pos, p + (n + 1) > Len(bia) PROVE IsWalk(bia, p, f[p])
    <3>1. CASE Stops(bia, p)
      BY <1>2, <3>1
    <3>2. CASE ~ Stops(bia, p)
      <4> DEFINE q == NextField(bia, p)
      <4>1. q \in Pos /\ q > p
        BY <3>2, NextIs
      <4>2. q + n > Len(bia)
        BY <1>0, <2>1, <4>1 DEF Pos
      <4>3. IsWalk(bia, q, f[q])
        BY <1>5, <4>1, <4>2
      <4> QED
        BY <1>3, <3>2, <4>3
    <3> QED
      BY <3>1, <3>2
  <2> QED
    BY <2>1
<1> HIDE DEF S
<1>6. Len(bia) \in S
  <2>1. S \in SUBSET Nat
    BY DEF S
  <2> QED
    BY <1>0, <1>4, <1>5, <2>1, Induct
<1>7. 7 \in Pos /\ 7 + Len(bia) > Len(bia)
  BY <1>0 DEF Pos
<1>8. IsWalk(bia, 7, f[7])
  BY <1>6, <1>7 DEF S
<1> QED
  BY <1>1, <1>8

(* There is only one.                                                      *)
LEMMA WalkUnique ==
  ASSUME NEW bia, NEW v, NEW w, IsWalk(bia, 7, v), IsWalk(bia, 7, w)
  PROVE  v = w
<1>0. /\ v \in Seq(Pos) /\ w \in Seq(Pos) /\ Len(v) \in Nat /\ Len(w) \in Nat
      /\ Len(v) >= 1 /\ Len(w) >= 1 /\ v[1] = w[1]
  BY LenProperties DEF IsWalk
<1> DEFINE S == {n \in Nat : n + 1 <= Len(v) => n + 1 <= Len(w) /\ v[n + 1] = w[n + 1]}
<1>1. 0 \in S
  BY <1>0
<1>2. ASSUME NEW n \in S PROVE n + 1 \in S
  <2>1. SUFFICES ASSUME n + 1 + 1 <= Len(v)
                 PROVE  n + 1 + 1 <= Len(w) /\ v[n + 1 + 1] = w[n + 1 + 1]
    BY <1>2
  <2>2. n + 1 <= Len(w) /\ v[n + 1] = w[n + 1] /\ n + 1 \in 1 .. Len(v) - 1
    BY <1>0, <1>2, <2>1
  <2>3. ~ Stops(bia, v[n + 1]) /\ v[n + 1 + 1] = NextField(bia, v[n + 1])
    BY <2>2 DEF IsWalk
  <2>4. n + 1 # Len(w)
    BY <2>2, <2>3 DEF IsWalk
  <2>5. n + 1 \in 1 .. Len(w) - 1
    BY <1>0, <2>2, <2>4
  <2>6. w[n + 1 + 1] = NextField(bia, w[n + 1])
    BY <2>5 DEF IsWalk
  <2> QED
    BY <1>0, <2>2, <2>3, <2>5, <2>6
<1> HIDE DEF S
<1>3. \A n \in Nat : n \in S
  <2>1. S \in SUBSET Nat
    BY DEF S
  <2> QED
    BY <1>1, <1>2, <2>1, Induct
<1>4. \A k \in 1 .. Len(v) : k <= Len(w) /\ v[k] = w[k]
  <2>1. ASSUME NEW k \in 1 .. Len(v) PROVE k <= Len(w) /\ v[k] = w[k]
    <3>1. k - 1 \in Nat /\ k - 1 + 1 = k
      BY <1>0
    <3>2. k - 1 \in S
      BY <1>3, <3>1
    <3> QED
      BY <1>0, <3>1, <3>2 DEF S
  <2> QED
    BY <2>1
<1>5. Len(v) = Len(w)
  <2>1. SUFFICES ASSUME Len(v) < Len(w) PROVE FALSE
    BY <1>0, <1>4
  <2>2. Len(v) \in 1 .. Len(w) - 1 /\ v[Len(v)] = w[Len(v)]
    BY <1>0, <1>4, <2>1
  <2> QED
    BY <2>2 DEF IsWalk
<1> QED
  BY <1>0, <1>4, <1>5, SeqEqual

-----------------------------------------------------------------------------
(* The checksum: its recursive sum has a solution, in numbers.             *)

Ranges(s) == (1 .. Len(s) + 1) \X (0 .. Len(s))
Mid(r) == (r[1] + r[2]) \div 2
SumStep(s, f, r) ==
  IF r[1] > r[2] THEN 0 ELSE IF r[1] = r[2] THEN s[r[1]]
  ELSE f[<<r[1], Mid(r)>>] + f[<<Mid(r) + 1, r[2]>>]

LEMMA Halves ==
  ASSUME NEW s, Len(s) \in Nat, NEW r \in Ranges(s), r[1] < r[2]
  PROVE  /\ r[1] \in Nat /\ r[2] \in Nat /\ Mid(r) \in Nat
         /\ r[1] <= Mid(r) /\ Mid(r) < r[2]
         /\ <<r[1], Mid(r)>> \in Ranges(s)
         /\ <<Mid(r) + 1, r[2]>> \in Ranges(s)
<1>1. r[1] \in 1 .. Len(s) + 1 /\ r[2] \in 0 .. Len(s)
  BY DEF Ranges
<1>2. Mid(r) \in Nat /\ r[1] <= Mid(r) /\ Mid(r) < r[2]
  BY <1>1 DEF Mid
<1>3. Mid(r) \in 0 .. Len(s) /\ Mid(r) + 1 \in 1 .. Len(s) + 1
  BY <1>1, <1>2
<1> QED
  BY <1>1, <1>2, <1>3 DEF Ranges

LEMMA SumExists ==
  ASSUME NEW s, Len(s) \in Nat
  PROVE  \E f : f = [r \in Ranges(s) |-> SumStep(s, f, r)]
<1> DEFINE Sol(n, f) == \A r \in Ranges(s) : r[2] < r[1] + n => f[r] = SumStep(s, f, r)
           S == {n \in Nat : \E f : Sol(n, f)}
<1>0. \A r \in Ranges(s) : r[1] \in Nat /\ r[2] \in Nat /\ r[2] < r[1] + Len(s)
  BY DEF Ranges
<1>1. 0 \in S
  <2> DEFINE f == [r \in Ranges(s) |-> 0]
  <2>1. ASSUME NEW r \in Ranges(s), r[2] < r[1] + 0
        PROVE  f[r] = SumStep(s, f, r)
    BY <1>0, <2>1 DEF SumStep
  <2> HIDE DEF f
  <2>2. Sol(0, f)
    BY <2>1
  <2> QED
    BY <2>2
<1>2. ASSUME NEW n \in S PROVE n + 1 \in S
  <2>1. PICK f : Sol(n, f)
    BY <1>2
  <2> DEFINE g == [r \in Ranges(s) |-> SumStep(s, f, r)]
  <2>2. ASSUME NEW r \in Ranges(s), r[2] < r[1] + (n + 1)
        PROVE  g[r] = SumStep(s, g, r)
    <3>1. CASE r[1] < r[2]
      <4> DEFINE a == <<r[1], Mid(r)>>
                 b == <<Mid(r) + 1, r[2]>>
      <4>1. /\ a \in Ranges(s) /\ b \in Ranges(s)
            /\ r[1] \in Nat /\ r[2] \in Nat /\ Mid(r) \in Nat
            /\ r[1] <= Mid(r) /\ Mid(r) < r[2]
        BY <3>1, Halves
      <4>2. a[1] = r[1] /\ a[2] = Mid(r) /\ b[1] = Mid(r) + 1 /\ b[2] = r[2]
        OBVIOUS
      <4> HIDE DEF a, b
      <4>3. n \in Nat /\ a[2] < a[1] + n /\ b[2] < b[1] + n
        BY <2>2, <4>1, <4>2
      <4>4. g[a] = f[a] /\ g[b] = f[b]
        BY <2>1, <4>1, <4>3
      <4>5. SumStep(s, f, r) = f[a] + f[b] /\ SumStep(s, g, r) = g[a] + g[b]
        BY <3>1, <4>1 DEF SumStep, a, b
      <4> QED
        BY <4>4, <4>5
    <3>2. CASE ~ (r[1] < r[2])
      BY <1>0, <3>2 DEF SumStep
    <3> QED
      BY <3>1, <3>2
  <2> HIDE DEF g
  <2>3. Sol(n + 1, g)
    BY <2>2
  <2> QED
    BY <2>3
<1> HIDE DEF S
<1>3. Len(s) \in S
  <2>1. S \in SUBSET Nat
    BY DEF S
  <2> QED
    BY <1>1, <1>2, <2>1, Induct
<1>4. PICK f : Sol(Len(s), f)
  BY <1>3 DEF S
<1> DEFINE g == [r \in Ranges(s) |-> SumStep(s, f, r)]
<1>5. ASSUME NEW r \in Ranges(s) PROVE f[r] = SumStep(s, f, r)
  BY <1>0, <1>4
<1>6. ASSUME NEW r \in Ranges(s) PROVE SumStep(s, f, r) = SumStep(s, g, r)
  <2>1. CASE r[1] < r[2]
    <3> DEFINE a == <<r[1], Mid(r)>>
               b == <<Mid(r) + 1, r[2]>>
    <3>1. a \in Ranges(s) /\ b \in Ranges(s)
      BY <2>1, Halves
    <3> HIDE DEF a, b
    <3>2. g[a] = f[a] /\ g[b] = f[b]
      BY <1>5, <3>1
    <3>3. SumStep(s, f, r) = f[a] + f[b] /\ SumStep(s, g, r) = g[a] + g[b]
      BY <1>0, <2>1 DEF SumStep, a, b
    <3> QED
      BY <3>2, <3>3
  <2>2. CASE ~ (r[1] < r[2])
    BY <1>0, <2>2 DEF SumStep
  <2> QED
    BY <2>1, <2>2
<1>7. g = [r \in Ranges(s) |-> SumStep(s, g, r)]
  BY <1>6
<1> HIDE DEF g
<1> QED
  BY <1>7

LEMMA ChecksumUnfolds ==
  ASSUME NEW s, Len(s) \in Nat
  PROVE  \E f : /\ f = [r \in Ranges(s) |-> SumStep(s, f, r)]
                /\ fru_calculate_checksum(s) = (256 - (f[<<1, Len(s)>>] % 256)) % 256
<1> DEFINE F == CHOOSE f : f = [r \in Ranges(s) |-> SumStep(s, f, r)]
<1>1. F = [r \in Ranges(s) |-> SumStep(s, F, r)]
  BY SumExists
<1>2. fru_calculate_checksum(s) = (256 - (F[<<1, Len(s)>>] % 256)) % 256
  BY DEF fru_calculate_checksum, SumStep, Ranges, Mid
<1> QED
  BY <1>1, <1>2

LEMMA ChecksumIsByte ==
  ASSUME NEW s \in Seq(Byte)
  PROVE  fru_calculate_checksum(s) \in Byte
<1>0. Len(s) \in Nat
  BY LenProperties
<1>1. PICK f : /\ f = [r \in Ranges(s) |-> SumStep(s, f, r)]
               /\ fru_calculate_checksum(s) = (256 - (f[<<1, Len(s)>>] % 256)) % 256
  BY <1>0, ChecksumUnfolds
<1> DEFINE S == {n \in Nat : \A r \in Ranges(s) : r[2] < r[1] + n => f[r] \in Nat}
<1>2. \A r \in Ranges(s) : r[1] \in Nat /\ r[2] \in Nat /\ r[2] < r[1] + Len(s)
                           /\ r[1] \in 1 .. Len(s) + 1 /\ r[2] <= Len(s)
  BY <1>0 DEF Ranges
<1>3. ASSUME NEW r \in Ranges(s), r[1] > r[2] PROVE f[r] \in Nat
  BY <1>1, <1>3 DEF SumStep
<1>4. 0 \in S
  BY <1>2, <1>3
<1>5. ASSUME NEW n \in S PROVE n + 1 \in S
  <2>1. ASSUME NEW r \in Ranges(s), r[2] < r[1] + (n + 1) PROVE f[r] \in Nat
    <3>1. CASE r[1] < r[2]
      <4> DEFINE a == <<r[1], Mid(r)>>
                 b == <<Mid(r) + 1, r[2]>>
      <4>1. /\ a \in Ranges(s) /\ b \in Ranges(s)
            /\ r[1] \in Nat /\ r[2] \in Nat /\ Mid(r) \in Nat
            /\ r[1] <= Mid(r) /\ Mid(r) < r[2]
        BY <1>0, <3>1, Halves
      <4>2. a[1] = r[1] /\ a[2] = Mid(r) /\ b[1] = Mid(r) + 1 /\ b[2] = r[2]
        OBVIOUS
      <4>3. f[r] = f[a] + f[b]
        BY <1>1, <3>1, <4>1 DEF SumStep
      <4> HIDE DEF a, b
      <4>4. n \in Nat /\ a[2] < a[1] + n /\ b[2] < b[1] + n
        BY <2>1, <4>1, <4>2
      <4>5. f[a] \in Nat /\ f[b] \in Nat
        BY <1>5, <4>1, <4>4
      <4> QED
        BY <4>3, <4>5
    <3>2. CASE r[1] = r[2]
      <4>1. r[1] \in 1 .. Len(s)
        BY <1>0, <1>2, <3>2
      <4>2. s[r[1]] \in Nat
        BY <4>1, ElementOfSeq, ByteIsNat
      <4>3. f[r] = s[r[1]]
        BY <1>1, <1>2, <3>2 DEF SumStep
      <4> QED
        BY <4>2, <4>3
    <3> QED
      BY <1>2, <1>3, <3>1, <3>2
  <2>2. n + 1 \in Nat
    BY <1>5
  <2> QED
    BY <2>1, <2>2
<1> HIDE DEF S
<1>6. Len(s) \in S
  <2>1. S \in SUBSET Nat
    BY DEF S
  <2> QED
    BY <1>0, <1>4, <1>5, <2>1, Induct
<1>7. <<1, Len(s)>> \in Ranges(s)
  BY <1>0 DEF Ranges
<1>8. f[<<1, Len(s)>>] \in Nat
  <2> DEFINE r == <<1, Len(s)>>
  <2>1. r \in Ranges(s) /\ r[2] < r[1] + Len(s)
    BY <1>2, <1>7
  <2> QED
    BY <1>6, <2>1 DEF S
<1>9. PICK x \in Nat : x = f[<<1, Len(s)>>]
  BY <1>8, Zenon
<1>10. (256 - (x % 256)) % 256 \in Byte
  BY DEF Byte
<1>11. fru_calculate_checksum(s) = (256 - (x % 256)) % 256
  BY <1>1, <1>9
<1> QED
  BY <1>10, <1>11

LEMMA HeaderChecksum == fru_calculate_checksum(SubSeq(CH_DEFAULT, 1, 7)) = 254
<1> DEFINE s == <<1, 0, 0, 1, 0, 0, 0>>
<1>0. Len(s) = 7 /\ Len(s) \in Nat
  OBVIOUS
<1>1. SubSeq(CH_DEFAULT, 1, 7) = s
  <2> DEFINE c == CH_DEFAULT
             t == SubSeq(c, 1, 7)
  <2>1. /\ c \in Seq(Nat) /\ Len(c) = 8 /\ c[1] = 1 /\ c[2] = 0 /\ c[3] = 0
        /\ c[4] = 1 /\ c[5] = 0 /\ c[6] = 0 /\ c[7] = 0
    BY DEF CH_DEFAULT
  <2> HIDE DEF c
  <2>2. t \in Seq(Nat) /\ Len(t) = 7 /\ \A k \in 1 .. 7 : t[k] = c[k]
    <3>1. 1 \in 1 .. Len(c) + 1 /\ 7 \in 1 - 1 .. Len(c)
      BY <2>1
    <3> QED
      BY <2>1, <3>1, SubSeqProperties
  <2> HIDE DEF t
  <2>3. s \in Seq(Nat) /\ \A k \in 1 .. 7 : t[k] = s[k]
    BY <2>1, <2>2
  <2>4. t = s
    BY <1>0, <2>2, <2>3, SeqEqual
  <2> QED
    BY <2>4 DEF t, c
<1>e. s[1] = 1 /\ s[2] = 0 /\ s[3] = 0 /\ s[4] = 1 /\ s[5] = 0 /\ s[6] = 0
      /\ s[7] = 0
  OBVIOUS
<1> HIDE DEF s
<1>2. PICK f : /\ f = [r \in Ranges(s) |-> SumStep(s, f, r)]
               /\ fru_calculate_checksum(s) = (256 - (f[<<1, Len(s)>>] % 256)) % 256
  BY <1>0, ChecksumUnfolds, ZenonT(30)
<1>3. ASSUME NEW i \in 1 .. 7 PROVE f[<<i, i>>] = s[i]
  <2>1. <<i, i>> \in Ranges(s)
    BY <1>0 DEF Ranges
  <2> QED
    BY <1>2, <2>1 DEF SumStep
<1>4. ASSUME NEW i \in 1 .. 7, NEW j \in 1 .. 7, i < j,
             NEW m \in 1 .. 7, m = (i + j) \div 2
      PROVE  f[<<i, j>>] = f[<<i, m>>] + f[<<m + 1, j>>]
  <2>1. <<i, j>> \in Ranges(s)
    BY <1>0 DEF Ranges
  <2>2. Mid(<<i, j>>) = m
    BY <1>4 DEF Mid
  <2>3. f[<<i, j>>] = SumStep(s, f, <<i, j>>)
    BY <1>2, <2>1
  <2>4. SumStep(s, f, <<i, j>>) = f[<<i, m>>] + f[<<m + 1, j>>]
    BY <1>4, <2>2 DEF SumStep
  <2> QED
    BY <2>3, <2>4
<1>5. f[<<1, 2>>] = 1
  <2>1. f[<<1, 2>>] = f[<<1, 1>>] + f[<<1 + 1, 2>>]
    BY <1>4
  <2> QED
    BY <2>1, <1>3, <1>e
<1>6. f[<<3, 4>>] = 1
  <2>1. f[<<3, 4>>] = f[<<3, 3>>] + f[<<3 + 1, 4>>]
    BY <1>4
  <2> QED
    BY <2>1, <1>3, <1>e
<1>7. f[<<5, 6>>] = 0
  <2>1. f[<<5, 6>>] = f[<<5, 5>>] + f[<<5 + 1, 6>>]
    BY <1>4
  <2> QED
    BY <2>1, <1>3, <1>e
<1>8. f[<<1, 4>>] = 2
  <2>1. f[<<1, 4>>] = f[<<1, 2>>] + f[<<2 + 1, 4>>]
    BY <1>4
  <2> QED
    BY <2>1, <1>5, <1>6
<1>9. f[<<5, 7>>] = 0
  <2>1. f[<<5, 7>>] = f[<<5, 6>>] + f[<<6 + 1, 7>>]
    BY <1>4
  <2> QED
    BY <2>1, <1>7, <1>3, <1>e
<1>10. f[<<1, 7>>] = 2
  <2>1. f[<<1, 7>>] = f[<<1, 4>>] + f[<<4 + 1, 7>>]
    BY <1>4
  <2> QED
    BY <2>1, <1>8, <1>9
<1>11. fru_calculate_checksum(s) = (256 - (2 % 256)) % 256
  BY <1>0, <1>2, <1>10
<1>12. (256 - (2 % 256)) % 256 = 254
  OBVIOUS
<1> QED
  BY <1>1, <1>11, <1>12

-----------------------------------------------------------------------------
(* Sequences of bytes, and what is done to them, by what it does and not   *)
(* by how it is defined.                                                   *)

Bytes == Seq(Byte)
Glue(s, t) == s \o t
Cut(s, i, n) == SubSeq(s, i + 1, i + n)

LEMMA BytesAre ==
  ASSUME NEW s \in Bytes
  PROVE  Len(s) \in Nat /\ \A k \in 1 .. Len(s) : s[k] \in Byte
  BY LenProperties, ElementOfSeq DEF Bytes

(* s stands in u behind the first i bytes.                                 *)
At(u, i, s) ==
  i + Len(s) <= Len(u) /\ \A k \in 1 .. Len(s) : u[i + k] = s[k]

LEMMA Glued ==
  ASSUME NEW s \in Bytes, NEW t \in Bytes
  PROVE  /\ Glue(s, t) \in Bytes /\ Len(Glue(s, t)) = Len(s) + Len(t)
         /\ At(Glue(s, t), 0, s) /\ At(Glue(s, t), Len(s), t)
<1>0. s \in Seq(Byte) /\ t \in Seq(Byte) /\ Len(s) \in Nat /\ Len(t) \in Nat
  BY LenProperties DEF Bytes
<1>1. s \o t \in Seq(Byte) /\ Len(s \o t) = Len(s) + Len(t)
  BY <1>0, ConcatProperties
<1>2. \A k \in 1 .. Len(s) : (s \o t)[0 + k] = s[k]
  BY <1>0, <1>1
<1>3. \A k \in 1 .. Len(t) : (s \o t)[Len(s) + k] = t[k]
  BY <1>0, <1>1
<1>4. 0 + Len(s) <= Len(s) + Len(t) /\ Len(s) + Len(t) <= Len(s) + Len(t)
  BY <1>0
<1> QED
  BY <1>1, <1>2, <1>3, <1>4, Zenon DEF Glue, Bytes, At

LEMMA AtWithin ==
  ASSUME NEW u \in Bytes, NEW s \in Bytes, NEW t \in Bytes,
         NEW i \in Nat, NEW j \in Nat, At(u, i, s), At(s, j, t),
         NEW l, l = i + j
  PROVE  At(u, l, t)
<1>1. Len(u) \in Nat /\ Len(s) \in Nat /\ Len(t) \in Nat
  BY BytesAre
<1>2. i + Len(s) <= Len(u) /\ j + Len(t) <= Len(s)
  BY DEF At
<1>3. i + j + Len(t) <= Len(u)
  BY <1>1, <1>2
<1>4. ASSUME NEW k \in 1 .. Len(t) PROVE u[i + j + k] = t[k]
  <2>1. j + k \in 1 .. Len(s) /\ i + (j + k) = i + j + k
    BY <1>1, <1>2
  <2>2. u[i + (j + k)] = s[j + k] /\ s[j + k] = t[k]
    BY <2>1 DEF At
  <2> QED
    BY <2>1, <2>2
<1> QED
  BY <1>3, <1>4 DEF At

LEMMA AtStart ==
  ASSUME NEW u \in Bytes, NEW s \in Bytes, NEW t \in Bytes,
         NEW j \in Nat, At(u, 0, s), At(s, j, t)
  PROVE  At(u, j, t)
<1>1. 0 \in Nat /\ j = 0 + j
  OBVIOUS
<1> QED
  BY <1>1, AtWithin, Zenon

LEMMA CutIs ==
  ASSUME NEW s \in Bytes, NEW i \in Nat, NEW n \in Nat, i + n <= Len(s)
  PROVE  /\ Cut(s, i, n) \in Bytes /\ Len(Cut(s, i, n)) = n
         /\ At(s, i, Cut(s, i, n))
<1>0. Len(s) \in Nat /\ \A k \in 1 .. Len(s) : s[k] \in Byte
  BY BytesAre
<1>1. i + 1 \in Int /\ i + n \in Int /\ \A k \in i + 1 .. i + n : s[k] \in Byte
  BY <1>0
<1>2. /\ SubSeq(s, i + 1, i + n) \in Seq(Byte)
      /\ Len(SubSeq(s, i + 1, i + n))
           = IF i + 1 <= i + n THEN i + n - (i + 1) + 1 ELSE 0
      /\ \A k \in 1 .. i + n - (i + 1) + 1 :
           SubSeq(s, i + 1, i + n)[k] = s[i + 1 + k - 1]
  BY <1>1, SubSeqProperties
<1>3. i + n - (i + 1) + 1 = n /\ \A k \in 1 .. n : i + 1 + k - 1 = i + k
  OBVIOUS
<1> QED
  BY <1>2, <1>3 DEF Cut, Bytes, At

LEMMA Filled ==
  ASSUME NEW n \in Nat, NEW x \in Byte
  PROVE  /\ Fill(n, x) \in Bytes /\ Len(Fill(n, x)) = n
         /\ \A k \in 1 .. n : Fill(n, x)[k] = x
  BY DEF Fill, Bytes

LEMMA SameBytes ==
  ASSUME NEW s \in Bytes, NEW t \in Bytes, Len(s) = Len(t),
         \A k \in 1 .. Len(s) : s[k] = t[k]
  PROVE  s = t
  BY SeqEqual DEF Bytes

LEMMA AllOf ==
  ASSUME NEW s \in Bytes, NEW n \in Nat, n = Len(s)
  PROVE  SubSeq(s, 1, n) = s
  BY SubSeqFull DEF Bytes

LEMMA OneByte ==
  ASSUME NEW x \in Byte
  PROVE  <<x>> \in Bytes /\ Len(<<x>>) = 1 /\ <<x>>[1] = x
  BY DEF Bytes

LEMMA TwoBytes ==
  ASSUME NEW x \in Byte, NEW y \in Byte
  PROVE  <<x, y>> \in Bytes /\ Len(<<x, y>>) = 2 /\ <<x, y>>[1] = x
         /\ <<x, y>>[2] = y
  BY DEF Bytes

LEMMA SmallMod == \A q \in 0 .. 255 : q % 256 = q
  OBVIOUS

(* The bytes of an image put together as Finish does.                      *)
Parts(H, A, B, fields, F, S, bia, y) ==
  /\ H \in Bytes /\ A \in Bytes /\ B \in Bytes /\ fields \in Bytes
  /\ F \in Bytes /\ S \in Bytes
  /\ Len(H) = 8 /\ Len(A) = 2 /\ Len(B) = 4 /\ Len(S) = 1
  /\ bia = Glue(Glue(Glue(A, B), fields), F) /\ y = Glue(Glue(H, bia), S)

LEMMA Assembled ==
  ASSUME NEW H, NEW A, NEW B, NEW fields, NEW F, NEW S, NEW bia, NEW y,
         Parts(H, A, B, fields, F, S, bia, y)
  PROVE  /\ bia \in Bytes /\ Len(bia) = 6 + Len(fields) + Len(F)
         /\ y \in Bytes /\ Len(y) = 8 + Len(bia) + 1
         /\ At(y, 0, H) /\ At(y, 8, bia) /\ At(y, 8, A) /\ At(y, 10, B)
         /\ At(y, 14, fields) /\ At(y, 14 + Len(fields), F)
         /\ At(y, 8 + Len(bia), S)
<1>1. /\ H \in Bytes /\ A \in Bytes /\ B \in Bytes /\ fields \in Bytes
      /\ F \in Bytes /\ S \in Bytes
  BY DEF Parts
<1>2. Len(H) = 8 /\ Len(A) = 2 /\ Len(B) = 4 /\ Len(S) = 1
  BY DEF Parts
<1>3. bia = Glue(Glue(Glue(A, B), fields), F) /\ y = Glue(Glue(H, bia), S)
  BY DEF Parts
<1>4. PICK a : a = Glue(A, B)
  BY Zenon
<1>5. PICK b : b = Glue(a, fields)
  BY Zenon
<1>6. PICK x : x = Glue(H, bia)
  BY Zenon
<1>7. bia = Glue(b, F) /\ y = Glue(x, S)
  BY <1>3, <1>4, <1>5, <1>6, Zenon
<1>8. a \in Bytes /\ Len(a) = Len(A) + Len(B) /\ At(a, 0, A)
      /\ At(a, Len(A), B)
  BY <1>1, <1>4, Glued, Zenon
<1>9. b \in Bytes /\ Len(b) = Len(a) + Len(fields) /\ At(b, 0, a)
      /\ At(b, Len(a), fields)
  BY <1>1, <1>5, <1>8, Glued, Zenon
<1>10. bia \in Bytes /\ Len(bia) = Len(b) + Len(F) /\ At(bia, 0, b)
       /\ At(bia, Len(b), F)
  BY <1>1, <1>7, <1>9, Glued, Zenon
<1>11. x \in Bytes /\ Len(x) = Len(H) + Len(bia) /\ At(x, 0, H)
       /\ At(x, Len(H), bia)
  BY <1>1, <1>6, <1>10, Glued, Zenon
<1>12. y \in Bytes /\ Len(y) = Len(x) + Len(S) /\ At(y, 0, x)
       /\ At(y, Len(x), S)
  BY <1>1, <1>7, <1>11, Glued, Zenon
<1>13. /\ Len(fields) \in Nat /\ Len(F) \in Nat /\ Len(bia) \in Nat
  BY <1>1, <1>10, BytesAre, Zenon
<1>14. /\ Len(a) = 6 /\ Len(b) = 6 + Len(fields)
       /\ Len(bia) = 6 + Len(fields) + Len(F)
       /\ Len(x) = 8 + Len(bia) /\ Len(y) = 8 + Len(bia) + 1
  BY <1>2, <1>8, <1>9, <1>10, <1>11, <1>12, <1>13
<1>15. /\ At(a, 2, B) /\ At(b, 6, fields) /\ At(bia, 6 + Len(fields), F)
       /\ At(x, 8, bia) /\ At(y, 8 + Len(bia), S)
  BY <1>2, <1>8, <1>9, <1>10, <1>11, <1>12, <1>14, Zenon
<1>16. At(y, 0, H)
  <2>1. 0 \in Nat /\ 0 = 0 + 0
    OBVIOUS
  <2> QED
    BY <1>1, <1>11, <1>12, <2>1, AtWithin, Zenon
<1>17. At(y, 8, bia)
  <2>1. 0 \in Nat /\ 8 \in Nat /\ 8 = 0 + 8
    OBVIOUS
  <2> QED
    <3>1. y \in Bytes /\ x \in Bytes /\ bia \in Bytes /\ At(y, 0, x)
          /\ At(x, 8, bia)
      BY <1>10, <1>11, <1>12, <1>15, Zenon
    <3> QED
      BY <2>1, <3>1, AtStart, Zenon
<1>18. At(bia, 0, a)
  <2>1. 0 \in Nat /\ 0 = 0 + 0
    OBVIOUS
  <2> QED
    BY <1>8, <1>9, <1>10, <2>1, AtWithin, Zenon
<1>19. At(bia, 6, fields)
  <2>1. 0 \in Nat /\ 6 \in Nat /\ 6 = 0 + 6
    OBVIOUS
  <2> QED
    <3>1. /\ bia \in Bytes /\ b \in Bytes /\ fields \in Bytes
          /\ At(bia, 0, b) /\ At(b, 6, fields)
      BY <1>1, <1>9, <1>10, <1>15, Zenon
    <3> QED
      BY <2>1, <3>1, AtStart, Zenon
<1>20. At(bia, 0, A)
  <2>1. 0 \in Nat /\ 0 = 0 + 0
    OBVIOUS
  <2> QED
    BY <1>1, <1>8, <1>10, <1>18, <2>1, AtWithin, Zenon
<1>21. At(bia, 2, B)
  <2>1. 0 \in Nat /\ 2 \in Nat /\ 2 = 0 + 2
    OBVIOUS
  <2> QED
    BY <1>1, <1>8, <1>10, <1>15, <1>18, <2>1, AtWithin, Zenon
<1>22. At(y, 8, A)
  <2>1. 8 \in Nat /\ 0 \in Nat /\ 8 = 8 + 0
    OBVIOUS
  <2> QED
    BY <1>1, <1>10, <1>12, <1>17, <1>20, <2>1, AtWithin, Zenon
<1>23. At(y, 10, B)
  <2>1. 8 \in Nat /\ 2 \in Nat /\ 10 = 8 + 2
    OBVIOUS
  <2> QED
    BY <1>1, <1>10, <1>12, <1>17, <1>21, <2>1, AtWithin, Zenon
<1>24. At(y, 14, fields)
  <2>1. 8 \in Nat /\ 6 \in Nat /\ 14 = 8 + 6
    OBVIOUS
  <2> QED
    BY <1>1, <1>10, <1>12, <1>17, <1>19, <2>1, AtWithin, Zenon
<1>25. At(y, 14 + Len(fields), F)
  <2>1. 8 \in Nat /\ 6 + Len(fields) \in Nat
        /\ 14 + Len(fields) = 8 + (6 + Len(fields))
    BY <1>13
  <2> QED
    BY <1>1, <1>10, <1>12, <1>15, <1>17, <2>1, AtWithin, Zenon
<1> QED
  BY <1>10, <1>12, <1>14, <1>15, <1>16, <1>17, <1>22, <1>23, <1>24, <1>25, Zenon

-----------------------------------------------------------------------------
(* Finish: rounding up, padding, the length byte and the checksum.         *)

Rounded(count) == ((6 + count + 1 + 7) \div 8) * 8

LEMMA RoundedIs ==
  ASSUME NEW c \in Nat
  PROVE  /\ Rounded(c) \in Nat /\ Rounded(c) >= c + 7 /\ Rounded(c) <= c + 14
         /\ Rounded(c) = 8 * ((c + 14) \div 8)
         /\ Rounded(c) \div 8 = (c + 14) \div 8
         /\ (c + 14) \div 8 \in Nat /\ Rounded(c) >= 8
<1> DEFINE q == (c + 14) \div 8
<1>1. q \in Nat /\ 8 * q <= c + 14 /\ c + 14 < 8 * q + 8
  OBVIOUS
<1>2. Rounded(c) = q * 8
  BY DEF Rounded
<1> HIDE DEF q
<1>3. (q * 8) \div 8 = q /\ q * 8 = 8 * q
  BY <1>1
<1> QED
  BY <1>1, <1>2, <1>3 DEF q

(* What Finish makes of a header and fields that fit the length byte.      *)
Finished(img, head, fields) ==
  LET n == Rounded(Len(fields))
  IN  /\ img \in Bytes /\ Len(img) = 8 + n
      /\ \A k \in 1 .. 9 : img[k] = head[k]
      /\ img[10] = n \div 8
      /\ \A k \in 11 .. 14 : img[k] = head[k]
      /\ At(img, 14, fields)
      /\ \A k \in 15 + Len(fields) .. 7 + n : img[k] = 0
      /\ img[8 + n] = fru_calculate_checksum(Cut(img, 8, n - 1))

Heads == {head \in Bytes : Len(head) = 14}
Fitting == {fields \in Bytes : Rounded(Len(fields)) <= 2040}

LEMMA CutAt ==
  ASSUME NEW u \in Bytes, NEW s \in Bytes, NEW i \in Nat, At(u, i, s)
  PROVE  Cut(u, i, Len(s)) = s
<1>1. Len(u) \in Nat /\ Len(s) \in Nat /\ i + Len(s) <= Len(u)
  BY BytesAre DEF At
<1>2. /\ Cut(u, i, Len(s)) \in Bytes /\ Len(Cut(u, i, Len(s))) = Len(s)
      /\ At(u, i, Cut(u, i, Len(s)))
  BY <1>1, CutIs, Zenon
<1>3. \A k \in 1 .. Len(s) : u[i + k] = s[k]
  BY DEF At
<1>4. \A k \in 1 .. Len(s) : Cut(u, i, Len(s))[k] = s[k]
  BY <1>2, <1>3 DEF At
<1> QED
  BY <1>2, <1>4, SameBytes, Zenon

LEMMA FinishIs ==
  ASSUME NEW head \in Heads, NEW fields \in Fitting
  PROVE  Finished(Finish(head, fields, Len(fields)), head, fields)
<1>1. PICK c \in Nat : c = Len(fields)
  <2>1. fields \in Bytes
    BY DEF Fitting
  <2>2. Len(fields) \in Nat
    BY <2>1, BytesAre, Zenon
  <2> QED
    BY <2>2
<1>2. PICK n \in Nat : n = Rounded(c)
  BY RoundedIs
<1>3. PICK q \in Nat : q = n \div 8
  BY <1>2, RoundedIs
<1>4. n >= c + 7 /\ n = 8 * q /\ n >= 8
  BY <1>2, <1>3, RoundedIs
<1>5. q <= 255
  <2>1. n <= 2040
    BY <1>1, <1>2 DEF Fitting
  <2> QED
    BY <1>4, <2>1
<1>6. q \in Byte /\ q % 256 = q
  BY <1>5, SmallMod DEF Byte
<1>7. PICK z \in Nat : z = n - 6 - c - 1
  BY <1>4
<1>8. head \in Bytes /\ Len(head) = 14 /\ fields \in Bytes
  BY DEF Heads, Fitting
<1>9. PICK A : A = <<head[9], q>>
  BY Zenon
<1>10. A \in Bytes /\ Len(A) = 2 /\ A[1] = head[9] /\ A[2] = q
  <2>1. 9 \in 1 .. Len(head)
    BY <1>8
  <2>2. head[9] \in Byte
    BY <1>8, <2>1, BytesAre
  <2> QED
    BY <1>6, <1>9, <2>2, TwoBytes, Zenon
<1>11. PICK B : B = Cut(head, 10, 4)
  BY Zenon
<1>12. B \in Bytes /\ Len(B) = 4 /\ At(head, 10, B)
  <2>1. 10 \in Nat /\ 4 \in Nat /\ 10 + 4 <= Len(head)
    BY <1>8
  <2> QED
    BY <1>8, <1>11, <2>1, CutIs, Zenon
<1>13. PICK H : H = Cut(head, 0, 8)
  BY Zenon
<1>14. H \in Bytes /\ Len(H) = 8 /\ At(head, 0, H)
  <2>1. 0 \in Nat /\ 8 \in Nat /\ 0 + 8 <= Len(head)
    BY <1>8
  <2> QED
    BY <1>8, <1>13, <2>1, CutIs, Zenon
<1>15. PICK F : F = Fill(z, 0)
  BY Zenon
<1>16. F \in Bytes /\ Len(F) = z /\ \A k \in 1 .. z : F[k] = 0
  <2>1. 0 \in Byte
    BY DEF Byte
  <2> QED
    BY <1>15, <2>1, Filled, Zenon
<1>17. PICK bia : bia = Glue(Glue(Glue(A, B), fields), F)
  BY Zenon
<1>18. PICK S : S = <<fru_calculate_checksum(SubSeq(bia, 1, n - 1))>>
  BY Zenon
<1>19. PICK y : y = Glue(Glue(H, bia), S)
  BY Zenon
<1>20. Finish(head, fields, Len(fields)) = SubSeq(y, 1, 8 + n)
  <2>1. n = ((6 + Len(fields) + 1 + 7) \div 8) * 8
    BY <1>1, <1>2 DEF Rounded
  <2>2. 10 + 1 = 11 /\ 10 + 4 = 14 /\ 0 + 1 = 1 /\ 0 + 8 = 8
    OBVIOUS
  <2>3. B = SubSeq(head, 11, 14) /\ H = SubSeq(head, 1, 8)
    BY <1>11, <1>13, <2>2 DEF Cut
  <2> DEFINE area == <<head[9], (n \div 8) % 256>> \o SubSeq(head, 11, 14)
                       \o fields \o Fill(n - 6 - Len(fields) - 1, 0)
  <2>4. Finish(head, fields, Len(fields))
          = SubSeq(SubSeq(head, 1, 8) \o area
                     \o <<fru_calculate_checksum(SubSeq(area, 1, n - 1))>>, 1, 8 + n)
    BY <2>1, Zenon DEF Finish
  <2>5. <<head[9], (n \div 8) % 256>> = A
    BY <1>3, <1>6, <1>9
  <2>6. Fill(n - 6 - Len(fields) - 1, 0) = F
    BY <1>1, <1>7, <1>15, Zenon
  <2>7. area = bia
    BY <1>17, <2>3, <2>5, <2>6, Zenon DEF Glue
  <2> HIDE DEF area
  <2> QED
    BY <1>18, <1>19, <2>3, <2>4, <2>7, Zenon DEF Glue
<1>21. bia \in Bytes /\ Len(bia) = n - 1
  <2>1. 0 \in Byte
    BY DEF Byte
  <2>2. PICK S0 : S0 = <<0>>
    BY Zenon
  <2>3. S0 \in Bytes /\ Len(S0) = 1
    BY <2>1, <2>2, OneByte, Zenon
  <2>4. Parts(H, A, B, fields, F, S0, bia, Glue(Glue(H, bia), S0))
    BY <1>8, <1>10, <1>12, <1>14, <1>16, <1>17, <2>3, Zenon DEF Parts
  <2>5. bia \in Bytes /\ Len(bia) = 6 + Len(fields) + Len(F)
    BY <2>4, Assembled
  <2>6. 6 + c + z = n - 1
    BY <1>7
  <2> QED
    BY <1>1, <1>16, <2>5, <2>6, Zenon
<1>22. SubSeq(bia, 1, n - 1) = bia
  <2>1. n - 1 \in Nat
    BY <1>4
  <2> QED
    BY <1>21, <2>1, AllOf, Zenon
<1>23. PICK sum \in Byte : sum = fru_calculate_checksum(bia)
  BY <1>21, ChecksumIsByte DEF Bytes
<1>24. S \in Bytes /\ Len(S) = 1 /\ S[1] = sum
  BY <1>18, <1>22, <1>23, OneByte, Zenon
<1>25. Parts(H, A, B, fields, F, S, bia, y)
  BY <1>8, <1>10, <1>12, <1>14, <1>16, <1>17, <1>19, <1>24, Zenon DEF Parts
<1>26. /\ y \in Bytes /\ Len(y) = 8 + Len(bia) + 1
       /\ At(y, 0, H) /\ At(y, 8, bia) /\ At(y, 8, A) /\ At(y, 10, B)
       /\ At(y, 14, fields) /\ At(y, 14 + Len(fields), F)
       /\ At(y, 8 + Len(bia), S)
  BY <1>25, Assembled
<1>27. Len(y) = 8 + n /\ 8 + n \in Nat /\ 8 + Len(bia) = 7 + n
  BY <1>21, <1>26
<1>28. Finish(head, fields, Len(fields)) = y
  BY <1>20, <1>26, <1>27, AllOf, Zenon
<1>29. \A k \in 1 .. 9 : y[k] = head[k]
  <2>1. ASSUME NEW k \in 1 .. 8 PROVE y[k] = head[k]
    <3>1. y[0 + k] = H[k] /\ head[0 + k] = H[k] /\ 0 + k = k
      BY <1>14, <1>26, SMTT(30) DEF At
    <3> QED
      BY <3>1
  <2>2. y[9] = head[9]
    <3>1. y[8 + 1] = A[1] /\ 8 + 1 = 9
      BY <1>10, <1>26 DEF At
    <3> QED
      BY <1>10, <3>1
  <2>3. \A k \in 1 .. 9 : k \in 1 .. 8 \/ k = 9
    OBVIOUS
  <2> QED
    BY <2>1, <2>2, <2>3
<1>30. y[10] = q
  <2>1. y[8 + 2] = A[2] /\ 8 + 2 = 10
    BY <1>10, <1>26 DEF At
  <2> QED
    BY <1>10, <2>1
<1>31. \A k \in 11 .. 14 : y[k] = head[k]
  <2>1. ASSUME NEW k \in 11 .. 14 PROVE y[k] = head[k]
    <3>1. k - 10 \in 1 .. 4 /\ 10 + (k - 10) = k
      OBVIOUS
    <3>2. y[10 + (k - 10)] = B[k - 10] /\ head[10 + (k - 10)] = B[k - 10]
      BY <1>12, <1>26, <3>1 DEF At
    <3> QED
      BY <3>1, <3>2
  <2> QED
    BY <2>1
<1>32. \A k \in 15 + c .. 7 + n : y[k] = 0
  <2>1. ASSUME NEW k \in 15 + c .. 7 + n PROVE y[k] = 0
    <3>1. k - (14 + c) \in 1 .. z /\ 14 + c + (k - (14 + c)) = k
      BY <1>7
    <3>2. y[14 + c + (k - (14 + c))] = F[k - (14 + c)]
      BY <1>1, <1>16, <1>26, <3>1 DEF At
    <3> QED
      BY <1>16, <3>1, <3>2
  <2> QED
    BY <2>1
<1>33. y[8 + n] = sum
  <2>0. At(y, 7 + n, S)
    BY <1>26, <1>27
  <2>1. y[7 + n + 1] = S[1] /\ 7 + n + 1 = 8 + n
    BY <1>24, <2>0 DEF At
  <2> QED
    BY <1>24, <2>1
<1>34. Cut(y, 8, n - 1) = bia
  <2>1. 8 \in Nat
    OBVIOUS
  <2> QED
    BY <1>21, <1>26, <2>1, CutAt, ZenonT(30)
<1>35. Finished(y, head, fields)
  <2>1. y[8 + n] = fru_calculate_checksum(Cut(y, 8, n - 1))
    BY <1>23, <1>33, <1>34, Zenon
  <2> QED
    BY <1>1, <1>2, <1>3, <1>26, <1>27, <1>29, <1>30, <1>31, <1>32, <2>1,
       Zenon DEF Finished
<1> QED
  BY <1>28, <1>35, Zenon

-----------------------------------------------------------------------------
(* Laid areas: the positions of a walk rise, and end within the area.      *)

LEMMA WalkRises ==
  ASSUME NEW bia \in Bytes, NEW w, IsWalk(bia, 7, w),
         NEW i \in 1 .. Len(w), NEW j \in 1 .. Len(w), i <= j
  PROVE  w[i] \in Nat /\ w[j] \in Nat /\ w[i] >= 7 /\ w[j] >= w[i] + (j - i)
<1>0. w \in Seq(Pos) /\ Len(w) \in Nat /\ w[1] = 7
  BY LenProperties DEF IsWalk
<1>1. \A k \in 1 .. Len(w) : w[k] \in Pos /\ w[k] \in Nat
  BY <1>0, ElementOfSeq DEF Pos
<1>2. ASSUME NEW k \in 1 .. Len(w) - 1 PROVE w[k + 1] > w[k]
  <2>1. w[k] \in Pos /\ ~ Stops(bia, w[k]) /\ w[k + 1] = NextField(bia, w[k])
    BY <1>0, <1>1 DEF IsWalk
  <2> QED
    BY <2>1, NextIs DEF Bytes
<1> DEFINE S == {n \in Nat : \A a \in 1 .. Len(w) :
                   a + n <= Len(w) => w[a + n] >= w[a] + n}
<1>3. 0 \in S
  BY <1>0, <1>1
<1>4. ASSUME NEW n \in S PROVE n + 1 \in S
  <2>1. ASSUME NEW a \in 1 .. Len(w), a + (n + 1) <= Len(w)
        PROVE  w[a + (n + 1)] >= w[a] + (n + 1)
    <3>1. a + n \in 1 .. Len(w) - 1 /\ a + n + 1 = a + (n + 1)
          /\ a + n <= Len(w)
          /\ n \in Nat /\ a + (n + 1) \in 1 .. Len(w) /\ a + n \in 1 .. Len(w)
      BY <1>0, <1>4, <2>1
    <3>2. w[a + n] >= w[a] + n
      BY <1>4, <3>1
    <3>3. w[a + n + 1] > w[a + n]
      BY <1>2, <3>1
    <3>4. w[a] \in Nat /\ w[a + n] \in Nat /\ w[a + (n + 1)] \in Nat
      BY <1>1, <3>1
    <3> QED
      BY <3>1, <3>2, <3>3, <3>4, SMTT(30)
  <2>2. n + 1 \in Nat
    BY <1>4
  <2> QED
    BY <2>1, <2>2
<1> HIDE DEF S
<1>5. \A n \in Nat : n \in S
  <2>1. S \in SUBSET Nat
    BY DEF S
  <2> QED
    BY <1>3, <1>4, <2>1, Induct
<1>6. ASSUME NEW a \in 1 .. Len(w), NEW b \in 1 .. Len(w), a <= b
      PROVE  w[b] >= w[a] + (b - a)
  <2>1. b - a \in Nat /\ a + (b - a) = b /\ b <= Len(w)
    BY <1>0, <1>6
  <2>2. b - a \in S
    BY <1>5, <2>1
  <2> QED
    BY <2>1, <2>2 DEF S
<1>7. w[i] >= 7
  <2>1. 1 \in 1 .. Len(w) /\ 1 <= i /\ i - 1 >= 0
    BY <1>0
  <2>2. w[i] >= w[1] + (i - 1)
    BY <1>6, <2>1
  <2> QED
    BY <1>0, <1>1, <2>1, <2>2
<1> QED
  BY <1>1, <1>6, <1>7

(* The area's fields start at w, the area goes on behind the end marker.   *)
Laid(bia, w) ==
  /\ bia \in Bytes /\ IsWalk(bia, 7, w) /\ Len(w) >= 6 /\ bia[w[5]] = 0
  /\ w[Len(w)] < Len(bia)

Last(w) == w[Len(w)]

LEMMA LaidIs ==
  ASSUME NEW bia, NEW w, Laid(bia, w)
  PROVE  /\ bia \in Bytes /\ Len(bia) \in Nat /\ Len(w) \in Nat /\ Len(w) >= 6
         /\ Last(w) \in Nat /\ Last(w) < Len(bia)
         /\ bia[Last(w)] = FRU_END_MARKER
         /\ w[1] = 7 /\ w[6] = w[5] + 1
         /\ \A k \in 1 .. Len(w) : w[k] \in Nat /\ w[k] >= 7 /\ w[k] <= Last(w)
         /\ \A k \in 1 .. Len(w) - 1 :
              /\ w[k] < Last(w) /\ bia[w[k]] # FRU_END_MARKER
              /\ w[k + 1] = w[k] + 1 + fru_tl_get_length(bia[w[k]])
<1>1. bia \in Bytes /\ IsWalk(bia, 7, w) /\ Len(w) >= 6 /\ Last(w) < Len(bia)
  BY DEF Laid, Last
<1>2. Len(bia) \in Nat /\ Len(w) \in Nat /\ w[1] = 7
  BY <1>1, BytesAre, LenProperties DEF IsWalk
<1>3. ASSUME NEW k \in 1 .. Len(w)
      PROVE  /\ w[k] \in Nat /\ w[k] >= 7 /\ Last(w) \in Nat
             /\ Last(w) >= w[k] + (Len(w) - k)
  <2>1. Len(w) \in 1 .. Len(w) /\ k <= Len(w)
    BY <1>1, <1>2
  <2> QED
    BY <1>1, <2>1, WalkRises DEF Last
<1>4. Last(w) \in Nat
  <2>1. 1 \in 1 .. Len(w)
    BY <1>1, <1>2
  <2> QED
    BY <1>3, <2>1
<1>5. bia[Last(w)] = FRU_END_MARKER
  BY <1>1, <1>2, <1>4 DEF IsWalk, Stops, Last
<1>6. ASSUME NEW k \in 1 .. Len(w) - 1
      PROVE  /\ w[k] < Last(w) /\ bia[w[k]] # FRU_END_MARKER
             /\ w[k + 1] = w[k] + 1 + fru_tl_get_length(bia[w[k]])
  <2>1. k \in 1 .. Len(w) /\ Len(w) - k >= 1
    BY <1>2
  <2>2. w[k] < Last(w)
    BY <1>2, <1>3, <1>4, <2>1
  <2> QED
    BY <1>1, <2>2 DEF IsWalk, Stops, NextField
<1>7. ASSUME NEW k \in 1 .. Len(w)
      PROVE  w[k] \in Nat /\ w[k] >= 7 /\ w[k] <= Last(w)
  BY <1>2, <1>3
<1>8. w[6] = w[5] + 1
  <2>1. 5 \in 1 .. Len(w) - 1 /\ 5 \in 1 .. Len(w) /\ 5 + 1 = 6
    BY <1>1, <1>2
  <2>2. bia[w[5]] = 0
    BY DEF Laid
  <2>3. fru_tl_get_length(0) = 0
    BY DEF fru_tl_get_length, FRU_END_MARKER
  <2>4. w[5] \in Nat /\ w[5 + 1] = w[5] + 1 + fru_tl_get_length(bia[w[5]])
    BY <1>6, <1>7, <2>1
  <2> QED
    BY <2>1, <2>2, <2>3, <2>4
<1> QED
  BY <1>1, <1>2, <1>4, <1>5, <1>6, <1>7, <1>8

LEMMA LaidBy ==
  ASSUME NEW bia \in Bytes, NEW w \in Seq(Pos), Len(w) >= 6, w[1] = 7,
         bia[w[5]] = 0, bia[Last(w)] = FRU_END_MARKER, Last(w) < Len(bia),
         \A k \in 1 .. Len(w) - 1 :
           /\ bia[w[k]] # FRU_END_MARKER /\ w[k] <= Len(bia)
           /\ w[k + 1] = w[k] + 1 + fru_tl_get_length(bia[w[k]])
  PROVE  Laid(bia, w)
<1>0. Len(w) \in Nat /\ Len(bia) \in Nat
  BY LenProperties, BytesAre
<1>1. ASSUME NEW k \in 1 .. Len(w) - 1
      PROVE  ~ Stops(bia, w[k]) /\ w[k + 1] = NextField(bia, w[k])
  <2>1. w[k] \in Nat
    <3>1. k \in 1 .. Len(w)
      BY <1>0
    <3> QED
      BY <3>1, ElementOfSeq DEF Pos
  <2> QED
    BY <1>0, <2>1 DEF Stops, NextField
<1>2. Stops(bia, w[Len(w)])
  BY DEF Stops, Last
<1>3. IsWalk(bia, 7, w)
  BY <1>0, <1>1, <1>2 DEF IsWalk
<1> QED
  BY <1>3 DEF Laid, Last

LEMMA LaidWalk ==
  ASSUME NEW bia, NEW w, Laid(bia, w)
  PROVE  Walk(bia) = w /\ EndOf(bia) = Last(w)
<1>1. bia \in Seq(Byte) /\ IsWalk(bia, 7, w)
  BY DEF Laid, Bytes
<1>2. Walk(bia) = w
  <2>1. IsWalk(bia, 7, Walk(bia))
    BY <1>1, WalkIs
  <2> QED
    BY <1>1, <2>1, WalkUnique, Zenon
<1> QED
  BY <1>2 DEF EndOf, Last

(* A valid image is laid.                                                  *)
LEMMA ValidIsLaid ==
  ASSUME NEW img, ivfru_validate(img)
  PROVE  Laid(Area(img), Walk(Area(img)))
<1> DEFINE a == Area(img)
<1>1. img \in Bytes /\ Len(img) >= 14 /\ Len(img) >= 8 + AreaLen(img)
  BY DEF ivfru_validate, Complete, Bytes
<1>2. /\ Len(a) >= 6 /\ Len(Walk(a)) >= 6 /\ a[Walk(a)[5]] = 0
      /\ EndOf(a) < Len(a)
  BY DEF ivfru_validate, ivfru_bia_validate
<1>3. a \in Bytes
  <2>1. Len(img) \in Nat /\ img[10] \in Byte
    <3>1. Len(img) \in Nat /\ 10 \in 1 .. Len(img)
      BY <1>1, BytesAre
    <3> QED
      BY <1>1, <3>1, BytesAre
  <2>2. AreaLen(img) \in Nat
    BY <2>1, ByteIsNat DEF AreaLen
  <2>3. 8 \in Nat /\ 8 + AreaLen(img) <= Len(img) /\ 8 + 1 = 9
    BY <1>1, <2>1, <2>2
  <2>4. Cut(img, 8, AreaLen(img)) \in Bytes
    BY <1>1, <2>2, <2>3, CutIs, Zenon
  <2> QED
    BY <2>3, <2>4 DEF Cut, Area
<1>4. IsWalk(a, 7, Walk(a))
  BY <1>3, WalkIs DEF Bytes
<1> QED
  BY <1>2, <1>3, <1>4 DEF Laid, EndOf

-----------------------------------------------------------------------------
(* A common header that validates and the start of an area of today's      *)
(* format.                                                                 *)

GoodHead(head) ==
  /\ head \in Heads /\ head[1] = 1 /\ head[4] = 1 /\ head[9] = 1
  /\ head[11] = 0
  /\ head[8] = fru_calculate_checksum(Cut(head, 0, 7))

LEMMA CutCut ==
  ASSUME NEW s \in Bytes, NEW i \in Nat, NEW n \in Nat, i + n <= Len(s),
         NEW m \in Nat, m <= n
  PROVE  Cut(Cut(s, i, n), 0, m) = Cut(s, i, m)
<1>0. Len(s) \in Nat /\ 0 \in Nat /\ i + m <= Len(s) /\ 0 + m <= n
  BY BytesAre
<1>1. /\ Cut(s, i, n) \in Bytes /\ Len(Cut(s, i, n)) = n
      /\ At(s, i, Cut(s, i, n))
  BY CutIs, Zenon
<1>2. /\ Cut(s, i, m) \in Bytes /\ Len(Cut(s, i, m)) = m
      /\ At(s, i, Cut(s, i, m))
  BY <1>0, CutIs, Zenon
<1>3. PICK c \in Bytes : c = Cut(s, i, n)
  BY <1>1
<1>4. /\ Cut(c, 0, m) \in Bytes /\ Len(Cut(c, 0, m)) = m
      /\ At(c, 0, Cut(c, 0, m))
  BY <1>0, <1>1, <1>3, CutIs, Zenon
<1>5. \A k \in 1 .. m : Cut(c, 0, m)[k] = Cut(s, i, m)[k]
  <2>1. ASSUME NEW k \in 1 .. m PROVE Cut(c, 0, m)[k] = Cut(s, i, m)[k]
    <3>1. k \in 1 .. n /\ 0 + k = k
      OBVIOUS
    <3>2. c[0 + k] = Cut(c, 0, m)[k]
      BY <1>4, <2>1 DEF At
    <3>3. s[i + k] = c[k]
      BY <1>1, <1>3, <3>1 DEF At
    <3>4. s[i + k] = Cut(s, i, m)[k]
      BY <1>2, <2>1 DEF At
    <3> QED
      BY <3>1, <3>2, <3>3, <3>4
  <2> QED
    BY <2>1
<1> QED
  BY <1>2, <1>3, <1>4, <1>5, SameBytes, Zenon

LEMMA SameCut ==
  ASSUME NEW s \in Bytes, NEW t \in Bytes, NEW i \in Nat, NEW n \in Nat,
         i + n <= Len(s), i + n <= Len(t),
         \A k \in 1 .. n : s[i + k] = t[i + k]
  PROVE  Cut(s, i, n) = Cut(t, i, n)
<1>1. /\ Cut(s, i, n) \in Bytes /\ Len(Cut(s, i, n)) = n
      /\ At(s, i, Cut(s, i, n))
  BY CutIs, Zenon
<1>2. /\ Cut(t, i, n) \in Bytes /\ Len(Cut(t, i, n)) = n
      /\ At(t, i, Cut(t, i, n))
  BY CutIs, Zenon
<1>3. \A k \in 1 .. n : Cut(s, i, n)[k] = Cut(t, i, n)[k]
  BY <1>1, <1>2 DEF At
<1> QED
  BY <1>1, <1>2, <1>3, SameBytes, Zenon

(* What makes an image of today's format valid, byte by byte.              *)
NewImage(img, q, w) ==
  /\ img \in Bytes /\ q \in Nat /\ Len(img) = 8 + 8 * q /\ img[10] = q
  /\ img[1] = 1 /\ img[4] = 1 /\ img[9] = 1 /\ img[11] = 0
  /\ img[8] = fru_calculate_checksum(Cut(img, 0, 7))
  /\ Laid(Cut(img, 8, 8 * q), w)
  /\ \A k \in 9 + Last(w) .. 7 + 8 * q : img[k] = 0
  /\ img[8 + 8 * q] = fru_calculate_checksum(Cut(img, 8, 8 * q - 1))

LEMMA NewImageExact ==
  ASSUME NEW img, NEW q, NEW w, NewImage(img, q, w)
  PROVE  /\ Exact(img) /\ ~ fru_is_old_format(img)
         /\ AreaLen(img) = 8 * q /\ Area(img) = Cut(img, 8, 8 * q)
         /\ Walk(Area(img)) = w /\ EndOf(Area(img)) = Last(w)
<1>1. /\ img \in Bytes /\ q \in Nat /\ Len(img) = 8 + 8 * q /\ img[10] = q
      /\ img[1] = 1 /\ img[4] = 1 /\ img[9] = 1 /\ img[11] = 0
  BY DEF NewImage
<1>2. /\ img[8] = fru_calculate_checksum(Cut(img, 0, 7))
      /\ Laid(Cut(img, 8, 8 * q), w)
      /\ img[8 + 8 * q] = fru_calculate_checksum(Cut(img, 8, 8 * q - 1))
  BY DEF NewImage
<1>3. PICK n \in Nat : n = 8 * q
  BY <1>1
<1>4. PICK a : a = Cut(img, 8, n)
  BY Zenon
<1>5. a \in Bytes /\ Len(a) = n /\ At(img, 8, a)
  <2>1. 8 \in Nat /\ 8 + n <= Len(img)
    BY <1>1, <1>3
  <2> QED
    BY <1>1, <1>4, <2>1, CutIs, Zenon
<1>6. Laid(a, w)
  BY <1>2, <1>3, <1>4
<1>7. Walk(a) = w /\ EndOf(a) = Last(w)
  BY <1>6, LaidWalk
<1>8. /\ Len(w) \in Nat /\ Len(w) >= 6 /\ Last(w) \in Nat /\ Last(w) < n
      /\ Last(w) >= 7 /\ a[w[5]] = 0
  <2>1. /\ Len(w) \in Nat /\ Len(w) >= 6 /\ Last(w) \in Nat /\ Last(w) < Len(a)
        /\ \A k \in 1 .. Len(w) : w[k] \in Nat /\ w[k] >= 7 /\ w[k] <= Last(w)
    BY <1>6, LaidIs
  <2>2. 1 \in 1 .. Len(w)
    BY <2>1
  <2>3. w[1] \in Nat /\ w[1] >= 7 /\ w[1] <= Last(w)
    BY <2>1, <2>2
  <2>4. a[w[5]] = 0
    BY <1>6 DEF Laid
  <2> QED
    BY <1>5, <2>1, <2>3, <2>4
<1>9. n >= 8 /\ q >= 1
  BY <1>1, <1>3, <1>8
<1>10. ~ fru_is_old_format(img)
  <2>1. PICK h : h = Cut(img, 0, 8)
    BY Zenon
  <2>2. 0 \in Nat /\ 8 \in Nat /\ 0 + 8 <= Len(img) /\ 0 + 1 = 1 /\ 0 + 8 = 8
    BY <1>1, <1>9
  <2>3. Len(h) = 8 /\ At(img, 0, h)
    BY <1>1, <2>1, <2>2, CutIs, Zenon
  <2>4. 4 \in 1 .. Len(h) /\ 0 + 4 = 4
    BY <2>3
  <2>5. h[4] = 1
    BY <1>1, <2>3, <2>4 DEF At
  <2>6. CH_OLD[4] = 8
    BY DEF CH_OLD
  <2>7. h = SubSeq(img, 1, 8)
    BY <2>1, <2>2 DEF Cut
  <2> QED
    BY <2>5, <2>6, <2>7 DEF fru_is_old_format
<1>11. AreaLen(img) = n
  BY <1>1, <1>3, <1>10 DEF AreaLen
<1>12. Area(img) = a
  <2>1. 8 + 1 = 9
    OBVIOUS
  <2> QED
    BY <1>4, <1>11, <2>1 DEF Area, Cut
<1>13. Complete(img)
  BY <1>1, <1>3, <1>9, <1>11 DEF Complete, Bytes
<1>14. SubSeq(img, 1, 7) = Cut(img, 0, 7)
  BY DEF Cut
<1>15. a[1] = 1 /\ a[3] = 0
  <2>1. 1 \in 1 .. Len(a) /\ 3 \in 1 .. Len(a) /\ 8 + 1 = 9 /\ 8 + 3 = 11
    BY <1>5, <1>9
  <2>2. img[8 + 1] = a[1] /\ img[8 + 3] = a[3]
    BY <1>5, <2>1 DEF At
  <2> QED
    BY <1>1, <2>1, <2>2
<1>16. ASSUME NEW k \in Last(w) + 1 .. n - 1 PROVE a[k] = 0
  <2>1. k \in 1 .. Len(a) /\ 8 + k \in 9 + Last(w) .. 7 + n
    BY <1>5, <1>8
  <2>2. img[8 + k] = a[k]
    BY <1>5, <2>1 DEF At
  <2>3. img[8 + k] = 0
    BY <1>3, <2>1 DEF NewImage
  <2> QED
    BY <2>2, <2>3
<1>17. a[n] = fru_calculate_checksum(SubSeq(a, 1, n - 1))
  <2>1. n \in 1 .. Len(a) /\ n - 1 \in Nat /\ n - 1 <= n /\ 8 \in Nat
        /\ 8 + n <= Len(img)
        /\ 0 + 1 = 1 /\ 0 + (n - 1) = n - 1
    BY <1>1, <1>3, <1>5, <1>9
  <2>2. img[8 + n] = a[n]
    BY <1>5, <2>1 DEF At
  <2>3. Cut(a, 0, n - 1) = Cut(img, 8, n - 1)
    <3>1. PICK l \in Nat : l = n - 1
      BY <2>1
    <3>2. img \in Bytes /\ l <= n
      BY <1>1, <2>1, <3>1
    <3>3. Cut(Cut(img, 8, n), 0, l) = Cut(img, 8, l)
      BY <2>1, <3>2, CutCut, ZenonT(30)
    <3> QED
      BY <1>4, <3>1, <3>3
  <2>4. Cut(a, 0, n - 1) = SubSeq(a, 1, n - 1)
    BY <2>1 DEF Cut
  <2> QED
    BY <1>2, <1>3, <2>2, <2>3, <2>4
<1>18. ivfru_bia_validate(a)
  <2>1. Len(a) >= 6
    BY <1>5, <1>9
  <2>2. Last(w) < Len(a)
    BY <1>5, <1>8
  <2>3. \A k \in Last(w) + 1 .. Len(a) - 1 : a[k] = 0
    BY <1>5, <1>16
  <2>4. a[Len(a)] = fru_calculate_checksum(SubSeq(a, 1, Len(a) - 1))
    BY <1>5, <1>17
  <2> QED
    BY <1>7, <1>8, <1>15, <2>1, <2>2, <2>3, <2>4 DEF ivfru_bia_validate
<1>19. ivfru_validate(img)
  BY <1>1, <1>2, <1>12, <1>13, <1>14, <1>18, Zenon DEF ivfru_validate
<1>20. Exact(img)
  BY <1>1, <1>3, <1>10, <1>11, <1>19 DEF Exact
<1> QED
  BY <1>3, <1>4, <1>7, <1>10, <1>11, <1>12, <1>20

LEMMA FinishedNew ==
  ASSUME NEW img, NEW head, NEW fields \in Bytes, NEW w, NEW q,
         GoodHead(head), Finished(img, head, fields),
         8 * q = Rounded(Len(fields)), q \in Nat,
         Laid(Cut(img, 8, 8 * q), w), Last(w) = 6 + Len(fields)
  PROVE  NewImage(img, q, w)
<1>1. PICK n \in Nat : n = 8 * q
  OBVIOUS
<1>2. /\ img \in Bytes /\ Len(img) = 8 + n /\ \A k \in 1 .. 9 : img[k] = head[k]
      /\ img[10] = n \div 8 /\ \A k \in 11 .. 14 : img[k] = head[k]
      /\ img[8 + n] = fru_calculate_checksum(Cut(img, 8, n - 1))
  BY <1>1 DEF Finished
<1>3. \A k \in 15 + Len(fields) .. 7 + n : img[k] = 0
  BY <1>1 DEF Finished
<1>4. Len(fields) \in Nat /\ 15 + Len(fields) = 9 + Last(w)
  <2>1. Len(fields) \in Nat
    BY BytesAre
  <2> QED
    BY <2>1
<1>5. n >= 8
  BY <1>1, <1>4, RoundedIs
<1>6. head \in Bytes /\ Len(head) = 14
  BY DEF GoodHead, Heads
<1>7. /\ img[1] = 1 /\ img[4] = 1 /\ img[9] = 1 /\ img[11] = 0
      /\ img[8] = head[8]
  <2>1. /\ 1 \in 1 .. 9 /\ 4 \in 1 .. 9 /\ 8 \in 1 .. 9 /\ 9 \in 1 .. 9
        /\ 11 \in 11 .. 14
    OBVIOUS
  <2>2. img[1] = head[1] /\ img[4] = head[4] /\ img[8] = head[8]
        /\ img[9] = head[9] /\ img[11] = head[11]
    BY <1>2, <2>1
  <2> QED
    BY <2>2 DEF GoodHead
<1>8. Cut(img, 0, 7) = Cut(head, 0, 7)
  <2>1. 0 \in Nat /\ 7 \in Nat /\ 0 + 7 <= Len(img) /\ 0 + 7 <= Len(head)
    BY <1>1, <1>2, <1>6
  <2>2. \A k \in 1 .. 7 : img[0 + k] = head[0 + k]
    BY <1>2, SMTT(30)
  <2> QED
    BY <1>2, <1>6, <2>1, <2>2, SameCut, Zenon
<1>9. img[8] = fru_calculate_checksum(Cut(img, 0, 7))
  BY <1>7, <1>8 DEF GoodHead
<1>10. n \div 8 = q
  BY <1>1
<1> QED
  BY <1>1, <1>2, <1>3, <1>4, <1>7, <1>9, <1>10 DEF NewImage

-----------------------------------------------------------------------------
(* What a laid area tells: its fields, and one more when it is put in.     *)

Customs == Seq(Bytes)

Tells(bia, w, lens, c) ==
  /\ lens = [k \in 1 .. 4 |-> fru_tl_get_length(bia[w[k]])]
  /\ c \in Customs /\ Len(c) = Len(w) - 6
  /\ \A j \in 1 .. Len(c) :
       w[j + 6] = w[j + 5] + 1 + Len(c[j]) /\ At(bia, w[j + 5], c[j])

LEMMA CustomsAre ==
  ASSUME NEW c \in Customs
  PROVE  Len(c) \in Nat /\ \A j \in 1 .. Len(c) : c[j] \in Bytes /\ Len(c[j]) \in Nat
<1>1. Len(c) \in Nat /\ \A j \in 1 .. Len(c) : c[j] \in Bytes
  BY LenProperties, ElementOfSeq DEF Customs
<1> QED
  BY <1>1, BytesAre

LEMMA FieldOf ==
  ASSUME NEW bia, NEW w, Laid(bia, w), NEW j \in 1 .. Len(w) - 6
  PROVE  /\ w[j + 5] \in Nat /\ w[j + 6] \in Nat /\ w[j + 6] > w[j + 5]
         /\ w[j + 6] < Len(bia)
         /\ SubSeq(bia, w[j + 5] + 1, w[j + 6] - 1)
              = Cut(bia, w[j + 5], w[j + 6] - w[j + 5] - 1)
<1>1. /\ bia \in Bytes /\ Len(bia) \in Nat /\ Len(w) \in Nat /\ Len(w) >= 6
      /\ Last(w) \in Nat /\ Last(w) < Len(bia)
      /\ \A k \in 1 .. Len(w) : w[k] \in Nat /\ w[k] >= 7 /\ w[k] <= Last(w)
  BY LaidIs
<1>2. IsWalk(bia, 7, w)
  BY DEF Laid
<1>3. j + 5 \in 1 .. Len(w) /\ j + 6 \in 1 .. Len(w) /\ j + 5 <= j + 6
      /\ (j + 6) - (j + 5) = 1
  BY <1>1
<1>4. w[j + 6] >= w[j + 5] + ((j + 6) - (j + 5))
  BY <1>1, <1>2, <1>3, WalkRises
<1>5. w[j + 5] \in Nat /\ w[j + 6] \in Nat /\ w[j + 6] <= Last(w)
  BY <1>1, <1>3
<1>6. w[j + 5] + (w[j + 6] - w[j + 5] - 1) = w[j + 6] - 1
  BY <1>5
<1>7. SubSeq(bia, w[j + 5] + 1, w[j + 6] - 1)
        = Cut(bia, w[j + 5], w[j + 6] - w[j + 5] - 1)
  BY <1>6, Zenon DEF Cut
<1>8. w[j + 6] > w[j + 5] /\ w[j + 6] < Len(bia)
  BY <1>1, <1>3, <1>4, <1>5
<1> QED
  BY <1>5, <1>7, <1>8

LEMMA SaysTells ==
  ASSUME NEW img, NEW m, Laid(Area(img), Walk(Area(img))), Says(img, m)
  PROVE  Tells(Area(img), Walk(Area(img)), m.lens, m.custom)
<1>1. PICK bia : bia = Area(img)
  BY Zenon
<1>2. PICK w : w = Walk(bia)
  BY Zenon
<1>3. Laid(bia, w)
  BY <1>1, <1>2
<1>4. PICK c : c = m.custom
  BY Zenon
<1>5. /\ m.lens = [k \in 1 .. 4 |-> fru_tl_get_length(bia[w[k]])]
      /\ c = [j \in 1 .. Len(w) - 6 |-> SubSeq(bia, w[j + 5] + 1, w[j + 6] - 1)]
  BY <1>1, <1>2, <1>4 DEF Says
<1>6. Len(w) \in Nat /\ Len(w) >= 6 /\ bia \in Bytes /\ Len(bia) \in Nat
  BY <1>3, LaidIs
<1>7. ASSUME NEW j \in 1 .. Len(w) - 6
      PROVE  /\ c[j] \in Bytes /\ w[j + 6] = w[j + 5] + 1 + Len(c[j])
             /\ At(bia, w[j + 5], c[j])
  <2>1. /\ w[j + 5] \in Nat /\ w[j + 6] \in Nat /\ w[j + 6] > w[j + 5]
        /\ w[j + 6] < Len(bia)
        /\ c[j] = Cut(bia, w[j + 5], w[j + 6] - w[j + 5] - 1)
    BY <1>3, <1>5, FieldOf
  <2>2. PICK p \in Nat : p = w[j + 5]
    BY <2>1
  <2>3. PICK n \in Nat : n = w[j + 6] - w[j + 5] - 1
    BY <2>1
  <2>4. p + n <= Len(bia)
    BY <1>6, <2>1, <2>2, <2>3
  <2>5. c[j] = Cut(bia, p, n)
    BY <2>1, <2>2, <2>3
  <2>6. c[j] \in Bytes /\ Len(c[j]) = n /\ At(bia, p, c[j])
    <3>1. bia \in Bytes
      BY <1>6
    <3>2. /\ Cut(bia, p, n) \in Bytes /\ Len(Cut(bia, p, n)) = n
          /\ At(bia, p, Cut(bia, p, n))
      BY <2>4, <3>1, CutIs, Zenon
    <3> QED
      BY <2>5, <3>2
  <2>7. w[j + 6] = p + 1 + n
    BY <2>1, <2>2, <2>3, SMTT(30)
  <2> QED
    BY <2>2, <2>6, <2>7
<1>8. c \in Customs /\ Len(c) = Len(w) - 6
  <2>1. Len(w) - 6 \in Nat
    BY <1>6
  <2>2. c \in [1 .. Len(w) - 6 -> Bytes]
    BY <1>5, <1>7
  <2> QED
    BY <2>1, <2>2 DEF Customs
<1>9. Tells(bia, w, m.lens, c)
  BY <1>5, <1>7, <1>8 DEF Tells
<1> QED
  BY <1>1, <1>2, <1>4, <1>9

LEMMA TellsSays ==
  ASSUME NEW img, NEW m, NEW w, Laid(Area(img), w),
         Tells(Area(img), w, m.lens, m.custom),
         minutes(m.date) \in 1 .. IpmiTimes - 1 =>
           ipmi_time_to_date(SubSeq(Area(img), 4, 6)) = m.date
  PROVE  Says(img, m)
<1>1. PICK bia : bia = Area(img)
  BY Zenon
<1>2. w = Walk(bia) /\ Laid(bia, w)
  BY <1>1, LaidWalk
<1>3. PICK c : c = m.custom
  BY Zenon
<1>4. /\ m.lens = [k \in 1 .. 4 |-> fru_tl_get_length(bia[w[k]])]
      /\ c \in Customs /\ Len(c) = Len(w) - 6
      /\ \A j \in 1 .. Len(c) :
           w[j + 6] = w[j + 5] + 1 + Len(c[j]) /\ At(bia, w[j + 5], c[j])
  BY <1>1, <1>3 DEF Tells
<1>5. bia \in Bytes /\ Len(w) \in Nat /\ Len(w) >= 6
  BY <1>2, LaidIs
<1>6. ASSUME NEW j \in 1 .. Len(w) - 6
      PROVE  c[j] = SubSeq(bia, w[j + 5] + 1, w[j + 6] - 1)
  <2>1. /\ w[j + 5] \in Nat /\ w[j + 6] \in Nat
        /\ SubSeq(bia, w[j + 5] + 1, w[j + 6] - 1)
             = Cut(bia, w[j + 5], w[j + 6] - w[j + 5] - 1)
    BY <1>2, FieldOf
  <2>2. c[j] \in Bytes /\ Len(c[j]) \in Nat
    BY <1>4, CustomsAre
  <2>3. w[j + 6] = w[j + 5] + 1 + Len(c[j]) /\ At(bia, w[j + 5], c[j])
    BY <1>4
  <2>4. w[j + 6] - w[j + 5] - 1 = Len(c[j])
    BY <2>1, <2>2, <2>3
  <2>5. Cut(bia, w[j + 5], Len(c[j])) = c[j]
    BY <1>5, <2>1, <2>2, <2>3, CutAt, Zenon
  <2> QED
    BY <2>1, <2>4, <2>5
<1>7. c = [j \in 1 .. Len(w) - 6 |-> SubSeq(bia, w[j + 5] + 1, w[j + 6] - 1)]
  <2>1. c \in [1 .. Len(c) -> Bytes]
    BY <1>4 DEF Customs
  <2> QED
    BY <1>4, <1>6, <2>1
<1> QED
  BY <1>1, <1>2, <1>3, <1>4, <1>7, Zenon DEF Says

-----------------------------------------------------------------------------
(* A field of length L is put in at p, what follows moves up.              *)
Inserted(bia, new, p, data, e) ==
  /\ new \in Bytes /\ Len(new) > e + 1 + Len(data)
  /\ \A k \in 7 .. p - 1 : new[k] = bia[k]
  /\ new[p] = 192 + Len(data) /\ At(new, p, data)
  /\ \A k \in p .. e : new[k + 1 + Len(data)] = bia[k]

Wider(w, i, l) ==
  [k \in 1 .. Len(w) + 1 |-> IF k <= i THEN w[k] ELSE w[k - 1] + 1 + l]

FieldData == {d \in Bytes : Len(d) <= 63 /\ Len(d) # 1}

LEMMA DataIs ==
  ASSUME NEW data \in FieldData
  PROVE  /\ data \in Bytes /\ Len(data) \in Nat
         /\ 192 + Len(data) \in Byte /\ 192 + Len(data) # FRU_END_MARKER
         /\ fru_tl_get_length(192 + Len(data)) = Len(data)
<1>1. data \in Bytes /\ Len(data) <= 63 /\ Len(data) # 1
  BY DEF FieldData
<1>2. Len(data) \in Nat
  BY <1>1, BytesAre
<1>3. PICK l \in Nat : l = Len(data)
  BY <1>2
<1>4. l <= 63 /\ l # 1 /\ (192 + l) % 64 = l
  BY <1>1, <1>3
<1>5. 192 + l \in Byte /\ 192 + l # FRU_END_MARKER
      /\ fru_tl_get_length(192 + l) = l
  BY <1>4 DEF Byte, FRU_END_MARKER, fru_tl_get_length
<1> QED
  BY <1>1, <1>2, <1>3, <1>5

LEMMA WiderIs ==
  ASSUME NEW w \in Seq(Pos), NEW i \in 1 .. Len(w), NEW l \in Nat
  PROVE  /\ Wider(w, i, l) \in Seq(Pos) /\ Len(Wider(w, i, l)) = Len(w) + 1
         /\ \A k \in 1 .. Len(w) + 1 :
              Wider(w, i, l)[k] = IF k <= i THEN w[k] ELSE w[k - 1] + 1 + l
<1>1. Len(w) \in Nat /\ \A k \in 1 .. Len(w) : w[k] \in Pos /\ w[k] \in Nat
  BY LenProperties, ElementOfSeq DEF Pos
<1> DEFINE v == Wider(w, i, l)
<1>2. v = [k \in 1 .. Len(w) + 1 |-> IF k <= i THEN w[k] ELSE w[k - 1] + 1 + l]
  BY DEF Wider
<1> HIDE DEF v
<1>3. ASSUME NEW k \in 1 .. Len(w) + 1
      PROVE  (IF k <= i THEN w[k] ELSE w[k - 1] + 1 + l) \in Pos
  <2>1. CASE k <= Len(w)
    <3>1. k \in 1 .. Len(w) /\ (k = 1 \/ k - 1 \in 1 .. Len(w))
      BY <1>1, <2>1
    <3>2. w[k] \in Pos
      BY <1>1, <3>1
    <3>3. CASE ~ (k <= i)
      <4>1. k - 1 \in 1 .. Len(w)
        BY <3>1, <3>3
      <4>2. w[k - 1] \in Nat
        BY <1>1, <4>1
      <4> QED
        BY <3>3, <4>2 DEF Pos
    <3> QED
      BY <3>2, <3>3
  <2>2. CASE ~ (k <= Len(w))
    <3>1. k - 1 \in 1 .. Len(w) /\ ~ (k <= i)
      BY <1>1, <2>2
    <3>2. w[k - 1] \in Nat
      BY <1>1, <3>1
    <3> QED
      BY <3>1, <3>2 DEF Pos
  <2> QED
    BY <2>1, <2>2
<1>4. v \in Seq(Pos) /\ Len(v) = Len(w) + 1
  BY <1>1, <1>2, <1>3
<1> QED
  BY <1>2, <1>4 DEF v

LEMMA InsertLaid ==
  ASSUME NEW bia, NEW w, Laid(bia, w), NEW i \in 6 .. Len(w),
         NEW data \in FieldData, NEW new,
         Inserted(bia, new, w[i], data, Last(w))
  PROVE  /\ Laid(new, Wider(w, i, Len(data)))
         /\ Last(Wider(w, i, Len(data))) = Last(w) + 1 + Len(data)
<1>1. /\ bia \in Bytes /\ Len(bia) \in Nat /\ Len(w) \in Nat /\ Len(w) >= 6
      /\ Last(w) \in Nat /\ bia[Last(w)] = FRU_END_MARKER /\ w[1] = 7
      /\ \A k \in 1 .. Len(w) : w[k] \in Nat /\ w[k] >= 7 /\ w[k] <= Last(w)
      /\ \A k \in 1 .. Len(w) - 1 :
           /\ w[k] < Last(w) /\ bia[w[k]] # FRU_END_MARKER
           /\ w[k + 1] = w[k] + 1 + fru_tl_get_length(bia[w[k]])
  BY LaidIs
<1>2. PICK l \in Nat : l = Len(data)
  BY DataIs
<1>3. 192 + l # FRU_END_MARKER /\ fru_tl_get_length(192 + l) = l
  BY <1>2, DataIs
<1>4. PICK p \in Nat : p = w[i]
  <2>1. i \in 1 .. Len(w)
    BY <1>1
  <2> QED
    BY <1>1, <2>1
<1>5. /\ new \in Bytes /\ Len(new) > Last(w) + 1 + l
      /\ \A k \in 7 .. p - 1 : new[k] = bia[k]
      /\ new[p] = 192 + l
      /\ \A k \in p .. Last(w) : new[k + 1 + l] = bia[k]
  BY <1>2, <1>4 DEF Inserted
<1>6. w \in Seq(Pos) /\ IsWalk(bia, 7, w)
  BY DEF Laid, IsWalk
<1>7. PICK v : v = Wider(w, i, l)
  BY Zenon
<1>8. /\ v \in Seq(Pos) /\ Len(v) = Len(w) + 1
      /\ \A k \in 1 .. Len(w) + 1 : v[k] = IF k <= i THEN w[k] ELSE w[k - 1] + 1 + l
  <2>1. i \in 1 .. Len(w)
    BY <1>1
  <2> QED
    BY <1>6, <1>7, <2>1, WiderIs, Zenon
<1>9. Len(new) \in Nat
  BY <1>5, BytesAre
<1>10. \A k \in 1 .. i - 1 : w[k] < p /\ w[k] \in 7 .. p - 1
  <2>1. ASSUME NEW k \in 1 .. i - 1 PROVE w[k] < p /\ w[k] \in 7 .. p - 1
    <3>1. k \in 1 .. Len(w) /\ i \in 1 .. Len(w) /\ k <= i /\ i - k >= 1
      BY <1>1
    <3>2. w[i] >= w[k] + (i - k)
      BY <1>1, <1>6, <3>1, WalkRises
    <3>3. w[k] \in Nat /\ w[k] >= 7
      BY <1>1, <3>1
    <3> QED
      BY <1>4, <3>1, <3>2, <3>3
  <2> QED
    BY <2>1
<1>11. \A k \in i .. Len(w) : w[k] \in p .. Last(w)
  <2>1. ASSUME NEW k \in i .. Len(w) PROVE w[k] \in p .. Last(w)
    <3>1. k \in 1 .. Len(w) /\ i \in 1 .. Len(w) /\ i <= k /\ k - i >= 0
      BY <1>1
    <3>2. w[k] >= w[i] + (k - i)
      BY <1>1, <1>6, <3>1, WalkRises
    <3>3. w[k] \in Nat /\ w[k] <= Last(w)
      BY <1>1, <3>1
    <3> QED
      BY <1>1, <1>4, <3>1, <3>2, <3>3
  <2> QED
    BY <2>1
<1>12. Last(v) = Last(w) + 1 + l
  <2>1. Len(v) \in 1 .. Len(w) + 1 /\ ~ (Len(v) <= i) /\ Len(v) - 1 = Len(w)
    BY <1>1, <1>8
  <2> QED
    BY <1>8, <2>1 DEF Last
<1>13. new[Last(v)] = FRU_END_MARKER
  <2>1. Len(w) \in i .. Len(w)
    BY <1>1
  <2>2. Last(w) \in p .. Last(w)
    BY <1>11, <2>1 DEF Last
  <2> QED
    BY <1>1, <1>5, <1>12, <2>2
<1>14. v[1] = 7 /\ new[v[5]] = 0
  <2>1. 1 \in 1 .. Len(w) + 1 /\ 1 <= i /\ 5 \in 1 .. Len(w) + 1 /\ 5 <= i
        /\ 5 \in 1 .. i - 1
    BY <1>1
  <2>2. v[1] = w[1] /\ v[5] = w[5]
    BY <1>8, <2>1
  <2>3. new[w[5]] = bia[w[5]]
    BY <1>5, <1>10, <2>1
  <2>4. bia[w[5]] = 0
    BY DEF Laid
  <2> QED
    BY <1>1, <2>2, <2>3, <2>4
<1>15. ASSUME NEW k \in 1 .. Len(v) - 1
       PROVE  /\ new[v[k]] # FRU_END_MARKER /\ v[k] <= Len(new)
              /\ v[k + 1] = v[k] + 1 + fru_tl_get_length(new[v[k]])
  <2>0. k \in 1 .. Len(w) /\ k \in 1 .. Len(w) + 1 /\ k + 1 \in 1 .. Len(w) + 1
    BY <1>1, <1>8
  <2>1. CASE k < i
    <3>1. k \in 1 .. i - 1 /\ k \in 1 .. Len(w) - 1 /\ k <= i /\ k + 1 <= i
      BY <1>1, <2>1
    <3>2. v[k] = w[k] /\ v[k + 1] = w[k + 1]
      BY <1>8, <2>0, <3>1
    <3>3. new[w[k]] = bia[w[k]]
      BY <1>5, <1>10, <3>1
    <3>4. /\ w[k] < Last(w) /\ bia[w[k]] # FRU_END_MARKER /\ w[k] \in Nat
          /\ w[k + 1] = w[k] + 1 + fru_tl_get_length(bia[w[k]])
      BY <1>1, <2>0, <3>1
    <3>5. w[k] <= Len(new)
      BY <1>1, <1>5, <1>9, <3>4, SMTT(30)
    <3> QED
      BY <3>2, <3>3, <3>4, <3>5
  <2>2. CASE k = i
    <3>1. v[k] = p /\ v[k + 1] = p + 1 + l
      <4>1. k <= i /\ ~ (k + 1 <= i) /\ k + 1 - 1 = k
        BY <2>2
      <4> QED
        BY <1>4, <1>8, <2>0, <2>2, <4>1
    <3>2. p <= Last(w)
      BY <1>1, <1>4, <2>0, <2>2
    <3>3. p <= Len(new)
      BY <1>1, <1>5, <1>9, <3>2
    <3> QED
      BY <1>3, <1>5, <3>1, <3>3
  <2>3. CASE k > i
    <3>1. k - 1 \in i .. Len(w) /\ k - 1 \in 1 .. Len(w) - 1
          /\ k - 1 \in 1 .. Len(w)
          /\ ~ (k <= i) /\ ~ (k + 1 <= i) /\ k + 1 - 1 = k /\ k - 1 + 1 = k
      BY <1>1, <2>0, <2>3
    <3>2. v[k] = w[k - 1] + 1 + l /\ v[k + 1] = w[k] + 1 + l
      BY <1>8, <2>0, <3>1
    <3>3. w[k - 1] \in p .. Last(w)
      BY <1>11, <3>1
    <3>4. new[w[k - 1] + 1 + l] = bia[w[k - 1]]
      BY <1>5, <3>3
    <3>5. /\ w[k - 1] < Last(w) /\ bia[w[k - 1]] # FRU_END_MARKER
          /\ w[k - 1] \in Nat
          /\ w[k - 1 + 1] = w[k - 1] + 1 + fru_tl_get_length(bia[w[k - 1]])
      BY <1>1, <3>1
    <3>6. v[k] <= Len(new)
      <4>1. PICK x \in Nat : x = w[k - 1]
        BY <3>5
      <4>2. PICK y \in Nat : y = Last(w)
        BY <1>1
      <4>3. x < y /\ Len(new) > y + 1 + l /\ v[k] = x + 1 + l
        BY <1>5, <3>2, <3>5, <4>1, <4>2
      <4> QED
        BY <1>9, <4>3
    <3>7. fru_tl_get_length(bia[w[k - 1]]) \in Nat
      <4>1. w[k - 1] \in 1 .. Len(bia)
        <5>1. Last(w) < Len(bia)
          BY DEF Laid, Last
        <5> QED
          <6>1. w[k - 1] >= 7 /\ Len(bia) \in Nat /\ Last(w) \in Nat
            BY <1>1, <3>1
          <6> QED
            BY <3>5, <5>1, <6>1
      <4>2. bia[w[k - 1]] \in Byte
        BY <1>1, <4>1, BytesAre
      <4> QED
        <5>1. fru_tl_get_length(bia[w[k - 1]]) \in 0 .. 63
          BY <4>2, TlLength
        <5>2. \A x \in 0 .. 63 : x \in Nat
          OBVIOUS
        <5> QED
          BY <5>1, <5>2, Zenon
    <3>8. v[k + 1] = v[k] + 1 + fru_tl_get_length(bia[w[k - 1]])
      BY <3>1, <3>2, <3>5, <3>7, SMTT(30)
    <3> QED
      BY <3>2, <3>4, <3>5, <3>6, <3>8
  <2> QED
    BY <2>0, <2>1, <2>2, <2>3
<1>16. Last(v) < Len(new) /\ Len(v) >= 6
  BY <1>1, <1>5, <1>8, <1>9, <1>12
<1>17. Laid(new, v)
  BY <1>5, <1>8, <1>13, <1>14, <1>15, <1>16, LaidBy
<1> QED
  BY <1>2, <1>7, <1>12, <1>17

(* A field that is put in is one of those told, at its place.              *)
Spliced(c, i, x) == SubSeq(c, 1, i) \o <<x>> \o SubSeq(c, i + 1, Len(c))

LEMMA SplicedIs ==
  ASSUME NEW c \in Customs, NEW i \in 0 .. Len(c), NEW x \in Bytes
  PROVE  /\ Spliced(c, i, x) \in Customs /\ Len(Spliced(c, i, x)) = Len(c) + 1
         /\ \A k \in 1 .. i : Spliced(c, i, x)[k] = c[k]
         /\ Spliced(c, i, x)[i + 1] = x
         /\ \A k \in i + 2 .. Len(c) + 1 : Spliced(c, i, x)[k] = c[k - 1]
<1>1. PICK B : B = Bytes
  BY Zenon
<1>2. c \in Seq(B) /\ x \in B /\ Len(c) \in Nat
  BY <1>1, CustomsAre DEF Customs
<1>3. PICK s : s = SubSeq(c, 1, i)
  BY Zenon
<1>4. PICK t : t = SubSeq(c, i + 1, Len(c))
  BY Zenon
<1>5. s \in Seq(B) /\ Len(s) = i /\ \A k \in 1 .. i : s[k] = c[k]
  <2>1. 1 \in 1 .. Len(c) + 1 /\ i \in 1 - 1 .. Len(c)
    BY <1>2
  <2> QED
    BY <1>2, <1>3, <2>1, SubSeqProperties
<1>6. /\ t \in Seq(B) /\ Len(t) = Len(c) - i
      /\ \A k \in 1 .. Len(c) - i : t[k] = c[i + k]
  <2>1. i + 1 \in 1 .. Len(c) + 1 /\ Len(c) \in i + 1 - 1 .. Len(c)
    BY <1>2
  <2> QED
    BY <1>2, <1>4, <2>1, SubSeqProperties
<1>7. PICK u : u = s \o <<x>>
  BY Zenon
<1>8. u \in Seq(B) /\ Len(u) = i + 1 /\ u[i + 1] = x /\ \A k \in 1 .. i : u[k] = c[k]
  BY <1>2, <1>5, <1>7
<1>9. PICK v : v = u \o t
  BY Zenon
<1>10. /\ v \in Seq(B) /\ Len(v) = Len(c) + 1
       /\ \A k \in 1 .. i + 1 : v[k] = u[k]
       /\ \A k \in 1 .. Len(c) - i : v[i + 1 + k] = t[k]
  BY <1>2, <1>6, <1>8, <1>9
<1>11. Spliced(c, i, x) = v
  BY <1>3, <1>4, <1>7, <1>9, Zenon DEF Spliced
<1>12. \A k \in 1 .. i : v[k] = c[k]
  BY <1>8, <1>10
<1>13. v[i + 1] = x
  BY <1>8, <1>10
<1>14. \A k \in i + 2 .. Len(c) + 1 : v[k] = c[k - 1]
  <2>1. ASSUME NEW k \in i + 2 .. Len(c) + 1 PROVE v[k] = c[k - 1]
    <3>1. k - i - 1 \in 1 .. Len(c) - i /\ i + 1 + (k - i - 1) = k
          /\ i + (k - i - 1) = k - 1
      BY <1>2
    <3>2. v[i + 1 + (k - i - 1)] = t[k - i - 1]
          /\ t[k - i - 1] = c[i + (k - i - 1)]
      BY <1>6, <1>10, <3>1
    <3> QED
      BY <3>1, <3>2
  <2> QED
    BY <2>1
<1> QED
  BY <1>1, <1>10, <1>11, <1>12, <1>13, <1>14 DEF Customs

LEMMA InsertTells ==
  ASSUME NEW bia, NEW w, Laid(bia, w), NEW i \in 0 .. Len(w) - 6,
         NEW data \in FieldData, NEW new,
         Inserted(bia, new, w[i + 6], data, Last(w)),
         NEW lens, NEW c, Tells(bia, w, lens, c)
  PROVE  Tells(new, Wider(w, i + 6, Len(data)), lens, Spliced(c, i, data))
<1>1. /\ bia \in Bytes /\ Len(bia) \in Nat /\ Len(w) \in Nat /\ Len(w) >= 6
      /\ Last(w) \in Nat
      /\ \A k \in 1 .. Len(w) : w[k] \in Nat /\ w[k] >= 7 /\ w[k] <= Last(w)
  BY LaidIs
<1>2. PICK l \in Nat : l = Len(data)
  BY DataIs
<1>3. i + 6 \in 1 .. Len(w)
  BY <1>1
<1>4. PICK p \in Nat : p = w[i + 6]
  BY <1>1, <1>3
<1>5. /\ new \in Bytes /\ Len(new) > Last(w) + 1 + l
      /\ \A k \in 7 .. p - 1 : new[k] = bia[k]
      /\ At(new, p, data)
      /\ \A k \in p .. Last(w) : new[k + 1 + l] = bia[k]
  BY <1>2, <1>4 DEF Inserted
<1>6. w \in Seq(Pos) /\ IsWalk(bia, 7, w)
  BY DEF Laid, IsWalk
<1>7. PICK v : v = Wider(w, i + 6, l)
  BY Zenon
<1>8. /\ v \in Seq(Pos) /\ Len(v) = Len(w) + 1
      /\ \A k \in 1 .. Len(w) + 1 : v[k] = IF k <= i + 6 THEN w[k] ELSE w[k - 1] + 1 + l
  BY <1>3, <1>6, <1>7, WiderIs, Zenon
<1>9. Len(new) \in Nat
  BY <1>5, BytesAre
<1>10. /\ lens = [k \in 1 .. 4 |-> fru_tl_get_length(bia[w[k]])]
       /\ c \in Customs /\ Len(c) = Len(w) - 6
       /\ \A j \in 1 .. Len(c) :
            w[j + 6] = w[j + 5] + 1 + Len(c[j]) /\ At(bia, w[j + 5], c[j])
  BY DEF Tells
<1>11. i \in 0 .. Len(c) /\ data \in Bytes /\ Len(c) \in Nat
  BY <1>1, <1>10, DataIs
<1>12. PICK d : d = Spliced(c, i, data)
  BY Zenon
<1>13. /\ d \in Customs /\ Len(d) = Len(c) + 1
       /\ \A k \in 1 .. i : d[k] = c[k]
       /\ d[i + 1] = data
       /\ \A k \in i + 2 .. Len(c) + 1 : d[k] = c[k - 1]
  BY <1>10, <1>11, <1>12, SplicedIs, Zenon
<1>14. lens = [k \in 1 .. 4 |-> fru_tl_get_length(new[v[k]])]
  <2>1. ASSUME NEW k \in 1 .. 4 PROVE new[v[k]] = bia[w[k]]
    <3>1. k \in 1 .. Len(w) /\ k \in 1 .. Len(w) + 1 /\ k <= i + 6
          /\ i + 6 - k >= 1
      BY <1>1
    <3>2. v[k] = w[k] /\ w[k] \in Nat /\ w[k] >= 7
      BY <1>1, <1>8, <3>1
    <3>3. w[i + 6] >= w[k] + (i + 6 - k)
      <4>1. bia \in Bytes
        BY <1>1
      <4>2. PICK b \in 1 .. Len(w) : b = i + 6
        BY <1>3
      <4>3. k \in 1 .. Len(w) /\ k <= b
        BY <3>1, <4>2
      <4>4. w[b] >= w[k] + (b - k)
        BY <1>6, <4>1, <4>3, WalkRises
      <4> QED
        BY <4>2, <4>4
    <3>4. w[k] \in 7 .. p - 1
      BY <1>4, <3>1, <3>2, <3>3
    <3> QED
      BY <1>5, <3>2, <3>4
  <2> QED
    BY <1>10, <2>1
<1>14a. Len(w) \in Nat /\ Len(d) = Len(w) - 5
  <2>1. Len(w) \in Nat /\ Len(c) = Len(w) - 6 /\ Len(d) = Len(c) + 1
    BY <1>1, <1>10, <1>13, Zenon
  <2> QED
    BY <2>1
<1>15. ASSUME NEW j \in 1 .. Len(d)
       PROVE  v[j + 6] = v[j + 5] + 1 + Len(d[j]) /\ At(new, v[j + 5], d[j])
  <2>0. /\ j + 6 \in 1 .. Len(w) + 1 /\ j + 5 \in 1 .. Len(w) + 1
        /\ j + 6 - 1 = j + 5 /\ j + 5 - 1 = j - 1 + 5 /\ j - 1 + 6 = j + 5
    BY <1>14a
  <2>1. CASE j <= i
    <3>1. /\ j \in 1 .. i /\ j \in 1 .. Len(c) /\ j + 6 <= i + 6
          /\ j + 5 <= i + 6
          /\ j + 6 \in 1 .. Len(w) /\ j + 5 \in 1 .. Len(w)
      BY <1>1, <1>10, <1>11, <2>1, SMTT(30)
    <3>2. v[j + 6] = w[j + 6] /\ v[j + 5] = w[j + 5] /\ d[j] = c[j]
      BY <1>8, <1>13, <2>0, <3>1
    <3>3. w[j + 6] = w[j + 5] + 1 + Len(c[j]) /\ At(bia, w[j + 5], c[j])
      BY <1>10, <3>1
    <3>4. w[j + 6] <= p
      <4>1. w[i + 6] >= w[j + 6] + (i + 6 - (j + 6))
        BY <1>1, <1>3, <1>6, <3>1, WalkRises
      <4>2. w[j + 6] \in Nat
        BY <1>1, <3>1
      <4> QED
        BY <1>4, <2>1, <4>1, <4>2
    <3>5. PICK a \in Nat : a = w[j + 5]
      BY <1>1, <3>1
    <3>6. PICK n \in Nat : n = Len(c[j])
      BY <1>10, <3>1, CustomsAre
    <3>7. a >= 7 /\ a + 1 + n <= p /\ p <= Last(w)
      BY <1>1, <1>3, <1>4, <3>1, <3>3, <3>4, <3>5, <3>6
    <3>8. a + n <= Len(new)
      BY <1>1, <1>5, <1>9, <3>7
    <3>9. ASSUME NEW k \in 1 .. n PROVE new[a + k] = c[j][k]
      <4>1. a + k \in 7 .. p - 1
        BY <3>7
      <4>2. bia[a + k] = c[j][k]
        BY <3>3, <3>5, <3>6 DEF At
      <4> QED
        BY <1>5, <4>1, <4>2
    <3>10. At(new, a, c[j])
      BY <3>6, <3>8, <3>9 DEF At
    <3> QED
      BY <3>2, <3>3, <3>5, <3>10
  <2>2. CASE j = i + 1
    <3>1. ~ (j + 6 <= i + 6) /\ j + 5 <= i + 6 /\ j + 5 = i + 6
      BY <2>2
    <3>2. v[j + 6] = p + 1 + l /\ v[j + 5] = p
      BY <1>4, <1>8, <2>0, <3>1
    <3>3. d[j] = data
      BY <1>13, <2>2
    <3> QED
      BY <1>2, <1>5, <3>2, <3>3
  <2>3. CASE j > i + 1
    <3>1. /\ j \in i + 2 .. Len(c) + 1 /\ j - 1 \in 1 .. Len(c)
          /\ ~ (j + 6 <= i + 6) /\ ~ (j + 5 <= i + 6)
          /\ j + 5 \in 1 .. Len(w) /\ j - 1 + 5 \in 1 .. Len(w)
          /\ i + 6 <= j - 1 + 5
      <4>1. PICK n \in Nat : n = Len(w)
        BY <1>1
      <4>2. i \in Nat /\ j \in 1 .. n - 6 + 1 /\ Len(c) = n - 6
        BY <1>10, <1>13, <4>1
      <4>3. /\ j \in i + 2 .. n - 6 + 1 /\ j - 1 \in 1 .. n - 6
            /\ ~ (j + 6 <= i + 6) /\ ~ (j + 5 <= i + 6)
            /\ j + 5 \in 1 .. n /\ j - 1 + 5 \in 1 .. n /\ i + 6 <= j - 1 + 5
        BY <2>3, <4>2
      <4> QED
        BY <4>1, <4>2, <4>3
    <3>2. v[j + 6] = w[j + 5] + 1 + l /\ v[j + 5] = w[j - 1 + 5] + 1 + l
          /\ d[j] = c[j - 1]
      <4>1. \A k \in 1 .. Len(w) + 1 :
              v[k] = IF k <= i + 6 THEN w[k] ELSE w[k - 1] + 1 + l
        BY <1>8
      <4>2. PICK x \in 1 .. Len(w) + 1 : x = j + 6
        BY <2>0
      <4>3. PICK y \in 1 .. Len(w) + 1 : y = j + 5
        BY <2>0
      <4>4. v[x] = w[x - 1] + 1 + l
        BY <3>1, <4>1, <4>2
      <4>5. v[y] = w[y - 1] + 1 + l
        BY <3>1, <4>1, <4>3
      <4>6. x - 1 = j + 5 /\ y - 1 = j - 1 + 5
        BY <2>0, <4>2, <4>3
      <4>7. v[j + 6] = w[j + 5] + 1 + l /\ v[j + 5] = w[j - 1 + 5] + 1 + l
        BY <4>2, <4>3, <4>4, <4>5, <4>6, Zenon
      <4>8. j \in i + 2 .. Len(c) + 1
        BY <3>1
      <4>9. d[j] = c[j - 1]
        BY <1>13, <4>8, Zenon
      <4> QED
        BY <4>7, <4>9
    <3>3. w[j - 1 + 6] = w[j - 1 + 5] + 1 + Len(c[j - 1])
          /\ At(bia, w[j - 1 + 5], c[j - 1])
      BY <1>10, <3>1
    <3>4. PICK a \in Nat : a = w[j - 1 + 5]
      BY <1>1, <3>1
    <3>5. PICK n \in Nat : n = Len(c[j - 1])
      BY <1>10, <3>1, CustomsAre
    <3>6. p <= a
      <4>1. w[j - 1 + 5] >= w[i + 6] + (j - 1 + 5 - (i + 6))
        BY <1>1, <1>3, <1>6, <3>1, WalkRises
      <4> QED
        BY <1>4, <3>1, <3>4, <4>1
    <3>7. a + 1 + n <= Last(w)
      <4>1. w[j + 5] <= Last(w)
        BY <1>1, <3>1
      <4> QED
        BY <2>0, <3>3, <3>4, <3>5, <4>1
    <3>8. a + 1 + l + n <= Len(new)
      BY <1>1, <1>5, <1>9, <3>7
    <3>9. ASSUME NEW k \in 1 .. n PROVE new[a + 1 + l + k] = c[j - 1][k]
      <4>1. a + k \in p .. Last(w) /\ a + k + 1 + l = a + 1 + l + k
        BY <1>1, <3>6, <3>7
      <4>2. bia[a + k] = c[j - 1][k]
        BY <3>3, <3>4, <3>5 DEF At
      <4>3. new[a + k + 1 + l] = bia[a + k]
        BY <1>5, <4>1
      <4> QED
        BY <4>1, <4>2, <4>3
    <3>10. At(new, a + 1 + l, c[j - 1])
      BY <3>5, <3>8, <3>9 DEF At
    <3>11. v[j + 6] = a + 1 + l + 1 + n
      <4>1. w[j + 5] = a + 1 + n
        BY <2>0, <3>3, <3>4, <3>5
      <4>2. v[j + 6] = w[j + 5] + 1 + l
        BY <3>2
      <4>3. v[j + 6] = (a + 1 + n) + 1 + l
        BY <4>1, <4>2
      <4> QED
        BY <4>3
    <3> QED
      BY <3>2, <3>4, <3>5, <3>10, <3>11
  <2> QED
    BY <1>11, <2>1, <2>2, <2>3
<1>16. Tells(new, v, lens, d)
  BY <1>8, <1>10, <1>11, <1>13, <1>14, <1>15 DEF Tells
<1> QED
  BY <1>2, <1>7, <1>12, <1>16

-----------------------------------------------------------------------------
(* The field of l bytes at p is taken out, what follows moves down.        *)

Removed(bia, new, p, l, e) ==
  /\ new \in Bytes /\ Len(new) > e - l
  /\ \A k \in 7 .. p - 1 : new[k] = bia[k]
  /\ \A k \in p .. e - l : new[k] = bia[k + l]

Narrower(w, i, l) ==
  [k \in 1 .. Len(w) - 1 |-> IF k < i THEN w[k] ELSE w[k + 1] - l]

NarrowOf(v, w, i, l) ==
  /\ v \in Seq(Pos) /\ Len(v) = Len(w) - 1
  /\ \A k \in 1 .. Len(w) - 1 : v[k] = IF k < i THEN w[k] ELSE w[k + 1] - l

LEMMA NarrowerIs ==
  ASSUME NEW w \in Seq(Pos), NEW i \in 1 .. Len(w) - 1, NEW l \in Nat,
         \A k \in i .. Len(w) - 1 : w[k + 1] > l
  PROVE  /\ Narrower(w, i, l) \in Seq(Pos)
         /\ Len(Narrower(w, i, l)) = Len(w) - 1
         /\ \A k \in 1 .. Len(w) - 1 :
              Narrower(w, i, l)[k] = IF k < i THEN w[k] ELSE w[k + 1] - l
<1>1. Len(w) \in Nat /\ \A k \in 1 .. Len(w) : w[k] \in Pos /\ w[k] \in Nat
  BY LenProperties, ElementOfSeq DEF Pos
<1> DEFINE v == Narrower(w, i, l)
<1>2. v = [k \in 1 .. Len(w) - 1 |-> IF k < i THEN w[k] ELSE w[k + 1] - l]
  BY DEF Narrower
<1> HIDE DEF v
<1>3. ASSUME NEW k \in 1 .. Len(w) - 1
      PROVE  (IF k < i THEN w[k] ELSE w[k + 1] - l) \in Pos
  <2>1. k \in 1 .. Len(w) /\ k + 1 \in 1 .. Len(w)
    BY <1>1
  <2>2. w[k] \in Pos /\ w[k + 1] \in Nat
    BY <1>1, <2>1
  <2>3. CASE ~ (k < i)
    <3>1. k \in i .. Len(w) - 1
      BY <1>1, <2>3
    <3>2. w[k + 1] > l
      BY <3>1
    <3> QED
      BY <2>2, <2>3, <3>2 DEF Pos
  <2> QED
    BY <2>2, <2>3
<1>4. v \in Seq(Pos) /\ Len(v) = Len(w) - 1
  <2>1. Len(w) - 1 \in Nat
    BY <1>1
  <2> QED
    BY <1>2, <1>3, <2>1
<1> QED
  BY <1>2, <1>4 DEF v

(* What both lemmas on removal need of the walk.                           *)
LEMMA WalkSpread ==
  ASSUME NEW bia, NEW w, Laid(bia, w), NEW i \in 1 .. Len(w)
  PROVE  /\ \A k \in 1 .. i - 1 : w[k] \in Nat /\ w[k] >= 7 /\ w[k] < w[i]
         /\ \A k \in i .. Len(w) : w[k] \in Nat /\ w[k] >= w[i] /\ w[k] <= Last(w)
<1>1. /\ bia \in Bytes /\ Len(w) \in Nat
      /\ \A k \in 1 .. Len(w) : w[k] \in Nat /\ w[k] >= 7 /\ w[k] <= Last(w)
  BY LaidIs
<1>2. IsWalk(bia, 7, w)
  BY DEF Laid
<1>3. ASSUME NEW k \in 1 .. i - 1 PROVE w[k] \in Nat /\ w[k] >= 7 /\ w[k] < w[i]
  <2>1. k \in 1 .. Len(w) /\ k <= i /\ i - k >= 1
    BY <1>1
  <2>2. w[i] >= w[k] + (i - k) /\ w[i] \in Nat
    BY <1>1, <1>2, <2>1, WalkRises
  <2>3. w[k] \in Nat /\ w[k] >= 7
    BY <1>1, <2>1
  <2> QED
    BY <2>1, <2>2, <2>3
<1>4. ASSUME NEW k \in i .. Len(w) PROVE w[k] \in Nat /\ w[k] >= w[i] /\ w[k] <= Last(w)
  <2>1. k \in 1 .. Len(w) /\ i <= k /\ k - i >= 0
    BY <1>1
  <2>2. w[k] >= w[i] + (k - i) /\ w[i] \in Nat
    BY <1>1, <1>2, <2>1, WalkRises
  <2>3. w[k] \in Nat /\ w[k] <= Last(w)
    BY <1>1, <2>1
  <2> QED
    BY <2>1, <2>2, <2>3
<1> QED
  BY <1>3, <1>4

LEMMA RemoveLaid ==
  ASSUME NEW bia, NEW w, Laid(bia, w), NEW i \in 6 .. Len(w) - 1, NEW l \in Nat,
         w[i + 1] = w[i] + l, NEW new, Removed(bia, new, w[i], l, Last(w))
  PROVE  /\ Laid(new, Narrower(w, i, l))
         /\ Last(Narrower(w, i, l)) = Last(w) - l
         /\ NarrowOf(Narrower(w, i, l), w, i, l)
<1>1. /\ bia \in Bytes /\ Len(bia) \in Nat /\ Len(w) \in Nat /\ Len(w) >= 6
      /\ Last(w) \in Nat /\ Last(w) < Len(bia)
      /\ bia[Last(w)] = FRU_END_MARKER /\ w[1] = 7
      /\ \A k \in 1 .. Len(w) : w[k] \in Nat /\ w[k] >= 7 /\ w[k] <= Last(w)
      /\ \A k \in 1 .. Len(w) - 1 :
           /\ w[k] < Last(w) /\ bia[w[k]] # FRU_END_MARKER
           /\ w[k + 1] = w[k] + 1 + fru_tl_get_length(bia[w[k]])
  BY LaidIs
<1>2. i \in 1 .. Len(w) /\ i + 1 \in 1 .. Len(w) /\ i \in 1 .. Len(w) - 1
  BY <1>1
<1>3. PICK p \in Nat : p = w[i]
  BY <1>1, <1>2
<1>4. p >= 7 /\ w[i + 1] = p + l
  BY <1>1, <1>2, <1>3
<1>5. /\ new \in Bytes /\ Len(new) > Last(w) - l
      /\ \A k \in 7 .. p - 1 : new[k] = bia[k]
      /\ \A k \in p .. Last(w) - l : new[k] = bia[k + l]
  BY <1>3 DEF Removed
<1>6. w \in Seq(Pos)
  BY DEF Laid, IsWalk
<1>7. ASSUME NEW k \in 1 .. i - 1 PROVE w[k] \in 7 .. p - 1 /\ w[k] \in Nat
  <2>1. w[k] \in Nat /\ w[k] >= 7 /\ w[k] < w[i]
    BY <1>2, WalkSpread
  <2> QED
    BY <1>3, <2>1
<1>8. ASSUME NEW k \in i .. Len(w) - 1
      PROVE  w[k + 1] \in Nat /\ w[k + 1] >= p + l /\ w[k + 1] <= Last(w)
  <2>1. k + 1 \in i + 1 .. Len(w)
    BY <1>1
  <2>2. w[k + 1] \in Nat /\ w[k + 1] >= w[i + 1] /\ w[k + 1] <= Last(w)
    BY <1>2, <2>1, WalkSpread
  <2> QED
    BY <1>4, <2>2
<1>9. PICK v : v = Narrower(w, i, l)
  BY Zenon
<1>10. /\ v \in Seq(Pos) /\ Len(v) = Len(w) - 1
       /\ \A k \in 1 .. Len(w) - 1 : v[k] = IF k < i THEN w[k] ELSE w[k + 1] - l
  <2>1. \A k \in i .. Len(w) - 1 : w[k + 1] > l
    <3>1. ASSUME NEW k \in i .. Len(w) - 1 PROVE w[k + 1] > l
      <4>1. w[k + 1] \in Nat /\ w[k + 1] >= p + l
        BY <1>8
      <4> QED
        BY <1>4, <4>1
    <3> QED
      BY <3>1
  <2> QED
    <3>1. i \in 1 .. Len(w) - 1 /\ l \in Nat
      BY <1>2
    <3>2. /\ Narrower(w, i, l) \in Seq(Pos)
          /\ Len(Narrower(w, i, l)) = Len(w) - 1
          /\ \A k \in 1 .. Len(w) - 1 :
               Narrower(w, i, l)[k] = IF k < i THEN w[k] ELSE w[k + 1] - l
      BY <1>6, <2>1, <3>1, NarrowerIs
    <3> QED
      BY <1>9, <3>2, Zenon
<1>11. Len(new) \in Nat
  BY <1>5, BytesAre
<1>12. PICK e \in Nat : e = Last(w)
  BY <1>1
<1>13. Len(w) - 1 \in i .. Len(w) - 1 /\ Len(w) - 1 + 1 = Len(w)
       /\ Len(w) - 1 \in 1 .. Len(w) - 1
       /\ ~ (Len(w) - 1 < i)
  BY <1>1
<1>14. p + l <= e
  BY <1>8, <1>12, <1>13 DEF Last
<1>15. Last(v) = e - l
  BY <1>10, <1>12, <1>13 DEF Last
<1>16. new[Last(v)] = FRU_END_MARKER
  <2>1. e - l \in p .. e - l /\ e - l + l = e
    BY <1>14
  <2>2. new[e - l] = bia[e - l + l]
    BY <1>5, <1>12, <2>1
  <2> QED
    BY <1>1, <1>12, <1>15, <2>1, <2>2
<1>17. v[1] = 7 /\ new[v[5]] = 0
  <2>1. 1 \in 1 .. Len(w) - 1 /\ 1 < i /\ 5 \in 1 .. Len(w) - 1 /\ 5 < i
        /\ 5 \in 1 .. i - 1
    BY <1>1
  <2>2. v[1] = w[1] /\ v[5] = w[5]
    BY <1>10, <2>1
  <2>3. new[w[5]] = bia[w[5]]
    BY <1>5, <1>7, <2>1
  <2>4. bia[w[5]] = 0
    BY DEF Laid
  <2> QED
    BY <1>1, <2>2, <2>3, <2>4
<1>18. ASSUME NEW k \in 1 .. Len(v) - 1
       PROVE  /\ new[v[k]] # FRU_END_MARKER /\ v[k] <= Len(new)
              /\ v[k + 1] = v[k] + 1 + fru_tl_get_length(new[v[k]])
  <2>0. /\ k \in 1 .. Len(w) /\ k \in 1 .. Len(w) - 1
        /\ k + 1 \in 1 .. Len(w) - 1
        /\ k + 1 \in 1 .. Len(w)
    BY <1>1, <1>10
  <2>1. CASE k < i
    <3>1. k \in 1 .. i - 1
      BY <1>1, <2>0, <2>1
    <3>2. v[k] = w[k]
      BY <1>10, <2>0, <2>1
    <3>3. v[k + 1] = w[k + 1]
      <4>1. CASE k + 1 < i
        BY <1>10, <2>0, <4>1
      <4>2. CASE k + 1 = i
        <5>1. v[i] = w[i + 1] - l
          BY <1>10, <2>0, <4>2
        <5>2. w[i + 1] - l = p
          BY <1>4
        <5> QED
          BY <1>3, <4>2, <5>1, <5>2
      <4> QED
        BY <2>0, <2>1, <4>1, <4>2
    <3>4. w[k] \in 7 .. p - 1
      BY <1>7, <3>1
    <3>5. new[w[k]] = bia[w[k]]
      BY <1>5, <3>4
    <3>6. bia[w[k]] # FRU_END_MARKER
          /\ w[k + 1] = w[k] + 1 + fru_tl_get_length(bia[w[k]])
      BY <1>1, <2>0
    <3>7. w[k] <= Len(new)
      BY <1>5, <1>11, <1>12, <1>14, <3>4
    <3> QED
      BY <3>2, <3>3, <3>5, <3>6, <3>7
  <2>2. CASE ~ (k < i)
    <3>1. k \in i .. Len(w) - 1 /\ k + 1 \in 1 .. Len(w) - 1 /\ ~ (k + 1 < i)
          /\ k + 1 \in i .. Len(w) - 1
      BY <1>1, <2>0, <2>2
    <3>2. v[k] = w[k + 1] - l /\ v[k + 1] = w[k + 1 + 1] - l
      BY <1>10, <2>0, <2>2, <3>1
    <3>3. w[k + 1] \in Nat /\ w[k + 1] >= p + l /\ w[k + 1] <= e
      BY <1>8, <1>12, <3>1
    <3>4. /\ w[k + 1] < e /\ bia[w[k + 1]] # FRU_END_MARKER
          /\ w[k + 1 + 1] = w[k + 1] + 1 + fru_tl_get_length(bia[w[k + 1]])
      BY <1>1, <1>12, <3>1
    <3>5. w[k + 1 + 1] \in Nat
      BY <1>8, <3>1
    <3>6. w[k + 1] - l \in p .. e - l /\ w[k + 1] - l + l = w[k + 1]
      BY <3>3
    <3>7. new[w[k + 1] - l] = bia[w[k + 1] - l + l]
      BY <1>5, <1>12, <3>6
    <3>8. fru_tl_get_length(bia[w[k + 1]]) \in Nat
      <4>1. w[k + 1] \in 1 .. Len(bia)
        <5>1. w[k + 1] >= 7
          BY <1>1, <2>0
        <5>2. e < Len(bia) /\ Len(bia) \in Nat
          BY <1>1, <1>12
        <5> QED
          BY <3>3, <5>1, <5>2
      <4>2. bia[w[k + 1]] \in Byte
        BY <1>1, <4>1, BytesAre
      <4>3. fru_tl_get_length(bia[w[k + 1]]) \in 0 .. 63
        BY <4>2, TlLength
      <4>4. \A x \in 0 .. 63 : x \in Nat
        OBVIOUS
      <4> QED
        BY <4>3, <4>4, Zenon
    <3>9. PICK t \in Nat : t = fru_tl_get_length(bia[w[k + 1]])
      BY <3>8
    <3>10. w[k + 1 + 1] - l = w[k + 1] - l + 1 + t
      BY <3>3, <3>4, <3>9
    <3>11. w[k + 1] - l <= Len(new)
      BY <1>5, <1>11, <1>12, <3>3
    <3> QED
      BY <3>2, <3>4, <3>6, <3>7, <3>9, <3>10, <3>11
  <2> QED
    BY <2>1, <2>2
<1>19. Last(v) < Len(new) /\ Len(v) >= 6
  BY <1>1, <1>5, <1>10, <1>11, <1>12, <1>15
<1>20. Laid(new, v)
  BY <1>5, <1>10, <1>16, <1>17, <1>18, <1>19, LaidBy
<1> QED
  BY <1>9, <1>10, <1>12, <1>15, <1>20 DEF NarrowOf

Without(c, i) == SubSeq(c, 1, i) \o SubSeq(c, i + 2, Len(c))

LEMMA WithoutIs ==
  ASSUME NEW c \in Customs, NEW i \in 0 .. Len(c) - 1
  PROVE  /\ Without(c, i) \in Customs /\ Len(Without(c, i)) = Len(c) - 1
         /\ \A k \in 1 .. i : Without(c, i)[k] = c[k]
         /\ \A k \in i + 1 .. Len(c) - 1 : Without(c, i)[k] = c[k + 1]
<1>1. PICK B : B = Bytes
  BY Zenon
<1>2. c \in Seq(B) /\ Len(c) \in Nat /\ i + 1 <= Len(c)
  BY <1>1, CustomsAre DEF Customs
<1>3. PICK s : s = SubSeq(c, 1, i)
  BY Zenon
<1>4. PICK t : t = SubSeq(c, i + 2, Len(c))
  BY Zenon
<1>5. s \in Seq(B) /\ Len(s) = i /\ \A k \in 1 .. i : s[k] = c[k]
  <2>1. 1 \in 1 .. Len(c) + 1 /\ i \in 1 - 1 .. Len(c)
    BY <1>2
  <2> QED
    BY <1>2, <1>3, <2>1, SubSeqProperties
<1>6. /\ t \in Seq(B) /\ Len(t) = Len(c) - i - 1
      /\ \A k \in 1 .. Len(c) - i - 1 : t[k] = c[i + 1 + k]
  <2>1. i + 2 \in 1 .. Len(c) + 1 /\ Len(c) \in i + 2 - 1 .. Len(c)
    BY <1>2
  <2> QED
    BY <1>2, <1>4, <2>1, SubSeqProperties
<1>7. PICK v : v = s \o t
  BY Zenon
<1>8. /\ v \in Seq(B) /\ Len(v) = Len(c) - 1
      /\ \A k \in 1 .. i : v[k] = s[k]
      /\ \A k \in 1 .. Len(c) - i - 1 : v[i + k] = t[k]
  BY <1>2, <1>5, <1>6, <1>7
<1>9. Without(c, i) = v
  BY <1>3, <1>4, <1>7, Zenon DEF Without
<1>10. \A k \in i + 1 .. Len(c) - 1 : v[k] = c[k + 1]
  <2>1. ASSUME NEW k \in i + 1 .. Len(c) - 1 PROVE v[k] = c[k + 1]
    <3>1. k - i \in 1 .. Len(c) - i - 1 /\ i + (k - i) = k
          /\ i + 1 + (k - i) = k + 1
      BY <1>2
    <3>2. v[i + (k - i)] = t[k - i] /\ t[k - i] = c[i + 1 + (k - i)]
      BY <1>6, <1>8, <3>1
    <3> QED
      BY <3>1, <3>2
  <2> QED
    BY <2>1
<1> QED
  BY <1>1, <1>5, <1>8, <1>9, <1>10 DEF Customs

LEMMA RemoveTells ==
  ASSUME NEW bia, NEW w, Laid(bia, w), NEW i \in 0 .. Len(w) - 7, NEW l \in Nat,
         w[i + 7] = w[i + 6] + l, NEW new, Removed(bia, new, w[i + 6], l, Last(w)),
         NEW lens, NEW c, Tells(bia, w, lens, c)
  PROVE  Tells(new, Narrower(w, i + 6, l), lens, Without(c, i))
<1>1. /\ Len(w) \in Nat /\ Len(w) >= 7 /\ Last(w) \in Nat
      /\ \A k \in 1 .. Len(w) : w[k] \in Nat /\ w[k] >= 7 /\ w[k] <= Last(w)
  BY LaidIs
<1>2. /\ i + 6 \in 1 .. Len(w) /\ i + 7 \in 1 .. Len(w)
      /\ i + 6 \in 6 .. Len(w) - 1
      /\ i + 6 + 1 = i + 7
  BY <1>1
<1>3. PICK p \in Nat : p = w[i + 6]
  BY <1>1, <1>2
<1>4. p >= 7 /\ w[i + 7] = p + l
  BY <1>1, <1>2, <1>3
<1>5. /\ new \in Bytes /\ Len(new) > Last(w) - l /\ Len(new) \in Nat
      /\ \A k \in 7 .. p - 1 : new[k] = bia[k]
      /\ \A k \in p .. Last(w) - l : new[k] = bia[k + l]
  <2>1. /\ new \in Bytes /\ Len(new) > Last(w) - l
        /\ \A k \in 7 .. p - 1 : new[k] = bia[k]
        /\ \A k \in p .. Last(w) - l : new[k] = bia[k + l]
    BY <1>3 DEF Removed
  <2> QED
    BY <2>1, BytesAre
<1>6. PICK v : v = Narrower(w, i + 6, l)
  BY Zenon
<1>7. /\ v \in Seq(Pos) /\ Len(v) = Len(w) - 1
      /\ \A k \in 1 .. Len(w) - 1 : v[k] = IF k < i + 6 THEN w[k] ELSE w[k + 1] - l
  <2>1. PICK ii \in 6 .. Len(w) - 1 : ii = i + 6
    BY <1>2
  <2>2. w[ii + 1] = w[ii] + l /\ Removed(bia, new, w[ii], l, Last(w))
    BY <1>2, <2>1
  <2>3. NarrowOf(Narrower(w, ii, l), w, ii, l)
    BY <2>2, RemoveLaid
  <2> QED
    BY <1>6, <2>1, <2>3, Zenon DEF NarrowOf
<1>8. PICK e \in Nat : e = Last(w)
  BY <1>1
<1>9. /\ lens = [k \in 1 .. 4 |-> fru_tl_get_length(bia[w[k]])]
      /\ c \in Customs /\ Len(c) = Len(w) - 6
      /\ \A j \in 1 .. Len(c) :
           w[j + 6] = w[j + 5] + 1 + Len(c[j]) /\ At(bia, w[j + 5], c[j])
  BY DEF Tells
<1>10. i \in 0 .. Len(c) - 1 /\ Len(c) \in Nat
  BY <1>1, <1>9
<1>11. PICK d : d = Without(c, i)
  BY Zenon
<1>12. /\ d \in Customs /\ Len(d) = Len(c) - 1
       /\ \A k \in 1 .. i : d[k] = c[k]
       /\ \A k \in i + 1 .. Len(c) - 1 : d[k] = c[k + 1]
  BY <1>9, <1>10, <1>11, WithoutIs
<1>13. p + l <= e
  BY <1>1, <1>2, <1>4, <1>8
<1>14. lens = [k \in 1 .. 4 |-> fru_tl_get_length(new[v[k]])]
  <2>1. ASSUME NEW k \in 1 .. 4 PROVE new[v[k]] = bia[w[k]]
    <3>1. k \in 1 .. Len(w) - 1 /\ k < i + 6 /\ k \in 1 .. i + 6 - 1
      BY <1>1
    <3>2. v[k] = w[k]
      BY <1>7, <3>1
    <3>3. w[k] \in Nat /\ w[k] >= 7 /\ w[k] < w[i + 6]
      BY <1>2, <3>1, WalkSpread
    <3>4. w[k] \in 7 .. p - 1
      BY <1>3, <3>3
    <3> QED
      BY <1>5, <3>2, <3>4
  <2> QED
    BY <1>9, <2>1
<1>15. ASSUME NEW j \in 1 .. Len(d)
       PROVE  v[j + 6] = v[j + 5] + 1 + Len(d[j]) /\ At(new, v[j + 5], d[j])
  <2>0. /\ j + 6 \in 1 .. Len(w) - 1 /\ j + 5 \in 1 .. Len(w) - 1
        /\ j + 6 \in 1 .. Len(w) /\ j + 5 \in 1 .. Len(w)
        /\ j + 6 + 1 = j + 1 + 6 /\ j + 5 + 1 = j + 1 + 5 /\ j + 1 + 5 = j + 6
        /\ j \in 1 .. Len(c) /\ j + 1 \in 1 .. Len(c)
    BY <1>1, <1>9, <1>12, SMTT(30)
  <2>1. CASE j <= i
    <3>1. j \in 1 .. i /\ j + 5 < i + 6 /\ j + 5 \in 1 .. i + 6 - 1
      BY <1>10, <2>1
    <3>2. v[j + 5] = w[j + 5] /\ d[j] = c[j]
      BY <1>7, <1>12, <2>0, <3>1
    <3>3. v[j + 6] = w[j + 6]
      <4>1. CASE j < i
        <5>1. j + 6 < i + 6
          BY <4>1
        <5> QED
          BY <1>7, <2>0, <5>1
      <4>2. CASE j = i
        <5>1. ~ (j + 6 < i + 6) /\ j + 6 + 1 = i + 7 /\ j + 6 = i + 6
          BY <4>2
        <5>2. v[j + 6] = w[i + 7] - l
          BY <1>7, <2>0, <5>1
        <5>3. w[i + 7] - l = p
          BY <1>4
        <5> QED
          BY <1>3, <5>1, <5>2, <5>3
      <4> QED
        BY <2>1, <4>1, <4>2
    <3>4. w[j + 6] = w[j + 5] + 1 + Len(c[j]) /\ At(bia, w[j + 5], c[j])
      BY <1>9, <2>0
    <3>5. PICK a \in Nat : a = w[j + 5]
      BY <1>1, <2>0
    <3>6. PICK n \in Nat : n = Len(c[j])
      BY <1>9, <2>0, CustomsAre
    <3>7. a >= 7 /\ a + 1 + n <= p
      <4>1. w[j + 6] <= p
        <5>1. CASE j < i
          <6>1. j + 6 \in 1 .. i + 6 - 1
            BY <5>1
          <6>2. w[j + 6] \in Nat /\ w[j + 6] < w[i + 6]
            BY <1>2, <6>1, WalkSpread
          <6> QED
            BY <1>3, <6>2
        <5>2. CASE j = i
          BY <1>3, <5>2
        <5> QED
          BY <2>1, <5>1, <5>2
      <4>2. w[j + 5] >= 7
        BY <1>1, <2>0
      <4> QED
        BY <3>4, <3>5, <3>6, <4>1, <4>2
    <3>8. a + n <= Len(new)
      BY <1>5, <1>8, <1>13, <3>7
    <3>9. ASSUME NEW k \in 1 .. n PROVE new[a + k] = c[j][k]
      <4>1. a + k \in 7 .. p - 1
        BY <3>7
      <4>2. bia[a + k] = c[j][k]
        BY <3>4, <3>5, <3>6 DEF At
      <4> QED
        BY <1>5, <4>1, <4>2
    <3>10. At(new, a, c[j])
      BY <3>6, <3>8, <3>9 DEF At
    <3> QED
      BY <3>2, <3>3, <3>4, <3>5, <3>10
  <2>2. CASE j > i
    <3>1. /\ j \in i + 1 .. Len(c) - 1 /\ ~ (j + 5 < i + 6)
          /\ ~ (j + 6 < i + 6)
          /\ j + 6 \in i + 7 .. Len(w) /\ j + 7 \in i + 7 .. Len(w)
          /\ j + 1 + 6 = j + 7
      BY <1>1, <1>10, <1>12, <2>0, <2>2
    <3>2. v[j + 5] = w[j + 6] - l /\ v[j + 6] = w[j + 7] - l /\ d[j] = c[j + 1]
      BY <1>7, <1>12, <2>0, <3>1
    <3>3. w[j + 7] = w[j + 6] + 1 + Len(c[j + 1])
          /\ At(bia, w[j + 6], c[j + 1])
      BY <1>9, <2>0, <3>1
    <3>4. PICK a \in Nat : a = w[j + 6]
      BY <1>1, <2>0
    <3>5. PICK n \in Nat : n = Len(c[j + 1])
      BY <1>9, <2>0, CustomsAre
    <3>6. a >= p + l /\ a + 1 + n <= e
      <4>1. w[j + 6] \in Nat /\ w[j + 6] >= w[i + 7] /\ w[j + 7] <= Last(w)
        BY <1>2, <3>1, WalkSpread
      <4> QED
        BY <1>4, <1>8, <3>3, <3>4, <3>5, <4>1
    <3>7. PICK x \in Nat : x = a - l
      BY <3>6
    <3>8. x + n <= Len(new)
      BY <1>5, <1>8, <3>6, <3>7
    <3>9. ASSUME NEW k \in 1 .. n PROVE new[x + k] = c[j + 1][k]
      <4>1. x + k \in p .. e - l /\ x + k + l = a + k
        BY <3>6, <3>7
      <4>2. bia[a + k] = c[j + 1][k]
        BY <3>3, <3>4, <3>5 DEF At
      <4>3. new[x + k] = bia[x + k + l]
        BY <1>5, <1>8, <4>1
      <4> QED
        BY <4>1, <4>2, <4>3
    <3>10. At(new, x, c[j + 1])
      BY <3>5, <3>8, <3>9 DEF At
    <3>11. v[j + 6] = x + 1 + n
      <4>1. w[j + 7] - l = x + 1 + n
        <5>1. w[j + 7] = a + 1 + n
          BY <3>3, <3>4, <3>5
        <5>2. w[j + 7] - l = a + 1 + n - l /\ a + 1 + n - l = x + 1 + n
          BY <3>7, <5>1
        <5> QED
          BY <5>2
      <4> QED
        BY <3>2, <4>1
    <3>12. v[j + 5] = x
      BY <3>2, <3>4, <3>7
    <3> QED
      BY <3>2, <3>5, <3>10, <3>11, <3>12
  <2> QED
    BY <1>10, <2>1, <2>2
<1>16. Tells(new, v, lens, d)
  BY <1>1, <1>7, <1>9, <1>12, <1>14, <1>15 DEF Tells
<1> QED
  BY <1>6, <1>11, <1>16

-----------------------------------------------------------------------------
(* The recursion of Size, solved by the walk.                              *)

SizeStep(m, f, k) ==
  IF k = 0 THEN 13 + m.lens[1] + m.lens[2] + m.lens[3] + m.lens[4]
  ELSE f[k - 1] + 1 + Len(m.custom[k])

LEMMA FirstFields ==
  ASSUME NEW bia, NEW w, NEW m, Laid(bia, w), Tells(bia, w, m.lens, m.custom)
  PROVE  /\ m.lens \in [1 .. 4 -> Nat] /\ m.custom \in Customs
         /\ Len(m.custom) \in Nat /\ Len(m.custom) = Len(w) - 6
         /\ w[6] = 12 + m.lens[1] + m.lens[2] + m.lens[3] + m.lens[4]
<1>1. /\ bia \in Bytes /\ Len(bia) \in Nat /\ Len(w) \in Nat /\ Len(w) >= 6
      /\ Last(w) \in Nat /\ Last(w) < Len(bia) /\ w[1] = 7 /\ w[6] = w[5] + 1
      /\ \A k \in 1 .. Len(w) : w[k] \in Nat /\ w[k] >= 7 /\ w[k] <= Last(w)
      /\ \A k \in 1 .. Len(w) - 1 :
           w[k + 1] = w[k] + 1 + fru_tl_get_length(bia[w[k]])
  BY LaidIs
<1>2. /\ m.lens = [k \in 1 .. 4 |-> fru_tl_get_length(bia[w[k]])]
      /\ m.custom \in Customs /\ Len(m.custom) = Len(w) - 6
  BY DEF Tells
<1>3. ASSUME NEW k \in 1 .. 4
      PROVE  m.lens[k] \in Nat /\ w[k] \in Nat
             /\ w[k + 1] = w[k] + 1 + m.lens[k]
  <2>1. k \in 1 .. Len(w) /\ k \in 1 .. Len(w) - 1
    BY <1>1
  <2>2. w[k] \in Nat /\ w[k] \in 1 .. Len(bia)
    <3>1. w[k] \in Nat /\ w[k] >= 7 /\ w[k] <= Last(w)
      BY <1>1, <2>1
    <3> QED
      BY <1>1, <3>1
  <2>3. bia[w[k]] \in Byte
    BY <1>1, <2>2, BytesAre
  <2>4. fru_tl_get_length(bia[w[k]]) \in 0 .. 63
    BY <2>3, TlLength
  <2>5. \A x \in 0 .. 63 : x \in Nat
    OBVIOUS
  <2>6. fru_tl_get_length(bia[w[k]]) \in Nat
    BY <2>4, <2>5, Zenon
  <2> QED
    BY <1>1, <1>2, <2>1, <2>2, <2>6
<1>4. m.lens \in [1 .. 4 -> Nat]
  BY <1>2, <1>3
<1>5. /\ m.lens[1] \in Nat /\ m.lens[2] \in Nat /\ m.lens[3] \in Nat
      /\ m.lens[4] \in Nat
      /\ w[2] = w[1] + 1 + m.lens[1] /\ w[3] = w[2] + 1 + m.lens[2]
      /\ w[4] = w[3] + 1 + m.lens[3] /\ w[5] = w[4] + 1 + m.lens[4]
  <2>1. /\ 1 \in 1 .. 4 /\ 2 \in 1 .. 4 /\ 3 \in 1 .. 4 /\ 4 \in 1 .. 4
        /\ 1 + 1 = 2 /\ 2 + 1 = 3 /\ 3 + 1 = 4 /\ 4 + 1 = 5
    OBVIOUS
  <2> QED
    BY <1>3, <2>1
<1>6. w[6] = 12 + m.lens[1] + m.lens[2] + m.lens[3] + m.lens[4]
  <2>1. PICK a \in Nat : a = m.lens[1]
    BY <1>5
  <2>2. PICK b \in Nat : b = m.lens[2]
    BY <1>5
  <2>3. PICK c \in Nat : c = m.lens[3]
    BY <1>5
  <2>4. PICK d \in Nat : d = m.lens[4]
    BY <1>5
  <2>5. w[2] = 7 + 1 + a
    BY <1>1, <1>5, <2>1
  <2>6. w[3] = 7 + 1 + a + 1 + b
    BY <1>5, <2>2, <2>5
  <2>7. w[4] = 7 + 1 + a + 1 + b + 1 + c
    BY <1>5, <2>3, <2>6
  <2>8. w[5] = 7 + 1 + a + 1 + b + 1 + c + 1 + d
    BY <1>5, <2>4, <2>7
  <2>9. w[6] = 7 + 1 + a + 1 + b + 1 + c + 1 + d + 1
    BY <1>1, <2>8
  <2>10. 7 + 1 + a + 1 + b + 1 + c + 1 + d + 1 = 12 + a + b + c + d
    OBVIOUS
  <2> QED
    BY <2>1, <2>2, <2>3, <2>4, <2>9, <2>10
<1> QED
  BY <1>2, <1>4, <1>6, CustomsAre

LEMMA SizeIs ==
  ASSUME NEW bia, NEW w, NEW m, Laid(bia, w), Tells(bia, w, m.lens, m.custom)
  PROVE  Size(m) = Last(w) + 1
<1>1. /\ m.lens \in [1 .. 4 -> Nat] /\ m.custom \in Customs
      /\ Len(m.custom) \in Nat /\ Len(m.custom) = Len(w) - 6
      /\ w[6] = 12 + m.lens[1] + m.lens[2] + m.lens[3] + m.lens[4]
  BY FirstFields
<1>2. PICK n \in Nat : n = Len(m.custom)
  BY <1>1
<1>3. Len(w) = n + 6 /\ \A k \in 1 .. Len(w) : w[k] \in Nat
  <2>1. Len(w) \in Nat /\ \A k \in 1 .. Len(w) : w[k] \in Nat
    BY LaidIs
  <2> QED
    BY <1>1, <1>2, <2>1
<1>4. \A k \in 0 .. n : w[k + 6] \in Nat
  <2>1. ASSUME NEW k \in 0 .. n PROVE w[k + 6] \in Nat
    <3>1. k + 6 \in 1 .. Len(w)
      BY <1>3
    <3> QED
      BY <1>3, <3>1
  <2> QED
    BY <2>1
<1>5. ASSUME NEW k \in 1 .. n
      PROVE  w[k + 6] = w[k - 1 + 6] + 1 + Len(m.custom[k])
             /\ Len(m.custom[k]) \in Nat
  <2>1. w[k + 6] = w[k + 5] + 1 + Len(m.custom[k])
    BY <1>2 DEF Tells
  <2>2. k - 1 + 6 = k + 5
    OBVIOUS
  <2> QED
    BY <1>1, <1>2, <2>1, <2>2, CustomsAre
<1> DEFINE IsSize(f) == f = [k \in 0 .. n |-> SizeStep(m, f, k)]
<1>6. \E f : IsSize(f)
  <2> DEFINE f == [k \in 0 .. n |-> w[k + 6] + 1]
  <2>1. ASSUME NEW k \in 0 .. n PROVE w[k + 6] + 1 = SizeStep(m, f, k)
    <3>1. CASE k = 0
      <4>1. k + 6 = 6
            /\ SizeStep(m, f, k) = 13 + m.lens[1] + m.lens[2] + m.lens[3] + m.lens[4]
        BY <3>1 DEF SizeStep
      <4>2. m.lens[1] \in Nat /\ m.lens[2] \in Nat /\ m.lens[3] \in Nat
            /\ m.lens[4] \in Nat
        BY <1>1
      <4>3. PICK x \in Nat : x = m.lens[1] + m.lens[2] + m.lens[3] + m.lens[4]
        BY <4>2
      <4>4. w[6] = 12 + x /\ SizeStep(m, f, k) = 13 + x
        <5> DEFINE a == m.lens[1]
                   b == m.lens[2]
                   c == m.lens[3]
                   d == m.lens[4]
                   z == SizeStep(m, f, k)
        <5>1. /\ a \in Nat /\ b \in Nat /\ c \in Nat /\ d \in Nat
              /\ x = a + b + c + d
              /\ w[6] = 12 + a + b + c + d /\ z = 13 + a + b + c + d
          BY <1>1, <4>1, <4>2, <4>3
        <5> HIDE DEF a, b, c, d, z
        <5>2. w[6] = 12 + x /\ z = 13 + x
          BY <5>1
        <5> QED
          BY <5>2 DEF z
      <4>5. w[k + 6] = 12 + x
        BY <4>1, <4>4
      <4> QED
        BY <4>4, <4>5
    <3>2. CASE k # 0
      <4>1. k \in 1 .. n /\ k - 1 \in 0 .. n
        BY <3>2
      <4>2. f[k - 1] = w[k - 1 + 6] + 1 /\ w[k - 1 + 6] \in Nat
        BY <1>4, <4>1
      <4>3. SizeStep(m, f, k) = f[k - 1] + 1 + Len(m.custom[k])
        BY <3>2 DEF SizeStep
      <4>4. PICK x \in Nat : x = w[k - 1 + 6]
        BY <4>2
      <4>5. PICK y \in Nat : y = Len(m.custom[k])
        BY <1>5, <4>1
      <4>6. w[k + 6] = x + 1 + y /\ SizeStep(m, f, k) = x + 1 + 1 + y
        BY <1>5, <4>1, <4>2, <4>3, <4>4, <4>5
      <4> QED
        BY <4>6
    <3> QED
      BY <3>1, <3>2
  <2>2. f = [k \in 0 .. n |-> SizeStep(m, f, k)]
    BY <2>1
  <2> HIDE DEF f
  <2> QED
    BY <2>2
<1>7. PICK f : IsSize(f) /\ Size(m) = f[n]
  <2> DEFINE F == CHOOSE f : f = [k \in 0 .. n |-> SizeStep(m, f, k)]
  <2>1. F = [k \in 0 .. n |-> SizeStep(m, F, k)]
    BY <1>6
  <2>2. Size(m) = F[n]
    BY <1>2 DEF Size, SizeStep
  <2> QED
    BY <2>1, <2>2
<1> DEFINE S == {k \in Nat : k <= n => f[k] = w[k + 6] + 1}
<1>8. 0 \in S
  <2>1. 0 \in 0 .. n /\ 0 + 6 = 6
    OBVIOUS
  <2>2. f[0] = 13 + m.lens[1] + m.lens[2] + m.lens[3] + m.lens[4]
    BY <1>7, <2>1 DEF SizeStep
  <2>3. m.lens[1] \in Nat /\ m.lens[2] \in Nat /\ m.lens[3] \in Nat
        /\ m.lens[4] \in Nat
    BY <1>1
  <2>4. f[0] = w[6] + 1
    BY <1>1, <2>2, <2>3, SMTT(30)
  <2> QED
    BY <2>1, <2>4
<1>9. ASSUME NEW k \in S PROVE k + 1 \in S
  <2>1. SUFFICES ASSUME k + 1 <= n PROVE f[k + 1] = w[k + 1 + 6] + 1
    OBVIOUS
  <2>2. /\ k \in Nat /\ k <= n /\ k + 1 \in 1 .. n /\ k + 1 \in 0 .. n
        /\ k + 1 # 0
        /\ k + 1 - 1 = k /\ k \in 0 .. n
    BY <1>9, <2>1
  <2>3. f[k + 1] = f[k] + 1 + Len(m.custom[k + 1])
    BY <1>7, <2>2 DEF SizeStep
  <2>4. f[k] = w[k + 6] + 1 /\ w[k + 6] \in Nat
    BY <1>4, <1>9, <2>2
  <2>5. w[k + 1 + 6] = w[k + 6] + 1 + Len(m.custom[k + 1])
        /\ Len(m.custom[k + 1]) \in Nat
    BY <1>5, <2>2
  <2>6. PICK x \in Nat : x = w[k + 6]
    BY <2>4
  <2>7. PICK y \in Nat : y = Len(m.custom[k + 1])
    BY <2>5
  <2>8. f[k + 1] = x + 1 + 1 + y /\ w[k + 1 + 6] = x + 1 + y
    BY <2>3, <2>4, <2>5, <2>6, <2>7
  <2> QED
    BY <2>8
<1> HIDE DEF S
<1>10. n \in S
  <2>1. S \in SUBSET Nat
    BY DEF S
  <2> QED
    BY <1>8, <1>9, <2>1, Induct
<1>11. f[n] = w[n + 6] + 1
  BY <1>10 DEF S
<1> QED
  BY <1>3, <1>7, <1>11 DEF Last

LEMMA EightsIs ==
  ASSUME NEW bia, NEW w, NEW m, Laid(bia, w), Tells(bia, w, m.lens, m.custom)
  PROVE  /\ Last(w) \in Nat /\ Last(w) >= 12 /\ Eights(m) \in Nat
         /\ Rounded(Last(w) - 6) = 8 * Eights(m)
<1>1. PICK e \in Nat : e = Last(w)
  BY LaidIs
<1>2. e >= 12
  <2>1. /\ Len(w) \in Nat /\ Len(w) >= 6 /\ IsWalk(bia, 7, w) /\ bia \in Bytes
        /\ w[1] = 7
    BY LaidIs DEF Laid
  <2>2. 1 \in 1 .. Len(w) /\ Len(w) \in 1 .. Len(w) /\ 1 <= Len(w)
    BY <2>1
  <2>3. w[Len(w)] >= w[1] + (Len(w) - 1)
    BY <2>1, <2>2, WalkRises
  <2> QED
    BY <1>1, <2>1, <2>3 DEF Last
<1>3. Size(m) = e + 1
  BY <1>1, SizeIs
<1>4. Eights(m) = (e + 1 + 7) \div 8
  BY <1>3 DEF Eights
<1>5. PICK c \in Nat : c = e - 6
  BY <1>2
<1>6. Rounded(c) = 8 * ((c + 14) \div 8) /\ (c + 14) \div 8 \in Nat
  BY RoundedIs
<1>7. c + 14 = e + 1 + 7
  BY <1>5
<1> QED
  BY <1>1, <1>2, <1>4, <1>5, <1>6, <1>7

-----------------------------------------------------------------------------
(* Fields that are laid, finished: an image that is faithful.              *)

DateTold(m, bytes) ==
  minutes(m.date) \in 1 .. IpmiTimes - 1 => ipmi_time_to_date(bytes) = m.date

(* Wherever these fields stand behind the six bytes of an area's start,    *)
(* they are laid at w and tell m.                                          *)
Framed(u, fields) == u \in Bytes /\ At(u, 6, fields) /\ Len(u) > 6 + Len(fields)

Lays(fields, w, m) ==
  /\ fields \in Bytes /\ Last(w) = 6 + Len(fields)
  /\ \A u : Framed(u, fields) =>
       Laid(u, w) /\ Tells(u, w, m.lens, m.custom)

LEMMA FrameExists ==
  ASSUME NEW fields \in Bytes
  PROVE  \E u : Framed(u, fields)
<1>1. PICK z : z = Fill(6, 0)
  BY Zenon
<1>2. 6 \in Nat /\ 0 \in Byte /\ 0 \in Nat
  BY DEF Byte
<1>3. z \in Bytes /\ Len(z) = 6
  BY <1>1, <1>2, Filled, Zenon
<1>4. PICK s : s = <<0>>
  BY Zenon
<1>5. s \in Bytes /\ Len(s) = 1
  BY <1>2, <1>4, OneByte, Zenon
<1>6. PICK x : x = Glue(z, fields)
  BY Zenon
<1>7. x \in Bytes /\ Len(x) = Len(z) + Len(fields) /\ At(x, Len(z), fields)
  BY <1>3, <1>6, Glued, Zenon
<1>8. PICK y : y = Glue(x, s)
  BY Zenon
<1>9. y \in Bytes /\ Len(y) = Len(x) + Len(s) /\ At(y, 0, x)
  BY <1>5, <1>7, <1>8, Glued, Zenon
<1>10. At(x, 6, fields)
  BY <1>3, <1>7
<1>11. At(y, 6, fields)
  BY <1>2, <1>7, <1>9, <1>10, AtStart, Zenon
<1>12. Len(fields) \in Nat
  BY BytesAre
<1>13. Len(y) > 6 + Len(fields)
  BY <1>3, <1>5, <1>7, <1>9, <1>12
<1> QED
  BY <1>9, <1>11, <1>13 DEF Framed

LEMMA LaysEights ==
  ASSUME NEW fields, NEW w, NEW m, Lays(fields, w, m)
  PROVE  /\ fields \in Bytes /\ Len(fields) \in Nat /\ Eights(m) \in Nat
         /\ Rounded(Len(fields)) = 8 * Eights(m)
<1>1. fields \in Bytes /\ Last(w) = 6 + Len(fields)
  BY DEF Lays
<1>2. PICK u : Framed(u, fields)
  BY <1>1, FrameExists
<1>3. Laid(u, w) /\ Tells(u, w, m.lens, m.custom)
  BY <1>2 DEF Lays
<1>4. Eights(m) \in Nat /\ Rounded(Last(w) - 6) = 8 * Eights(m)
  BY <1>3, EightsIs
<1>5. Len(fields) \in Nat
  BY <1>1, BytesAre
<1>6. Last(w) - 6 = Len(fields)
  BY <1>1, <1>5
<1> QED
  BY <1>1, <1>4, <1>5, <1>6

LEMMA FinishFaithful ==
  ASSUME NEW head, NEW fields, NEW w, NEW m, GoodHead(head),
         Lays(fields, w, m), Eights(m) <= 255, DateTold(m, Cut(head, 11, 3))
  PROVE  Faithful(Finish(head, fields, Len(fields)), m)
<1>1. /\ fields \in Bytes /\ Len(fields) \in Nat /\ Eights(m) \in Nat
      /\ Rounded(Len(fields)) = 8 * Eights(m)
  BY LaysEights
<1>2. PICK q \in Nat : q = Eights(m)
  BY <1>1
<1>3. PICK n \in Nat : n = 8 * q
  OBVIOUS
<1>4. n = Rounded(Len(fields)) /\ n <= 2040
  BY <1>1, <1>2, <1>3
<1>5. head \in Heads /\ head \in Bytes /\ Len(head) = 14 /\ fields \in Fitting
  BY <1>1, <1>4 DEF GoodHead, Heads, Fitting
<1>6. PICK img : img = Finish(head, fields, Len(fields))
  BY Zenon
<1>7. Finished(img, head, fields)
  BY <1>5, <1>6, FinishIs, Zenon
<1>8. /\ img \in Bytes /\ Len(img) = 8 + n /\ At(img, 14, fields)
      /\ \A k \in 11 .. 14 : img[k] = head[k]
  BY <1>4, <1>7 DEF Finished
<1>9. PICK a : a = Cut(img, 8, n)
  BY Zenon
<1>10. a \in Bytes /\ Len(a) = n /\ At(img, 8, a)
  <2>1. 8 \in Nat /\ 8 + n <= Len(img)
    BY <1>8
  <2> QED
    BY <1>8, <1>9, <2>1, CutIs, Zenon
<1>11. n >= Len(fields) + 7 /\ n >= 8
  BY <1>1, <1>4, RoundedIs
<1>12. Framed(a, fields)
  <2>1. ASSUME NEW k \in 1 .. Len(fields) PROVE a[6 + k] = fields[k]
    <3>1. 6 + k \in 1 .. Len(a) /\ 8 + (6 + k) = 14 + k
      BY <1>1, <1>10, <1>11
    <3>2. img[8 + (6 + k)] = a[6 + k]
      BY <1>10, <3>1 DEF At
    <3>3. img[14 + k] = fields[k]
      BY <1>8 DEF At
    <3> QED
      BY <3>1, <3>2, <3>3
  <2>2. 6 + Len(fields) <= Len(a) /\ Len(a) > 6 + Len(fields)
    BY <1>1, <1>10, <1>11
  <2>3. At(a, 6, fields)
    BY <2>1, <2>2 DEF At
  <2> QED
    BY <1>10, <2>2, <2>3 DEF Framed
<1>13. Laid(a, w) /\ Tells(a, w, m.lens, m.custom) /\ Last(w) = 6 + Len(fields)
  BY <1>12 DEF Lays
<1>14. NewImage(img, q, w)
  <2>1. Laid(Cut(img, 8, 8 * q), w) /\ 8 * q = Rounded(Len(fields))
    BY <1>3, <1>4, <1>9, <1>13
  <2> QED
    BY <1>1, <1>7, <1>13, <2>1, FinishedNew
<1>15. /\ Exact(img) /\ ~ fru_is_old_format(img) /\ Area(img) = a
  BY <1>3, <1>9, <1>14, NewImageExact
<1>16. SubSeq(a, 4, 6) = Cut(head, 11, 3)
  <2>1. PICK s : s = Cut(a, 3, 3)
    BY Zenon
  <2>2. PICK t : t = Cut(head, 11, 3)
    BY Zenon
  <2>3. 3 \in Nat /\ 11 \in Nat /\ 3 + 3 <= Len(a) /\ 11 + 3 <= Len(head)
    BY <1>5, <1>10, <1>11
  <2>4. s \in Bytes /\ Len(s) = 3 /\ At(a, 3, s)
    BY <1>10, <2>1, <2>3, CutIs, Zenon
  <2>5. t \in Bytes /\ Len(t) = 3 /\ At(head, 11, t)
    BY <1>5, <2>2, <2>3, CutIs, Zenon
  <2>6. ASSUME NEW k \in 1 .. 3 PROVE s[k] = t[k]
    <3>1. /\ 3 + k \in 1 .. Len(a) /\ 8 + (3 + k) = 11 + k
          /\ 11 + k \in 11 .. 14
      BY <1>10, <1>11
    <3>2. a[3 + k] = s[k] /\ head[11 + k] = t[k]
      BY <2>4, <2>5 DEF At
    <3>3. img[8 + (3 + k)] = a[3 + k]
      BY <1>10, <3>1 DEF At
    <3>4. img[11 + k] = head[11 + k]
      BY <1>8, <3>1
    <3> QED
      BY <3>1, <3>2, <3>3, <3>4
  <2>7. s = t
    BY <2>4, <2>5, <2>6, SameBytes
  <2>8. s = SubSeq(a, 4, 6)
    <3>1. 3 + 1 = 4 /\ 3 + 3 = 6
      OBVIOUS
    <3> QED
      BY <2>1, <3>1 DEF Cut
  <2> QED
    BY <2>2, <2>7, <2>8
<1>17. Says(img, m)
  <2>1. Laid(Area(img), w) /\ Tells(Area(img), w, m.lens, m.custom)
    BY <1>13, <1>15
  <2>2. minutes(m.date) \in 1 .. IpmiTimes - 1 =>
          ipmi_time_to_date(SubSeq(Area(img), 4, 6)) = m.date
    BY <1>15, <1>16, Zenon DEF DateTold
  <2> QED
    BY <2>1, <2>2, TellsSays, Zenon
<1>18. img[10] = q
  BY <1>14 DEF NewImage
<1> QED
  BY <1>2, <1>6, <1>15, <1>17, <1>18 DEF Faithful

-----------------------------------------------------------------------------
(* add and rm: the head that they keep.                                    *)

LEMMA HeadOf ==
  ASSUME NEW img, Editable(img)
  PROVE  /\ GoodHead(SubSeq(img, 1, 14))
         /\ Cut(SubSeq(img, 1, 14), 11, 3) = SubSeq(Area(img), 4, 6)
<1>1. /\ img \in Bytes /\ Len(img) >= 14 /\ Len(img) >= 8 + AreaLen(img)
      /\ ~ fru_is_old_format(img)
  BY DEF Editable, ivfru_validate, Complete, Bytes
<1>2. img[1] = 1 /\ img[4] = 1
      /\ img[8] = fru_calculate_checksum(SubSeq(img, 1, 7))
  BY DEF Editable, ivfru_validate
<1>3. PICK bia : bia = Area(img)
  BY Zenon
<1>4. bia[1] = 1 /\ bia[3] = 0
  BY <1>3 DEF Editable, ivfru_validate, ivfru_bia_validate
<1>5. PICK n \in Nat : n = AreaLen(img)
  <2>1. Len(img) \in Nat /\ 10 \in 1 .. Len(img)
    BY <1>1, BytesAre
  <2>2. img[10] \in Byte
    BY <1>1, <2>1, BytesAre
  <2> QED
    BY <1>1, <2>2, ByteIsNat DEF AreaLen
<1>6. bia = Cut(img, 8, n)
  <2>1. 8 + 1 = 9
    OBVIOUS
  <2> QED
    BY <1>3, <1>5, <2>1 DEF Area, Cut
<1>7. bia \in Bytes /\ Len(bia) = n /\ At(img, 8, bia)
  <2>1. 8 \in Nat /\ 8 + n <= Len(img)
    BY <1>1, <1>5
  <2> QED
    BY <1>1, <1>6, <2>1, CutIs, Zenon
<1>8. n >= 6
  BY <1>3, <1>7 DEF Editable, ivfru_validate, ivfru_bia_validate
<1>9. PICK h : h = Cut(img, 0, 14)
  BY Zenon
<1>10. h = SubSeq(img, 1, 14)
  BY <1>9 DEF Cut
<1>11. h \in Bytes /\ Len(h) = 14 /\ At(img, 0, h)
  <2>1. 0 \in Nat /\ 14 \in Nat /\ 0 + 14 <= Len(img)
    BY <1>1
  <2> QED
    BY <1>1, <1>9, <2>1, CutIs, Zenon
<1>12. \A k \in 1 .. 14 : img[k] = h[k]
  <2>1. ASSUME NEW k \in 1 .. 14 PROVE img[k] = h[k]
    <3>1. img[0 + k] = h[k] /\ 0 + k = k
      BY <1>11 DEF At
    <3> QED
      BY <3>1
  <2> QED
    BY <2>1
<1>13. \A k \in 1 .. n : img[8 + k] = bia[k]
  BY <1>7 DEF At
<1>14. Cut(h, 0, 7) = Cut(img, 0, 7)
  <2>1. 0 \in Nat /\ 14 \in Nat /\ 7 \in Nat /\ 0 + 14 <= Len(img) /\ 7 <= 14
    BY <1>1
  <2> QED
    BY <1>1, <1>9, <2>1, CutCut, ZenonT(30)
<1>15. GoodHead(h)
  <2>1. img[8 + 1] = bia[1] /\ img[8 + 3] = bia[3] /\ 8 + 1 = 9 /\ 8 + 3 = 11
    BY <1>8, <1>13
  <2>2. h[1] = 1 /\ h[4] = 1 /\ h[8] = img[8] /\ h[9] = 1 /\ h[11] = 0
    BY <1>2, <1>4, <1>12, <2>1
  <2>3. Cut(img, 0, 7) = SubSeq(img, 1, 7)
    BY DEF Cut
  <2> QED
    BY <1>2, <1>11, <1>14, <2>2, <2>3 DEF GoodHead, Heads
<1>16. Cut(h, 11, 3) = SubSeq(bia, 4, 6)
  <2>1. PICK s : s = Cut(h, 11, 3)
    BY Zenon
  <2>2. PICK t : t = Cut(bia, 3, 3)
    BY Zenon
  <2>3. 3 \in Nat /\ 11 \in Nat /\ 3 + 3 <= Len(bia) /\ 11 + 3 <= Len(h)
    BY <1>7, <1>8, <1>11
  <2>4. s \in Bytes /\ Len(s) = 3 /\ At(h, 11, s)
    BY <1>11, <2>1, <2>3, CutIs, Zenon
  <2>5. t \in Bytes /\ Len(t) = 3 /\ At(bia, 3, t)
    BY <1>7, <2>2, <2>3, CutIs, Zenon
  <2>6. ASSUME NEW k \in 1 .. 3 PROVE s[k] = t[k]
    <3>1. /\ 3 + k \in 1 .. n /\ 8 + (3 + k) = 11 + k /\ 11 + k \in 1 .. 14
      BY <1>8
    <3>2. bia[3 + k] = t[k] /\ h[11 + k] = s[k]
      BY <2>4, <2>5 DEF At
    <3>3. img[8 + (3 + k)] = bia[3 + k]
      BY <1>13, <3>1
    <3>4. img[11 + k] = h[11 + k]
      BY <1>12, <3>1
    <3> QED
      BY <3>1, <3>2, <3>3, <3>4
  <2>7. s = t
    BY <2>4, <2>5, <2>6, SameBytes
  <2>8. t = SubSeq(bia, 4, 6)
    <3>1. 3 + 1 = 4 /\ 3 + 3 = 6
      OBVIOUS
    <3> QED
      BY <2>2, <3>1 DEF Cut
  <2> QED
    BY <2>1, <2>7, <2>8
<1> QED
  BY <1>3, <1>10, <1>15, <1>16

-----------------------------------------------------------------------------
(* add.                                                                    *)
AddFields(bia, p, data, e) ==
  SubSeq(bia, 7, p - 1) \o fru_area_format_field(data) \o SubSeq(bia, p, e)

LEMMA AddInserts ==
  ASSUME NEW bia \in Bytes, NEW p \in Nat, NEW e \in Nat, NEW data \in FieldData,
         7 <= p, p <= e, e < Len(bia)
  PROVE  /\ AddFields(bia, p, data, e) \in Bytes
         /\ 6 + Len(AddFields(bia, p, data, e)) = e + 1 + Len(data)
         /\ \A u : Framed(u, AddFields(bia, p, data, e)) => Inserted(bia, u, p, data, e)
<1>1. Len(bia) \in Nat /\ data \in Bytes /\ Len(data) \in Nat
      /\ 192 + Len(data) \in Byte
  BY BytesAre, DataIs
<1>2. PICK l \in Nat : l = Len(data)
  BY <1>1
<1>3. PICK i \in Nat : i = p - 7
  OBVIOUS
<1>4. PICK j \in Nat : j = p - 1
  OBVIOUS
<1>5. PICK n \in Nat : n = e - p + 1
  OBVIOUS
<1>6. PICK A : A = Cut(bia, 6, i)
  BY Zenon
<1>7. PICK C : C = Cut(bia, j, n)
  BY Zenon
<1>8. A \in Bytes /\ Len(A) = i /\ At(bia, 6, A)
  <2>1. 6 \in Nat /\ 6 + i <= Len(bia)
    BY <1>1, <1>3
  <2> QED
    BY <1>6, <2>1, CutIs, Zenon
<1>9. C \in Bytes /\ Len(C) = n /\ At(bia, j, C)
  <2>1. j + n <= Len(bia)
    BY <1>1, <1>4, <1>5
  <2> QED
    BY <1>7, <2>1, CutIs, Zenon
<1>10. PICK t : t = <<192 + l>>
  BY Zenon
<1>11. t \in Bytes /\ Len(t) = 1 /\ t[1] = 192 + l
  BY <1>1, <1>2, <1>10, OneByte
<1>12. PICK B : B = Glue(t, data)
  BY Zenon
<1>13. B \in Bytes /\ Len(B) = Len(t) + Len(data) /\ At(B, 0, t)
       /\ At(B, Len(t), data)
  BY <1>1, <1>11, <1>12, Glued, Zenon
<1>14. PICK x : x = Glue(A, B)
  BY Zenon
<1>15. x \in Bytes /\ Len(x) = Len(A) + Len(B) /\ At(x, 0, A)
       /\ At(x, Len(A), B)
  BY <1>8, <1>13, <1>14, Glued, Zenon
<1>16. PICK f : f = Glue(x, C)
  BY Zenon
<1>17. f \in Bytes /\ Len(f) = Len(x) + Len(C) /\ At(f, 0, x)
       /\ At(f, Len(x), C)
  BY <1>9, <1>15, <1>16, Glued, Zenon
<1>18. AddFields(bia, p, data, e) = f
  <2>1. 6 + 1 = 7 /\ 6 + i = p - 1 /\ j + 1 = p /\ j + n = e
    BY <1>3, <1>4, <1>5
  <2>2. A = SubSeq(bia, 7, p - 1) /\ C = SubSeq(bia, p, e)
    BY <1>6, <1>7, <2>1 DEF Cut
  <2>3. B = fru_area_format_field(data)
    BY <1>2, <1>10, <1>12 DEF fru_area_format_field, Glue
  <2> QED
    BY <1>14, <1>16, <2>2, <2>3, Zenon DEF AddFields, Glue
<1>19. Len(x) = i + 1 + l /\ Len(B) = 1 + l /\ Len(f) = i + 1 + l + n
  BY <1>2, <1>8, <1>9, <1>11, <1>13, <1>15, <1>17
<1>20. 6 + Len(f) = e + 1 + l
  BY <1>3, <1>5, <1>19
<1>21. ASSUME NEW u, Framed(u, f) PROVE Inserted(bia, u, p, data, e)
  <2>1. u \in Bytes /\ At(u, 6, f) /\ Len(u) > e + 1 + l
    BY <1>20, <1>21 DEF Framed
  <2>2. \A k \in 1 .. i + 1 + l + n : u[6 + k] = f[k]
    BY <1>19, <2>1 DEF At
  <2>3. \A k \in 1 .. i + 1 + l : f[k] = x[k]
    <3>1. ASSUME NEW k \in 1 .. i + 1 + l PROVE f[k] = x[k]
      <4>1. f[0 + k] = x[k] /\ 0 + k = k
        BY <1>17, <1>19 DEF At
      <4> QED
        BY <4>1
    <3> QED
      BY <3>1
  <2>4. \A k \in 1 .. i : x[k] = A[k]
    <3>1. ASSUME NEW k \in 1 .. i PROVE x[k] = A[k]
      <4>1. x[0 + k] = A[k] /\ 0 + k = k
        BY <1>8, <1>15 DEF At
      <4> QED
        BY <4>1
    <3> QED
      BY <3>1
  <2>5. \A k \in 7 .. p - 1 : u[k] = bia[k]
    <3>1. ASSUME NEW k \in 7 .. p - 1 PROVE u[k] = bia[k]
      <4>1. /\ k - 6 \in 1 .. i /\ k - 6 \in 1 .. i + 1 + l
            /\ k - 6 \in 1 .. i + 1 + l + n
            /\ 6 + (k - 6) = k
        BY <1>3
      <4>2. u[6 + (k - 6)] = f[k - 6]
        BY <2>2, <4>1
      <4>3. f[k - 6] = x[k - 6] /\ x[k - 6] = A[k - 6]
        BY <2>3, <2>4, <4>1
      <4>4. bia[6 + (k - 6)] = A[k - 6]
        BY <1>8, <4>1 DEF At
      <4> QED
        BY <4>1, <4>2, <4>3, <4>4
    <3> QED
      BY <3>1
  <2>6. \A k \in 1 .. 1 + l : u[p - 1 + k] = B[k]
    <3>1. ASSUME NEW k \in 1 .. 1 + l PROVE u[p - 1 + k] = B[k]
      <4>1. i + k \in 1 .. i + 1 + l /\ i + k \in 1 .. i + 1 + l + n
            /\ 6 + (i + k) = p - 1 + k
        BY <1>3
      <4>2. u[6 + (i + k)] = f[i + k] /\ f[i + k] = x[i + k]
        BY <2>2, <2>3, <4>1
      <4>3. x[i + k] = B[k]
        BY <1>8, <1>15, <1>19 DEF At
      <4> QED
        BY <4>1, <4>2, <4>3
    <3> QED
      BY <3>1
  <2>7. u[p] = 192 + l
    <3>1. 1 \in 1 .. 1 + l /\ p - 1 + 1 = p /\ 0 + 1 = 1
      OBVIOUS
    <3>2. u[p - 1 + 1] = B[1]
      BY <2>6, <3>1
    <3>3. B[0 + 1] = t[1]
      BY <1>11, <1>13 DEF At
    <3> QED
      BY <1>11, <3>1, <3>2, <3>3
  <2>8. At(u, p, data)
    <3>1. ASSUME NEW k \in 1 .. l PROVE u[p + k] = data[k]
      <4>1. 1 + k \in 1 .. 1 + l /\ p - 1 + (1 + k) = p + k
        OBVIOUS
      <4>2. u[p - 1 + (1 + k)] = B[1 + k]
        BY <2>6, <4>1
      <4>3. B[1 + k] = data[k]
        BY <1>2, <1>11, <1>13 DEF At
      <4> QED
        BY <4>1, <4>2, <4>3
    <3>2. Len(u) \in Nat
      BY <2>1, BytesAre
    <3>3. p + l <= Len(u)
      BY <2>1, <3>2
    <3> QED
      BY <1>2, <3>1, <3>3 DEF At
  <2>9. \A k \in p .. e : u[k + 1 + l] = bia[k]
    <3>1. ASSUME NEW k \in p .. e PROVE u[k + 1 + l] = bia[k]
      <4>1. PICK h \in 1 .. n : h = k - j
        BY <1>4, <1>5
      <4>2. PICK g \in 1 .. i + 1 + l + n : g = i + 1 + l + h
        BY <4>1
      <4>3. 6 + g = k + 1 + l /\ j + h = k
        BY <1>3, <1>4, <4>1, <4>2
      <4>4. u[6 + g] = f[g]
        BY <2>2
      <4>5. f[g] = C[h]
        <5>1. f[Len(x) + h] = C[h]
          BY <1>9, <1>17 DEF At
        <5> QED
          BY <1>19, <4>2, <5>1
      <4>6. bia[j + h] = C[h]
        BY <1>9 DEF At
      <4> QED
        BY <4>3, <4>4, <4>5, <4>6
    <3> QED
      BY <3>1
  <2> QED
    BY <1>2, <2>1, <2>5, <2>7, <2>8, <2>9 DEF Inserted
<1> QED
  BY <1>2, <1>17, <1>18, <1>20, <1>21

(* The image that the commands edit.                                       *)
Edited(img, bia, w, m) ==
  /\ Editable(img) /\ bia = Area(img) /\ w = Walk(bia)
  /\ Laid(bia, w) /\ Tells(bia, w, m.lens, m.custom)
  /\ DateTold(m, SubSeq(bia, 4, 6))

LEMMA EditedIs ==
  ASSUME NEW img, NEW m, Editable(img), Says(img, m)
  PROVE  \E bia, w : Edited(img, bia, w, m)
<1>1. PICK bia : bia = Area(img)
  BY Zenon
<1>2. PICK w : w = Walk(bia)
  BY Zenon
<1>3. ivfru_validate(img)
  BY DEF Editable
<1>4. Laid(Area(img), Walk(Area(img)))
  BY <1>3, ValidIsLaid
<1>5. Tells(Area(img), Walk(Area(img)), m.lens, m.custom)
  BY <1>4, SaysTells
<1>6. DateTold(m, SubSeq(Area(img), 4, 6))
  BY Zenon DEF Says, DateTold
<1>7. Edited(img, bia, w, m)
  BY <1>1, <1>2, <1>4, <1>5, <1>6, Zenon DEF Edited
<1> QED
  BY <1>7

LEMMA WithIs ==
  ASSUME NEW m, NEW c
  PROVE  /\ WithCustom(m, c).lens = m.lens /\ WithCustom(m, c).date = m.date
         /\ WithCustom(m, c).custom = c /\ WithCustom(m, c).known = TRUE
  BY DEF WithCustom

LEMMA PlaceIs ==
  ASSUME NEW bia, NEW w, Laid(bia, w), NEW c, Len(c) = Len(w) - 6,
         NEW index \in Int, NEW x
  PROVE  \E i \in 0 .. Len(w) - 6 :
           AddPos(bia, index) = w[i + 6] /\ InsertAt(c, index, x) = Spliced(c, i, x)
<1>1. Walk(bia) = w /\ EndOf(bia) = Last(w) /\ Len(w) \in Nat /\ Len(w) >= 6
  BY LaidWalk, LaidIs
<1>2. PICK n \in Nat : n = Len(w) - 6
  BY <1>1
<1>3. Len(w) = n + 6 /\ Len(c) = n
  BY <1>1, <1>2
<1>4. CASE index < 0 \/ index > n
  <2>1. index < 0 \/ 6 + index > Len(w)
    BY <1>3, <1>4
  <2>2. AddPos(bia, index) = w[n + 6]
    BY <1>1, <1>3, <2>1 DEF AddPos, Last
  <2>3. InsertAt(c, index, x) = Spliced(c, n, x)
    BY <1>3, <1>4, Zenon DEF InsertAt, Spliced
  <2> QED
    BY <1>2, <2>2, <2>3
<1>5. CASE ~ (index < 0 \/ index > n)
  <2>1. ~ (index < 0 \/ 6 + index > Len(w)) /\ index \in 0 .. n /\ 6 + index = index + 6
    BY <1>3, <1>5
  <2>2. AddPos(bia, index) = w[index + 6]
    BY <1>1, <2>1 DEF AddPos
  <2>3. InsertAt(c, index, x) = Spliced(c, index, x)
    BY <1>3, <1>5, Zenon DEF InsertAt, Spliced
  <2> QED
    BY <1>2, <2>1, <2>2, <2>3
<1> QED
  BY <1>4, <1>5

(* ivfru_add: whatever an image that ivfru takes says, the one that add    *)
(* makes of it is whole and says the same and the new field besides, where *)
(* its index asks for it, unless the fields outgrow the length byte.       *)
THEOREM AddFaithful ==
  ASSUME NEW img, NEW m, Editable(img), Says(img, m), NEW index \in Int,
         NEW data \in FieldData,
         Eights(WithCustom(m, InsertAt(m.custom, index, data))) <= 255
  PROVE  Faithful(ivfru_add(img, index, data),
                  WithCustom(m, InsertAt(m.custom, index, data)))
<1>1. PICK bia, w : Edited(img, bia, w, m)
  BY EditedIs
<1>2. /\ bia = Area(img) /\ Laid(bia, w) /\ Tells(bia, w, m.lens, m.custom)
      /\ DateTold(m, SubSeq(bia, 4, 6))
  BY <1>1 DEF Edited
<1>3. Len(m.custom) = Len(w) - 6
  BY <1>2 DEF Tells
<1>4. PICK i \in 0 .. Len(w) - 6 :
        /\ AddPos(bia, index) = w[i + 6]
        /\ InsertAt(m.custom, index, data) = Spliced(m.custom, i, data)
  BY <1>2, <1>3, PlaceIs
<1>5. PICK n : n = WithCustom(m, InsertAt(m.custom, index, data))
  BY Zenon
<1>6. n.lens = m.lens /\ n.date = m.date
      /\ n.custom = Spliced(m.custom, i, data)
  BY <1>4, <1>5, WithIs
<1>7. /\ bia \in Bytes /\ Len(bia) \in Nat /\ Len(w) \in Nat /\ Len(w) >= 6
      /\ Last(w) \in Nat /\ Last(w) < Len(bia)
      /\ \A k \in 1 .. Len(w) : w[k] \in Nat /\ w[k] >= 7 /\ w[k] <= Last(w)
  BY <1>2, LaidIs
<1>8. PICK e \in Nat : e = Last(w)
  BY <1>7
<1>9. i + 6 \in 1 .. Len(w) /\ i + 6 \in 6 .. Len(w)
  BY <1>7
<1>10. PICK p \in Nat : p = w[i + 6]
  BY <1>7, <1>9
<1>11. 7 <= p /\ p <= e /\ e < Len(bia)
  BY <1>7, <1>8, <1>9, <1>10
<1>12. PICK f : f = AddFields(bia, p, data, e)
  BY Zenon
<1>13. /\ f \in Bytes /\ 6 + Len(f) = e + 1 + Len(data)
       /\ \A u : Framed(u, f) => Inserted(bia, u, p, data, e)
  BY <1>7, <1>11, <1>12, AddInserts, Zenon
<1>14. PICK v : v = Wider(w, i + 6, Len(data))
  BY Zenon
<1>15. ASSUME NEW u, Framed(u, f)
       PROVE  /\ Laid(u, v) /\ Tells(u, v, n.lens, n.custom)
              /\ Last(v) = e + 1 + Len(data)
  <2>1. Inserted(bia, u, w[i + 6], data, Last(w))
    BY <1>8, <1>10, <1>13, <1>15
  <2>2. PICK ii \in 6 .. Len(w) : ii = i + 6
    BY <1>9
  <2>3. /\ Laid(u, Wider(w, ii, Len(data)))
        /\ Last(Wider(w, ii, Len(data))) = Last(w) + 1 + Len(data)
    BY <1>2, <2>1, <2>2, InsertLaid, Zenon
  <2>4. Tells(u, Wider(w, i + 6, Len(data)), m.lens, Spliced(m.custom, i, data))
    BY <1>2, <2>1, InsertTells
  <2> QED
    BY <1>6, <1>8, <1>14, <2>2, <2>3, <2>4
<1>16. Lays(f, v, n)
  <2>1. PICK u : Framed(u, f)
    BY <1>13, FrameExists
  <2>2. Last(v) = 6 + Len(f)
    BY <1>13, <1>15, <2>1
  <2> QED
    BY <1>13, <1>15, <2>2 DEF Lays
<1>17. PICK h : h = SubSeq(img, 1, 14)
  BY Zenon
<1>18. GoodHead(h) /\ Cut(h, 11, 3) = SubSeq(bia, 4, 6)
  BY <1>2, <1>17, HeadOf
<1>19. DateTold(n, Cut(h, 11, 3))
  BY <1>2, <1>6, <1>18, Zenon DEF DateTold
<1>20. Faithful(Finish(h, f, Len(f)), n)
  BY <1>5, <1>16, <1>18, <1>19, FinishFaithful
<1>21. ivfru_add(img, index, data) = Finish(h, f, Len(f))
  <2>1. EndOf(bia) = e
    BY <1>2, <1>8, LaidWalk
  <2> QED
    BY <1>2, <1>4, <1>10, <1>12, <1>17, <2>1, Zenon DEF ivfru_add, AddFields
<1> QED
  BY <1>5, <1>20, <1>21

-----------------------------------------------------------------------------
(* rm.                                                                     *)
RmFields(bia, p, r, e) == SubSeq(bia, 7, p - 1) \o SubSeq(bia, r, e)

LEMMA RmRemoves ==
  ASSUME NEW bia \in Bytes, NEW p \in Nat, NEW l \in Nat, NEW e \in Nat,
         7 <= p, p + l <= e, e < Len(bia)
  PROVE  /\ RmFields(bia, p, p + l, e) \in Bytes
         /\ 6 + Len(RmFields(bia, p, p + l, e)) = e - l
         /\ \A u : Framed(u, RmFields(bia, p, p + l, e)) => Removed(bia, u, p, l, e)
<1>1. Len(bia) \in Nat
  BY BytesAre
<1>2. PICK i \in Nat : i = p - 7
  OBVIOUS
<1>3. PICK j \in Nat : j = p + l - 1
  OBVIOUS
<1>4. PICK n \in Nat : n = e - (p + l) + 1
  OBVIOUS
<1>5. PICK A : A = Cut(bia, 6, i)
  BY Zenon
<1>6. PICK C : C = Cut(bia, j, n)
  BY Zenon
<1>7. A \in Bytes /\ Len(A) = i /\ At(bia, 6, A)
  <2>1. 6 \in Nat /\ 6 + i <= Len(bia)
    BY <1>1, <1>2
  <2> QED
    BY <1>5, <2>1, CutIs, Zenon
<1>8. C \in Bytes /\ Len(C) = n /\ At(bia, j, C)
  <2>1. j + n <= Len(bia)
    BY <1>1, <1>3, <1>4
  <2> QED
    BY <1>6, <2>1, CutIs, Zenon
<1>9. PICK f : f = Glue(A, C)
  BY Zenon
<1>10. f \in Bytes /\ Len(f) = Len(A) + Len(C) /\ At(f, 0, A)
       /\ At(f, Len(A), C)
  BY <1>7, <1>8, <1>9, Glued, Zenon
<1>11. RmFields(bia, p, p + l, e) = f
  <2>1. 6 + 1 = 7 /\ 6 + i = p - 1 /\ j + 1 = p + l /\ j + n = e
    BY <1>2, <1>3, <1>4
  <2>2. A = SubSeq(bia, 7, p - 1) /\ C = SubSeq(bia, p + l, e)
    BY <1>5, <1>6, <2>1 DEF Cut
  <2> QED
    BY <1>9, <2>2, Zenon DEF RmFields, Glue
<1>12. Len(f) = i + n /\ 6 + Len(f) = e - l
  BY <1>2, <1>4, <1>7, <1>8, <1>10
<1>13. ASSUME NEW u, Framed(u, f) PROVE Removed(bia, u, p, l, e)
  <2>1. u \in Bytes /\ At(u, 6, f) /\ Len(u) > e - l
    BY <1>12, <1>13 DEF Framed
  <2>2. \A k \in 1 .. i + n : u[6 + k] = f[k]
    BY <1>12, <2>1 DEF At
  <2>3. ASSUME NEW k \in 7 .. p - 1 PROVE u[k] = bia[k]
    <3>1. k - 6 \in 1 .. i /\ k - 6 \in 1 .. i + n /\ 6 + (k - 6) = k
          /\ 0 + (k - 6) = k - 6
      BY <1>2
    <3>2. u[6 + (k - 6)] = f[k - 6]
      BY <2>2, <3>1
    <3>3. f[0 + (k - 6)] = A[k - 6] /\ bia[6 + (k - 6)] = A[k - 6]
      BY <1>7, <1>10, <3>1 DEF At
    <3> QED
      BY <3>1, <3>2, <3>3
  <2>4. ASSUME NEW k \in p .. e - l PROVE u[k] = bia[k + l]
    <3>1. PICK h \in 1 .. n : h = k - p + 1
      BY <1>4
    <3>2. PICK g \in 1 .. i + n : g = i + h
      BY <3>1
    <3>3. 6 + g = k /\ j + h = k + l
      BY <1>2, <1>3, <3>1, <3>2
    <3>4. u[6 + g] = f[g]
      BY <2>2
    <3>5. f[i + h] = C[h]
      BY <1>7, <1>8, <1>10 DEF At
    <3>6. bia[j + h] = C[h]
      BY <1>8 DEF At
    <3> QED
      BY <3>2, <3>3, <3>4, <3>5, <3>6
  <2> QED
    BY <2>1, <2>3, <2>4 DEF Removed
<1> QED
  BY <1>10, <1>11, <1>12, <1>13

(* ivfru_rm: the image it makes is whole, and says what the one before said *)
(* without the custom field of that index.                                 *)
THEOREM RmFaithful ==
  ASSUME NEW img, NEW m, Editable(img), Says(img, m), NEW index \in Int,
         index >= 0, 6 + index < Len(Walk(Area(img)))
  PROVE  Faithful(ivfru_rm(img, index), WithCustom(m, Without(m.custom, index)))
<1>1. PICK bia, w : Edited(img, bia, w, m)
  BY EditedIs
<1>2. /\ bia = Area(img) /\ w = Walk(bia) /\ Laid(bia, w)
      /\ Tells(bia, w, m.lens, m.custom) /\ DateTold(m, SubSeq(bia, 4, 6))
  BY <1>1 DEF Edited
<1>3. /\ bia \in Bytes /\ Len(bia) \in Nat /\ Len(w) \in Nat /\ Len(w) >= 6
      /\ Last(w) \in Nat /\ Last(w) < Len(bia)
      /\ \A k \in 1 .. Len(w) : w[k] \in Nat /\ w[k] >= 7 /\ w[k] <= Last(w)
  BY <1>2, LaidIs
<1>4. PICK i \in 0 .. Len(w) - 7 : i = index
  BY <1>2, <1>3
<1>5. PICK n : n = WithCustom(m, Without(m.custom, i))
  BY Zenon
<1>6. n.lens = m.lens /\ n.date = m.date /\ n.custom = Without(m.custom, i)
  BY <1>5, WithIs
<1>7. PICK e \in Nat : e = Last(w)
  BY <1>3
<1>8. /\ i + 6 \in 1 .. Len(w) /\ i + 7 \in 1 .. Len(w)
      /\ i + 7 \in i + 6 .. Len(w)
      /\ i + 6 \in 6 .. Len(w) - 1 /\ i + 6 + 1 = i + 7 /\ 6 + i = i + 6
      /\ 7 + i = i + 7
  BY <1>3
<1>9. PICK p \in Nat : p = w[i + 6]
  BY <1>3, <1>8
<1>10. w[i + 7] \in Nat /\ w[i + 7] >= p
  BY <1>2, <1>8, <1>9, WalkSpread
<1>11. PICK l \in Nat : l = w[i + 7] - p
  BY <1>10
<1>12. w[i + 7] = w[i + 6] + l /\ w[i + 7] = p + l
  BY <1>9, <1>10, <1>11
<1>13. 7 <= p /\ p + l <= e /\ e < Len(bia)
  BY <1>3, <1>7, <1>8, <1>9, <1>12
<1>14. PICK f : f = RmFields(bia, p, p + l, e)
  BY Zenon
<1>15. /\ f \in Bytes /\ 6 + Len(f) = e - l
       /\ \A u : Framed(u, f) => Removed(bia, u, p, l, e)
  <2>1. bia \in Bytes
    BY <1>3
  <2>2. /\ RmFields(bia, p, p + l, e) \in Bytes
        /\ 6 + Len(RmFields(bia, p, p + l, e)) = e - l
        /\ \A u : Framed(u, RmFields(bia, p, p + l, e)) => Removed(bia, u, p, l, e)
    BY <1>13, <2>1, RmRemoves
  <2> QED
    BY <1>14, <2>2, Zenon
<1>16. PICK v : v = Narrower(w, i + 6, l)
  BY Zenon
<1>17. ASSUME NEW u, Framed(u, f)
       PROVE  Laid(u, v) /\ Tells(u, v, n.lens, n.custom) /\ Last(v) = e - l
  <2>1. Removed(bia, u, w[i + 6], l, Last(w))
    BY <1>7, <1>9, <1>15, <1>17
  <2>2. PICK ii \in 6 .. Len(w) - 1 : ii = i + 6
    BY <1>8
  <2>3. w[ii + 1] = w[ii] + l /\ Removed(bia, u, w[ii], l, Last(w))
    BY <1>8, <1>12, <2>1, <2>2
  <2>4. Laid(u, Narrower(w, ii, l)) /\ Last(Narrower(w, ii, l)) = Last(w) - l
    BY <1>2, <2>3, RemoveLaid
  <2>5. Tells(u, Narrower(w, i + 6, l), m.lens, Without(m.custom, i))
    BY <1>2, <1>12, <2>1, RemoveTells
  <2> QED
    BY <1>6, <1>7, <1>16, <2>2, <2>4, <2>5
<1>18. Lays(f, v, n)
  <2>1. PICK u : Framed(u, f)
    BY <1>15, FrameExists
  <2>2. Last(v) = 6 + Len(f)
    BY <1>15, <1>17, <2>1
  <2> QED
    BY <1>15, <1>17, <2>2 DEF Lays
<1>19. Eights(n) <= 255
  <2>1. /\ Len(f) \in Nat /\ Eights(n) \in Nat
        /\ Rounded(Len(f)) = 8 * Eights(n)
    BY <1>18, LaysEights
  <2>2. Len(bia) <= 2040
    <3>1. img \in Bytes /\ Len(img) >= 14 /\ ~ fru_is_old_format(img)
          /\ Len(img) >= 8 + AreaLen(img)
      BY DEF Editable, ivfru_validate, Complete, Bytes
    <3>2. Len(img) \in Nat /\ 10 \in 1 .. Len(img)
      BY <3>1, BytesAre
    <3>3. img[10] \in Byte
      BY <3>1, <3>2, BytesAre
    <3>4. PICK q \in Nat : q = img[10]
      BY <3>3, ByteIsNat
    <3>5. q <= 255
      BY <3>3, <3>4, ByteIsNat
    <3>6. AreaLen(img) = 8 * q /\ 8 * q \in Nat
      BY <3>1, <3>4 DEF AreaLen
    <3>7. PICK a \in Nat : a = 8 * q
      BY <3>6
    <3>8. bia = Cut(img, 8, a)
      <4>1. 8 + 1 = 9
        OBVIOUS
      <4> QED
        BY <1>2, <3>6, <3>7, <4>1 DEF Area, Cut
    <3>9. 8 \in Nat /\ 8 + a <= Len(img)
      BY <3>1, <3>6, <3>7
    <3>10. Len(bia) = a
      BY <3>1, <3>8, <3>9, CutIs, Zenon
    <3> QED
      BY <3>5, <3>7, <3>10
  <2>3. PICK t \in Nat : t = Len(f)
    BY <2>1
  <2>4. PICK q \in Nat : q = Eights(n)
    BY <2>1
  <2>5. 6 + t <= e /\ e < 2040
    <3>1. 6 + t = e - l
      BY <1>15, <2>3
    <3>2. e < 2040
      BY <1>3, <1>13, <2>2
    <3> QED
      BY <3>1, <3>2
  <2>6. 8 * q = 8 * ((t + 14) \div 8) /\ (t + 14) \div 8 \in Nat
    BY <2>1, <2>3, <2>4, RoundedIs
  <2>7. t + 14 < 2048
    BY <2>5
  <2>8. (t + 14) \div 8 <= 255
    BY <2>7
  <2> QED
    BY <2>4, <2>6, <2>8
<1>20. PICK h : h = SubSeq(img, 1, 14)
  BY Zenon
<1>21. GoodHead(h) /\ Cut(h, 11, 3) = SubSeq(bia, 4, 6)
  BY <1>2, <1>20, HeadOf
<1>22. DateTold(n, Cut(h, 11, 3))
  BY <1>2, <1>6, <1>21, Zenon DEF DateTold
<1>23. Faithful(Finish(h, f, Len(f)), n)
  BY <1>18, <1>19, <1>21, <1>22, FinishFaithful
<1>24. ivfru_rm(img, index) = Finish(h, f, Len(f))
  <2>1. EndOf(bia) = e
    BY <1>2, <1>7, LaidWalk
  <2>2. w[6 + index] = p /\ w[7 + index] = p + l
    BY <1>4, <1>8, <1>9, <1>12
  <2> QED
    BY <1>2, <1>14, <1>20, <2>1, <2>2, Zenon DEF ivfru_rm, RmFields
<1> QED
  BY <1>4, <1>5, <1>23, <1>24

-----------------------------------------------------------------------------
(* fix: the area of an old image under a new header.                       *)

LEMMA SameLaid ==
  ASSUME NEW a, NEW w, NEW lens, NEW c, Laid(a, w), Tells(a, w, lens, c),
         NEW b \in Bytes, Last(w) < Len(b), \A k \in 7 .. Last(w) : b[k] = a[k]
  PROVE  Laid(b, w) /\ Tells(b, w, lens, c)
<1>1. /\ a \in Bytes /\ Len(a) \in Nat /\ Len(w) \in Nat /\ Len(w) >= 6
      /\ Last(w) \in Nat /\ Last(w) < Len(a) /\ a[Last(w)] = FRU_END_MARKER
      /\ w[1] = 7
      /\ \A k \in 1 .. Len(w) : w[k] \in Nat /\ w[k] >= 7 /\ w[k] <= Last(w)
      /\ \A k \in 1 .. Len(w) - 1 :
           /\ w[k] < Last(w) /\ a[w[k]] # FRU_END_MARKER
           /\ w[k + 1] = w[k] + 1 + fru_tl_get_length(a[w[k]])
  BY LaidIs
<1>2. w \in Seq(Pos) /\ a[w[5]] = 0
  BY DEF Laid, IsWalk
<1>3. ASSUME NEW k \in 1 .. Len(w) PROVE b[w[k]] = a[w[k]] /\ w[k] <= Len(b)
  <2>1. w[k] \in 7 .. Last(w)
    BY <1>1
  <2>2. Len(b) \in Nat
    BY BytesAre
  <2> QED
    BY <1>1, <2>1, <2>2
<1>4. b[Last(w)] = FRU_END_MARKER
  <2>1. Len(w) \in 1 .. Len(w)
    BY <1>1
  <2> QED
    BY <1>1, <1>3, <2>1 DEF Last
<1>5. b[w[5]] = 0
  <2>1. 5 \in 1 .. Len(w)
    BY <1>1
  <2> QED
    BY <1>2, <1>3, <2>1
<1>6. ASSUME NEW k \in 1 .. Len(w) - 1
      PROVE  /\ b[w[k]] # FRU_END_MARKER /\ w[k] <= Len(b)
             /\ w[k + 1] = w[k] + 1 + fru_tl_get_length(b[w[k]])
  <2>1. k \in 1 .. Len(w)
    BY <1>1
  <2> QED
    BY <1>1, <1>3, <2>1
<1>7. Laid(b, w)
  BY <1>1, <1>2, <1>4, <1>5, <1>6, LaidBy
<1>8. /\ lens = [k \in 1 .. 4 |-> fru_tl_get_length(a[w[k]])]
      /\ c \in Customs /\ Len(c) = Len(w) - 6
      /\ \A j \in 1 .. Len(c) :
           w[j + 6] = w[j + 5] + 1 + Len(c[j]) /\ At(a, w[j + 5], c[j])
  BY DEF Tells
<1>9. lens = [k \in 1 .. 4 |-> fru_tl_get_length(b[w[k]])]
  <2>1. ASSUME NEW k \in 1 .. 4 PROVE b[w[k]] = a[w[k]]
    <3>1. k \in 1 .. Len(w)
      BY <1>1
    <3> QED
      BY <1>3, <3>1
  <2> QED
    BY <1>8, <2>1
<1>10. ASSUME NEW j \in 1 .. Len(c) PROVE At(b, w[j + 5], c[j])
  <2>1. j + 5 \in 1 .. Len(w) /\ j + 6 \in 1 .. Len(w)
    BY <1>1, <1>8
  <2>2. PICK p \in Nat : p = w[j + 5]
    BY <1>1, <2>1
  <2>3. PICK n \in Nat : n = Len(c[j])
    BY <1>8, CustomsAre
  <2>4. PICK e \in Nat : e = Last(w)
    BY <1>1
  <2>5. p >= 7 /\ p + 1 + n <= e
    BY <1>1, <1>8, <2>1, <2>2, <2>3, <2>4
  <2>6. Len(b) \in Nat /\ e < Len(b)
    BY <2>4, BytesAre
  <2>7. ASSUME NEW k \in 1 .. n PROVE b[p + k] = c[j][k]
    <3>1. p + k \in 7 .. e
      BY <2>5
    <3>2. b[p + k] = a[p + k]
      BY <2>4, <3>1
    <3>3. a[p + k] = c[j][k]
      BY <1>8, <2>2, <2>3 DEF At
    <3> QED
      BY <3>2, <3>3
  <2>8. p + n <= Len(b)
    BY <2>5, <2>6
  <2> QED
    BY <2>2, <2>3, <2>7, <2>8 DEF At
<1> QED
  BY <1>7, <1>8, <1>9, <1>10 DEF Tells

LEMMA DefaultHead ==
  /\ CH_DEFAULT \in Bytes /\ Len(CH_DEFAULT) = 8
  /\ CH_DEFAULT[1] = 1 /\ CH_DEFAULT[4] = 1 /\ CH_DEFAULT[8] = 254
  BY DEF CH_DEFAULT, Bytes, Byte

(* ivfru_fix: an old image that says something is made one of today's      *)
(* format that is whole and says the same.                                 *)
THEOREM FixFaithful ==
  ASSUME NEW img, NEW m, Exact(img), fru_is_old_format(img), Says(img, m)
  PROVE  Faithful(ivfru_fix(img), m)
<1>0. PICK h \in Nat, n \in Nat, t \in Nat, z \in Nat, s \in Nat :
        h = 8 /\ n = 64 /\ t = 63 /\ z = 0 /\ s = 7
  OBVIOUS
<1>1. /\ img \in Bytes /\ img[10] = 64 /\ AreaLen(img) = 64 /\ Len(img) = 72
      /\ ivfru_validate(img)
  <2>1. /\ img \in Bytes /\ img[10] = 64 /\ Len(img) = 8 + AreaLen(img)
        /\ ivfru_validate(img)
    BY DEF Exact, ivfru_validate, Complete, Bytes
  <2>2. AreaLen(img) = 64
    BY <2>1 DEF AreaLen
  <2> QED
    BY <2>1, <2>2
<1>2. PICK a : a = Cut(img, 8, 64)
  BY Zenon
<1>3. a = Area(img)
  <2>1. 8 + 1 = 9 /\ 8 + 64 = 8 + AreaLen(img)
    BY <1>1
  <2> QED
    BY <1>2, <2>1 DEF Area, Cut
<1>4. a \in Bytes /\ Len(a) = 64 /\ \A k \in 1 .. 64 : img[8 + k] = a[k]
  <2>1. h + n <= Len(img)
    BY <1>0, <1>1
  <2>2. a \in Bytes /\ Len(a) = n /\ At(img, h, a)
    <3>1. a = Cut(img, h, n)
      BY <1>0, <1>2
    <3>2. img \in Bytes
      BY <1>1
    <3> QED
      BY <2>1, <3>1, <3>2, CutIs, Zenon
  <2> QED
    BY <1>0, <2>2 DEF At
<1>5. PICK w : w = Walk(a)
  BY Zenon
<1>6. Laid(a, w)
  BY <1>1, <1>3, <1>5, ValidIsLaid
<1>7. Tells(a, w, m.lens, m.custom) /\ DateTold(m, SubSeq(a, 4, 6))
  <2>1. Tells(a, w, m.lens, m.custom)
    BY <1>3, <1>5, <1>6, SaysTells
  <2>2. DateTold(m, SubSeq(a, 4, 6))
    BY <1>3, Zenon DEF Says, DateTold
  <2> QED
    BY <2>1, <2>2
<1>8. PICK e \in Nat : e = Last(w)
  BY <1>6, LaidIs
<1>9. e < 64 /\ e >= 7
  <2>1. /\ Last(w) < Len(a) /\ Len(w) \in Nat /\ Len(w) >= 6
        /\ \A k \in 1 .. Len(w) : w[k] \in Nat /\ w[k] >= 7 /\ w[k] <= Last(w)
    BY <1>6, LaidIs
  <2>2. 1 \in 1 .. Len(w)
    BY <2>1
  <2>3. w[1] \in Nat /\ w[1] >= 7 /\ w[1] <= Last(w)
    BY <2>1, <2>2
  <2> QED
    BY <1>4, <1>8, <2>1, <2>3
<1>10. a[1] = 1 /\ a[3] = 0 /\ \A k \in e + 1 .. 63 : a[k] = 0
  <2>1. EndOf(a) = e
    BY <1>6, <1>8, LaidWalk
  <2>2. /\ a[1] = 1 /\ a[3] = 0 /\ \A k \in EndOf(a) + 1 .. Len(a) - 1 : a[k] = 0
    BY <1>1, <1>3 DEF ivfru_validate, ivfru_bia_validate
  <2>3. Len(a) - 1 = 63
    BY <1>4
  <2> QED
    BY <2>1, <2>2, <2>3
<1>11. PICK N : N = [k \in 1 .. 64 |-> IF k = 2 THEN 8 ELSE a[k]]
  BY Zenon
<1>12. N \in Bytes /\ Len(N) = 64 /\ \A k \in 1 .. 64 : N[k] = IF k = 2 THEN 8 ELSE a[k]
  <2>1. ASSUME NEW k \in 1 .. 64 PROVE (IF k = 2 THEN 8 ELSE a[k]) \in Byte
    <3>1. a[k] \in Byte
      BY <1>4, BytesAre
    <3>2. 8 \in Byte
      BY DEF Byte
    <3> QED
      BY <3>1, <3>2
  <2>2. N \in [1 .. 64 -> Byte]
    BY <1>11, <2>1
  <2>3. N \in Seq(Byte) /\ Len(N) = 64
    BY <1>11, <2>2
  <2> QED
    BY <1>11, <2>3 DEF Bytes
<1>13. PICK C : C = Cut(N, 0, 63)
  BY Zenon
<1>14. C \in Bytes /\ Len(C) = 63 /\ \A k \in 1 .. 63 : C[k] = IF k = 2 THEN 8 ELSE a[k]
  <2>1. z + t <= Len(N)
    BY <1>0, <1>12
  <2>2. C \in Bytes /\ Len(C) = t /\ At(N, z, C)
    <3>1. C = Cut(N, z, t)
      BY <1>0, <1>13
    <3>2. N \in Bytes
      BY <1>12
    <3> QED
      BY <2>1, <3>1, <3>2, CutIs, Zenon
  <2>3. ASSUME NEW k \in 1 .. 63 PROVE C[k] = IF k = 2 THEN 8 ELSE a[k]
    <3>0. k \in 1 .. Len(C)
      BY <1>0, <2>2
    <3>2. N[z + k] = C[k]
      BY <2>2, <3>0 DEF At
    <3>1. N[z + k] = C[k] /\ z + k = k /\ k \in 1 .. 64
      BY <1>0, <3>2
    <3> QED
      BY <1>12, <3>1
  <2> QED
    BY <1>0, <2>2, <2>3
<1>15. PICK sum \in Byte : sum = fru_calculate_checksum(C)
  BY <1>14, ChecksumIsByte DEF Bytes
<1>16. PICK S : S = <<sum>>
  BY Zenon
<1>17. S \in Bytes /\ Len(S) = 1 /\ S[1] = sum
  BY <1>16, OneByte, Zenon
<1>18. PICK x : x = Glue(CH_DEFAULT, C)
  BY Zenon
<1>19. x \in Bytes /\ Len(x) = 71 /\ At(x, 0, CH_DEFAULT) /\ At(x, 8, C)
  <2>1. CH_DEFAULT \in Bytes
    BY DefaultHead
  <2>2. /\ x \in Bytes /\ Len(x) = Len(CH_DEFAULT) + Len(C)
        /\ At(x, 0, CH_DEFAULT)
        /\ At(x, Len(CH_DEFAULT), C)
    BY <1>14, <1>18, <2>1, Glued, Zenon
  <2>3. Len(CH_DEFAULT) = 8
    BY DefaultHead
  <2> QED
    BY <1>14, <2>2, <2>3
<1>20. PICK y : y = Glue(x, S)
  BY Zenon
<1>21. y \in Bytes /\ Len(y) = 72 /\ At(y, 0, x) /\ At(y, 71, S)
  <2>1. y \in Bytes /\ Len(y) = Len(x) + Len(S) /\ At(y, 0, x)
        /\ At(y, Len(x), S)
    BY <1>17, <1>19, <1>20, Glued, Zenon
  <2> QED
    BY <1>17, <1>19, <2>1
<1>22. ivfru_fix(img) = y
  <2> DEFINE cnt == img[10]
             bia == [k \in 1 .. cnt |->
                       IF 8 + k <= Len(img) THEN img[8 + k] ELSE Junk]
             new == [bia EXCEPT ![2] = cnt \div 8]
  <2>1. bia = [k \in 1 .. 64 |-> a[k]]
    <3>1. cnt = 64
      BY <1>1
    <3>2. ASSUME NEW k \in 1 .. 64
          PROVE  (IF 8 + k <= Len(img) THEN img[8 + k] ELSE Junk) = a[k]
      <4>1. 8 + k <= Len(img)
        BY <1>1
      <4> QED
        BY <1>4, <4>1
    <3> QED
      BY <3>1, <3>2
  <2>2. cnt \div 8 = 8
    BY <1>1
  <2> HIDE DEF bia, cnt
  <2>3. new = N
    BY <1>11, <2>1, <2>2
  <2>4. SubSeq(new, 1, cnt - 1) = C
    <3>1. cnt - 1 = 63 /\ 0 + 1 = 1 /\ 0 + 63 = 63
      BY <1>1 DEF cnt
    <3> QED
      BY <1>13, <2>3, <3>1 DEF Cut
  <2> HIDE DEF new
  <2>5. ivfru_fix(img) = CH_DEFAULT \o SubSeq(new, 1, cnt - 1)
                           \o <<fru_calculate_checksum(SubSeq(new, 1, cnt - 1))>>
    BY Zenon DEF ivfru_fix, new, bia, cnt
  <2> QED
    BY <1>15, <1>16, <1>18, <1>20, <2>4, <2>5, Zenon DEF Glue
<1>23. \A k \in 1 .. 8 : y[k] = CH_DEFAULT[k]
  <2>1. ASSUME NEW k \in 1 .. 8 PROVE y[k] = CH_DEFAULT[k]
    <3>1. 0 + k = k /\ k \in 1 .. Len(x) /\ k \in 1 .. Len(CH_DEFAULT)
      BY <1>19, DefaultHead
    <3>2. y[0 + k] = x[k] /\ x[0 + k] = CH_DEFAULT[k]
      BY <1>19, <1>21, <3>1 DEF At
    <3> QED
      BY <3>1, <3>2
  <2> QED
    BY <2>1
<1>24. \A k \in 1 .. 63 : y[8 + k] = IF k = 2 THEN 8 ELSE a[k]
  <2>1. ASSUME NEW k \in 1 .. 63 PROVE y[8 + k] = IF k = 2 THEN 8 ELSE a[k]
    <3>1. 0 + (8 + k) = 8 + k /\ 8 + k \in 1 .. Len(x) /\ k \in 1 .. Len(C)
      BY <1>14, <1>19
    <3>2. y[0 + (8 + k)] = x[8 + k] /\ x[8 + k] = C[k]
      BY <1>19, <1>21, <3>1 DEF At
    <3> QED
      BY <1>14, <3>1, <3>2
  <2> QED
    BY <2>1
<1>25. y[72] = sum
  <2>1. y[71 + 1] = S[1] /\ 71 + 1 = 72
    BY <1>17, <1>21 DEF At
  <2> QED
    BY <1>17, <2>1
<1>26. Cut(y, 8, 63) = C
  <2>1. PICK c : c = Cut(y, 8, 63)
    BY Zenon
  <2>2. h + t <= Len(y)
    BY <1>0, <1>21
  <2>3. c \in Bytes /\ Len(c) = t /\ At(y, h, c)
    <3>1. c = Cut(y, h, t)
      BY <1>0, <2>1
    <3>2. y \in Bytes
      BY <1>21
    <3> QED
      BY <2>2, <3>1, <3>2, CutIs, Zenon
  <2>4. ASSUME NEW k \in 1 .. 63 PROVE c[k] = C[k]
    <3>1. y[8 + k] = c[k]
      BY <1>0, <2>3 DEF At
    <3> QED
      BY <1>14, <1>24, <3>1
  <2>5. \A k \in 1 .. Len(c) : c[k] = C[k]
    BY <1>0, <2>3, <2>4
  <2>6. Len(c) = Len(C)
    BY <1>0, <1>14, <2>3
  <2>7. c = C
    BY <1>14, <2>3, <2>5, <2>6, SameBytes
  <2> QED
    BY <2>1, <2>7
<1>27. PICK b : b = Cut(y, 8, 64)
  BY Zenon
<1>28. b \in Bytes /\ Len(b) = 64 /\ \A k \in 1 .. 63 : b[k] = IF k = 2 THEN 8 ELSE a[k]
  <2>1. h + n <= Len(y)
    BY <1>0, <1>21
  <2>2. b \in Bytes /\ Len(b) = n /\ At(y, h, b)
    <3>1. b = Cut(y, h, n)
      BY <1>0, <1>27
    <3>2. y \in Bytes
      BY <1>21
    <3> QED
      BY <2>1, <3>1, <3>2, CutIs, Zenon
  <2>3. ASSUME NEW k \in 1 .. 63 PROVE b[k] = IF k = 2 THEN 8 ELSE a[k]
    <3>1. k \in 1 .. 64
      OBVIOUS
    <3>2. y[8 + k] = b[k]
      BY <1>0, <2>2, <3>1 DEF At
    <3> QED
      BY <1>24, <3>2
  <2> QED
    BY <1>0, <2>2, <2>3
<1>29. Laid(b, w) /\ Tells(b, w, m.lens, m.custom)
  <2>1. \A k \in 7 .. Last(w) : b[k] = a[k]
    <3>1. ASSUME NEW k \in 7 .. e PROVE b[k] = a[k]
      <4>1. k \in 1 .. 63 /\ k # 2
        BY <1>9
      <4> QED
        BY <1>28, <4>1
    <3> QED
      BY <1>8, <3>1
  <2>2. Last(w) < Len(b)
    BY <1>8, <1>9, <1>28
  <2> QED
    <3>1. PICK lens : lens = m.lens
      BY Zenon
    <3>2. PICK c : c = m.custom
      BY Zenon
    <3>3. Tells(a, w, lens, c)
      BY <1>7, <3>1, <3>2
    <3>4. b \in Bytes
      BY <1>28
    <3>5. Laid(b, w) /\ Tells(b, w, lens, c)
      BY <1>6, <2>1, <2>2, <3>3, <3>4, SameLaid, Zenon
    <3> QED
      BY <3>1, <3>2, <3>5, Zenon
<1>30. NewImage(y, 8, w)
  <2>1. y[1] = 1 /\ y[4] = 1 /\ y[8] = 254
    BY <1>23, DefaultHead
  <2>2. y[9] = 1 /\ y[10] = 8 /\ y[11] = 0
    <3>1. 8 + 1 = 9 /\ 8 + 2 = 10 /\ 8 + 3 = 11 /\ 1 \in 1 .. 63
          /\ 2 \in 1 .. 63 /\ 3 \in 1 .. 63
      OBVIOUS
    <3>2. y[8 + 1] = a[1] /\ y[8 + 2] = 8 /\ y[8 + 3] = a[3]
      BY <1>24, <3>1
    <3> QED
      BY <1>10, <3>1, <3>2
  <2>3. y[8] = fru_calculate_checksum(Cut(y, 0, 7))
    <3>1. z + s <= Len(y) /\ z + s <= Len(CH_DEFAULT)
      BY <1>0, <1>21, DefaultHead
    <3>2. CH_DEFAULT \in Bytes
      BY DefaultHead
    <3>3. \A k \in 1 .. s : y[z + k] = CH_DEFAULT[z + k]
      BY <1>0, <1>23
    <3>6. Cut(y, z, s) = Cut(CH_DEFAULT, z, s)
      BY <1>21, <3>1, <3>2, <3>3, SameCut, ZenonT(30)
    <3>4. Cut(y, 0, 7) = Cut(CH_DEFAULT, 0, 7)
      BY <1>0, <3>6
    <3>5. Cut(CH_DEFAULT, 0, 7) = SubSeq(CH_DEFAULT, 1, 7)
      BY DEF Cut
    <3> QED
      BY <2>1, <3>4, <3>5, HeaderChecksum
  <2>4. 8 * 8 = 64 /\ 8 + 8 * 8 = 72 /\ 7 + 8 * 8 = 71 /\ 8 * 8 - 1 = 63
        /\ 8 \in Nat
    OBVIOUS
  <2>5. \A k \in 9 + Last(w) .. 71 : y[k] = 0
    <3>1. ASSUME NEW k \in 9 + e .. 71 PROVE y[k] = 0
      <4>1. k - 8 \in e + 1 .. 63 /\ k - 8 \in 1 .. 63 /\ k - 8 # 2
            /\ 8 + (k - 8) = k
        BY <1>9
      <4>2. y[8 + (k - 8)] = a[k - 8]
        BY <1>24, <4>1
      <4>3. a[k - 8] = 0
        BY <1>10, <4>1
      <4> QED
        BY <4>1, <4>2, <4>3
    <3> QED
      BY <1>8, <3>1
  <2>6. y[72] = fru_calculate_checksum(Cut(y, 8, 63))
    BY <1>15, <1>25, <1>26
  <2>7. Laid(Cut(y, 8, 64), w)
    BY <1>27, <1>29
  <2> QED
    BY <1>21, <2>1, <2>2, <2>3, <2>4, <2>5, <2>6, <2>7 DEF NewImage
<1>31. Exact(y) /\ Area(y) = b /\ y[10] = 8
  <2>1. 8 * 8 = 64
    OBVIOUS
  <2>2. PICK q \in Nat : q = 8
    OBVIOUS
  <2>3. NewImage(y, q, w)
    BY <1>30, <2>2
  <2>4. Exact(y) /\ Area(y) = Cut(y, 8, 8 * q)
    BY <2>3, NewImageExact
  <2>5. Area(y) = b
    BY <1>27, <2>1, <2>2, <2>4
  <2>6. y[10] = 8
    BY <2>2, <2>3 DEF NewImage
  <2> QED
    BY <2>4, <2>5, <2>6
<1>32. SubSeq(b, 4, 6) = SubSeq(a, 4, 6)
  <2>1. 3 \in Nat /\ 3 + 3 <= Len(b) /\ 3 + 3 <= Len(a) /\ 3 + 1 = 4
        /\ 3 + 3 = 6
    BY <1>4, <1>28
  <2>2. PICK d \in Nat : d = 3
    OBVIOUS
  <2>3. \A k \in 1 .. d : b[d + k] = a[d + k]
    BY <1>28, <2>2
  <2>4. d + d <= Len(b) /\ d + d <= Len(a) /\ a \in Bytes /\ b \in Bytes
    BY <1>4, <1>28, <2>1, <2>2
  <2>5. Cut(b, d, d) = Cut(a, d, d)
    BY <2>3, <2>4, SameCut, ZenonT(30)
  <2>6. d + 1 = 4 /\ d + d = 6
    BY <2>2
  <2> QED
    BY <2>5, <2>6 DEF Cut
<1>33. Says(y, m)
  <2>1. Laid(Area(y), w) /\ Tells(Area(y), w, m.lens, m.custom)
    BY <1>29, <1>31
  <2>2. minutes(m.date) \in 1 .. IpmiTimes - 1 =>
          ipmi_time_to_date(SubSeq(Area(y), 4, 6)) = m.date
    BY <1>7, <1>31, <1>32, Zenon DEF DateTold
  <2> QED
    BY <2>1, <2>2, TellsSays, Zenon
<1> QED
  BY <1>22, <1>31, <1>33 DEF Faithful

-----------------------------------------------------------------------------
(* create: four fields and the end, behind a header of its own.            *)

Joined(u, s, m, t, n) ==
  /\ u \in Bytes /\ Len(u) = m + n
  /\ \A k \in 1 .. m : u[k] = s[k]
  /\ \A k \in 1 .. n : u[m + k] = t[k]

LEMMA GlueAt ==
  ASSUME NEW s \in Bytes, NEW t \in Bytes, NEW m \in Nat, NEW n \in Nat,
         m = Len(s), n = Len(t), NEW u, u = Glue(s, t)
  PROVE  Joined(u, s, m, t, n)
<1>1. u \in Bytes /\ Len(u) = Len(s) + Len(t) /\ At(u, 0, s)
      /\ At(u, Len(s), t)
  BY Glued, Zenon
<1>2. ASSUME NEW k \in 1 .. m PROVE u[k] = s[k]
  <2>1. k \in 1 .. Len(s) /\ 0 + k = k
    OBVIOUS
  <2>2. u[0 + k] = s[k]
    BY <1>1, <2>1 DEF At
  <2> QED
    BY <2>1, <2>2
<1>3. ASSUME NEW k \in 1 .. n PROVE u[m + k] = t[k]
  BY <1>1 DEF At
<1> QED
  BY <1>1, <1>2, <1>3 DEF Joined

FieldStarts(f, A, B, C, D, T, a, b, c, d) ==
  /\ f \in Bytes /\ Len(f) = a + b + c + d + 2
  /\ f[1] = A[1] /\ f[a + 1] = B[1] /\ f[a + b + 1] = C[1]
  /\ f[a + b + c + 1] = D[1]
  /\ f[a + b + c + d + 1] = T[1] /\ f[a + b + c + d + 2] = T[2]

LEMMA FourAndEnd ==
  ASSUME NEW A \in Bytes, NEW B \in Bytes, NEW C \in Bytes, NEW D \in Bytes,
         NEW T \in Bytes, NEW a \in Nat, NEW b \in Nat, NEW c \in Nat, NEW d \in Nat,
         Len(A) = a, Len(B) = b, Len(C) = c, Len(D) = d, Len(T) = 2,
         a >= 1, b >= 1, c >= 1, d >= 1,
         NEW f, f = Glue(Glue(Glue(Glue(A, B), C), D), T)
  PROVE  FieldStarts(f, A, B, C, D, T, a, b, c, d)
<1>1. PICK x : x = Glue(A, B)
  BY Zenon
<1>2. PICK y : y = Glue(x, C)
  BY Zenon
<1>3. PICK z : z = Glue(y, D)
  BY Zenon
<1>4. f = Glue(z, T)
  BY <1>1, <1>2, <1>3, Zenon
<1>5. PICK i \in Nat, j \in Nat, l \in Nat, t \in Nat :
        i = a + b /\ j = i + c /\ l = j + d /\ t = 2
  OBVIOUS
<1>6. /\ x \in Bytes /\ Len(x) = i
      /\ \A k \in 1 .. a : x[k] = A[k]
      /\ \A k \in 1 .. b : x[a + k] = B[k]
  <2>1. Joined(x, A, a, B, b)
    BY <1>1, GlueAt, Zenon
  <2> QED
    BY <1>5, <2>1 DEF Joined
<1>7. /\ y \in Bytes /\ Len(y) = j
      /\ \A k \in 1 .. i : y[k] = x[k]
      /\ \A k \in 1 .. c : y[i + k] = C[k]
  <2>1. Joined(y, x, i, C, c)
    BY <1>2, <1>6, GlueAt, Zenon
  <2> QED
    BY <1>5, <2>1 DEF Joined
<1>8. /\ z \in Bytes /\ Len(z) = l
      /\ \A k \in 1 .. j : z[k] = y[k]
      /\ \A k \in 1 .. d : z[j + k] = D[k]
  <2>1. Joined(z, y, j, D, d)
    BY <1>3, <1>7, GlueAt, Zenon
  <2> QED
    BY <1>5, <2>1 DEF Joined
<1>9. /\ f \in Bytes /\ Len(f) = l + t
      /\ \A k \in 1 .. l : f[k] = z[k]
      /\ \A k \in 1 .. t : f[l + k] = T[k]
  <2>1. t = Len(T)
    BY <1>5
  <2>2. Joined(f, z, l, T, t)
    BY <1>4, <1>8, <2>1, GlueAt, Zenon
  <2> QED
    BY <2>2 DEF Joined
<1>10. 1 \in 1 .. a /\ 1 \in 1 .. i /\ 1 \in 1 .. j /\ 1 \in 1 .. l
  BY <1>5
<1>11. f[1] = A[1]
  BY <1>6, <1>7, <1>8, <1>9, <1>10
<1>12. a + 1 \in 1 .. i /\ a + 1 \in 1 .. j /\ a + 1 \in 1 .. l /\ 1 \in 1 .. b
  BY <1>5
<1>13. f[a + 1] = B[1]
  BY <1>6, <1>7, <1>8, <1>9, <1>12
<1>14. i + 1 \in 1 .. j /\ i + 1 \in 1 .. l /\ 1 \in 1 .. c
  BY <1>5
<1>15. f[i + 1] = C[1]
  BY <1>7, <1>8, <1>9, <1>14
<1>16. j + 1 \in 1 .. l /\ 1 \in 1 .. d
  BY <1>5
<1>17. f[j + 1] = D[1]
  BY <1>8, <1>9, <1>16
<1>18. 1 \in 1 .. t /\ 2 \in 1 .. t
  BY <1>5
<1>19. f[l + 1] = T[1] /\ f[l + 2] = T[2]
  BY <1>9, <1>18
<1>20. i = a + b /\ j = a + b + c /\ l = a + b + c + d
       /\ l + t = a + b + c + d + 2
  BY <1>5
<1> QED
  BY <1>9, <1>11, <1>13, <1>15, <1>17, <1>19, <1>20 DEF FieldStarts

LEMMA PredefinedIs ==
  ASSUME NEW n \in 2 .. 63
  PROVE  /\ Predefined(n) \in Bytes /\ Len(Predefined(n)) = n + 1
         /\ Predefined(n)[1] = 192 + n
         /\ 192 + n # FRU_END_MARKER /\ fru_tl_get_length(192 + n) = n
<1>1. n \in Nat /\ n # 0 /\ 65 \in Byte /\ 192 + n \in Byte
  BY DEF Byte
<1>2. PICK t : t = Text(n)
  BY Zenon
<1>3. t \in Bytes /\ Len(t) = n
  BY <1>1, <1>2, Filled DEF Text
<1>4. PICK h : h = <<192 + n>>
  BY Zenon
<1>5. h \in Bytes /\ Len(h) = 1 /\ h[1] = 192 + n
  BY <1>1, <1>4, OneByte
<1>6. Predefined(n) = Glue(h, t)
  BY <1>1, <1>2, <1>3, <1>4 DEF Predefined, fru_area_format_field, Glue
<1>7. PICK o \in Nat : o = 1
  OBVIOUS
<1>8. PICK u : u = Glue(h, t)
  BY Zenon
<1>9. o = Len(h) /\ n = Len(t) /\ n \in Nat
  BY <1>1, <1>3, <1>5, <1>7
<1>10. u \in Bytes /\ Len(u) = o + n /\ \A k \in 1 .. o : u[k] = h[k]
  <2>1. Joined(u, h, o, t, n)
    BY <1>3, <1>5, <1>8, <1>9, GlueAt, Zenon
  <2> QED
    BY <2>1 DEF Joined
<1>11. u \in Bytes /\ Len(u) = n + 1 /\ u[1] = 192 + n
  BY <1>5, <1>7, <1>10
<1>12. 192 + n # FRU_END_MARKER /\ fru_tl_get_length(192 + n) = n
  BY DEF FRU_END_MARKER, fru_tl_get_length
<1> QED
  BY <1>6, <1>8, <1>11, <1>12

Four(lens) ==
  Glue(Glue(Glue(Glue(Predefined(lens[1]), Predefined(lens[2])),
                 Predefined(lens[3])), Predefined(lens[4])), <<0, FRU_END_MARKER>>)

SixPlaces(w, a, b, c, d) ==
  /\ w \in Seq(Pos) /\ Len(w) = 6
  /\ w[1] = 7 /\ w[2] = 7 + a /\ w[3] = 7 + a + b
  /\ w[4] = 7 + a + b + c /\ w[5] = 7 + a + b + c + d
  /\ w[6] = 8 + a + b + c + d

LEMMA SixExist ==
  ASSUME NEW a \in Nat, NEW b \in Nat, NEW c \in Nat, NEW d \in Nat
  PROVE  \E w : SixPlaces(w, a, b, c, d)
<1> DEFINE w == <<7, 7 + a, 7 + a + b, 7 + a + b + c, 7 + a + b + c + d,
                  8 + a + b + c + d>>
<1>1. /\ 7 \in Pos /\ 7 + a \in Pos /\ 7 + a + b \in Pos
      /\ 7 + a + b + c \in Pos
      /\ 7 + a + b + c + d \in Pos /\ 8 + a + b + c + d \in Pos
  BY DEF Pos
<1>2. w \in Seq(Pos) /\ Len(w) = 6
  BY <1>1
<1>3. /\ w[1] = 7 /\ w[2] = 7 + a /\ w[3] = 7 + a + b
      /\ w[4] = 7 + a + b + c /\ w[5] = 7 + a + b + c + d
      /\ w[6] = 8 + a + b + c + d
  OBVIOUS
<1> HIDE DEF w
<1>4. SixPlaces(w, a, b, c, d)
  BY <1>2, <1>3 DEF SixPlaces
<1> QED
  BY <1>4

LEMMA FourLays ==
  ASSUME NEW lens, NEW m, \A k \in 1 .. 4 : lens[k] \in 2 .. 63,
         lens \in [1 .. 4 -> Nat], m.lens = lens, m.custom = <<>>
  PROVE  /\ Len(Four(lens)) = lens[1] + lens[2] + lens[3] + lens[4] + 6
         /\ Len(Four(lens)) \in Nat /\ Len(Four(lens)) <= 258
         /\ \E w : Lays(Four(lens), w, m)
<1>0. ASSUME NEW k \in 1 .. 4 PROVE \E x \in Nat : x = lens[k] /\ x >= 2 /\ x <= 63
  <2>1. PICK x \in 2 .. 63 : x = lens[k]
    OBVIOUS
  <2>2. x \in Nat /\ x >= 2 /\ x <= 63
    OBVIOUS
  <2> QED
    BY <2>1, <2>2
<1>n. 1 \in 1 .. 4 /\ 2 \in 1 .. 4 /\ 3 \in 1 .. 4 /\ 4 \in 1 .. 4
  OBVIOUS
<1>a. PICK l1 \in Nat : l1 = lens[1] /\ l1 >= 2 /\ l1 <= 63
  BY <1>0, <1>n
<1>b. PICK l2 \in Nat : l2 = lens[2] /\ l2 >= 2 /\ l2 <= 63
  BY <1>0, <1>n
<1>c. PICK l3 \in Nat : l3 = lens[3] /\ l3 >= 2 /\ l3 <= 63
  BY <1>0, <1>n
<1>d. PICK l4 \in Nat : l4 = lens[4] /\ l4 >= 2 /\ l4 <= 63
  BY <1>0, <1>n
<1>e. PICK a \in Nat : a = l1 + 1
  OBVIOUS
<1>f. PICK b \in Nat : b = l2 + 1
  OBVIOUS
<1>g. PICK c \in Nat : c = l3 + 1
  OBVIOUS
<1>h. PICK d \in Nat : d = l4 + 1
  OBVIOUS
<1>1. /\ a = l1 + 1 /\ b = l2 + 1 /\ c = l3 + 1 /\ d = l4 + 1
      /\ a >= 1 /\ b >= 1 /\ c >= 1 /\ d >= 1
      /\ a <= 64 /\ b <= 64 /\ c <= 64 /\ d <= 64
  <2>1. /\ l1 >= 2 /\ l2 >= 2 /\ l3 >= 2 /\ l4 >= 2
        /\ l1 <= 63 /\ l2 <= 63 /\ l3 <= 63 /\ l4 <= 63
    BY <1>a, <1>b, <1>c, <1>d, Zenon
  <2> QED
    BY <1>e, <1>f, <1>g, <1>h, <2>1
<1>2. PICK A : A = Predefined(lens[1])
  BY Zenon
<1>3. PICK B : B = Predefined(lens[2])
  BY Zenon
<1>4. PICK C : C = Predefined(lens[3])
  BY Zenon
<1>5. PICK D : D = Predefined(lens[4])
  BY Zenon
<1>6. PICK T : T = <<0, FRU_END_MARKER>>
  BY Zenon
<1>7. PICK f : f = Four(lens)
  BY Zenon
<1>8. f = Glue(Glue(Glue(Glue(A, B), C), D), T)
  BY <1>2, <1>3, <1>4, <1>5, <1>6, <1>7, Zenon DEF Four
<1>9. ASSUME NEW k \in 1 .. 4, NEW P, P = Predefined(lens[k])
      PROVE  /\ P \in Bytes /\ Len(P) = lens[k] + 1
             /\ P[1] = 192 + lens[k] /\ P[1] # FRU_END_MARKER
             /\ fru_tl_get_length(P[1]) = lens[k]
  <2>1. PICK n \in 2 .. 63 : n = lens[k]
    OBVIOUS
  <2>2. P = Predefined(n)
    BY <1>9, <2>1
  <2> QED
    <3>1. /\ Predefined(n) \in Bytes /\ Len(Predefined(n)) = n + 1
          /\ Predefined(n)[1] = 192 + n
          /\ 192 + n # FRU_END_MARKER /\ fru_tl_get_length(192 + n) = n
      BY PredefinedIs
    <3> QED
      BY <2>1, <2>2, <3>1
<1>10. /\ A \in Bytes /\ Len(A) = a /\ A[1] # FRU_END_MARKER
       /\ fru_tl_get_length(A[1]) = l1
  <2>1. 1 \in 1 .. 4
    OBVIOUS
  <2>2. A \in Bytes /\ Len(A) = lens[1] + 1 /\ A[1] # FRU_END_MARKER
        /\ fru_tl_get_length(A[1]) = lens[1]
    BY <1>2, <1>9, <2>1
  <2> QED
    BY <1>1, <1>a, <2>2
<1>11. /\ B \in Bytes /\ Len(B) = b /\ B[1] # FRU_END_MARKER
       /\ fru_tl_get_length(B[1]) = l2
  <2>1. 2 \in 1 .. 4
    OBVIOUS
  <2>2. B \in Bytes /\ Len(B) = lens[2] + 1 /\ B[1] # FRU_END_MARKER
        /\ fru_tl_get_length(B[1]) = lens[2]
    BY <1>3, <1>9, <2>1
  <2> QED
    BY <1>1, <1>b, <2>2
<1>12. /\ C \in Bytes /\ Len(C) = c /\ C[1] # FRU_END_MARKER
       /\ fru_tl_get_length(C[1]) = l3
  <2>1. 3 \in 1 .. 4
    OBVIOUS
  <2>2. C \in Bytes /\ Len(C) = lens[3] + 1 /\ C[1] # FRU_END_MARKER
        /\ fru_tl_get_length(C[1]) = lens[3]
    BY <1>4, <1>9, <2>1
  <2> QED
    BY <1>1, <1>c, <2>2
<1>13. /\ D \in Bytes /\ Len(D) = d /\ D[1] # FRU_END_MARKER
       /\ fru_tl_get_length(D[1]) = l4
  <2>1. 4 \in 1 .. 4
    OBVIOUS
  <2>2. D \in Bytes /\ Len(D) = lens[4] + 1 /\ D[1] # FRU_END_MARKER
        /\ fru_tl_get_length(D[1]) = lens[4]
    BY <1>5, <1>9, <2>1
  <2> QED
    BY <1>1, <1>d, <2>2
<1>14. T \in Bytes /\ Len(T) = 2 /\ T[1] = 0 /\ T[2] = FRU_END_MARKER
  <2>1. 0 \in Byte /\ FRU_END_MARKER \in Byte
    BY DEF Byte, FRU_END_MARKER
  <2> QED
    BY <1>6, <2>1, TwoBytes
<1>15. /\ f \in Bytes /\ Len(f) = a + b + c + d + 2
       /\ f[1] = A[1] /\ f[a + 1] = B[1] /\ f[a + b + 1] = C[1]
       /\ f[a + b + c + 1] = D[1]
       /\ f[a + b + c + d + 1] = 0 /\ f[a + b + c + d + 2] = FRU_END_MARKER
  <2>1. a >= 1 /\ b >= 1 /\ c >= 1 /\ d >= 1
    BY <1>1
  <2>2. FieldStarts(f, A, B, C, D, T, a, b, c, d)
    BY <1>8, <1>10, <1>11, <1>12, <1>13, <1>14, <2>1, FourAndEnd
  <2> QED
    BY <1>14, <2>2 DEF FieldStarts
<1>w. PICK w : SixPlaces(w, a, b, c, d)
  BY SixExist, Zenon
<1>16. /\ w \in Seq(Pos) /\ Len(w) = 6
       /\ w[1] = 7 /\ w[2] = 7 + a /\ w[3] = 7 + a + b
       /\ w[4] = 7 + a + b + c /\ w[5] = 7 + a + b + c + d
       /\ w[6] = 8 + a + b + c + d
  BY <1>w DEF SixPlaces
<1>17. Last(w) = 8 + a + b + c + d /\ Last(w) = 6 + Len(f)
  <2>1. Last(w) = 8 + a + b + c + d
    BY <1>16 DEF Last
  <2> QED
    BY <1>15, <2>1
<1>18. ASSUME NEW u, Framed(u, f)
       PROVE  Laid(u, w) /\ Tells(u, w, m.lens, m.custom)
  <2>1. u \in Bytes /\ Len(u) \in Nat /\ Len(u) > 6 + Len(f)
        /\ \A k \in 1 .. Len(f) : u[6 + k] = f[k]
    BY <1>18, BytesAre DEF Framed, At
  <2>2. ASSUME NEW k \in 1 .. a + b + c + d + 2 PROVE u[6 + k] = f[k]
    BY <1>15, <2>1
  <2>3. u[7] = A[1]
    <3>1. 1 \in 1 .. a + b + c + d + 2 /\ 6 + 1 = 7
      OBVIOUS
    <3> QED
      BY <1>15, <2>2, <3>1
  <2>4. u[7 + a] = B[1]
    <3>1. a + 1 \in 1 .. a + b + c + d + 2 /\ 6 + (a + 1) = 7 + a
      OBVIOUS
    <3> QED
      BY <1>15, <2>2, <3>1
  <2>5. u[7 + a + b] = C[1]
    <3>1. a + b + 1 \in 1 .. a + b + c + d + 2 /\ 6 + (a + b + 1) = 7 + a + b
      OBVIOUS
    <3> QED
      BY <1>15, <2>2, <3>1
  <2>6. u[7 + a + b + c] = D[1]
    <3>1. a + b + c + 1 \in 1 .. a + b + c + d + 2
          /\ 6 + (a + b + c + 1) = 7 + a + b + c
      OBVIOUS
    <3> QED
      BY <1>15, <2>2, <3>1
  <2>7. u[7 + a + b + c + d] = 0
    <3>1. a + b + c + d + 1 \in 1 .. a + b + c + d + 2
          /\ 6 + (a + b + c + d + 1) = 7 + a + b + c + d
      OBVIOUS
    <3> QED
      BY <1>15, <2>2, <3>1
  <2>8. u[8 + a + b + c + d] = FRU_END_MARKER
    <3>1. a + b + c + d + 2 \in 1 .. a + b + c + d + 2
          /\ 6 + (a + b + c + d + 2) = 8 + a + b + c + d
      OBVIOUS
    <3> QED
      BY <1>15, <2>2, <3>1
  <2>9. /\ u[w[1]] = A[1] /\ u[w[2]] = B[1] /\ u[w[3]] = C[1] /\ u[w[4]] = D[1]
        /\ u[w[5]] = 0 /\ u[Last(w)] = FRU_END_MARKER
    BY <1>16, <1>17, <2>3, <2>4, <2>5, <2>6, <2>7, <2>8
  <2>10. 0 # FRU_END_MARKER /\ fru_tl_get_length(0) = 0
    BY DEF fru_tl_get_length, FRU_END_MARKER
  <2>11. Len(u) > 8 + a + b + c + d
    BY <1>17, <2>1
  <2>e. PICK n \in Nat : n = Len(u)
    BY <2>1
  <2>f. n > 8 + a + b + c + d
    BY <2>11, <2>e
  <2>12. ASSUME NEW k \in 1 .. Len(w) - 1
         PROVE  /\ u[w[k]] # FRU_END_MARKER /\ w[k] <= Len(u)
                /\ w[k + 1] = w[k] + 1 + fru_tl_get_length(u[w[k]])
    <3>1. k \in 1 .. 5
      BY <1>16
    <3>2. CASE k = 1
      <4>1. w[k] = 7 /\ w[k + 1] = 7 + a /\ u[w[k]] = A[1]
        BY <1>16, <2>9, <3>2
      <4> QED
        <5>1. u[w[k]] # FRU_END_MARKER /\ fru_tl_get_length(u[w[k]]) = l1
          BY <1>10, <4>1, Zenon
        <5>2. 7 <= Len(u) /\ 7 + a = 7 + 1 + l1
          BY <1>1, <2>e, <2>f
        <5> QED
          BY <4>1, <5>1, <5>2, Zenon
    <3>3. CASE k = 2
      <4>1. w[k] = 7 + a /\ w[k + 1] = 7 + a + b /\ u[w[k]] = B[1]
        BY <1>16, <2>9, <3>3
      <4> QED
        <5>1. u[w[k]] # FRU_END_MARKER /\ fru_tl_get_length(u[w[k]]) = l2
          BY <1>11, <4>1, Zenon
        <5>2. 7 + a <= Len(u) /\ 7 + a + b = 7 + a + 1 + l2
          BY <1>1, <2>e, <2>f
        <5> QED
          BY <4>1, <5>1, <5>2, Zenon
    <3>4. CASE k = 3
      <4>1. w[k] = 7 + a + b /\ w[k + 1] = 7 + a + b + c /\ u[w[k]] = C[1]
        BY <1>16, <2>9, <3>4
      <4> QED
        <5>1. u[w[k]] # FRU_END_MARKER /\ fru_tl_get_length(u[w[k]]) = l3
          BY <1>12, <4>1, Zenon
        <5>2. 7 + a + b <= Len(u) /\ 7 + a + b + c = 7 + a + b + 1 + l3
          BY <1>1, <2>e, <2>f
        <5> QED
          BY <4>1, <5>1, <5>2, Zenon
    <3>5. CASE k = 4
      <4>1. w[k] = 7 + a + b + c /\ w[k + 1] = 7 + a + b + c + d
            /\ u[w[k]] = D[1]
        BY <1>16, <2>9, <3>5
      <4> QED
        <5>1. u[w[k]] # FRU_END_MARKER /\ fru_tl_get_length(u[w[k]]) = l4
          BY <1>13, <4>1, Zenon
        <5>2. 7 + a + b + c <= Len(u)
              /\ 7 + a + b + c + d = 7 + a + b + c + 1 + l4
          BY <1>1, <2>e, <2>f
        <5> QED
          BY <4>1, <5>1, <5>2, Zenon
    <3>6. CASE k = 5
      <4>1. w[k] = 7 + a + b + c + d /\ w[k + 1] = 8 + a + b + c + d
            /\ u[w[k]] = 0
        BY <1>16, <2>9, <3>6
      <4> QED
        <5>1. u[w[k]] # FRU_END_MARKER /\ fru_tl_get_length(u[w[k]]) = 0
          BY <2>10, <4>1, Zenon
        <5>2. 7 + a + b + c + d <= Len(u)
              /\ 8 + a + b + c + d = 7 + a + b + c + d + 1 + 0
          BY <1>1, <2>e, <2>f
        <5> QED
          BY <4>1, <5>1, <5>2, Zenon
    <3> QED
      BY <3>1, <3>2, <3>3, <3>4, <3>5, <3>6
  <2>13. Laid(u, w)
    <3>1. Len(w) >= 6 /\ w \in Seq(Pos) /\ w[1] = 7
      BY <1>16
    <3>2. Last(w) < Len(u)
      BY <1>17, <2>1, <2>11
    <3> QED
      BY <2>1, <2>9, <2>12, <3>1, <3>2, LaidBy
  <2>14. m.lens = [k \in 1 .. 4 |-> fru_tl_get_length(u[w[k]])]
    <3>1. ASSUME NEW k \in 1 .. 4 PROVE lens[k] = fru_tl_get_length(u[w[k]])
      <4>1. k = 1 \/ k = 2 \/ k = 3 \/ k = 4
        OBVIOUS
      <4> QED
        BY <1>a, <1>b, <1>c, <1>d, <1>10, <1>11, <1>12, <1>13, <2>9, <4>1
    <3> QED
      BY <3>1
  <2>15. m.custom \in Customs /\ Len(m.custom) = Len(w) - 6
         /\ Len(m.custom) = 0
    <3>1. <<>> \in Customs /\ Len(<<>>) = 0
      BY DEF Customs
    <3> QED
      BY <1>16, <3>1
  <2> QED
    BY <2>13, <2>14, <2>15 DEF Tells
<1>19. Lays(f, w, m)
  BY <1>15, <1>17, <1>18 DEF Lays
<1>20. Len(f) = lens[1] + lens[2] + lens[3] + lens[4] + 6 /\ Len(f) \in Nat
       /\ Len(f) <= 258
  <2>1. Len(f) = l1 + l2 + l3 + l4 + 6 /\ Len(f) \in Nat /\ Len(f) <= 258
    BY <1>1, <1>15
  <2> QED
    BY <1>a, <1>b, <1>c, <1>d, <2>1
<1> QED
  BY <1>7, <1>19, <1>20

-----------------------------------------------------------------------------
(* Dates.                                                                  *)

LeapYears(y) == {k \in 1996 .. y - 1 : IsLeap(k)}

LEMMA LeapsFinite ==
  ASSUME NEW y \in Int
  PROVE  IsFiniteSet(LeapYears(y)) /\ Cardinality(LeapYears(y)) \in Nat
<1>1. PICK e \in Int : e = y - 1
  OBVIOUS
<1>2. PICK b \in Int : b = 1996
  OBVIOUS
<1>3. IsFiniteSet(b .. e)
  BY FS_Interval
<1>4. LeapYears(y) \in SUBSET (b .. e)
  BY <1>1, <1>2 DEF LeapYears
<1>5. IsFiniteSet(LeapYears(y))
  BY <1>3, <1>4, FS_Subset, Zenon
<1> QED
  BY <1>5, FS_CardinalityType, Zenon

LEMMA LeapsGrow ==
  ASSUME NEW y \in Int, NEW z \in Int, y <= z
  PROVE  Cardinality(LeapYears(y)) <= Cardinality(LeapYears(z))
<1>1. LeapYears(y) \in SUBSET LeapYears(z)
  BY DEF LeapYears
<1>2. IsFiniteSet(LeapYears(z))
  BY LeapsFinite
<1> QED
  BY <1>1, <1>2, FS_Subset, Zenon

LEMMA OneMore ==
  ASSUME NEW S, IsFiniteSet(S), NEW x, x \notin S, NEW T, T = S \cup {x}
  PROVE  Cardinality(T) = Cardinality(S) + 1
<1>1. Cardinality(S \cup {x}) = IF x \in S THEN Cardinality(S) ELSE Cardinality(S) + 1
  BY FS_AddElement, Zenon
<1> QED
  BY <1>1, Zenon

LeapDay(y) == IF IsLeap(y) THEN 1 ELSE 0

LEMMA NextYear ==
  ASSUME NEW y \in Int, y >= 1996
  PROVE  Cardinality(LeapYears(y + 1)) = Cardinality(LeapYears(y)) + LeapDay(y)
<1>1. PICK z \in Int : z = y + 1
  OBVIOUS
<1>2. IsFiniteSet(LeapYears(y)) /\ Cardinality(LeapYears(y)) \in Nat
  BY LeapsFinite
<1>3. CASE IsLeap(y)
  <2>1. LeapYears(z) = LeapYears(y) \cup {y} /\ y \notin LeapYears(y)
    BY <1>1, <1>3 DEF LeapYears
  <2>2. Cardinality(LeapYears(z)) = Cardinality(LeapYears(y)) + 1
    BY <1>2, <2>1, OneMore
  <2> QED
    BY <1>1, <1>3, <2>1, <2>2 DEF LeapDay
<1>4. CASE ~ IsLeap(y)
  <2>1. LeapYears(z) = LeapYears(y)
    BY <1>1, <1>4 DEF LeapYears
  <2> QED
    BY <1>1, <1>2, <1>4, <2>1 DEF LeapDay
<1> QED
  BY <1>3, <1>4

LEMMA YearStartIs ==
  ASSUME NEW y \in Int, y >= 1996
  PROVE  /\ YearStart(y) \in Nat /\ YearStart(y) >= 365 * (y - 1996)
         /\ YearStart(y + 1) = YearStart(y) + 365 + LeapDay(y)
         /\ LeapDay(y) \in Nat
<1>1. PICK c \in Nat : c = Cardinality(LeapYears(y))
  BY LeapsFinite
<1>2. PICK z \in Int : z = y + 1
  OBVIOUS
<1>3. PICK l \in Nat : l = LeapDay(y)
  BY DEF LeapDay
<1>4. Cardinality(LeapYears(z)) = c + l
  BY <1>1, <1>2, <1>3, NextYear
<1>5. YearStart(y) = 365 * (y - 1996) + c
  BY <1>1 DEF YearStart, LeapYears
<1>6. YearStart(z) = 365 * (z - 1996) + (c + l)
  BY <1>4 DEF YearStart, LeapYears
<1> QED
  BY <1>2, <1>3, <1>5, <1>6

LEMMA YearsRise ==
  ASSUME NEW y \in Int, NEW z \in Int, y >= 1996, y < z
  PROVE  YearStart(y + 1) <= YearStart(z)
<1>1. PICK n \in Int : n = y + 1
  OBVIOUS
<1>2. n <= z
  BY <1>1
<1>3. PICK c \in Nat : c = Cardinality(LeapYears(n))
  BY LeapsFinite
<1>4. PICK d \in Nat : d = Cardinality(LeapYears(z))
  BY LeapsFinite
<1>5. c <= d
  BY <1>2, <1>3, <1>4, LeapsGrow
<1>6. YearStart(n) = 365 * (n - 1996) + c
      /\ YearStart(z) = 365 * (z - 1996) + d
  BY <1>3, <1>4 DEF YearStart, LeapYears
<1> QED
  BY <1>1, <1>2, <1>5, <1>6

(* Days of an ordinary year before each month.                             *)
Before == [m \in 1 .. 12 |->
  IF m = 1 THEN 0 ELSE IF m = 2 THEN 31 ELSE IF m = 3 THEN 59 ELSE IF m = 4 THEN 90
  ELSE IF m = 5 THEN 120 ELSE IF m = 6 THEN 151 ELSE IF m = 7 THEN 181
  ELSE IF m = 8 THEN 212 ELSE IF m = 9 THEN 243 ELSE IF m = 10 THEN 273
  ELSE IF m = 11 THEN 304 ELSE 334]

LEMMA Months ==
  /\ DaysPerMonth[1] = 31 /\ DaysPerMonth[2] = 28 /\ DaysPerMonth[3] = 31
  /\ DaysPerMonth[4] = 30 /\ DaysPerMonth[5] = 31 /\ DaysPerMonth[6] = 30
  /\ DaysPerMonth[7] = 31 /\ DaysPerMonth[8] = 31 /\ DaysPerMonth[9] = 30
  /\ DaysPerMonth[10] = 31 /\ DaysPerMonth[11] = 30 /\ DaysPerMonth[12] = 31
  BY DEF DaysPerMonth

DaysOf(f, k) == IF k = 1 THEN 0 ELSE f[k - 1] + DaysPerMonth[k - 1]

LEMMA BeforeIs ==
  /\ Before[1] = 0 /\ Before[2] = 31 /\ Before[3] = 59 /\ Before[4] = 90
  /\ Before[5] = 120 /\ Before[6] = 151 /\ Before[7] = 181 /\ Before[8] = 212
  /\ Before[9] = 243 /\ Before[10] = 273 /\ Before[11] = 304
  /\ Before[12] = 334
  BY DEF Before

LEMMA BeforeUnfolds == Before = [k \in 1 .. 12 |-> DaysOf(Before, k)]
<1>1. ASSUME NEW k \in 1 .. 12 PROVE Before[k] = DaysOf(Before, k)
  <2>1. \/ k = 1 \/ k = 2 \/ k = 3 \/ k = 4 \/ k = 5 \/ k = 6
        \/ k = 7 \/ k = 8 \/ k = 9 \/ k = 10 \/ k = 11 \/ k = 12
    OBVIOUS
  <2> QED
    BY <2>1, Months, BeforeIs DEF DaysOf
<1>2. Before = [k \in 1 .. 12 |-> Before[k]]
  BY DEF Before
<1> QED
  BY <1>1, <1>2

LEMMA DaysUnique ==
  ASSUME NEW f, f = [k \in 1 .. 12 |-> DaysOf(f, k)]
  PROVE  \A k \in 1 .. 12 : f[k] = Before[k]
<1>1. f[1] = 0
  BY DEF DaysOf
<1>2. \A k \in 2 .. 12 : f[k] = f[k - 1] + DaysPerMonth[k - 1]
  BY DEF DaysOf
<1>3. /\ f[2] = f[1] + DaysPerMonth[1] /\ f[3] = f[2] + DaysPerMonth[2]
      /\ f[4] = f[3] + DaysPerMonth[3] /\ f[5] = f[4] + DaysPerMonth[4]
      /\ f[6] = f[5] + DaysPerMonth[5] /\ f[7] = f[6] + DaysPerMonth[6]
      /\ f[8] = f[7] + DaysPerMonth[7] /\ f[9] = f[8] + DaysPerMonth[8]
      /\ f[10] = f[9] + DaysPerMonth[9] /\ f[11] = f[10] + DaysPerMonth[10]
      /\ f[12] = f[11] + DaysPerMonth[11]
  BY <1>2
<1>4. /\ f[1] = 0 /\ f[2] = 31 /\ f[3] = 59 /\ f[4] = 90
      /\ f[5] = 120 /\ f[6] = 151 /\ f[7] = 181 /\ f[8] = 212
      /\ f[9] = 243 /\ f[10] = 273 /\ f[11] = 304 /\ f[12] = 334
  BY <1>1, <1>3, Months
<1>5. ASSUME NEW k \in 1 .. 12 PROVE f[k] = Before[k]
  <2>1. \/ k = 1 \/ k = 2 \/ k = 3 \/ k = 4 \/ k = 5 \/ k = 6
        \/ k = 7 \/ k = 8 \/ k = 9 \/ k = 10 \/ k = 11 \/ k = 12
    OBVIOUS
  <2> QED
    BY <1>4, <2>1, BeforeIs
<1> QED
  BY <1>5

LEMMA MonthStartIs ==
  ASSUME NEW m \in 1 .. 12, NEW y
  PROVE  MonthStart(m, y) = Before[m] + IF m > 2 /\ IsLeap(y) THEN 1 ELSE 0
<1> DEFINE F == CHOOSE f : f = [k \in 1 .. 12 |-> DaysOf(f, k)]
<1>1. F = [k \in 1 .. 12 |-> DaysOf(F, k)]
  BY BeforeUnfolds
<1>2. MonthStart(m, y) = F[m] + IF m > 2 /\ IsLeap(y) THEN 1 ELSE 0
  BY DEF MonthStart, DaysOf
<1> HIDE DEF F
<1>3. F[m] = Before[m]
  BY <1>1, DaysUnique
<1> QED
  BY <1>2, <1>3

(* A month ends where the next begins, the year after December.            *)
LEMMA MonthsAre ==
  ASSUME NEW m \in 1 .. 12, NEW y \in Int
  PROVE  /\ MonthStart(m, y) \in Nat /\ DaysIn(m, y) \in Nat
         /\ MonthStart(m, y) + DaysIn(m, y) <= 365 + LeapDay(y)
         /\ \A n \in 1 .. 12 : n > m =>
              MonthStart(m, y) + DaysIn(m, y) <= MonthStart(n, y)
<1>1. PICK l \in {0, 1} : l = LeapDay(y)
  BY DEF LeapDay
<1>2. \A n \in 1 .. 12 : MonthStart(n, y) = Before[n] + IF n > 2 THEN l ELSE 0
  BY <1>1, MonthStartIs DEF LeapDay
<1>3. DaysIn(m, y) = DaysPerMonth[m] + IF m = 2 THEN l ELSE 0
  BY <1>1 DEF DaysIn, LeapDay
<1>4. \/ m = 1 \/ m = 2 \/ m = 3 \/ m = 4 \/ m = 5 \/ m = 6
      \/ m = 7 \/ m = 8 \/ m = 9 \/ m = 10 \/ m = 11 \/ m = 12
  OBVIOUS
<1>5. ASSUME NEW n \in 1 .. 12, n > m
      PROVE  Before[m] + DaysPerMonth[m] <= Before[n] /\ Before[n] \in Nat
  <2>1. \/ n = 1 \/ n = 2 \/ n = 3 \/ n = 4 \/ n = 5 \/ n = 6
        \/ n = 7 \/ n = 8 \/ n = 9 \/ n = 10 \/ n = 11 \/ n = 12
    OBVIOUS
  <2> QED
    BY <1>4, <1>5, <2>1, Months, BeforeIs
<1>6. /\ Before[m] \in Nat /\ DaysPerMonth[m] \in Nat
      /\ Before[m] + DaysPerMonth[m] <= 365
  BY <1>4, Months, BeforeIs
<1>7. PICK b \in Nat : b = Before[m]
  BY <1>6
<1>8. PICK d \in Nat : d = DaysPerMonth[m]
  BY <1>6
<1>9. MonthStart(m, y) = b + IF m > 2 THEN l ELSE 0
  BY <1>2, <1>7
<1>10. ASSUME NEW n \in 1 .. 12, n > m
       PROVE  MonthStart(m, y) + DaysIn(m, y) <= MonthStart(n, y)
  <2>1. PICK c \in Nat : c = Before[n] /\ b + d <= c
    BY <1>5, <1>7, <1>8, <1>10
  <2>2. MonthStart(n, y) = c + IF n > 2 THEN l ELSE 0
    BY <1>2, <2>1
  <2> QED
    BY <1>3, <1>8, <1>9, <1>10, <2>1, <2>2
<1> QED
  BY <1>1, <1>3, <1>6, <1>7, <1>8, <1>9, <1>10

DayOf(d) == YearStart(d[3]) + MonthStart(d[2], d[3]) + d[1] - 1
Dates == {d \in Int \X Int \X Int : date2dmy(d)}

LEMMA DatesAre ==
  ASSUME NEW d \in Dates
  PROVE  /\ d = <<d[1], d[2], d[3]>> /\ d[1] \in Int /\ d[2] \in 1 .. 12
         /\ d[3] \in Int
         /\ d[3] >= 1996 /\ d[1] >= 1 /\ d[1] <= DaysIn(d[2], d[3])
<1>1. d \in Int \X Int \X Int /\ d[3] >= 1996 /\ d[2] \in 1 .. 12
      /\ d[1] \in 1 .. DaysIn(d[2], d[3])
  BY DEF Dates, date2dmy
<1>2. d = <<d[1], d[2], d[3]>> /\ d[1] \in Int /\ d[3] \in Int
  BY <1>1
<1>3. PICK m \in 1 .. 12 : m = d[2]
  BY <1>1
<1>4. PICK y \in Int : y = d[3]
  BY <1>2
<1>5. PICK n \in Nat : n = DaysIn(m, y)
  BY MonthsAre
<1>6. DaysIn(d[2], d[3]) = n
  BY <1>3, <1>4, <1>5, Zenon
<1> QED
  BY <1>1, <1>2, <1>6

LEMMA DayIs ==
  ASSUME NEW d \in Dates
  PROVE  /\ DayOf(d) \in Nat /\ minutes(d) = 1440 * DayOf(d)
         /\ YearStart(d[3]) <= DayOf(d) /\ DayOf(d) < YearStart(d[3] + 1)
         /\ MonthStart(d[2], d[3]) <= DayOf(d) - YearStart(d[3])
         /\ DayOf(d) - YearStart(d[3]) < MonthStart(d[2], d[3]) + DaysIn(d[2], d[3])
<1>1. /\ d[1] \in Int /\ d[2] \in 1 .. 12 /\ d[3] \in Int
      /\ d[3] >= 1996 /\ d[1] >= 1 /\ d[1] <= DaysIn(d[2], d[3])
  BY DatesAre
<1>2. PICK y \in Int : y = d[3]
  BY <1>1
<1>3. PICK m \in 1 .. 12 : m = d[2]
  BY <1>1
<1>4. PICK k \in Int : k = d[1]
  BY <1>1
<1>5. y >= 1996
  BY <1>1, <1>2
<1>6. PICK s \in Nat : s = YearStart(y)
  BY <1>5, YearStartIs
<1>7. PICK l \in Nat : l = LeapDay(y)
  BY <1>5, YearStartIs
<1>8. YearStart(y + 1) = s + 365 + l
  BY <1>5, <1>6, <1>7, YearStartIs
<1>9. PICK b \in Nat : b = MonthStart(m, y)
  BY MonthsAre
<1>10. PICK n \in Nat : n = DaysIn(m, y)
  BY MonthsAre
<1>11. b + n <= 365 + l
  BY <1>7, <1>9, <1>10, MonthsAre
<1>12. k >= 1 /\ k <= n
  BY <1>1, <1>2, <1>3, <1>4, <1>10
<1>13. DayOf(d) = s + b + k - 1
  BY <1>2, <1>3, <1>4, <1>6, <1>9 DEF DayOf
<1>14. minutes(d) = 1440 * (s + b + k - 1)
  BY <1>2, <1>3, <1>4, <1>6, <1>9 DEF minutes
<1>15. YearStart(d[3] + 1) = s + 365 + l /\ YearStart(d[3]) = s
       /\ MonthStart(d[2], d[3]) = b /\ DaysIn(d[2], d[3]) = n
  BY <1>2, <1>3, <1>6, <1>8, <1>9, <1>10
<1> QED
  BY <1>11, <1>12, <1>13, <1>14, <1>15

(* The three bytes.                                                        *)
LEMMA TimesAre ==
  IpmiTimes \in Nat /\ IpmiTimes > 0 /\ IpmiTimes = 256 * (256 * 256)
  BY DEF IpmiTimes

LEMMA BelowTimes ==
  ASSUME NEW t, t \in 0 .. IpmiTimes - 1
  PROVE  t \in Nat /\ t < 256 * (256 * 256)
<1>1. PICK I \in Nat : I = IpmiTimes
  BY TimesAre
<1>2. t \in 0 .. I - 1
  BY <1>1, Zenon
<1>3. t \in Nat /\ t < I
  BY <1>2
<1>4. I = 256 * (256 * 256)
  BY <1>1, TimesAre
<1> QED
  BY <1>3, <1>4

LEMMA ThreeBytes ==
  ASSUME NEW t \in Nat, t < 256 * (256 * 256)
  PROVE  /\ t % 256 \in Byte /\ (t \div 256) % 256 \in Byte
         /\ t \div 65536 \in Byte
         /\ (t % 256) + 256 * ((t \div 256) % 256) + 65536 * (t \div 65536) = t
<1>2. PICK a \in Nat : a = t % 256 /\ a <= 255
  BY SMT
<1>3. PICK q \in Nat : q = t \div 256
  BY SMT
<1>4. t = 256 * q + a /\ q < 256 * 256
  BY <1>2, <1>3, SMT
<1>5. PICK b \in Nat : b = q % 256 /\ b <= 255
  BY SMT
<1>6. PICK c \in Nat : c = q \div 256
  BY SMT
<1>7. q = 256 * c + b /\ c < 256
  BY <1>4, <1>5, <1>6, SMT
<1>8. c = t \div 65536
  BY <1>4, <1>7, <1>2, <1>5, SMT
<1>9. a + 256 * b + 65536 * c = t
  BY <1>4, <1>7, SMT
<1>10. a \in Byte /\ b \in Byte /\ c \in Byte
  BY <1>2, <1>5, <1>7, SMT DEF Byte
<1> QED
  BY <1>2, <1>3, <1>5, <1>8, <1>9, <1>10, SMT

LEMMA TimeIs ==
  ASSUME NEW d \in Dates
  PROVE  /\ date_to_ipmi_time(d) \in Bytes /\ Len(date_to_ipmi_time(d)) = 3
         /\ minutes(d) \in 1 .. IpmiTimes - 1 =>
              date_to_ipmi_time(d)[1] + 256 * date_to_ipmi_time(d)[2]
                + 65536 * date_to_ipmi_time(d)[3] = minutes(d)
<1>1. PICK n \in Nat : n = DayOf(d) /\ minutes(d) = 1440 * n
  BY DayIs
<1>n. PICK M \in Nat : M = minutes(d)
  BY <1>1
<1>i. PICK I \in Nat : I = IpmiTimes /\ I > 0
  BY TimesAre
<1>2. PICK t \in 0 .. IpmiTimes - 1 : t = minutes(d) % IpmiTimes
  <2>1. M % I \in 0 .. I - 1
    BY <1>i
  <2> QED
    BY <1>n, <1>i, <2>1
<1>3. minutes(d) \in 1 .. IpmiTimes - 1 => t = minutes(d) /\ t # 0
  <2>1. M \in 1 .. I - 1 => M % I = M /\ M # 0
    BY <1>i
  <2> QED
    BY <1>n, <1>i, <1>2, <2>1
<1>4. PICK a \in Byte, b \in Byte, c \in Byte :
        /\ a = t % 256 /\ b = (t \div 256) % 256 /\ c = t \div 65536
        /\ a + 256 * b + 65536 * c = t
  <2>1. PICK x \in Nat : x = t /\ x < 256 * (256 * 256)
    BY BelowTimes
  <2> QED
    BY <2>1, ThreeBytes
<1>5. date_to_ipmi_time(d) = IF t = 0 THEN <<0, 0, 0>> ELSE <<a, b, c>>
  BY <1>2, <1>4 DEF date_to_ipmi_time, Junk
<1>6. /\ <<a, b, c>> \in Bytes /\ Len(<<a, b, c>>) = 3
      /\ <<a, b, c>>[1] = a /\ <<a, b, c>>[2] = b /\ <<a, b, c>>[3] = c
  BY DEF Bytes
<1>7. <<0, 0, 0>> \in Bytes /\ Len(<<0, 0, 0>>) = 3
  BY DEF Bytes, Byte
<1> QED
  BY <1>3, <1>4, <1>5, <1>6, <1>7

(* ipmi_time_to_date, one step after the other.                            *)
ByMonth(rest, month, year) == <<rest - MonthStart(month, year) + 1, month, year>>
ByRest(rest, year) ==
  ByMonth(rest, CHOOSE m \in 1 .. 12 :
                  /\ MonthStart(m, year) <= rest
                  /\ rest < MonthStart(m, year) + DaysIn(m, year), year)
ByYear(days, year) == ByRest(days - YearStart(year), year)
ByDays(days) ==
  ByYear(days, CHOOSE y \in 1996 .. 2028 :
                 YearStart(y) <= days /\ days < YearStart(y + 1))

(* date_to_ipmi_time and ipmi_time_to_date: every date that three bytes of *)
(* minutes can hold comes back as it went in, across months, leap years and *)
(* the centuries.                                                          *)
THEOREM SameDate ==
  ASSUME NEW d \in Dates, minutes(d) \in 1 .. IpmiTimes - 1
  PROVE  ipmi_time_to_date(date_to_ipmi_time(d)) = d
<1>1. /\ d = <<d[1], d[2], d[3]>> /\ d[1] \in Int /\ d[2] \in 1 .. 12
      /\ d[3] \in Int
      /\ d[3] >= 1996
  BY DatesAre
<1>2. PICK n \in Nat : n = DayOf(d)
  BY DayIs
<1>3. PICK y \in Int : y = d[3]
  BY <1>1
<1>4. PICK m \in 1 .. 12 : m = d[2]
  BY <1>1
<1>5. /\ minutes(d) = 1440 * n /\ YearStart(y) <= n /\ n < YearStart(y + 1)
      /\ MonthStart(m, y) <= n - YearStart(y)
      /\ n - YearStart(y) < MonthStart(m, y) + DaysIn(m, y)
  BY <1>2, <1>3, <1>4, DayIs
<1>6. PICK t : t = date_to_ipmi_time(d)
  OBVIOUS
<1>7. t[1] + 256 * t[2] + 65536 * t[3] = 1440 * n
  BY <1>5, <1>6, TimeIs
<1>8. (t[1] + 256 * t[2] + 65536 * t[3]) \div 1440 = n
  BY <1>7
<1>9. PICK s \in Nat : s = YearStart(y)
  BY <1>1, <1>3, YearStartIs
<1>10. y \in 1996 .. 2028
  <2>1. y >= 1996 /\ s >= 365 * (y - 1996)
    BY <1>1, <1>3, <1>9, YearStartIs
  <2>2. 1440 * n < 256 * 256 * 256
    <3>1. PICK M : M = minutes(d)
      OBVIOUS
    <3>2. PICK I \in Nat : I = IpmiTimes /\ I = 256 * (256 * 256)
      BY TimesAre
    <3>3. M \in 1 .. I - 1
      BY <3>1, <3>2
    <3>4. M < I
      BY <3>3
    <3> QED
      <4>1. M = 1440 * n
        BY <1>5, <3>1
      <4>2. 1440 * n < I
        BY <3>4, <4>1
      <4>3. I = 256 * (256 * 256)
        BY <3>2
      <4>4. \A k \in Nat : 1440 * k < 256 * (256 * 256) => 1440 * k < 256 * 256 * 256
        OBVIOUS
      <4>5. 1440 * n < 256 * (256 * 256)
        BY <4>2, <4>3
      <4> QED
        BY <4>4, <4>5
  <2>3. s <= n
    BY <1>5, <1>9
  <2> QED
    BY <2>1, <2>2, <2>3
<1>11. ASSUME NEW z \in 1996 .. 2028, YearStart(z) <= n, n < YearStart(z + 1)
       PROVE  z = y
  <2>1. z \in Int /\ z >= 1996
    OBVIOUS
  <2>2. PICK e \in Nat : e = YearStart(z)
    BY <2>1, YearStartIs
  <2>3. CASE z < y
    <3>1. YearStart(z + 1) <= YearStart(y)
      BY <2>1, <2>3, YearsRise
    <3>2. PICK f \in Nat : f = YearStart(z + 1)
      BY <2>1, YearStartIs
    <3> QED
      BY <1>5, <1>9, <1>11, <3>1, <3>2
  <2>4. CASE y < z
    <3>0. y >= 1996
      BY <1>10
    <3>1. YearStart(y + 1) <= YearStart(z)
      BY <2>1, <2>4, <3>0, YearsRise
    <3>2. PICK f \in Nat : f = YearStart(y + 1)
      BY <3>0, YearStartIs
    <3> QED
      BY <1>5, <1>11, <2>2, <3>1, <3>2
  <2> QED
    BY <2>1, <2>3, <2>4
<1>12. PICK r \in Nat : r = n - s
  BY <1>5, <1>9
<1>13. MonthStart(m, y) <= r /\ r < MonthStart(m, y) + DaysIn(m, y)
  BY <1>5, <1>9, <1>12
<1>14. ASSUME NEW l \in 1 .. 12, MonthStart(l, y) <= r,
              r < MonthStart(l, y) + DaysIn(l, y)
       PROVE  l = m
  <2>1. PICK a \in Nat : a = MonthStart(l, y)
    BY MonthsAre
  <2>2. PICK b \in Nat : b = MonthStart(m, y)
    BY MonthsAre
  <2>3. PICK f \in Nat : f = DaysIn(l, y)
    BY MonthsAre
  <2>4. PICK g \in Nat : g = DaysIn(m, y)
    BY MonthsAre
  <2>5. l < m => a + f <= b
    BY <2>1, <2>2, <2>3, MonthsAre
  <2>6. m < l => b + g <= a
    BY <2>1, <2>2, <2>4, MonthsAre
  <2> QED
    BY <1>13, <1>14, <2>1, <2>2, <2>3, <2>4, <2>5, <2>6
<1>15. (CHOOSE z \in 1996 .. 2028 : YearStart(z) <= n /\ n < YearStart(z + 1)) = y
  <2> DEFINE Ys == 1996 .. 2028
             P(z) == YearStart(z) <= n /\ n < YearStart(z + 1)
  <2>1. y \in Ys /\ P(y)
    BY <1>5, <1>10
  <2>2. \A z \in Ys : P(z) => z = y
    BY <1>11
  <2> HIDE DEF Ys, P
  <2>3. (CHOOSE z \in Ys : P(z)) = y
    BY <2>1, <2>2, Zenon
  <2> QED
    BY <2>3 DEF Ys, P
<1>16. (CHOOSE l \in 1 .. 12 :
          MonthStart(l, y) <= r /\ r < MonthStart(l, y) + DaysIn(l, y)) = m
  <2> DEFINE Ms == 1 .. 12
             P(l) == MonthStart(l, y) <= r /\ r < MonthStart(l, y) + DaysIn(l, y)
  <2>1. m \in Ms /\ P(m)
    BY <1>13
  <2>2. \A l \in Ms : P(l) => l = m
    BY <1>14
  <2> HIDE DEF Ms, P
  <2>3. (CHOOSE l \in Ms : P(l)) = m
    BY <2>1, <2>2, Zenon
  <2> QED
    BY <2>3 DEF Ms, P
<1>17. r - MonthStart(m, y) + 1 = d[1]
  <2>1. PICK b \in Nat : b = MonthStart(m, y)
    BY MonthsAre
  <2>2. PICK k \in Int : k = d[1]
    BY <1>1
  <2>3. n = s + b + k - 1
    BY <1>2, <1>3, <1>4, <1>9, <2>1, <2>2 DEF DayOf
  <2>4. r - b + 1 = k
    BY <1>12, <2>3
  <2> QED
    BY <2>1, <2>2, <2>4
<1>18. ipmi_time_to_date(t) = <<r - MonthStart(m, y) + 1, m, y>>
  <2>1. ipmi_time_to_date(t) = ByDays((t[1] + 256 * t[2] + 65536 * t[3]) \div 1440)
    BY DEF ipmi_time_to_date, ByDays, ByYear, ByRest, ByMonth
  <2>2. ipmi_time_to_date(t) = ByDays(n)
    BY <1>8, <2>1
  <2>3. ByDays(n) = ByYear(n, y)
    BY <1>15 DEF ByDays
  <2>4. ByYear(n, y) = ByRest(r, y)
    BY <1>9, <1>12 DEF ByYear
  <2>5. ByRest(r, y) = ByMonth(r, m, y)
    BY <1>16 DEF ByRest
  <2> QED
    BY <2>2, <2>3, <2>4, <2>5 DEF ByMonth
<1> QED
  BY <1>1, <1>3, <1>4, <1>6, <1>17, <1>18

-----------------------------------------------------------------------------
(* create: the date it was given, and the whole image.                     *)

LEMMA HeadCut ==
  ASSUME NEW head \in Bytes, Len(head) = 14, \A k \in 1 .. 8 : head[k] = CH_DEFAULT[k]
  PROVE  fru_calculate_checksum(Cut(head, 0, 7)) = 254
<1>1. PICK z \in Nat : z = 0
  OBVIOUS
<1>2. PICK n \in Nat : n = 7
  OBVIOUS
<1>3. PICK D \in Bytes : D = CH_DEFAULT /\ Len(D) = 8
  BY DefaultHead
<1>4. z + n <= Len(head) /\ z + n <= Len(D)
  BY <1>1, <1>2, <1>3
<1>5. \A k \in 1 .. n : head[z + k] = D[z + k]
  BY <1>1, <1>2, <1>3
<1>6. Cut(head, z, n) = Cut(D, z, n)
  BY <1>4, <1>5, SameCut
<1>7. Cut(head, 0, 7) = Cut(CH_DEFAULT, 0, 7)
  BY <1>1, <1>2, <1>3, <1>6
<1>8. Cut(CH_DEFAULT, 0, 7) = SubSeq(CH_DEFAULT, 1, 7)
  BY DEF Cut
<1> QED
  BY <1>7, <1>8, HeaderChecksum

LEMMA CreateHead ==
  ASSUME NEW t \in Bytes, Len(t) = 3, NEW head,
         head = Glue(Glue(CH_DEFAULT, <<1, 0, 0>>), t)
  PROVE  GoodHead(head) /\ Cut(head, 11, 3) = t
<1>1. PICK o : o = <<1, 0, 0>>
  BY Zenon
<1>2. o \in Bytes /\ Len(o) = 3 /\ o[1] = 1 /\ o[2] = 0 /\ o[3] = 0
  BY <1>1 DEF Bytes, Byte
<1>3. PICK h \in Nat, d \in Nat, l \in Nat, z \in Nat, s \in Nat :
        h = 8 /\ d = 3 /\ l = 11 /\ z = 0 /\ s = 7
  OBVIOUS
<1>4. PICK x : x = Glue(CH_DEFAULT, o)
  BY Zenon
<1>5. CH_DEFAULT \in Bytes /\ h = Len(CH_DEFAULT) /\ d = Len(o) /\ d = Len(t)
  BY <1>2, <1>3, DefaultHead
<1>6. Joined(x, CH_DEFAULT, h, o, d)
  BY <1>2, <1>4, <1>5, GlueAt, Zenon
<1>7. x \in Bytes /\ Len(x) = l
  BY <1>3, <1>6 DEF Joined
<1>8. head = Glue(x, t)
  BY <1>1, <1>4, Zenon
<1>9. Joined(head, x, l, t, d)
  BY <1>5, <1>7, <1>8, GlueAt, Zenon
<1>10. /\ head \in Bytes /\ Len(head) = 14 /\ Len(head) = l + d
       /\ \A k \in 1 .. 11 : head[k] = x[k]
       /\ \A k \in 1 .. d : head[l + k] = t[k]
  BY <1>3, <1>9 DEF Joined
<1>11. \A k \in 1 .. 8 : x[k] = CH_DEFAULT[k]
  BY <1>3, <1>6 DEF Joined
<1>12. x[9] = 1 /\ x[11] = 0
  <2>1. \A k \in 1 .. 3 : x[8 + k] = o[k]
    BY <1>3, <1>6 DEF Joined
  <2>2. 1 \in 1 .. 3 /\ 3 \in 1 .. 3 /\ 8 + 1 = 9 /\ 8 + 3 = 11
    OBVIOUS
  <2> QED
    BY <1>2, <2>1, <2>2
<1>13. ASSUME NEW k \in 1 .. 8 PROVE head[k] = CH_DEFAULT[k]
  <2>1. k \in 1 .. 11
    OBVIOUS
  <2> QED
    BY <1>10, <1>11, <2>1
<1>14. head[1] = 1 /\ head[4] = 1 /\ head[8] = 254
  <2>1. 1 \in 1 .. 8 /\ 4 \in 1 .. 8 /\ 8 \in 1 .. 8
    OBVIOUS
  <2> QED
    BY <1>13, <2>1, DefaultHead
<1>15. head[9] = 1 /\ head[11] = 0
  <2>1. 9 \in 1 .. 11 /\ 11 \in 1 .. 11
    OBVIOUS
  <2> QED
    BY <1>10, <1>12, <2>1
<1>16. head[8] = fru_calculate_checksum(Cut(head, 0, 7))
  BY <1>10, <1>13, <1>14, HeadCut
<1>17. GoodHead(head)
  BY <1>10, <1>14, <1>15, <1>16 DEF GoodHead, Heads
<1>18. Cut(head, 11, 3) = t
  <2>1. l + Len(t) <= Len(head) /\ \A k \in 1 .. Len(t) : head[l + k] = t[k]
    BY <1>5, <1>10
  <2>2. At(head, l, t)
    BY <2>1 DEF At
  <2>3. Cut(head, l, Len(t)) = t
    BY <1>10, <2>2, CutAt, Zenon
  <2> QED
    BY <1>3, <2>3
<1> QED
  BY <1>17, <1>18

(* ivfru_xcreate: from a date that is one and four fields that are not     *)
(* empty it makes a whole image that says just these.                      *)
THEOREM CreateFaithful ==
  ASSUME NEW lens \in [1 .. 4 -> Nat], NEW d \in Int \X Int \X Int, date2dmy(d),
         \A k \in 1 .. 4 : fru_make_tl_byte(lens[k]) /\ lens[k] # 0,
         NEW m, m.lens = lens, m.custom = <<>>, m.date = d
  PROVE  Faithful(ivfru_xcreate(lens, d), m)
<1>1. d \in Dates
  BY DEF Dates
<1>2. PICK t : t = date_to_ipmi_time(d)
  BY Zenon
<1>3. t \in Bytes /\ Len(t) = 3
  BY <1>1, <1>2, TimeIs
<1>4. PICK head : head = Glue(Glue(CH_DEFAULT, <<1, 0, 0>>), t)
  BY Zenon
<1>5. GoodHead(head) /\ Cut(head, 11, 3) = t
  BY <1>3, <1>4, CreateHead, Zenon
<1>6. \A k \in 1 .. 4 : lens[k] \in 2 .. 63
  <2>1. ASSUME NEW k \in 1 .. 4 PROVE lens[k] \in 2 .. 63
    <3>1. PICK n \in Nat : n = lens[k]
      OBVIOUS
    <3>2. n <= 63 /\ n # 1 /\ n # 0
      BY <3>1 DEF fru_make_tl_byte
    <3>3. n \in 2 .. 63
      BY <3>2
    <3> QED
      BY <3>1, <3>3
  <2> QED
    BY <2>1
<1>7. PICK f : f = Four(lens)
  BY Zenon
<1>8. /\ Len(f) = lens[1] + lens[2] + lens[3] + lens[4] + 6
      /\ Len(f) \in Nat /\ Len(f) <= 258 /\ \E w : Lays(f, w, m)
  BY <1>6, <1>7, FourLays
<1>9. PICK w : Lays(f, w, m)
  BY <1>8
<1>10. ivfru_xcreate(lens, d) = Finish(head, f, Len(f))
  <2>1. ivfru_xcreate(lens, d) =
          Finish(head, f, lens[1] + lens[2] + lens[3] + lens[4] + 6)
    BY <1>2, <1>4, <1>7, Zenon DEF ivfru_xcreate, Four, Glue
  <2> QED
    BY <1>8, <2>1
<1>11. Eights(m) <= 255
  <2>1. Eights(m) \in Nat /\ Rounded(Len(f)) = 8 * Eights(m)
    BY <1>9, LaysEights
  <2>2. PICK n \in Nat : n = Len(f) /\ n <= 258
    BY <1>8
  <2>3. Rounded(n) \in Nat /\ Rounded(n) <= n + 14
    BY RoundedIs
  <2> QED
    BY <2>1, <2>2, <2>3, SMTT(30)
<1>12. DateTold(m, Cut(head, 11, 3))
  <2>1. minutes(d) \in 1 .. IpmiTimes - 1 => ipmi_time_to_date(t) = d
    BY <1>1, <1>2, SameDate
  <2> QED
    BY <1>5, <2>1 DEF DateTold
<1> QED
  BY <1>5, <1>9, <1>10, <1>11, <1>12, FinishFaithful

-----------------------------------------------------------------------------
(* What the steps on boards look at of an image.                           *)

LEMMA ImageBytes ==
  ASSUME NEW img \in Seq(Byte), Len(img) >= 14
  PROVE  /\ Len(img) \in Nat /\ img[10] \in Nat /\ AreaLen(img) \in Nat
         /\ \A k \in 1 .. Len(img) : img[k] \in Byte
<1>1. Len(img) \in Nat /\ \A k \in 1 .. Len(img) : img[k] \in Byte
  BY LenProperties, ElementOfSeq
<1>2. 10 \in 1 .. Len(img)
  BY <1>1
<1>3. img[10] \in Nat
  <2>1. img[10] \in Byte
    BY <1>1, <1>2
  <2> QED
    BY <2>1, ByteIsNat
<1>4. AreaLen(img) = img[10] \/ AreaLen(img) = 8 * img[10]
  BY DEF AreaLen
<1>5. 8 * img[10] \in Nat
  BY <1>3
<1> QED
  BY <1>1, <1>3, <1>4, <1>5

LEMMA Prefix ==
  ASSUME NEW S, NEW s \in Seq(S), NEW n \in 0 .. Len(s)
  PROVE  /\ SubSeq(s, 1, n) \in Seq(S) /\ Len(SubSeq(s, 1, n)) = n
         /\ \A k \in 1 .. n : SubSeq(s, 1, n)[k] = s[k]
<1>1. Len(s) \in Nat /\ 1 \in 1 .. Len(s) + 1 /\ n \in 0 .. Len(s)
  BY LenProperties
<1> QED
  BY <1>1, SubSeqProperties

LEMMA PartOfPrefix ==
  ASSUME NEW S, NEW s \in Seq(S), NEW n \in 0 .. Len(s),
         NEW i \in 1 .. n + 1, NEW j \in 0 .. n
  PROVE  SubSeq(SubSeq(s, 1, n), i, j) = SubSeq(s, i, j)
<1>1. Len(s) \in Nat /\ 1 \in 1 .. Len(s) + 1 /\ n \in 1 - 1 .. Len(s)
  BY LenProperties
<1>2. CASE i <= j
  BY <1>1, <1>2, SubSeqOfSubSeq
<1> QED
  BY <1>1, <1>2

(* What validation looks at: nothing behind the area.                      *)
LEMMA CutValid ==
  ASSUME NEW img, Editable(img)
  PROVE  /\ Exact(SubSeq(img, 1, fru_get_total_length(img)))
         /\ ~ fru_is_old_format(SubSeq(img, 1, fru_get_total_length(img)))
<1> DEFINE n == fru_get_total_length(img)
           s == SubSeq(img, 1, n)
           a == AreaLen(img)
<1>1. /\ ivfru_validate(img) /\ ~ fru_is_old_format(img)
      /\ img \in Seq(Byte) /\ Len(img) >= 14 /\ Len(img) >= 8 + a
  BY DEF Editable, ivfru_validate, Complete
<1>2. /\ n = 8 + a /\ n \in Nat /\ n <= Len(img) /\ Len(img) \in Nat
      /\ a \in Nat
  BY <1>1, ImageBytes DEF fru_get_total_length, AreaLen
<1>3. a >= 6
  <2>1. Len(Area(img)) >= 6
    BY <1>1 DEF ivfru_validate, ivfru_bia_validate
  <2>2. Len(Area(img)) = IF 9 <= 8 + a THEN 8 + a - 9 + 1 ELSE 0
    <3>1. 9 \in 1 .. Len(img) + 1 /\ 8 + a \in 0 .. Len(img)
      BY <1>1, <1>2
    <3> QED
      BY <1>1, <1>2, <3>1, SubSeqProperties DEF Area
  <2> QED
    BY <1>2, <2>1, <2>2
<1>4. n \in 0 .. Len(img) /\ n >= 14
  BY <1>2, <1>3
<1>5. s \in Seq(Byte) /\ Len(s) = n /\ \A k \in 1 .. n : s[k] = img[k]
  BY <1>1, <1>4, Prefix
<1>6. s[1] = img[1] /\ s[4] = img[4] /\ s[8] = img[8] /\ s[10] = img[10]
  BY <1>2, <1>4, <1>5, SMTT(30)
<1>7. /\ SubSeq(s, 1, 8) = SubSeq(img, 1, 8)
      /\ SubSeq(s, 1, 7) = SubSeq(img, 1, 7)
      /\ SubSeq(s, 9, 8 + a) = SubSeq(img, 9, 8 + a)
  <2>1. /\ 1 \in 1 .. n + 1 /\ 9 \in 1 .. n + 1
        /\ 7 \in 0 .. n /\ 8 \in 0 .. n /\ 8 + a \in 0 .. n
    BY <1>2, <1>4
  <2> QED
    BY <1>1, <1>4, <2>1, PartOfPrefix
<1> HIDE DEF n, s, a
<1>8. /\ fru_is_old_format(s) = fru_is_old_format(img)
      /\ AreaLen(s) = AreaLen(img)
  BY <1>6, <1>7 DEF fru_is_old_format, AreaLen
<1>9. Area(s) = Area(img)
  BY <1>7, <1>8 DEF Area, a
<1>10. Complete(s)
  BY <1>2, <1>4, <1>5, <1>8 DEF Complete, a
<1>11. ivfru_validate(s)
  BY <1>1, <1>6, <1>7, <1>8, <1>9, <1>10 DEF ivfru_validate
<1> QED
  BY <1>1, <1>2, <1>5, <1>8, <1>11 DEF Exact, n, s, a

(* What eeprog and "sf update" leave: the new image, then the old bytes.   *)
LEMMA OverIs ==
  ASSUME NEW new \in Seq(Byte), NEW old \in Seq(Byte)
  PROVE  /\ Over(new, old) \in Seq(Byte) /\ Len(new) <= Len(Over(new, old))
         /\ SubSeq(Over(new, old), 1, Len(new)) = new
<1> DEFINE t == SubSeq(old, Len(new) + 1, Len(old))
<1>1. Len(new) \in Nat /\ Len(old) \in Nat
  BY LenProperties
<1>2. t \in Seq(Byte)
  <2>1. CASE Len(new) <= Len(old)
    <3>1. Len(new) + 1 \in 1 .. Len(old) + 1
          /\ Len(old) \in Len(new) .. Len(old)
      BY <1>1, <2>1
    <3> QED
      BY <1>1, <3>1, SubSeqProperties
  <2>2. CASE Len(new) > Len(old)
    <3>1. t = <<>>
      BY <1>1, <2>2, SubSeqEmpty
    <3> QED
      BY <3>1
  <2> QED
    BY <1>1, <2>1, <2>2
<1> HIDE DEF t
<1>3. /\ new \o t \in Seq(Byte) /\ Len(new \o t) = Len(new) + Len(t)
      /\ Len(t) \in Nat
  BY <1>2, ConcatProperties, LenProperties
<1>4. SubSeq(new \o t, 1, Len(new)) = new
  <2>1. CASE Len(new) = 0
    BY <1>1, <2>1, EmptySeq, SubSeqEmpty
  <2>2. CASE Len(new) # 0
    <3>1. 1 \in 1 .. Len(new) /\ Len(new) \in 1 .. Len(new)
      BY <1>1, <2>2
    <3>2. SubSeq(new \o t, 1, Len(new)) = SubSeq(new, 1, Len(new))
      BY <1>2, <3>1, SubSeqOfConcat1
    <3> QED
      BY <3>2, SubSeqFull
  <2> QED
    BY <2>1, <2>2
<1>5. Over(new, old) = new \o t
  BY DEF Over, t
<1> QED
  BY <1>1, <1>3, <1>4, <1>5

LEMMA ExactIs ==
  ASSUME NEW img, Exact(img)
  PROVE  img \in Seq(Byte) /\ Len(img) \in Nat /\ Len(img) >= 14
<1>1. img \in Seq(Byte) /\ Len(img) >= 14
  BY DEF Exact, ivfru_validate, Complete
<1> QED
  BY <1>1, LenProperties

-----------------------------------------------------------------------------
(* The running command.                                                    *)
LEMMA CommandIs ==
  ASSUME NEW p \in RunPcs, NEW c \in Cmds, NEW b \in Boards \cup {"none"},
         NEW img, NEW m,
         run' = [pc |-> p, cmd |-> c, b |-> b, img |-> img, made |-> m]
  PROVE  /\ run' \in Commands(run'.img, run'.made)
         /\ run'.pc = p /\ run'.cmd = c /\ run'.b = b /\ run'.img = img
  BY DEF Commands

LEMMA CommandGoesOn ==
  ASSUME RunShape, NEW p \in RunPcs, run' = [run EXCEPT !.pc = p]
  PROVE  /\ run' \in Commands(run'.img, run'.made)
         /\ run'.pc = p /\ run'.cmd = run.cmd /\ run'.b = run.b
         /\ run'.img = run.img
<1>1. run \in Commands(run.img, run.made)
  BY DEF RunShape
<1>2. /\ run' \in Commands(run.img, run.made)
      /\ run'.pc = p /\ run'.cmd = run.cmd /\ run'.b = run.b
      /\ run'.img = run.img /\ run'.made = run.made
  BY <1>1, Zenon DEF Commands
<1> QED
  BY <1>2

LEMMA IdleIs ==
  /\ Idle \in Commands(Idle.img, Idle.made)
  /\ Idle.pc = "idle" /\ Idle.cmd = "none"
  BY DEF Idle, Commands, RunPcs, Cmds

-----------------------------------------------------------------------------
(* Steps that leave the boards alone.                                      *)
LEMMA BoardsKept ==
  ASSUME BoardsInv, UNCHANGED <<board, stored>>
  PROVE  BoardsInv'
  BY DEF BoardsInv, StoredWhole

(* The command ends, and every board that is open is known to be.          *)
LEMMA Ends ==
  ASSUME run' = Idle, BoardsInv',
         (pins \subseteq i2c /\ pins \ wp \subseteq bare)'
  PROVE  FruInv'
<1>1. RunShape'
  BY IdleIs DEF RunShape
<1>2. ReadBack' /\ WpOpen'
  BY IdleIs DEF ReadBack, WpOpen
<1> QED
  BY <1>1, <1>2 DEF FruInv

LEMMA EndsEarly ==
  ASSUME FruInv, run' = Idle, UNCHANGED <<i2c, pins, board, wp, stored>>,
         bare' = bare \/ bare' = bare \cup {run.b},
         run.pc \in {"eeprog", "wp_on"} => run.b \in bare'
  PROVE  FruInv'
<1>1. BoardsInv'
  BY BoardsKept DEF FruInv
<1>2. (pins \subseteq i2c /\ pins \ wp \subseteq bare)'
  BY DEF FruInv, WpOpen
<1> QED
  BY <1>1, <1>2, Ends

LEMMA Starts ==
  ASSUME FruInv, run = Idle, NEW c \in {"create", "add", "rm", "fix"},
         NEW img, NEW m, Start(c, "none", img, m)
  PROVE  FruInv' /\ UNCHANGED <<i2c, pins, board, wp, stored, bare>>
         /\ run'.pc = "save"
<1>1. /\ run' = [pc |-> "save", cmd |-> c, b |-> "none", img |-> img, made |-> m]
      /\ UNCHANGED <<i2c, pins, board, wp, stored, bare>>
  BY DEF Start
<1>2. "save" \in RunPcs /\ c \in Cmds /\ "none" \in Boards \cup {"none"}
  BY DEF RunPcs, Cmds
<1>3. /\ run' \in Commands(run'.img, run'.made)
      /\ run'.pc = "save" /\ run'.cmd = c
  BY <1>1, <1>2, CommandIs
<1>4. BoardsInv'
  BY <1>1, BoardsKept DEF FruInv
<1>5. RunShape' /\ ReadBack'
  BY <1>3 DEF RunShape, ReadBack
<1>6. WpOpen'
  BY <1>1, <1>3, IdleIs DEF FruInv, WpOpen
<1> QED
  BY <1>1, <1>3, <1>4, <1>5, <1>6 DEF FruInv

(* ivfru_read takes as many bytes as were last written, and those.         *)
LEMMA ReadsAll ==
  ASSUME BoardsInv, NEW b \in Boards, stored[b] # None,
         stored[b].img[10] = 64 => fru_is_old_format(stored[b].img)
  PROVE  [k \in 1 .. 8 + ReadSize(ByteOf(board[b], 10)) |-> ByteOf(board[b], k)]
           = stored[b].img
<1> DEFINE I == stored[b].img
           B == board[b]
           n == ReadSize(ByteOf(B, 10))
<1>1. /\ Exact(I) /\ Len(I) <= Len(B) /\ I = SubSeq(B, 1, Len(I))
      /\ B \in Seq(Byte)
  BY DEF BoardsInv, StoredWhole
<1> HIDE DEF I, B
<1>2. I \in Seq(Byte) /\ Len(I) \in Nat /\ Len(I) >= 14 /\ I[10] \in Nat
  BY <1>1, ExactIs, ImageBytes
<1>3. Len(I) \in 0 .. Len(B) /\ Len(B) \in Nat
  BY <1>1, <1>2, LenProperties
<1>4. \A k \in 1 .. Len(I) : I[k] = B[k]
  BY <1>1, <1>3, Prefix
<1>5. \A k \in 1 .. Len(I) : ByteOf(B, k) = I[k]
  BY <1>2, <1>3, <1>4 DEF ByteOf
<1>6. ByteOf(B, 10) = I[10]
  BY <1>2, <1>5
<1>7. Len(I) = 8 + n
  <2>1. /\ Len(I) = 8 + AreaLen(I)
        /\ fru_is_old_format(I) => I[10] = 64
    BY <1>1 DEF Exact
  <2>2. CASE I[10] = 64
    BY <1>6, <2>1, <2>2 DEF ReadSize, AreaLen, I
  <2>3. CASE I[10] # 64
    BY <1>6, <2>1, <2>3 DEF ReadSize, AreaLen
  <2> QED
    BY <2>2, <2>3
<1>8. I = [k \in 1 .. Len(I) |-> I[k]]
  BY <1>2
<1>9. [k \in 1 .. Len(I) |-> I[k]] = [k \in 1 .. 8 + n |-> ByteOf(B, k)]
  BY <1>5, <1>7
<1> QED
  BY <1>8, <1>9 DEF I, B

LEMMA ReadStarts ==
  ASSUME FruInv, NEW b \in Boards, do_ivfru_read(b)
  PROVE  FruInv' /\ UNCHANGED <<i2c, pins, board, wp, stored, bare>>
         /\ run'.pc = "save"
<1> DEFINE img == [k \in 1 .. 8 + ReadSize(ByteOf(board[b], 10)) |->
                     ByteOf(board[b], k)]
           m == stored[b].made
<1>1. /\ run = Idle /\ UNCHANGED <<i2c, pins, board, wp, stored, bare>>
      /\ run' = [pc |-> "save", cmd |-> "read", b |-> b, img |-> img, made |-> m]
  BY DEF do_ivfru_read, Start
<1>2. "save" \in RunPcs /\ "read" \in Cmds
  BY DEF RunPcs, Cmds
<1> HIDE DEF img, m
<1>3. /\ run' \in Commands(run'.img, run'.made)
      /\ run'.pc = "save" /\ run'.cmd = "read" /\ run'.b = b /\ run'.img = img
  BY <1>1, <1>2, CommandIs
<1>4. BoardsInv'
  BY <1>1, BoardsKept DEF FruInv
<1>5. RunShape'
  BY <1>3 DEF RunShape
<1>6. WpOpen'
  BY <1>1, <1>3, IdleIs DEF FruInv, WpOpen
<1>7. ReadBack'
  <2>1. ASSUME stored[b] # None,
               stored[b].img[10] = 64 => fru_is_old_format(stored[b].img)
        PROVE  img = stored[b].img
    BY <2>1, ReadsAll DEF FruInv, img
  <2> QED
    BY <1>1, <1>3, <2>1 DEF ReadBack
<1> QED
  BY <1>1, <1>3, <1>4, <1>5, <1>6, <1>7 DEF FruInv

LEMMA SaveOpens ==
  ASSUME FruInv, SaveOpen
  PROVE  FruInv'
<1>1. /\ run.pc = "save" /\ run' = [run EXCEPT !.pc = "fwrite"]
      /\ UNCHANGED <<i2c, pins, board, wp, stored, bare>>
  BY DEF SaveOpen
<1>2. RunShape /\ BoardsInv /\ WpOpen /\ ReadBack /\ "fwrite" \in RunPcs
  BY DEF FruInv, RunPcs
<1>3. /\ run' \in Commands(run'.img, run'.made)
      /\ run'.pc = "fwrite" /\ run'.cmd = run.cmd /\ run'.b = run.b
      /\ run'.img = run.img
  BY <1>1, <1>2, CommandGoesOn, Zenon
<1>4. BoardsInv'
  BY <1>1, <1>2, BoardsKept
<1>5. stored' = stored /\ i2c' = i2c /\ pins' = pins /\ wp' = wp /\ bare' = bare
  BY <1>1
<1>6. RunShape' /\ ReadBack' /\ WpOpen'
  <2>1. run.pc = "save"
    BY <1>1
  <2>2. RunShape'
    BY <1>2, <1>3, <2>1 DEF RunShape
  <2>3. ReadBack'
    BY <1>2, <1>3, <1>5 DEF ReadBack
  <2>4. WpOpen'
    BY <1>2, <1>3, <1>5, <2>1 DEF WpOpen
  <2> QED
    BY <2>2, <2>3, <2>4
<1> QED
  BY <1>4, <1>6 DEF FruInv

-----------------------------------------------------------------------------
(* ivfru_write: only a valid image gets to a board, cut at its end.        *)
LEMMA WriteStarts ==
  ASSUME FruInv, NEW b \in Boards, do_ivfru_write(b)
  PROVE  /\ FruInv' /\ UNCHANGED <<i2c, pins, board, wp, stored, bare>>
         /\ run'.pc # "wp_on"
<1> DEFINE img == SubSeq(file, 1, fru_get_total_length(file))
           p == IF b \in i2c THEN "wp_off" ELSE "flashcp"
<1>1. /\ run = Idle /\ Editable(file)
      /\ UNCHANGED <<i2c, pins, board, wp, stored, bare>>
      /\ run' = [pc |-> p, cmd |-> "write", b |-> b, img |-> img, made |-> made]
  BY DEF do_ivfru_write, StartWrite
<1>2. Exact(img)
  BY <1>1, CutValid
<1>3. /\ p \in RunPcs /\ "write" \in Cmds /\ p \in {"wp_off", "flashcp"}
      /\ b \in i2c <=> p # "flashcp"
  BY DEF RunPcs, Cmds
<1> HIDE DEF img, p
<1>4. /\ run' \in Commands(run'.img, run'.made)
      /\ run'.pc = p /\ run'.cmd = "write" /\ run'.b = b /\ run'.img = img
  BY <1>1, <1>3, CommandIs
<1>5. BoardsInv'
  BY <1>1, BoardsKept DEF FruInv
<1>6. RunShape'
  BY <1>1, <1>2, <1>3, <1>4 DEF RunShape
<1>7. ReadBack'
  BY <1>4 DEF ReadBack
<1>8. WpOpen'
  BY <1>1, <1>3, <1>4, IdleIs DEF FruInv, WpOpen
<1> QED
  BY <1>1, <1>3, <1>4, <1>5, <1>6, <1>7, <1>8 DEF FruInv

LEMMA Unprotects ==
  ASSUME FruInv, run.pc = "wp_off", wp' = wp \/ wp' = wp \ {run.b},
         run' = [run EXCEPT !.pc = "eeprog"],
         UNCHANGED <<i2c, pins, board, stored, bare>>
  PROVE  FruInv' /\ run'.pc = "eeprog"
<1>1. RunShape /\ BoardsInv /\ WpOpen /\ "eeprog" \in RunPcs
  BY DEF FruInv, RunPcs
<1>2. /\ run' \in Commands(run'.img, run'.made)
      /\ run'.pc = "eeprog" /\ run'.cmd = run.cmd /\ run'.b = run.b
      /\ run'.img = run.img
  BY <1>1, CommandGoesOn, Zenon
<1>3. BoardsInv'
  BY <1>1, BoardsKept
<1>4. run.cmd = "write" /\ run.b \in Boards /\ Exact(run.img) /\ run.b \in i2c
  BY <1>1 DEF RunShape
<1>5. RunShape'
  BY <1>2, <1>4 DEF RunShape
<1>6. ReadBack'
  BY <1>2, <1>4 DEF ReadBack
<1>7. WpOpen'
  BY <1>1, <1>2 DEF WpOpen
<1> QED
  BY <1>2, <1>3, <1>5, <1>6, <1>7 DEF FruInv

(* A write that runs to its end, and one that is torn.                     *)
LEMMA Stores ==
  ASSUME FruInv, run.pc \in {"eeprog", "flashcp"}, NEW new \in Seq(Byte),
         Len(run.img) <= Len(new), SubSeq(new, 1, Len(run.img)) = run.img,
         board' = [board EXCEPT ![run.b] = new],
         stored' = [stored EXCEPT ![run.b] = [img |-> run.img, made |-> run.made]]
  PROVE  BoardsInv' /\ stored'[run.b] # None
<1> DEFINE s == [img |-> run.img, made |-> run.made]
<1>1. BoardsInv /\ run.b \in Boards /\ Exact(run.img)
  BY DEF FruInv, RunShape
<1>2. s.img = run.img /\ s # None
  <2>1. Len(run.img) >= 14 /\ Len(run.img) \in Nat
    BY <1>1, ExactIs
  <2>2. run.img # <<>>
    BY <2>1
  <2>3. None.img = <<>>
    BY DEF None
  <2> QED
    BY <2>2, <2>3
<1> HIDE DEF s
<1>3. /\ board' \in [Boards -> Seq(Byte)] /\ DOMAIN stored' = Boards
      /\ board'[run.b] = new /\ stored'[run.b] = s
      /\ \A b \in Boards \ {run.b} : board'[b] = board[b] /\ stored'[b] = stored[b]
  BY <1>1 DEF BoardsInv, s
<1>4. ASSUME NEW b \in Boards PROVE StoredWhole(b)'
  <2>1. CASE b = run.b
    BY <1>1, <1>2, <1>3, <2>1 DEF StoredWhole
  <2>2. CASE b # run.b
    BY <1>1, <1>3, <2>2 DEF BoardsInv, StoredWhole
  <2> QED
    BY <2>1, <2>2
<1> QED
  BY <1>2, <1>3, <1>4 DEF BoardsInv

LEMMA Tears ==
  ASSUME FruInv, run.pc \in {"eeprog", "flashcp"}, NEW new \in Seq(Byte),
         board' = [board EXCEPT ![run.b] = new],
         stored' = [stored EXCEPT ![run.b] = None]
  PROVE  BoardsInv'
<1>1. BoardsInv /\ run.b \in Boards
  BY DEF FruInv, RunShape
<1>2. /\ board' \in [Boards -> Seq(Byte)] /\ DOMAIN stored' = Boards
      /\ stored'[run.b] = None
      /\ \A b \in Boards \ {run.b} : board'[b] = board[b] /\ stored'[b] = stored[b]
  BY <1>1 DEF BoardsInv
<1>3. ASSUME NEW b \in Boards PROVE StoredWhole(b)'
  BY <1>1, <1>2 DEF BoardsInv, StoredWhole
<1> QED
  BY <1>2, <1>3 DEF BoardsInv

(* The first bytes of the image that is being written.                     *)
LEMMA TornIs ==
  ASSUME FruInv, run.pc \in {"eeprog", "flashcp"},
         NEW k \in TornAt, k < Len(run.img)
  PROVE  SubSeq(run.img, 1, k) \in Seq(Byte)
<1>1. run.img \in Seq(Byte) /\ Len(run.img) \in Nat
  BY ExactIs DEF FruInv, RunShape
<1>2. k \in 0 .. Len(run.img)
  BY <1>1, FruAssumption
<1> QED
  BY <1>1, <1>2, Prefix

LEMMA I2cWritten ==
  ASSUME FruInv, WriteI2c \/ WriteI2cFails
  PROVE  /\ FruInv' /\ run'.pc = "wp_on" /\ UNCHANGED <<i2c, pins, wp>>
         /\ run'.b = run.b
         /\ WriteI2c => stored'[run.b] # None
<1>1. /\ run.pc = "eeprog" /\ run' = [run EXCEPT !.pc = "wp_on"]
      /\ UNCHANGED <<i2c, pins, wp, bare>>
  BY DEF WriteI2c, WriteI2cFails
<1>2. /\ RunShape /\ BoardsInv /\ WpOpen /\ "wp_on" \in RunPcs
      /\ run.b \in Boards /\ Exact(run.img) /\ run.cmd = "write"
      /\ run.b \in i2c
  BY <1>1 DEF FruInv, RunShape, RunPcs
<1>3. /\ run' \in Commands(run'.img, run'.made)
      /\ run'.pc = "wp_on" /\ run'.cmd = run.cmd /\ run'.b = run.b
      /\ run'.img = run.img
  BY <1>1, <1>2, CommandGoesOn, Zenon
<1>4. run.img \in Seq(Byte) /\ board[run.b] \in Seq(Byte)
  BY <1>2, ExactIs DEF BoardsInv
<1>5. BoardsInv' /\ (WriteI2c => stored'[run.b] # None)
  <2>1. ASSUME WriteI2c PROVE BoardsInv' /\ stored'[run.b] # None
    <3> DEFINE new == Over(run.img, board[run.b])
    <3>1. /\ board' = [board EXCEPT ![run.b] = new]
          /\ stored' = [stored EXCEPT ![run.b] =
                          [img |-> run.img, made |-> run.made]]
      BY <2>1 DEF WriteI2c
    <3>2. /\ new \in Seq(Byte) /\ Len(run.img) <= Len(new)
          /\ SubSeq(new, 1, Len(run.img)) = run.img
      BY <1>4, OverIs
    <3> HIDE DEF new
    <3> QED
      BY <1>1, <3>1, <3>2, Stores, Zenon
  <2>2. ASSUME WriteI2cFails PROVE BoardsInv'
    <3>1. PICK k \in TornAt :
            /\ k < Len(run.img)
            /\ board' = [board EXCEPT ![run.b] = Over(SubSeq(run.img, 1, k), @)]
      BY <2>2 DEF WriteI2cFails
    <3> DEFINE torn == SubSeq(run.img, 1, k)
               new == Over(torn, board[run.b])
    <3>2. torn \in Seq(Byte)
      BY <1>1, <3>1, TornIs
    <3>3. new \in Seq(Byte)
      BY <1>4, <3>2, OverIs
    <3>4. /\ board' = [board EXCEPT ![run.b] = new]
          /\ stored' = [stored EXCEPT ![run.b] = None]
      BY <2>2, <3>1 DEF WriteI2cFails
    <3> HIDE DEF new
    <3>5. BoardsInv'
      BY <1>1, <3>3, <3>4, Tears, Zenon
    <3> QED
      BY <3>5
  <2> QED
    BY <2>1, <2>2
<1>6. /\ i2c' = i2c /\ pins' = pins /\ wp' = wp /\ bare' = bare
      /\ run.pc = "eeprog"
  BY <1>1
<1>7. RunShape' /\ ReadBack'
  BY <1>2, <1>3, <1>6 DEF RunShape, ReadBack
<1>8. WpOpen'
  BY <1>2, <1>3, <1>6 DEF WpOpen
<1> QED
  BY <1>3, <1>5, <1>6, <1>7, <1>8 DEF FruInv

(* Nothing was written: the EEPROM stays as it is.                         *)
LEMMA I2cLeft ==
  ASSUME FruInv, WriteI2cNothing
  PROVE  FruInv' /\ run'.pc = "wp_on" /\ run'.b = run.b
<1>1. /\ run.pc = "eeprog" /\ run' = [run EXCEPT !.pc = "wp_on"]
      /\ UNCHANGED <<i2c, pins, board, wp, stored, bare>>
  BY DEF WriteI2cNothing
<1>2. /\ RunShape /\ BoardsInv /\ WpOpen /\ "wp_on" \in RunPcs
      /\ run.b \in Boards /\ Exact(run.img) /\ run.cmd = "write"
      /\ run.b \in i2c
  BY <1>1 DEF FruInv, RunShape, RunPcs
<1>3. /\ run' \in Commands(run'.img, run'.made)
      /\ run'.pc = "wp_on" /\ run'.cmd = run.cmd /\ run'.b = run.b
      /\ run'.img = run.img
  BY <1>1, <1>2, CommandGoesOn, Zenon
<1>4. BoardsInv'
  BY <1>1, <1>2, BoardsKept
<1>5. /\ i2c' = i2c /\ pins' = pins /\ wp' = wp /\ bare' = bare
      /\ run.pc = "eeprog"
  BY <1>1
<1>6. RunShape' /\ ReadBack'
  BY <1>2, <1>3, <1>5 DEF RunShape, ReadBack
<1>7. WpOpen'
  BY <1>2, <1>3, <1>5 DEF WpOpen
<1> QED
  BY <1>3, <1>4, <1>6, <1>7 DEF FruInv

(* The pin is driven, or is not there or stays, which leaves it open.      *)
LEMMA Protects ==
  ASSUME FruInv, run.pc = "wp_on", run' = Idle,
         \/ wp' = wp \cup {run.b} /\ bare' = bare \ {run.b}
         \/ wp' = wp /\ bare' = bare \cup ({run.b} \ wp)
         \/ wp' = wp /\ bare' = bare /\ run.b \notin pins,
         UNCHANGED <<i2c, pins, board, stored>>
  PROVE  FruInv'
<1>1. BoardsInv'
  BY BoardsKept DEF FruInv
<1>2. (pins \subseteq i2c /\ pins \ wp \subseteq bare)'
  BY DEF FruInv, WpOpen
<1> QED
  BY <1>1, <1>2, Ends

(* The flash: flashcp erases first, "sf update" keeps what lies behind.    *)
LEMMA QspiWritten ==
  ASSUME FruInv, run.pc = "flashcp", run' = Idle, UNCHANGED <<i2c, pins, wp, bare>>,
         board' = [board EXCEPT ![run.b] = run.img]
           \/ board' = [board EXCEPT ![run.b] = Over(run.img, @)],
         stored' = [stored EXCEPT ![run.b] = [img |-> run.img, made |-> run.made]]
  PROVE  /\ FruInv' /\ run.b \in Boards /\ run.b \notin i2c
         /\ stored'[run.b] # None
<1>1. /\ run.b \in Boards /\ run.b \notin i2c /\ Exact(run.img)
      /\ board[run.b] \in Seq(Byte)
  BY DEF FruInv, RunShape, BoardsInv
<1>2. run.img \in Seq(Byte) /\ Len(run.img) \in Nat
  BY <1>1, ExactIs
<1>3. PICK new \in Seq(Byte) :
        /\ board' = [board EXCEPT ![run.b] = new]
        /\ Len(run.img) <= Len(new) /\ SubSeq(new, 1, Len(run.img)) = run.img
  <2>1. SubSeq(run.img, 1, Len(run.img)) = run.img
    BY <1>2, SubSeqFull
  <2>2. CASE board' = [board EXCEPT ![run.b] = run.img]
    <3>1. Len(run.img) <= Len(run.img)
      BY <1>2
    <3> QED
      BY <1>2, <2>1, <2>2, <3>1, Zenon
  <2>3. CASE board' = [board EXCEPT ![run.b] = Over(run.img, @)]
    <3> DEFINE new == Over(run.img, board[run.b])
    <3>1. board' = [board EXCEPT ![run.b] = new]
      BY <2>3
    <3>2. /\ new \in Seq(Byte) /\ Len(run.img) <= Len(new)
          /\ SubSeq(new, 1, Len(run.img)) = run.img
      BY <1>1, <1>2, OverIs
    <3> HIDE DEF new
    <3> QED
      BY <3>1, <3>2, Zenon
  <2> QED
    BY <2>2, <2>3
<1>4. BoardsInv' /\ stored'[run.b] # None
  BY <1>3, Stores, Zenon
<1>5. (pins \subseteq i2c /\ pins \ wp \subseteq bare)'
  BY DEF FruInv, WpOpen
<1> QED
  BY <1>1, <1>4, <1>5, Ends

LEMMA QspiTorn ==
  ASSUME FruInv, run.pc = "flashcp", run' = Idle, UNCHANGED <<i2c, pins, wp, bare>>,
         \E k \in TornAt : k < Len(run.img) /\
           board' = [board EXCEPT ![run.b] = SubSeq(run.img, 1, k)],
         stored' = [stored EXCEPT ![run.b] = None]
  PROVE  FruInv'
<1>1. PICK k \in TornAt :
        /\ k < Len(run.img)
        /\ board' = [board EXCEPT ![run.b] = SubSeq(run.img, 1, k)]
  OBVIOUS
<1>2. SubSeq(run.img, 1, k) \in Seq(Byte)
  BY <1>1, TornIs
<1>3. BoardsInv'
  BY <1>1, <1>2, Tears, Zenon
<1>4. (pins \subseteq i2c /\ pins \ wp \subseteq bare)'
  BY DEF FruInv, WpOpen
<1> QED
  BY <1>3, <1>4, Ends

-----------------------------------------------------------------------------
(* The commands that both systems have.                                    *)
Edits ==
  \/ \E c \in Creates : do_ivfru_create(c)
  \/ \E index \in Indexes, data \in AddData : do_ivfru_add(index, data)
  \/ \E index \in Indexes : do_ivfru_rm(index)
  \/ do_ivfru_fix
  \/ \E b \in Boards : do_ivfru_read(b) \/ do_ivfru_write(b)
  \/ \E s \in Supplied : Supply(s)

LEMMA EditStep ==
  ASSUME FruInv, Edits
  PROVE  FruInv' /\ UNCHANGED <<i2c, pins, board, wp, stored>> /\ run'.pc # "wp_on"
<1>1. ASSUME NEW s \in Supplied, Supply(s)
      PROVE  FruInv' /\ UNCHANGED <<i2c, pins, board, wp, stored>>
             /\ run'.pc # "wp_on"
  <2>1. run = Idle /\ UNCHANGED <<i2c, pins, board, wp, run, stored, bare>>
    BY <1>1 DEF Supply
  <2>2. run' = Idle
    BY <2>1
  <2>3. FruInv'
    BY <2>1, <2>2, IdleIs, EndsEarly
  <2> QED
    BY <2>1, <2>2, <2>3, IdleIs
<1>2. ASSUME NEW c \in {"create", "add", "rm", "fix"}, NEW img, NEW m,
             run = Idle, Start(c, "none", img, m)
      PROVE  FruInv' /\ UNCHANGED <<i2c, pins, board, wp, stored>>
             /\ run'.pc # "wp_on"
  BY <1>2, Starts
<1>3. ASSUME NEW c \in Creates, do_ivfru_create(c)
      PROVE  FruInv' /\ UNCHANGED <<i2c, pins, board, wp, stored>>
             /\ run'.pc # "wp_on"
  BY <1>2, <1>3 DEF do_ivfru_create
<1>4. ASSUME NEW index \in Indexes, NEW data \in AddData,
             do_ivfru_add(index, data)
      PROVE  FruInv' /\ UNCHANGED <<i2c, pins, board, wp, stored>>
             /\ run'.pc # "wp_on"
  <2> DEFINE m == LET n == WithCustom(made, InsertAt(made.custom, index, data))
                  IN  IF made.known /\ Eights(n) <= 255 THEN n ELSE Unknown
  <2>1. run = Idle /\ Start("add", "none", ivfru_add(file, index, data), m)
    BY <1>4, Zenon DEF do_ivfru_add
  <2> HIDE DEF m
  <2> QED
    BY <1>2, <2>1
<1>5. ASSUME NEW index \in Indexes, do_ivfru_rm(index)
      PROVE  FruInv' /\ UNCHANGED <<i2c, pins, board, wp, stored>>
             /\ run'.pc # "wp_on"
  <2> DEFINE m == IF made.known
                  THEN WithCustom(made, SubSeq(made.custom, 1, index)
                         \o SubSeq(made.custom, index + 2, Len(made.custom)))
                  ELSE Unknown
  <2>1. run = Idle /\ Start("rm", "none", ivfru_rm(file, index), m)
    BY <1>5, Zenon DEF do_ivfru_rm
  <2> HIDE DEF m
  <2> QED
    BY <1>2, <2>1
<1>6. ASSUME do_ivfru_fix
      PROVE  FruInv' /\ UNCHANGED <<i2c, pins, board, wp, stored>>
             /\ run'.pc # "wp_on"
  BY <1>2, <1>6 DEF do_ivfru_fix
<1>7. ASSUME NEW b \in Boards, do_ivfru_read(b) \/ do_ivfru_write(b)
      PROVE  FruInv' /\ UNCHANGED <<i2c, pins, board, wp, stored>>
             /\ run'.pc # "wp_on"
  BY <1>7, ReadStarts, WriteStarts
<1> QED
  BY <1>1, <1>3, <1>4, <1>5, <1>6, <1>7 DEF Edits

-----------------------------------------------------------------------------
(* Linux: ivfru's steps, and the command killed between them.              *)
LEMMA LinuxStep ==
  ASSUME FruInv, FruNext
  PROVE  FruInv'
<1>1. CASE Edits
  BY <1>1, EditStep
<1>2. CASE SaveOpen
  BY <1>2, SaveOpens
<1>3. CASE SaveWrite \/ SaveFails
  <2>1. /\ run.pc = "fwrite" /\ run' = Idle
        /\ UNCHANGED <<i2c, pins, board, wp, stored, bare>>
    BY <1>3 DEF SaveWrite, SaveFails
  <2> QED
    BY <2>1, EndsEarly
<1>4. CASE WpOff
  BY <1>4, Unprotects DEF WpOff
<1>5. CASE WriteI2c \/ WriteI2cFails
  BY <1>5, I2cWritten
<1>6. CASE WpOn
  BY <1>6, Protects DEF WpOn
<1>9. CASE WriteI2cNothing
  BY <1>9, I2cLeft
<1>7. CASE WriteQspi
  BY <1>7, QspiWritten, QspiTorn, Zenon DEF WriteQspi
<1>8. CASE Kill
  <2>1. /\ run' = Idle /\ UNCHANGED <<i2c, pins, board, wp, stored>>
        /\ bare' = bare \/ bare' = bare \cup {run.b}
        /\ run.pc \in {"eeprog", "wp_on"} => run.b \in bare'
    BY <1>8 DEF Kill
  <2> QED
    BY <2>1, EndsEarly
<1> QED
  BY <1>1, <1>2, <1>3, <1>4, <1>5, <1>6, <1>7, <1>8, <1>9 DEF FruNext, Edits

(* U-Boot: every error ends the command where it is, and what is reported  *)
(* a success has been stored and is protected again.                       *)
LEMMA Silent ==
  ASSUME FruInv', err' \in BOOLEAN, told' = "none",
         run'.pc = "wp_on" => err' \/ stored'[run'.b] # None
  PROVE  TellInv'
  BY DEF TellInv

LEMMA Reports ==
  ASSUME TellInv, run.b \in Boards, stored'[run.b] # None,
         run.b \in pins' => run.b \in wp',
         run' = Idle, err' \in BOOLEAN, told' = run.b, plat' = "uboot"
  PROVE  TellInv'
<1>1. run'.pc # "wp_on"
  BY IdleIs
<1> QED
  BY <1>1 DEF TellInv

LEMMA UbootKeeps ==
  ASSUME FruInv, TellInv, plat = "uboot", plat' = plat, UbootStep
  PROVE  FruInv' /\ TellInv'
<1>0. err \in BOOLEAN /\ plat' = "uboot"
  BY DEF TellInv
<1>1. CASE Edits /\ told' = "none" /\ err' = err
  <2>1. FruInv' /\ run'.pc # "wp_on"
    BY <1>1, EditStep
  <2> QED
    BY <1>0, <1>1, <2>1, Silent
<1>2. ASSUME run.pc \notin {"eeprog", "wp_on"}, run' = Idle,
             UNCHANGED <<i2c, pins, board, wp, stored, bare>>,
             told' = "none", err' \in BOOLEAN
      PROVE  FruInv' /\ TellInv'
  BY <1>2, EndsEarly, Silent, IdleIs
<1>3. CASE (uboot_store \/ uboot_read_fails) /\ told' = "none" /\ err' = err
  <2>1. /\ run.pc = "save" /\ run' = Idle
        /\ UNCHANGED <<i2c, pins, board, wp, stored, bare>>
    BY <1>3 DEF uboot_store, uboot_read_fails
  <2> QED
    BY <1>0, <1>2, <1>3, <2>1
<1>4. CASE gpio_request_fails
  BY <1>0, <1>2, <1>4 DEF gpio_request_fails
<1>5. CASE gpio_deassert
  <2>1. /\ run.pc = "wp_off" /\ told' = "none" /\ err' = FALSE
        /\ UNCHANGED <<i2c, pins, board, stored, bare>>
    BY <1>5 DEF gpio_deassert
  <2>2. CASE wp' = wp /\ run' = Idle
    BY <1>2, <2>1, <2>2
  <2>3. CASE wp' = wp \ {run.b} /\ run' = [run EXCEPT !.pc = "eeprog"]
    <3>1. FruInv' /\ run'.pc = "eeprog"
      BY <2>1, <2>3, Unprotects
    <3> QED
      BY <2>1, <3>1, Silent
  <2> QED
    BY <1>5, <2>2, <2>3 DEF gpio_deassert
<1>6. CASE ivfru_write_i2c
  <2>1. /\ WriteI2c \/ WriteI2cFails \/ WriteI2cNothing
        /\ told' = "none" /\ err' \in BOOLEAN
        /\ err' = FALSE => WriteI2c
    BY <1>6 DEF ivfru_write_i2c
  <2>2. /\ FruInv' /\ run'.b = run.b
        /\ WriteI2c => stored'[run.b] # None
    BY <2>1, I2cWritten, I2cLeft
  <2>3. run'.pc = "wp_on" => err' \/ stored'[run'.b] # None
    BY <2>1, <2>2
  <2> QED
    BY <2>1, <2>2, <2>3, Silent
<1>7. CASE gpio_assert
  <2>1. /\ run.pc = "wp_on" /\ run' = Idle /\ err' = FALSE
        /\ UNCHANGED <<i2c, pins, board, stored>>
    BY <1>7 DEF gpio_assert
  <2>2. run.b \in Boards /\ run'.pc # "wp_on"
    BY <2>1, IdleIs DEF FruInv, RunShape
  <2>3. CASE /\ wp' = wp \cup {run.b} /\ bare' = bare \ {run.b}
             /\ told' = "none"
    BY <2>1, <2>2, <2>3, Protects, Silent
  <2>4. CASE /\ wp' = wp \cup {run.b} /\ bare' = bare \ {run.b}
             /\ ~ err /\ told' = run.b
    <3>1. stored'[run.b] # None
      BY <2>1, <2>4 DEF TellInv
    <3> QED
      BY <1>0, <2>1, <2>2, <2>4, <3>1, Protects, Reports
  <2>5. CASE wp' = wp /\ bare' = bare \cup {run.b} /\ told' = "none"
    <3>1. FruInv'
      BY <2>1, <2>5, EndsEarly
    <3> QED
      BY <2>1, <2>2, <2>5, <3>1, Silent
  <2>6. CASE wp' = wp /\ bare' = bare /\ run.b \notin pins
             /\ told' = IF err THEN "none" ELSE run.b
    <3>1. FruInv'
      BY <2>1, <2>6, Protects
    <3>2. CASE err
      BY <2>1, <2>2, <2>6, <3>1, <3>2, Silent
    <3>3. CASE ~ err
      <4>1. stored'[run.b] # None
        BY <2>1, <3>3 DEF TellInv
      <4> QED
        BY <1>0, <2>1, <2>2, <2>6, <3>1, <3>3, <4>1, Reports
    <3> QED
      BY <1>0, <3>2, <3>3
  <2> QED
    BY <1>0, <1>7, <2>3, <2>4, <2>5, <2>6 DEF gpio_assert
<1>8. CASE ivfru_write_qspi
  <2>1. /\ run.pc = "flashcp" /\ run' = Idle /\ err' = err
        /\ UNCHANGED <<i2c, pins, wp, bare>>
    BY <1>8 DEF ivfru_write_qspi
  <2>2. run'.pc # "wp_on"
    BY <2>1, IdleIs
  <2>3. CASE /\ board' = [board EXCEPT ![run.b] = Over(run.img, @)]
             /\ stored' = [stored EXCEPT ![run.b] =
                             [img |-> run.img, made |-> run.made]]
             /\ told' = run.b
    <3>1. /\ FruInv' /\ run.b \in Boards /\ run.b \notin i2c
          /\ stored'[run.b] # None
      BY <2>1, <2>3, QspiWritten, Zenon
    <3>2. run.b \notin pins'
      BY <2>1, <3>1 DEF FruInv, WpOpen
    <3> QED
      BY <1>0, <2>1, <2>3, <3>1, <3>2, Reports
  <2>4. CASE /\ \E k \in TornAt : k < Len(run.img) /\
                  board' = [board EXCEPT ![run.b] = SubSeq(run.img, 1, k)]
             /\ stored' = [stored EXCEPT ![run.b] = None] /\ told' = "none"
    <3>1. FruInv'
      BY <2>1, <2>4, QspiTorn, Zenon
    <3> QED
      BY <1>0, <2>1, <2>2, <2>4, <3>1, Silent
  <2>5. CASE told' = "none" /\ UNCHANGED <<board, stored>>
    BY <1>0, <1>2, <2>1, <2>5
  <2> QED
    BY <1>8, <2>3, <2>4, <2>5, Zenon DEF ivfru_write_qspi
<1>9. CASE /\ \/ \E c \in Creates : uboot_create_refused(c)
              \/ \E b \in Boards : uboot_read_negative(b)
           /\ told' = "none" /\ err' = err
  <2>1. /\ run = Idle /\ run' = Idle
        /\ UNCHANGED <<i2c, pins, board, wp, stored, bare>>
    BY <1>9 DEF uboot_create_refused, uboot_read_negative
  <2> QED
    BY <1>0, <1>2, <1>9, <2>1, IdleIs
<1> QED
  BY <1>1, <1>3, <1>4, <1>5, <1>6, <1>7, <1>8, <1>9
     DEF UbootStep, Edits, uboot_create, uboot_add, uboot_rm, uboot_fix,
         uboot_read, uboot_write

LEMMA FruStart == UbootInit => FruInv /\ TellInv
<1> SUFFICES ASSUME UbootInit PROVE FruInv /\ TellInv
  OBVIOUS
<1>1. /\ stored \in [Boards -> {None} \cup {s \in Supplied : s.made.known}]
      /\ pins \subseteq i2c /\ wp = pins /\ run = Idle
      /\ err = FALSE /\ told = "none"
  BY DEF UbootInit, FruInit
<1>0. PICK blank \in [Boards -> Blanks] :
        board = [b \in Boards |-> IF stored[b] = None THEN blank[b]
                                  ELSE stored[b].img]
  BY DEF UbootInit, FruInit
<1>2. ASSUME NEW b \in Boards
      PROVE  board[b] \in Seq(Byte) /\ StoredWhole(b)
  <2>1. board[b] = IF stored[b] = None THEN blank[b] ELSE stored[b].img
    BY <1>0
  <2>2. CASE stored[b] = None
    <3>1. blank[b] \in Seq(Byte)
      BY FruAssumption
    <3> QED
      BY <2>1, <2>2, <3>1 DEF StoredWhole
  <2>3. CASE stored[b] # None
    <3>1. Exact(stored[b].img)
      BY <1>1, <2>3, SuppliedAssumption DEF Faithful
    <3>2. stored[b].img \in Seq(Byte) /\ Len(stored[b].img) \in Nat
      BY <3>1, ExactIs
    <3>3. SubSeq(stored[b].img, 1, Len(stored[b].img)) = stored[b].img
      BY <3>2, SubSeqFull
    <3>4. board[b] = stored[b].img
      BY <2>1, <2>3
    <3> QED
      BY <3>1, <3>2, <3>3, <3>4 DEF StoredWhole
  <2> QED
    BY <2>2, <2>3
<1>3. BoardsInv
  BY <1>0, <1>1, <1>2 DEF BoardsInv
<1>4. RunShape /\ ReadBack /\ WpOpen
  <2>1. Idle \in Commands(Idle.img, Idle.made)
    BY DEF Idle, Commands, RunPcs, Cmds
  <2> QED
    BY <1>1, <2>1, IdleIs DEF RunShape, ReadBack, WpOpen
<1>5. TellInv
  BY <1>1, IdleIs DEF TellInv
<1> QED
  BY <1>3, <1>4, <1>5 DEF FruInv

LEMMA FruStep ==
  FruInv /\ TellInv /\ [UbootNext]_<<fvars, uvars>> => FruInv' /\ TellInv'
<1> SUFFICES ASSUME FruInv, TellInv, [UbootNext]_<<fvars, uvars>>
             PROVE  FruInv' /\ TellInv'
  OBVIOUS
<1>1. CASE UNCHANGED <<fvars, uvars>>
  BY <1>1 DEF fvars, uvars, FruInv, RunShape, Commands, BoardsInv, StoredWhole,
              WpOpen, ReadBack, TellInv
<1>2. CASE plat = "linux" /\ FruNext /\ UNCHANGED uvars
  <2>1. FruInv'
    BY <1>2, LinuxStep
  <2> QED
    BY <1>2, <2>1 DEF TellInv, uvars
<1>3. CASE plat = "uboot" /\ UbootStep /\ plat' = plat
  BY <1>3, UbootKeeps
<1>4. CASE Restart
  <2>1. /\ run' = Idle /\ UNCHANGED <<i2c, pins, board, wp, stored>>
        /\ bare' = bare \/ bare' = bare \cup {run.b}
        /\ run.pc \in {"eeprog", "wp_on"} => run.b \in bare'
        /\ err' = FALSE /\ told' = "none"
    BY <1>4 DEF Restart
  <2>2. FruInv' /\ run'.pc # "wp_on"
    BY <2>1, EndsEarly, IdleIs
  <2> QED
    BY <2>1, <2>2, Silent
<1> QED
  BY <1>1, <1>2, <1>3, <1>4 DEF UbootNext

LEMMA FruAlways == UbootSpec => [](FruInv /\ TellInv)
  BY FruStart, FruStep, PTL DEF UbootSpec

-----------------------------------------------------------------------------
(* What the commands make says what they were told.                        *)

LEMMA UnknownTruthful ==
  ASSUME NEW img, NEW m, ~ m.known
  PROVE  Truthful(img, m)
  BY DEF Truthful

LEMMA UnknownIs == ~ Unknown.known /\ ~ Idle.made.known /\ ~ None.made.known
  BY DEF Unknown, Idle, None

LEMMA FaithfulTruthful ==
  ASSUME NEW img, NEW m,
         (m.known /\ \A k \in 1 .. 4 : m.lens[k] # 0) => Faithful(img, m)
  PROVE  Truthful(img, m)
  BY DEF Truthful

LEMMA CompleteFaithful ==
  ASSUME NEW img, NEW m, Truthful(img, m), Complete(img) \/ fru_is_old_format(img),
         m.known, \A k \in 1 .. 4 : m.lens[k] # 0
  PROVE  Faithful(img, m)
  BY DEF Truthful

LEMMA CreateTruthful ==
  ASSUME NEW c \in Creates, date2dmy(c.date),
         \A k \in 1 .. 4 : fru_make_tl_byte(c.lens[k]),
         NEW m, m.lens = c.lens, m.date = c.date, m.custom = <<>>
  PROVE  Truthful(ivfru_xcreate(c.lens, c.date), m)
<1>1. PICK lens : lens = c.lens
  BY Zenon
<1>2. PICK d : d = c.date
  BY Zenon
<1>3. lens \in [1 .. 4 -> Nat] /\ d \in Int \X Int \X Int
  BY <1>1, <1>2, FruAssumption
<1>4. date2dmy(d) /\ \A k \in 1 .. 4 : fru_make_tl_byte(lens[k])
  BY <1>1, <1>2, Zenon
<1>5. m.lens = lens /\ m.custom = <<>> /\ m.date = d
  BY <1>1, <1>2, Zenon
<1>6. ASSUME \A k \in 1 .. 4 : m.lens[k] # 0
      PROVE  Faithful(ivfru_xcreate(lens, d), m)
  <2>1. \A k \in 1 .. 4 : fru_make_tl_byte(lens[k]) /\ lens[k] # 0
    BY <1>4, <1>5, <1>6, Zenon
  <2> QED
    BY <1>3, <1>4, <1>5, <2>1, CreateFaithful, Zenon
<1> QED
  BY <1>1, <1>2, <1>6, Zenon DEF Truthful

LEMMA WithCustomIs ==
  ASSUME NEW m, NEW c
  PROVE  /\ WithCustom(m, c).known = TRUE /\ WithCustom(m, c).lens = m.lens
         /\ WithCustom(m, c).date = m.date /\ WithCustom(m, c).custom = c
  BY DEF WithCustom

LEMMA AddTruthful ==
  ASSUME NEW img, NEW m, Editable(img), Truthful(img, m), m.known, NEW index \in Int,
         NEW data \in AddData, fru_make_tl_byte(Len(data)), NEW n,
         n = WithCustom(m, InsertAt(m.custom, index, data)), Eights(n) <= 255
  PROVE  Truthful(ivfru_add(img, index, data), n)
<1>1. data \in FieldData
  BY FruAssumption DEF FieldData, Bytes, fru_make_tl_byte
<1>2. ASSUME \A k \in 1 .. 4 : n.lens[k] # 0
      PROVE  Faithful(ivfru_add(img, index, data), n)
  <2>1. n.lens = m.lens
    BY WithCustomIs
  <2>2. Complete(img)
    BY DEF Editable, ivfru_validate
  <2>3. Faithful(img, m)
    BY <1>2, <2>1, <2>2, CompleteFaithful
  <2>4. Says(img, m)
    BY <2>3 DEF Faithful
  <2> QED
    BY <1>1, <2>4, AddFaithful
<1> QED
  BY <1>2, FaithfulTruthful

LEMMA RmTruthful ==
  ASSUME NEW img, NEW m, Editable(img), Truthful(img, m), m.known, NEW index \in Int,
         index >= 0, 6 + index < Len(Walk(Area(img))), NEW n,
         n = WithCustom(m, Without(m.custom, index))
  PROVE  Truthful(ivfru_rm(img, index), n)
<1>2. ASSUME \A k \in 1 .. 4 : n.lens[k] # 0
      PROVE  Faithful(ivfru_rm(img, index), n)
  <2>1. n.lens = m.lens
    BY WithCustomIs
  <2>2. Complete(img)
    BY DEF Editable, ivfru_validate
  <2>3. Faithful(img, m)
    BY <1>2, <2>1, <2>2, CompleteFaithful
  <2>4. Says(img, m)
    BY <2>3 DEF Faithful
  <2> QED
    BY <2>4, RmFaithful
<1> QED
  BY <1>2, FaithfulTruthful

LEMMA FixTruthful ==
  ASSUME NEW img, NEW m, fru_is_old_format(img), Truthful(img, m)
  PROVE  Truthful(ivfru_fix(img), m)
<1>1. ASSUME m.known, \A k \in 1 .. 4 : m.lens[k] # 0
      PROVE  Faithful(ivfru_fix(img), m)
  <2>1. Faithful(img, m)
    BY <1>1, CompleteFaithful
  <2>2. Exact(img) /\ Says(img, m)
    BY <2>1 DEF Faithful
  <2> QED
    BY <2>2, FixFaithful
<1> QED
  BY <1>1, FaithfulTruthful

LEMMA WriteTruthful ==
  ASSUME NEW img, NEW m, Editable(img), Truthful(img, m)
  PROVE  Truthful(SubSeq(img, 1, fru_get_total_length(img)), m)
<1>1. ASSUME m.known, \A k \in 1 .. 4 : m.lens[k] # 0
      PROVE  Faithful(SubSeq(img, 1, fru_get_total_length(img)), m)
  <2>1. Complete(img) /\ ~ fru_is_old_format(img)
    BY DEF Editable, ivfru_validate
  <2>2. Faithful(img, m)
    BY <1>1, <2>1, CompleteFaithful
  <2>3. img \in Bytes /\ Len(img) = 8 + AreaLen(img)
    BY <2>1, <2>2 DEF Faithful, Exact, Complete, Bytes
  <2>4. Len(img) = fru_get_total_length(img)
    BY <2>1, <2>3 DEF AreaLen, fru_get_total_length
  <2>5. PICK n \in Nat : n = Len(img)
    BY <2>3, BytesAre
  <2>6. SubSeq(img, 1, n) = img
    BY <2>3, <2>5, AllOf
  <2> QED
    BY <2>2, <2>4, <2>5, <2>6
<1> QED
  BY <1>1, FaithfulTruthful

LEMMA ReadBytes ==
  ASSUME NEW B \in Seq(Byte), NEW n \in Nat, NEW f, f = [k \in 1 .. n |-> ByteOf(B, k)]
  PROVE  f \in Bytes /\ Len(f) = n /\ \A k \in 1 .. n : f[k] = ByteOf(B, k)
<1>1. 255 \in Byte
  BY DEF Byte
<1>2. Len(B) \in Nat /\ \A l \in 1 .. Len(B) : B[l] \in Byte
  BY LenProperties, ElementOfSeq
<1>3. ASSUME NEW k \in 1 .. n PROVE ByteOf(B, k) \in Byte
  <2>1. CASE k <= Len(B)
    <3>1. k \in 1 .. Len(B)
      BY <1>2, <2>1
    <3> QED
      BY <1>2, <2>1, <3>1 DEF ByteOf
  <2>2. CASE ~ (k <= Len(B))
    BY <1>1, <2>2 DEF ByteOf
  <2> QED
    BY <2>1, <2>2
<1>4. f \in [1 .. n -> Byte] /\ \A k \in 1 .. n : f[k] = ByteOf(B, k)
  BY <1>3
<1>5. f \in Seq(Byte) /\ Len(f) = n
  BY <1>4
<1> QED
  BY <1>4, <1>5 DEF Bytes

(* The first bytes of a new image of 512 are not taken for an image.       *)
LEMMA ReadInPart ==
  ASSUME NEW f \in Bytes, NEW I \in Bytes, Len(f) < 520, NEW l \in Nat,
         l <= Len(f), l <= Len(I), l >= 10,
         \A k \in 1 .. l : f[k] = I[k], I[10] = 64, ~ fru_is_old_format(I)
  PROVE  ~ Complete(f) /\ ~ fru_is_old_format(f)
<1>0. Len(f) \in Nat /\ Len(I) \in Nat
  BY BytesAre
<1>1. PICK z \in Nat : z = 0
  OBVIOUS
<1>2. PICK h \in Nat : h = 8
  OBVIOUS
<1>3. z + h <= Len(f) /\ z + h <= Len(I)
  BY <1>0, <1>1, <1>2
<1>4. \A k \in 1 .. h : f[z + k] = I[z + k]
  BY <1>1, <1>2
<1>5. Cut(f, z, h) = Cut(I, z, h)
  BY <1>3, <1>4, SameCut
<1>6. z + 1 = 1 /\ z + h = 8
  BY <1>1, <1>2
<1>7. SubSeq(f, 1, 8) = SubSeq(I, 1, 8)
  BY <1>5, <1>6 DEF Cut
<1>8. ~ fru_is_old_format(f)
  BY <1>7 DEF fru_is_old_format
<1>9. f[10] = 64
  <2>1. 10 \in 1 .. l
    OBVIOUS
  <2> QED
    BY <2>1
<1>10. AreaLen(f) = 512
  BY <1>8, <1>9 DEF AreaLen
<1>11. ~ (Len(f) >= 8 + AreaLen(f))
  BY <1>0, <1>10
<1>12. ~ Complete(f)
  BY <1>11 DEF Complete
<1> QED
  BY <1>8, <1>12

LEMMA ReadTruthful ==
  ASSUME BoardsInv, NEW b \in Boards, Truthful(stored[b].img, stored[b].made), NEW img,
         img = [k \in 1 .. 8 + ReadSize(ByteOf(board[b], 10)) |-> ByteOf(board[b], k)]
  PROVE  Truthful(img, stored[b].made)
<1>1. CASE stored[b] = None
  BY <1>1, UnknownIs, UnknownTruthful
<1>2. ASSUME stored[b] # None, stored[b].made.known,
             \A k \in 1 .. 4 : stored[b].made.lens[k] # 0
      PROVE  \/ Faithful(img, stored[b].made)
             \/ Eights(stored[b].made) = 64 /\ ~ Complete(img) /\ ~ fru_is_old_format(img)
  <2>1. PICK I : I = stored[b].img
    BY Zenon
  <2>2. PICK B : B = board[b]
    BY Zenon
  <2>3. /\ Exact(I) /\ Len(I) <= Len(B) /\ I = SubSeq(B, 1, Len(I))
        /\ B \in Seq(Byte)
    BY <1>2, <2>1, <2>2 DEF BoardsInv, StoredWhole
  <2>4. Faithful(I, stored[b].made)
    <3>1. Complete(I)
      BY <2>3 DEF Exact, ivfru_validate
    <3> QED
      BY <1>2, <2>1, <3>1, CompleteFaithful
  <2>5. CASE I[10] = 64 => fru_is_old_format(I)
    <3>1. img = I
      BY <1>2, <2>1, <2>5, ReadsAll
    <3> QED
      BY <2>4, <3>1
  <2>6. CASE I[10] = 64 /\ ~ fru_is_old_format(I)
    <3>1. Eights(stored[b].made) = 64
      BY <2>4, <2>6 DEF Faithful
    <3>2. I \in Seq(Byte) /\ Len(I) \in Nat /\ Len(I) >= 14 /\ Len(I) <= Len(B)
      BY <2>3, ExactIs
    <3>3. Len(I) \in 0 .. Len(B) /\ Len(B) \in Nat
      BY <2>3, <3>2, LenProperties
    <3>4. \A k \in 1 .. Len(I) : I[k] = B[k]
      BY <2>3, <3>3, Prefix
    <3>5. PICK l \in Nat : l = 14
      OBVIOUS
    <3>6. \A k \in 1 .. l : ByteOf(B, k) = I[k]
      BY <3>2, <3>3, <3>4, <3>5 DEF ByteOf
    <3>7. ByteOf(B, 10) = 64
      <4>1. 10 \in 1 .. l
        BY <3>5
      <4> QED
        BY <2>6, <3>6, <4>1
    <3>8. PICK n \in Nat : n = 72
      OBVIOUS
    <3>9. 8 + ReadSize(ByteOf(B, 10)) = n
      BY <3>7, <3>8 DEF ReadSize
    <3>10. img = [k \in 1 .. n |-> ByteOf(B, k)]
      BY <2>2, <3>9, Zenon
    <3>11. img \in Bytes /\ Len(img) = n /\ \A k \in 1 .. n : img[k] = ByteOf(B, k)
      BY <2>3, <3>10, ReadBytes, Zenon
    <3>12. \A k \in 1 .. l : img[k] = I[k]
      <4>1. \A k \in 1 .. l : k \in 1 .. n
        BY <3>5, <3>8
      <4> QED
        BY <3>6, <3>11, <4>1, Zenon
    <3>13. l >= 10 /\ l <= Len(img) /\ l <= Len(I) /\ Len(img) < 520
      <4>1. l >= 10 /\ l <= n /\ n < 520
        BY <3>5, <3>8
      <4>2. l <= Len(I)
        BY <3>2, <3>5
      <4>3. Len(img) = n
        BY <3>11, Zenon
      <4> QED
        BY <4>1, <4>2, <4>3
    <3>14. I \in Bytes
      BY <3>2 DEF Bytes
    <3>b. ~ Complete(img) /\ ~ fru_is_old_format(img)
      <4>1. img \in Bytes
        BY <3>11, Zenon
      <4> QED
        BY <2>6, <3>12, <3>13, <3>14, <4>1, ReadInPart
    <3> QED
      BY <3>1, <3>b
  <2> QED
    BY <2>5, <2>6
<1> QED
  BY <1>1, <1>2 DEF Truthful

-----------------------------------------------------------------------------
(* The steps.                                                              *)
LEMMA TruthIs ==
  ASSUME Truthful(file', made'), Truthful(run'.img, run'.made),
         \A b \in Boards : Truthful(stored'[b].img, stored'[b].made),
         run'.pc = "fwrite" => ~ made'.known
  PROVE  TruthInv'
  BY DEF TruthInv

LEMMA StartsTruthful ==
  ASSUME TruthInv, NEW c, NEW b, NEW img, NEW m, Start(c, b, img, m), Truthful(img, m)
  PROVE  TruthInv'
<1>1. /\ run' = [pc |-> "save", cmd |-> c, b |-> b, img |-> img, made |-> m]
      /\ file' = file /\ made' = made /\ stored' = stored
  BY DEF Start
<1>2. run'.img = img /\ run'.made = m /\ run'.pc # "fwrite"
  BY <1>1
<1> QED
  BY <1>1, <1>2, TruthIs DEF TruthInv

LEMMA EndsTruthful ==
  ASSUME TruthInv, run' = Idle, stored' = stored, Truthful(file', made')
  PROVE  TruthInv'
<1>1. run'.pc # "fwrite" /\ Truthful(run'.img, run'.made)
  <2>1. ~ Idle.made.known
    BY UnknownIs
  <2>2. Truthful(Idle.img, Idle.made)
    BY <2>1, UnknownTruthful
  <2> QED
    BY <2>2, IdleIs
<1> QED
  BY <1>1, TruthIs DEF TruthInv

LEMMA EditTruthful ==
  ASSUME FruInv, TruthInv, Edits
  PROVE  TruthInv'
<1>0. Truthful(file, made) /\ \A b \in Boards : Truthful(stored[b].img, stored[b].made)
  BY DEF TruthInv
<1>1. ASSUME NEW s \in Supplied, Supply(s)
      PROVE  TruthInv'
  <2>1. run = Idle /\ run' = run /\ stored' = stored /\ file' = s.img
        /\ made' = s.made
    BY <1>1 DEF Supply
  <2>2. s.made.known => Faithful(s.img, s.made)
    BY SuppliedAssumption
  <2>3. Truthful(s.img, s.made)
    BY <2>2 DEF Truthful
  <2> QED
    BY <2>1, <2>3, EndsTruthful
<1>2. ASSUME NEW c \in Creates, do_ivfru_create(c)
      PROVE  TruthInv'
  <2> DEFINE m == [known |-> TRUE, lens |-> c.lens, date |-> c.date, custom |-> <<>>]
  <2>1. /\ date2dmy(c.date) /\ \A k \in 1 .. 4 : fru_make_tl_byte(c.lens[k])
        /\ Start("create", "none", ivfru_xcreate(c.lens, c.date), m)
    BY <1>2 DEF do_ivfru_create
  <2>2. m.lens = c.lens /\ m.date = c.date /\ m.custom = <<>>
    OBVIOUS
  <2> HIDE DEF m
  <2>3. Truthful(ivfru_xcreate(c.lens, c.date), m)
    BY <2>1, <2>2, CreateTruthful, Zenon
  <2> QED
    BY <2>1, <2>3, StartsTruthful
<1>3. ASSUME NEW index \in Indexes, NEW data \in AddData, do_ivfru_add(index, data)
      PROVE  TruthInv'
  <2> DEFINE n == WithCustom(made, InsertAt(made.custom, index, data))
             m == IF made.known /\ Eights(n) <= 255 THEN n ELSE Unknown
  <2>1. /\ Editable(file) /\ fru_make_tl_byte(Len(data))
        /\ Start("add", "none", ivfru_add(file, index, data), m)
    BY <1>3, Zenon DEF do_ivfru_add
  <2>2. index \in Int
    BY FruAssumption
  <2>3. CASE made.known /\ Eights(n) <= 255
    <3>1. m = n
      BY <2>3
    <3>2. PICK x : x = n
      BY Zenon
    <3>3. x = WithCustom(made, InsertAt(made.custom, index, data))
          /\ Eights(x) <= 255
      BY <2>3, <3>2
    <3> HIDE DEF n, m
    <3>4. Truthful(ivfru_add(file, index, data), x)
      BY <1>0, <2>1, <2>2, <2>3, <3>3, AddTruthful, Zenon
    <3> QED
      BY <2>1, <3>1, <3>2, <3>4, StartsTruthful
  <2>4. CASE ~ (made.known /\ Eights(n) <= 255)
    <3>1. m = Unknown
      BY <2>4
    <3> HIDE DEF m
    <3>2. Truthful(ivfru_add(file, index, data), m)
      BY <3>1, UnknownIs, UnknownTruthful
    <3> QED
      BY <2>1, <3>2, StartsTruthful
  <2> QED
    BY <2>3, <2>4
<1>4. ASSUME NEW index \in Indexes, do_ivfru_rm(index)
      PROVE  TruthInv'
  <2> DEFINE n == WithCustom(made, Without(made.custom, index))
             m == IF made.known THEN n ELSE Unknown
  <2>1. /\ Editable(file) /\ index >= 0 /\ 6 + index < Len(Walk(Area(file)))
        /\ Start("rm", "none", ivfru_rm(file, index), m)
    BY <1>4, Zenon DEF do_ivfru_rm, Without
  <2>2. index \in Int
    BY FruAssumption
  <2>3. CASE made.known
    <3>1. m = n
      BY <2>3
    <3>2. PICK x : x = n
      BY Zenon
    <3>3. x = WithCustom(made, Without(made.custom, index))
      BY <3>2
    <3> HIDE DEF n, m
    <3>4. Truthful(ivfru_rm(file, index), x)
      BY <1>0, <2>1, <2>2, <2>3, <3>3, RmTruthful, Zenon
    <3> QED
      BY <2>1, <3>1, <3>2, <3>4, StartsTruthful
  <2>4. CASE ~ made.known
    <3>1. m = Unknown
      BY <2>4
    <3> HIDE DEF m
    <3>2. Truthful(ivfru_rm(file, index), m)
      BY <3>1, UnknownIs, UnknownTruthful
    <3> QED
      BY <2>1, <3>2, StartsTruthful
  <2> QED
    BY <2>3, <2>4
<1>5. ASSUME do_ivfru_fix
      PROVE  TruthInv'
  <2>1. fru_is_old_format(file) /\ Start("fix", "none", ivfru_fix(file), made)
    BY <1>5 DEF do_ivfru_fix
  <2>2. Truthful(ivfru_fix(file), made)
    BY <1>0, <2>1, FixTruthful
  <2> QED
    BY <2>1, <2>2, StartsTruthful
<1>6. ASSUME NEW b \in Boards, do_ivfru_read(b)
      PROVE  TruthInv'
  <2> DEFINE img == [k \in 1 .. 8 + ReadSize(ByteOf(board[b], 10)) |->
                       ByteOf(board[b], k)]
  <2>1. Start("read", b, img, stored[b].made)
    BY <1>6 DEF do_ivfru_read
  <2>2. PICK x : x = img
    BY Zenon
  <2>3. x = [k \in 1 .. 8 + ReadSize(ByteOf(board[b], 10)) |-> ByteOf(board[b], k)]
    BY <2>2
  <2>4. BoardsInv
    BY DEF FruInv
  <2> HIDE DEF img
  <2>5. Truthful(x, stored[b].made)
    BY <1>0, <2>3, <2>4, ReadTruthful
  <2> QED
    BY <2>1, <2>2, <2>5, StartsTruthful
<1>7. ASSUME NEW b \in Boards, do_ivfru_write(b)
      PROVE  TruthInv'
  <2> DEFINE img == SubSeq(file, 1, fru_get_total_length(file))
  <2>1. Editable(file) /\ StartWrite(b)
    BY <1>7 DEF do_ivfru_write
  <2>2. Truthful(img, made)
    BY <1>0, <2>1, WriteTruthful
  <2>3. /\ run' = [pc |-> IF b \in i2c THEN "wp_off" ELSE "flashcp", cmd |-> "write",
                   b |-> b, img |-> img, made |-> made]
        /\ file' = file /\ made' = made /\ stored' = stored
    BY <2>1 DEF StartWrite
  <2> HIDE DEF img
  <2>4. run'.img = img /\ run'.made = made /\ run'.pc # "fwrite"
    BY <2>3
  <2> QED
    BY <1>0, <2>2, <2>3, <2>4, TruthIs
<1> QED
  BY <1>1, <1>2, <1>3, <1>4, <1>5, <1>6, <1>7 DEF Edits

LEMMA GoesOnSame ==
  ASSUME RunShape, NEW p \in RunPcs, run' = [run EXCEPT !.pc = p]
  PROVE  run'.pc = p /\ run'.img = run.img /\ run'.made = run.made
<1>1. run \in Commands(run.img, run.made)
  BY DEF RunShape
<1> QED
  BY <1>1, Zenon DEF Commands

(* The command takes its next step.                                        *)
LEMMA GoesOnTruthful ==
  ASSUME FruInv, TruthInv, NEW p \in {"eeprog", "wp_on"}, run' = [run EXCEPT !.pc = p],
         file' = file, made' = made,
         \A b \in Boards : Truthful(stored'[b].img, stored'[b].made)
  PROVE  TruthInv'
<1>1. RunShape /\ p \in RunPcs
  BY DEF FruInv, RunPcs
<1>2. run'.pc = p /\ run'.img = run.img /\ run'.made = run.made
  BY <1>1, GoesOnSame
<1>3. run'.pc # "fwrite"
  BY <1>2
<1> QED
  BY <1>2, <1>3, TruthIs DEF TruthInv

LEMMA StoresTruthful ==
  ASSUME FruInv, TruthInv, run.pc \in {"eeprog", "flashcp"},
         \/ stored' = [stored EXCEPT ![run.b] = [img |-> run.img, made |-> run.made]]
         \/ stored' = [stored EXCEPT ![run.b] = None]
         \/ stored' = stored
  PROVE  \A b \in Boards : Truthful(stored'[b].img, stored'[b].made)
<1> DEFINE s == [img |-> run.img, made |-> run.made]
<1>1. DOMAIN stored = Boards
  BY DEF FruInv, BoardsInv
<1>2. s.img = run.img /\ s.made = run.made
  OBVIOUS
<1> HIDE DEF s
<1>3. Truthful(s.img, s.made)
  BY <1>2 DEF TruthInv
<1>4. Truthful(None.img, None.made)
  BY UnknownIs, UnknownTruthful
<1>5. \/ stored' = [stored EXCEPT ![run.b] = s]
      \/ stored' = [stored EXCEPT ![run.b] = None]
      \/ stored' = stored
  BY DEF s
<1>6. ASSUME NEW b \in Boards PROVE Truthful(stored'[b].img, stored'[b].made)
  <2>1. stored'[b] = s \/ stored'[b] = None \/ stored'[b] = stored[b]
    BY <1>1, <1>5
  <2> QED
    BY <1>3, <1>4, <2>1 DEF TruthInv
<1> QED
  BY <1>6

LEMMA WrittenTruthful ==
  ASSUME FruInv, TruthInv, run.pc = "flashcp", run' = Idle, file' = file, made' = made,
         \/ stored' = [stored EXCEPT ![run.b] = [img |-> run.img, made |-> run.made]]
         \/ stored' = [stored EXCEPT ![run.b] = None]
         \/ stored' = stored
  PROVE  TruthInv'
<1>1. \A b \in Boards : Truthful(stored'[b].img, stored'[b].made)
  <2>1. run.pc \in {"eeprog", "flashcp"}
    OBVIOUS
  <2> QED
    BY <2>1, StoresTruthful, Zenon
<1>2. Truthful(Idle.img, Idle.made)
  BY UnknownIs, UnknownTruthful
<1>3. run'.pc # "fwrite"
  BY IdleIs
<1>4. Truthful(file', made')
  BY DEF TruthInv
<1> QED
  BY <1>1, <1>2, <1>3, <1>4, TruthIs

LEMMA I2cTruthful ==
  ASSUME FruInv, TruthInv, WriteI2c \/ WriteI2cFails \/ WriteI2cNothing
  PROVE  TruthInv'
<1>1. /\ run.pc = "eeprog" /\ run' = [run EXCEPT !.pc = "wp_on"]
      /\ file' = file /\ made' = made
      /\ \/ stored' = [stored EXCEPT ![run.b] = [img |-> run.img, made |-> run.made]]
         \/ stored' = [stored EXCEPT ![run.b] = None]
         \/ stored' = stored
  BY Zenon DEF WriteI2c, WriteI2cFails, WriteI2cNothing
<1>2. \A b \in Boards : Truthful(stored'[b].img, stored'[b].made)
  <2>1. run.pc \in {"eeprog", "flashcp"}
    BY <1>1
  <2> QED
    BY <1>1, <2>1, StoresTruthful, Zenon
<1> QED
  BY <1>1, <1>2, GoesOnTruthful

LEMMA SavesTruthful ==
  ASSUME TruthInv, run' = Idle, stored' = stored,
         \/ file' = run.img /\ made' = run.made
         \/ file' = file /\ made' = made
         \/ made' = Unknown
         \/ run.pc = "fwrite" /\ made' = made
  PROVE  TruthInv'
<1>1. Truthful(file', made')
  <2>1. CASE ~ made'.known
    BY <2>1, UnknownTruthful
  <2>2. CASE \/ file' = run.img /\ made' = run.made
             \/ file' = file /\ made' = made
    BY <2>2 DEF TruthInv
  <2> QED
    BY <2>1, <2>2, UnknownIs DEF TruthInv
<1> QED
  BY <1>1, EndsTruthful

LEMMA OpensTruthful ==
  ASSUME FruInv, TruthInv, SaveOpen
  PROVE  TruthInv'
<1>1. /\ made' = Unknown /\ stored' = stored
      /\ run' = [run EXCEPT !.pc = "fwrite"]
  BY DEF SaveOpen
<1>2. RunShape /\ "fwrite" \in RunPcs
  BY DEF FruInv, RunPcs
<1>3. run'.img = run.img /\ run'.made = run.made
  BY <1>1, <1>2, GoesOnSame
<1>4. ~ made'.known
  BY <1>1, UnknownIs
<1>5. Truthful(file', made')
  BY <1>4, UnknownTruthful
<1> QED
  BY <1>1, <1>3, <1>4, <1>5, TruthIs DEF TruthInv

LEMMA LinuxTruthful ==
  ASSUME FruInv, TruthInv, FruNext
  PROVE  TruthInv'
<1>1. CASE Edits
  BY <1>1, EditTruthful
<1>2. CASE SaveOpen
  BY <1>2, OpensTruthful
<1>3. CASE SaveWrite \/ SaveFails \/ WpOn \/ Kill
  <2>1. run' = Idle /\ stored' = stored
    BY <1>3 DEF SaveWrite, SaveFails, WpOn, Kill
  <2>2. \/ file' = run.img /\ made' = run.made
        \/ file' = file /\ made' = made
        \/ run.pc = "fwrite" /\ made' = made
    BY <1>3 DEF SaveWrite, SaveFails, WpOn, Kill
  <2> QED
    BY <2>1, <2>2, SavesTruthful
<1>4. CASE WpOff
  <2>1. /\ run' = [run EXCEPT !.pc = "eeprog"] /\ file' = file /\ made' = made
        /\ stored' = stored
    BY <1>4 DEF WpOff
  <2>2. \A b \in Boards : Truthful(stored'[b].img, stored'[b].made)
    BY <2>1 DEF TruthInv
  <2> QED
    BY <2>1, <2>2, GoesOnTruthful
<1>5. CASE WriteI2c \/ WriteI2cFails \/ WriteI2cNothing
  BY <1>5, I2cTruthful
<1>6. CASE WriteQspi
  <2>1. /\ run.pc = "flashcp" /\ run' = Idle /\ file' = file /\ made' = made
        /\ \/ stored' = [stored EXCEPT ![run.b] = [img |-> run.img, made |-> run.made]]
           \/ stored' = [stored EXCEPT ![run.b] = None]
    BY <1>6, Zenon DEF WriteQspi
  <2> QED
    BY <2>1, WrittenTruthful, Zenon
<1> QED
  BY <1>1, <1>2, <1>3, <1>4, <1>5, <1>6 DEF FruNext, Edits

LEMMA UbootTruthful ==
  ASSUME FruInv, TruthInv, UbootStep
  PROVE  TruthInv'
<1>1. CASE Edits
  BY <1>1, EditTruthful
<1>2. CASE uboot_store \/ uboot_read_fails \/ gpio_request_fails \/ gpio_assert
  <2>1. run' = Idle /\ stored' = stored
    BY <1>2 DEF uboot_store, uboot_read_fails, gpio_request_fails, gpio_assert
  <2>2. \/ file' = run.img /\ made' = run.made
        \/ file' = file /\ made' = made
        \/ made' = Unknown
    BY <1>2 DEF uboot_store, uboot_read_fails, gpio_request_fails, gpio_assert
  <2> QED
    BY <2>1, <2>2, SavesTruthful
<1>3. CASE gpio_deassert
  <2>1. /\ file' = file /\ made' = made /\ stored' = stored
        /\ run' = [run EXCEPT !.pc = "eeprog"] \/ run' = Idle
    BY <1>3 DEF gpio_deassert
  <2>2. \A b \in Boards : Truthful(stored'[b].img, stored'[b].made)
    BY <2>1 DEF TruthInv
  <2>3. CASE run' = Idle
    BY <2>1, <2>3, SavesTruthful
  <2>4. CASE run' = [run EXCEPT !.pc = "eeprog"]
    BY <2>1, <2>2, <2>4, GoesOnTruthful
  <2> QED
    BY <2>1, <2>3, <2>4
<1>4. CASE ivfru_write_i2c
  <2>1. WriteI2c \/ WriteI2cFails \/ WriteI2cNothing
    BY <1>4 DEF ivfru_write_i2c
  <2> QED
    BY <2>1, I2cTruthful
<1>5. CASE ivfru_write_qspi
  <2>1. /\ run.pc = "flashcp" /\ run' = Idle /\ file' = file /\ made' = made
        /\ \/ stored' = [stored EXCEPT ![run.b] = [img |-> run.img, made |-> run.made]]
           \/ stored' = [stored EXCEPT ![run.b] = None]
           \/ stored' = stored
    BY <1>5, Zenon DEF ivfru_write_qspi
  <2> QED
    BY <2>1, WrittenTruthful, Zenon
<1>6. CASE \/ \E c \in Creates : uboot_create_refused(c)
           \/ \E b \in Boards : uboot_read_negative(b)
  <2>1. run = Idle /\ run' = run /\ stored' = stored /\ made' = Unknown
    BY <1>6 DEF uboot_create_refused, uboot_read_negative
  <2> QED
    BY <2>1, SavesTruthful
<1> QED
  BY <1>1, <1>2, <1>3, <1>4, <1>5, <1>6
     DEF UbootStep, Edits, uboot_create, uboot_add, uboot_rm, uboot_fix,
         uboot_read, uboot_write

LEMMA TruthStart == UbootInit => TruthInv
<1> SUFFICES ASSUME UbootInit PROVE TruthInv
  OBVIOUS
<1>1. /\ stored \in [Boards -> {None} \cup {s \in Supplied : s.made.known}]
      /\ file = <<>> /\ made = Unknown /\ run = Idle
  BY DEF UbootInit, FruInit
<1>2. ASSUME NEW b \in Boards PROVE Truthful(stored[b].img, stored[b].made)
  <2>1. CASE stored[b] = None
    BY <2>1, UnknownIs, UnknownTruthful
  <2>2. CASE stored[b] # None
    <3>1. Faithful(stored[b].img, stored[b].made)
      BY <1>1, <2>2, SuppliedAssumption
    <3> QED
      BY <3>1 DEF Truthful
  <2> QED
    BY <2>1, <2>2
<1>3. Truthful(file, made) /\ Truthful(run.img, run.made)
  BY <1>1, UnknownIs, UnknownTruthful
<1>4. run.pc # "fwrite"
  BY <1>1, IdleIs
<1> QED
  BY <1>2, <1>3, <1>4 DEF TruthInv

LEMMA TruthStep ==
  FruInv /\ TruthInv /\ [UbootNext]_<<fvars, uvars>> => TruthInv'
<1> SUFFICES ASSUME FruInv, TruthInv, [UbootNext]_<<fvars, uvars>> PROVE TruthInv'
  OBVIOUS
<1>1. CASE UNCHANGED <<fvars, uvars>>
  BY <1>1 DEF fvars, uvars, TruthInv
<1>2. CASE FruNext
  BY <1>2, LinuxTruthful
<1>3. CASE UbootStep
  BY <1>3, UbootTruthful
<1>4. CASE Restart
  <2>1. run' = Idle /\ stored' = stored /\ made' = Unknown
    BY <1>4 DEF Restart
  <2> QED
    BY <2>1, SavesTruthful
<1> QED
  BY <1>1, <1>2, <1>3, <1>4 DEF UbootNext

LEMMA TruthAlways == UbootSpec => []TruthInv
  BY TruthStart, TruthStep, FruAlways, PTL DEF UbootSpec

LEMMA RegularFaithful ==
  ASSUME TruthInv, made.known, Regular(made)
  PROVE  Faithful(file, made)
  BY DEF TruthInv, Truthful, Regular

-----------------------------------------------------------------------------
(* The properties of ivfru.                                                *)

(* Under Linux and U-Boot in turn, an EEPROM is open only while it is      *)
(* written; only a killed command, a reset or a write of the pin that did  *)
(* not work leaves it so.                                                  *)
THEOREM WriteProtectRestored == UbootSpec => []WpRestored
<1>1. FruInv => WpRestored
  BY IdleIs DEF FruInv, WpOpen, WpRestored
<1> QED
  BY <1>1, FruAlways, PTL

(* Whatever was killed, torn or reset before, a board whose last write ran *)
(* to its end holds that image, and it is valid.                           *)
THEOREM BoardsHoldValidImages == UbootSpec => []BoardValid
<1>1. FruInv => BoardValid
  BY DEF FruInv, BoardsInv, StoredWhole, Exact, BoardValid
<1> QED
  BY <1>1, FruAlways, PTL

(* ivfru read takes from the board exactly the image that ivfru write of   *)
(* either system put there, a new image of 512 bytes aside.                *)
THEOREM ReadReturnsWritten == UbootSpec => []ReadBack
<1>1. FruInv => ReadBack
  BY DEF FruInv
<1> QED
  BY <1>1, FruAlways, PTL

(* U-Boot's ivfru write reports success only when the whole image is on    *)
(* the board and the EEPROM is protected again.                            *)
THEOREM SuccessMeansWritten == UbootSpec => []SuccessIsTrue
<1>1. FruInv /\ TellInv => SuccessIsTrue
  BY DEF FruInv, TellInv, BoardsInv, StoredWhole, Exact, SuccessIsTrue
<1> QED
  BY <1>1, FruAlways, PTL

(* Whatever create, add, rm, fix, write and read made it, under Linux and  *)
(* U-Boot in turn, a file that was saved to its end is valid: header,      *)
(* fields, padding and checksum.                                           *)
THEOREM SavedFilesAreValid == UbootSpec => []FileValid
<1>1. TruthInv => FileValid
  BY RegularFaithful DEF FileValid, Faithful, Exact
<1> QED
  BY <1>1, TruthAlways, PTL

(* And it says what the commands were told: the lengths of the pre-defined *)
(* fields, the date that IPMI can express and the custom fields, each in   *)
(* its place.                                                              *)
THEOREM SavedFilesSayWhatWasTold == UbootSpec => []FileSays
<1>1. TruthInv => FileSays
  BY RegularFaithful DEF FileSays, Faithful
<1> QED
  BY <1>1, TruthAlways, PTL
=============================================================================

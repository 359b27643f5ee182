----------------------------- MODULE BootProofs -----------------------------
(***************************************************************************)
(* Proofs about the boot sequencer and the board scan (Boot, BoardScan),   *)
(* for every boot sequence, every content of the media and the EEPROMs and *)
(* any number of power-ups and reboots.                                    *)
(***************************************************************************)
EXTENDS BoardScan, NaturalsInduction, SequenceTheorems, WellFoundedInduction, TLAPS

(* The least element of a set of natural numbers.                          *)
LEMMA MinOf ==
  ASSUME NEW S \in SUBSET Nat, S # {}
  PROVE  Min(S) \in S /\ \A y \in S : Min(S) <= y
<1>1. \E x \in S : \A y \in S : ~ (<<y, x>> \in OpToRel(<, Nat))
  BY NatLessThanWellFounded, WFMin, Zenon
<1>2. PICK x \in S : \A y \in S : ~ (<<y, x>> \in OpToRel(<, Nat))
  BY <1>1
<1>3. ASSUME NEW y \in S PROVE x <= y
  <2>1. x \in Nat /\ y \in Nat
    OBVIOUS
  <2>2. <<y, x>> \in OpToRel(<, Nat) <=> y < x
    BY <2>1 DEF OpToRel
  <2>3. ~ (y < x)
    BY <1>2, <2>2, Zenon
  <2> QED
    BY <2>1, <2>3
<1> QED
  BY <1>3, Zenon DEF Min

(* The images of a device of plugged in media are numbered.                *)
LEMMA ImagesAreNat ==
  ASSUME media \in Medias, NEW mode
  PROVE  Images(mode) \subseteq Nat
BY BootAssumption DEF Images

-----------------------------------------------------------------------------
LEMMA ImageStart == ScanInit => ImageInv
BY DEF ScanInit, BootInit, ImageInv, NotAlt

(* The ROM starts the loader of the image the registers then name.         *)
LEMMA RomImage ==
  ASSUME ImageInv, Rom
  PROVE  ImageInv'
<1> DEFINE found == {n \in Images(BootMode) : n >= MULTI_BOOT}
<1>1. /\ pc = "rom" /\ media \in Medias /\ uboot = Nowhere
      /\ BOOT_MODE_USER.alt \/ MULTI_BOOT = 0
      /\ UNCHANGED <<pins, media, BOOT_MODE_USER, uboot>>
  BY DEF ImageInv, Rom
<1>2. Images(BootMode) \subseteq Nat
  BY <1>1, ImagesAreNat
<1>3. Images(BootMode)' = Images(BootMode) /\ BootMode' = BootMode
      /\ Images(pins)' = Images(pins)
  BY <1>1 DEF Images, BootMode
<1>4. CASE BootMode = "jtag"
  <2>1. pc' = "fsbl" /\ fsbl' = [mode |-> "jtag", n |-> MULTI_BOOT]
        /\ MULTI_BOOT' = MULTI_BOOT
    BY <1>4 DEF Rom
  <2> QED
    BY <1>1, <1>3, <1>4, <2>1 DEF ImageInv, BootMode
<1>5. CASE BootMode # "jtag" /\ found # {}
  <2>1. /\ pc' = "fsbl" /\ MULTI_BOOT' = Min(found)
        /\ fsbl' = [mode |-> BootMode, n |-> Min(found)]
    BY <1>5 DEF Rom
  <2>2. found \in SUBSET Nat
    BY <1>2
  <2>3. Min(found) \in Nat /\ \A y \in found : Min(found) <= y
    BY <1>5, <2>2, MinOf
  <2>4. ASSUME ~BOOT_MODE_USER.alt, 0 \in Images(pins)
        PROVE  Min(found) = 0
    <3>1. MULTI_BOOT = 0 /\ BootMode = pins
      BY <1>1, <2>4 DEF BootMode
    <3>2. 0 \in found
      BY <2>4, <3>1
    <3>3. Min(found) <= 0
      BY <2>3, <3>2
    <3> QED
      BY <2>3, <3>3
  <2> HIDE DEF found
  <2>5. pins # "jtag" \/ BOOT_MODE_USER.alt
    BY <1>5 DEF BootMode
  <2> QED
    BY <1>1, <1>3, <2>1, <2>4, <2>5 DEF ImageInv
<1>6. CASE BootMode # "jtag" /\ found = {}
  <2>1. pc' = "dead" /\ UNCHANGED <<fsbl, MULTI_BOOT>>
    BY <1>6 DEF Rom
  <2> QED
    BY <1>1, <2>1 DEF ImageInv
<1> QED
  BY <1>4, <1>5, <1>6

LEMMA FsblImage ==
  ASSUME ImageInv, FsblStep
  PROVE  ImageInv'
<1>1. CASE Rom
  BY <1>1, RomImage
<1>2. CASE SequenceStart
  BY <1>2 DEF SequenceStart, ImageInv, BootMode, Images
<1>3. CASE SequenceEntry
  BY <1>3 DEF SequenceEntry, ImageInv, BootMode, Images
<1>4. CASE SequenceTry
  <2> DEFINE mode == boot_seq[boot_idx].mode
             n    == Min(todo)
  <2>1. /\ pc = "try" /\ UNCHANGED <<pins, media, fsbl, uboot>>
        /\ UNCHANGED <<BOOT_MODE_USER, pc>>
           \/ (BOOT_MODE_USER' = UseAlt(mode) /\ pc' = "rom")
    BY <1>4, Zenon DEF SequenceTry
  <2>2. Images(pins)' = Images(pins)
    BY <2>1 DEF Images
  <2> HIDE DEF mode, n
  <2> QED
    BY <2>1, <2>2 DEF ImageInv, UseAlt
<1>5. CASE SequenceNext
  BY <1>5 DEF SequenceNext, ImageInv, BootMode, Images
<1>6. CASE SequenceEnd
  BY <1>6 DEF SequenceEnd, ImageInv, BootMode, Images
<1>7. CASE LoadUboot
  <2>1. /\ pc = "load" /\ uboot = Nowhere
        /\ UNCHANGED <<pins, media, BOOT_MODE_USER, MULTI_BOOT, fsbl>>
    BY <1>7 DEF LoadUboot, ImageInv
  <2>2. BootMode' = BootMode /\ Images(BootMode)' = Images(BootMode)
    BY <2>1 DEF BootMode, Images
  <2>3. CASE BootMode = "jtag" \/ MULTI_BOOT \in Images(BootMode)
    BY <1>7, <2>1, <2>2, <2>3 DEF LoadUboot, ImageInv
  <2>4. CASE ~(BootMode = "jtag" \/ MULTI_BOOT \in Images(BootMode))
    BY <1>7, <2>1, <2>2, <2>4 DEF LoadUboot, ImageInv
  <2> QED
    BY <2>3, <2>4
<1> QED
  BY <1>1, <1>2, <1>3, <1>4, <1>5, <1>6, <1>7 DEF FsblStep

LEMMA ImageStep ==
  ASSUME ImageInv, [ScanNext]_<<bvars, svars>>
  PROVE  ImageInv'
<1>1. CASE FsblStep
  BY <1>1, FsblImage
<1>2. CASE ZynqStart \/ misc_init_r \/ bootm
  BY <1>2 DEF ZynqStart, misc_init_r, bootm, ImageInv, BootMode, Images
<1>3. CASE PowerOn
  BY <1>3 DEF PowerOn, ImageInv, NotAlt
<1>4. CASE PowerOff
  BY <1>4 DEF PowerOff, ImageInv, NotAlt
<1>5. CASE Reboot
  BY <1>5 DEF Reboot, ImageInv
<1>6. CASE UNCHANGED bvars
  BY <1>6 DEF bvars, ImageInv, BootMode, Images
<1>7. ASSUME fdt_overlay_apply_verbose \/ saveenv
             \/ \E f \in Forced : setenv_forced(f[1], f[2])
      PROVE  UNCHANGED bvars
  BY <1>7, Zenon DEF fdt_overlay_apply_verbose, saveenv, setenv_forced
<1>8. CASE UNCHANGED <<bvars, svars>>
  BY <1>6, <1>8
<1> QED
  BY <1>1, <1>2, <1>3, <1>4, <1>5, <1>6, <1>7, <1>8
  DEF ScanNext, SystemStep

(* U-Boot comes from the very image whose loader started it                *)
(* (iv_z8_sequence_boot.c 211, 247-250, 271).                              *)
THEOREM BootOneImage == ScanSpec => []OneImage
<1>1. ImageInv => OneImage
  <2> SUFFICES ASSUME ImageInv, pc \notin {"start", "uboot", "linux"},
                      uboot # Nowhere
               PROVE  uboot = fsbl
    BY DEF ImageInv, OneImage
  <2> QED
    BY DEF ImageInv
<1> QED
  BY <1>1, ImageStart, ImageStep, PTL DEF ScanSpec

-----------------------------------------------------------------------------
(* What the attempts of an entry are (iv_z8_sequence_boot.c 178-199).      *)
LEMMA MinOfTwo ==
  ASSUME NEW a \in Int, NEW b \in Int
  PROVE  Min({a, b}) = IF a <= b THEN a ELSE b
<1> DEFINE m == IF a <= b THEN a ELSE b
<1>1. m \in {a, b} /\ \A y \in {a, b} : m <= y
  OBVIOUS
<1>2. ASSUME NEW x \in {a, b}, \A y \in {a, b} : x <= y
      PROVE  x = m
  BY <1>2
<1> HIDE DEF m
<1>3. Min({a, b}) = m
  BY <1>1, <1>2, Zenon DEF Min
<1> QED
  BY <1>3 DEF m

LEMMA AttemptsAre ==
  ASSUME NEW e \in [mode : STRING, num_attempts : Int], eeprom \in Eeproms
  PROVE  /\ Attempts(e) \subseteq Nat
         /\ \A n \in Nat :
              n \in Attempts(e) <=>
                \/ n < e.num_attempts /\ n < MAX_MULTIBOOT_ATTEMPTS
                \/ /\ e.num_attempts < 0 /\ n = eeprom["mb"].pn
                   /\ n > 0 /\ eeprom["mb"].answers /\ eeprom["mb"].fixed
<1> DEFINE a == e.num_attempts
           pn == eeprom["mb"].pn
<1>1. a \in Int /\ MAX_MULTIBOOT_ATTEMPTS \in Nat /\ pn \in Int
  BY BootAssumption
<1>2. Min({a, MAX_MULTIBOOT_ATTEMPTS})
        = IF a <= MAX_MULTIBOOT_ATTEMPTS THEN a ELSE MAX_MULTIBOOT_ATTEMPTS
  BY <1>1, MinOfTwo
<1>3. Attempts(e) =
        IF a >= 0 THEN 0 .. Min({a, MAX_MULTIBOOT_ATTEMPTS}) - 1
        ELSE IF (eeprom["mb"].answers /\ eeprom["mb"].fixed) /\ pn > 0
             THEN {pn} ELSE {}
  BY DEF Attempts, read_ipmi, get_pn_ord
<1> HIDE DEF a, pn
<1>4. CASE a >= 0
  <2>1. Attempts(e) = 0 .. Min({a, MAX_MULTIBOOT_ATTEMPTS}) - 1
    BY <1>3, <1>4
  <2> DEFINE m == Min({a, MAX_MULTIBOOT_ATTEMPTS})
  <2>2. m \in Nat /\ Attempts(e) = 0 .. m - 1
        /\ m = IF a <= MAX_MULTIBOOT_ATTEMPTS THEN a
               ELSE MAX_MULTIBOOT_ATTEMPTS
    BY <1>1, <1>2, <1>4, <2>1
  <2> HIDE DEF m
  <2>3. ASSUME NEW n \in Nat
        PROVE  n \in 0 .. m - 1 <=> n < a /\ n < MAX_MULTIBOOT_ATTEMPTS
    BY <1>1, <2>2
  <2>4. 0 .. m - 1 \subseteq Nat /\ ~ (a < 0)
    BY <1>1, <1>4, <2>2
  <2> QED
    BY <2>2, <2>3, <2>4, Zenon DEF a
<1>5. CASE ~ (a >= 0)
  <2>1. a < 0
    BY <1>1, <1>5
  <2>2. CASE (eeprom["mb"].answers /\ eeprom["mb"].fixed) /\ pn > 0
    <3>1. Attempts(e) = {pn}
      BY <1>3, <1>5, <2>2
    <3> QED
      BY <1>1, <2>1, <2>2, <3>1 DEF a, pn
  <2>3. CASE ~ ((eeprom["mb"].answers /\ eeprom["mb"].fixed) /\ pn > 0)
    <3>1. Attempts(e) = {}
      BY <1>3, <1>5, <2>3
    <3> QED
      BY <1>1, <2>1, <2>3, <3>1 DEF a, pn
  <2> QED
    BY <2>2, <2>3
<1> QED
  BY <1>4, <1>5

(* A card image is one that its entry tries and that is there.             *)
LEMMA CardsAre ==
  ASSUME boot_seq \in BootSeqs, media \in Medias, eeprom \in Eeproms
  PROVE  /\ \A d \in CardImages :
              /\ d = <<d[1], d[2]>> /\ d[1] \in 1 .. Len(boot_seq)
              /\ d[2] \in Nat
              /\ boot_seq[d[1]].mode \in {"sd0", "sd1"}
              /\ d[2] \in Images(boot_seq[d[1]].mode)
              /\ d[2] \in Attempts(boot_seq[d[1]])
         /\ \A i \in 1 .. Len(boot_seq), n \in Nat :
              /\ boot_seq[i].mode \in {"sd0", "sd1"}
              /\ n \in Images(boot_seq[i].mode)
              /\ n \in Attempts(boot_seq[i])
              => <<i, n>> \in CardImages
<1>1. boot_seq \in Seq([mode : STRING, num_attempts : Int])
      /\ media.sd0 \subseteq Nat /\ media.sd1 \subseteq Nat
  BY BootAssumption
<1>2. \A i \in 1 .. Len(boot_seq) :
        boot_seq[i] \in [mode : STRING, num_attempts : Int]
  BY <1>1, ElementOfSeq, Zenon
<1>3. ASSUME NEW i \in 1 .. Len(boot_seq), NEW n \in Nat
      PROVE  n \in Attempts(boot_seq[i]) <=>
               \/ n < boot_seq[i].num_attempts /\ n < MAX_MULTIBOOT_ATTEMPTS
               \/ /\ boot_seq[i].num_attempts < 0 /\ n = eeprom["mb"].pn
                  /\ n > 0 /\ eeprom["mb"].answers /\ eeprom["mb"].fixed
  BY <1>2, AttemptsAre, Zenon
<1>4. ASSUME NEW d \in CardImages
      PROVE  /\ d = <<d[1], d[2]>> /\ d[1] \in 1 .. Len(boot_seq)
             /\ d[2] \in Nat
             /\ boot_seq[d[1]].mode \in {"sd0", "sd1"}
             /\ d[2] \in Images(boot_seq[d[1]].mode)
             /\ d[2] \in Attempts(boot_seq[d[1]])
  <2>1. /\ d \in (1 .. Len(boot_seq)) \X (media.sd0 \cup media.sd1)
        /\ boot_seq[d[1]].mode \in {"sd0", "sd1"}
        /\ d[2] \in Images(boot_seq[d[1]].mode)
        /\ \/ d[2] < boot_seq[d[1]].num_attempts /\ d[2] < MAX_MULTIBOOT_ATTEMPTS
           \/ /\ boot_seq[d[1]].num_attempts < 0 /\ d[2] = eeprom["mb"].pn
              /\ d[2] > 0 /\ eeprom["mb"].answers /\ eeprom["mb"].fixed
    BY <1>4, Zenon DEF CardImages
  <2>2. d = <<d[1], d[2]>> /\ d[1] \in 1 .. Len(boot_seq) /\ d[2] \in Nat
    BY <1>1, <2>1
  <2>3. d[2] \in Attempts(boot_seq[d[1]])
    BY <1>3, <2>1, <2>2, Zenon
  <2> QED
    BY <2>1, <2>2, <2>3, Zenon
<1>5. ASSUME NEW i \in 1 .. Len(boot_seq), NEW n \in Nat,
             boot_seq[i].mode \in {"sd0", "sd1"},
             n \in Images(boot_seq[i].mode), n \in Attempts(boot_seq[i])
      PROVE  <<i, n>> \in CardImages
  <2>1. n \in media.sd0 \cup media.sd1
    BY <1>5 DEF Images
  <2>2. <<i, n>> \in (1 .. Len(boot_seq)) \X (media.sd0 \cup media.sd1)
        /\ <<i, n>>[1] = i /\ <<i, n>>[2] = n
    BY <2>1
  <2>3. \/ n < boot_seq[i].num_attempts /\ n < MAX_MULTIBOOT_ATTEMPTS
        \/ /\ boot_seq[i].num_attempts < 0 /\ n = eeprom["mb"].pn
           /\ n > 0 /\ eeprom["mb"].answers /\ eeprom["mb"].fixed
    BY <1>3, <1>5, Zenon
  <2> DEFINE c == <<i, n>>
  <2>4. c[1] = i /\ c[2] = n
        /\ c \in (1 .. Len(boot_seq)) \X (media.sd0 \cup media.sd1)
    BY <2>2
  <2> HIDE DEF c
  <2>5. c \in CardImages
    BY <1>5, <2>3, <2>4, Zenon DEF CardImages
  <2> QED
    BY <2>5 DEF c
<1> QED
  BY <1>4, <1>5, Zenon

-----------------------------------------------------------------------------
LEMMA FirstStart == ScanInit => FirstInv /\ ZynqPins
BY DEF ScanInit, BootInit, FirstInv, ZynqPins

(* What is plugged in decides what the card images are.                    *)
LEMMA SameCards ==
  ASSUME UNCHANGED <<boot_seq, media, eeprom>>
  PROVE  /\ CardImages' = CardImages
         /\ \A c : IsFirst(c)' = IsFirst(c)
         /\ \A e : Attempts(e)' = Attempts(e)
<1>1. CardImages' = CardImages
  BY DEF CardImages, Images
<1>2. \A e : Attempts(e)' = Attempts(e)
  BY DEF Attempts, read_ipmi, get_pn_ord
<1>3. \A c : IsFirst(c)' = IsFirst(c)
  BY <1>1, Zenon DEF IsFirst, Before
<1> QED
  BY <1>1, <1>2, <1>3

(* A step that moves on without touching the registers or the media.       *)
LEMMA FirstQuiet ==
  ASSUME FirstInv, pc # "off", pc' # "off",
         UNCHANGED <<boot_seq, media, eeprom, BOOT_MODE_USER, MULTI_BOOT, cold,
                     pins>>,
         pc' \notin {"entry", "try"},
         BOOT_MODE_USER.alt \/ pins = "jtag"
           \/ pc \notin {"rom", "fsbl", "entry", "try", "dead"}
           \/ pc' \in {"rom", "fsbl", "dead"}
  PROVE  FirstInv'
<1>1. /\ CardImages' = CardImages
      /\ \A c : IsFirst(c)' = IsFirst(c)
  BY SameCards
<1> QED
  BY <1>1 DEF FirstInv

(* The ROM finds the image the sequencer has found.                        *)
LEMMA RomFirst ==
  ASSUME ImageInv, FirstInv, Rom
  PROVE  FirstInv'
<1> DEFINE found == {n \in Images(BootMode) : n >= MULTI_BOOT}
<1>1. /\ pc = "rom" /\ media \in Medias /\ boot_seq \in BootSeqs
      /\ eeprom \in Eeproms /\ pc' \in {"fsbl", "dead"}
      /\ UNCHANGED <<pins, boot_seq, media, eeprom, BOOT_MODE_USER, cold>>
  <2>1. pc = "rom" /\ pc' \in {"fsbl", "dead"}
        /\ UNCHANGED <<pins, boot_seq, media, eeprom, BOOT_MODE_USER, cold>>
    BY Zenon DEF Rom
  <2> QED
    BY <2>1 DEF ImageInv, FirstInv
<1>2. \/ MULTI_BOOT' = MULTI_BOOT
      \/ found # {} /\ MULTI_BOOT' = Min(found)
  BY Zenon DEF Rom
<1>3. ASSUME NEW c \in CardImages, MULTI_BOOT = c[2], BOOT_MODE_USER.alt,
             BOOT_MODE_USER.mode = boot_seq[c[1]].mode
      PROVE  MULTI_BOOT' = MULTI_BOOT
  <2>1. c[2] \in Nat /\ c[2] \in Images(boot_seq[c[1]].mode)
    BY <1>1, <1>3, CardsAre
  <2>2. BootMode = boot_seq[c[1]].mode
    BY <1>3 DEF BootMode
  <2>3. Images(BootMode) \subseteq Nat
    BY <1>1, ImagesAreNat
  <2>4. c[2] \in found /\ found \in SUBSET Nat
    BY <1>3, <2>1, <2>2, <2>3
  <2>5. Min(found) \in found /\ Min(found) <= c[2]
    BY <2>4, MinOf
  <2>6. Min(found) >= c[2] /\ Min(found) \in Nat
    BY <1>3, <2>4, <2>5
  <2>7. Min(found) = c[2]
    BY <2>1, <2>5, <2>6
  <2> QED
    BY <1>2, <1>3, <2>7
<1>4. /\ CardImages' = CardImages
      /\ \A c : IsFirst(c)' = IsFirst(c)
  BY <1>1, SameCards
<1> HIDE DEF found
<1> QED
  BY <1>1, <1>3, <1>4 DEF FirstInv

(* One attempt (iv_z8_sequence_boot.c 200-268).                            *)
LEMMA TryFirst ==
  ASSUME ImageInv, FirstInv, SequenceTry, FlashLast
  PROVE  FirstInv'
<1> DEFINE mode == boot_seq[boot_idx].mode
           n    == Min(todo)
<1>1. /\ pc = "try" /\ todo # {} /\ media \in Medias /\ boot_seq \in BootSeqs
      /\ eeprom \in Eeproms /\ boot_idx \in Nat \ {0}
      /\ boot_idx <= Len(boot_seq)
      /\ todo \subseteq Attempts(boot_seq[boot_idx])
      /\ \A d \in CardImages :
           d[1] > boot_idx \/ (d[1] = boot_idx /\ d[2] \in todo)
      /\ UNCHANGED <<pins, boot_seq, media, eeprom, cold>>
  BY DEF SequenceTry, ImageInv, FirstInv
<1>2. MULTI_BOOT' = n
  BY DEF SequenceTry
<1>3. PICK ok \in InitResults(mode, n) :
        \/ /\ ok /\ BOOT_MODE_USER' = UseAlt(mode) /\ todo' = {}
           /\ boot_idx' = 1 /\ pc' = "rom"
        \/ /\ ~ ok /\ todo' = todo \ {n}
           /\ UNCHANGED <<BOOT_MODE_USER, boot_idx, pc>>
  BY Zenon DEF SequenceTry
<1>4. /\ boot_idx \in 1 .. Len(boot_seq)
      /\ boot_seq[boot_idx] \in [mode : STRING, num_attempts : Int]
  <2>1. boot_seq \in Seq([mode : STRING, num_attempts : Int])
    BY <1>1, BootAssumption
  <2>2. boot_idx \in 1 .. Len(boot_seq)
    BY <1>1, <2>1, LenProperties
  <2> QED
    BY <2>1, <2>2, ElementOfSeq, Zenon
<1>5. Attempts(boot_seq[boot_idx]) \subseteq Nat
  BY <1>1, <1>4, AttemptsAre
<1>6. n \in todo /\ n \in Nat /\ \A y \in todo : n <= y
  <2>1. todo \in SUBSET Nat
    BY <1>1, <1>5
  <2> QED
    BY <1>1, <2>1, MinOf
<1>7. \A d \in CardImages :
        /\ d = <<d[1], d[2]>> /\ d[1] \in 1 .. Len(boot_seq) /\ d[2] \in Nat
        /\ boot_seq[d[1]].mode \in {"sd0", "sd1"}
        /\ d[2] \in Images(boot_seq[d[1]].mode)
  BY <1>1, CardsAre, Zenon
<1>8. /\ CardImages' = CardImages
      /\ \A c : IsFirst(c)' = IsFirst(c)
      /\ \A e : Attempts(e)' = Attempts(e)
  BY <1>1, SameCards
<1> HIDE DEF mode, n
<1>9. CASE ok
  <2>1. /\ BOOT_MODE_USER'.alt /\ BOOT_MODE_USER'.mode = mode /\ pc' = "rom"
    BY <1>3, <1>9 DEF UseAlt
  <2>2. CASE mode \in {"sd0", "sd1"}
    <3> DEFINE c == <<boot_idx, n>>
    <3>1. n \in Images(mode)
      BY <1>3, <1>9, <2>2 DEF InitResults
    <3>2. n \in Attempts(boot_seq[boot_idx])
      BY <1>1, <1>6
    <3>3. c \in CardImages /\ c[1] = boot_idx /\ c[2] = n
      BY <1>1, <1>4, <1>6, <2>2, <3>1, <3>2, CardsAre DEF mode
    <3> HIDE DEF c
    <3>4. ASSUME NEW d \in CardImages PROVE Before(c, d)
      BY <1>1, <1>6, <3>3, <3>4 DEF Before
    <3>5. IsFirst(c)
      BY <3>3, <3>4, Zenon DEF IsFirst
    <3>6. BOOT_MODE_USER'.mode = boot_seq'[c[1]].mode
      BY <1>1, <2>1, <3>3 DEF mode
    <3>7. \E d \in CardImages' :
            /\ IsFirst(d)' /\ MULTI_BOOT' = d[2]
            /\ BOOT_MODE_USER'.mode = boot_seq'[d[1]].mode
      BY <1>2, <1>8, <3>3, <3>5, <3>6, Zenon
    <3> QED
      BY <1>1, <2>1, <3>7 DEF FirstInv
  <2>3. CASE mode \notin {"sd0", "sd1"}
    <3>1. mode \in {"qspi24", "qspi32"}
      BY <1>3, <1>9, <2>3 DEF InitResults
    <3>2. ASSUME NEW d \in CardImages PROVE FALSE
      <4>1. d[1] \in 1 .. Len(boot_seq)
            /\ boot_seq[d[1]].mode \in {"sd0", "sd1"}
        BY <1>7, <3>2
      <4>2. d[1] < boot_idx
        BY <1>1, <1>4, <3>1, <4>1 DEF FlashLast, mode
      <4> QED
        BY <1>1, <4>1, <4>2
    <3>3. CardImages' = {}
      BY <1>8, <3>2
    <3> QED
      BY <1>1, <2>1, <3>3 DEF FirstInv
  <2> QED
    BY <2>2, <2>3
<1>10. CASE ~ ok
  <2>1. /\ todo' = todo \ {n} /\ UNCHANGED <<BOOT_MODE_USER, boot_idx, pc>>
    BY <1>3, <1>10
  <2>2. ASSUME NEW d \in CardImages
        PROVE  d[1] > boot_idx \/ (d[1] = boot_idx /\ d[2] \in todo')
    <3>1. CASE d[1] = boot_idx
      <4>1. mode \in {"sd0", "sd1"} /\ d[2] \in Images(mode)
        BY <1>7, <2>2, <3>1 DEF mode
      <4>2. n \notin Images(mode)
        BY <1>3, <1>10, <4>1 DEF InitResults
      <4> QED
        BY <1>1, <2>1, <3>1, <4>1, <4>2
    <3>2. CASE d[1] # boot_idx
      BY <1>1, <3>2
    <3> QED
      BY <3>1, <3>2
  <2>3. todo' \subseteq Attempts(boot_seq[boot_idx])'
    BY <1>1, <1>8, <2>1
  <2>4. ~ BOOT_MODE_USER.alt
    BY <1>1 DEF ImageInv
  <2> QED
    BY <1>1, <1>8, <2>1, <2>2, <2>3, <2>4 DEF FirstInv
<1> QED
  BY <1>9, <1>10

LEMMA FsblFirst ==
  ASSUME ImageInv, FirstInv, FsblStep, FlashLast
  PROVE  FirstInv'
<1>1. CASE Rom
  BY <1>1, RomFirst
<1>2. CASE SequenceStart
  <2>1. /\ pc = "fsbl" /\ boot_idx' = 1 /\ media \in Medias
        /\ UNCHANGED <<pins, boot_seq, media, eeprom, BOOT_MODE_USER,
                       MULTI_BOOT, cold>>
    BY <1>2 DEF SequenceStart, ImageInv
  <2>2. CASE BOOT_MODE_USER.alt \/ pins = "jtag"
    BY <1>2, <2>1, <2>2, FirstQuiet DEF SequenceStart
  <2>3. CASE ~(BOOT_MODE_USER.alt \/ pins = "jtag")
    <3>1. pc' = "entry"
      BY <1>2, <2>3 DEF SequenceStart
    <3>2. boot_seq \in BootSeqs /\ eeprom \in Eeproms
      BY <2>1 DEF FirstInv
    <3>3. CardImages' = CardImages
      BY <2>1, SameCards
    <3>4. \A d \in CardImages : d[1] >= 1
      BY <2>1, <3>2, CardsAre
    <3> QED
      BY <2>1, <2>3, <3>1, <3>2, <3>3, <3>4 DEF FirstInv
  <2> QED
    BY <2>2, <2>3
<1>3. CASE SequenceEntry
  <2>1. /\ pc = "entry" /\ pc' = "try" /\ boot_idx <= Len(boot_seq)
        /\ media \in Medias /\ boot_seq \in BootSeqs /\ eeprom \in Eeproms
        /\ todo' = Attempts(boot_seq[boot_idx])
        /\ \A d \in CardImages : d[1] >= boot_idx
        /\ boot_idx \in Nat \ {0} /\ ~ BOOT_MODE_USER.alt
        /\ UNCHANGED <<pins, boot_seq, media, eeprom, BOOT_MODE_USER,
                       MULTI_BOOT, boot_idx, cold>>
    BY <1>3 DEF SequenceEntry, ImageInv, FirstInv
  <2>2. CardImages' = CardImages /\ \A e : Attempts(e)' = Attempts(e)
    BY <2>1, SameCards
  <2>3. \A d \in CardImages : /\ d[1] \in 1 .. Len(boot_seq)
                              /\ d[2] \in Attempts(boot_seq[d[1]])
    BY <2>1, CardsAre, Zenon
  <2>4. ASSUME NEW d \in CardImages
        PROVE  d[1] > boot_idx
               \/ (d[1] = boot_idx /\ d[2] \in Attempts(boot_seq[boot_idx]))
    <3>1. d[1] \in Nat /\ d[1] >= boot_idx /\ boot_idx \in Nat
      BY <2>1, <2>3, <2>4
    <3>2. d[1] > boot_idx \/ d[1] = boot_idx
      BY <3>1
    <3> QED
      BY <2>3, <2>4, <3>2, Zenon
  <2> QED
    BY <2>1, <2>2, <2>4 DEF FirstInv
<1>4. CASE SequenceTry
  BY <1>4, TryFirst
<1>5. CASE SequenceNext
  <2>1. /\ pc = "try" /\ todo = {} /\ boot_idx' = boot_idx + 1 /\ pc' = "entry"
        /\ boot_seq \in BootSeqs /\ eeprom \in Eeproms /\ media \in Medias
        /\ boot_idx \in Nat \ {0} /\ ~ BOOT_MODE_USER.alt
        /\ \A d \in CardImages : d[1] > boot_idx
        /\ UNCHANGED <<pins, boot_seq, media, eeprom, BOOT_MODE_USER, cold>>
    BY <1>5 DEF SequenceNext, ImageInv, FirstInv
  <2>2. CardImages' = CardImages
    BY <2>1, SameCards
  <2>3. \A d \in CardImages : d[1] \in Nat
    BY <2>1, CardsAre
  <2>4. \A d \in CardImages : d[1] >= boot_idx + 1
    BY <2>1, <2>3
  <2> QED
    BY <2>1, <2>2, <2>4 DEF FirstInv
<1>6. CASE SequenceEnd
  <2>1. /\ pc = "entry" /\ pc' = "load" /\ boot_idx > Len(boot_seq)
        /\ boot_seq \in BootSeqs /\ eeprom \in Eeproms /\ media \in Medias
        /\ boot_idx \in Nat \ {0}
        /\ \A d \in CardImages : d[1] >= boot_idx
        /\ UNCHANGED <<pins, boot_seq, media, eeprom, cold>>
    BY <1>6 DEF SequenceEnd, ImageInv, FirstInv
  <2>2. CardImages' = CardImages
    BY <2>1, SameCards
  <2>3. \A d \in CardImages : d[1] \in 1 .. Len(boot_seq)
    BY <2>1, CardsAre
  <2>4. Len(boot_seq) \in Nat
    BY <2>1, BootAssumption, LenProperties
  <2>5. CardImages' = {}
    BY <2>1, <2>2, <2>3, <2>4
  <2> QED
    BY <2>1, <2>5 DEF FirstInv
<1>7. CASE LoadUboot
  <2>1. /\ pc = "load" /\ pc' \in {"start", "dead"}
        /\ UNCHANGED <<pins, boot_seq, media, eeprom, BOOT_MODE_USER,
                       MULTI_BOOT, cold>>
    BY <1>7 DEF LoadUboot
  <2> QED
    BY <2>1, FirstQuiet
<1> QED
  BY <1>1, <1>2, <1>3, <1>4, <1>5, <1>6, <1>7 DEF FsblStep

LEMMA FirstStep ==
  ASSUME ImageInv, FirstInv, ZynqPins, [ScanNext]_<<bvars, svars>>, FlashLast
  PROVE  FirstInv' /\ ZynqPins'
<1>1. CASE FsblStep /\ UNCHANGED svars
  <2>1. pins' = pins
    BY <1>1, Zenon DEF FsblStep, Rom, SequenceStart, SequenceEntry,
       SequenceTry, SequenceNext, SequenceEnd, LoadUboot
  <2> QED
    BY <1>1, <2>1, FsblFirst DEF ZynqPins, svars
<1>2. CASE ZynqStart \/ misc_init_r \/ bootm
  <2>1. /\ pc # "off" /\ pc' \in {"start", "uboot", "linux"}
        /\ UNCHANGED <<pins, boot_seq, media, eeprom, BOOT_MODE_USER,
                       MULTI_BOOT, cold, soc>>
        /\ pins = "jtag" \/ pc \in {"start", "uboot"}
    BY <1>2 DEF ZynqStart, misc_init_r, bootm, ZynqPins, svars
  <2> QED
    BY <2>1, FirstQuiet DEF ZynqPins
<1>3. CASE PowerOn /\ Forget
  BY <1>3 DEF PowerOn, FirstInv, NotAlt, ZynqPins, Forget
<1>4. CASE PowerOff /\ Forget
  BY <1>4 DEF PowerOff, FirstInv, ZynqPins, Forget
<1>5. CASE Reboot /\ Forget
  BY <1>5 DEF Reboot, FirstInv, ZynqPins, Forget
<1>6. CASE UNCHANGED <<bvars, soc>>
  <2>1. /\ CardImages' = CardImages
        /\ \A c : IsFirst(c)' = IsFirst(c)
        /\ \A e : Attempts(e)' = Attempts(e)
    BY <1>6, SameCards DEF bvars
  <2> QED
    BY <1>6, <2>1 DEF bvars, FirstInv, ZynqPins
<1>7. ASSUME fdt_overlay_apply_verbose \/ saveenv
             \/ \E f \in Forced : setenv_forced(f[1], f[2])
      PROVE  UNCHANGED <<bvars, soc>>
  BY <1>7, Zenon DEF fdt_overlay_apply_verbose, saveenv, setenv_forced
<1>8. CASE UNCHANGED <<bvars, svars>>
  BY <1>6, <1>8 DEF svars
<1> QED
  BY <1>1, <1>2, <1>3, <1>4, <1>5, <1>6, <1>7, <1>8
  DEF ScanNext, SystemStep

(* At most one card image comes first.                                     *)
LEMMA FirstIsUnique ==
  ASSUME boot_seq \in BootSeqs, media \in Medias, eeprom \in Eeproms,
         NEW c, NEW d, IsFirst(c), IsFirst(d)
  PROVE  c = d
<1>1. /\ c \in CardImages /\ d \in CardImages
      /\ Before(c, d) /\ Before(d, c)
  BY DEF IsFirst
<1>2. /\ c = <<c[1], c[2]>> /\ c[1] \in Nat /\ c[2] \in Nat
      /\ d = <<d[1], d[2]>> /\ d[1] \in Nat /\ d[2] \in Nat
  BY <1>1, CardsAre
<1>3. c[1] = d[1] /\ c[2] = d[2]
  BY <1>1, <1>2 DEF Before
<1> QED
  BY <1>2, <1>3, Zenon

LEMMA InvFirst ==
  ASSUME ImageInv, FirstInv
  PROVE  FirstChoice
<1> DEFINE before(c, d) == c[1] < d[1] \/ (c[1] = d[1] /\ c[2] <= d[2])
           C == CHOOSE c \in CardImages : \A d \in CardImages : before(c, d)
<1>1. ASSUME uboot # Nowhere, cold, pins # "jtag", CardImages # {}
      PROVE  uboot = [mode |-> boot_seq[C[1]].mode, n |-> C[2]]
  <2>1. /\ pc \in {"start", "uboot", "linux"}
        /\ uboot = [mode |-> BootMode, n |-> MULTI_BOOT]
        /\ boot_seq \in BootSeqs /\ media \in Medias /\ eeprom \in Eeproms
    BY <1>1 DEF ImageInv, FirstInv
  <2>2. BOOT_MODE_USER.alt
    BY <1>1, <2>1 DEF FirstInv
  <2>3. PICK c \in CardImages :
          /\ IsFirst(c) /\ MULTI_BOOT = c[2]
          /\ BOOT_MODE_USER.mode = boot_seq[c[1]].mode
    BY <1>1, <2>1, <2>2 DEF FirstInv
  <2>4. IsFirst(C)
    BY <2>3, Zenon DEF IsFirst, Before
  <2>5. C = c
    BY <2>1, <2>3, <2>4, FirstIsUnique
  <2> HIDE DEF C
  <2> QED
    BY <2>1, <2>2, <2>3, <2>5 DEF BootMode
<1> QED
  BY <1>1 DEF FirstChoice

(* After a power-up the first image of the sequence that is there is used, *)
(* for every sequence that comes to the flash last                         *)
(* (iv_z8_sequence_boot.c 169-270).                                        *)
THEOREM BootFirstChoice ==
  ASSUME FlashLast
  PROVE  ScanSpec => []FirstChoice
<1>1. ImageInv /\ FirstInv => FirstChoice
  BY InvFirst
<1> QED
  BY <1>1, ImageStart, ImageStep, FirstStart, FirstStep, PTL DEF ScanSpec

-----------------------------------------------------------------------------
(* The string of a class depends on its forced variable alone.             *)
LEMMA StringOf ==
  ASSUME NEW e, NEW g, NEW c, e.forced[c] = g.forced[c]
  PROVE  IpmiString(e, c) = IpmiString(g, c)
BY DEF IpmiString

(* set_ipmi_env (iveia-init.c 209-295).                                    *)
LEMMA SetEnv ==
  ASSUME NEW e, EnvShape(e), NEW c \in Classes, NEW r,
         r = set_ipmi_env(e, c)
  PROVE  /\ EnvShape(r) /\ r.forced = e.forced /\ r.eth = e.eth
         /\ r.board[c] = IpmiString(e, c)
         /\ IpmiString(e, c).pn > 0 => r.ord[c] = IpmiString(e, c).pn
         /\ \A d \in Classes \ {c} :
              r.board[d] = e.board[d] /\ r.ord[d] = e.ord[d]
<1> DEFINE X == IpmiString(e, c)
           Y == IF X.pn > 0 THEN X.pn ELSE e.ord[c]
<1>1. /\ DOMAIN r = DOMAIN e
      /\ r.board = [e.board EXCEPT ![c] = X]
      /\ r.ord = [e.ord EXCEPT ![c] = Y]
      /\ r.forced = e.forced /\ r.eth = e.eth
  BY Zenon DEF EnvShape, set_ipmi_env
<1> HIDE DEF X
<1>2. X.pn > 0 => Y = X.pn
  OBVIOUS
<1> HIDE DEF Y
<1>3. /\ DOMAIN r.board = Classes /\ DOMAIN r.ord = Classes
      /\ r.board[c] = X /\ r.ord[c] = Y
      /\ \A d \in Classes \ {c} :
           r.board[d] = e.board[d] /\ r.ord[d] = e.ord[d]
  BY <1>1, Zenon DEF EnvShape
<1>4. EnvShape(r)
  BY <1>1, <1>3, Zenon DEF EnvShape
<1> QED
  BY <1>1, <1>2, <1>3, <1>4 DEF X

(* iv_ipmi_scan: the variables of a class that can be read are made anew,  *)
(* and the addresses that are not set yet are set.                         *)
Tells(e, r) ==
  /\ EnvShape(r) /\ r.forced = e.forced
  /\ \A c \in Classes : eeprom[c].answers /\ eeprom[c].valid =>
       /\ r.board[c] = IpmiString(e, c)
       /\ IpmiString(e, c).pn > 0 => r.ord[c] = IpmiString(e, c).pn

SetsMacs(e, r) ==
  /\ \A c \in Classes : \/ r.board[c] = e.board[c]
                        \/ r.board[c] = IpmiString(e, c)
  /\ r.eth = [p \in Ports |->
                IF e.eth[p] # 0 THEN e.eth[p]
                ELSE Macs(sn_to_mac(r.board["mb"].sn),
                          sn_to_mac(r.board["io"].sn))[p]]

LEMMA ScanTells ==
  ASSUME NEW e, EnvShape(e), NEW r, r = iv_ipmi_scan(e)
  PROVE  Tells(e, r) /\ SetsMacs(e, r)
<1> DEFINE m == board_scan_ipmi(e, "mb")
           i == board_scan_ipmi(m, "io")
           Ok(c) == eeprom[c].answers /\ eeprom[c].valid
<1>1. /\ EnvShape(m) /\ m.forced = e.forced /\ m.eth = e.eth
      /\ m.board["io"] = e.board["io"]
      /\ \/ m.board["mb"] = e.board["mb"]
         \/ m.board["mb"] = IpmiString(e, "mb")
      /\ Ok("mb") => /\ m.board["mb"] = IpmiString(e, "mb")
                     /\ IpmiString(e, "mb").pn > 0 =>
                          m.ord["mb"] = IpmiString(e, "mb").pn
  <2>1. CASE Ok("mb")
    <3>1. m = set_ipmi_env(e, "mb") /\ "mb" \in Classes
          /\ "io" \in Classes \ {"mb"}
      BY <2>1 DEF board_scan_ipmi, Classes
    <3> HIDE DEF m
    <3> QED
      BY <2>1, <3>1, SetEnv
  <2>2. CASE ~ Ok("mb")
    BY <2>2 DEF board_scan_ipmi
  <2> QED
    BY <2>1, <2>2
<1> HIDE DEF m
<1>2. /\ EnvShape(i) /\ i.forced = m.forced /\ i.eth = m.eth
      /\ \/ i.board["io"] = m.board["io"]
         \/ i.board["io"] = IpmiString(m, "io")
      /\ i.board["mb"] = m.board["mb"] /\ i.ord["mb"] = m.ord["mb"]
      /\ Ok("io") => /\ i.board["io"] = IpmiString(m, "io")
                     /\ IpmiString(m, "io").pn > 0 =>
                          i.ord["io"] = IpmiString(m, "io").pn
  <2>1. CASE Ok("io")
    <3>1. i = set_ipmi_env(m, "io") /\ "io" \in Classes
          /\ "mb" \in Classes \ {"io"}
      BY <2>1 DEF board_scan_ipmi, Classes
    <3> HIDE DEF i
    <3> QED
      BY <1>1, <2>1, <3>1, SetEnv
  <2>2. CASE ~ Ok("io")
    BY <1>1, <2>2 DEF board_scan_ipmi
  <2> QED
    BY <2>1, <2>2
<1> HIDE DEF i
<1>3. IpmiString(m, "io") = IpmiString(e, "io")
  BY <1>1, StringOf
<1>4. r = set_mac_addrs(i)
  BY DEF iv_ipmi_scan, i, m
<1>5. /\ DOMAIN r = DOMAIN i /\ r.board = i.board /\ r.ord = i.ord
      /\ r.forced = i.forced
  BY <1>2, <1>4, Zenon DEF set_mac_addrs, EnvShape
<1>6. EnvShape(r)
  BY <1>2, <1>5, Zenon DEF EnvShape
<1>7. r.eth = [p \in Ports |->
                 IF i.eth[p] # 0 THEN i.eth[p]
                 ELSE Macs(sn_to_mac(i.board["mb"].sn),
                           sn_to_mac(i.board["io"].sn))[p]]
  BY <1>2, <1>4, Zenon DEF set_mac_addrs, EnvShape
<1>8. r.eth = [p \in Ports |->
                 IF e.eth[p] # 0 THEN e.eth[p]
                 ELSE Macs(sn_to_mac(r.board["mb"].sn),
                           sn_to_mac(r.board["io"].sn))[p]]
  <2>1. i.eth = e.eth /\ r.board = i.board
    BY <1>1, <1>2, <1>5
  <2> QED
    BY <1>7, <2>1, Zenon
<1>9. \A c \in Classes : /\ Ok(c) =>
                             /\ r.board[c] = IpmiString(e, c)
                             /\ IpmiString(e, c).pn > 0 =>
                                  r.ord[c] = IpmiString(e, c).pn
                        /\ \/ r.board[c] = e.board[c]
                           \/ r.board[c] = IpmiString(e, c)
  BY <1>1, <1>2, <1>3, <1>5 DEF Classes
<1> QED
  BY <1>1, <1>2, <1>5, <1>6, <1>8, <1>9, Zenon DEF Tells, SetsMacs

(* What a scan leaves is true of the boards.                               *)
LEMMA ScanTruth ==
  ASSUME NEW e, EnvShape(e), env' = iv_ipmi_scan(e), UNCHANGED eeprom
  PROVE  EnvShape(env') /\ \A c \in Classes : Truth(env.board, env.ord, c)'
<1> DEFINE Vals == {Unset} \cup {f[2] : f \in Forced}
<1>1. /\ EnvShape(env') /\ env'.forced = e.forced
      /\ \A c \in Classes : eeprom[c].answers /\ eeprom[c].valid =>
           /\ env'.board[c] = IpmiString(e, c)
           /\ IpmiString(e, c).pn > 0 => env'.ord[c] = IpmiString(e, c).pn
  <2>1. Tells(e, env')
    BY ScanTells
  <2> QED
    BY <2>1, Zenon DEF Tells
<1>2. ASSUME NEW c \in Classes, eeprom'[c].answers, eeprom'[c].valid
      PROVE  /\ env'.board[c] \in
                  {IpmiString([env EXCEPT !.forced[c] = v], c)' : v \in Vals}
             /\ env'.board[c].pn > 0 => env'.ord[c] = env'.board[c].pn
  <2> DEFINE v == e.forced[c]
             g == [env' EXCEPT !.forced[c] = v]
  <2>1. v \in Vals
    BY Zenon DEF EnvShape
  <2>2. g.forced[c] = v
    BY <1>1, Zenon DEF EnvShape
  <2>3. IpmiString(g, c) = IpmiString(e, c)
    <3> HIDE DEF g
    <3> QED
      BY <2>2, StringOf
  <2>4. IpmiString([env EXCEPT !.forced[c] = v], c)' = IpmiString(g, c)
    BY Zenon DEF IpmiString
  <2> HIDE DEF g
  <2>5. env'.board[c] = IpmiString([env EXCEPT !.forced[c] = v], c)'
    BY <1>1, <1>2, <2>3, <2>4
  <2> HIDE DEF v, Vals
  <2>6. env'.board[c] \in
          {IpmiString([env EXCEPT !.forced[c] = u], c)' : u \in Vals}
    BY <2>1, <2>5, Zenon
  <2> QED
    BY <1>1, <1>2, <2>6, Zenon
<1> QED
  BY <1>1, <1>2, Zenon DEF Truth

(* What may be said of a board depends on the board and the values a user  *)
(* may force, not on the environment at hand.                              *)
LEMMA SaidKept ==
  ASSUME EnvShape(env), EnvShape(env'), UNCHANGED eeprom, NEW c \in Classes
  PROVE  {IpmiString([env EXCEPT !.forced[c] = v], c) :
             v \in {Unset} \cup {f[2] : f \in Forced}}'
         = {IpmiString([env EXCEPT !.forced[c] = v], c) :
             v \in {Unset} \cup {f[2] : f \in Forced}}
<1> DEFINE Vals == {Unset} \cup {f[2] : f \in Forced}
<1>1. ASSUME NEW v
      PROVE  IpmiString([env EXCEPT !.forced[c] = v], c)'
               = IpmiString([env EXCEPT !.forced[c] = v], c)
  <2> DEFINE g == [env EXCEPT !.forced[c] = v]
             h == [env' EXCEPT !.forced[c] = v]
  <2>1. g.forced[c] = v /\ h.forced[c] = v
    BY Zenon DEF EnvShape
  <2>2. IpmiString([env EXCEPT !.forced[c] = v], c)' = IpmiString(h, c)
    BY Zenon DEF IpmiString
  <2> HIDE DEF g, h
  <2>3. IpmiString(g, c) = IpmiString(h, c)
    BY <2>1, StringOf
  <2> QED
    BY <2>2, <2>3 DEF g
<1> HIDE DEF Vals
<1>2. {IpmiString([env EXCEPT !.forced[c] = v], c)' : v \in Vals}
        = {IpmiString([env EXCEPT !.forced[c] = v], c) : v \in Vals}
  BY <1>1, Zenon
<1> QED
  BY <1>2, Zenon DEF Vals

LEMMA TruthKept ==
  ASSUME ToldInv, EnvShape(env'), EnvShape(saved'), UNCHANGED eeprom,
         env'.board = env.board, env'.ord = env.ord, UNCHANGED chosen,
         pc' = pc \/ pc' \notin {"uboot", "linux"}
  PROVE  ToldInv'
<1>1. ASSUME NEW c \in Classes, Truth(env.board, env.ord, c)
      PROVE  Truth(env.board, env.ord, c)'
  BY <1>1, SaidKept, Zenon DEF Truth, ToldInv
<1>2. ASSUME NEW c \in Classes, Truth(chosen.board, chosen.ord, c)
      PROVE  Truth(chosen.board, chosen.ord, c)'
  BY <1>2, SaidKept, Zenon DEF Truth, ToldInv
<1> QED
  BY <1>1, <1>2, Zenon DEF ToldInv

LEMMA EmptyShape == EnvShape(EmptyEnv)
<1>1. /\ DOMAIN EmptyEnv = {"board", "ord", "forced", "eth"}
      /\ EmptyEnv.board = [c \in Classes |-> Unset]
      /\ EmptyEnv.ord = [c \in Classes |-> 0]
      /\ EmptyEnv.forced = [c \in Classes |-> Unset]
  BY DEF EmptyEnv
<1> QED
  BY <1>1, Zenon DEF EnvShape

LEMMA ToldStart == ScanInit => ToldInv
BY EmptyShape, Zenon DEF ScanInit, BootInit, ToldInv

LEMMA ToldStep ==
  ASSUME ToldInv, [ScanNext]_<<bvars, svars>>
  PROVE  ToldInv'
<1>1. CASE FsblStep /\ UNCHANGED svars
  <2>1. eeprom' = eeprom /\ pc' \notin {"uboot", "linux"}
    <3>1. CASE Rom
      BY <3>1, Zenon DEF Rom
    <3>2. CASE SequenceStart
      BY <3>2 DEF SequenceStart
    <3>3. CASE SequenceEntry \/ SequenceNext \/ SequenceEnd
      BY <3>3 DEF SequenceEntry, SequenceNext, SequenceEnd
    <3>4. CASE SequenceTry
      BY <3>4, Zenon DEF SequenceTry
    <3>5. CASE LoadUboot
      BY <3>5 DEF LoadUboot
    <3> QED
      BY <1>1, <3>1, <3>2, <3>3, <3>4, <3>5 DEF FsblStep
  <2> QED
    BY <1>1, <2>1, TruthKept DEF svars, ToldInv
<1>2. CASE ZynqStart
  BY <1>2, TruthKept DEF ZynqStart, svars, ToldInv
<1>3. CASE misc_init_r
  <2>1. /\ pc' = "uboot" /\ env' = iv_ipmi_scan(saved) /\ UNCHANGED eeprom
        /\ saved' = saved
    BY <1>3 DEF misc_init_r
  <2>2. EnvShape(saved)
    BY DEF ToldInv
  <2>3. EnvShape(env') /\ \A c \in Classes : Truth(env.board, env.ord, c)'
    BY <2>1, <2>2, ScanTruth
  <2> QED
    BY <2>1, <2>2, <2>3 DEF ToldInv
<1>4. CASE fdt_overlay_apply_verbose
  <2>1. /\ pc' = "uboot" /\ env' = iv_ipmi_scan(env) /\ UNCHANGED eeprom
        /\ saved' = saved
    BY <1>4 DEF fdt_overlay_apply_verbose, bvars
  <2>2. EnvShape(env) /\ EnvShape(saved)
    BY DEF ToldInv
  <2>3. EnvShape(env') /\ \A c \in Classes : Truth(env.board, env.ord, c)'
    BY <2>1, <2>2, ScanTruth
  <2> QED
    BY <2>1, <2>2, <2>3 DEF ToldInv
<1>5. CASE bootm
  <2>1. /\ pc = "uboot" /\ pc' = "linux" /\ UNCHANGED <<eeprom, env, saved>>
        /\ chosen'.node => chosen'.board = env.board /\ chosen'.ord = env.ord
    BY <1>5 DEF bootm, iv_ipmi_chosen, NoChosen
  <2>2. /\ EnvShape(env) /\ EnvShape(saved)
        /\ \A c \in Classes : Truth(env.board, env.ord, c)
    BY <2>1 DEF ToldInv
  <2>3. ASSUME chosen'.node, NEW c \in Classes
        PROVE  Truth(chosen.board, chosen.ord, c)'
    BY <2>1, <2>2, <2>3, SaidKept, Zenon DEF Truth
  <2> QED
    BY <2>1, <2>2, <2>3 DEF ToldInv
<1>6. CASE saveenv
  BY <1>6, TruthKept DEF saveenv, bvars, ToldInv
<1>7. ASSUME NEW f \in Forced, setenv_forced(f[1], f[2])
      PROVE  ToldInv'
  <2>1. /\ pc' = pc /\ UNCHANGED <<eeprom, saved, chosen>>
        /\ env' = [env EXCEPT !.forced[f[1]] = f[2]]
    BY <1>7, Zenon DEF setenv_forced, bvars
  <2>2. EnvShape(env) /\ EnvShape(saved)
    BY DEF ToldInv
  <2>3. /\ DOMAIN env' = DOMAIN env /\ env'.board = env.board
        /\ env'.ord = env.ord
        /\ env'.forced = [env.forced EXCEPT ![f[1]] = f[2]]
    BY <2>1, <2>2, Zenon DEF EnvShape
  <2>4. ASSUME NEW c \in Classes
        PROVE  env'.forced[c] = env.forced[c] \/ env'.forced[c] = f[2]
    BY <2>2, <2>3, Zenon DEF EnvShape
  <2>5. EnvShape(env')
    <3>1. DOMAIN env'.forced = Classes
      BY <2>2, <2>3, Zenon DEF EnvShape
    <3>2. ASSUME NEW c \in Classes
          PROVE  env'.forced[c] \in {Unset} \cup {g[2] : g \in Forced}
      BY <2>2, <2>4, Zenon DEF EnvShape
    <3> QED
      BY <2>2, <2>3, <3>1, <3>2, Zenon DEF EnvShape
  <2> QED
    BY <2>1, <2>2, <2>3, <2>5, TruthKept
<1>8. CASE (PowerOn \/ PowerOff \/ Reboot) /\ Forget
  <2>1. /\ pc' \notin {"uboot", "linux"} /\ env' = EmptyEnv /\ saved' = saved
    BY <1>8 DEF PowerOn, PowerOff, Reboot, Forget
  <2> QED
    BY <2>1, EmptyShape DEF ToldInv
<1>9. CASE UNCHANGED <<bvars, svars>>
  BY <1>9, TruthKept DEF bvars, svars, ToldInv
<1> QED
  BY <1>1, <1>2, <1>3, <1>4, <1>5, <1>6, <1>7, <1>8, <1>9
  DEF ScanNext, SystemStep

(* What Linux is told of a board that can be read is what the board or the *)
(* user says, with the ordinal of that very part number, whatever was      *)
(* saved before and however often U-Boot scans (iveia-init.c 209-295,      *)
(* 418-474).                                                               *)
THEOREM ScanLinuxToldTruth == ScanSpec => []LinuxToldTruth
<1>1. ToldInv => LinuxToldTruth
  BY Zenon DEF ToldInv, Truth, LinuxToldTruth
<1> QED
  BY <1>1, ToldStart, ToldStep, PTL DEF ScanSpec

-----------------------------------------------------------------------------
(* The number of a serial number (iveia-init.c 304-327): the recursion is  *)
(* well defined, and two serial numbers of one length with one number are  *)
(* the same.  Both by the least prefix for which it fails.                 *)
IsValue(f, s, n) ==
  f = [k \in 0 .. n |-> IF k = 0 THEN 0 ELSE f[k - 1] * 2 ^ SN_LEN + s[k]]

LEMMA ValueExists ==
  ASSUME NEW s \in Seq(Nat)
  PROVE  \E f : IsValue(f, s, Len(s))
<1> DEFINE T == {n \in Nat : n <= Len(s) /\ ~ \E f : IsValue(f, s, n)}
<1>1. Len(s) \in Nat
  BY LenProperties
<1>2. SUFFICES ASSUME T # {} PROVE FALSE
  BY <1>1
<1>3. Min(T) \in T /\ \A y \in T : Min(T) <= y
  BY <1>2, MinOf
<1> DEFINE n == Min(T)
<1>4. n \in Nat /\ n <= Len(s) /\ ~ \E f : IsValue(f, s, n)
  BY <1>3
<1>5. \A m \in Nat : m < n => \E f : IsValue(f, s, m)
  BY <1>1, <1>3, <1>4
<1> HIDE DEF n, T
<1>6. CASE n = 0
  <2> DEFINE f == [k \in 0 .. 0 |-> 0]
  <2>1. IsValue(f, s, 0)
    BY DEF IsValue
  <2> QED
    BY <1>4, <1>6, <2>1, Zenon
<1>7. CASE n > 0
  <2>1. n - 1 \in Nat /\ n - 1 < n
    BY <1>4, <1>7
  <2>2. PICK g : IsValue(g, s, n - 1)
    BY <1>5, <2>1
  <2> DEFINE f == [k \in 0 .. n |-> IF k = 0 THEN 0
                                    ELSE g[k - 1] * 2 ^ SN_LEN + s[k]]
  <2>3. \A k \in 0 .. n : k # 0 => f[k - 1] = g[k - 1]
    <3>1. SUFFICES ASSUME NEW k \in 0 .. n, k # 0 PROVE f[k - 1] = g[k - 1]
      OBVIOUS
    <3>2. k - 1 \in 0 .. n /\ k - 1 \in 0 .. (n - 1)
      BY <1>4, <3>1
    <3>3. f[k - 1] = IF k - 1 = 0 THEN 0
                     ELSE g[(k - 1) - 1] * 2 ^ SN_LEN + s[k - 1]
      BY <3>2
    <3>4. g[k - 1] = IF k - 1 = 0 THEN 0
                     ELSE g[(k - 1) - 1] * 2 ^ SN_LEN + s[k - 1]
      BY <2>2, <3>2, Zenon DEF IsValue
    <3> QED
      BY <3>3, <3>4
  <2>4. f = [k \in 0 .. n |-> IF k = 0 THEN 0
                              ELSE g[k - 1] * 2 ^ SN_LEN + s[k]]
    OBVIOUS
  <2> HIDE DEF f
  <2>5. IsValue(f, s, n)
    BY <2>3, <2>4, Zenon DEF IsValue
  <2> QED
    BY <1>4, <2>5
<1> QED
  BY <1>4, <1>6, <1>7

LEMMA NumericIs ==
  ASSUME NEW s \in Seq(Nat)
  PROVE  \E f : IsValue(f, s, Len(s)) /\ NumericSn(s) = f[Len(s)]
<1>1. PICK g : IsValue(g, s, Len(s))
  BY ValueExists
<1> QED
  BY <1>1, Zenon DEF IsValue, NumericSn

(* Base and digits.                                                        *)
LEMMA OneDigit ==
  ASSUME NEW B \in Nat, NEW a \in Nat, NEW b \in Nat,
         NEW c \in Nat, NEW d \in Nat, c < B, d < B, a * B + c = b * B + d
  PROVE  a = b /\ c = d
<1>1. ASSUME NEW x \in Nat, NEW y \in Nat, x < y
      PROVE  x * B + B <= y * B
  <2>1. PICK z \in Nat : y = x + 1 + z
    <3>1. y - x - 1 \in Nat /\ y = x + 1 + (y - x - 1)
      BY <1>1
    <3> QED
      BY <3>1
  <2>2. y * B = x * B + B + z * B /\ z * B \in Nat /\ x * B \in Nat
    BY <2>1
  <2> QED
    BY <2>2
<1>2. a * B \in Nat /\ b * B \in Nat
  OBVIOUS
<1>3. ~ (a < b)
  BY <1>1, <1>2
<1>4. ~ (b < a)
  BY <1>1, <1>2
<1>5. a = b
  BY <1>3, <1>4
<1> QED
  BY <1>2, <1>5

LEMMA BaseIsNat == 2 ^ SN_LEN \in Nat
BY ScanAssumption

LEMMA ValueIsNat ==
  ASSUME NEW s \in Seq(Nat), NEW f, IsValue(f, s, Len(s)),
         NEW m \in 0 .. Len(s)
  PROVE  f[m] \in Nat
<1> DEFINE T == {k \in Nat : k <= Len(s) /\ f[k] \notin Nat}
<1>1. Len(s) \in Nat /\ DOMAIN s = 1 .. Len(s)
  BY LenProperties
<1>2. SUFFICES ASSUME T # {} PROVE FALSE
  BY <1>1
<1>3. Min(T) \in T /\ \A y \in T : Min(T) <= y
  BY <1>2, MinOf
<1> DEFINE n == Min(T)
<1>4. n \in Nat /\ n <= Len(s) /\ f[n] \notin Nat
  BY <1>3
<1>5. \A k \in Nat : k < n => f[k] \in Nat
  BY <1>1, <1>3, <1>4
<1> HIDE DEF n, T
<1>6. n \in 0 .. Len(s)
  BY <1>1, <1>4
<1>7. f[n] = IF n = 0 THEN 0 ELSE f[n - 1] * 2 ^ SN_LEN + s[n]
  BY <1>6, Zenon DEF IsValue
<1>8. n # 0
  BY <1>4, <1>7
<1>9. f[n - 1] \in Nat /\ s[n] \in Nat
  BY <1>1, <1>4, <1>5, <1>8
<1> DEFINE B == 2 ^ SN_LEN
<1>10. B \in Nat
  BY BaseIsNat
<1>11. f[n] = f[n - 1] * B + s[n]
  BY <1>7, <1>8
<1> DEFINE a == f[n - 1]
           c == s[n]
<1>12. a \in Nat /\ c \in Nat /\ f[n] = a * B + c
  BY <1>9, <1>11
<1> HIDE DEF B, a, c
<1>13. a * B + c \in Nat
  BY <1>10, <1>12
<1> QED
  BY <1>4, <1>12, <1>13

LEMMA ValueInjective ==
  ASSUME NEW s \in Seq(Nat), NEW t \in Seq(Nat), Len(s) = Len(t),
         InMap(s), InMap(t), NEW f, NEW g,
         IsValue(f, s, Len(s)), IsValue(g, t, Len(t)),
         f[Len(s)] = g[Len(t)]
  PROVE  s = t
<1> DEFINE N == Len(s)
           B == 2 ^ SN_LEN
           Q(k) == f[N - k] = g[N - k] /\ \A j \in 1 .. N : N - k < j => s[j] = t[j]
           T == {k \in Nat : k <= N /\ ~ Q(k)}
<1>1. N \in Nat /\ DOMAIN s = 1 .. N /\ DOMAIN t = 1 .. N /\ Len(t) = N
  BY LenProperties
<1>2. T = {}
  <2>1. SUFFICES ASSUME T # {} PROVE FALSE
    OBVIOUS
  <2>2. Min(T) \in T /\ \A y \in T : Min(T) <= y
    BY <2>1, MinOf
  <2> DEFINE n == Min(T)
  <2>3. n \in Nat /\ n <= N /\ ~ Q(n)
    BY <2>2
  <2>5. Q(0)
    BY <1>1
  <2> HIDE DEF Q
  <2>4. ASSUME NEW k \in Nat, k < n PROVE Q(k)
    <3>1. k \notin T /\ k <= N
      BY <1>1, <2>2, <2>3, <2>4
    <3> QED
      BY <3>1, Zenon
  <2> HIDE DEF n, T
  <2>6. n # 0
    BY <2>3, <2>5, Zenon
  <2> DEFINE m == N - (n - 1)
  <2>7. m \in 1 .. N /\ m - 1 = N - n /\ m \in 0 .. N /\ m # 0
    BY <1>1, <2>3, <2>6
  <2>8. Q(n - 1)
    <3>1. n - 1 \in Nat /\ n - 1 < n
      BY <2>3, <2>6
    <3> QED
      BY <2>4, <3>1, Zenon
  <2>9. f[m] = g[m] /\ \A j \in 1 .. N : m < j => s[j] = t[j]
    BY <2>8 DEF Q
  <2> HIDE DEF m
  <2>10. f[m] = f[m - 1] * B + s[m]
    BY <1>1, <2>7, Zenon DEF IsValue
  <2>11. g[m] = g[m - 1] * B + t[m]
    BY <1>1, <2>7, Zenon DEF IsValue
  <2>12. f[m - 1] \in Nat /\ g[m - 1] \in Nat
    <3>1. m - 1 \in 0 .. Len(s) /\ m - 1 \in 0 .. Len(t)
      BY <1>1, <2>7
    <3> QED
      BY <3>1, ValueIsNat
  <2>13. s[m] \in Nat /\ t[m] \in Nat
    BY <1>1, <2>7
  <2>14. s[m] < B /\ t[m] < B
    BY <1>1, <2>7, Zenon DEF InMap
  <2>15. B \in Nat
    BY BaseIsNat
  <2> HIDE DEF B
  <2>16. f[m - 1] = g[m - 1] /\ s[m] = t[m]
    <3> DEFINE a == f[m - 1]
               b == g[m - 1]
               c == s[m]
               d == t[m]
    <3>1. /\ a \in Nat /\ b \in Nat /\ c \in Nat /\ d \in Nat
          /\ c < B /\ d < B /\ a * B + c = b * B + d
      BY <2>9, <2>10, <2>11, <2>12, <2>13, <2>14
    <3> HIDE DEF a, b, c, d
    <3>2. a = b /\ c = d
      BY <2>15, <3>1, OneDigit, Zenon
    <3> QED
      BY <3>2 DEF a, b, c, d
  <2>17. ASSUME NEW j \in 1 .. N, N - n < j PROVE s[j] = t[j]
    <3>1. j = m \/ m < j
      BY <1>1, <2>7, <2>17
    <3> QED
      BY <2>9, <2>16, <2>17, <3>1
  <2>18. Q(n)
    BY <2>7, <2>16, <2>17 DEF Q
  <2> QED
    BY <2>3, <2>18
<1>3. Q(N)
  <2> HIDE DEF Q
  <2>1. N \notin T /\ N <= N
    BY <1>1, <1>2
  <2> QED
    BY <1>1, <2>1, Zenon
<1>4. \A j \in 1 .. N : s[j] = t[j]
  BY <1>1, <1>3
<1> QED
  BY <1>1, <1>4, SeqEqual

-----------------------------------------------------------------------------
(* An address is above the vendor's, and no other serial number has it nor *)
(* the one after it.                                                       *)
LEMMA MacIs ==
  ASSUME NEW s \in Seq(Nat)
  PROVE  /\ NumericSn(s) \in Nat
         /\ UpperMac(s) = 0 \/ UpperMac(s) = IVEIA_OUI + 2 * NumericSn(s)
         /\ UpperMac(s) # 0 => Len(s) = SN_LEN /\ InMap(s)
<1>1. PICK f : IsValue(f, s, Len(s)) /\ NumericSn(s) = f[Len(s)]
  BY NumericIs
<1>2. Len(s) \in 0 .. Len(s)
  BY LenProperties
<1>3. NumericSn(s) \in Nat
  BY <1>1, <1>2, ValueIsNat
<1> QED
  BY <1>3 DEF UpperMac

LEMMA UpperIs ==
  ASSUME NEW s \in Seq(Nat)
  PROVE  Upper(s) \in Seq(Nat)
<1>1. Len(s) \in Nat /\ \A k \in 1 .. Len(s) : s[k] \in Nat
  BY LenProperties, ElementOfSeq
<1>2. \A k \in 1 .. Len(s) : toupper(s[k]) \in Nat
  BY <1>1, ScanAssumption DEF toupper
<1>3. Upper(s) \in [1 .. Len(s) -> Nat]
  BY <1>2 DEF Upper
<1> QED
  BY <1>1, <1>3

LEMMA MacsDiffer ==
  ASSUME NEW s \in Seq(Nat), NEW t \in Seq(Nat), s # t,
         UpperMac(s) # 0, UpperMac(t) # 0
  PROVE  NumericSn(s) # NumericSn(t)
<1>1. /\ Len(s) = SN_LEN /\ InMap(s) /\ Len(t) = SN_LEN /\ InMap(t)
  BY MacIs
<1>2. PICK f : IsValue(f, s, Len(s)) /\ NumericSn(s) = f[Len(s)]
  BY NumericIs
<1>3. PICK g : IsValue(g, t, Len(t)) /\ NumericSn(t) = g[Len(t)]
  BY NumericIs
<1> QED
  BY <1>1, <1>2, <1>3, ValueInjective

(* set_mac_addrs (iveia-init.c 345-411): the ports' addresses differ.      *)
LEMMA MacsDistinct ==
  ASSUME NEW s \in Seq(Nat), NEW t \in Seq(Nat), s # t,
         NEW p \in Ports, NEW q \in Ports, p # q,
         Macs(UpperMac(s), UpperMac(t))[p] # 0
  PROVE  Macs(UpperMac(s), UpperMac(t))[p]
           # Macs(UpperMac(s), UpperMac(t))[q]
<1> DEFINE a == UpperMac(s)
           b == UpperMac(t)
           m == NumericSn(s)
           n == NumericSn(t)
           one == IF a # 0 THEN a ELSE b
           R == Macs(a, b)
<1>1. /\ m \in Nat /\ n \in Nat /\ IVEIA_OUI \in Nat /\ IVEIA_OUI > 0
      /\ a = 0 \/ a = IVEIA_OUI + 2 * m
      /\ b = 0 \/ b = IVEIA_OUI + 2 * n
      /\ a # 0 /\ b # 0 => m # n
  BY MacIs, MacsDiffer, ScanAssumption
<1>2. R[p] # 0
  OBVIOUS
<1> HIDE DEF a, b, m, n
<1>3. a \in Nat /\ b \in Nat /\ one \in Nat
  BY <1>1
<1>4. CASE soc = "zynq"
  <2>1. R = [x \in Ports |-> IF one # 0 /\ x \in {0, 0 + 1}
                             THEN one + (x - 0) ELSE 0]
    BY <1>4, Zenon DEF Macs
  <2> HIDE DEF R, one
  <2>2. ASSUME NEW x \in Ports
        PROVE  R[x] = IF one # 0 /\ x \in {0, 1} THEN one + x ELSE 0
    BY <1>3, <2>1 DEF Ports
  <2>3. R[p] # R[q]
    BY <1>2, <1>3, <2>2 DEF Ports
  <2> QED
    BY <2>3 DEF R, a, b
<1>5. CASE soc # "zynq" /\ a # 0 /\ b # 0
  <2>1. R = [x \in Ports |->
               IF x < 2 THEN [y \in Ports |-> IF a # 0 /\ y \in {0, 0 + 1}
                                              THEN a + (y - 0) ELSE 0][x]
               ELSE [y \in Ports |-> IF b # 0 /\ y \in {2, 2 + 1}
                                     THEN b + (y - 2) ELSE 0][x]]
    BY <1>5, Zenon DEF Macs
  <2> HIDE DEF R
  <2>2. ASSUME NEW x \in Ports
        PROVE  R[x] = IF x < 2 THEN a + x ELSE b + (x - 2)
    BY <1>3, <1>5, <2>1 DEF Ports
  <2>3. R[p] # R[q]
    BY <1>1, <1>3, <1>5, <2>2 DEF Ports
  <2> QED
    BY <2>3 DEF R, a, b
<1>6. CASE soc # "zynq" /\ ~(a # 0 /\ b # 0)
  <2>1. R = [x \in Ports |-> IF one # 0 /\ x \in {2, 2 + 1}
                             THEN one + (x - 2) ELSE 0]
    BY <1>6, Zenon DEF Macs
  <2> HIDE DEF R, one
  <2>2. ASSUME NEW x \in Ports
        PROVE  R[x] = IF one # 0 /\ x \in {2, 3} THEN one + (x - 2) ELSE 0
    BY <1>3, <2>1 DEF Ports
  <2>3. R[p] # R[q]
    BY <1>2, <1>3, <2>2 DEF Ports
  <2> QED
    BY <2>3 DEF R, a, b
<1> QED
  BY <1>4, <1>5, <1>6

LEMMA MacsOnPorts ==
  ASSUME NEW a, NEW b
  PROVE  Macs(a, b) = [p \in Ports |-> Macs(a, b)[p]]
<1>1. CASE soc = "zynq"
  BY <1>1, Zenon DEF Macs
<1>2. CASE soc # "zynq" /\ a # 0 /\ b # 0
  BY <1>2, Zenon DEF Macs
<1>3. CASE soc # "zynq" /\ ~(a # 0 /\ b # 0)
  BY <1>3, Zenon DEF Macs
<1> QED
  BY <1>1, <1>2, <1>3

(* The serial number a scan puts into the environment.                     *)
LEMMA StringHasSn ==
  ASSUME NEW e, EnvShape(e), eeprom \in Eeproms, NEW c \in Classes
  PROVE  IpmiString(e, c).sn \in Seq(Nat)
<1>1. <<>> \in Seq(Nat)
  OBVIOUS
<1>2. Unset.sn = <<>> /\ DEFAULT_IPMI_STRING.sn = <<>>
  BY DEF Unset, DEFAULT_IPMI_STRING, Info
<1>3. e.forced[c].sn \in Seq(Nat)
  <2>1. e.forced[c] = Unset \/ \E f \in Forced : e.forced[c] = f[2]
    BY DEF EnvShape
  <2> QED
    BY <1>1, <1>2, <2>1, ScanAssumption
<1>4. Info(eeprom[c].pn, eeprom[c].sn).sn \in Seq(Nat)
  BY ScanAssumption DEF Info
<1>5. \/ IpmiString(e, c) = DEFAULT_IPMI_STRING
      \/ IpmiString(e, c) = e.forced[c]
      \/ IpmiString(e, c) = Info(eeprom[c].pn, eeprom[c].sn)
  BY DEF IpmiString
<1> QED
  BY <1>1, <1>2, <1>3, <1>4, <1>5, Zenon

LEMMA EmptySns == \A c \in Classes : EmptyEnv.board[c].sn \in Seq(Nat)
<1>1. <<>> \in Seq(Nat)
  OBVIOUS
<1>2. EmptyEnv.board = [c \in Classes |-> Unset] /\ Unset.sn = <<>>
  BY DEF EmptyEnv, Unset
<1> QED
  BY <1>1, <1>2, Zenon

LEMMA MacStart == ScanInit => MacInv
BY EmptySns, Zenon DEF ScanInit, BootInit, MacInv

(* A scan of an environment whose addresses are not set, or are those of   *)
(* the boards it finds again.                                              *)
LEMMA ScanSetsMacs ==
  ASSUME NEW e, EnvShape(e), eeprom \in Eeproms, UNCHANGED <<eeprom, soc>>,
         \A c \in Classes : e.board[c].sn \in Seq(Nat),
         env' = iv_ipmi_scan(e)
  PROVE  /\ \A c \in Classes : env'.board[c].sn \in Seq(Nat)
         /\ \/ e.eth = EmptyEnv.eth
            \/ /\ env'.board = e.board
               /\ e.eth = Macs(sn_to_mac(e.board["mb"].sn),
                               sn_to_mac(e.board["io"].sn))
            => env'.eth = Macs(sn_to_mac(env.board["mb"].sn),
                               sn_to_mac(env.board["io"].sn))'
<1> DEFINE M == Macs(sn_to_mac(env'.board["mb"].sn),
                     sn_to_mac(env'.board["io"].sn))
<1>1. /\ \A c \in Classes : \/ env'.board[c] = e.board[c]
                            \/ env'.board[c] = IpmiString(e, c)
      /\ env'.eth = [p \in Ports |-> IF e.eth[p] # 0 THEN e.eth[p] ELSE M[p]]
  <2>1. SetsMacs(e, env')
    BY ScanTells
  <2> QED
    BY <2>1, Zenon DEF SetsMacs
<1>2. \A c \in Classes : env'.board[c].sn \in Seq(Nat)
  BY <1>1, StringHasSn, Zenon
<1>3. M = [p \in Ports |-> M[p]]
  BY MacsOnPorts, Zenon
<1>4. Macs(sn_to_mac(env.board["mb"].sn), sn_to_mac(env.board["io"].sn))' = M
  BY Zenon DEF Macs, sn_to_mac, UpperMac, Upper, toupper, InMap, NumericSn
<1>5. CASE e.eth = EmptyEnv.eth
  <2>1. \A p \in Ports : e.eth[p] = 0
    BY <1>5 DEF EmptyEnv
  <2> HIDE DEF M
  <2>2. env'.eth = [p \in Ports |-> M[p]]
    BY <1>1, <2>1, Zenon
  <2> QED
    BY <1>2, <1>3, <1>4, <2>2, Zenon
<1>6. CASE env'.board = e.board /\ e.eth = Macs(sn_to_mac(e.board["mb"].sn),
                                               sn_to_mac(e.board["io"].sn))
  <2>1. e.eth = M
    BY <1>6, Zenon
  <2> HIDE DEF M
  <2>2. env'.eth = [p \in Ports |-> M[p]]
    BY <1>1, <2>1, Zenon
  <2> QED
    BY <1>2, <1>3, <1>4, <2>2, Zenon
<1> QED
  BY <1>2, <1>5, <1>6, Zenon

(* Nothing about the environment changes but the forced variables.         *)
LEMMA MacKept ==
  ASSUME MacInv, UNCHANGED <<soc, oldmacs>>,
         env'.board = env.board, env'.eth = env.eth,
         saved'.board = saved.board \/ saved'.board = env.board,
         pc # "off", pc' # "off", UNCHANGED eeprom,
         \/ pc \in {"uboot", "linux"} /\ pc' \in {"uboot", "linux"}
         \/ /\ pc \notin {"uboot", "linux"} /\ pc' \notin {"uboot", "linux"}
            /\ env' = env
  PROVE  MacInv'
<1>1. Macs(sn_to_mac(env.board["mb"].sn), sn_to_mac(env.board["io"].sn))'
      = Macs(sn_to_mac(env.board["mb"].sn), sn_to_mac(env.board["io"].sn))
  <2>1. Macs(sn_to_mac(env.board["mb"].sn), sn_to_mac(env.board["io"].sn))'
        = Macs(sn_to_mac(env'.board["mb"].sn), sn_to_mac(env'.board["io"].sn))
    <3>1. soc' = soc
      OBVIOUS
    <3> QED
      BY <3>1, Zenon DEF Macs, sn_to_mac, UpperMac, Upper, toupper, InMap,
                         NumericSn
  <2> QED
    BY <2>1, Zenon
<1> QED
  BY <1>1, Zenon DEF MacInv

LEMMA MacStep ==
  ASSUME ToldInv, MacInv, [ScanNext]_<<bvars, svars>>
  PROVE  MacInv'
<1>1. CASE FsblStep /\ UNCHANGED svars
  <2>1. /\ eeprom' = eeprom /\ pc \notin {"uboot", "linux", "off"}
        /\ pc' \notin {"uboot", "linux", "off"}
    <3>1. CASE Rom
      BY <3>1, Zenon DEF Rom
    <3>2. CASE SequenceStart
      BY <3>2 DEF SequenceStart
    <3>3. CASE SequenceEntry \/ SequenceNext \/ SequenceEnd
      BY <3>3 DEF SequenceEntry, SequenceNext, SequenceEnd
    <3>4. CASE SequenceTry
      BY <3>4, Zenon DEF SequenceTry
    <3>5. CASE LoadUboot
      BY <3>5 DEF LoadUboot
    <3> QED
      BY <1>1, <3>1, <3>2, <3>3, <3>4, <3>5 DEF FsblStep
  <2> QED
    BY <1>1, <2>1, MacKept DEF svars
<1>2. CASE ZynqStart
  BY <1>2, MacKept DEF ZynqStart, svars
<1>3. CASE misc_init_r
  <2>1. /\ pc = "start" /\ pc' = "uboot" /\ env' = iv_ipmi_scan(saved)
        /\ oldmacs' = (saved.eth # EmptyEnv.eth)
        /\ UNCHANGED <<eeprom, soc, saved>>
    BY <1>3 DEF misc_init_r
  <2>2. /\ EnvShape(saved) /\ eeprom \in Eeproms
        /\ \A c \in Classes : saved.board[c].sn \in Seq(Nat)
    BY <2>1 DEF ToldInv, MacInv
  <2>3. /\ \A c \in Classes : env'.board[c].sn \in Seq(Nat)
        /\ saved.eth = EmptyEnv.eth =>
             env'.eth = Macs(sn_to_mac(env.board["mb"].sn),
                             sn_to_mac(env.board["io"].sn))'
    BY <2>1, <2>2, ScanSetsMacs, Zenon
  <2> QED
    BY <2>1, <2>2, <2>3 DEF MacInv
<1>4. CASE fdt_overlay_apply_verbose
  <2>1. /\ pc = "uboot" /\ pc' = "uboot" /\ env' = iv_ipmi_scan(env)
        /\ oldmacs' = (oldmacs \/ env'.board # env.board)
        /\ UNCHANGED <<eeprom, soc, saved>>
    BY <1>4 DEF fdt_overlay_apply_verbose, bvars
  <2>2. /\ EnvShape(env) /\ eeprom \in Eeproms
        /\ \A c \in Classes : env.board[c].sn \in Seq(Nat)
        /\ \A c \in Classes : saved.board[c].sn \in Seq(Nat)
        /\ ~oldmacs => env.eth = Macs(sn_to_mac(env.board["mb"].sn),
                                      sn_to_mac(env.board["io"].sn))
    BY <2>1 DEF ToldInv, MacInv
  <2>3. /\ \A c \in Classes : env'.board[c].sn \in Seq(Nat)
        /\ (/\ env'.board = env.board
            /\ env.eth = Macs(sn_to_mac(env.board["mb"].sn),
                              sn_to_mac(env.board["io"].sn))) =>
             env'.eth = Macs(sn_to_mac(env.board["mb"].sn),
                             sn_to_mac(env.board["io"].sn))'
    BY <2>1, <2>2, ScanSetsMacs, Zenon
  <2> QED
    BY <2>1, <2>2, <2>3, Zenon DEF MacInv
<1>5. CASE bootm
  BY <1>5, MacKept DEF bootm
<1>6. CASE saveenv
  BY <1>6, MacKept DEF saveenv, bvars
<1>7. ASSUME NEW f \in Forced, setenv_forced(f[1], f[2])
      PROVE  MacInv'
  <2>1. /\ pc = "uboot" /\ pc' = pc
        /\ UNCHANGED <<eeprom, saved, soc, oldmacs>>
        /\ env' = [env EXCEPT !.forced[f[1]] = f[2]]
    BY <1>7, Zenon DEF setenv_forced, bvars
  <2>2. EnvShape(env)
    BY DEF ToldInv
  <2>3. env'.board = env.board /\ env'.eth = env.eth
    BY <2>1, <2>2, Zenon DEF EnvShape
  <2> QED
    BY <2>1, <2>3, MacKept
<1>8. CASE (PowerOn \/ PowerOff \/ Reboot) /\ Forget
  <2>1. /\ pc' \notin {"uboot", "linux"} /\ env' = EmptyEnv /\ saved' = saved
    BY <1>8 DEF PowerOn, PowerOff, Reboot, Forget
  <2>2. pc' # "off" => eeprom' \in Eeproms
    BY <1>8 DEF PowerOn, PowerOff, Reboot, MacInv
  <2> QED
    BY <2>1, <2>2, EmptySns, Zenon DEF MacInv
<1>9. CASE UNCHANGED <<bvars, svars>>
  <2>1. CASE pc # "off"
    BY <1>9, <2>1, MacKept DEF bvars, svars
  <2>2. CASE pc = "off"
    BY <1>9, <2>2, Zenon DEF bvars, svars, MacInv
  <2> QED
    BY <2>1, <2>2
<1> QED
  BY <1>1, <1>2, <1>3, <1>4, <1>5, <1>6, <1>7, <1>8, <1>9
  DEF ScanNext, SystemStep

LEMMA InvMacs ==
  ASSUME MacInv
  PROVE  MacsUnique
<1> DEFINE s == Upper(env.board["mb"].sn)
           t == Upper(env.board["io"].sn)
<1>1. SUFFICES ASSUME ~oldmacs, s # t,
                      NEW p \in Ports, NEW q \in Ports, p # q, env.eth[p] # 0
               PROVE  env.eth[p] # env.eth[q]
  BY Zenon DEF MacsUnique
<1>2. "mb" \in Classes /\ "io" \in Classes
  BY DEF Classes
<1>3. s \in Seq(Nat) /\ t \in Seq(Nat)
  <2>1. env.board["mb"].sn \in Seq(Nat) /\ env.board["io"].sn \in Seq(Nat)
    BY <1>2, Zenon DEF MacInv
  <2> QED
    BY <2>1, UpperIs
<1>4. pc \in {"uboot", "linux"}
  <2>1. EmptyEnv.eth[p] = 0
    BY DEF EmptyEnv
  <2> QED
    BY <1>1, <2>1, Zenon DEF MacInv
<1>5. env.eth = Macs(UpperMac(s), UpperMac(t))
  BY <1>1, <1>4, Zenon DEF MacInv, sn_to_mac
<1> HIDE DEF s, t
<1> QED
  BY <1>1, <1>3, <1>5, MacsDistinct

(* Two boards whose serial numbers differ in more than case never give two *)
(* ports the same address, for any length of the serial numbers and any    *)
(* vendor half: iveia-init.c 304-327 maps them one to one, and 345-411     *)
(* sets each port once.                                                    *)
THEOREM ScanMacsUnique == ScanSpec => []MacsUnique
<1>1. MacInv => MacsUnique
  BY InvMacs
<1> QED
  BY <1>1, ToldStart, ToldStep, MacStart, MacStep, PTL DEF ScanSpec
=============================================================================

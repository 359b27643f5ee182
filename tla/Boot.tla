-------------------------------- MODULE Boot --------------------------------
(***************************************************************************)
(* The boot sequencer of the ZynqMP first stage boot loader                *)
(* (recipes-bsp/fsbl-firmware/files/iv_z8_sequence_boot.c and              *)
(* iv_z8_user_boot_sequence.c).  On a cold start it tries the devices of   *)
(* boot_seq in order, each with some image numbers, which it writes to     *)
(* CSU_MULTI_BOOT before the device's init is called.  The first init that *)
(* succeeds is put into BOOT_MODE_USER as the alternative boot mode and    *)
(* the system is reset; the loader then comes up again, from that device,  *)
(* and goes on.                                                            *)
(*                                                                         *)
(* The boot ROM, the inits of the Xilinx loader and the media are outside  *)
(* the repository, and are modelled by what the sequencer relies on.       *)
(***************************************************************************)
EXTENDS Integers, Sequences, FiniteSetsExt

CONSTANTS
  Pins,           \* boot modes the pins may select
  BootSeqs,       \* values of boot_seq: sequences of [mode, num_attempts]
  Medias,         \* what the media may hold: records of sets of image numbers
  Eeproms,        \* what the board EEPROMs may hold
  MAX_MULTIBOOT_ATTEMPTS,
  MaxStarts       \* bound: power-ups and reboots

ASSUME BootAssumption ==
  /\ MAX_MULTIBOOT_ATTEMPTS \in Nat
  /\ \A m \in Medias : m.sd0 \subseteq Nat /\ m.sd1 \subseteq Nat
                       /\ m.qspi \subseteq Nat
  /\ \A s \in BootSeqs : s \in Seq([mode : STRING, num_attempts : Int])
  /\ \A e \in Eeproms : e["mb"].pn \in Int

VARIABLES
  pc,             \* what runs
  pins, boot_seq, \* the board: its boot mode pins and its loader
  media, eeprom,  \* the media and the EEPROMs that are plugged in
  BOOT_MODE_USER, \* [alt, mode]: the alternative boot mode, if in use
  MULTI_BOOT,     \* CSU_MULTI_BOOT
  boot_idx, todo, \* the entry of boot_seq, and its image numbers to try
  fsbl, uboot,    \* the images the loader and U-Boot were taken from
  cold,           \* no reboot since the power came on
  starts          \* power-ups and reboots so far

bvars == <<pc, pins, boot_seq, media, eeprom, BOOT_MODE_USER, MULTI_BOOT,
           boot_idx, todo, fsbl, uboot, cold, starts>>

Nowhere == [mode |-> "none", n |-> 0]
NotAlt == [alt |-> FALSE, mode |-> "none"]

----------------------------------------------------------------------------
(* The hardware and the Xilinx loader.                                     *)

(* What is plugged in while the power is off does not matter.              *)
AnyMedia == CHOOSE m \in Medias : TRUE
AnyEeprom == CHOOSE e \in Eeproms : TRUE

(* Both QSPI modes are the same flash.                                     *)
Images(mode) == CASE mode = "sd0" -> media.sd0
                  [] mode = "sd1" -> media.sd1
                  [] mode \in {"qspi24", "qspi32"} -> media.qspi
                  [] OTHER -> {}

BootMode == IF BOOT_MODE_USER.alt THEN BOOT_MODE_USER.mode ELSE pins

(* The init of an SD card opens the image file; that of the flash does not *)
(* look for an image, and may fail.                                        *)
InitResults(mode, n) == CASE mode \in {"sd0", "sd1"} -> {n \in Images(mode)}
                          [] mode \in {"qspi24", "qspi32"} -> BOOLEAN
                          [] OTHER -> {FALSE}

PowerOn ==
  /\ pc = "off" /\ starts < MaxStarts
  /\ media' \in Medias /\ eeprom' \in Eeproms
  /\ BOOT_MODE_USER' = NotAlt /\ MULTI_BOOT' = 0
  /\ pc' = "rom" /\ cold' = TRUE /\ starts' = starts + 1
  /\ UNCHANGED <<pins, boot_seq, boot_idx, todo, fsbl, uboot>>

PowerOff ==
  /\ pc # "off" /\ pc' = "off"
  /\ fsbl' = Nowhere /\ uboot' = Nowhere /\ boot_idx' = 1 /\ todo' = {}
  /\ BOOT_MODE_USER' = NotAlt /\ MULTI_BOOT' = 0 /\ cold' = TRUE
  /\ media' = AnyMedia /\ eeprom' = AnyEeprom
  /\ UNCHANGED <<pins, boot_seq, starts>>

(* A reboot keeps both registers; the cards may have been changed.         *)
Reboot ==
  /\ pc = "linux" /\ starts < MaxStarts
  /\ media' \in {m \in Medias : m.qspi = media.qspi}
  /\ pc' = "rom" /\ cold' = FALSE /\ starts' = starts + 1
  /\ fsbl' = Nowhere /\ uboot' = Nowhere
  /\ UNCHANGED <<pins, boot_seq, eeprom, BOOT_MODE_USER, MULTI_BOOT,
                 boot_idx, todo>>

(* The ROM searches upwards from MULTI_BOOT for an image to start.         *)
Rom ==
  /\ pc = "rom"
  /\ LET found == {n \in Images(BootMode) : n >= MULTI_BOOT}
     IN CASE BootMode = "jtag" ->
               /\ pc' = "fsbl" /\ fsbl' = [mode |-> "jtag", n |-> MULTI_BOOT]
               /\ UNCHANGED MULTI_BOOT
          [] BootMode # "jtag" /\ found # {} ->
               /\ pc' = "fsbl" /\ MULTI_BOOT' = Min(found)
               /\ fsbl' = [mode |-> BootMode, n |-> Min(found)]
          [] OTHER -> pc' = "dead" /\ UNCHANGED <<fsbl, MULTI_BOOT>>
  /\ UNCHANGED <<pins, boot_seq, media, eeprom, BOOT_MODE_USER, boot_idx,
                 todo, uboot, cold, starts>>

(* The rest of the loader takes U-Boot from the image MULTI_BOOT says.     *)
LoadUboot ==
  /\ pc = "load"
  /\ IF BootMode = "jtag" \/ MULTI_BOOT \in Images(BootMode)
       THEN pc' = "start" /\ uboot' = [mode |-> BootMode, n |-> MULTI_BOOT]
       ELSE pc' = "dead" /\ uboot' = uboot
  /\ UNCHANGED <<pins, boot_seq, media, eeprom, BOOT_MODE_USER, MULTI_BOOT,
                 boot_idx, todo, fsbl, cold, starts>>

----------------------------------------------------------------------------
(* iv_sequence_boot.                                                       *)

(* "alt_boot will be false for initial power up"; JTAG is left alone.      *)
SequenceStart ==
  /\ pc = "fsbl"
  /\ pc' = IF BOOT_MODE_USER.alt \/ pins = "jtag" THEN "load" ELSE "entry"
  /\ boot_idx' = 1
  /\ UNCHANGED <<pins, boot_seq, media, eeprom, BOOT_MODE_USER, MULTI_BOOT,
                 todo, fsbl, uboot, cold, starts>>

(* The part number's ordinal, from an EEPROM that answers and whose two    *)
(* checksums and version are right.                                        *)
read_ipmi == eeprom["mb"].answers /\ eeprom["mb"].fixed
get_pn_ord == eeprom["mb"].pn

(* The image numbers to try: the first few, or the part number's alone.    *)
AttemptsFirst(e) ==
  IF e.num_attempts >= 0
  THEN 0 .. Min({e.num_attempts, MAX_MULTIBOOT_ATTEMPTS}) - 1
  ELSE IF read_ipmi /\ get_pn_ord > 0 THEN {0} ELSE {}

Attempts(e) ==
  IF e.num_attempts >= 0
  THEN 0 .. Min({e.num_attempts, MAX_MULTIBOOT_ATTEMPTS}) - 1
  ELSE IF read_ipmi /\ get_pn_ord > 0 THEN {get_pn_ord} ELSE {}

SequenceEntry ==
  /\ pc = "entry" /\ boot_idx <= Len(boot_seq)
  /\ todo' = Attempts(boot_seq[boot_idx])
  /\ pc' = "try"
  /\ UNCHANGED <<pins, boot_seq, media, eeprom, BOOT_MODE_USER, MULTI_BOOT,
                 boot_idx, fsbl, uboot, cold, starts>>

(* The reset that follows the write of BOOT_MODE_USER.                     *)
UseMode(mode) == [alt |-> FALSE, mode |-> mode]
UseAlt(mode) == [alt |-> TRUE, mode |-> mode]

SequenceTry ==
  /\ pc = "try" /\ todo # {}
  /\ LET mode == boot_seq[boot_idx].mode
         n    == Min(todo)
     IN /\ MULTI_BOOT' = n
        /\ \E ok \in InitResults(mode, n) :
             IF ok THEN /\ BOOT_MODE_USER' = UseAlt(mode)
                        /\ todo' = {} /\ boot_idx' = 1 /\ pc' = "rom"
             ELSE todo' = todo \ {n}
                    /\ UNCHANGED <<BOOT_MODE_USER, boot_idx, pc>>
  /\ UNCHANGED <<pins, boot_seq, media, eeprom, fsbl, uboot, cold, starts>>

SequenceNext ==
  /\ pc = "try" /\ todo = {}
  /\ boot_idx' = boot_idx + 1 /\ pc' = "entry"
  /\ UNCHANGED <<pins, boot_seq, media, eeprom, BOOT_MODE_USER, MULTI_BOOT,
                 todo, fsbl, uboot, cold, starts>>

SequenceEndKeeps ==
  /\ pc = "entry" /\ boot_idx > Len(boot_seq)
  /\ boot_idx' = 1 /\ pc' = "load"
  /\ UNCHANGED <<pins, boot_seq, media, eeprom, BOOT_MODE_USER, MULTI_BOOT,
                 todo, fsbl, uboot, cold, starts>>

SequenceEnd ==
  /\ pc = "entry" /\ boot_idx > Len(boot_seq)
  /\ MULTI_BOOT' = 0 /\ boot_idx' = 1 /\ pc' = "load"
  /\ UNCHANGED <<pins, boot_seq, media, eeprom, BOOT_MODE_USER, todo, fsbl,
                 uboot, cold, starts>>

----------------------------------------------------------------------------
BootInit ==
  /\ pc = "off" /\ pins \in Pins /\ boot_seq \in BootSeqs
  /\ media = AnyMedia /\ eeprom = AnyEeprom
  /\ BOOT_MODE_USER = NotAlt /\ MULTI_BOOT = 0 /\ boot_idx = 1 /\ todo = {}
  /\ fsbl = Nowhere /\ uboot = Nowhere /\ cold = TRUE /\ starts = 0

(* What the processor does by itself.                                      *)
FsblStep == Rom \/ SequenceStart \/ SequenceEntry \/ SequenceTry
              \/ SequenceNext \/ SequenceEnd \/ LoadUboot

----------------------------------------------------------------------------
(* U-Boot comes from the very image whose loader started it: neither a     *)
(* sequence that found nothing nor the search of the ROM mixes two images  *)
(* (iv_z8_sequence_boot.c 211, 247-250, 271).                              *)
OneImage == (uboot # Nowhere) => uboot = fsbl

(* The card images boot_seq names, with the place of their entry in it; a  *)
(* flash entry comes last, if there is one.                                *)
CardImages ==
  {c \in (1 .. Len(boot_seq)) \X (media.sd0 \cup media.sd1) :
     /\ boot_seq[c[1]].mode \in {"sd0", "sd1"}
     /\ c[2] \in Images(boot_seq[c[1]].mode)
     /\ \/ c[2] < boot_seq[c[1]].num_attempts /\ c[2] < MAX_MULTIBOOT_ATTEMPTS
        \/ /\ boot_seq[c[1]].num_attempts < 0 /\ c[2] = eeprom["mb"].pn
           /\ c[2] > 0 /\ eeprom["mb"].answers /\ eeprom["mb"].fixed}

(* After a power-up the first image of the sequence that is there is used, *)
(* and it is the one of the part number only if the EEPROM says so         *)
(* (iv_z8_sequence_boot.c 169-270).                                        *)
FirstChoice ==
  LET before(c, d) == c[1] < d[1] \/ (c[1] = d[1] /\ c[2] <= d[2])
  IN (uboot # Nowhere /\ cold /\ pins # "jtag" /\ CardImages # {}) =>
       LET c == CHOOSE c \in CardImages : \A d \in CardImages : before(c, d)
       IN uboot = [mode |-> boot_seq[c[1]].mode, n |-> c[2]]

----------------------------------------------------------------------------
(* What the sequencer keeps true from step to step.                        *)

(* Which image the loader came from: the one the two registers name, but   *)
(* while the sequencer tries others it is the first image of the boot      *)
(* device, which is where the registers point again if none is found.      *)
ImageInv ==
  /\ pc \in {"off", "rom", "fsbl", "entry", "try", "load", "start", "uboot",
            "linux", "dead"}
  /\ pc # "off" => media \in Medias
  /\ pc \in {"off", "rom", "fsbl", "entry", "try", "load", "dead"} =>
       uboot = Nowhere
  /\ pc \in {"start", "uboot", "linux"} /\ uboot # Nowhere =>
       uboot = [mode |-> BootMode, n |-> MULTI_BOOT] /\ uboot = fsbl
  /\ BOOT_MODE_USER.alt \/ MULTI_BOOT = 0
       \/ pc \in {"fsbl", "entry", "try", "dead"}
  /\ pc = "fsbl" => fsbl = [mode |-> BootMode, n |-> MULTI_BOOT]
  /\ pc = "fsbl" /\ ~BOOT_MODE_USER.alt /\ (pins = "jtag" \/ 0 \in Images(pins))
       => MULTI_BOOT = 0
  /\ pc \in {"entry", "try"} =>
       /\ ~BOOT_MODE_USER.alt /\ pins # "jtag"
       /\ 0 \in Images(pins) => fsbl = [mode |-> pins, n |-> 0]
  /\ pc = "load" /\ (BootMode = "jtag" \/ MULTI_BOOT \in Images(BootMode)) =>
       fsbl = [mode |-> BootMode, n |-> MULTI_BOOT]

(* No entry of the sequence names the flash before one names a card.       *)
FlashLast ==
  \A s \in BootSeqs : \A i, j \in 1 .. Len(s) :
    s[i].mode \in {"qspi24", "qspi32"} /\ s[j].mode \in {"sd0", "sd1"} => j < i

Before(c, d) == c[1] < d[1] \/ (c[1] = d[1] /\ c[2] <= d[2])
IsFirst(c) == c \in CardImages /\ \A d \in CardImages : Before(c, d)

(* The card images the sequencer has passed by were not there; the device  *)
(* it sets after a power-up is that of the first one that is.              *)
FirstInv ==
  /\ boot_seq \in BootSeqs
  /\ pc # "off" => eeprom \in Eeproms
  /\ pc \in {"entry", "try"} => boot_idx \in Nat \ {0}
  /\ pc = "entry" => \A d \in CardImages : d[1] >= boot_idx
  /\ pc = "try" => /\ boot_idx <= Len(boot_seq)
                   /\ todo \subseteq Attempts(boot_seq[boot_idx])
                   /\ \A d \in CardImages :
                        d[1] > boot_idx \/ (d[1] = boot_idx /\ d[2] \in todo)
  /\ (cold /\ pins # "jtag" /\ CardImages # {} /\ pc # "off") =>
       \/ ~BOOT_MODE_USER.alt /\ pc \in {"rom", "fsbl", "entry", "try", "dead"}
       \/ /\ BOOT_MODE_USER.alt
          /\ \E c \in CardImages :
               /\ IsFirst(c) /\ MULTI_BOOT = c[2]
               /\ BOOT_MODE_USER.mode = boot_seq[c[1]].mode
=============================================================================

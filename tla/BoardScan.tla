----------------------------- MODULE BoardScan -----------------------------
(***************************************************************************)
(* What U-Boot does with the board EEPROMs (recipes-bsp/u-boot/files/      *)
(* iveia-init.c), on top of the boot of Boot: misc_init_r reads the FRU    *)
(* images of the main board and the IO board, puts what they say into      *)
(* environment variables, and derives the Ethernet addresses from the      *)
(* serial numbers; bootm passes the variables to Linux in /chosen.  The    *)
(* environment starts as it was last saved, and the boards may have been   *)
(* changed since.  On a Zynq (not ZynqMP) the loader is another one, and   *)
(* U-Boot just starts.                                                     *)
(***************************************************************************)
EXTENDS Boot

CONSTANTS
  Socs,           \* CONFIG_SYS_BOARD: a subset of {"zynq", "zynqmp"}
  Forced,         \* pairs of a class and what a user sets its _forced
                  \* variable to
  SN_LEN,         \* characters of a serial number, and bits per character
  NIC_MAX,        \* the largest NIC specific half of an address, 0xFFFFFF
  IVEIA_OUI       \* the vendor half, as a number added to the other

Classes == {"mb", "io"}
Ports == 0 .. 3

ASSUME ScanAssumption ==
  /\ SN_LEN \in Nat \ {0} /\ 2 ^ SN_LEN \in Nat /\ NIC_MAX \in Nat
  /\ IVEIA_OUI \in Nat /\ IVEIA_OUI > NIC_MAX
  /\ \A e \in Eeproms, c \in Classes : e[c].sn \in Seq(Nat)
  /\ \A f \in Forced : f[2].sn \in Seq(Nat)

VARIABLES
  soc,            \* CONFIG_SYS_BOARD
  env, saved,     \* U-Boot's environment, and the one saveenv keeps
  chosen,         \* what /chosen tells Linux, if the device tree has it
  oldmacs         \* addresses were set already when a scan found others:
                  \* by the saved environment, or for a string since forced

svars == <<soc, env, saved, chosen, oldmacs>>

Unset == [pn |-> 0, sn |-> <<>>, set |-> FALSE]
Info(pn, sn) == [pn |-> pn, sn |-> sn, set |-> TRUE]

(* "none,none,Unknown": no ordinal in its part number, no serial number.   *)
DEFAULT_IPMI_STRING == Info(0, <<>>)
Malformed == Info(-1, <<>>)

(* board: the string of a class; ord: its _ord variable (0 if not set);    *)
(* forced: its _forced variable; eth: the addresses (0 if not set).        *)
EmptyEnv == [board  |-> [c \in Classes |-> Unset],
             ord    |-> [c \in Classes |-> 0],
             forced |-> [c \in Classes |-> Unset],
             eth    |-> [p \in Ports |-> 0]]

----------------------------------------------------------------------------
(* The string of a class: the forced one, if there is one, or the FRU's,   *)
(* and the default in place of one that is not printable or has not three  *)
(* fields.                                                                 *)
IpmiString(e, c) ==
  CASE e.forced[c] = Malformed -> DEFAULT_IPMI_STRING
    [] e.forced[c].set /\ e.forced[c] # Malformed -> e.forced[c]
    [] OTHER -> IF eeprom[c].printable
                THEN Info(eeprom[c].pn, eeprom[c].sn)
                ELSE DEFAULT_IPMI_STRING

(* A string whose part number has no ordinal leaves the old _ord variable. *)
set_ipmi_env_kept(e, c) ==
  IF e.board[c].set THEN e
  ELSE [e EXCEPT !.board[c] = IpmiString(e, c),
                 !.ord[c] = IF IpmiString(e, c).pn > 0
                            THEN IpmiString(e, c).pn ELSE @]

set_ipmi_env(e, c) ==
  [e EXCEPT !.board[c] = IpmiString(e, c),
            !.ord[c] = IF IpmiString(e, c).pn > 0
                       THEN IpmiString(e, c).pn ELSE @]

(* An EEPROM that does not answer, or whose image is not valid, leaves the *)
(* variables of its class as they are.                                     *)
board_scan_ipmi(e, c) ==
  IF eeprom[c].answers /\ eeprom[c].valid THEN set_ipmi_env(e, c) ELSE e

(* A serial number is SN_LEN characters of SN_LEN bits each, numbered as   *)
(* in CHARMAP: the next 2 ^ SN_LEN are the same in lower case, what is     *)
(* above is not in it.  Two addresses per number, and none for a number    *)
(* that is too large.                                                      *)
toupper(ch) == IF 2 ^ SN_LEN <= ch /\ ch < 2 * 2 ^ SN_LEN
               THEN ch - 2 ^ SN_LEN ELSE ch

Upper(sn) == [k \in 1 .. Len(sn) |-> toupper(sn[k])]

InMap(sn) == \A k \in DOMAIN sn : sn[k] < 2 ^ SN_LEN

NumericSn(sn) ==
  LET value[k \in 0 .. Len(sn)] ==
        IF k = 0 THEN 0 ELSE value[k - 1] * 2 ^ SN_LEN + sn[k]
  IN value[Len(sn)]

UpperMac(sn) ==
  IF Len(sn) # SN_LEN \/ ~InMap(sn) \/ 2 * NumericSn(sn) > NIC_MAX THEN 0
  ELSE IVEIA_OUI + 2 * NumericSn(sn)

sn_to_mac_single(sn) ==
  IF UpperMac(Upper(sn)) = 0 THEN 0 ELSE IVEIA_OUI + NumericSn(Upper(sn))

sn_to_mac(sn) == UpperMac(Upper(sn))

(* The addresses for the ports: the main board's come first; on a ZynqMP   *)
(* with one serial number the last two ports get them.                     *)
Macs(mb, io) ==
  LET pair(p, mac) == [q \in Ports |-> IF mac # 0 /\ q \in {p, p + 1}
                                       THEN mac + (q - p) ELSE 0]
      one == IF mb # 0 THEN mb ELSE io
  IN CASE soc = "zynq" -> pair(0, one)
       [] soc # "zynq" /\ mb # 0 /\ io # 0 ->
            [q \in Ports |-> IF q < 2 THEN pair(0, mb)[q] ELSE pair(2, io)[q]]
       [] OTHER -> pair(2, one)

(* An address that is set stays.                                           *)
set_mac_addrs(e) ==
  LET macs == Macs(sn_to_mac(e.board["mb"].sn), sn_to_mac(e.board["io"].sn))
  IN [e EXCEPT !.eth = [p \in Ports |-> IF e.eth[p] # 0 THEN e.eth[p]
                                        ELSE macs[p]]]

iv_ipmi_scan(e) ==
  set_mac_addrs(board_scan_ipmi(board_scan_ipmi(e, "mb"), "io"))

(* What /chosen gets: the main board's variables twice, the backplane's    *)
(* never.  A device tree without the node is left as it is.                *)
iv_ipmi_chosen(e) == [node |-> TRUE, board |-> e.board, ord |-> e.ord]

NoChosen ==
  [node |-> FALSE, board |-> EmptyEnv.board, ord |-> EmptyEnv.ord]

----------------------------------------------------------------------------
misc_init_r ==
  /\ pc = "start" /\ pc' = "uboot"
  /\ env' = iv_ipmi_scan(saved)
  /\ oldmacs' = (saved.eth # EmptyEnv.eth)
  /\ UNCHANGED <<pins, boot_seq, media, eeprom, BOOT_MODE_USER, MULTI_BOOT,
                 boot_idx, todo, fsbl, uboot, cold, starts, soc, saved,
                 chosen>>

(* "rescan for ipmi updates after overlay successfully applied"            *)
fdt_overlay_apply_verbose ==
  /\ pc = "uboot" /\ env' = iv_ipmi_scan(env)
  /\ oldmacs' = (oldmacs \/ env'.board # env.board)
  /\ UNCHANGED <<bvars, soc, saved, chosen>>

bootm ==
  /\ pc = "uboot" /\ pc' = "linux"
  /\ chosen' \in {iv_ipmi_chosen(env), NoChosen}
  /\ UNCHANGED <<pins, boot_seq, media, eeprom, BOOT_MODE_USER, MULTI_BOOT,
                 boot_idx, todo, fsbl, uboot, cold, starts, soc, env, saved,
                 oldmacs>>

(* The user at the prompt.                                                 *)
saveenv ==
  /\ pc = "uboot" /\ saved' = env
  /\ UNCHANGED <<bvars, soc, env, chosen, oldmacs>>

setenv_forced(c, v) ==
  /\ pc = "uboot" /\ env' = [env EXCEPT !.forced[c] = v]
  /\ UNCHANGED <<bvars, soc, saved, chosen, oldmacs>>

(* Nothing but the saved environment outlives U-Boot and Linux.            *)
Forget == /\ env' = EmptyEnv /\ chosen' = NoChosen
          /\ oldmacs' = FALSE
          /\ UNCHANGED <<soc, saved>>

ScanInit ==
  /\ BootInit /\ soc \in Socs
  /\ soc = "zynq" =>
       pins = "jtag" /\ boot_seq = CHOOSE s \in BootSeqs : TRUE
  /\ env = EmptyEnv /\ saved = EmptyEnv
  /\ chosen = NoChosen /\ oldmacs = FALSE

ZynqStart ==
  /\ soc = "zynq" /\ pc = "rom" /\ pc' = "start"
  /\ UNCHANGED <<pins, boot_seq, media, eeprom, BOOT_MODE_USER, MULTI_BOOT,
                 boot_idx, todo, fsbl, uboot, cold, starts, svars>>

SystemStep == \/ soc = "zynqmp" /\ FsblStep /\ UNCHANGED svars
              \/ ZynqStart
              \/ misc_init_r

ScanNext ==
  \/ SystemStep
  \/ (PowerOn \/ PowerOff \/ Reboot) /\ Forget
  \/ fdt_overlay_apply_verbose \/ bootm \/ saveenv
  \/ \E f \in Forced : setenv_forced(f[1], f[2])

(* The processor goes on by itself until U-Boot has its prompt.            *)
ScanSpec == /\ ScanInit /\ [][ScanNext]_<<bvars, svars>>
            /\ WF_<<bvars, svars>>(SystemStep)

----------------------------------------------------------------------------
(* Every start comes to U-Boot's prompt, or finds no image: the resets of  *)
(* the sequencer come to an end (iv_z8_sequence_boot.c 247-250).           *)
BootSettles == pc = "rom" ~> pc \in {"uboot", "dead", "off"}

(* What Linux is told of a board that can be read is what that board or    *)
(* the user says of it, with the ordinal of that very part number, and     *)
(* never what was saved from another board; without an ordinal to put in   *)
(* its place an old _ord variable stays (iveia-init.c 209-295, 418-474).   *)
LinuxToldTruth ==
  pc = "linux" /\ chosen.node =>
    \A c \in Classes : eeprom[c].answers /\ eeprom[c].valid =>
      LET said == chosen.board[c]
      IN /\ said \in {IpmiString([env EXCEPT !.forced[c] = v], c) :
                         v \in {Unset} \cup {f[2] : f \in Forced}}
         /\ said.pn > 0 => chosen.ord[c] = said.pn

(* No two ports have the same address, when the serial numbers of the two  *)
(* boards differ in more than case and one scan set them all: an address   *)
(* that is set is kept, whatever ports the boards' addresses now go to     *)
(* (iveia-init.c 304-327, 345-411).                                        *)
MacsUnique ==
  (~oldmacs /\ Upper(env.board["mb"].sn) # Upper(env.board["io"].sn)) =>
    \A p, q \in Ports : (p # q /\ env.eth[p] # 0) => env.eth[p] # env.eth[q]

----------------------------------------------------------------------------
(* What the scans keep true from step to step.                             *)

ZynqPins == soc = "zynq" => pins = "jtag"

EnvShape(e) ==
  /\ DOMAIN e = {"board", "ord", "forced", "eth"}
  /\ DOMAIN e.board = Classes /\ DOMAIN e.ord = Classes
  /\ DOMAIN e.forced = Classes
  /\ \A c \in Classes : e.forced[c] \in {Unset} \cup {f[2] : f \in Forced}

(* The variables of a class say what its EEPROM or the user says.          *)
Truth(board, ord, c) ==
  eeprom[c].answers /\ eeprom[c].valid =>
    /\ board[c] \in {IpmiString([env EXCEPT !.forced[c] = v], c) :
                        v \in {Unset} \cup {f[2] : f \in Forced}}
    /\ board[c].pn > 0 => ord[c] = board[c].pn

ToldInv ==
  /\ EnvShape(env) /\ EnvShape(saved)
  /\ pc = "uboot" => \A c \in Classes : Truth(env.board, env.ord, c)
  /\ pc = "linux" /\ chosen.node =>
       \A c \in Classes : Truth(chosen.board, chosen.ord, c)

(* The addresses of one scan are those of the boards it found, and a scan  *)
(* that finds the same boards again changes none of them.                  *)
MacInv ==
  /\ pc # "off" => eeprom \in Eeproms
  /\ \A c \in Classes : /\ env.board[c].sn \in Seq(Nat)
                        /\ saved.board[c].sn \in Seq(Nat)
  /\ pc \notin {"uboot", "linux"} => env = EmptyEnv
  /\ ~oldmacs /\ pc \in {"uboot", "linux"} =>
       env.eth = Macs(sn_to_mac(env.board["mb"].sn),
                      sn_to_mac(env.board["io"].sn))
=============================================================================

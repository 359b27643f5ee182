------------------------------ MODULE FruUboot ------------------------------
(***************************************************************************)
(* ivfru under U-Boot (recipes-bsp/u-boot/files/ivfru.c, ivfru_plat.c),    *)
(* beside ivfru under Linux: the same ivfru_common.c, on other terms.  The *)
(* location is memory, which the commands edit in place and a reset loses; *)
(* an EEPROM is written byte by byte, its write-protect is a GPIO that is  *)
(* requested and freed again, every error is looked at and ends the        *)
(* command where it is; a flash is written with "sf update", which keeps   *)
(* what it does not write.                                                 *)
(*                                                                         *)
(* A reset changes from one system to the other, and both work on the same *)
(* boards.                                                                 *)
(***************************************************************************)
EXTENDS Fru

VARIABLES
  plat,     \* the system that runs: "linux" or "uboot"
  held,     \* boards whose write-protect GPIO is still requested
  err,      \* the error ivfru_write_i2c returned to its caller
  told      \* the board whose write has just been reported a success

uvars == <<plat, held, err, told>>

----------------------------------------------------------------------------
(* The commands on memory.                                                 *)

uboot_create(c) == do_ivfru_create(c)

(* A create that refuses the length of its k-th field has by then replaced *)
(* the header, the length and date bytes and the fields before it.         *)
XcreateUpTo(lens, d, k) ==
  LET size == lens[1] + lens[2] + lens[3] + lens[4] + 13
      fields[j \in 0 .. 4] ==
        IF j = 0 THEN <<>> ELSE fields[j - 1] \o Predefined(lens[j])
  IN  CH_DEFAULT \o <<1, ((size + 7) \div 8) % 256, 0>>
        \o date_to_ipmi_time(d) \o fields[k - 1]

uboot_create_refused(c) ==
  /\ run = Idle /\ date2dmy(c.date)
  /\ \E k \in 1 .. 4 :
       /\ ~ fru_make_tl_byte(c.lens[k])
       /\ \A j \in 1 .. k - 1 : fru_make_tl_byte(c.lens[j])
       /\ file' = Over(XcreateUpTo(c.lens, c.date, k), file)
  /\ made' = Unknown
  /\ UNCHANGED <<i2c, pins, board, wp, run, stored, bare>>

uboot_add(index, data) == do_ivfru_add(index, data)
uboot_rm(index) == do_ivfru_rm(index)
uboot_fix == do_ivfru_fix

(* ivfru_plat_write_to_location has nothing to do.                         *)
uboot_store ==
  /\ run.pc = "save"
  /\ file' = run.img /\ made' = run.made /\ run' = Idle
  /\ UNCHANGED <<i2c, pins, board, wp, stored, bare>>

(* A read has its first 14 bytes in memory before it knows the size of the *)
(* rest, and leaves them there when it fails.  A length byte of 0 makes    *)
(* that size negative, which an EEPROM's read refuses; a flash's takes it, *)
(* and may fill some of the memory behind before it fails.                 *)
uboot_read(b) ==
  /\ ReadSize(ByteOf(board[b], 10)) >= 6
  /\ do_ivfru_read(b)

uboot_read_negative(b) ==
  /\ run = Idle /\ ReadSize(ByteOf(board[b], 10)) < 6
  /\ \E n \in {14} \cup {k \in TornAt : k > 14 /\ b \notin i2c} :
       file' = Over([k \in 1 .. n |-> ByteOf(board[b], k)], file)
  /\ made' = Unknown
  /\ UNCHANGED <<i2c, pins, board, wp, run, stored, bare>>

uboot_read_fails ==
  /\ run.pc = "save" /\ run.cmd = "read"
  /\ file' = Over(SubSeq(run.img, 1, 14), file) /\ made' = Unknown
  /\ run' = Idle
  /\ UNCHANGED <<i2c, pins, board, wp, stored, bare>>

uboot_write(b) == do_ivfru_write(b)

----------------------------------------------------------------------------
(* ivfru_plat_write_to_board: the GPIO, the EEPROM and the flash.          *)

(* gpio_request fails on a GPIO that is still requested, and may fail; so  *)
(* may gpio_direction_output, and then the GPIO stays requested.  A board  *)
(* without a pin is written at once.                                       *)
gpio_deassert ==
  /\ run.pc = "wp_off" /\ run.b \notin held
  /\ held' = held \cup ({run.b} \cap pins)
  /\ \/ wp' = wp \ {run.b} /\ run' = [run EXCEPT !.pc = "eeprog"]
     \/ run.b \in pins /\ wp' = wp /\ run' = Idle
  /\ err' = FALSE /\ told' = "none"
  /\ UNCHANGED <<i2c, pins, file, board, made, stored, bare>>

gpio_request_fails ==
  /\ run.pc = "wp_off" /\ run.b \in pins /\ run' = Idle
  /\ told' = "none"
  /\ UNCHANGED <<i2c, pins, file, board, wp, made, stored, bare, held, err>>

ivfru_write_i2c ==
  /\ \/ WriteI2c /\ err' = FALSE
     \/ (WriteI2cFails \/ WriteI2cNothing) /\ err' = TRUE
  /\ told' = "none" /\ held' = held

(* An error of gpio_set_value leaves the board open and the GPIO taken; of *)
(* gpio_free, the GPIO alone.                                              *)
gpio_assert_forgets ==
  /\ run.pc = "wp_on" /\ run' = Idle
  /\ wp' = wp \cup {run.b} /\ bare' = bare \ {run.b}
  /\ held' = held \ {run.b} /\ told' = run.b /\ err' = FALSE
  /\ UNCHANGED <<i2c, pins, file, board, made, stored>>

gpio_assert ==
  /\ run.pc = "wp_on" /\ run' = Idle /\ err' = FALSE
  /\ \/ /\ run.b \in pins
        /\ wp' = wp \cup {run.b} /\ bare' = bare \ {run.b}
        /\ \/ held' = held \ {run.b} /\ told' = IF err THEN "none" ELSE run.b
           \/ held' = held /\ told' = "none"
     \/ /\ run.b \in pins
        /\ wp' = wp /\ bare' = bare \cup {run.b}
        /\ held' = held /\ told' = "none"
     \/ /\ run.b \notin pins
        /\ told' = IF err THEN "none" ELSE run.b
        /\ UNCHANGED <<wp, bare, held>>
  /\ UNCHANGED <<i2c, pins, file, board, made, stored>>

(* "sf probe" and "sf read" may fail before anything is written.           *)
ivfru_write_qspi ==
  /\ run.pc = "flashcp" /\ run' = Idle
  /\ \/ /\ board' = [board EXCEPT ![run.b] = Over(run.img, @)]
        /\ stored' = [stored EXCEPT ![run.b] =
                        [img |-> run.img, made |-> run.made]]
        /\ told' = run.b
     \/ /\ \E k \in TornAt : k < Len(run.img) /\
             board' = [board EXCEPT ![run.b] = SubSeq(run.img, 1, k)]
        /\ stored' = [stored EXCEPT ![run.b] = None] /\ told' = "none"
     \/ told' = "none" /\ UNCHANGED <<board, stored>>
  /\ UNCHANGED <<i2c, pins, file, wp, made, bare, held, err>>

(* A reset, or Linux shutting down, in the middle of a command or not: the *)
(* other system starts, with a location of its own.                        *)
Restart ==
  /\ plat' \in {"linux", "uboot"} \ {plat}
  /\ file' = <<>> /\ made' = Unknown /\ run' = Idle
  /\ held' = {} /\ err' = FALSE /\ told' = "none"
  /\ bare' = bare \cup (IF run.pc \in {"eeprog", "wp_on"} THEN {run.b} ELSE {})
  /\ UNCHANGED <<i2c, pins, board, wp, stored>>

----------------------------------------------------------------------------
UbootStep ==
  \/ /\ \/ \E c \in Creates : uboot_create(c) \/ uboot_create_refused(c)
        \/ \E index \in Indexes, data \in AddData : uboot_add(index, data)
        \/ \E index \in Indexes : uboot_rm(index)
        \/ uboot_fix \/ uboot_store \/ uboot_read_fails
        \/ \E b \in Boards :
             uboot_read(b) \/ uboot_read_negative(b) \/ uboot_write(b)
        \/ \E s \in Supplied : Supply(s)
     /\ told' = "none" /\ UNCHANGED <<held, err>>
  \/ ivfru_write_i2c \/ ivfru_write_qspi
  \/ gpio_deassert \/ gpio_request_fails \/ gpio_assert

UbootInit ==
  /\ FruInit /\ plat \in {"linux", "uboot"}
  /\ held = {} /\ err = FALSE /\ told = "none"

UbootNext == \/ plat = "linux" /\ FruNext /\ UNCHANGED uvars
             \/ plat = "uboot" /\ UbootStep /\ plat' = plat
             \/ Restart

UbootSpec == UbootInit /\ [][UbootNext]_<<fvars, uvars>>

----------------------------------------------------------------------------
(* "Returns IVFRU_RET_SUCCESS iff the data was written successfully"       *)
(* (ivfru_plat.c 104-129, 287-418): when U-Boot's write reports success    *)
(* the board holds that image, whole and valid, and is protected again if  *)
(* it has a pin, whatever failed or was cut off before.                    *)
SuccessIsTrue ==
  told # "none" =>
    /\ stored[told] # None /\ ivfru_validate(stored[told].img)
    /\ stored[told].img = SubSeq(board[told], 1, Len(stored[told].img))
    /\ told \in pins => told \in wp

----------------------------------------------------------------------------
(* What every step of either system keeps true.                            *)

RunPcs == {"idle", "save", "fwrite", "wp_off", "eeprog", "wp_on", "flashcp"}
Cmds == {"none", "create", "add", "rm", "fix", "read", "write"}
Commands(img, m) == [pc : RunPcs, cmd : Cmds, b : Boards \cup {"none"},
                     img : {img}, made : {m}]

(* A command that writes a board has a whole, valid image in its buffer.   *)
RunShape ==
  /\ run \in Commands(run.img, run.made)
  /\ run.pc \in {"wp_off", "eeprog", "wp_on", "flashcp"} =>
       /\ run.cmd = "write" /\ run.b \in Boards /\ Exact(run.img)
       /\ run.b \in i2c <=> run.pc # "flashcp"
  /\ run.cmd = "read" => run.b \in Boards

(* What was last written is at the start of the storage, whole.            *)
StoredWhole(b) ==
  stored[b] # None =>
    /\ Exact(stored[b].img) /\ Len(stored[b].img) <= Len(board[b])
    /\ stored[b].img = SubSeq(board[b], 1, Len(stored[b].img))

BoardsInv ==
  /\ board \in [Boards -> Seq(Byte)] /\ DOMAIN stored = Boards
  /\ \A b \in Boards : StoredWhole(b)

WpOpen ==
  /\ pins \subseteq i2c
  /\ pins \ wp \subseteq
       bare \cup (IF run.pc \in {"eeprog", "wp_on"} THEN {run.b} ELSE {})

(* What is known of an image is so, unless it was read in part (ReadBack)  *)
(* or has an empty pre-defined field (Predefined).                         *)
Truthful(img, m) ==
  (m.known /\ \A k \in 1 .. 4 : m.lens[k] # 0) =>
    \/ Faithful(img, m)
    \/ Eights(m) = 64 /\ ~ Complete(img) /\ ~ fru_is_old_format(img)

TruthInv ==
  /\ Truthful(file, made) /\ Truthful(run.img, run.made)
  /\ \A b \in Boards : Truthful(stored[b].img, stored[b].made)
  /\ run.pc = "fwrite" => ~ made.known

FruInv == RunShape /\ BoardsInv /\ WpOpen /\ ReadBack

(* In U-Boot, a write that has come to its last step without an error has  *)
(* been stored.                                                            *)
TellInv ==
  /\ err \in BOOLEAN
  /\ plat = "linux" => told = "none"
  /\ (plat = "uboot" /\ run.pc = "wp_on") => err \/ stored[run.b] # None
  /\ told # "none" => /\ told \in Boards /\ stored[told] # None
                      /\ told \in pins => told \in wp
=============================================================================

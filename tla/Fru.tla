--------------------------------- MODULE Fru ---------------------------------
(***************************************************************************)
(* The ivfru command: recipes-bsp/shared/files/ivfru_common.c over         *)
(* recipes-bsp/ivfru/files/ivfru_plat.c and ivfru.c.  A FRU image (common  *)
(* header, board information area of type-length fields, padding and       *)
(* checksum) is created and edited in a file, and copied to and from the   *)
(* storage of a board.  Each command is a process that works on a private  *)
(* buffer, then saves a file or writes a board step by step, and may be    *)
(* killed between any two steps.  A command that refuses its arguments or  *)
(* its image changes nothing and is no action.                             *)
(*                                                                         *)
(* Bytes are 0 .. 255 (char is unsigned on the targets) and positions are  *)
(* counted from 1.  eeprog, flashcp and the file system are external.      *)
(***************************************************************************)
EXTENDS Integers, Sequences, FiniteSets

CONSTANTS
  Boards,          \* boards with storage
  Creates,         \* arguments of create: lengths of the four fields, date
  AddData,         \* data of add
  Indexes,         \* indexes of add and rm
  Supplied,        \* images the user brings, [img, made]
  MaxCustom,       \* bound on the custom fields
  TornAt,          \* how far an interrupted write may have come
  Blanks           \* what is in the storage of a board nobody has written

Byte == 0 .. 255

ASSUME FruAssumption ==
  /\ Boards # {} /\ Indexes \subseteq Int /\ MaxCustom \in Nat
  /\ TornAt \subseteq Nat /\ AddData \subseteq Seq(Byte)
  /\ Blanks \subseteq Seq(Byte)
  /\ Creates \subseteq [lens : [1 .. 4 -> Nat], date : Int \X Int \X Int]

VARIABLES
  i2c,      \* boards whose storage is an I2C EEPROM, not QSPI flash
  pins,     \* those among them that have a write-protect pin
  file,     \* the bytes at <location>
  board,    \* the bytes of each board's storage; those beyond are 255
  wp,       \* boards whose write-protect is asserted
  run,      \* the running command: next step, buffer, board
  made,     \* what the file should say: the fields given to the commands
  stored,   \* per board, the image and fields last written, or None
  bare      \* boards whose protection a kill or a failing pin left off

fvars == <<i2c, pins, file, board, wp, run, made, stored, bare>>

Unknown == [known |-> FALSE, lens |-> <<>>, date |-> <<>>, custom |-> <<>>]
None == [img |-> <<>>, made |-> Unknown]
Idle == [pc |-> "idle", cmd |-> "none", b |-> "none", img |-> <<>>,
         made |-> Unknown]

-----------------------------------------------------------------------------
(* Dates, in minutes since 1996 in three bytes, low byte first.            *)

IpmiTimes == 256 * 256 * 256
IsLeap(y) == y % 400 = 0 \/ (y % 4 = 0 /\ y % 100 # 0)
DaysPerMonth == <<31, 28, 31, 30, 31, 30, 31, 31, 30, 31, 30, 31>>
DaysIn(m, y) == DaysPerMonth[m] + IF IsLeap(y) /\ m = 2 THEN 1 ELSE 0
Junk == 0   \* a byte nobody has set

date2dmy(d) ==
  d[3] >= 1996 /\ d[2] \in 1 .. 12 /\ d[1] \in 1 .. DaysIn(d[2], d[3])

(* Days before a year, and in it before a month.                           *)
YearStart(y) ==
  365 * (y - 1996) + Cardinality({k \in 1996 .. y - 1 : IsLeap(k)})

MonthStart(m, y) ==
  LET days[k \in 1 .. 12] ==
        IF k = 1 THEN 0 ELSE days[k - 1] + DaysPerMonth[k - 1]
  IN  days[m] + IF m > 2 /\ IsLeap(y) THEN 1 ELSE 0

minutes(d) == 1440 * (YearStart(d[3]) + MonthStart(d[2], d[3]) + d[1] - 1)

(* 01-01-1996 leaves the bytes unset: its error is not looked at.          *)
date_to_ipmi_time(d) ==
  LET t == minutes(d) % IpmiTimes
  IN  IF t = 0 THEN <<Junk, Junk, Junk>>
      ELSE <<t % 256, (t \div 256) % 256, t \div 65536>>

(* Whole months are taken off from January 1996 on, while there are.       *)
ipmi_time_to_date(t) ==
  LET total_days == (t[1] + 256 * t[2] + 65536 * t[3]) \div 1440
      year == CHOOSE y \in 1996 .. 2028 :
                YearStart(y) <= total_days /\ total_days < YearStart(y + 1)
      rest == total_days - YearStart(year)
      month == CHOOSE m \in 1 .. 12 :
                 /\ MonthStart(m, year) <= rest
                 /\ rest < MonthStart(m, year) + DaysIn(m, year)
  IN  <<rest - MonthStart(month, year) + 1, month, year>>

-----------------------------------------------------------------------------
(* Images.                                                                 *)

CH_DEFAULT == <<1, 0, 0, 1, 0, 0, 0, 254>>
CH_OLD == <<1, 0, 0, 8, 0, 0, 0, 247>>
FRU_END_MARKER == 193

Fill(n, byte) == [k \in 1 .. n |-> byte]

fru_calculate_checksum(s) ==
  LET mid(r) == (r[1] + r[2]) \div 2
      sum[r \in (1 .. Len(s) + 1) \X (0 .. Len(s))] ==
        IF r[1] > r[2] THEN 0 ELSE IF r[1] = r[2] THEN s[r[1]]
        ELSE sum[<<r[1], mid(r)>>] + sum[<<mid(r) + 1, r[2]>>]
  IN  (256 - (sum[<<1, Len(s)>>] % 256)) % 256

fru_make_tl_byte_1(len) == len <= 63

(* "field length greater than maximum allowed(63)", "cannot be 1".         *)
fru_make_tl_byte(len) == len <= 63 /\ len # 1

fru_area_format_field(data) == <<192 + Len(data)>> \o data
fru_tl_get_length(byte) == IF byte = FRU_END_MARKER THEN 0 ELSE byte % 64

fru_is_old_format(img) == SubSeq(img, 1, 8) = CH_OLD

(* Bytes of the board information area; its length byte counts eights      *)
(* except in the old format.                                               *)
AreaLen(img) == IF fru_is_old_format(img) THEN img[10] ELSE 8 * img[10]
Complete(img) ==
  img \in Seq(Byte) /\ Len(img) >= 14 /\ Len(img) >= 8 + AreaLen(img)
Area(img) == SubSeq(img, 9, 8 + AreaLen(img))
fru_get_total_length(img) == 8 + 8 * img[10]

(* Positions of the type-length bytes of an area, the end marker's last.   *)
Walk(bia) ==
  LET from[p \in Nat \ {0}] ==
        IF p > Len(bia) \/ bia[p] = FRU_END_MARKER THEN <<p>>
        ELSE <<p>> \o from[p + 1 + fru_tl_get_length(bia[p])]
  IN  from[7]

EndOf(bia) == Walk(bia)[Len(Walk(bia))]

ivfru_bia_validate(bia) ==
  LET w == Walk(bia)
      e == EndOf(bia)
  IN  /\ Len(bia) >= 6 /\ bia[1] = 1 /\ bia[3] = 0
      /\ Len(w) >= 6 /\ bia[w[5]] = 0
      /\ e < Len(bia) /\ \A k \in e + 1 .. Len(bia) - 1 : bia[k] = 0
      /\ bia[Len(bia)] = fru_calculate_checksum(SubSeq(bia, 1, Len(bia) - 1))

(* An image shorter than its length byte says is read past its end, and    *)
(* taken to be refused.                                                    *)
ivfru_validate(img) ==
  /\ Complete(img)
  /\ \/ fru_is_old_format(img)
     \/ /\ img[1] = 1 /\ img[4] = 1
        /\ img[8] = fru_calculate_checksum(SubSeq(img, 1, 7))
  /\ ivfru_bia_validate(Area(img))

Editable(img) == ivfru_validate(img) /\ ~ fru_is_old_format(img)

(* The whole image and nothing behind it; those of the old format have an  *)
(* area of 64 bytes (ivfru_common.c:651).                                  *)
Exact(img) ==
  /\ ivfru_validate(img) /\ Len(img) = 8 + AreaLen(img)
  /\ fru_is_old_format(img) => img[10] = 64

-----------------------------------------------------------------------------
(* What an image should say: the lengths of the pre-defined fields, the    *)
(* date and the custom fields that the commands were given.                *)

WithCustom(m, c) ==
  [known |-> TRUE, lens |-> m.lens, date |-> m.date, custom |-> c]

(* Bytes of an area without its padding, and its length byte.              *)
Size(m) ==
  LET size[k \in 0 .. Len(m.custom)] ==
        IF k = 0 THEN 13 + m.lens[1] + m.lens[2] + m.lens[3] + m.lens[4]
        ELSE size[k - 1] + 1 + Len(m.custom[k])
  IN  size[Len(m.custom)]

Eights(m) == (Size(m) + 7) \div 8

(* The image says so; the date only if IPMI can express it.                *)
Says(img, m) ==
  LET bia == Area(img)
      w   == Walk(bia)
  IN  /\ m.lens = [k \in 1 .. 4 |-> fru_tl_get_length(bia[w[k]])]
      /\ m.custom = [k \in 1 .. Len(w) - 6 |->
                       SubSeq(bia, w[k + 5] + 1, w[k + 6] - 1)]
      /\ minutes(m.date) \in 1 .. IpmiTimes - 1 =>
           ipmi_time_to_date(SubSeq(bia, 4, 6)) = m.date

(* It is whole, and 512 bytes long only if it has to be (see ReadBack).    *)
Faithful(img, m) ==
  /\ Exact(img) /\ Says(img, m)
  /\ img[10] = 64 => fru_is_old_format(img) \/ Eights(m) = 64

ASSUME SuppliedAssumption ==
  \A s \in Supplied : s.made.known => Faithful(s.img, s.made)

-----------------------------------------------------------------------------

(* "Fix padding, length, checksum": count is the size the code computed    *)
(* for the fields, the buffer is cut at the end it implies.                *)
Finish(head, fields, count) ==
  LET n   == ((6 + count + 1 + 7) \div 8) * 8
      bia == <<head[9], (n \div 8) % 256>> \o SubSeq(head, 11, 14) \o fields
             \o Fill(n - 6 - count - 1, 0)
      sum == fru_calculate_checksum(SubSeq(bia, 1, n - 1))
  IN  SubSeq(SubSeq(head, 1, 8) \o bia \o <<sum>>, 1, 8 + n)

-----------------------------------------------------------------------------
(* ivfru_xcreate, ivfru_add, ivfru_rm and ivfru_fix: the image they make.  *)

Text(n) == Fill(n, 65)

(* A field of length 0 goes to fru_area_format_field with its type (3) for *)
(* its length: four bytes where one was counted.                           *)
Predefined(n) ==
  IF n = 0 THEN <<3, 0, Junk, Junk>> ELSE fru_area_format_field(Text(n))

ivfru_xcreate(lens, d) ==
  Finish(CH_DEFAULT \o <<1, 0, 0>> \o date_to_ipmi_time(d),
         Predefined(lens[1]) \o Predefined(lens[2]) \o Predefined(lens[3])
           \o Predefined(lens[4]) \o <<0, FRU_END_MARKER>>,
         lens[1] + lens[2] + lens[3] + lens[4] + 6)

(* Where the field goes: a negative index, or one beyond the fields, means *)
(* the end.                                                                *)
AddPosOneOff(bia, index) ==
  LET w == Walk(bia)
  IN  IF index < 0 \/ 7 + index > Len(w) THEN EndOf(bia) ELSE w[7 + index]

AddPos(bia, index) ==
  LET w == Walk(bia)
  IN  IF index < 0 \/ 6 + index > Len(w) THEN EndOf(bia) ELSE w[6 + index]

ivfru_add(img, index, data) ==
  LET bia == Area(img)
      p   == AddPos(bia, index)
      fields == SubSeq(bia, 7, p - 1) \o fru_area_format_field(data)
                \o SubSeq(bia, p, EndOf(bia))
  IN  Finish(SubSeq(img, 1, 14), fields, Len(fields))

ivfru_rm(img, index) ==
  LET bia == Area(img)
      w   == Walk(bia)
      fields == SubSeq(bia, 7, w[6 + index] - 1)
                \o SubSeq(bia, w[7 + index], EndOf(bia))
  IN  Finish(SubSeq(img, 1, 14), fields, Len(fields))

(* A file cut short is completed with what lies behind the buffer.         *)
ivfru_fix(img) ==
  LET n   == img[10]
      bia == [k \in 1 .. n |-> IF 8 + k <= Len(img) THEN img[8 + k] ELSE Junk]
      new == [bia EXCEPT ![2] = n \div 8]
  IN  CH_DEFAULT \o SubSeq(new, 1, n - 1)
        \o <<fru_calculate_checksum(SubSeq(new, 1, n - 1))>>

-----------------------------------------------------------------------------
(* The commands that end by saving the file.                               *)

Start(cmd, b, img, m) ==
  /\ run' = [pc |-> "save", cmd |-> cmd, b |-> b, img |-> img, made |-> m]
  /\ UNCHANGED <<i2c, pins, file, board, wp, made, stored, bare>>

do_ivfru_create(c) ==
  /\ run = Idle
  /\ date2dmy(c.date)
  /\ \A k \in 1 .. 4 : fru_make_tl_byte(c.lens[k])
  /\ Start("create", "none", ivfru_xcreate(c.lens, c.date),
           [known |-> TRUE, lens |-> c.lens, date |-> c.date, custom |-> <<>>])

InsertAt(s, index, x) ==
  LET k == IF index < 0 \/ index > Len(s) THEN Len(s) ELSE index
  IN  SubSeq(s, 1, k) \o <<x>> \o SubSeq(s, k + 1, Len(s))

(* Fields that do not fit the length byte make an image that says nothing. *)
do_ivfru_add(index, data) ==
  /\ run = Idle /\ Editable(file)
  /\ Len(Walk(Area(file))) - 6 < MaxCustom
  /\ fru_make_tl_byte(Len(data))
  /\ Start("add", "none", ivfru_add(file, index, data),
           LET m == WithCustom(made, InsertAt(made.custom, index, data))
           IN  IF made.known /\ Eights(m) <= 255 THEN m ELSE Unknown)

do_ivfru_rm(index) ==
  /\ run = Idle /\ Editable(file)
  /\ index >= 0 /\ 6 + index < Len(Walk(Area(file)))
  /\ Start("rm", "none", ivfru_rm(file, index),
           IF made.known
           THEN WithCustom(made, SubSeq(made.custom, 1, index)
                  \o SubSeq(made.custom, index + 2, Len(made.custom)))
           ELSE Unknown)

do_ivfru_fix ==
  /\ run = Idle /\ Len(file) >= 14 /\ fru_is_old_format(file)
  /\ Start("fix", "none", ivfru_fix(file), made)

(* The length byte 0x40 is taken for the old format's 64 bytes.            *)
ReadSizeNewOnly(byte) == 8 * byte
ReadSize(byte) == IF byte = 64 THEN 64 ELSE 8 * byte

ByteOf(s, k) == IF k <= Len(s) THEN s[k] ELSE 255

do_ivfru_read(b) ==
  /\ run = Idle
  /\ LET n == ReadSize(ByteOf(board[b], 10))
     IN  /\ b \in i2c \/ n >= 6
         /\ Start("read", b, [k \in 1 .. 8 + n |-> ByteOf(board[b], k)],
                  stored[b].made)

(* ivfru_plat_write_to_location: fopen truncates, fwrite writes.           *)
SaveOpen ==
  /\ run.pc = "save"
  /\ file' = <<>> /\ made' = Unknown
  /\ run' = [run EXCEPT !.pc = "fwrite"]
  /\ UNCHANGED <<i2c, pins, board, wp, stored, bare>>

SaveWrite ==
  /\ run.pc = "fwrite"
  /\ file' = run.img /\ made' = run.made
  /\ run' = Idle
  /\ UNCHANGED <<i2c, pins, board, wp, stored, bare>>

SaveFails ==
  /\ run.pc = "fwrite"
  /\ \E k \in TornAt : k < Len(run.img) /\ file' = SubSeq(run.img, 1, k)
  /\ run' = Idle
  /\ UNCHANGED <<i2c, pins, board, wp, made, stored, bare>>

-----------------------------------------------------------------------------
(* ivfru_write, and ivfru_plat_write_to_board.                             *)

StartWrite(b) ==
  /\ run' = [pc |-> IF b \in i2c THEN "wp_off" ELSE "flashcp", cmd |-> "write",
             b |-> b, img |-> SubSeq(file, 1, fru_get_total_length(file)),
             made |-> made]
  /\ UNCHANGED <<i2c, pins, file, board, wp, made, stored, bare>>

do_ivfru_write_unchecked(b) ==
  /\ run = Idle /\ Complete(file) /\ ~ fru_is_old_format(file)
  /\ StartWrite(b)

do_ivfru_write(b) ==
  /\ run = Idle /\ Editable(file)
  /\ StartWrite(b)

(* The pin is driven by the shell's echo, and whether that worked is not   *)
(* looked at: the pin may stay as it is.  A board without a pin goes       *)
(* through both steps with nothing done.                                   *)
WpOff ==
  /\ run.pc = "wp_off"
  /\ wp' \in {wp, wp \ {run.b}}
  /\ run' = [run EXCEPT !.pc = "eeprog"]
  /\ UNCHANGED <<i2c, pins, file, board, made, stored, bare>>

(* eeprog overwrites the first bytes; whether it did is not looked at.  An *)
(* EEPROM that is still protected keeps its bytes.                         *)
Over(new, old) == new \o SubSeq(old, Len(new) + 1, Len(old))

WriteI2c ==
  /\ run.pc = "eeprog" /\ run.b \notin wp
  /\ board' = [board EXCEPT ![run.b] = Over(run.img, @)]
  /\ stored' = [stored EXCEPT ![run.b] = [img |-> run.img, made |-> run.made]]
  /\ run' = [run EXCEPT !.pc = "wp_on"]
  /\ UNCHANGED <<i2c, pins, file, wp, made, bare>>

WriteI2cFailsReturning ==
  /\ run.pc = "eeprog"
  /\ \E k \in TornAt : k < Len(run.img) /\
       board' = [board EXCEPT ![run.b] = Over(SubSeq(run.img, 1, k), @)]
  /\ stored' = [stored EXCEPT ![run.b] = None]
  /\ run' = Idle
  /\ UNCHANGED <<i2c, pins, file, wp, made, bare>>

WriteI2cFails ==
  /\ run.pc = "eeprog" /\ run.b \notin wp
  /\ \E k \in TornAt : k < Len(run.img) /\
       board' = [board EXCEPT ![run.b] = Over(SubSeq(run.img, 1, k), @)]
  /\ stored' = [stored EXCEPT ![run.b] = None]
  /\ run' = [run EXCEPT !.pc = "wp_on"]
  /\ UNCHANGED <<i2c, pins, file, wp, made, bare>>

(* Nothing is written: the EEPROM is protected, or eeprog did not start.   *)
WriteI2cNothing ==
  /\ run.pc = "eeprog"
  /\ run' = [run EXCEPT !.pc = "wp_on"]
  /\ UNCHANGED <<i2c, pins, file, board, wp, made, stored, bare>>

WpOn ==
  /\ run.pc = "wp_on"
  /\ \/ /\ run.b \in pins
        /\ wp' = wp \cup {run.b} /\ bare' = bare \ {run.b}
     \/ wp' = wp /\ bare' = bare \cup ({run.b} \ wp)
  /\ run' = Idle
  /\ UNCHANGED <<i2c, pins, file, board, made, stored>>

(* flashcp erases what it will write, then writes it.                      *)
WriteQspi ==
  /\ run.pc = "flashcp"
  /\ \/ /\ board' = [board EXCEPT ![run.b] = run.img]
        /\ stored' = [stored EXCEPT ![run.b] =
                        [img |-> run.img, made |-> run.made]]
     \/ /\ \E k \in TornAt : k < Len(run.img) /\
             board' = [board EXCEPT ![run.b] = SubSeq(run.img, 1, k)]
        /\ stored' = [stored EXCEPT ![run.b] = None]
  /\ run' = Idle
  /\ UNCHANGED <<i2c, pins, file, wp, made, bare>>

-----------------------------------------------------------------------------
(* The command is killed, or the power goes.                               *)
Kill ==
  /\ run # Idle
  /\ run' = Idle
  /\ bare' = bare \cup (IF run.pc \in {"eeprog", "wp_on"} THEN {run.b} ELSE {})
  /\ UNCHANGED <<i2c, pins, file, board, wp, made, stored>>

(* The user puts a file of his own at the location.                        *)
Supply(s) ==
  /\ run = Idle
  /\ file' = s.img /\ made' = s.made
  /\ UNCHANGED <<i2c, pins, board, wp, run, stored, bare>>

-----------------------------------------------------------------------------
(* No file yet; a board is blank or holds an image of the user's, and is   *)
(* protected if it has a pin.                                              *)
FruInit ==
  /\ file = <<>> /\ made = Unknown
  /\ stored \in [Boards -> {None} \cup {s \in Supplied : s.made.known}]
  /\ \E blank \in [Boards -> Blanks] :
       board = [b \in Boards |-> IF stored[b] = None THEN blank[b]
                                 ELSE stored[b].img]
  /\ i2c \in SUBSET Boards /\ pins \in SUBSET i2c
  /\ wp = pins /\ bare = {} /\ run = Idle

FruNext ==
  \/ \E c \in Creates : do_ivfru_create(c)
  \/ \E index \in Indexes, data \in AddData : do_ivfru_add(index, data)
  \/ \E index \in Indexes : do_ivfru_rm(index)
  \/ do_ivfru_fix
  \/ SaveOpen \/ SaveWrite \/ SaveFails
  \/ \E b \in Boards : do_ivfru_read(b) \/ do_ivfru_write(b)
  \/ WpOff \/ WriteI2c \/ WriteI2cFails \/ WriteI2cNothing \/ WpOn
  \/ WriteQspi
  \/ Kill
  \/ \E s \in Supplied : Supply(s)

FruSpec == FruInit /\ [][FruNext]_fvars

-----------------------------------------------------------------------------
(* The image is not 512 bytes long (see ReadBack) and has no empty         *)
(* pre-defined field: the cases ivfru does not get right.                  *)
Regular(m) == Eights(m) # 64 /\ \A k \in 1 .. 4 : m.lens[k] # 0

(* Whatever sequence of create, add, rm, fix, write and read made it, a    *)
(* file that was saved to its end is valid, padding and checksum included: *)
(* write, add and rm will take it (ivfru_common.c:714, 1059, 1174).  Of    *)
(* what a killed save, or in U-Boot a refused create or a failed read, has *)
(* left there nothing is said.                                             *)
FileValid == (made.known /\ Regular(made)) => ivfru_validate(file)

(* And it says what the commands were told: the lengths of the pre-defined *)
(* fields, the manufacturing date (if IPMI can express it) and the custom  *)
(* fields in the order their indexes ask for (help text,                   *)
(* ivfru_common.h:90-118).                                                 *)
FileSays == (made.known /\ Regular(made)) => Says(file, made)

(* A board whose last write ran to its end holds a valid image: an image   *)
(* that was torn by a crash or edited by hand is refused, and the next     *)
(* write puts right what an interrupted one left.                          *)
BoardValid ==
  \A b \in Boards : stored[b] # None =>
    /\ ivfru_validate(stored[b].img)
    /\ stored[b].img = SubSeq(board[b], 1, Len(stored[b].img))

(* "Read FRU image from the given board storage into <location>"           *)
(* (ivfru_common.h:86): what was written comes back whole, in either       *)
(* format, whatever longer image the storage held before.                  *)
ReadsWhatWasWritten ==
  (run.cmd = "read" /\ stored[run.b] # None) => run.img = stored[run.b].img

(* The same, save for a new image of 512 bytes, whose length byte is that  *)
(* of an old one.                                                          *)
ReadBack ==
  (run.cmd = "read" /\ stored[run.b] # None
     /\ (stored[run.b].img[10] = 64 => fru_is_old_format(stored[run.b].img)))
    => run.img = stored[run.b].img

(* "Assert write-protect back after write" (ivfru_plat.c:568): an EEPROM   *)
(* with a pin is unprotected only while it is written, also when the write *)
(* fails; only killing the command, a reset or a write of the pin that did *)
(* not work (558-574, which Linux does not notice) leaves it open, until   *)
(* the next write.                                                         *)
WpRestored ==
  /\ run = Idle => pins \ wp \subseteq bare
  /\ run # Idle => pins \ wp \subseteq bare \cup {run.b}
=============================================================================

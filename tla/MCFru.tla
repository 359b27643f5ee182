------------------------------- MODULE MCFru -------------------------------
(* One board, with I2C or QSPI storage.  The custom field that add adds    *)
(* looks like end markers, that of an image the user brings like padding;  *)
(* two lengths are refused.                                                *)
EXTENDS FruUboot

MCBoards == {"mb"}
Lens == <<10, 16, 10, 15>>
MCCreates == {[lens |-> Lens, date |-> <<29, 2, 2000>>],
              [lens |-> <<2, 0, 2, 2>>, date |-> <<1, 1, 1996>>],
              [lens |-> <<10, 1, 10, 15>>, date |-> <<31, 12, 2026>>]}
MCAddData == {<<193, 193>>, <<5>>, Fill(64, 7)}
MCIndexes == {-1, 0, 1}
MCTornAt == {40}
MCBlanks == {<<>>, Fill(14, 0)}

OldMade == [known |-> TRUE, lens |-> Lens, date |-> <<29, 2, 2000>>,
            custom |-> <<>>]
NewImage == ivfru_xcreate(Lens, <<29, 2, 2000>>)
OldArea == [SubSeq(NewImage, 9, 71) EXCEPT ![2] = 64]
OldImage == CH_OLD \o OldArea \o <<fru_calculate_checksum(OldArea)>>
BadImage == [NewImage EXCEPT ![20] = 66]
CustomImage == ivfru_add(NewImage, -1, Fill(63, 0))
MCSupplied == {[img |-> OldImage, made |-> OldMade],
               [img |-> CustomImage,
                made |-> [OldMade EXCEPT !.custom = <<Fill(63, 0)>>]],
               [img |-> BadImage, made |-> Unknown]}

(* Every date that three bytes can express is shown as it was given, and   *)
(* the first day after them is not.                                        *)
AllDates == {d \in (1 .. 31) \X (1 .. 12) \X (1996 .. 2027) :
               date2dmy(d) /\ minutes(d) \in 1 .. IpmiTimes - 1}
ASSUME DatesShown ==
  /\ \A d \in AllDates : ipmi_time_to_date(date_to_ipmi_time(d)) = d
  /\ ipmi_time_to_date(date_to_ipmi_time(<<25, 11, 2027>>)) # <<25, 11, 2027>>

MCLongData == {Fill(63, 9)}
MCDefault == {[lens |-> Lens, date |-> <<29, 2, 2000>>]}
MCLast == {-1}
MCNone == {}
=============================================================================

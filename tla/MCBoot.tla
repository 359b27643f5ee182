------------------------------- MODULE MCBoot -------------------------------
(* The shipped boot sequence and a custom one; images 0 and 1 and that of  *)
(* part number 2 on the cards; serial numbers of two characters of two     *)
(* bits, two neighbours, one too large, one not all of numbered characters *)
(* and one with a character in lower case.                                 *)
EXTENDS BoardScan

McShipped == <<[mode |-> "sd0", num_attempts |-> 1],
               [mode |-> "sd0", num_attempts |-> -1],
               [mode |-> "sd1", num_attempts |-> 1],
               [mode |-> "qspi32", num_attempts |-> 1]>>
McCustom == <<[mode |-> "emmc", num_attempts |-> 1],
              [mode |-> "sd1", num_attempts |-> 3],
              [mode |-> "qspi32", num_attempts |-> 2]>>
McSeqs == {McShipped, McCustom}

McMedias == [sd0 : {{}, {0}, {2}}, sd1 : {{}, {1}}, qspi : {{1}}]
              \cup [sd0 : {{}, {2}}, sd1 : {{}}, qspi : {{0, 1}}]

Good(pn, sn) == [answers |-> TRUE, fixed |-> TRUE, valid |-> TRUE,
                 printable |-> TRUE, pn |-> pn, sn |-> sn]
McMb == {Good(2, <<1, 2>>), [Good(3, <<1, 8>>) EXCEPT !.fixed = FALSE]}
McIo == {Good(3, <<1, 3>>), [Good(2, <<3, 0>>) EXCEPT !.answers = FALSE],
         [Good(0, <<0, 1>>) EXCEPT !.printable = FALSE]}
McEeproms == {[mb |-> m, io |-> i] : m \in McMb, i \in McIo}
McForced == {<<"io", Malformed>>, <<"io", Info(3, <<0, 7>>)>>}
ASSUME McFlashLast == FlashLast
=============================================================================

-------------------------- MODULE MCTransferGroup --------------------------
(***************************************************************************)
(* A group for model checking TransferGroup. The numbers give the order in *)
(* which the group visits the elements: two merged accessors and one on    *)
(* its own, which may have been added twice. The copy comes before its     *)
(* target.                                                                 *)
(***************************************************************************)
EXTENDS TransferGroup, TLC

CONSTANTS ra, rb

MergedAndSingle == (1 :> ra) @@ (2 :> ra) @@ (4 :> rb)
CopyOfSingle == 3 :> 4

\* Reading, also with a copy and with a device which is closed, and correct
\* reading and writing.
Reader == [correct |-> FALSE, writes |-> FALSE, copies |-> {3}]
CorrectWriter == [correct |-> TRUE, writes |-> TRUE, copies |-> {}]
ReaderAndCorrectWriter == {Reader, CorrectWriter}

=============================================================================

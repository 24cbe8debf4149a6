-------------------------- MODULE MCUnalignedWrite --------------------------
(***************************************************************************)
(* Two registers in one word of two bytes, and one which crosses into the  *)
(* next word from there.                                                   *)
(***************************************************************************)
EXTENDS UnalignedWrite, TLC

CONSTANTS w1, w2, w3

InOneWord == (w1 :> [start |-> 0, bytes |-> 1]) @@ (w2 :> [start |-> 1, bytes |-> 1])
ThreeInTwoWords ==
  (w1 :> [start |-> 0, bytes |-> 1]) @@ (w2 :> [start |-> 1, bytes |-> 2]) @@ (w3 :> [start |-> 3, bytes |-> 1])

=============================================================================

---------------------------- MODULE MCLogicalNames ----------------------------
(***************************************************************************)
(* Model checks the bit ranges of LogicalNames: two logical registers with *)
(* a bit range, which redirect to different elements of the same array.    *)
(* (The other registers and plugins are those of MCRegisters.)             *)
(***************************************************************************)
EXTENDS LogicalNames

BitRangeOf(name, element) ==
  [name |-> name, type |-> "REGISTER", device |-> "dev", target |-> "A", first |-> element, length |-> 1,
   plugins |-> <<"bitRange">>]
TwoBitRanges == {<<BitRangeOf("a", 0), BitRangeOf("b", 1)>>}

\* The array may have a third element, and the device may be exchanged.
ArrayOf(length) ==
  [readable |-> TRUE, writeable |-> TRUE, flags |-> {"raw", "wait_for_new_data"}, length |-> length]
Arrays == { [x \in {"A"} |-> ArrayOf(2)], [x \in {"A"} |-> ArrayOf(3)] }

=============================================================================

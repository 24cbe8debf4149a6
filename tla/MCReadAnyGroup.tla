--------------------------- MODULE MCReadAnyGroup ---------------------------
(***************************************************************************)
(* A group of two elements which wait for new data and one which does not. *)
(***************************************************************************)
EXTENDS ReadAnyGroup

MCPushElements == {"e1", "e2"}
MCPollElements == {"p"}
MCMembers == <<"e1", "p", "e2">>

=============================================================================

--------------------------- MODULE UnalignedWrite ---------------------------
(***************************************************************************)
(* TransferElement::write() of accessors of one NumericAddressedBackend    *)
(* whose registers do not fill the words which the backend can access. The *)
(* low-level element then reads the word, changes its part and writes the  *)
(* word back, and NumericAddressedBackend::_unalignedAccess protects this  *)
(* from the same operation in another thread.                              *)
(*                                                                         *)
(* Each writer is a thread with an accessor of its own. The accessors in   *)
(* Grouped are the only accessor of a TransferGroup and written through    *)
(* it: preWrite(), transfer and postWrite() come in the same order.        *)
(***************************************************************************)
EXTENDS LowLevelElement, FiniteSets

CONSTANTS
  Writers,       \* accessors, each with its thread
  RegisterOf,    \* address range [start, bytes] of the register of each writer
  Cells,         \* addresses of the bar
  Grouped,       \* accessors which have been added to a TransferGroup
  Values,        \* contents of cells
  CloseAnytime   \* close() is also called while another thread writes

Start == 0

ASSUME WritersAssumption ==
  /\ \A w \in Writers : RegisterOf[w].start \in Nat /\ RegisterOf[w].bytes \in Nat \ {0}
  /\ \A v, w \in Writers : v # w => Addresses(RegisterOf[v]) \cap Addresses(RegisterOf[w]) = {}
  /\ \A w \in Writers : Addresses(SetAddress(RegisterOf[w].start, RegisterOf[w].bytes)) \subseteq Cells
  /\ "free" \notin Writers
  /\ Grouped \subseteq Writers
  /\ CloseAnytime \in BOOLEAN

VARIABLES
  opened,   \* DeviceBackendImpl::_opened
  mem,      \* content of the cells
  lock,     \* owner of _unalignedAccess, or "free"
  pc,       \* where each writer is in write()
  value,    \* application buffer of each writer: the same value in all cells
  raw,      \* rawDataBuffer of each writer, by address
  rawWip,   \* writeTransactionInProgress of the low-level element
  outcome   \* of the last write(): "none", "ok", "failed"

vars == <<opened, mem, lock, pc, value, raw, rawWip, outcome>>

Register(w) == Addresses(RegisterOf[w])

\* addAccessor() merges the low-level element with itself.
Element(w) ==
  LET made == SetAddress(RegisterOf[w].start, RegisterOf[w].bytes)
  IN  IF w \in Grouped /\ IsMergeable(made, made) THEN Merge(made, made) ELSE made

Init ==
  /\ opened = TRUE
  /\ mem = [c \in Cells |-> Start]
  /\ lock = "free"
  /\ pc = [w \in Writers |-> "idle"]
  /\ value = [w \in Writers |-> Start]
  /\ raw = [w \in Writers |-> [c \in Addresses(Element(w)) |-> Start]]
  /\ rawWip = [w \in Writers |-> FALSE]
  /\ outcome = [w \in Writers |-> "none"]

WithOwnCells(w, buffer) == [c \in DOMAIN buffer |-> IF c \in Register(w) THEN value[w] ELSE buffer[c]]

Write(w, v) ==
  /\ pc[w] = "idle"
  /\ pc' = [pc EXCEPT ![w] = "pre"]
  /\ value' = [value EXCEPT ![w] = v]
  /\ outcome' = [outcome EXCEPT ![w] = "none"]
  /\ UNCHANGED <<opened, mem, lock, raw, rawWip>>

\* doPreWrite() throws a logic_error if the device is not open. The low-level
\* element ignores a second preWrite() before its postWrite().
PreWrite(w) ==
  LET waits == opened /\ ~rawWip[w] /\ Element(w).unaligned
  IN  /\ pc[w] = "pre"
      /\ pc' = [pc EXCEPT ![w] = IF ~opened THEN "failed" ELSE IF waits THEN "lock" ELSE "transfer"]
      /\ rawWip' = [rawWip EXCEPT ![w] = @ \/ opened]
      /\ raw' = IF opened /\ ~waits THEN [raw EXCEPT ![w] = WithOwnCells(w, @)] ELSE raw
      /\ UNCHANGED <<opened, mem, lock, value, outcome>>

\* doPreWrite() of the low-level element: the lock, and the read under it.
Lock(w) ==
  /\ pc[w] = "lock"
  /\ lock = "free"
  /\ lock' = w
  /\ pc' = [pc EXCEPT ![w] = "read"]
  /\ UNCHANGED <<opened, mem, value, raw, rawWip, outcome>>

\* The accessor fills its part of the buffer after preWrite() of the
\* low-level element.
ReadBack(w, ok) ==
  /\ pc[w] = "read"
  /\ pc' = [pc EXCEPT ![w] = IF ok THEN "transfer" ELSE "failed"]
  /\ raw' = IF ok THEN [raw EXCEPT ![w] = WithOwnCells(w, [c \in DOMAIN @ |-> mem[c]])] ELSE raw
  /\ UNCHANGED <<opened, mem, lock, value, rawWip, outcome>>

\* A transfer which fails may still have reached the device.
Transfer(w, ok, arrived) ==
  /\ pc[w] = "transfer"
  /\ ok => arrived
  /\ pc' = [pc EXCEPT ![w] = IF ok THEN "done" ELSE "failed"]
  /\ mem' = IF arrived THEN [c \in Cells |-> IF c \in DOMAIN raw[w] THEN raw[w][c] ELSE mem[c]]
                       ELSE mem
  /\ UNCHANGED <<opened, lock, value, raw, rawWip, outcome>>

\* Mistake: postWrite() of the low-level element is skipped after an exception.
PostWriteOnlyDone(w) ==
  LET delegates == opened /\ rawWip[w] /\ pc[w] = "done"
  IN  /\ pc[w] \in {"done", "failed"}
      /\ pc' = [pc EXCEPT ![w] = "idle"]
      /\ outcome' = [outcome EXCEPT ![w] = IF pc[w] = "done" THEN "ok" ELSE "failed"]
      /\ rawWip' = IF delegates THEN [rawWip EXCEPT ![w] = FALSE] ELSE rawWip
      /\ lock' = IF delegates /\ lock = w THEN "free" ELSE lock
      /\ UNCHANGED <<opened, mem, value, raw>>

\* doPostWrite() does not delegate to the low-level element if the device is
\* closed.
PostWrite(w) ==
  LET delegates == opened /\ rawWip[w]
  IN  /\ pc[w] \in {"done", "failed"}
      /\ pc' = [pc EXCEPT ![w] = "idle"]
      /\ outcome' = [outcome EXCEPT ![w] = IF pc[w] = "done" THEN "ok" ELSE "failed"]
      /\ rawWip' = IF delegates THEN [rawWip EXCEPT ![w] = FALSE] ELSE rawWip
      /\ lock' = IF delegates /\ lock = w THEN "free" ELSE lock
      /\ UNCHANGED <<opened, mem, value, raw>>

\* read(), in one step: it fills the buffer of the low-level element.
Read(w) ==
  /\ pc[w] = "idle" /\ opened
  /\ raw' = [raw EXCEPT ![w] = [c \in DOMAIN @ |-> mem[c]]]
  /\ value' = [value EXCEPT ![w] = mem[RegisterOf[w].start]]
  /\ UNCHANGED <<opened, mem, lock, pc, rawWip, outcome>>

Close ==
  /\ opened
  /\ CloseAnytime \/ \A w \in Writers : pc[w] = "idle"
  /\ opened' = FALSE
  /\ UNCHANGED <<mem, lock, pc, value, raw, rawWip, outcome>>

Open ==
  /\ ~opened
  /\ opened' = TRUE
  /\ UNCHANGED <<mem, lock, pc, value, raw, rawWip, outcome>>

WriteStep(w) ==
  \/ PreWrite(w)
  \/ \E ok \in BOOLEAN : ReadBack(w, ok)
  \/ \E ok, arrived \in BOOLEAN : Transfer(w, ok, arrived)
  \/ PostWrite(w)

Next ==
  \/ \E w \in Writers, v \in Values : Write(w, v)
  \/ \E w \in Writers : WriteStep(w) \/ Lock(w) \/ Read(w)
  \/ Close
  \/ Open

Spec == Init /\ [][Next]_vars

\* A thread which is inside of write() runs on. std::mutex does not starve a
\* thread for ever which tries to lock it.
FairSpec == Spec /\ \A w \in Writers : WF_vars(WriteStep(w)) /\ SF_vars(Lock(w))

-----------------------------------------------------------------------------
(* Properties *)

TypeOK ==
  /\ opened \in BOOLEAN
  /\ mem \in [Cells -> Values \cup {Start}]
  /\ lock \in Writers \cup {"free"}
  /\ pc \in [Writers -> {"idle", "pre", "lock", "read", "transfer", "done", "failed"}]
  /\ value \in [Writers -> Values \cup {Start}]
  /\ rawWip \in [Writers -> BOOLEAN]
  /\ outcome \in [Writers -> {"none", "ok", "failed"}]

(***************************************************************************)
(* What write() has written successfully stays in the register until the   *)
(* next write() to it, although other threads write the same word back     *)
(* when they write to a neighbouring register: "additional padding data    *)
(* will be thrown away" (minimumTransferAlignment()).                      *)
(***************************************************************************)
WrittenDataIsKept ==
  \A w \in Writers : outcome[w] = "ok" => \A c \in Register(w) : mem[c] = value[w]

(***************************************************************************)
(* No thread holds _unalignedAccess outside of write(), whatever has       *)
(* failed in between: doPreXxx() and doPostXxx() "are always called in     *)
(* pairs" (B.5).                                                           *)
(***************************************************************************)
LockIsReleased ==
  /\ TypeOK
  /\ lock # "free" => pc[lock] \in {"read", "transfer", "done", "failed"}

(***************************************************************************)
(* Every write() returns, also after errors between the lock and the       *)
(* unlock.                                                                 *)
(***************************************************************************)
WriteReturns == \A w \in Writers : pc[w] # "idle" ~> pc[w] = "idle"

=============================================================================

-------------------------- MODULE LowLevelElement --------------------------
(***************************************************************************)
(* The address range of a NumericAddressedLowLevelTransferElement: how it  *)
(* is extended to the alignment of the backend, and when the transfers of  *)
(* two elements are merged. An element is [start, bytes, unaligned]. All   *)
(* elements are on the same bar of the same device.                        *)
(***************************************************************************)
EXTENDS Integers

CONSTANTS
  Alignment,        \* minimumTransferAlignment() of the backend
  CanMergeRequests  \* canMergeRequests() of the backend

ASSUME AlignmentAssumption == Alignment \in Nat \ {0}
ASSUME CanMergeAssumption == CanMergeRequests \in BOOLEAN

Smaller(x, y) == IF x < y THEN x ELSE y
Larger(x, y) == IF x > y THEN x ELSE y
Addresses(range) == range.start .. (range.start + range.bytes - 1)

\* Mistake: the padding at the end ignores the padding at the start.
SetAddressEndOnly(start, bytes) ==
  LET startPadding == start % Alignment
      endPadding == (Alignment - (bytes % Alignment)) % Alignment
  IN  [start |-> start - startPadding, bytes |-> bytes + endPadding,
       unaligned |-> startPadding > 0 \/ endPadding > 0]

\* Mistake: the end is not padded.
SetAddressNoEnd(start, bytes) ==
  LET startPadding == start % Alignment
  IN  [start |-> start - startPadding, bytes |-> bytes + startPadding, unaligned |-> startPadding > 0]

\* Mistake: an element which only needs padding at its end is not unaligned.
SetAddressStartOnly(start, bytes) ==
  LET startPadding == start % Alignment
      padded == bytes + startPadding
      endPadding == Alignment - (padded % Alignment)
  IN  [start |-> start - startPadding,
       bytes |-> IF endPadding # Alignment THEN padded + endPadding ELSE padded,
       unaligned |-> startPadding > 0]

SetAddress(start, bytes) ==
  LET startPadding == start % Alignment
      padded == bytes + startPadding
      endPadding == Alignment - (padded % Alignment)
  IN  [start |-> start - startPadding,
       bytes |-> IF endPadding # Alignment THEN padded + endPadding ELSE padded,
       unaligned |-> startPadding > 0 \/ endPadding # Alignment]

\* Mistake: the comparison of the other ends is missing.
IsMergeableHalf(x, y) == CanMergeRequests /\ x.start + x.bytes >= y.start

\* Adjacent and overlapping address areas are merged.
IsMergeable(x, y) ==
  /\ CanMergeRequests
  /\ x.start + x.bytes >= y.start
  /\ x.start <= y.start + y.bytes

\* changeAddress() with the range of both elements.
Merge(x, y) ==
  LET start == Smaller(x.start, y.start)
  IN  SetAddress(start, Larger(x.start + x.bytes, y.start + y.bytes) - start)

=============================================================================

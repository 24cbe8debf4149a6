--------------------------- MODULE TransferMerge ---------------------------
(***************************************************************************)
(* TransferGroup::addAccessor() with accessors of one                      *)
(* NumericAddressedBackend: replaceTransferElement() is called in all      *)
(* combinations, accessors of the same register become copy decorators and *)
(* low-level elements are merged. std::set orders the elements by address, *)
(* which is the order of the numbers in Accessors.                         *)
(***************************************************************************)
EXTENDS LowLevelElement, FiniteSets, SequencesExt

CONSTANTS
  Accessors,  \* accessors, as TransferElementAbstractors: a set of numbers
  Registers   \* address ranges [start, bytes] of registers

\* What the constants have to fulfil.
AccessorsAssumption ==
  /\ Accessors \subseteq Nat
  /\ \A r \in Registers : r.start \in Nat /\ r.bytes \in Nat \ {0}

VARIABLES
  register,  \* the register of each accessor
  added,     \* _highLevelElements, by accessor
  flagged,   \* accessors whose present implementation has _isInTransferGroup set
  g          \* what the replacements change:
             \*   target: the accessor itself, or the one it is a copy of
             \*   raw:    the accessor whose constructor made the _rawAccessor
             \*   elem:   the low-level element made by each constructor

vars == <<register, added, flagged, g>>

Constructed(a) == SetAddress(register[a].start, register[a].bytes)

Init ==
  /\ register \in [Accessors -> Registers]
  /\ added = {}
  /\ flagged = {}
  /\ g = [target |-> [a \in Accessors |-> a],
          raw    |-> [a \in Accessors |-> a],
          elem   |-> [a \in Accessors |-> Constructed(a)]]

InOrder(S) == SetToSortSeq(S, <)

IsCopy(h, a) == h.target[a] # a
RawOf(h, a) == h.raw[h.target[a]]

\* replaceTransferElement() with the low-level element n, called on accessor
\* a. A copy decorator passes the call on to its target.
ReplaceRaw(h, n, a) ==
  LET t == h.target[a]
      own == h.elem[h.raw[t]]
  IN  IF IsMergeable(h.elem[n], own)
      THEN [h EXCEPT !.elem[n] = Merge(@, own), !.raw[t] = n]
      ELSE h

\* TransferElementAbstractor::replaceTransferElement() of the new accessor a,
\* with the element b of the group and the internal elements of b. The list
\* of the internal elements is made before the calls.
ReplaceAbstractor(h, b, a) ==
  LET other == h.target[b]
      copied == IF ~IsCopy(h, a) /\ other # a /\ register[other] = register[a]
                THEN [h EXCEPT !.target[a] = other] ELSE h
  IN  ReplaceRaw(copied, RawOf(h, b), a)

\* Mistake: only the new accessor is merged into the elements of the group.
ReplaceEverywhereNewOnly(h, b, a) == ReplaceRaw(h, RawOf(h, b), a)

\* The internal elements of b are offered to a and to all which are in the group.
ReplaceEverywhere(h, b, a) ==
  LET n == RawOf(h, b)
      Offer(hh, c) == ReplaceRaw(hh, n, c)
  IN  FoldLeft(Offer, h, <<a>> \o InOrder(added))

\* Mistake: the new accessor is not compared with what is in the group.
AddAccessorNoCopy(a) ==
  LET Everywhere(h, b) == ReplaceEverywhere(h, b, a)
  IN  /\ a \notin flagged
      /\ g' = FoldLeft(Everywhere, g, InOrder(added \cup {a}))
      /\ added' = added \cup {a}
      /\ flagged' = flagged \cup {a}
      /\ UNCHANGED register

\* addAccessorImpl() of an abstractor. The flag is set before the
\* implementation may be replaced by a new copy decorator.
AddAccessor(a) ==
  LET Abstractor(h, b) == ReplaceAbstractor(h, b, a)
      Everywhere(h, b) == ReplaceEverywhere(h, b, a)
      replaced == FoldLeft(Abstractor, g, InOrder(added))
  IN  /\ a \notin flagged
      /\ g' = FoldLeft(Everywhere, replaced, InOrder(added \cup {a}))
      /\ added' = added \cup {a}
      /\ flagged' = IF g'.target[a] = g.target[a] THEN flagged \cup {a} ELSE flagged
      /\ UNCHANGED register

Next == \E a \in Accessors : AddAccessor(a)

Spec == Init /\ [][Next]_vars

-----------------------------------------------------------------------------
(* Properties *)

LowLevelElements == {RawOf(g, a) : a \in added}

(***************************************************************************)
(* The type invariant. A low-level element starts and ends at a multiple   *)
(* of the alignment, also after merging: "The address and sizeInBytes      *)
(* arguments of the read()/write() calls will be always an integer         *)
(* multiple of this number" (NumericAddressedBackend.h).                   *)
(***************************************************************************)
TypeOK ==
  /\ added \subseteq Accessors /\ flagged \subseteq added
  /\ g.target \in [Accessors -> Accessors]
  /\ g.raw \in [Accessors -> Accessors]
  /\ \A a \in Accessors :
       /\ g.elem[a].start \in Nat /\ g.elem[a].bytes \in Nat \ {0}
       /\ g.elem[a].start % Alignment = 0 /\ g.elem[a].bytes % Alignment = 0

(***************************************************************************)
(* begin(addressInBar) of the low-level element of an accessor points into *)
(* its buffer, for all bytes of the register, and a copy decorator is one  *)
(* of the same register: "Only addresses within the range specified in the *)
(* constructor or changeAddress() may be passed" (begin()).                *)
(***************************************************************************)
RegistersAreCovered ==
  \A a \in Accessors :
    /\ Addresses(register[a]) \subseteq Addresses(g.elem[RawOf(g, a)])
    /\ register[g.target[a]] = register[a]
    /\ g.target[g.target[a]] = g.target[a]

(***************************************************************************)
(* After each addAccessor() the merging is complete whatever the order of  *)
(* the elements in memory: no two low-level elements of the group could    *)
(* still be merged, so no address is transferred twice.                    *)
(***************************************************************************)
MergingIsComplete ==
  \A m, n \in LowLevelElements : m # n => ~IsMergeable(g.elem[m], g.elem[n])

(***************************************************************************)
(* The group transfers nothing but the padded ranges of its registers:     *)
(* merging never bridges a gap between two registers.                      *)
(***************************************************************************)
NothingElseTransferred ==
  UNION {Addresses(g.elem[n]) : n \in LowLevelElements}
    = UNION {Addresses(Constructed(a)) : a \in added}

(***************************************************************************)
(* Each register is transferred for one accessor only. Others which were   *)
(* added are copies of it: "This avoids an unnecessary transfer of         *)
(* identical data" (B.12.8.1).                                             *)
(***************************************************************************)
IdenticalAreCopies ==
  \A a, b \in added : register[a] = register[b] => g.target[a] = g.target[b]

=============================================================================

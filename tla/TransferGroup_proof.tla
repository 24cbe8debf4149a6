------------------------- MODULE TransferGroup_proof -------------------------
(***************************************************************************)
(* Proofs about TransferGroup, for every group of accessors, every way in  *)
(* which they share low-level elements, and every set of copy decorators.  *)
(***************************************************************************)
EXTENDS TransferGroup, WellFoundedInduction, TLAPS

-----------------------------------------------------------------------------
(* The inductive invariant *)

Data == Values \cup {Initially}

\* The members of the elements.
Members ==
  [rip : [Nodes -> BOOLEAN], wip : [Nodes -> BOOLEAN], exc : [Nodes -> Exceptions],
   version : [Nodes -> Nat], buf : [Elements -> Data], raw : [Accessors -> Data],
   last : Nat, thrown : Exceptions]

\* The low-level elements which are transferred.
Used == {RawOf[a] : a \in Accessors}

GroupType ==
  /\ app \in Applications
  /\ opened \in BOOLEAN /\ error \in BOOLEAN
  /\ hw \in [Accessors -> Data]
  /\ s \in Members
  /\ op \in {"idle", "read", "write"}
  /\ phase \in {"pre", "transfer", "copies", "post"}
  /\ todo \subseteq IF phase = "transfer" THEN Raws ELSE Elements
  /\ op = "idle" => todo = {}
  /\ op = "write" => phase # "copies"
  /\ first \in Exceptions
  /\ nErrors \in Nat /\ wanted \in Nat
  /\ done \subseteq Raws

\* What an operation finds if the application has used the group correctly.
IdleInv ==
  op = "idle" => /\ \A n \in Nodes : ~s.rip[n] /\ ~s.wip[n]
                 /\ nErrors # 0 => first # "none"
\* The exceptions of the elements say which transfers have failed.
ExceptionsAgree(t) ==
  /\ \A r \in Used : r \in done => t.exc[r] = "none"
  /\ \A r \in Used : r \notin done => t.exc[r] = "runtime"
  /\ \A e \in Elements : t.exc[e] = "none" \/ (t.exc[e] = "runtime" /\ LowLevel(e) \notin done)

\* The transfers, and the exceptions they have left.
TransferInv ==
  /\ first \in {"none", "runtime"} /\ done \subseteq Used
  /\ phase = "pre" => first = "none" /\ done = {}
  /\ phase = "transfer" =>
       /\ todo \subseteq Used
       /\ \A e \in Elements : s.exc[e] = "none"
       /\ \A r \in todo : s.exc[r] = "none" /\ r \notin done
       /\ \A r \in Used \ todo : r \in done => s.exc[r] = "none"
       /\ \A r \in Used \ todo : r \notin done => s.exc[r] = "runtime"
       /\ first = "none" <=> Used \ todo \subseteq done
  /\ phase \in {"copies", "post"} => ExceptionsAgree(s) /\ (first = "none" <=> done = Used)
  /\ nErrors # 0 => first = "runtime" /\ (op = "read" => error)
  /\ phase = "post" => \A e \in Elements \ todo : LowLevel(e) \notin done => nErrors # 0

\* The versions of all elements are old ones.
VersionsAreOld(t) == \A n \in Nodes : t.version[n] <= t.last
KeepsOld(t) == \A e \in Elements : before.version[e] \in 0 .. t.last

\* What is in the application buffers before and after their postRead().
Unchanged(t) == t.buf = before.buf /\ \A e \in Elements : t.version[e] = before.version[e]
Filled(t) ==
  /\ first # "none" => Unchanged(t)
  /\ first = "none" =>
       /\ \A r \in Used : ~t.rip[r] => \A e \in Elements : t.version[r] > before.version[e]
       /\ \A a \in Accessors : ~t.rip[a] => t.buf[a] = t.raw[a] /\ t.version[a] = t.version[RawOf[a]]
CopiesFilled(t, C) ==
  first = "none" => \A c \in C : ~t.rip[c] => ~t.rip[TargetOf[c]] /\ t.buf[c] = t.raw[TargetOf[c]]

\* A low-level element ends its transaction with the first of its accessors.
EndedTogether(t) == \A a \in Accessors : t.rip[RawOf[a]] => t.rip[a]

\* The members in the second half of read().
ReadMembers(t) ==
  /\ t \in Members /\ \A n \in Nodes : ~t.wip[n]
  /\ VersionsAreOld(t) /\ KeepsOld(t)
  /\ ExceptionsAgree(t) /\ EndedTogether(t) /\ Filled(t)

\* read(): preRead() of some elements, or postRead() of the others.
ReadInv ==
  /\ opened /\ WriteOnly = {} /\ \A n \in Nodes : ~s.wip[n]
  /\ KeepsOld(s)
  /\ \A r \in Raws : s.rip[r] => r \in Used
  /\ phase = "pre" =>
       /\ \A e \in Elements : s.rip[e] <=> e \notin todo
       /\ \A e \in Elements \ todo : s.exc[e] = "none"
       /\ \A a \in Accessors \ todo : s.rip[RawOf[a]]
       /\ \A r \in Used : s.rip[r] => s.exc[r] = "none"
  /\ phase = "transfer" => \A n \in Elements \cup Used : s.rip[n]
  /\ phase \in {"pre", "transfer"} => Unchanged(s)
  /\ phase \in {"copies", "post"} => EndedTogether(s) /\ Filled(s) /\ CopiesFilled(s, Copies)
  /\ phase = "copies" => \A e \in Copies \ todo : ~s.rip[e]
  /\ phase = "post" => \A e \in Elements \ todo : ~s.rip[e]

\* write(): preWrite() of some elements, or postWrite() of the others.
WriteInv ==
  /\ opened /\ ReadOnly = {} /\ Copies = {} /\ \A n \in Nodes : ~s.rip[n]
  /\ wanted <= s.last
  /\ phase = "pre" =>
       /\ \A n \in Nodes : s.version[n] < wanted
       /\ \A a \in Accessors : s.wip[a] <=> a \notin todo
       /\ \A a \in Accessors \ todo : s.exc[a] = "none" /\ s.wip[RawOf[a]]
       /\ \A r \in Used : s.wip[r] => s.exc[r] = "none"
  /\ phase = "transfer" => \A n \in Elements \cup Used : s.wip[n]
  /\ \A r \in Raws : s.wip[r] => r \in Used
  /\ phase = "post" => \A a \in Accessors : s.wip[RawOf[a]] => s.wip[a]
  /\ phase = "post" => \A a \in Accessors : s.wip[a] <=> a \in todo
  /\ \A a \in Accessors : phase # "pre" \/ a \notin todo => s.raw[a] = s.buf[a]
  /\ \A a \in Accessors : s.version[a] # before.version[a] => phase = "post" /\ RawOf[a] \in done

CorrectInv ==
  CorrectUse =>
    /\ IdleInv /\ VersionsAreOld(s)
    /\ op # "idle" => TransferInv
    /\ op = "read" => ReadInv
    /\ op = "write" => WriteInv

GroupInvariant == GroupType /\ CorrectInv

-----------------------------------------------------------------------------
(* Facts about the group *)

LEMMA Elementary ==
  ASSUME GroupAssumption, GroupType
  PROVE  /\ Elements \cap Raws = {} /\ Copies \cap Accessors = {} /\ Elements \subseteq Nat
         /\ \A a \in Accessors : Accessor(a) = a /\ LowLevel(a) = RawOf[a] /\ RawOf[a] \in Used
         /\ \A c \in Copies : Accessor(c) = TargetOf[c] /\ TargetOf[c] \in Accessors
         /\ \A e \in Elements : Accessor(e) \in Accessors /\ LowLevel(e) \in Used
         /\ \A r \in Used : \E a \in Accessors : RawOf[a] = r
         /\ Used \subseteq Raws
<1>1. Copies \subseteq AllCopies
  BY DEF GroupAssumption, GroupType, Copies
<1>2. \A a \in Accessors : a \notin Copies
  BY <1>1 DEF GroupAssumption
<1>3. \A a \in Accessors : RawOf[a] \in Used /\ RawOf[a] \in Raws
  BY DEF Used, GroupAssumption
<1>4. \A c \in Copies : TargetOf[c] \in Accessors
  BY <1>1 DEF GroupAssumption
<1>5. Elements \cap Raws = {} /\ Elements \subseteq Nat
  BY <1>1 DEF GroupAssumption, Elements
<1>6. \A a \in Accessors : Accessor(a) = a /\ LowLevel(a) = RawOf[a]
  BY <1>2 DEF Accessor, LowLevel
<1>7. \A c \in Copies : Accessor(c) = TargetOf[c] /\ LowLevel(c) = RawOf[TargetOf[c]]
  BY DEF Accessor, LowLevel
<1>8. \A r \in Used : \E a \in Accessors : RawOf[a] = r
  BY DEF Used
<1>9. \A e \in Elements : Accessor(e) \in Accessors /\ LowLevel(e) \in Used
  BY <1>3, <1>4, <1>6, <1>7 DEF Elements
<1>10. QED
  BY <1>2, <1>3, <1>4, <1>5, <1>6, <1>7, <1>8, <1>9

\* The first of the elements is one of them.
LEMMA FirstIsElement ==
  ASSUME NEW S \in SUBSET Nat, S # {}
  PROVE  First(S) \in S
<1>1. PICK x \in S : \A y \in S : ~(<<y, x>> \in OpToRel(<, Nat))
  BY NatLessThanWellFounded, WFMin
<1>2. ASSUME NEW y \in S PROVE x <= y
  <2>1. ~(y < x)
    BY <1>1, <1>2 DEF OpToRel
  <2>2. QED
    BY <2>1
<1>3. QED
  BY <1>2 DEF First, Min

LEMMA LargerOfTwo ==
  ASSUME NEW m \in Nat, NEW n \in Nat
  PROVE  Max({m, n}) \in {m, n} /\ Max({m, n}) >= m /\ Max({m, n}) >= n
<1>1. \E x \in {m, n} : \A y \in {m, n} : x >= y
  OBVIOUS
<1>2. QED
  BY <1>1 DEF Max

-----------------------------------------------------------------------------
(* preRead() *)

LEMMA RawPreReadType == ASSUME NEW t \in Members, NEW r \in Raws PROVE RawPreRead(t, r) \in Members
BY DEF RawPreRead, Members, Nodes, Exceptions

LEMMA PreReadType ==
  ASSUME GroupAssumption, NEW t \in Members, NEW e \in Elements
  PROVE  PreRead(t, e) \in Members
<1> DEFINE begun == [t EXCEPT !.exc[e] = "none", !.rip[e] = TRUE]
<1>1. begun \in Members /\ [begun EXCEPT !.exc[e] = "logic"] \in Members
  BY DEF Members, Nodes, Exceptions
<1> HIDE DEF begun
<1>2. e \notin Copies => RawOf[e] \in Raws
  BY DEF GroupAssumption, Elements
<1>3. e \notin Copies => RawPreRead(begun, RawOf[e]) \in Members
  BY <1>1, <1>2, RawPreReadType
<1>4. PreRead(t, e) \in {t, begun, [begun EXCEPT !.exc[e] = "logic"]}
      \/ (e \notin Copies /\ PreRead(t, e) = RawPreRead(begun, RawOf[e]))
  BY DEF PreRead, begun
<1>5. QED
  BY <1>1, <1>3, <1>4

\* What it does in a correct read().
ReadBegun(t, n, e) ==
  /\ n.wip = t.wip /\ n.version = t.version /\ n.buf = t.buf /\ n.raw = t.raw /\ n.last = t.last
  /\ n.rip[e] /\ n.exc[e] = "none"
  /\ \A m \in Nodes : m # e => (n.rip[m] <=> t.rip[m] \/ (e \in Accessors /\ m = RawOf[e]))
  /\ e \in Accessors /\ ~t.rip[RawOf[e]] => n.exc[RawOf[e]] = "none"
  /\ \A m \in Nodes : m # e /\ ~(e \in Accessors /\ m = RawOf[e] /\ ~t.rip[m]) => n.exc[m] = t.exc[m]

LEMMA PreReadEffect ==
  ASSUME GroupAssumption, GroupType, NEW t \in Members, NEW e \in Elements, ~t.rip[e],
         opened, WriteOnly = {}
  PROVE  ReadBegun(t, PreRead(t, e), e)
<1>0. SUFFICES ASSUME NEW n, n = PreRead(t, e) PROVE ReadBegun(t, n, e)
  OBVIOUS
<1> DEFINE begun == [t EXCEPT !.exc[e] = "none", !.rip[e] = TRUE]
<1>1. /\ begun \in Members /\ begun.rip[e] /\ begun.exc[e] = "none"
      /\ \A m \in Nodes \ {e} : begun.rip[m] = t.rip[m] /\ begun.exc[m] = t.exc[m]
      /\ begun.wip = t.wip /\ begun.version = t.version /\ begun.buf = t.buf /\ begun.raw = t.raw
      /\ begun.last = t.last
  BY DEF Members, Nodes, Exceptions
<1>2. n = IF e \in Copies THEN begun ELSE RawPreRead(begun, RawOf[e])
  BY <1>0 DEF PreRead
<1> HIDE DEF begun
<1>3. CASE e \in Copies
  BY <1>1, <1>2, <1>3, Elementary DEF ReadBegun
<1>4. CASE e \notin Copies
  <2>1. e \in Accessors /\ RawOf[e] \in Nodes /\ RawOf[e] # e
    BY <1>4, Elementary DEF Elements, Nodes
  <2>2. CASE begun.rip[RawOf[e]]
    <3>1. n = begun
      BY <1>2, <1>4, <2>2 DEF RawPreRead
    <3>2. QED
      BY <1>1, <2>1, <2>2, <3>1 DEF ReadBegun
  <2>3. CASE ~begun.rip[RawOf[e]]
    <3>1. n = [begun EXCEPT !.exc[RawOf[e]] = "none", !.rip[RawOf[e]] = TRUE]
      BY <1>2, <1>4, <2>3 DEF RawPreRead
    <3>2. /\ n.rip[RawOf[e]] /\ n.exc[RawOf[e]] = "none"
          /\ \A m \in Nodes \ {RawOf[e]} : n.rip[m] = begun.rip[m] /\ n.exc[m] = begun.exc[m]
          /\ n.wip = begun.wip /\ n.version = begun.version /\ n.buf = begun.buf /\ n.raw = begun.raw
          /\ n.last = begun.last
      BY <1>1, <2>1, <3>1 DEF Members
    <3>3. QED
      BY <1>1, <2>1, <2>3, <3>2 DEF Nodes, ReadBegun
  <2>4. QED
    BY <2>2, <2>3
<1>5. QED
  BY <1>3, <1>4

-----------------------------------------------------------------------------
(* postRead() *)

ExceptionMoved(t, n, from, to) ==
  /\ n \in Members /\ n.rip = t.rip /\ n.wip = t.wip /\ n.version = t.version /\ n.buf = t.buf
  /\ n.raw = t.raw /\ n.last = t.last
  /\ n.exc[from] = "none"
  /\ t.exc[from] = "none" => n.exc[to] = t.exc[to]
  /\ t.exc[from] # "none" => n.exc[to] = t.exc[from]
  /\ \A m \in Nodes : m # from /\ m # to => n.exc[m] = t.exc[m]

LEMMA SetActiveExceptionEffect ==
  ASSUME NEW t \in Members, NEW from \in Nodes, NEW to \in Nodes, from # to
  PROVE  ExceptionMoved(t, SetActiveException(t, from, to), from, to)
<1> DEFINE n == SetActiveException(t, from, to)
<1>0. n = SetActiveException(t, from, to)
  OBVIOUS
<1> HIDE DEF n
<1> SUFFICES ExceptionMoved(t, n, from, to)
  BY <1>0
<1>1. CASE t.exc[from] = "none"
  BY <1>0, <1>1 DEF SetActiveException, ExceptionMoved
<1>2. CASE t.exc[from] # "none"
  <2>1. n = [t EXCEPT !.exc[to] = t.exc[from], !.exc[from] = "none"]
    BY <1>0, <1>2 DEF SetActiveException
  <2>2. n = [rip |-> t.rip, wip |-> t.wip, exc |-> [[t.exc EXCEPT ![to] = t.exc[from]] EXCEPT ![from] = "none"],
             version |-> t.version, buf |-> t.buf, raw |-> t.raw, last |-> t.last, thrown |-> t.thrown]
    BY <2>1 DEF Members
  <2>3. n.exc \in [Nodes -> Exceptions]
    BY <2>2 DEF Members, Exceptions
  <2>4. n \in Members
    BY <2>2, <2>3 DEF Members
  <2>5. QED
    BY <1>2, <2>2, <2>4 DEF Members, ExceptionMoved
<1>3. QED
  BY <1>1, <1>2

\* Only the first postRead() of a transfer gives the low-level element a version.
RawReadEnded(t, n, r, update) ==
  /\ n \in Members /\ n.exc = t.exc /\ n.wip = t.wip /\ n.buf = t.buf /\ n.raw = t.raw
  /\ n.thrown = t.exc[r]
  /\ ~n.rip[r]
  /\ \A m \in Nodes : m # r => n.rip[m] = t.rip[m] /\ n.version[m] = t.version[m]
  /\ t.rip[r] /\ update => n.last = t.last + 1 /\ n.version[r] = t.last + 1
  /\ ~(t.rip[r] /\ update) => n.last = t.last /\ n.version[r] = t.version[r]

LEMMA RawPostReadEffect ==
  ASSUME NEW t \in Members, NEW r \in Raws, NEW update \in BOOLEAN
  PROVE  RawReadEnded(t, RawPostRead(t, r, update), r, update)
<1> DEFINE n == RawPostRead(t, r, update)
<1>0. n = RawPostRead(t, r, update)
  OBVIOUS
<1> HIDE DEF n
<1> SUFFICES RawReadEnded(t, n, r, update)
  BY <1>0
<1>1. r \in Nodes /\ t.exc[r] \in Exceptions /\ t.last + 1 \in Nat
  BY DEF Nodes, Members
<1>2. CASE t.rip[r] /\ update
  <2>1. n = [[t EXCEPT !.rip[r] = FALSE, !.last = @ + 1, !.version[r] = t.last + 1] EXCEPT !.thrown = t.exc[r]]
    BY <1>0, <1>1, <1>2 DEF RawPostRead, Throw, Members
  <2>2. n = [rip |-> [t.rip EXCEPT ![r] = FALSE], wip |-> t.wip, exc |-> t.exc,
             version |-> [t.version EXCEPT ![r] = t.last + 1], buf |-> t.buf, raw |-> t.raw,
             last |-> t.last + 1, thrown |-> t.exc[r]]
    BY <2>1 DEF Members
  <2>3. n \in Members
    BY <1>1, <2>2 DEF Members
  <2>4. /\ n.rip = [t.rip EXCEPT ![r] = FALSE] /\ n.version = [t.version EXCEPT ![r] = t.last + 1]
        /\ n.last = t.last + 1 /\ n.exc = t.exc /\ n.wip = t.wip /\ n.buf = t.buf /\ n.raw = t.raw
        /\ n.thrown = t.exc[r]
    BY <2>2
  <2>5. /\ ~n.rip[r] /\ n.version[r] = t.last + 1
        /\ \A m \in Nodes : m # r => n.rip[m] = t.rip[m] /\ n.version[m] = t.version[m]
    BY <1>1, <2>4 DEF Members
  <2>6. QED
    BY <1>2, <2>3, <2>4, <2>5 DEF RawReadEnded
<1>3. CASE ~(t.rip[r] /\ update)
  <2>1. n = [[t EXCEPT !.rip[r] = FALSE, !.last = @, !.version[r] = @] EXCEPT !.thrown = t.exc[r]]
    BY <1>0, <1>1, <1>3 DEF RawPostRead, Throw, Members
  <2>2. n = [rip |-> [t.rip EXCEPT ![r] = FALSE], wip |-> t.wip, exc |-> t.exc,
             version |-> [t.version EXCEPT ![r] = t.version[r]], buf |-> t.buf, raw |-> t.raw,
             last |-> t.last, thrown |-> t.exc[r]]
    BY <2>1 DEF Members
  <2>3. n \in Members
    BY <1>1, <2>2 DEF Members
  <2>4. QED
    BY <1>1, <1>3, <2>2, <2>3 DEF Members, RawReadEnded
<1>4. QED
  BY <1>2, <1>3

\* An accessor which has no transaction only throws what it has.
AccessorReadSkipped(t, n, a) ==
  /\ n \in Members /\ n.exc = t.exc /\ n.wip = t.wip /\ n.buf = t.buf /\ n.raw = t.raw
  /\ n.version = t.version /\ n.last = t.last /\ n.thrown = t.exc[a]
  /\ ~n.rip[a]
  /\ \A m \in Nodes : m # a => n.rip[m] = t.rip[m]

LEMMA AccessorPostReadSkips ==
  ASSUME NEW t \in Members, NEW a \in Accessors, NEW update \in BOOLEAN, ~(t.rip[a] /\ opened)
  PROVE  AccessorReadSkipped(t, AccessorPostRead(t, a, update), a)
<1> DEFINE n == AccessorPostRead(t, a, update)
<1>0. n = AccessorPostRead(t, a, update)
  OBVIOUS
<1> HIDE DEF n
<1> SUFFICES AccessorReadSkipped(t, n, a)
  BY <1>0
<1>1. a \in Nodes /\ t.exc[a] \in Exceptions
  BY DEF Nodes, Elements, Members
<1> DEFINE ended == [t EXCEPT !.rip[a] = FALSE]
           next == Return(ended)
<1>2. next \in Members /\ next.thrown = "none" /\ next = [t EXCEPT !.rip[a] = FALSE, !.thrown = "none"]
  BY <1>1 DEF Return, Members, Exceptions
<1>3. n = Throw(next, next.exc[a])
  BY <1>0, <1>2 DEF AccessorPostRead
<1>4. n = [next EXCEPT !.thrown = t.exc[a]]
  BY <1>1, <1>2, <1>3 DEF Throw, Members
<1> HIDE DEF next
<1>5. n = [rip |-> [t.rip EXCEPT ![a] = FALSE], wip |-> t.wip, exc |-> t.exc, version |-> t.version,
           buf |-> t.buf, raw |-> t.raw, last |-> t.last, thrown |-> t.exc[a]]
  BY <1>2, <1>4 DEF Members
<1>6. QED
  BY <1>0, <1>1, <1>5 DEF Members, AccessorReadSkipped

\* One with a transaction ends it, and the one of its low-level element.
AccessorReadEnded(t, n, a, r, update) ==
  /\ n \in Members /\ n.wip = t.wip /\ n.raw = t.raw
  /\ n.exc[a] = "none" /\ n.thrown = n.exc[r]
  /\ t.exc[a] = "none" => n.exc[r] = t.exc[r]
  /\ t.exc[a] # "none" => n.exc[r] = t.exc[a]
  /\ ~n.rip[a] /\ ~n.rip[r]
  /\ \A m \in Nodes : m # a /\ m # r =>
       n.exc[m] = t.exc[m] /\ n.rip[m] = t.rip[m] /\ n.version[m] = t.version[m]
  /\ \A e \in Elements : e # a => n.buf[e] = t.buf[e]
  /\ t.rip[r] /\ update => n.last = t.last + 1 /\ n.version[r] = t.last + 1
  /\ ~(t.rip[r] /\ update) => n.last = t.last /\ n.version[r] = t.version[r]
  /\ update /\ n.thrown = "none" => n.buf[a] = t.raw[a] /\ n.version[a] = n.version[r]
  /\ ~(update /\ n.thrown = "none") => n.buf[a] = t.buf[a] /\ n.version[a] = t.version[a]

LEMMA AccessorPostReadEnds ==
  ASSUME GroupAssumption, GroupType, NEW t \in Members, NEW a \in Accessors, NEW update \in BOOLEAN,
         t.rip[a], opened
  PROVE  AccessorReadEnded(t, AccessorPostRead(t, a, update), a, RawOf[a], update)
<1> DEFINE r == RawOf[a]
           n == AccessorPostRead(t, a, update)
           ended == [t EXCEPT !.rip[a] = FALSE]
           moved == SetActiveException(ended, a, r)
           next == RawPostRead(moved, r, update)
           filled == IF update THEN [next EXCEPT !.buf[a] = next.raw[a], !.version[a] = next.version[r]]
                               ELSE next
<1>1. a \in Nodes /\ a \in Elements /\ r \in Raws /\ r \in Nodes /\ a # r
  BY Elementary DEF Nodes, Elements
<1>3. n = IF next.thrown # "none" THEN next ELSE Throw(filled, filled.exc[a])
  BY DEF AccessorPostRead
<1>0. r = RawOf[a] /\ n = AccessorPostRead(t, a, update) /\ ended = [t EXCEPT !.rip[a] = FALSE]
  OBVIOUS
<1> HIDE DEF ended, r, n
<1>2. ended = [rip |-> [t.rip EXCEPT ![a] = FALSE], wip |-> t.wip, exc |-> t.exc, version |-> t.version,
               buf |-> t.buf, raw |-> t.raw, last |-> t.last, thrown |-> t.thrown]
  BY <1>1, <1>0 DEF Members
<1> SUFFICES AccessorReadEnded(t, n, a, r, update)
  BY <1>0
<1>2a. ended \in Members
  BY <1>1, <1>2 DEF Members
<1>2b. ~ended.rip[a] /\ \A m \in Nodes : m # a => ended.rip[m] = t.rip[m]
  BY <1>1, <1>2 DEF Members
<1>2c. /\ ended.wip = t.wip /\ ended.exc = t.exc /\ ended.version = t.version /\ ended.buf = t.buf
       /\ ended.raw = t.raw /\ ended.last = t.last
  BY <1>2
<1>4. ExceptionMoved(ended, moved, a, r)
  BY <1>1, <1>2a, SetActiveExceptionEffect
<1> HIDE DEF moved
<1>4a. moved \in Members
  BY <1>4 DEF ExceptionMoved
<1>5. RawReadEnded(moved, next, r, update)
  BY <1>1, <1>4a, RawPostReadEffect
<1> HIDE DEF next
<1>5a. /\ next \in Members /\ next.wip = t.wip /\ next.buf = t.buf /\ next.raw = t.raw
       /\ next.thrown = next.exc[r]
  BY <1>2c, <1>4, <1>5 DEF RawReadEnded, ExceptionMoved
<1>5b. /\ next.exc[a] = "none" 
       /\ t.exc[a] = "none" => next.exc[r] = t.exc[r]
       /\ t.exc[a] # "none" => next.exc[r] = t.exc[a]
  BY <1>2c, <1>4, <1>5 DEF RawReadEnded, ExceptionMoved
<1>5c. /\ ~next.rip[a] /\ ~next.rip[r]
       /\ \A m \in Nodes : m # a /\ m # r => next.exc[m] = t.exc[m] /\ next.rip[m] = t.rip[m]
  BY <1>1, <1>2b, <1>2c, <1>4, <1>5 DEF RawReadEnded, ExceptionMoved
<1>5d. /\ \A m \in Nodes : m # r => next.version[m] = t.version[m]
       /\ t.rip[r] /\ update => next.last = t.last + 1 /\ next.version[r] = t.last + 1
       /\ ~(t.rip[r] /\ update) => next.last = t.last /\ next.version[r] = t.version[r]
  BY <1>1, <1>2b, <1>2c, <1>4, <1>5 DEF RawReadEnded, ExceptionMoved
<1>6. CASE next.thrown # "none" \/ ~update
  <2>1. n = next
    <3>1. CASE next.thrown # "none"
      BY <1>3, <3>1
    <3>2. CASE next.thrown = "none" /\ ~update
      <4>1. n = [next EXCEPT !.thrown = "none"]
        BY <1>3, <1>5b, <3>2 DEF Throw
      <4>2. QED
        BY <1>5a, <3>2, <4>1 DEF Members
    <3>3. QED
      BY <1>6, <3>1, <3>2
  <2>2. QED
    BY <1>1, <1>5a, <1>5b, <1>5c, <1>5d, <1>6, <2>1 DEF AccessorReadEnded
<1>7. CASE next.thrown = "none" /\ update
  <2>1. next.raw[a] \in Data /\ next.version[r] \in Nat
    BY <1>1, <1>5a DEF Members
  <2>2. filled = [next EXCEPT !.buf[a] = next.raw[a], !.version[a] = next.version[r]]
    BY <1>7
  <2>3. filled = [rip |-> next.rip, wip |-> next.wip, exc |-> next.exc,
                  version |-> [next.version EXCEPT ![a] = next.version[r]],
                  buf |-> [next.buf EXCEPT ![a] = next.raw[a]], raw |-> next.raw,
                  last |-> next.last, thrown |-> next.thrown]
    BY <1>5a, <2>2 DEF Members
  <2> HIDE DEF filled
  <2>4. n = [filled EXCEPT !.thrown = "none"]
    BY <1>3, <1>5b, <1>7, <2>3 DEF Throw
  <2>5. n = [rip |-> next.rip, wip |-> next.wip, exc |-> next.exc,
             version |-> [next.version EXCEPT ![a] = next.version[r]],
             buf |-> [next.buf EXCEPT ![a] = next.raw[a]], raw |-> next.raw,
             last |-> next.last, thrown |-> "none"]
    BY <2>3, <2>4
  <2>6. n \in Members
    BY <1>1, <1>5a, <2>1, <2>5 DEF Members, Exceptions
  <2>7. /\ n.version = [next.version EXCEPT ![a] = next.version[r]] /\ n.buf = [next.buf EXCEPT ![a] = next.raw[a]]
        /\ n.thrown = "none" /\ n.rip = next.rip /\ n.wip = next.wip /\ n.exc = next.exc
        /\ n.raw = next.raw /\ n.last = next.last
    BY <2>5
  <2>8. /\ n.buf[a] = next.raw[a] /\ n.version[a] = next.version[r]
        /\ \A e \in Elements : e # a => n.buf[e] = next.buf[e]
        /\ \A m \in Nodes : m # a => n.version[m] = next.version[m]
    BY <1>1, <1>5a, <2>7 DEF Members
  <2>9. n.wip = t.wip /\ n.raw = t.raw /\ n.thrown = n.exc[r]
    BY <1>5a, <1>7, <2>7
  <2>10. /\ n.exc[a] = "none" 
         /\ t.exc[a] = "none" => n.exc[r] = t.exc[r]
         /\ t.exc[a] # "none" => n.exc[r] = t.exc[a]
    BY <1>5b, <2>7
  <2>11. /\ ~n.rip[a] /\ ~n.rip[r]
         /\ \A m \in Nodes : m # a /\ m # r =>
              n.exc[m] = t.exc[m] /\ n.rip[m] = t.rip[m] /\ n.version[m] = t.version[m]
    BY <1>5c, <1>5d, <2>7, <2>8
  <2>12. /\ t.rip[r] /\ update => n.last = t.last + 1 /\ n.version[r] = t.last + 1
         /\ ~(t.rip[r] /\ update) => n.last = t.last /\ n.version[r] = t.version[r]
    BY <1>1, <1>5d, <2>7, <2>8
  <2>13. \A e \in Elements : e # a => n.buf[e] = t.buf[e]
    BY <1>5a, <2>8
  <2>14. n.buf[a] = t.raw[a] /\ n.version[a] = n.version[r]
    BY <1>1, <1>5a, <2>8
  <2>15. QED
    BY <1>7, <2>6, <2>7, <2>9, <2>10, <2>11, <2>12, <2>13, <2>14 DEF AccessorReadEnded
<1>8. QED
  BY <1>6, <1>7

LEMMA AccessorPostReadType ==
  ASSUME GroupAssumption, GroupType, NEW t \in Members, NEW a \in Accessors, NEW update \in BOOLEAN
  PROVE  AccessorPostRead(t, a, update) \in Members
<1>1. CASE t.rip[a] /\ opened
  <2>1. AccessorReadEnded(t, AccessorPostRead(t, a, update), a, RawOf[a], update)
    BY <1>1, AccessorPostReadEnds
  <2>2. QED
    BY <2>1 DEF AccessorReadEnded
<1>2. CASE ~(t.rip[a] /\ opened)
  <2>1. AccessorReadSkipped(t, AccessorPostRead(t, a, update), a)
    BY <1>2, AccessorPostReadSkips
  <2>2. QED
    BY <2>1 DEF AccessorReadSkipped
<1>3. QED
  BY <1>1, <1>2

\* A copy decorator without a transaction only throws what it has.
ThrowsOwn(t, n, e) ==
  /\ n \in Members /\ n.rip = t.rip /\ n.wip = t.wip /\ n.exc = t.exc /\ n.buf = t.buf /\ n.raw = t.raw
  /\ n.version = t.version /\ n.last = t.last /\ n.thrown = t.exc[e]

LEMMA ThrowsOwnEffect ==
  ASSUME NEW t \in Members, NEW e \in Nodes
  PROVE  ThrowsOwn(t, Throw(t, t.exc[e]), e)
<1> DEFINE n == Throw(t, t.exc[e])
<1>1. n = [rip |-> t.rip, wip |-> t.wip, exc |-> t.exc, version |-> t.version, buf |-> t.buf, raw |-> t.raw,
           last |-> t.last, thrown |-> t.exc[e]]
  BY DEF Throw, Members
<1> HIDE DEF n
<1>2. t.exc[e] \in Exceptions
  BY DEF Members
<1>3. n \in Members
  BY <1>1, <1>2 DEF Members
<1>4. ThrowsOwn(t, n, e)
  BY <1>1, <1>3 DEF ThrowsOwn
<1>5. QED
  BY <1>4 DEF n

\* One with a transaction ends it, and postRead() of its target comes next.
RipCleared(t, m, e) ==
  /\ m \in Members /\ ~m.rip[e] /\ \A x \in Nodes : x # e => m.rip[x] = t.rip[x]
  /\ m.wip = t.wip /\ m.exc = t.exc /\ m.buf = t.buf /\ m.raw = t.raw
  /\ m.version = t.version /\ m.last = t.last

LEMMA RipClearedEffect ==
  ASSUME NEW t \in Members, NEW e \in Nodes
  PROVE  RipCleared(t, [t EXCEPT !.rip[e] = FALSE], e)
<1> SUFFICES ASSUME NEW m, m = [t EXCEPT !.rip[e] = FALSE] PROVE RipCleared(t, m, e)
  OBVIOUS
<1>1. m = [rip |-> [t.rip EXCEPT ![e] = FALSE], wip |-> t.wip, exc |-> t.exc, version |-> t.version,
           buf |-> t.buf, raw |-> t.raw, last |-> t.last, thrown |-> t.thrown]
  BY DEF Members
<1>2a. m.rip = [t.rip EXCEPT ![e] = FALSE] /\ t.rip \in [Nodes -> BOOLEAN]
  BY <1>1 DEF Members
<1>2b. m.rip \in [Nodes -> BOOLEAN]
  BY <1>2a
<1>2. m \in Members
  BY <1>1, <1>2b DEF Members
<1>3. ~m.rip[e] /\ \A x \in Nodes : x # e => m.rip[x] = t.rip[x]
  BY <1>1 DEF Members
<1>4. QED
  BY <1>1, <1>2, <1>3 DEF RipCleared

CopyFilled(n, next, c, a, update) ==
  /\ n \in Members /\ n.rip = next.rip /\ n.wip = next.wip /\ n.exc = next.exc /\ n.raw = next.raw
  /\ n.version = next.version /\ n.last = next.last
  /\ next.thrown # "none" => n.thrown = next.thrown
  /\ next.thrown = "none" => n.thrown = next.exc[c]
  /\ \A e \in Elements : e # c => n.buf[e] = next.buf[e]
  /\ update /\ next.thrown = "none" => n.buf[c] = next.buf[a]
  /\ ~(update /\ next.thrown = "none") => n.buf[c] = next.buf[c]

LEMMA CopyPostReadEnds ==
  ASSUME NEW t \in Members, NEW c \in Copies, t.rip[c], NEW update \in BOOLEAN,
         TargetOf[c] \in Elements, NEW next \in Members,
         next = AccessorPostRead([t EXCEPT !.rip[c] = FALSE], TargetOf[c], update)
  PROVE  CopyFilled(CopyPostRead(t, c, update), next, c, TargetOf[c], update)
<1> DEFINE a == TargetOf[c]
           n == CopyPostRead(t, c, update)
           filled == IF update THEN [next EXCEPT !.buf[c] = next.buf[a]] ELSE next
<1>1. n = IF next.thrown # "none" THEN next ELSE Throw(filled, filled.exc[c])
  BY DEF CopyPostRead
<1>2. n = CopyPostRead(t, c, update) /\ a = TargetOf[c] /\ c \in Nodes /\ c \in Elements /\ a \in Elements
  BY DEF Nodes, Elements
<1> HIDE DEF n, a
<1> SUFFICES CopyFilled(n, next, c, a, update)
  BY <1>2
<1>3. next.exc[c] \in Exceptions /\ next.buf[a] \in Data
  BY <1>2 DEF Members
<1>4. CASE next.thrown # "none"
  BY <1>1, <1>4 DEF CopyFilled
<1>5. CASE next.thrown = "none" /\ ~update
  <2>1. n = [rip |-> next.rip, wip |-> next.wip, exc |-> next.exc, version |-> next.version,
             buf |-> next.buf, raw |-> next.raw, last |-> next.last, thrown |-> next.exc[c]]
    BY <1>1, <1>5 DEF Throw, Members
  <2>2. n \in Members
    BY <1>3, <2>1 DEF Members
  <2>3. QED
    BY <1>5, <2>1, <2>2 DEF CopyFilled
<1>6. CASE next.thrown = "none" /\ update
  <2>1. filled = [rip |-> next.rip, wip |-> next.wip, exc |-> next.exc, version |-> next.version,
                  buf |-> [next.buf EXCEPT ![c] = next.buf[a]], raw |-> next.raw, last |-> next.last,
                  thrown |-> next.thrown]
    BY <1>6 DEF Members
  <2>2. n = Throw(filled, filled.exc[c])
    BY <1>1, <1>6
  <2> HIDE DEF filled
  <2>3. n = [rip |-> next.rip, wip |-> next.wip, exc |-> next.exc, version |-> next.version,
             buf |-> [next.buf EXCEPT ![c] = next.buf[a]], raw |-> next.raw, last |-> next.last,
             thrown |-> next.exc[c]]
    BY <2>1, <2>2 DEF Throw
  <2>4. n \in Members
    BY <1>3, <2>3 DEF Members
  <2>5. n.buf = [next.buf EXCEPT ![c] = next.buf[a]]
    BY <2>3
  <2>6. n.buf[c] = next.buf[a] /\ \A e \in Elements : e # c => n.buf[e] = next.buf[e]
    BY <1>2, <2>5 DEF Members
  <2>7. QED
    BY <1>6, <2>3, <2>4, <2>6 DEF CopyFilled
<1>7. QED
  BY <1>4, <1>5, <1>6

LEMMA CopyPostReadSkips ==
  ASSUME NEW t \in Members, NEW c \in Copies, ~t.rip[c], NEW update \in BOOLEAN
  PROVE  ThrowsOwn(t, CopyPostRead(t, c, update), c)
<1> DEFINE next == Return(t)
           n == CopyPostRead(t, c, update)
<1>1. c \in Nodes
  BY DEF Nodes, Elements
<1>2. next = [rip |-> t.rip, wip |-> t.wip, exc |-> t.exc, version |-> t.version, buf |-> t.buf,
              raw |-> t.raw, last |-> t.last, thrown |-> "none"]
  BY DEF Return, Members
<1>3. n = IF next.thrown # "none" THEN next ELSE Throw(next, next.exc[c])
  BY DEF CopyPostRead
<1>4. n = CopyPostRead(t, c, update)
  OBVIOUS
<1> HIDE DEF next, n
<1>5. next \in Members
  BY <1>2 DEF Members, Exceptions
<1>6. ThrowsOwn(next, Throw(next, next.exc[c]), c)
  BY <1>1, <1>5, ThrowsOwnEffect
<1>7. n = Throw(next, next.exc[c])
  BY <1>2, <1>3
<1>8. ThrowsOwn(t, n, c)
  BY <1>2, <1>6, <1>7 DEF ThrowsOwn
<1>9. QED
  BY <1>4, <1>8

LEMMA PostReadType ==
  ASSUME GroupAssumption, GroupType, NEW t \in Members, NEW e \in Elements, NEW update \in BOOLEAN
  PROVE  PostRead(t, e, update) \in Members
<1>1. CASE e \notin Copies
  BY <1>1, AccessorPostReadType DEF PostRead, Elements
<1>2. CASE e \in Copies /\ t.rip[e]
  <2> DEFINE mid == [t EXCEPT !.rip[e] = FALSE]
             next == AccessorPostRead(mid, TargetOf[e], update)
  <2>1. TargetOf[e] \in Accessors /\ TargetOf[e] \in Elements /\ e \in Nodes
    BY <1>2, Elementary DEF Elements, Nodes
  <2>2. RipCleared(t, mid, e)
    BY <2>1, RipClearedEffect
  <2>3. mid = [t EXCEPT !.rip[e] = FALSE] /\ next = AccessorPostRead(mid, TargetOf[e], update)
    OBVIOUS
  <2> HIDE DEF mid
  <2>4. mid \in Members
    BY <2>2 DEF RipCleared
  <2>5. next \in Members
    BY <2>1, <2>4, AccessorPostReadType
  <2> HIDE DEF next
  <2>6. CopyFilled(CopyPostRead(t, e, update), next, e, TargetOf[e], update)
    BY <1>2, <2>1, <2>3, <2>5, CopyPostReadEnds
  <2>7. QED
    BY <1>2, <2>6 DEF CopyFilled, PostRead
<1>3. CASE e \in Copies /\ ~t.rip[e]
  BY <1>3, CopyPostReadSkips DEF ThrowsOwn, PostRead
<1>4. QED
  BY <1>1, <1>2, <1>3

\* The copied exception of the low-level element.
ExceptionCopied(t, n, e) ==
  /\ n \in Members /\ n.rip = t.rip /\ n.wip = t.wip /\ n.version = t.version /\ n.buf = t.buf
  /\ n.raw = t.raw /\ n.last = t.last
  /\ \A m \in Nodes : m # e => n.exc[m] = t.exc[m]
  /\ t.exc[LowLevel(e)] = "none" => n.exc[e] = t.exc[e]
  /\ t.exc[LowLevel(e)] # "none" => n.exc[e] = t.exc[LowLevel(e)]

LEMMA WithLowLevelExceptionEffect ==
  ASSUME GroupAssumption, GroupType, NEW t \in Members, NEW e \in Elements
  PROVE  ExceptionCopied(t, WithLowLevelException(t, e), e)
<1> SUFFICES ASSUME NEW n, n = WithLowLevelException(t, e) PROVE ExceptionCopied(t, n, e)
  OBVIOUS
<1> DEFINE r == LowLevel(e)
<1>1. r = LowLevel(e) /\ r \in Nodes /\ e \in Nodes
  BY Elementary DEF Nodes
<1>2. n = IF t.exc[r] = "none" THEN t ELSE [t EXCEPT !.exc[e] = t.exc[r]]
  BY DEF WithLowLevelException
<1> HIDE DEF r
<1>3. CASE t.exc[r] = "none"
  BY <1>1, <1>2, <1>3 DEF ExceptionCopied
<1>4. CASE t.exc[r] # "none"
  <2>1. n = [t EXCEPT !.exc[e] = t.exc[r]]
    BY <1>2, <1>4
  <2>2. n = [rip |-> t.rip, wip |-> t.wip, exc |-> [t.exc EXCEPT ![e] = t.exc[r]], version |-> t.version,
             buf |-> t.buf, raw |-> t.raw, last |-> t.last, thrown |-> t.thrown]
    BY <1>1, <2>1 DEF Members
  <2>3. n.exc \in [Nodes -> Exceptions]
    BY <1>1, <2>2 DEF Members
  <2>4. n \in Members
    BY <2>2, <2>3 DEF Members
  <2>5. n.exc[e] = t.exc[r] /\ \A m \in Nodes : m # e => n.exc[m] = t.exc[m]
    BY <1>1, <2>2 DEF Members
  <2>6. QED
    BY <1>1, <1>4, <2>2, <2>4, <2>5 DEF ExceptionCopied
<1>5. QED
  BY <1>3, <1>4

-----------------------------------------------------------------------------
(* postRead() of a correct read() *)

\* What postRead() of an accessor changes besides.
AccessorReadKept(t, n, a) ==
  /\ ReadMembers(n)
  /\ ~n.rip[a] /\ \A m \in Nodes : n.rip[m] => t.rip[m]
  /\ \A e \in Elements : e # a => n.rip[e] = t.rip[e] /\ n.exc[e] = t.exc[e] /\ n.buf[e] = t.buf[e]
  /\ n.raw = t.raw
  /\ n.thrown \in {"none", "runtime"}
  /\ n.thrown = "runtime" => RawOf[a] \notin done
  /\ RawOf[a] \notin done /\ t.exc[a] = "runtime" => n.thrown = "runtime"

LEMMA AccessorPostReadKeeps ==
  ASSUME GroupAssumption, GroupType, opened, first = "none" <=> done = Used,
         NEW t, ReadMembers(t), NEW a \in Accessors
  PROVE  AccessorReadKept(t, AccessorPostRead(t, a, first = "none"), a)
<1> SUFFICES ASSUME NEW n, n = AccessorPostRead(t, a, first = "none") PROVE AccessorReadKept(t, n, a)
  OBVIOUS
<1> DEFINE r == RawOf[a]
           update == first = "none"
<1>1. /\ a \in Nodes /\ a \in Elements /\ r \in Raws /\ r \in Nodes /\ a # r /\ r \in Used /\ r = RawOf[a]
      /\ LowLevel(a) = r /\ update \in BOOLEAN
  BY Elementary DEF Nodes, Elements
<1>2. Used \subseteq Nodes /\ Elements \subseteq Nodes /\ Accessors \subseteq Elements
      /\ \A e \in Elements : e \notin Used
  BY Elementary DEF Nodes, Elements
<1>3. \A b \in Accessors : RawOf[b] \in Used
  BY Elementary
<1>4. t \in Members
  BY DEF ReadMembers
<1>5. CASE t.rip[a]
  <2>1. AccessorReadEnded(t, n, a, r, update)
    BY <1>1, <1>4, <1>5, AccessorPostReadEnds
  <2> HIDE DEF r
  <2>2. n \in Members /\ n.wip = t.wip /\ \A m \in Nodes : ~n.wip[m]
    BY <2>1 DEF AccessorReadEnded, ReadMembers
  <2>3. ExceptionsAgree(n)
    <3>1. \A x \in Used : x # r => n.exc[x] = t.exc[x]
      BY <1>2, <2>1, <1>1 DEF AccessorReadEnded
    <3>2. \A x \in Elements : x # a => n.exc[x] = t.exc[x]
      BY <1>1, <1>2, <2>1 DEF AccessorReadEnded
    <3>3. n.exc[a] = "none"
      BY <2>1 DEF AccessorReadEnded
    <3>4. t.exc[a] = "none" \/ (t.exc[a] = "runtime" /\ r \notin done)
      BY <1>1 DEF ReadMembers, ExceptionsAgree
    <3>5. (r \in done => n.exc[r] = "none") /\ (r \notin done => n.exc[r] = "runtime")
      BY <1>1, <2>1, <3>4 DEF ReadMembers, ExceptionsAgree, AccessorReadEnded
    <3>6. QED
      BY <3>1, <3>2, <3>3, <3>5 DEF ReadMembers, ExceptionsAgree
  <2>4. /\ n.thrown \in {"none", "runtime"} /\ (n.thrown = "runtime" <=> r \notin done)
    BY <1>1, <2>1, <2>3 DEF AccessorReadEnded, ExceptionsAgree
  <2>5. ~n.rip[a] /\ ~n.rip[r] /\ \A m \in Nodes : m # a /\ m # r => n.rip[m] = t.rip[m]
    BY <2>1 DEF AccessorReadEnded
  <2>6. EndedTogether(n)
    BY <1>1, <1>2, <1>3, <2>5 DEF EndedTogether, ReadMembers
  <2>7. \A e \in Elements : e # a => n.buf[e] = t.buf[e] /\ n.exc[e] = t.exc[e] /\ n.version[e] = t.version[e]
    BY <1>1, <1>2, <2>1 DEF AccessorReadEnded
  <2>8. /\ n.last \in {t.last, t.last + 1} /\ n.version[r] \in {t.version[r], t.last + 1}
        /\ n.version[r] = t.last + 1 => n.last = t.last + 1
    <3>1. t.last \in Nat /\ t.version[r] \in Nat /\ t.version[r] <= t.last
      BY <1>1, <1>4 DEF Members, ReadMembers, VersionsAreOld
    <3>2. QED
      BY <2>1, <3>1 DEF AccessorReadEnded
  <2>9. /\ \A m \in Nodes : m # a /\ m # r => n.version[m] = t.version[m]
        /\ n.version[a] \in {t.version[a], n.version[r]}
    BY <2>1 DEF AccessorReadEnded
  <2>10. VersionsAreOld(n)
    <3>1. t.last \in Nat /\ \A m \in Nodes : t.version[m] \in Nat /\ t.version[m] <= t.last
      BY <1>4 DEF Members, ReadMembers, VersionsAreOld
    <3>2. n.version[r] <= n.last
      BY <1>1, <2>8, <3>1
    <3>3. \A m \in Nodes : m # a /\ m # r => n.version[m] <= n.last
      BY <2>8, <2>9, <3>1
    <3>4. n.version[a] <= n.last
      BY <1>1, <2>8, <2>9, <3>1, <3>2
    <3>5. QED
      BY <3>2, <3>3, <3>4 DEF VersionsAreOld
  <2>11. KeepsOld(n)
    <3>1. t.last \in Nat
      BY <1>4 DEF Members
    <3>2. QED
      BY <2>8, <3>1 DEF KeepsOld, ReadMembers
  <2>12. Filled(n)
    <3>1. CASE ~update
      <4>1. Unchanged(t) /\ first # "none"
        BY <3>1 DEF ReadMembers, Filled
      <4>2. n.buf[a] = t.buf[a] /\ n.version[a] = t.version[a]
        BY <2>1, <3>1 DEF AccessorReadEnded
      <4>3. n.buf = t.buf
        <5>1. \A e \in Elements : n.buf[e] = t.buf[e]
          BY <2>7, <4>2
        <5>2. QED
          BY <1>4, <2>2, <5>1 DEF Members
      <4>4. QED
        BY <2>7, <4>1, <4>2, <4>3 DEF Filled, Unchanged
    <3>2. CASE update
      <4>1. r \in done /\ n.thrown = "none"
        BY <1>1, <2>4, <3>2
      <4>2. n.raw = t.raw /\ n.buf[a] = n.raw[a] /\ n.version[a] = n.version[r]
        BY <2>1, <3>2, <4>1 DEF AccessorReadEnded
      <4>3. ASSUME NEW x \in Used, ~n.rip[x], NEW e \in Elements PROVE n.version[x] > before.version[e]
        <5>1. x \in Nodes /\ x # a /\ before.version[e] \in 0 .. t.last /\ t.last \in Nat
          BY <1>1, <1>2, <1>4, <4>3 DEF ReadMembers, KeepsOld, Members
        <5>2. CASE ~t.rip[x]
          <6>1. n.version[x] = t.version[x]
            BY <1>1, <2>1, <5>1, <5>2 DEF AccessorReadEnded
          <6>2. QED
            BY <3>2, <4>3, <5>2, <6>1 DEF ReadMembers, Filled
        <5>3. CASE t.rip[x]
          <6>1. x = r
            BY <2>5, <4>3, <5>1, <5>3
          <6>2. n.version[r] = t.last + 1
            BY <2>1, <3>2, <5>3, <6>1 DEF AccessorReadEnded
          <6>3. QED
            BY <5>1, <6>1, <6>2
        <5>4. QED
          BY <5>2, <5>3
      <4>4. ASSUME NEW b \in Accessors, ~n.rip[b]
            PROVE  n.buf[b] = n.raw[b] /\ n.version[b] = n.version[RawOf[b]]
        <5>1. CASE b = a
          BY <1>1, <4>2, <5>1
        <5>2. CASE b # a
          <6>1. b \in Elements /\ b \in Nodes /\ b # r /\ ~t.rip[b]
            BY <1>1, <1>2, <2>5, <4>4, <5>2
          <6>2. n.buf[b] = t.buf[b] /\ n.version[b] = t.version[b]
            BY <2>7, <5>2, <6>1
          <6>3. t.buf[b] = t.raw[b] /\ t.version[b] = t.version[RawOf[b]] /\ ~t.rip[RawOf[b]]
            BY <3>2, <6>1 DEF ReadMembers, Filled, EndedTogether
          <6>4. n.version[RawOf[b]] = t.version[RawOf[b]]
            <7>1. CASE RawOf[b] = r
              BY <2>1, <6>3, <7>1 DEF AccessorReadEnded
            <7>2. CASE RawOf[b] # r
              BY <1>1, <1>2, <1>3, <2>9, <7>2
            <7>3. QED
              BY <7>1, <7>2
          <6>5. QED
            BY <4>2, <6>2, <6>3, <6>4
        <5>3. QED
          BY <5>1, <5>2
      <4>5. QED
        BY <3>2, <4>3, <4>4 DEF Filled
    <3>3. QED
      BY <3>1, <3>2
  <2>13. ReadMembers(n)
    BY <2>2, <2>3, <2>6, <2>10, <2>11, <2>12 DEF ReadMembers
  <2>14. n.raw = t.raw
    BY <2>1 DEF AccessorReadEnded
  <2>15. /\ \A m \in Nodes : n.rip[m] => t.rip[m] 
         /\ \A e \in Elements : e # a => n.rip[e] = t.rip[e]
    BY <1>1, <1>2, <2>5
  <2>16. QED
    BY <1>1, <2>4, <2>5, <2>7, <2>13, <2>14, <2>15 DEF AccessorReadKept
<1>6. CASE ~t.rip[a]
  <2>1. AccessorReadSkipped(t, n, a)
    BY <1>1, <1>4, <1>6, AccessorPostReadSkips
  <2> HIDE DEF r
  <2>2. /\ n \in Members /\ n.exc = t.exc /\ n.wip = t.wip /\ n.buf = t.buf /\ n.raw = t.raw
        /\ n.version = t.version /\ n.last = t.last /\ n.thrown = t.exc[a]
    BY <2>1 DEF AccessorReadSkipped
  <2>3. \A m \in Nodes : n.rip[m] = t.rip[m]
    <3>1. n.rip[a] \in BOOLEAN /\ t.rip[a] \in BOOLEAN
      BY <1>1, <1>4, <2>2 DEF Members
    <3>2. n.rip[a] = t.rip[a]
      BY <1>6, <2>1, <3>1 DEF AccessorReadSkipped
    <3>3. QED
      BY <2>1, <3>2 DEF AccessorReadSkipped
  <2>4. t.exc[a] = "none" \/ (t.exc[a] = "runtime" /\ r \notin done)
    BY <1>1 DEF ReadMembers, ExceptionsAgree
  <2>5. ExceptionsAgree(n) /\ VersionsAreOld(n) /\ KeepsOld(n)
    BY <2>2 DEF ReadMembers, ExceptionsAgree, VersionsAreOld, KeepsOld
  <2>6. EndedTogether(n)
    BY <1>2, <1>3, <2>3 DEF ReadMembers, EndedTogether
  <2>7. Filled(n)
    <3>1. first # "none" => Unchanged(n)
      BY <2>2 DEF ReadMembers, Filled, Unchanged
    <3>2. first = "none" =>
            /\ \A x \in Used : ~n.rip[x] => \A e \in Elements : n.version[x] > before.version[e]
            /\ \A b \in Accessors : ~n.rip[b] => n.buf[b] = n.raw[b] /\ n.version[b] = n.version[RawOf[b]]
      BY <1>2, <2>2, <2>3 DEF ReadMembers, Filled
    <3>3. QED
      BY <3>1, <3>2 DEF Filled
  <2>8. ReadMembers(n)
    BY <2>2, <2>5, <2>6, <2>7 DEF ReadMembers
  <2>9. QED
    BY <1>1, <1>2, <1>6, <2>2, <2>3, <2>4, <2>8 DEF AccessorReadKept
<1>7. QED
  BY <1>5, <1>6

\* postRead() of an element in a correct read(): all of it is as it should be.
ReadKept(t, n, e) ==
  /\ ReadMembers(n)
  /\ ~n.rip[e] /\ \A m \in Nodes : n.rip[m] => t.rip[m]
  /\ CopiesFilled(n, Copies)
  /\ LowLevel(e) \in done => n.thrown = "none"
  /\ LowLevel(e) \notin done => n.thrown = "runtime"

LEMMA PostReadKeeps ==
  ASSUME GroupAssumption, GroupType, opened, first = "none" <=> done = Used,
         NEW t, ReadMembers(t), CopiesFilled(t, Copies), NEW e \in Elements,
         LowLevel(e) \notin done => t.exc[e] = "runtime"
  PROVE  ReadKept(t, PostRead(t, e, first = "none"), e)
<1> SUFFICES ASSUME NEW n, n = PostRead(t, e, first = "none") PROVE ReadKept(t, n, e)
  OBVIOUS
<1> DEFINE update == first = "none"
<1>1. t \in Members /\ e \in Nodes /\ update \in BOOLEAN
  BY DEF ReadMembers, Nodes
<1>2. CASE e \notin Copies
  <2>1. e \in Accessors /\ LowLevel(e) = RawOf[e]
    BY <1>2, Elementary DEF Elements
  <2>2. n = AccessorPostRead(t, e, update)
    BY <1>2 DEF PostRead
  <2>3. AccessorReadKept(t, n, e)
    BY <2>1, <2>2, AccessorPostReadKeeps
  <2>4. CopiesFilled(n, Copies)
    <3>1. SUFFICES ASSUME first = "none", NEW c \in Copies, ~n.rip[c]
                   PROVE  ~n.rip[TargetOf[c]] /\ n.buf[c] = n.raw[TargetOf[c]]
      BY DEF CopiesFilled
    <3>2. c \in Elements /\ c # e /\ TargetOf[c] \in Nodes
      BY <1>2, Elementary DEF Elements, Nodes
    <3>3. ~t.rip[c] /\ n.buf[c] = t.buf[c] /\ n.raw = t.raw
      BY <2>3, <3>1, <3>2 DEF AccessorReadKept
    <3>4. ~t.rip[TargetOf[c]] /\ t.buf[c] = t.raw[TargetOf[c]]
      BY <3>1, <3>3 DEF CopiesFilled
    <3>5. QED
      BY <2>3, <3>2, <3>3, <3>4 DEF AccessorReadKept
  <2>5. ReadMembers(n) /\ ~n.rip[e] /\ \A m \in Nodes : n.rip[m] => t.rip[m]
    BY <2>3 DEF AccessorReadKept
  <2>6. (LowLevel(e) \in done => n.thrown = "none") /\ (LowLevel(e) \notin done => n.thrown = "runtime")
    BY <2>1, <2>3 DEF AccessorReadKept
  <2>7. QED
    BY <2>4, <2>5, <2>6 DEF ReadKept
<1>3. CASE e \in Copies /\ ~t.rip[e]
  <2>1. ThrowsOwn(t, n, e)
    BY <1>1, <1>3, CopyPostReadSkips DEF PostRead
  <2>2. /\ n \in Members /\ n.rip = t.rip /\ n.wip = t.wip /\ n.exc = t.exc /\ n.buf = t.buf /\ n.raw = t.raw
        /\ n.version = t.version /\ n.last = t.last /\ n.thrown = t.exc[e]
    BY <2>1 DEF ThrowsOwn
  <2>3. ReadMembers(n)
    BY <2>2 DEF ReadMembers, VersionsAreOld, KeepsOld, ExceptionsAgree, EndedTogether, Filled, Unchanged
  <2>4. CopiesFilled(n, Copies)
    BY <2>2 DEF CopiesFilled
  <2>5. t.exc[e] = "none" \/ (t.exc[e] = "runtime" /\ LowLevel(e) \notin done)
    BY DEF ReadMembers, ExceptionsAgree
  <2>6. QED
    BY <1>3, <2>2, <2>3, <2>4, <2>5 DEF ReadKept
<1>4. CASE e \in Copies /\ t.rip[e]
  <2> DEFINE a == TargetOf[e]
             mid == [t EXCEPT !.rip[e] = FALSE]
             next == AccessorPostRead(mid, a, update)
  <2>1. a \in Accessors /\ a \in Elements /\ a \in Nodes /\ a # e /\ LowLevel(e) = RawOf[a] /\ a = TargetOf[e]
    BY <1>4, Elementary DEF Elements, Nodes, LowLevel
  <2>1a. RawOf[a] \in Used /\ RawOf[a] # e
    BY <2>1, Elementary DEF Elements
  <2>2. RipCleared(t, mid, e)
    BY <1>1, RipClearedEffect
  <2>3. mid = [t EXCEPT !.rip[e] = FALSE] /\ next = AccessorPostRead(mid, a, update)
    OBVIOUS
  <2> HIDE DEF mid, next, a
  <2>4. /\ mid \in Members /\ mid.wip = t.wip /\ mid.exc = t.exc /\ mid.buf = t.buf /\ mid.raw = t.raw
        /\ mid.version = t.version /\ mid.last = t.last
        /\ ~mid.rip[e] /\ \A m \in Nodes : m # e => mid.rip[m] = t.rip[m]
    BY <2>2 DEF RipCleared
  <2>5. ReadMembers(mid)
    <3>1. \A x \in Accessors : x # e /\ x \in Nodes /\ RawOf[x] # e /\ RawOf[x] \in Nodes
      BY <1>4, Elementary DEF Elements, Nodes
    <3>2. \A x \in Used : x # e /\ x \in Nodes
      BY <1>4, Elementary DEF Elements, Nodes
    <3>3. EndedTogether(mid)
      BY <2>4, <3>1 DEF ReadMembers, EndedTogether
    <3>4. Filled(mid)
      <4>1. first # "none" => Unchanged(mid)
        BY <2>4 DEF ReadMembers, Filled, Unchanged
      <4>2. first = "none" =>
              /\ \A x \in Used : ~mid.rip[x] => \A y \in Elements : mid.version[x] > before.version[y]
              /\ \A b \in Accessors : ~mid.rip[b] =>
                   mid.buf[b] = mid.raw[b] /\ mid.version[b] = mid.version[RawOf[b]]
        BY <2>4, <3>1, <3>2 DEF ReadMembers, Filled
      <4>3. QED
        BY <4>1, <4>2 DEF Filled
    <3>5. ExceptionsAgree(mid) /\ VersionsAreOld(mid) /\ KeepsOld(mid)
      BY <2>4 DEF ReadMembers, ExceptionsAgree, VersionsAreOld, KeepsOld
    <3>6. QED
      BY <2>4, <3>3, <3>4, <3>5 DEF ReadMembers
  <2>6. AccessorReadKept(mid, next, a)
    BY <2>1, <2>3, <2>5, AccessorPostReadKeeps
  <2>7. ReadMembers(next) /\ next \in Members
    BY <2>6 DEF AccessorReadKept, ReadMembers
  <2>8. CopyFilled(n, next, e, a, update)
    BY <1>1, <1>4, <2>1, <2>3, <2>7, CopyPostReadEnds DEF PostRead
  <2>9. /\ n \in Members /\ n.rip = next.rip /\ n.wip = next.wip /\ n.exc = next.exc /\ n.raw = next.raw
        /\ n.version = next.version /\ n.last = next.last
    BY <2>8 DEF CopyFilled
  <2>10. ~n.rip[e] /\ ~n.rip[a] /\ \A m \in Nodes : n.rip[m] => t.rip[m]
    BY <1>1, <1>4, <2>1, <2>4, <2>6, <2>9 DEF AccessorReadKept
  <2>11. next.thrown \in {"none", "runtime"} /\ (next.thrown = "runtime" => RawOf[a] \notin done)
    BY <2>6 DEF AccessorReadKept
  <2>12. next.exc[e] = t.exc[e]
    BY <2>1, <2>4, <2>6 DEF AccessorReadKept
  <2>13. t.exc[e] = "none" \/ (t.exc[e] = "runtime" /\ LowLevel(e) \notin done)
    BY DEF ReadMembers, ExceptionsAgree
  <2>14. (LowLevel(e) \in done => n.thrown = "none") /\ (LowLevel(e) \notin done => n.thrown = "runtime")
    BY <2>1, <2>8, <2>11, <2>12, <2>13 DEF CopyFilled
  <2>15. \A x \in Elements : x # e => n.buf[x] = next.buf[x]
    BY <2>8 DEF CopyFilled
  <2>16. Filled(n)
    <3>1. CASE ~update
      <4>1. n.buf[e] = next.buf[e]
        BY <2>8, <3>1 DEF CopyFilled
      <4>2. \A x \in Elements : n.buf[x] = next.buf[x]
        BY <2>15, <4>1
      <4>3. n.buf = next.buf
        BY <2>7, <2>9, <4>2 DEF Members
      <4>4. QED
        BY <2>7, <2>9, <3>1, <4>3 DEF ReadMembers, Filled, Unchanged
    <3>2. CASE update
      <4>1. \A b \in Accessors : b # e /\ b \in Elements
        BY <1>4, Elementary DEF Elements
      <4>2. QED
        BY <2>7, <2>9, <2>15, <3>2, <4>1 DEF ReadMembers, Filled
    <3>3. QED
      BY <3>1, <3>2
  <2>17. ReadMembers(n)
    <3>1. /\ ExceptionsAgree(n) /\ VersionsAreOld(n) /\ KeepsOld(n) /\ EndedTogether(n)
          /\ \A m \in Nodes : ~n.wip[m]
      BY <2>7, <2>9 DEF ReadMembers, ExceptionsAgree, VersionsAreOld, KeepsOld, EndedTogether
    <3>2. QED
      BY <2>7, <2>9, <2>16, <3>1 DEF ReadMembers
  <2>18. CopiesFilled(n, Copies)
    <3>1. SUFFICES ASSUME first = "none", NEW c \in Copies, ~n.rip[c]
                   PROVE  ~n.rip[TargetOf[c]] /\ n.buf[c] = n.raw[TargetOf[c]]
      BY DEF CopiesFilled
    <3>2. c \in Elements /\ c \in Nodes /\ TargetOf[c] \in Nodes /\ TargetOf[c] # e /\ c # a /\ e # a
      BY <1>4, <2>1, Elementary DEF Elements, Nodes
    <3>3. n.raw = t.raw
      BY <2>4, <2>6, <2>9 DEF AccessorReadKept
    <3>4. CASE c = e
      <4>1. RawOf[a] \in done
        BY <2>1a, <3>1
      <4>2. n.buf[e] = next.buf[a]
        BY <2>8, <2>11, <3>1, <4>1 DEF CopyFilled
      <4>3. ~next.rip[a] /\ next.buf[a] = next.raw[a]
        BY <2>1, <2>6, <2>7, <3>1 DEF AccessorReadKept, ReadMembers, Filled
      <4>4. QED
        BY <2>1, <2>9, <2>10, <3>4, <4>2, <4>3
    <3>5. CASE c # e
      <4>1. n.buf[c] = t.buf[c] /\ n.rip[c] = mid.rip[c] /\ mid.rip[c] = t.rip[c]
        BY <2>4, <2>6, <2>9, <2>15, <3>2, <3>5 DEF AccessorReadKept
      <4>2. ~t.rip[TargetOf[c]] /\ t.buf[c] = t.raw[TargetOf[c]]
        BY <3>1, <4>1 DEF CopiesFilled
      <4>3. QED
        BY <2>10, <3>2, <3>3, <4>1, <4>2
    <3>6. QED
      BY <3>4, <3>5
  <2>19. QED
    BY <2>10, <2>14, <2>17, <2>18 DEF ReadKept
<1>5. QED
  BY <1>2, <1>3, <1>4

\* The same with the exception which runPostReads() has copied before.
LEMMA PostReadOfGroup ==
  ASSUME GroupAssumption, GroupType, opened, first = "none" <=> done = Used,
         ReadMembers(s), CopiesFilled(s, Copies), NEW e \in Elements
  PROVE  ReadKept(s, PostRead(WithLowLevelException(s, e), e, first = "none"), e)
<1> DEFINE t == WithLowLevelException(s, e)
           n == PostRead(t, e, first = "none")
<1>1. ExceptionCopied(s, t, e)
  BY WithLowLevelExceptionEffect DEF ReadMembers
<1> HIDE DEF t
<1>2. /\ t \in Members /\ t.rip = s.rip /\ t.wip = s.wip /\ t.version = s.version /\ t.buf = s.buf
      /\ t.raw = s.raw /\ t.last = s.last
      /\ \A m \in Nodes : m # e => t.exc[m] = s.exc[m]
      /\ s.exc[LowLevel(e)] = "none" => t.exc[e] = s.exc[e]
      /\ s.exc[LowLevel(e)] # "none" => t.exc[e] = s.exc[LowLevel(e)]
  BY <1>1 DEF ExceptionCopied
<1>3. LowLevel(e) \in Used /\ Used \subseteq Nodes /\ Elements \subseteq Nodes /\ e \notin Used
  BY Elementary DEF Nodes
<1>4. /\ LowLevel(e) \notin done => t.exc[e] = "runtime"
      /\ t.exc[e] = "none" \/ (t.exc[e] = "runtime" /\ LowLevel(e) \notin done)
  BY <1>2, <1>3 DEF ReadMembers, ExceptionsAgree
<1>5. ExceptionsAgree(t)
  BY <1>2, <1>3, <1>4 DEF ReadMembers, ExceptionsAgree
<1>6. ReadMembers(t) /\ CopiesFilled(t, Copies)
  BY <1>2, <1>5 DEF ReadMembers, CopiesFilled, VersionsAreOld, KeepsOld, EndedTogether, Filled, Unchanged
<1>7. ReadKept(t, n, e)
  BY <1>4, <1>6, PostReadKeeps
<1>8. ReadKept(s, n, e)
  BY <1>2, <1>7 DEF ReadKept
<1>9. QED
  BY <1>8 DEF t

-----------------------------------------------------------------------------
(* preWrite() and postWrite() *)

RawWriteBegun(t, n, r, version) ==
  /\ n \in Members /\ n.rip = t.rip /\ n.version = t.version /\ n.buf = t.buf /\ n.raw = t.raw
  /\ n.last = t.last
  /\ \A m \in Nodes : m # r => n.wip[m] = t.wip[m] /\ n.exc[m] = t.exc[m]
  /\ t.wip[r] => n.wip[r] /\ n.exc[r] = t.exc[r] /\ n.thrown = "none"
  /\ ~t.wip[r] => n.exc[r] = "none"
  /\ ~t.wip[r] /\ version < t.version[r] => ~n.wip[r] /\ n.thrown = "logic"
  /\ ~t.wip[r] /\ ~(version < t.version[r]) => n.wip[r] /\ n.thrown = "none"

LEMMA RawPreWriteEffect ==
  ASSUME NEW t \in Members, NEW r \in Raws, NEW version \in Nat
  PROVE  RawWriteBegun(t, RawPreWrite(t, r, version), r, version)
<1> SUFFICES ASSUME NEW n, n = RawPreWrite(t, r, version) PROVE RawWriteBegun(t, n, r, version)
  OBVIOUS
<1>1. r \in Nodes /\ "none" \in Exceptions /\ "logic" \in Exceptions
  BY DEF Nodes, Exceptions
<1>2. CASE t.wip[r]
  <2>1. n = [rip |-> t.rip, wip |-> t.wip, exc |-> t.exc, version |-> t.version, buf |-> t.buf, raw |-> t.raw,
             last |-> t.last, thrown |-> "none"]
    BY <1>2 DEF RawPreWrite, Return, Members
  <2>2. n \in Members
    BY <1>1, <2>1 DEF Members
  <2>3. QED
    BY <1>2, <2>1, <2>2 DEF RawWriteBegun
<1>3. CASE ~t.wip[r] /\ version < t.version[r]
  <2>1. n = [rip |-> t.rip, wip |-> t.wip, exc |-> [t.exc EXCEPT ![r] = "none"], version |-> t.version,
             buf |-> t.buf, raw |-> t.raw, last |-> t.last, thrown |-> "logic"]
    BY <1>3 DEF RawPreWrite, Throw, Members
  <2>2. n.exc \in [Nodes -> Exceptions]
    BY <1>1, <2>1 DEF Members
  <2>3. n \in Members
    BY <1>1, <2>1, <2>2 DEF Members
  <2>4. n.exc[r] = "none" /\ \A m \in Nodes : m # r => n.exc[m] = t.exc[m]
    BY <1>1, <2>1 DEF Members
  <2>5. QED
    BY <1>3, <2>1, <2>3, <2>4 DEF RawWriteBegun
<1>4. CASE ~t.wip[r] /\ ~(version < t.version[r])
  <2>1. n = [rip |-> t.rip, wip |-> [t.wip EXCEPT ![r] = TRUE], exc |-> [t.exc EXCEPT ![r] = "none"],
             version |-> t.version, buf |-> t.buf, raw |-> t.raw, last |-> t.last, thrown |-> "none"]
    BY <1>4 DEF RawPreWrite, Return, Members
  <2>2. n.exc \in [Nodes -> Exceptions] /\ n.wip \in [Nodes -> BOOLEAN]
    BY <1>1, <2>1 DEF Members
  <2>3. n \in Members
    BY <1>1, <2>1, <2>2 DEF Members
  <2>4. n.exc[r] = "none" /\ \A m \in Nodes : m # r => n.exc[m] = t.exc[m]
    BY <1>1, <2>1 DEF Members
  <2>5. n.wip[r] /\ \A m \in Nodes : m # r => n.wip[m] = t.wip[m]
    BY <1>1, <2>1 DEF Members
  <2>6. QED
    BY <1>4, <2>1, <2>3, <2>4, <2>5 DEF RawWriteBegun
<1>5. QED
  BY <1>2, <1>3, <1>4

LEMMA PreWriteType ==
  ASSUME GroupAssumption, GroupType, NEW t \in Members, NEW e \in Elements, NEW version \in Nat
  PROVE  PreWrite(t, e, version) \in Members
<1> SUFFICES ASSUME NEW n, n = PreWrite(t, e, version) PROVE n \in Members
  OBVIOUS
<1> DEFINE cleared == [t EXCEPT !.exc[e] = "none"]
           begun == [cleared EXCEPT !.wip[e] = TRUE]
           next == RawPreWrite(begun, RawOf[e], version)
<1>1. e \in Nodes /\ (e \notin Copies => e \in Accessors /\ RawOf[e] \in Raws)
  BY DEF Nodes, Elements, GroupAssumption
<1>2. cleared \in Members /\ [cleared EXCEPT !.exc[e] = "logic"] \in Members
  BY DEF Members, Nodes, Exceptions
<1>3. begun \in Members /\ [begun EXCEPT !.exc[e] = "logic"] \in Members
  BY DEF Members, Nodes, Exceptions
<1>4. n \in {t, [cleared EXCEPT !.exc[e] = "logic"], [begun EXCEPT !.exc[e] = "logic"]} \cup
           (IF e \in Copies THEN {}
            ELSE {[next EXCEPT !.exc[e] = next.thrown], [next EXCEPT !.exc[e] = "logic"],
                  [next EXCEPT !.raw[e] = next.buf[e]]})
  BY DEF PreWrite
<1> HIDE DEF cleared, begun
<1>5. CASE e \in Copies
  BY <1>2, <1>3, <1>4, <1>5
<1>6. CASE e \notin Copies
  <2>1. RawWriteBegun(begun, next, RawOf[e], version)
    BY <1>1, <1>3, <1>6, RawPreWriteEffect
  <2> HIDE DEF next
  <2>2. next \in Members
    BY <2>1 DEF RawWriteBegun
  <2>3. [next EXCEPT !.exc[e] = next.thrown] \in Members /\ [next EXCEPT !.exc[e] = "logic"] \in Members
    BY <2>2 DEF Members, Exceptions
  <2>4. [next EXCEPT !.raw[e] = next.buf[e]] \in Members
    BY <1>1, <1>6, <2>2 DEF Members
  <2>5. QED
    BY <1>2, <1>3, <1>4, <1>6, <2>3, <2>4
<1>7. QED
  BY <1>5, <1>6

WriteBegun(t, n, e) ==
  /\ n \in Members /\ n.rip = t.rip /\ n.version = t.version /\ n.buf = t.buf /\ n.last = t.last
  /\ n.wip[e] /\ n.exc[e] = "none" /\ n.wip[RawOf[e]]
  /\ \A m \in Nodes : m # e /\ m # RawOf[e] => n.wip[m] = t.wip[m] /\ n.exc[m] = t.exc[m]
  /\ t.wip[RawOf[e]] => n.exc[RawOf[e]] = t.exc[RawOf[e]]
  /\ ~t.wip[RawOf[e]] => n.exc[RawOf[e]] = "none"
  /\ n.raw[e] = t.buf[e]
  /\ \A a \in Accessors : a # e => n.raw[a] = t.raw[a]

\* What it does in a correct write().
LEMMA PreWriteEffect ==
  ASSUME GroupAssumption, GroupType, NEW t \in Members, NEW e \in Accessors, NEW version \in Nat, ~t.wip[e],
         opened, ReadOnly = {}, \A m \in Nodes : t.version[m] < version
  PROVE  WriteBegun(t, PreWrite(t, e, version), e)
<1> SUFFICES ASSUME NEW n, n = PreWrite(t, e, version) PROVE WriteBegun(t, n, e)
  OBVIOUS
<1> DEFINE cleared == [t EXCEPT !.exc[e] = "none"]
           begun == [cleared EXCEPT !.wip[e] = TRUE]
           r == RawOf[e]
           next == RawPreWrite(begun, r, version)
<1>1. /\ e \in Nodes /\ e \in Elements /\ e \notin Copies /\ r \in Raws /\ r \in Nodes /\ e # r /\ r = RawOf[e]
      /\ e \notin ReadOnly
  BY Elementary DEF Nodes, Elements
<1>2. ~(version < t.version[e]) /\ ~(version < t.version[r])
  BY <1>1 DEF Members
<1>3. n = IF next.thrown # "none" THEN [next EXCEPT !.exc[e] = next.thrown]
          ELSE [next EXCEPT !.raw[e] = next.buf[e]]
  BY <1>1, <1>2 DEF PreWrite
<1>4. begun = [[t EXCEPT !.exc[e] = "none"] EXCEPT !.wip[e] = TRUE]
  OBVIOUS
<1> HIDE DEF begun
<1>5. begun = [rip |-> t.rip, wip |-> [t.wip EXCEPT ![e] = TRUE], exc |-> [t.exc EXCEPT ![e] = "none"],
               version |-> t.version, buf |-> t.buf, raw |-> t.raw, last |-> t.last, thrown |-> t.thrown]
  BY <1>1, <1>4 DEF Members
<1>6. begun.exc \in [Nodes -> Exceptions] /\ begun.wip \in [Nodes -> BOOLEAN]
  BY <1>5 DEF Members, Exceptions
<1>7. begun \in Members
  BY <1>5, <1>6 DEF Members
<1>8. /\ begun.wip[e] /\ begun.exc[e] = "none"
      /\ \A m \in Nodes : m # e => begun.wip[m] = t.wip[m] /\ begun.exc[m] = t.exc[m]
  BY <1>1, <1>5 DEF Members
<1> HIDE DEF r
<1>9. RawWriteBegun(begun, next, r, version)
  BY <1>1, <1>7, RawPreWriteEffect
<1> HIDE DEF next
<1>10. next.thrown = "none" /\ next.wip[r]
  BY <1>2, <1>5, <1>9 DEF RawWriteBegun
<1>11. /\ next \in Members /\ next.rip = t.rip /\ next.version = t.version /\ next.buf = t.buf
       /\ next.raw = t.raw /\ next.last = t.last
  BY <1>5, <1>9 DEF RawWriteBegun
<1>12. /\ next.wip[e] /\ next.exc[e] = "none"
       /\ \A m \in Nodes : m # e /\ m # r => next.wip[m] = t.wip[m] /\ next.exc[m] = t.exc[m]
       /\ t.wip[r] => next.exc[r] = t.exc[r]
       /\ ~t.wip[r] => next.exc[r] = "none"
  BY <1>1, <1>8, <1>9 DEF RawWriteBegun
<1>13. n = [next EXCEPT !.raw[e] = t.buf[e]]
  BY <1>3, <1>10, <1>11
<1>14. n = [rip |-> next.rip, wip |-> next.wip, exc |-> next.exc, version |-> next.version, buf |-> next.buf,
            raw |-> [next.raw EXCEPT ![e] = t.buf[e]], last |-> next.last, thrown |-> next.thrown]
  BY <1>11, <1>13 DEF Members
<1>15. n \in Members
  BY <1>1, <1>11, <1>14 DEF Members
<1>16. n.raw[e] = t.buf[e] /\ \A a \in Accessors : a # e => n.raw[a] = t.raw[a]
  BY <1>11, <1>14 DEF Members
<1>17. QED
  BY <1>1, <1>10, <1>11, <1>12, <1>14, <1>15, <1>16 DEF WriteBegun

RawWriteEnded(t, n, r, version) ==
  /\ n \in Members /\ n.rip = t.rip /\ n.exc = t.exc /\ n.buf = t.buf /\ n.raw = t.raw /\ n.last = t.last
  /\ n.thrown = t.exc[r]
  /\ ~n.wip[r] /\ \A m \in Nodes : m # r => n.wip[m] = t.wip[m]
  /\ \A m \in Nodes : m # r => n.version[m] = t.version[m]
  /\ t.exc[r] # "none" => n.version[r] = t.version[r]
  /\ t.exc[r] = "none" => n.version[r] = version

LEMMA RawPostWriteEffect ==
  ASSUME NEW t \in Members, NEW r \in Raws, NEW version \in Nat
  PROVE  RawWriteEnded(t, RawPostWrite(t, r, version), r, version)
<1> SUFFICES ASSUME NEW n, n = RawPostWrite(t, r, version) PROVE RawWriteEnded(t, n, r, version)
  OBVIOUS
<1>1. r \in Nodes /\ "none" \in Exceptions /\ t.exc[r] \in Exceptions
  BY DEF Nodes, Exceptions, Members
<1>2. CASE t.exc[r] # "none"
  <2>1. n = [rip |-> t.rip, wip |-> [t.wip EXCEPT ![r] = FALSE], exc |-> t.exc, version |-> t.version,
             buf |-> t.buf, raw |-> t.raw, last |-> t.last, thrown |-> t.exc[r]]
    BY <1>2 DEF RawPostWrite, Throw, Members
  <2>2. n.wip \in [Nodes -> BOOLEAN]
    BY <1>1, <2>1 DEF Members
  <2>3. n \in Members
    BY <1>1, <2>1, <2>2 DEF Members
  <2>4. ~n.wip[r] /\ \A m \in Nodes : m # r => n.wip[m] = t.wip[m]
    BY <1>1, <2>1 DEF Members
  <2>5. QED
    BY <1>2, <2>1, <2>3, <2>4 DEF RawWriteEnded
<1>3. CASE t.exc[r] = "none"
  <2>1. n = [rip |-> t.rip, wip |-> [t.wip EXCEPT ![r] = FALSE], exc |-> t.exc,
             version |-> [t.version EXCEPT ![r] = version],
             buf |-> t.buf, raw |-> t.raw, last |-> t.last, thrown |-> "none"]
    BY <1>3 DEF RawPostWrite, Return, Members
  <2>2. n.wip \in [Nodes -> BOOLEAN]
    BY <1>1, <2>1 DEF Members
  <2>2a. n.version \in [Nodes -> Nat]
    BY <1>1, <2>1 DEF Members
  <2>3. n \in Members
    BY <1>1, <2>1, <2>2, <2>2a DEF Members
  <2>4. ~n.wip[r] /\ \A m \in Nodes : m # r => n.wip[m] = t.wip[m]
    BY <1>1, <2>1 DEF Members
  <2>5. n.version[r] = version /\ \A m \in Nodes : m # r => n.version[m] = t.version[m]
    BY <1>1, <2>1 DEF Members
  <2>6. QED
    BY <1>3, <2>1, <2>3, <2>4, <2>5 DEF RawWriteEnded
<1>4. QED
  BY <1>2, <1>3

\* The transaction of an element ends.
WipCleared(t, m, e) ==
  /\ m \in Members /\ ~m.wip[e] /\ \A x \in Nodes : x # e => m.wip[x] = t.wip[x]
  /\ m.rip = t.rip /\ m.exc = t.exc /\ m.buf = t.buf /\ m.raw = t.raw
  /\ m.version = t.version /\ m.last = t.last

LEMMA WipClearedEffect ==
  ASSUME NEW t \in Members, NEW e \in Nodes
  PROVE  WipCleared(t, [t EXCEPT !.wip[e] = FALSE], e)
<1> SUFFICES ASSUME NEW m, m = [t EXCEPT !.wip[e] = FALSE] PROVE WipCleared(t, m, e)
  OBVIOUS
<1>1. m = [rip |-> t.rip, wip |-> [t.wip EXCEPT ![e] = FALSE], exc |-> t.exc, version |-> t.version,
           buf |-> t.buf, raw |-> t.raw, last |-> t.last, thrown |-> t.thrown]
  BY DEF Members
<1>2. m.wip = [t.wip EXCEPT ![e] = FALSE] /\ t.wip \in [Nodes -> BOOLEAN]
  BY <1>1 DEF Members
<1>3. m.wip \in [Nodes -> BOOLEAN]
  BY <1>2
<1>4. m \in Members
  BY <1>1, <1>3 DEF Members
<1>5. ~m.wip[e] /\ \A x \in Nodes : x # e => m.wip[x] = t.wip[x]
  BY <1>1 DEF Members
<1>6. QED
  BY <1>1, <1>4, <1>5 DEF WipCleared

\* The end of postWrite(): the version is new unless something is thrown.
VersionTaken(next, n, e, version) ==
  /\ n \in Members /\ n.rip = next.rip /\ n.wip = next.wip /\ n.exc = next.exc /\ n.buf = next.buf
  /\ n.raw = next.raw /\ n.last = next.last
  /\ \A m \in Nodes : m # e => n.version[m] = next.version[m]
  /\ next.thrown # "none" => n.thrown = next.thrown /\ n.version[e] = next.version[e]
  /\ next.thrown = "none" => n.thrown = next.exc[e]
  /\ next.thrown = "none" /\ next.exc[e] # "none" => n.version[e] = next.version[e]
  /\ next.thrown = "none" /\ next.exc[e] = "none" => n.version[e] = version

LEMMA VersionTakenEffect ==
  ASSUME NEW next \in Members, NEW e \in Nodes, NEW version \in Nat, NEW n,
         n = IF next.thrown # "none" THEN next
             ELSE IF next.exc[e] # "none" THEN Throw(next, next.exc[e])
             ELSE [next EXCEPT !.version[e] = version]
  PROVE  VersionTaken(next, n, e, version)
<1>1. CASE next.thrown # "none"
  BY <1>1 DEF VersionTaken
<1>2. CASE next.thrown = "none" /\ next.exc[e] # "none"
  <2>1. n = Throw(next, next.exc[e])
    BY <1>2
  <2>2. ThrowsOwn(next, n, e)
    BY <2>1, ThrowsOwnEffect
  <2>3. QED
    BY <1>2, <2>2 DEF ThrowsOwn, VersionTaken
<1>3. CASE next.thrown = "none" /\ next.exc[e] = "none"
  <2>1. n = [rip |-> next.rip, wip |-> next.wip, exc |-> next.exc,
             version |-> [next.version EXCEPT ![e] = version],
             buf |-> next.buf, raw |-> next.raw, last |-> next.last, thrown |-> next.thrown]
    BY <1>3 DEF Members
  <2>2. n.version \in [Nodes -> Nat]
    BY <2>1 DEF Members
  <2>3. n \in Members
    BY <2>1, <2>2 DEF Members
  <2>4. n.version[e] = version /\ \A m \in Nodes : m # e => n.version[m] = next.version[m]
    BY <2>1 DEF Members
  <2>5. QED
    BY <1>3, <2>1, <2>3, <2>4 DEF VersionTaken
<1>4. QED
  BY <1>1, <1>2, <1>3

LEMMA ReturnType == ASSUME NEW t \in Members PROVE Return(t) \in Members
BY DEF Return, Members, Exceptions

LEMMA AccessorPostWriteType ==
  ASSUME GroupAssumption, GroupType, NEW t \in Members, NEW a \in Accessors, NEW version \in Nat
  PROVE  AccessorPostWrite(t, a, version) \in Members
<1> SUFFICES ASSUME NEW n, n = AccessorPostWrite(t, a, version) PROVE n \in Members
  OBVIOUS
<1> DEFINE r == RawOf[a]
           ended == [t EXCEPT !.wip[a] = FALSE]
           moved == SetActiveException(ended, a, r)
           next == IF t.wip[a] /\ opened THEN RawPostWrite(moved, r, version) ELSE Return(ended)
<1>1. a \in Nodes /\ r \in Raws /\ r \in Nodes /\ a # r
  BY Elementary DEF Nodes, Elements
<1>2. n = IF next.thrown # "none" THEN next
          ELSE IF next.exc[a] # "none" THEN Throw(next, next.exc[a])
          ELSE [next EXCEPT !.version[a] = version]
  BY DEF AccessorPostWrite
<1>3. WipCleared(t, ended, a)
  BY <1>1, WipClearedEffect
<1> HIDE DEF ended, r
<1>4. ended \in Members
  BY <1>3 DEF WipCleared
<1>5. ExceptionMoved(ended, moved, a, r)
  BY <1>1, <1>4, SetActiveExceptionEffect
<1> HIDE DEF moved
<1>6. RawWriteEnded(moved, RawPostWrite(moved, r, version), r, version)
  BY <1>1, <1>5, RawPostWriteEffect DEF ExceptionMoved
<1>7. next \in Members
  BY <1>4, <1>6, ReturnType DEF RawWriteEnded
<1> HIDE DEF next
<1>8. VersionTaken(next, n, a, version)
  BY <1>1, <1>2, <1>7, VersionTakenEffect
<1>9. QED
  BY <1>8 DEF VersionTaken

LEMMA CopyPostWriteType ==
  ASSUME GroupAssumption, GroupType, NEW t \in Members, NEW c \in Copies, NEW version \in Nat
  PROVE  CopyPostWrite(t, c, version) \in Members
<1> SUFFICES ASSUME NEW n, n = CopyPostWrite(t, c, version) PROVE n \in Members
  OBVIOUS
<1> DEFINE a == TargetOf[c]
           ended == [t EXCEPT !.wip[c] = FALSE]
           moved == SetActiveException(ended, c, a)
           next == AccessorPostWrite(moved, a, version)
           swapped == IF t.wip[c] THEN [next EXCEPT !.buf[c] = next.buf[a], !.buf[a] = next.buf[c]]
                                  ELSE Return(t)
<1>1. c \in Nodes /\ a \in Accessors /\ a \in Nodes /\ a # c /\ c \in Elements /\ a \in Elements
  BY Elementary DEF Nodes, Elements
<1>2. n = IF swapped.thrown # "none" THEN swapped
          ELSE IF swapped.exc[c] # "none" THEN Throw(swapped, swapped.exc[c])
          ELSE [swapped EXCEPT !.version[c] = version]
  BY DEF CopyPostWrite
<1>3. WipCleared(t, ended, c)
  BY <1>1, WipClearedEffect
<1> HIDE DEF ended, a
<1>4. ended \in Members
  BY <1>3 DEF WipCleared
<1>5. ExceptionMoved(ended, moved, c, a)
  BY <1>1, <1>4, SetActiveExceptionEffect
<1> HIDE DEF moved
<1>6. next \in Members
  BY <1>1, <1>5, AccessorPostWriteType DEF ExceptionMoved
<1> HIDE DEF next
<1>7. [next EXCEPT !.buf[c] = next.buf[a], !.buf[a] = next.buf[c]] \in Members
  BY <1>1, <1>6 DEF Members
<1>8. swapped \in Members
  BY <1>7, ReturnType
<1> HIDE DEF swapped
<1>9. VersionTaken(swapped, n, c, version)
  BY <1>1, <1>2, <1>8, VersionTakenEffect
<1>10. QED
  BY <1>9 DEF VersionTaken

LEMMA PostWriteType ==
  ASSUME GroupAssumption, GroupType, NEW t \in Members, NEW e \in Elements, NEW version \in Nat
  PROVE  PostWrite(t, e, version) \in Members
BY AccessorPostWriteType, CopyPostWriteType DEF PostWrite, Elements

-----------------------------------------------------------------------------
(* postWrite() of a correct write() *)

WriteEnded(t, n, a, version) ==
  /\ n \in Members /\ n.rip = t.rip /\ n.buf = t.buf /\ n.raw = t.raw /\ n.last = t.last
  /\ ~n.wip[a] /\ ~n.wip[RawOf[a]]
  /\ \A m \in Nodes : m # a /\ m # RawOf[a] => n.wip[m] = t.wip[m]
  /\ \A m \in Nodes : m # a /\ m # RawOf[a] => n.version[m] = t.version[m]
  /\ n.version[RawOf[a]] \in {t.version[RawOf[a]], version}
  /\ RawOf[a] \in done => n.thrown = "none" /\ n.version[a] = version
  /\ RawOf[a] \notin done => n.thrown = "runtime" /\ n.version[a] = t.version[a]
  /\ ExceptionsAgree(n)

LEMMA PostWriteEffect ==
  ASSUME GroupAssumption, GroupType, NEW t \in Members, NEW a \in Accessors, NEW version \in Nat,
         t.wip[a], opened, ExceptionsAgree(t)
  PROVE  WriteEnded(t, AccessorPostWrite(t, a, version), a, version)
<1> SUFFICES ASSUME NEW n, n = AccessorPostWrite(t, a, version) PROVE WriteEnded(t, n, a, version)
  OBVIOUS
<1> DEFINE r == RawOf[a]
           ended == [t EXCEPT !.wip[a] = FALSE]
           moved == SetActiveException(ended, a, r)
           next == RawPostWrite(moved, r, version)
<1>1. /\ a \in Nodes /\ a \in Elements /\ r \in Raws /\ r \in Nodes /\ a # r /\ r \in Used /\ r = RawOf[a]
      /\ LowLevel(a) = r
  BY Elementary DEF Nodes, Elements
<1>2. Used \subseteq Nodes /\ Elements \subseteq Nodes /\ \A e \in Elements : e \notin Used
  BY Elementary DEF Nodes
<1>3. n = IF next.thrown # "none" THEN next
          ELSE IF next.exc[a] # "none" THEN Throw(next, next.exc[a])
          ELSE [next EXCEPT !.version[a] = version]
  BY DEF AccessorPostWrite
<1>4. WipCleared(t, ended, a)
  BY <1>1, WipClearedEffect
<1> HIDE DEF ended, r
<1>5. ended \in Members
  BY <1>4 DEF WipCleared
<1>6. ExceptionMoved(ended, moved, a, r)
  BY <1>1, <1>5, SetActiveExceptionEffect
<1> HIDE DEF moved
<1>7. RawWriteEnded(moved, next, r, version)
  BY <1>1, <1>6, RawPostWriteEffect DEF ExceptionMoved
<1> HIDE DEF next
<1>7a. next \in Members
  BY <1>7 DEF RawWriteEnded
<1>8. VersionTaken(next, n, a, version)
  BY <1>1, <1>3, <1>7a, VersionTakenEffect
<1>9. n \in Members /\ n.rip = t.rip /\ n.buf = t.buf /\ n.raw = t.raw /\ n.last = t.last
  BY <1>4, <1>6, <1>7, <1>8 DEF WipCleared, ExceptionMoved, RawWriteEnded, VersionTaken
<1>10. /\ ~n.wip[a] /\ ~n.wip[r]
       /\ \A m \in Nodes : m # a /\ m # r => n.wip[m] = t.wip[m]
  BY <1>1, <1>4, <1>6, <1>7, <1>8 DEF WipCleared, ExceptionMoved, RawWriteEnded, VersionTaken
<1>11. /\ \A m \in Nodes : m # a /\ m # r => n.exc[m] = t.exc[m]
       /\ n.exc[a] = "none" /\ next.exc[a] = "none" /\ next.thrown = n.exc[r]
       /\ t.exc[a] = "none" => n.exc[r] = t.exc[r]
       /\ t.exc[a] # "none" => n.exc[r] = t.exc[a]
  BY <1>1, <1>4, <1>6, <1>7, <1>8 DEF WipCleared, ExceptionMoved, RawWriteEnded, VersionTaken
<1>12. ExceptionsAgree(n)
  <2>1. t.exc[a] = "none" \/ (t.exc[a] = "runtime" /\ r \notin done)
    BY <1>1 DEF ExceptionsAgree
  <2>2. (r \in done => n.exc[r] = "none") /\ (r \notin done => n.exc[r] = "runtime")
    BY <1>1, <1>11, <2>1 DEF ExceptionsAgree
  <2>3. \A x \in Used : x # r => n.exc[x] = t.exc[x]
    BY <1>1, <1>2, <1>11
  <2>4. \A x \in Elements : x # a => n.exc[x] = t.exc[x]
    BY <1>1, <1>2, <1>11
  <2>5. QED
    BY <1>11, <2>2, <2>3, <2>4 DEF ExceptionsAgree
<1>13. (r \in done => next.thrown = "none") /\ (r \notin done => next.thrown = "runtime")
  BY <1>1, <1>11, <1>12 DEF ExceptionsAgree
<1>14. /\ \A m \in Nodes : m # r => next.version[m] = t.version[m]
       /\ next.version[r] \in {t.version[r], version}
  BY <1>4, <1>6, <1>7 DEF WipCleared, ExceptionMoved, RawWriteEnded
<1>15. /\ \A m \in Nodes : m # a => n.version[m] = next.version[m]
       /\ r \in done => n.thrown = "none" /\ n.version[a] = version
       /\ r \notin done => n.thrown = "runtime" /\ n.version[a] = next.version[a]
  BY <1>8, <1>11, <1>13 DEF VersionTaken
<1>16. /\ \A m \in Nodes : m # a /\ m # r => n.version[m] = t.version[m]
       /\ n.version[r] \in {t.version[r], version}
       /\ r \in done => n.thrown = "none" /\ n.version[a] = version
       /\ r \notin done => n.thrown = "runtime" /\ n.version[a] = t.version[a]
  BY <1>1, <1>14, <1>15
<1>17. QED
  BY <1>1, <1>9, <1>10, <1>12, <1>16 DEF WriteEnded

-----------------------------------------------------------------------------
(* Type correctness *)

\* What depends only on the application.
LEMMA Frame ==
  ASSUME UNCHANGED app
  PROVE  /\ Copies' = Copies /\ Elements' = Elements /\ Nodes' = Nodes /\ Members' = Members
         /\ CorrectUse' = CorrectUse
         /\ \A e : LowLevel(e)' = LowLevel(e)
BY DEF Copies, Elements, Nodes, Members, CorrectUse, LowLevel, Accessor

LEMMA GroupTypeInit == ASSUME GroupAssumption, Init PROVE GroupType
<1>1. s = [rip     |-> [n \in Nodes |-> FALSE], wip |-> [n \in Nodes |-> FALSE],
           exc     |-> [n \in Nodes |-> "none"], version |-> [n \in Nodes |-> Initially],
           buf     |-> [e \in Elements |-> Initially], raw |-> [a \in Accessors |-> Initially],
           last    |-> Initially, thrown |-> "none"]
  BY DEF Init
<1>2. s \in Members
  BY <1>1 DEF Members, Data, Exceptions, Initially
<1>3. QED
  BY <1>2 DEF Init, GroupType, Data, Exceptions

LEMMA FirstOfTodo ==
  ASSUME GroupAssumption, GroupType, todo # {}, phase # "transfer"
  PROVE  First(todo) \in todo /\ First(todo) \in Elements /\ First(todo) \in Nodes
<1>1. todo \subseteq Elements
  BY DEF GroupType
<1>2. todo \in SUBSET Nat
  BY <1>1, Elementary
<1>3. First(todo) \in todo
  BY <1>2, FirstIsElement
<1>4. QED
  BY <1>1, <1>3 DEF Nodes

LEMMA GroupTypeStep == ASSUME GroupAssumption, GroupType, [Next]_vars PROVE GroupType'
<1>1. CASE UNCHANGED vars
  BY <1>1, Frame DEF vars, GroupType
<1>2. CASE Next
  <2>0. /\ UNCHANGED app
        /\ Copies' = Copies /\ Elements' = Elements /\ Nodes' = Nodes /\ Members' = Members
        /\ s \in Members
    BY <1>2, Frame DEF Next, GroupType
  <2>0a. ASSUME NEW e \in Nodes, s' \in Members PROVE FirstDetected(e) \in Exceptions
    BY <2>0a DEF FirstDetected, Members, GroupType
  <2>0b. ASSUME NEW e, e \in todo, s' \in Members, phase # "transfer", AfterPost(e), UNCHANGED phase, op # "idle"
         PROVE  /\ op' \in {op, "idle"} /\ nErrors' \in Nat
                /\ todo' \subseteq Elements /\ (op' = "idle" => todo' = {})
    BY <2>0b DEF AfterPost, GroupType
  <2>1. CASE Read
    BY <2>0, <2>1 DEF Read, Start, GroupType, Exceptions
  <2>2. ASSUME NEW version \in 1 .. MaxVersion, Write(version) PROVE GroupType'
    <3>1. version \in Nat /\ s.last \in Nat
      BY <2>0 DEF GroupAssumption, Members
    <3>2. Max({s.last, version}) \in Nat
      BY <3>1, LargerOfTwo
    <3>3. s' = [s EXCEPT !.last = Max({s.last, version})]
      BY <2>2 DEF Write
    <3>4. s' \in Members
      BY <2>0, <3>2, <3>3 DEF Members
    <3>5. QED
      BY <2>0, <2>2, <3>1, <3>4 DEF Write, Start, GroupType, Exceptions
  <2>3. CASE PreReadStep
    <3> DEFINE e == First(todo)
    <3>1. e \in todo /\ e \in Elements /\ e \in Nodes
      BY <2>3, FirstOfTodo DEF PreReadStep
    <3>2. s' = PreRead(s, e) /\ first' = FirstDetected(e)
      BY <2>3 DEF PreReadStep
    <3> HIDE DEF e
    <3>3. s' \in Members
      BY <2>0, <3>1, <3>2, PreReadType
    <3>4. first' \in Exceptions
      BY <2>0a, <3>1, <3>2, <3>3
    <3>5. QED
      BY <2>0, <2>3, <3>3, <3>4 DEF PreReadStep, GroupType
  <2>4. CASE PreWriteStep
    <3> DEFINE e == First(todo)
    <3>1. e \in todo /\ e \in Elements /\ e \in Nodes
      BY <2>4, FirstOfTodo DEF PreWriteStep
    <3>2. s' = PreWrite(s, e, wanted) /\ first' = FirstDetected(e)
      BY <2>4 DEF PreWriteStep
    <3> HIDE DEF e
    <3>3. s' \in Members
      <4>1. wanted \in Nat
        BY DEF GroupType
      <4>2. QED
        BY <2>0, <3>1, <3>2, <4>1, PreWriteType
    <3>4. first' \in Exceptions
      BY <2>0a, <3>1, <3>2, <3>3
    <3>5. QED
      BY <2>0, <2>4, <3>3, <3>4 DEF PreWriteStep, GroupType
  <2>5. ASSUME NEW r \in Raws, NEW ok \in TransferOutcomes, TransferStep(r, ok) PROVE GroupType'
    <3>0. r \in Nodes /\ op # "idle" /\ phase = "transfer"
      BY <2>5 DEF Nodes, TransferStep, GroupType
    <3>1. CASE ok
      <4> DEFINE raws == [a \in Accessors |-> IF a \in Slices(r) THEN hw[a] ELSE s.raw[a]]
      <4>1. raws \in [Accessors -> Data] /\ hw \in [Accessors -> Data] /\ s.raw \in [Accessors -> Data]
        BY <2>0 DEF GroupType, Members
      <4>2. s' = s \/ s' = [s EXCEPT !.raw = raws]
        BY <2>5, <3>1 DEF TransferStep
      <4>3. s' \in Members
        BY <2>0, <4>1, <4>2 DEF Members
      <4>4. hw' \in [Accessors -> Data]
        BY <2>5, <3>1, <4>1 DEF TransferStep
      <4>5. done' \subseteq Raws /\ first' = first
        BY <2>5, <3>1 DEF TransferStep, GroupType
      <4>6. todo' \subseteq Raws /\ UNCHANGED <<opened, error, op, phase, nErrors, wanted>>
        BY <2>5, <3>0 DEF TransferStep, GroupType
      <4>7. QED
        BY <2>0, <3>0, <4>3, <4>4, <4>5, <4>6 DEF GroupType
    <3>2. CASE ~ok
      <4>1. s' = [s EXCEPT !.exc[r] = "runtime"] /\ first' = FirstDetected(r) /\ UNCHANGED <<hw, done>>
        BY <2>5, <3>2 DEF TransferStep
      <4>2. s' \in Members
        BY <2>0, <3>0, <4>1 DEF Members, Exceptions
      <4>3. first' \in Exceptions
        BY <2>0a, <3>0, <4>1, <4>2
      <4>4. todo' \subseteq Raws /\ UNCHANGED <<opened, error, op, phase, nErrors, wanted>>
        BY <2>5, <3>0 DEF TransferStep, GroupType
      <4>5. QED
        BY <2>0, <3>0, <4>1, <4>2, <4>3, <4>4 DEF GroupType
    <3>3. QED
      BY <3>1, <3>2
  <2>6. CASE PostReadStep
    <3> DEFINE e == First(todo)
               t == WithLowLevelException(s, e)
    <3>1. e \in todo /\ e \in Elements /\ e \in Nodes
      BY <2>6, FirstOfTodo DEF PostReadStep
    <3>2. s' = PostRead(t, e, first = "none") /\ AfterPost(e)
      BY <2>6 DEF PostReadStep
    <3> HIDE DEF e
    <3>3. t \in Members
      BY <2>0, <3>1, WithLowLevelExceptionEffect DEF ExceptionCopied
    <3> HIDE DEF t
    <3>4. s' \in Members
      BY <2>0, <3>1, <3>2, <3>3, PostReadType
    <3>5. /\ op' \in {op, "idle"} /\ nErrors' \in Nat
          /\ todo' \subseteq Elements /\ (op' = "idle" => todo' = {})
      BY <2>0b, <2>6, <3>1, <3>2, <3>4 DEF PostReadStep
    <3>6. error' \in BOOLEAN /\ UNCHANGED <<opened, hw, phase, first, wanted, done>>
          /\ op = "read" /\ phase # "transfer"
      BY <2>6 DEF PostReadStep
    <3>7. QED
      BY <2>0, <3>4, <3>5, <3>6 DEF GroupType
  <2>7. CASE PostWriteStep
    <3> DEFINE e == First(todo)
               t == WithLowLevelException(s, e)
    <3>1. e \in todo /\ e \in Elements /\ e \in Nodes
      BY <2>7, FirstOfTodo DEF PostWriteStep
    <3>2. s' = PostWrite(t, e, wanted) /\ AfterPost(e) /\ wanted \in Nat
      BY <2>7 DEF PostWriteStep, GroupType
    <3> HIDE DEF e
    <3>3. t \in Members
      BY <2>0, <3>1, WithLowLevelExceptionEffect DEF ExceptionCopied
    <3> HIDE DEF t
    <3>4. s' \in Members
      BY <2>0, <3>1, <3>2, <3>3, PostWriteType
    <3>5. /\ op' \in {op, "idle"} /\ nErrors' \in Nat
          /\ todo' \subseteq Elements /\ (op' = "idle" => todo' = {})
      BY <2>0b, <2>7, <3>1, <3>2, <3>4 DEF PostWriteStep
    <3>6. UNCHANGED <<opened, error, hw, phase, first, wanted, done>> /\ op = "write" /\ phase = "post"
      BY <2>7 DEF PostWriteStep
    <3>7. QED
      BY <2>0, <3>4, <3>5, <3>6 DEF GroupType
  <2>8. CASE NextPhase
    <3>1. Used \subseteq Raws /\ Copies \subseteq Elements
      BY Elementary DEF Elements
    <3>2. phase' = "transfer" => todo' = Used
      BY <2>8 DEF NextPhase, Used
    <3>3. phase' # "transfer" => todo' \in {Elements, Copies}
      BY <2>8 DEF NextPhase
    <3>4. /\ phase' \in {"transfer", "copies", "post"} /\ nErrors' = 0 /\ op # "idle"
          /\ op = "write" /\ phase # "copies" => phase' # "copies"
          /\ UNCHANGED <<opened, error, hw, s, op, first, wanted, done>>
      BY <2>8 DEF NextPhase
    <3>5. QED
      BY <2>0, <3>1, <3>2, <3>3, <3>4 DEF GroupType
  <2>9. CASE Finish
    BY <2>0, <2>9 DEF Finish, GroupType
  <2>10. ASSUME NEW a \in Accessors, NEW v \in Values, SetBuffer(a, v) PROVE GroupType'
    <3>1. s' = [s EXCEPT !.buf[a] = v] /\ v \in Data /\ a \in Elements
      BY <2>10 DEF SetBuffer, Data, Elements
    <3>2. s' \in Members
      BY <2>0, <3>1 DEF Members
    <3>3. QED
      BY <2>0, <2>10, <3>2 DEF SetBuffer, groupVars, GroupType
  <2>11. ASSUME NEW a \in Accessors, NEW v \in Values, RegisterChanges(a, v) PROVE GroupType'
    <3>1. hw' \in [Accessors -> Data]
      BY <2>11 DEF RegisterChanges, GroupType, Data
    <3>2. QED
      BY <2>0, <2>11, <3>1 DEF RegisterChanges, groupVars, GroupType
  <2>12. CASE SetException \/ Open \/ Close
    BY <2>0, <2>12 DEF SetException, Open, Close, groupVars, GroupType
  <2>13. QED
    BY <1>2, <2>1, <2>2, <2>3, <2>4, <2>5, <2>6, <2>7, <2>8, <2>9, <2>10, <2>11, <2>12 DEF Next, GroupStep
<1>3. QED
  BY <1>1, <1>2

-----------------------------------------------------------------------------
(* Steps of a correct application *)

\* Members which are as they should be stay so in the next state.
LEMMA NextMembers ==
  ASSUME UNCHANGED <<app, first, done, before>>
  PROVE  /\ VersionsAreOld(s') => VersionsAreOld(s)'
         /\ KeepsOld(s') => KeepsOld(s)'
         /\ ExceptionsAgree(s') => ExceptionsAgree(s)'
         /\ EndedTogether(s') => EndedTogether(s)'
         /\ Filled(s') => Filled(s)'
         /\ CopiesFilled(s', Copies) => CopiesFilled(s, Copies)'
<1>1. /\ Copies' = Copies /\ Elements' = Elements /\ Nodes' = Nodes
      /\ \A e : LowLevel(e)' = LowLevel(e)
  BY Frame
<1>2. Used' = Used
  BY DEF Used
<1>3. /\ VersionsAreOld(s') => VersionsAreOld(s)'
      /\ KeepsOld(s') => KeepsOld(s)'
      /\ EndedTogether(s') => EndedTogether(s)'
  BY <1>1 DEF VersionsAreOld, KeepsOld, EndedTogether
<1>4. ExceptionsAgree(s') => ExceptionsAgree(s)'
  BY <1>1, <1>2 DEF ExceptionsAgree
<1>5. Filled(s') => Filled(s)'
  BY <1>1, <1>2 DEF Filled, Unchanged
<1>6. CopiesFilled(s', Copies) => CopiesFilled(s, Copies)'
  BY <1>1 DEF CopiesFilled
<1>7. QED
  BY <1>3, <1>4, <1>5, <1>6

LEMMA CorrectInvInit == ASSUME GroupAssumption, Init PROVE CorrectInv
<1>1. \A n \in Nodes : ~s.rip[n] /\ ~s.wip[n] /\ s.version[n] = 0
  BY DEF Init, Initially
<1>2. s.last = 0 /\ op = "idle" /\ nErrors = 0
  BY DEF Init, Initially
<1>3. IdleInv /\ VersionsAreOld(s)
  BY <1>1, <1>2 DEF IdleInv, VersionsAreOld
<1>4. QED
  BY <1>2, <1>3 DEF CorrectInv

LEMMA ReadKeeps ==
  ASSUME GroupAssumption, GroupInvariant, CorrectUse, UNCHANGED app, Read
  PROVE  CorrectInv'
<1>1. /\ GroupType /\ s \in Members /\ IdleInv /\ VersionsAreOld(s)
  BY DEF GroupInvariant, GroupType, CorrectInv
<1>2. /\ op = "idle" /\ op' = "read" /\ phase' = "pre" /\ todo' = Elements /\ first' = "none"
      /\ nErrors' = 0 /\ done' = {} /\ opened' = opened /\ s' = s /\ opened /\ WriteOnly = {}
      /\ before' = [buf |-> s.buf, version |-> s.version]
  BY DEF Read, Start
<1>3. Copies' = Copies /\ Elements' = Elements /\ Nodes' = Nodes
  BY Frame
<1>4. before'.buf = s.buf /\ before'.version = s.version
  BY <1>2
<1>5. IdleInv' /\ TransferInv'
  BY <1>2, <1>3 DEF IdleInv, TransferInv
<1>6. VersionsAreOld(s)'
  BY <1>1, <1>2, <1>3 DEF VersionsAreOld
<1>7. Elements \subseteq Nodes /\ Raws \subseteq Nodes /\ Accessors \subseteq Elements
  BY DEF Nodes, Elements
<1>8. KeepsOld(s)'
  <2>1. \A e \in Elements : s.version[e] \in Nat /\ s.version[e] <= s.last /\ s.last \in Nat
    BY <1>1, <1>7 DEF Members, VersionsAreOld
  <2>2. \A e \in Elements : before'.version[e] \in 0 .. s'.last
    BY <1>2, <1>4, <2>1
  <2>3. QED
    BY <1>3, <2>2 DEF KeepsOld
<1>9. Unchanged(s)'
  BY <1>2, <1>3, <1>4 DEF Unchanged
<1>10. \A n \in Nodes : ~s'.rip[n] /\ ~s'.wip[n]
  BY <1>1, <1>2 DEF IdleInv
<1>11. \A e \in Elements : s'.rip[e] <=> e \notin todo'
  BY <1>2, <1>7, <1>10
<1>12. Used \subseteq Nodes /\ Used' = Used
  BY <1>1, <1>7, Elementary DEF Used
<1>13. ReadInv'
  BY <1>2, <1>3, <1>7, <1>8, <1>9, <1>10, <1>11, <1>12 DEF ReadInv
<1>14. QED
  BY <1>2, <1>5, <1>6, <1>13 DEF CorrectInv

LEMMA WriteKeeps ==
  ASSUME GroupAssumption, GroupInvariant, CorrectUse, UNCHANGED app, NEW version \in 1 .. MaxVersion, Write(version)
  PROVE  CorrectInv'
<1>1. /\ GroupType /\ s \in Members /\ IdleInv /\ VersionsAreOld(s)
  BY DEF GroupInvariant, GroupType, CorrectInv
<1>2. /\ op = "idle" /\ op' = "write" /\ phase' = "pre" /\ todo' = Elements /\ first' = "none"
      /\ nErrors' = 0 /\ done' = {} /\ opened' = opened /\ opened /\ ReadOnly = {} /\ Copies = {}
      /\ before' = [buf |-> s.buf, version |-> s.version]
      /\ s' = [s EXCEPT !.last = Max({s.last, version})] /\ version > s.last /\ wanted' = version
  BY DEF Write, Start
<1>3. Copies' = Copies /\ Elements' = Elements /\ Nodes' = Nodes
  BY Frame
<1>4. version \in Nat /\ s.last \in Nat
  BY <1>1 DEF GroupAssumption, Members
<1>5. s'.last = version
  <2>1. Max({s.last, version}) \in {s.last, version} /\ Max({s.last, version}) >= version
    BY <1>4, LargerOfTwo
  <2>2. Max({s.last, version}) = version
    BY <1>2, <1>4, <2>1
  <2>3. QED
    BY <1>1, <1>2, <2>2 DEF Members
<1>6. s'.rip = s.rip /\ s'.wip = s.wip /\ s'.exc = s.exc /\ s'.version = s.version
  BY <1>1, <1>2 DEF Members
<1>7. IdleInv' /\ TransferInv'
  BY <1>2, <1>3 DEF IdleInv, TransferInv
<1>8. \A n \in Nodes : s'.version[n] < version
  BY <1>1, <1>2, <1>4, <1>6 DEF Members, VersionsAreOld
<1>9. VersionsAreOld(s)'
  <2>1. \A n \in Nodes : s'.version[n] <= version
    BY <1>1, <1>4, <1>6, <1>8 DEF Members
  <2>2. QED
    BY <1>3, <1>5, <2>1 DEF VersionsAreOld
<1>10. /\ Elements \subseteq Nodes /\ Raws \subseteq Nodes /\ Accessors = Elements
       /\ Used \subseteq Nodes /\ Used' = Used
  BY <1>1, <1>2, Elementary DEF Nodes, Elements, Used
<1>11. \A n \in Nodes : ~s'.rip[n] /\ ~s'.wip[n]
  BY <1>1, <1>2, <1>6 DEF IdleInv
<1>12. \A a \in Accessors : s'.wip[a] <=> a \notin todo'
  BY <1>2, <1>10, <1>11
<1>13. wanted' <= s'.last
  BY <1>2, <1>4, <1>5
<1>14. \A a \in Accessors : s'.version[a] = before'.version[a]
  BY <1>2, <1>6
<1>15. WriteInv'
  BY <1>2, <1>3, <1>8, <1>10, <1>11, <1>12, <1>13, <1>14 DEF WriteInv
<1>16. QED
  BY <1>2, <1>7, <1>9, <1>15 DEF CorrectInv

LEMMA PreReadKeeps ==
  ASSUME GroupAssumption, GroupInvariant, GroupType', CorrectUse, UNCHANGED app, PreReadStep
  PROVE  CorrectInv'
<1> DEFINE e == First(todo)
<1>1. /\ GroupType /\ s \in Members /\ s' \in Members /\ VersionsAreOld(s) /\ TransferInv /\ ReadInv
  BY Frame DEF GroupInvariant, GroupType, CorrectInv, PreReadStep
<1>2. /\ op = "read" /\ phase = "pre" /\ todo # {} /\ s' = PreRead(s, e) /\ first' = FirstDetected(e)
      /\ todo' = todo \ {e}
      /\ UNCHANGED <<opened, error, hw, op, phase, nErrors, wanted, done, before, outcome>>
  BY DEF PreReadStep
<1>3. e \in todo /\ e \in Elements /\ e \in Nodes
  BY <1>1, <1>2, FirstOfTodo
<1>4. Copies' = Copies /\ Elements' = Elements /\ Nodes' = Nodes /\ Used' = Used
  BY Frame DEF Used
<1> HIDE DEF e
<1>5. ~s.rip[e] /\ opened /\ WriteOnly = {} /\ first = "none" /\ done = {}
  BY <1>1, <1>2, <1>3 DEF ReadInv, TransferInv
<1>6. ReadBegun(s, s', e)
  BY <1>1, <1>2, <1>3, <1>5, PreReadEffect
<1>7. /\ s'.wip = s.wip /\ s'.version = s.version /\ s'.buf = s.buf /\ s'.raw = s.raw /\ s'.last = s.last
      /\ s'.rip[e] /\ s'.exc[e] = "none"
  BY <1>6 DEF ReadBegun
<1>8. first' = "none"
  BY <1>2, <1>5, <1>7 DEF FirstDetected
<1>9. IdleInv' /\ TransferInv'
  BY <1>1, <1>2, <1>4, <1>5, <1>8 DEF IdleInv, TransferInv
<1>10. VersionsAreOld(s)' /\ KeepsOld(s)' /\ Unchanged(s)'
  BY <1>1, <1>2, <1>4, <1>7 DEF VersionsAreOld, KeepsOld, Unchanged, ReadInv
<1>11. /\ \A m \in Nodes : m # e => (s'.rip[m] <=> s.rip[m] \/ (e \in Accessors /\ m = RawOf[e]))
       /\ e \in Accessors /\ ~s.rip[RawOf[e]] => s'.exc[RawOf[e]] = "none"
       /\ \A m \in Nodes : m # e /\ ~(e \in Accessors /\ m = RawOf[e] /\ ~s.rip[m]) => s'.exc[m] = s.exc[m]
  BY <1>6 DEF ReadBegun
<1>12. /\ Elements \subseteq Nodes /\ Raws \subseteq Nodes /\ Accessors \subseteq Elements /\ Used \subseteq Raws
       /\ \A x \in Elements : x \notin Raws
       /\ \A a \in Accessors : RawOf[a] \in Used
  BY <1>1, Elementary DEF Nodes, Elements
<1>13. \A x \in Elements : s'.rip[x] <=> x \notin todo'
  <2>1. \A x \in Elements : x # e => (s'.rip[x] <=> s.rip[x])
    BY <1>11, <1>12
  <2>2. \A x \in Elements : s.rip[x] <=> x \notin todo
    BY <1>1, <1>2 DEF ReadInv
  <2>3. QED
    BY <1>2, <1>7, <2>1, <2>2
<1>14. \A x \in Elements \ todo' : s'.exc[x] = "none"
  <2>1. \A x \in Elements : x # e => s'.exc[x] = s.exc[x]
    BY <1>11, <1>12
  <2>2. \A x \in Elements \ todo : s.exc[x] = "none"
    BY <1>1, <1>2 DEF ReadInv
  <2>3. QED
    BY <1>2, <1>7, <2>1, <2>2
<1>15. \A a \in Accessors \ todo' : s'.rip[RawOf[a]]
  <2>1. \A a \in Accessors \ todo : s.rip[RawOf[a]]
    BY <1>1, <1>2 DEF ReadInv
  <2>2. \A a \in Accessors : RawOf[a] # e /\ RawOf[a] \in Nodes
    BY <1>3, <1>12
  <2>3. ASSUME NEW a \in Accessors, a \notin todo' PROVE s'.rip[RawOf[a]]
    <3>1. a = e \/ a \notin todo
      BY <1>2, <2>3
    <3>2. a = e \/ s.rip[RawOf[a]]
      BY <2>1, <3>1
    <3>3. QED
      BY <1>11, <2>2, <3>2
  <2>4. QED
    BY <2>3
<1>16. \A r \in Used : s'.rip[r] => s'.exc[r] = "none"
  <2>1. \A r \in Used : s.rip[r] => s.exc[r] = "none"
    BY <1>1, <1>2 DEF ReadInv
  <2>2. \A r \in Used : r # e /\ r \in Nodes
    BY <1>3, <1>12
  <2>3. ASSUME NEW r \in Used, s'.rip[r] PROVE s'.exc[r] = "none"
    <3>1. s.rip[r] \/ (e \in Accessors /\ r = RawOf[e])
      BY <1>11, <2>2, <2>3
    <3>2. CASE s.rip[r]
      BY <1>11, <2>1, <2>2, <3>2
    <3>3. CASE ~s.rip[r]
      BY <1>11, <3>1, <3>3
    <3>4. QED
      BY <3>2, <3>3
  <2>4. QED
    BY <2>3
<1>17. \A r \in Raws : s'.rip[r] => r \in Used
  <2>1. \A r \in Raws : s.rip[r] => r \in Used
    BY <1>1 DEF ReadInv
  <2>2. \A r \in Raws : r # e /\ r \in Nodes
    BY <1>3, <1>12
  <2>3. QED
    BY <1>11, <1>12, <2>1, <2>2
<1>18. \A n \in Nodes : ~s'.wip[n]
  BY <1>1, <1>7 DEF ReadInv
<1>19. ReadInv'
  BY <1>2, <1>4, <1>5, <1>10, <1>13, <1>14, <1>15, <1>16, <1>17, <1>18 DEF ReadInv
<1>20. QED
  BY <1>2, <1>9, <1>10, <1>19 DEF CorrectInv

LEMMA PreWriteKeeps ==
  ASSUME GroupAssumption, GroupInvariant, GroupType', CorrectUse, UNCHANGED app, PreWriteStep
  PROVE  CorrectInv'
<1> DEFINE e == First(todo)
<1>1. /\ GroupType /\ s \in Members /\ s' \in Members /\ VersionsAreOld(s) /\ TransferInv /\ WriteInv
      /\ wanted \in Nat
  BY Frame DEF GroupInvariant, GroupType, CorrectInv, PreWriteStep
<1>2. /\ op = "write" /\ phase = "pre" /\ todo # {} /\ s' = PreWrite(s, e, wanted) /\ first' = FirstDetected(e)
      /\ todo' = todo \ {e}
      /\ UNCHANGED <<opened, error, hw, op, phase, nErrors, wanted, done, before, outcome>>
  BY DEF PreWriteStep
<1>3. e \in todo /\ e \in Elements /\ e \in Nodes /\ Elements = Accessors
  BY <1>1, <1>2, FirstOfTodo DEF WriteInv, Elements
<1>4. Copies' = Copies /\ Elements' = Elements /\ Nodes' = Nodes /\ Used' = Used
  BY Frame DEF Used
<1> HIDE DEF e
<1>5. /\ ~s.wip[e] /\ opened /\ ReadOnly = {} /\ first = "none" /\ done = {}
      /\ \A m \in Nodes : s.version[m] < wanted
  BY <1>1, <1>2, <1>3 DEF WriteInv, TransferInv
<1>6. WriteBegun(s, s', e)
  BY <1>1, <1>2, <1>3, <1>5, PreWriteEffect
<1>7. /\ s'.rip = s.rip /\ s'.version = s.version /\ s'.buf = s.buf /\ s'.last = s.last
      /\ s'.wip[e] /\ s'.exc[e] = "none" /\ s'.wip[RawOf[e]]
  BY <1>6 DEF WriteBegun
<1>8. first' = "none"
  BY <1>2, <1>5, <1>7 DEF FirstDetected
<1>9. IdleInv' /\ TransferInv'
  BY <1>1, <1>2, <1>4, <1>5, <1>8 DEF IdleInv, TransferInv
<1>10. VersionsAreOld(s)'
  BY <1>1, <1>2, <1>4, <1>7 DEF VersionsAreOld
<1>11. /\ \A m \in Nodes : m # e /\ m # RawOf[e] => s'.wip[m] = s.wip[m] /\ s'.exc[m] = s.exc[m]
       /\ s.wip[RawOf[e]] => s'.exc[RawOf[e]] = s.exc[RawOf[e]]
       /\ ~s.wip[RawOf[e]] => s'.exc[RawOf[e]] = "none"
       /\ s'.raw[e] = s.buf[e]
       /\ \A a \in Accessors : a # e => s'.raw[a] = s.raw[a]
  BY <1>6 DEF WriteBegun
<1>12. /\ Accessors \subseteq Nodes /\ Raws \subseteq Nodes /\ Used \subseteq Raws
       /\ \A x \in Accessors : x \notin Raws
       /\ \A a \in Accessors : RawOf[a] \in Used
  BY <1>1, <1>3, Elementary DEF Nodes, Elements
<1>13. \A x \in Accessors : s'.wip[x] <=> x \notin todo'
  <2>1. \A x \in Accessors : x # e => (s'.wip[x] <=> s.wip[x])
    BY <1>3, <1>11, <1>12
  <2>2. \A x \in Accessors : s.wip[x] <=> x \notin todo
    BY <1>1, <1>2 DEF WriteInv
  <2>3. QED
    BY <1>2, <1>7, <2>1, <2>2
<1>14. \A a \in Accessors \ todo' : s'.exc[a] = "none" /\ s'.wip[RawOf[a]]
  <2>1. \A a \in Accessors : RawOf[a] # e /\ RawOf[a] \in Nodes /\ a # RawOf[e] /\ a \in Nodes
    BY <1>3, <1>12
  <2>2. \A a \in Accessors \ todo : s.exc[a] = "none" /\ s.wip[RawOf[a]]
    BY <1>1, <1>2 DEF WriteInv
  <2>3. ASSUME NEW a \in Accessors, a \notin todo' PROVE s'.exc[a] = "none" /\ s'.wip[RawOf[a]]
    <3>1. CASE a = e
      BY <1>7, <3>1
    <3>2. CASE a # e
      <4>1. a \notin todo
        BY <1>2, <2>3, <3>2
      <4>2. s.exc[a] = "none" /\ s.wip[RawOf[a]]
        BY <2>2, <4>1
      <4>3. s'.exc[a] = "none"
        BY <1>11, <2>1, <3>2, <4>2
      <4>4. CASE RawOf[a] = RawOf[e]
        BY <1>7, <4>3, <4>4
      <4>5. CASE RawOf[a] # RawOf[e]
        BY <1>11, <2>1, <4>2, <4>3, <4>5
      <4>6. QED
        BY <4>4, <4>5
    <3>3. QED
      BY <3>1, <3>2
  <2>4. QED
    BY <2>3
<1>15. \A r \in Used : s'.wip[r] => s'.exc[r] = "none"
  <2>1. \A r \in Used : s.wip[r] => s.exc[r] = "none"
    BY <1>1, <1>2 DEF WriteInv
  <2>2. \A r \in Used : r # e /\ r \in Nodes
    BY <1>3, <1>12
  <2>3. RawOf[e] \in Used
    BY <1>3, <1>12
  <2>4. s'.exc[RawOf[e]] = "none"
    BY <1>11, <2>1, <2>3
  <2>5. QED
    BY <1>11, <2>1, <2>2, <2>4
<1>16. \A r \in Raws : s'.wip[r] => r \in Used
  <2>1. \A r \in Raws : s.wip[r] => r \in Used
    BY <1>1 DEF WriteInv
  <2>2. \A r \in Raws : r # e /\ r \in Nodes
    BY <1>3, <1>12
  <2>3. QED
    BY <1>3, <1>11, <1>12, <2>1, <2>2
<1>17. \A a \in Accessors : a \notin todo' => s'.raw[a] = s'.buf[a]
  <2>1. \A a \in Accessors : a \notin todo => s.raw[a] = s.buf[a]
    BY <1>1, <1>2 DEF WriteInv
  <2>2. QED
    BY <1>2, <1>7, <1>11, <2>1
<1>18. \A n \in Nodes : ~s'.rip[n]
  BY <1>1, <1>7 DEF WriteInv
<1>19. \A a \in Accessors : s'.version[a] = before.version[a]
  BY <1>1, <1>2, <1>7 DEF WriteInv
<1>20. wanted' <= s'.last /\ \A n \in Nodes : s'.version[n] < wanted'
  BY <1>1, <1>2, <1>5, <1>7 DEF WriteInv
<1>21. opened' /\ ReadOnly = {} /\ Copies' = {} /\ phase' = "pre" /\ before' = before
  BY <1>1, <1>2, <1>4 DEF WriteInv
<1>22. WriteInv'
  BY <1>4, <1>13, <1>14, <1>15, <1>16, <1>17, <1>18, <1>19, <1>20, <1>21 DEF WriteInv
<1>23. QED
  BY <1>2, <1>9, <1>10, <1>22 DEF CorrectInv

LEMMA TransferKeeps ==
  ASSUME GroupAssumption, GroupInvariant, CorrectUse, UNCHANGED app,
         NEW r \in Raws, NEW ok \in TransferOutcomes, TransferStep(r, ok)
  PROVE  CorrectInv'
<1>1. /\ phase = "transfer" /\ r \in todo /\ todo' = todo \ {r}
      /\ UNCHANGED <<opened, error, op, phase, nErrors, wanted, before, outcome>>
  BY DEF TransferStep
<1>2. op \in {"read", "write"}
  BY <1>1 DEF GroupInvariant, GroupType
<1>3. /\ GroupType /\ s \in Members /\ VersionsAreOld(s) /\ TransferInv
      /\ op = "read" => ReadInv
      /\ op = "write" => WriteInv
  BY <1>2 DEF GroupInvariant, GroupType, CorrectInv
<1>4. Copies' = Copies /\ Elements' = Elements /\ Nodes' = Nodes /\ Used' = Used
  BY Frame DEF Used
<1>5. /\ todo \subseteq Used
      /\ \A e \in Elements : s.exc[e] = "none"
      /\ \A x \in todo : s.exc[x] = "none" /\ x \notin done
      /\ \A x \in Used \ todo : x \in done => s.exc[x] = "none"
      /\ \A x \in Used \ todo : x \notin done => s.exc[x] = "runtime"
      /\ first = "none" <=> Used \ todo \subseteq done
      /\ first \in {"none", "runtime"} /\ done \subseteq Used
      /\ nErrors # 0 => first = "runtime" /\ (op = "read" => error)
  BY <1>1, <1>3 DEF TransferInv
<1>6. Elements \subseteq Nodes /\ Used \subseteq Nodes /\ r \in Used /\ \A e \in Elements : e # r
  BY <1>1, <1>3, <1>5, Elementary DEF Nodes
<1>7. CASE ok
  <2>1. /\ s' = IF op = "read"
                THEN [s EXCEPT !.raw = [a \in Accessors |-> IF a \in Slices(r) THEN hw[a] ELSE s.raw[a]]]
                ELSE s
        /\ done' = done \cup {r} /\ first' = first
    BY <1>7 DEF TransferStep
  <2>2. /\ s'.rip = s.rip /\ s'.wip = s.wip /\ s'.exc = s.exc /\ s'.version = s.version /\ s'.buf = s.buf
        /\ s'.last = s.last
        /\ op = "write" => s'.raw = s.raw
    BY <1>2, <1>3, <2>1 DEF Members
  <2>3. TransferInv'
    <3>1. todo' \subseteq Used /\ done' \subseteq Used /\ first' \in {"none", "runtime"} /\ phase' = "transfer"
      BY <1>1, <1>5, <1>6, <2>1
    <3>2. \A e \in Elements : s'.exc[e] = "none"
      BY <1>5, <2>2
    <3>3. \A x \in todo' : s'.exc[x] = "none" /\ x \notin done'
      BY <1>1, <1>5, <2>1, <2>2
    <3>4. \A x \in Used \ todo' : x \in done' => s'.exc[x] = "none"
      BY <1>1, <1>5, <2>1, <2>2
    <3>5. \A x \in Used \ todo' : x \notin done' => s'.exc[x] = "runtime"
      BY <1>1, <1>5, <2>1, <2>2
    <3>6. first' = "none" <=> Used \ todo' \subseteq done'
      BY <1>1, <1>5, <1>6, <2>1
    <3>7. nErrors' # 0 => first' = "runtime" /\ (op' = "read" => error')
      BY <1>1, <1>5, <2>1
    <3>8. QED
      BY <1>4, <3>1, <3>2, <3>3, <3>4, <3>5, <3>6, <3>7 DEF TransferInv
  <2>4. VersionsAreOld(s)' /\ IdleInv'
    BY <1>1, <1>2, <1>3, <1>4, <2>2 DEF VersionsAreOld, IdleInv
  <2>5. op = "read" => ReadInv'
    BY <1>1, <1>3, <1>4, <2>2 DEF ReadInv, KeepsOld, Unchanged
  <2>6. op = "write" => WriteInv'
    BY <1>1, <1>3, <1>4, <2>2 DEF WriteInv
  <2>7. QED
    BY <1>1, <2>3, <2>4, <2>5, <2>6 DEF CorrectInv
<1>8. CASE ~ok
  <2>1. s' = [s EXCEPT !.exc[r] = "runtime"] /\ first' = FirstDetected(r) /\ done' = done
    BY <1>8 DEF TransferStep
  <2>2. /\ s'.rip = s.rip /\ s'.wip = s.wip /\ s'.version = s.version /\ s'.buf = s.buf
        /\ s'.last = s.last /\ s'.raw = s.raw
        /\ s'.exc[r] = "runtime" /\ \A m \in Nodes : m # r => s'.exc[m] = s.exc[m]
    BY <1>3, <1>6, <2>1 DEF Members
  <2>3. first' = "runtime"
    BY <1>5, <2>1, <2>2 DEF FirstDetected
  <2>4. TransferInv'
    <3>1. todo' \subseteq Used /\ done' \subseteq Used /\ first' \in {"none", "runtime"} /\ phase' = "transfer"
      BY <1>1, <1>5, <1>6, <2>1, <2>3
    <3>2. \A e \in Elements : s'.exc[e] = "none"
      BY <1>5, <1>6, <2>2
    <3>3. \A x \in todo' : s'.exc[x] = "none" /\ x \notin done'
      BY <1>1, <1>5, <1>6, <2>1, <2>2
    <3>4. \A x \in Used \ todo' : x \in done' => s'.exc[x] = "none"
      BY <1>1, <1>5, <1>6, <2>1, <2>2
    <3>5. \A x \in Used \ todo' : x \notin done' => s'.exc[x] = "runtime"
      BY <1>1, <1>5, <1>6, <2>1, <2>2
    <3>6. first' = "none" <=> Used \ todo' \subseteq done'
      BY <1>1, <1>5, <1>6, <2>1, <2>3
    <3>7. nErrors' # 0 => first' = "runtime" /\ (op' = "read" => error')
      BY <1>1, <1>5, <2>3
    <3>8. QED
      BY <1>4, <3>1, <3>2, <3>3, <3>4, <3>5, <3>6, <3>7 DEF TransferInv
  <2>5. VersionsAreOld(s)' /\ IdleInv'
    BY <1>1, <1>2, <1>3, <1>4, <2>2 DEF VersionsAreOld, IdleInv
  <2>6. op = "read" => ReadInv'
    BY <1>1, <1>3, <1>4, <2>2 DEF ReadInv, KeepsOld, Unchanged
  <2>7. op = "write" => WriteInv'
    BY <1>1, <1>3, <1>4, <2>2 DEF WriteInv
  <2>8. QED
    BY <1>1, <2>4, <2>5, <2>6, <2>7 DEF CorrectInv
<1>9. QED
  BY <1>7, <1>8 DEF TransferOutcomes

\* All post functions throw a runtime_error or nothing, so the operation goes on.
LEMMA PostReadStepKeeps ==
  ASSUME GroupAssumption, GroupInvariant, CorrectUse, UNCHANGED app, PostReadStep
  PROVE  CorrectInv' /\ op' = op
<1> DEFINE e == First(todo)
<1>1. /\ op = "read" /\ phase \in {"copies", "post"} /\ todo # {}
      /\ s' = PostRead(WithLowLevelException(s, e), e, first = "none")
      /\ error' = (error \/ s'.thrown = "runtime")
      /\ AfterPost(e)
      /\ UNCHANGED <<opened, hw, phase, first, wanted, done, before>>
  BY DEF PostReadStep
<1>2. GroupType /\ s \in Members /\ VersionsAreOld(s) /\ TransferInv /\ ReadInv
  BY <1>1 DEF GroupInvariant, GroupType, CorrectInv
<1>3. e \in todo /\ e \in Elements /\ e \in Nodes
  BY <1>1, <1>2, FirstOfTodo
<1>4. Copies' = Copies /\ Elements' = Elements /\ Nodes' = Nodes /\ Used' = Used
      /\ \A x : LowLevel(x)' = LowLevel(x)
  BY Frame DEF Used
<1> HIDE DEF e
<1>5. /\ opened /\ WriteOnly = {} /\ \A n \in Nodes : ~s.wip[n]
      /\ KeepsOld(s) /\ EndedTogether(s) /\ Filled(s) /\ CopiesFilled(s, Copies)
      /\ \A r \in Raws : s.rip[r] => r \in Used
  BY <1>1, <1>2 DEF ReadInv
<1>6. /\ first \in {"none", "runtime"} /\ done \subseteq Used /\ ExceptionsAgree(s)
      /\ first = "none" <=> done = Used
      /\ nErrors # 0 => first = "runtime" /\ error
      /\ phase = "post" => \A x \in Elements \ todo : LowLevel(x) \notin done => nErrors # 0
  BY <1>1, <1>2 DEF TransferInv
<1>7. ReadMembers(s)
  BY <1>2, <1>5, <1>6 DEF ReadMembers
<1>8. ReadKept(s, s', e)
  BY <1>1, <1>2, <1>3, <1>5, <1>6, <1>7, PostReadOfGroup
<1>9. /\ s' \in Members /\ \A n \in Nodes : ~s'.wip[n]
      /\ VersionsAreOld(s') /\ KeepsOld(s') /\ ExceptionsAgree(s') /\ EndedTogether(s') /\ Filled(s')
      /\ CopiesFilled(s', Copies)
      /\ ~s'.rip[e] /\ \A m \in Nodes : s'.rip[m] => s.rip[m]
  BY <1>8 DEF ReadKept, ReadMembers
<1>10. /\ VersionsAreOld(s)' /\ KeepsOld(s)' /\ ExceptionsAgree(s)' /\ EndedTogether(s)' /\ Filled(s)'
       /\ CopiesFilled(s, Copies)'
  BY <1>1, <1>9, NextMembers
<1>11. /\ LowLevel(e) \in done => s'.thrown = "none"
       /\ LowLevel(e) \notin done => s'.thrown = "runtime"
       /\ LowLevel(e) \in Used
  BY <1>2, <1>3, <1>8, Elementary DEF ReadKept
<1>12. todo' = todo \ {e} /\ op' = op /\ nErrors' = IF s'.thrown = "runtime" THEN nErrors + 1 ELSE nErrors
  BY <1>1, <1>11 DEF AfterPost
<1>13. nErrors \in Nat
  BY <1>2 DEF GroupType
<1>14. LowLevel(e) \notin done => nErrors' # 0 /\ first = "runtime" /\ error'
  <2>1. ASSUME LowLevel(e) \notin done PROVE s'.thrown = "runtime" /\ first = "runtime" /\ error'
    BY <1>1, <1>6, <1>11, <2>1
  <2>2. s'.thrown = "runtime" => nErrors' # 0
    BY <1>12, <1>13
  <2>3. QED
    BY <2>1, <2>2
<1>15. nErrors # 0 => nErrors' # 0
  BY <1>12, <1>13
<1>16. nErrors' # 0 => first' = "runtime" /\ error'
  BY <1>1, <1>6, <1>11, <1>12, <1>14
<1>17. phase = "post" => \A x \in Elements \ todo' : LowLevel(x) \notin done => nErrors' # 0
  BY <1>6, <1>12, <1>14, <1>15
<1>18. TransferInv'
  BY <1>1, <1>4, <1>6, <1>10, <1>16, <1>17 DEF TransferInv
<1>19. /\ phase = "copies" => \A x \in Copies \ todo' : ~s'.rip[x]
       /\ phase = "post" => \A x \in Elements \ todo' : ~s'.rip[x]
  <2>1. /\ phase = "copies" => \A x \in Copies \ todo : ~s.rip[x]
        /\ phase = "post" => \A x \in Elements \ todo : ~s.rip[x]
    BY <1>2 DEF ReadInv
  <2>2. Elements \subseteq Nodes /\ Copies \subseteq Nodes
    BY DEF Nodes, Elements
  <2>3. QED
    BY <1>9, <1>12, <2>1, <2>2
<1>20. \A r \in Raws : s'.rip[r] => r \in Used
  BY <1>5, <1>9 DEF Nodes
<1>21. ReadInv'
  BY <1>1, <1>4, <1>5, <1>9, <1>10, <1>19, <1>20 DEF ReadInv
<1>22. QED
  BY <1>1, <1>10, <1>12, <1>18, <1>21 DEF CorrectInv, IdleInv

LEMMA PostWriteStepKeeps ==
  ASSUME GroupAssumption, GroupInvariant, CorrectUse, UNCHANGED app, PostWriteStep
  PROVE  CorrectInv' /\ op' = op
<1> DEFINE e == First(todo)
           t == WithLowLevelException(s, e)
<1>1. /\ op = "write" /\ phase = "post" /\ todo # {}
      /\ s' = PostWrite(t, e, wanted)
      /\ AfterPost(e)
      /\ UNCHANGED <<opened, error, hw, phase, first, wanted, done, before>>
  BY DEF PostWriteStep
<1>2. GroupType /\ s \in Members /\ VersionsAreOld(s) /\ TransferInv /\ WriteInv /\ wanted \in Nat
  BY <1>1 DEF GroupInvariant, GroupType, CorrectInv
<1>3. e \in todo /\ e \in Elements /\ e \in Nodes
  BY <1>1, <1>2, FirstOfTodo
<1>4. Copies' = Copies /\ Elements' = Elements /\ Nodes' = Nodes /\ Used' = Used
      /\ \A x : LowLevel(x)' = LowLevel(x)
  BY Frame DEF Used
<1> HIDE DEF e
<1>5. /\ opened /\ ReadOnly = {} /\ Copies = {} /\ \A n \in Nodes : ~s.rip[n]
      /\ wanted <= s.last
      /\ \A r \in Raws : s.wip[r] => r \in Used
      /\ \A a \in Accessors : s.wip[RawOf[a]] => s.wip[a]
      /\ \A a \in Accessors : s.wip[a] <=> a \in todo
      /\ \A a \in Accessors : s.raw[a] = s.buf[a]
      /\ \A a \in Accessors : s.version[a] # before.version[a] => RawOf[a] \in done
  BY <1>1, <1>2 DEF WriteInv
<1>6. /\ first \in {"none", "runtime"} /\ done \subseteq Used /\ ExceptionsAgree(s)
      /\ first = "none" <=> done = Used
      /\ nErrors # 0 => first = "runtime"
      /\ \A x \in Elements \ todo : LowLevel(x) \notin done => nErrors # 0
  BY <1>1, <1>2 DEF TransferInv
<1>7. /\ e \in Accessors /\ Elements = Accessors /\ LowLevel(e) = RawOf[e] /\ RawOf[e] \in Used
      /\ Accessors \subseteq Nodes /\ Raws \subseteq Nodes /\ Used \subseteq Raws
      /\ \A a \in Accessors : a \notin Raws /\ RawOf[a] \in Used
  <2>1. Elements = Accessors
    BY <1>5 DEF Elements
  <2>2. QED
    BY <1>2, <1>3, <2>1, Elementary DEF Nodes
<1>8. ExceptionCopied(s, t, e)
  BY <1>2, <1>3, WithLowLevelExceptionEffect
<1>9. s' = AccessorPostWrite(t, e, wanted)
  BY <1>1, <1>5 DEF PostWrite
<1> HIDE DEF t
<1>10. /\ t \in Members /\ t.rip = s.rip /\ t.wip = s.wip /\ t.version = s.version /\ t.buf = s.buf
       /\ t.raw = s.raw /\ t.last = s.last
       /\ \A m \in Nodes : m # e => t.exc[m] = s.exc[m]
       /\ s.exc[RawOf[e]] = "none" => t.exc[e] = s.exc[e]
       /\ s.exc[RawOf[e]] # "none" => t.exc[e] = s.exc[RawOf[e]]
  BY <1>7, <1>8 DEF ExceptionCopied
<1>11. ExceptionsAgree(t)
  <2>1. t.exc[e] = "none" \/ (t.exc[e] = "runtime" /\ LowLevel(e) \notin done)
    BY <1>3, <1>6, <1>7, <1>10 DEF ExceptionsAgree
  <2>2. \A x \in Used : t.exc[x] = s.exc[x]
    BY <1>7, <1>10
  <2>3. \A x \in Elements : x # e => t.exc[x] = s.exc[x]
    BY <1>7, <1>10
  <2>4. QED
    BY <1>6, <2>1, <2>2, <2>3 DEF ExceptionsAgree
<1>12. WriteEnded(t, s', e, wanted)
  BY <1>2, <1>3, <1>5, <1>7, <1>9, <1>10, <1>11, PostWriteEffect
<1>13. /\ s' \in Members /\ s'.rip = s.rip /\ s'.buf = s.buf /\ s'.raw = s.raw /\ s'.last = s.last
       /\ ~s'.wip[e] /\ ~s'.wip[RawOf[e]]
       /\ \A m \in Nodes : m # e /\ m # RawOf[e] => s'.wip[m] = s.wip[m]
       /\ \A m \in Nodes : m # e /\ m # RawOf[e] => s'.version[m] = s.version[m]
       /\ s'.version[RawOf[e]] \in {s.version[RawOf[e]], wanted}
  BY <1>10, <1>12 DEF WriteEnded
<1>14. /\ RawOf[e] \in done => s'.thrown = "none" /\ s'.version[e] = wanted
       /\ RawOf[e] \notin done => s'.thrown = "runtime" /\ s'.version[e] = s.version[e]
       /\ ExceptionsAgree(s')
  BY <1>10, <1>12 DEF WriteEnded
<1>15. VersionsAreOld(s')
  <2>1. \A m \in Nodes : s.version[m] <= s.last
    BY <1>2 DEF VersionsAreOld
  <2>2. s'.version[RawOf[e]] <= s.last /\ s'.version[e] <= s.last
    BY <1>3, <1>5, <1>7, <1>13, <1>14, <2>1
  <2>3. QED
    BY <1>13, <2>1, <2>2 DEF VersionsAreOld
<1>16. VersionsAreOld(s)' /\ ExceptionsAgree(s)'
  <2>1. \A n \in Nodes : s'.version[n] <= s'.last
    BY <1>15 DEF VersionsAreOld
  <2>2. VersionsAreOld(s)'
    BY <1>4, <2>1 DEF VersionsAreOld
  <2>3. ExceptionsAgree(s)'
    BY <1>1, <1>4, <1>14 DEF ExceptionsAgree
  <2>4. QED
    BY <2>2, <2>3
<1>17. todo' = todo \ {e} /\ op' = op /\ nErrors' = IF s'.thrown = "runtime" THEN nErrors + 1 ELSE nErrors
  BY <1>1, <1>14 DEF AfterPost
<1>18. nErrors \in Nat
  BY <1>2 DEF GroupType
<1>19. /\ RawOf[e] \notin done => nErrors' # 0 /\ first = "runtime"
       /\ nErrors # 0 => nErrors' # 0
  BY <1>6, <1>7, <1>14, <1>17, <1>18
<1>20. nErrors' # 0 => first' = "runtime"
  BY <1>1, <1>6, <1>14, <1>17, <1>19
<1>21. \A x \in Elements \ todo' : LowLevel(x) \notin done => nErrors' # 0
  BY <1>6, <1>7, <1>17, <1>19
<1>22. TransferInv'
  BY <1>1, <1>4, <1>6, <1>16, <1>17, <1>20, <1>21 DEF TransferInv
<1>23. \A r \in Raws : s'.wip[r] => r \in Used
  BY <1>5, <1>7, <1>13
<1>24. /\ \A a \in Accessors : s'.wip[RawOf[a]] => s'.wip[a]
       /\ \A a \in Accessors : s'.wip[a] <=> a \in todo'
  <2>1. \A a \in Accessors : a \in Nodes /\ RawOf[a] \in Nodes /\ a # RawOf[e] /\ RawOf[a] # e
    BY <1>7
  <2>2. \A a \in Accessors : a # e => s'.wip[a] = s.wip[a]
    BY <1>13, <2>1
  <2>3. \A a \in Accessors : s'.wip[a] <=> a \in todo'
    BY <1>5, <1>13, <1>17, <2>2
  <2>4. ASSUME NEW a \in Accessors, s'.wip[RawOf[a]] PROVE s'.wip[a]
    <3>1. RawOf[a] # RawOf[e] /\ a # e
      BY <1>13, <2>4
    <3>2. s.wip[RawOf[a]]
      BY <1>13, <2>1, <2>4, <3>1
    <3>3. QED
      BY <1>5, <2>2, <3>1, <3>2
  <2>5. QED
    BY <2>3, <2>4
<1>25. \A a \in Accessors : s'.version[a] # before.version[a] => RawOf[a] \in done
  BY <1>5, <1>7, <1>13, <1>14
<1>26. /\ \A a \in Accessors : s'.raw[a] = s'.buf[a]
       /\ wanted' <= s'.last /\ \A n \in Nodes : ~s'.rip[n]
  BY <1>1, <1>5, <1>13
<1>27. WriteInv'
  BY <1>1, <1>4, <1>5, <1>23, <1>24, <1>25, <1>26 DEF WriteInv
<1>28. QED
  BY <1>1, <1>16, <1>17, <1>22, <1>27 DEF CorrectInv, IdleInv

LEMMA NextPhaseKeeps ==
  ASSUME GroupAssumption, GroupInvariant, CorrectUse, UNCHANGED app, NextPhase
  PROVE  CorrectInv'
<1>1. /\ op \in {"read", "write"} /\ todo = {} /\ nErrors' = 0
      /\ UNCHANGED <<opened, error, hw, s, op, first, wanted, done, before, outcome>>
  BY DEF NextPhase, GroupInvariant, GroupType
<1>2. /\ GroupType /\ VersionsAreOld(s) /\ TransferInv
      /\ op = "read" => ReadInv
      /\ op = "write" => WriteInv
  BY <1>1 DEF GroupInvariant, GroupType, CorrectInv
<1>3. Copies' = Copies /\ Elements' = Elements /\ Nodes' = Nodes /\ Used' = Used
      /\ \A x : LowLevel(x)' = LowLevel(x)
  BY Frame DEF Used
<1>4. VersionsAreOld(s)' /\ IdleInv'
  BY <1>1, <1>2, <1>3 DEF VersionsAreOld, IdleInv
<1>5. /\ Used \subseteq Raws /\ Elements \subseteq Nodes /\ Used \subseteq Nodes /\ Accessors \subseteq Elements
      /\ Copies \subseteq Elements
      /\ \A a \in Accessors : RawOf[a] \in Used
      /\ \A e \in Elements : LowLevel(e) \in Used
      /\ \A x \in Used : \E a \in Accessors : RawOf[a] = x
  BY <1>2, Elementary DEF Nodes, Elements
<1>6. first \in {"none", "runtime"} /\ done \subseteq Used
  BY <1>2 DEF TransferInv
<1>7. CASE phase = "pre"
  <2>1. first = "none" /\ done = {} /\ phase' = "transfer" /\ todo' = Used
    BY <1>2, <1>7 DEF TransferInv, NextPhase, Used
  <2>2. op = "read" =>
          /\ \A e \in Elements : s.rip[e] /\ s.exc[e] = "none"
          /\ \A a \in Accessors : s.rip[RawOf[a]]
          /\ \A x \in Used : s.rip[x] => s.exc[x] = "none"
    BY <1>1, <1>2, <1>5, <1>7 DEF ReadInv
  <2>3. op = "write" =>
          /\ Elements = Accessors
          /\ \A e \in Elements : s.wip[e] /\ s.exc[e] = "none"
          /\ \A a \in Accessors : s.wip[RawOf[a]]
          /\ \A x \in Used : s.wip[x] => s.exc[x] = "none"
    BY <1>1, <1>2, <1>5, <1>7 DEF WriteInv, Elements
  <2>4. op = "read" => \A x \in Used : s.rip[x] /\ s.exc[x] = "none"
    BY <1>5, <2>2
  <2>5. op = "write" => \A x \in Used : s.wip[x] /\ s.exc[x] = "none"
    BY <1>5, <2>3
  <2>6. /\ \A e \in Elements : s.exc[e] = "none"
        /\ \A x \in Used : s.exc[x] = "none" /\ x \notin done
    BY <1>1, <2>1, <2>2, <2>3, <2>4, <2>5
  <2>7. TransferInv'
    BY <1>1, <1>3, <1>6, <2>1, <2>6 DEF TransferInv
  <2>8. op = "read" => ReadInv'
    BY <1>1, <1>2, <1>3, <1>7, <2>1, <2>2, <2>4 DEF ReadInv, KeepsOld, Unchanged
  <2>9. op = "write" => WriteInv'
    BY <1>1, <1>2, <1>3, <1>7, <2>1, <2>3, <2>5 DEF WriteInv
  <2>10. QED
    BY <1>1, <1>4, <2>7, <2>8, <2>9 DEF CorrectInv
<1>8. CASE phase = "transfer"
  <2>1. /\ phase' = IF op = "read" THEN "copies" ELSE "post"
        /\ todo' = IF op = "read" THEN Copies ELSE Elements
    BY <1>8 DEF NextPhase
  <2>2. /\ \A e \in Elements : s.exc[e] = "none"
        /\ \A x \in Used : x \in done => s.exc[x] = "none"
        /\ \A x \in Used : x \notin done => s.exc[x] = "runtime"
        /\ first = "none" <=> done = Used
    BY <1>1, <1>2, <1>6, <1>8 DEF TransferInv
  <2>3. ExceptionsAgree(s)'
    BY <1>1, <1>3, <2>2 DEF ExceptionsAgree
  <2>4. TransferInv'
    BY <1>1, <1>3, <1>6, <2>1, <2>2, <2>3 DEF TransferInv
  <2>5. ASSUME op = "read" PROVE ReadInv'
    <3>1. /\ ReadInv /\ phase' = "copies" /\ todo' = Copies /\ KeepsOld(s) /\ Unchanged(s)
          /\ \A n \in Elements \cup Used : s.rip[n]
      BY <1>2, <1>8, <2>1, <2>5 DEF ReadInv
    <3>2. EndedTogether(s) /\ Filled(s) /\ CopiesFilled(s, Copies)
      BY <1>5, <3>1 DEF EndedTogether, Filled, CopiesFilled
    <3>3. EndedTogether(s') /\ Filled(s') /\ CopiesFilled(s', Copies) /\ KeepsOld(s')
      BY <1>1, <3>1, <3>2
    <3>4. EndedTogether(s)' /\ Filled(s)' /\ CopiesFilled(s, Copies)' /\ KeepsOld(s)'
      BY <1>1, <3>3, NextMembers
    <3>5. QED
      BY <1>1, <1>3, <3>1, <3>4 DEF ReadInv
  <2>6. ASSUME op = "write" PROVE WriteInv'
    <3>1. /\ WriteInv /\ phase' = "post" /\ todo' = Elements
          /\ \A n \in Elements \cup Used : s.wip[n]
          /\ \A a \in Accessors : s.raw[a] = s.buf[a]
      BY <1>2, <1>8, <2>1, <2>6 DEF WriteInv
    <3>2. /\ \A a \in Accessors : s.wip[RawOf[a]] => s.wip[a]
          /\ \A a \in Accessors : s.wip[a] <=> a \in todo'
          /\ \A a \in Accessors : s.version[a] = before.version[a]
      BY <1>5, <1>8, <3>1 DEF WriteInv
    <3>3. QED
      BY <1>1, <1>3, <3>1, <3>2 DEF WriteInv
  <2>7. QED
    BY <1>1, <1>4, <2>4, <2>5, <2>6 DEF CorrectInv
<1>9. CASE phase = "copies"
  <2>1. phase' = "post" /\ todo' = Elements /\ op = "read"
    BY <1>1, <1>2, <1>9 DEF NextPhase, GroupType
  <2>2. ReadInv /\ ExceptionsAgree(s) /\ (first = "none" <=> done = Used)
    BY <1>2, <1>9, <2>1 DEF TransferInv
  <2>3. KeepsOld(s) /\ EndedTogether(s) /\ Filled(s) /\ CopiesFilled(s, Copies)
    BY <1>9, <2>2 DEF ReadInv
  <2>4. KeepsOld(s') /\ EndedTogether(s') /\ Filled(s') /\ CopiesFilled(s', Copies) /\ ExceptionsAgree(s')
    BY <1>1, <2>2, <2>3
  <2>5. KeepsOld(s)' /\ EndedTogether(s)' /\ Filled(s)' /\ CopiesFilled(s, Copies)' /\ ExceptionsAgree(s)'
    BY <1>1, <2>4, NextMembers
  <2>6. TransferInv'
    BY <1>1, <1>3, <1>6, <2>1, <2>2, <2>5 DEF TransferInv
  <2>7. ReadInv'
    BY <1>1, <1>3, <2>1, <2>2, <2>5 DEF ReadInv
  <2>8. QED
    BY <1>1, <1>4, <2>1, <2>6, <2>7 DEF CorrectInv
<1>10. QED
  BY <1>7, <1>8, <1>9 DEF NextPhase

\* When the last postRead() or postWrite() has been called, no transaction is left.
LEMMA FinishKeeps ==
  ASSUME GroupAssumption, GroupInvariant, CorrectUse, UNCHANGED app, Finish
  PROVE  CorrectInv'
<1>1. /\ op \in {"read", "write"} /\ phase = "post" /\ todo = {} /\ op' = "idle"
      /\ UNCHANGED <<s, first, nErrors>>
  BY DEF Finish, GroupInvariant, GroupType
<1>2. /\ GroupType /\ VersionsAreOld(s) /\ TransferInv
      /\ op = "read" => ReadInv
      /\ op = "write" => WriteInv
  BY <1>1 DEF GroupInvariant, GroupType, CorrectInv
<1>3. Copies' = Copies /\ Elements' = Elements /\ Nodes' = Nodes
  BY Frame
<1>4. /\ \A a \in Accessors : RawOf[a] \in Used
      /\ \A x \in Used : \E a \in Accessors : RawOf[a] = x
      /\ Accessors \subseteq Elements
  BY <1>2, Elementary DEF Elements
<1>5. ASSUME op = "read", NEW n \in Nodes PROVE ~s.rip[n] /\ ~s.wip[n]
  <2>1. /\ \A m \in Nodes : ~s.wip[m]
        /\ \A e \in Elements : ~s.rip[e]
        /\ \A a \in Accessors : s.rip[RawOf[a]] => s.rip[a]
        /\ \A r \in Raws : s.rip[r] => r \in Used
    BY <1>1, <1>2, <1>5 DEF ReadInv, EndedTogether
  <2>2. \A r \in Raws : ~s.rip[r]
    BY <1>4, <2>1
  <2>3. QED
    BY <2>1, <2>2 DEF Nodes
<1>6. ASSUME op = "write", NEW n \in Nodes PROVE ~s.rip[n] /\ ~s.wip[n]
  <2>1. /\ \A m \in Nodes : ~s.rip[m]
        /\ Copies = {}
        /\ \A a \in Accessors : ~s.wip[a]
        /\ \A a \in Accessors : s.wip[RawOf[a]] => s.wip[a]
        /\ \A r \in Raws : s.wip[r] => r \in Used
    BY <1>1, <1>2, <1>6 DEF WriteInv
  <2>2. \A r \in Raws : ~s.wip[r]
    BY <1>4, <2>1
  <2>3. QED
    BY <2>1, <2>2 DEF Nodes, Elements
<1>7. nErrors # 0 => first # "none"
  BY <1>2 DEF TransferInv
<1>8. IdleInv'
  BY <1>1, <1>3, <1>5, <1>6, <1>7 DEF IdleInv
<1>9. VersionsAreOld(s)'
  BY <1>1, <1>2, <1>3 DEF VersionsAreOld
<1>10. QED
  BY <1>1, <1>8, <1>9 DEF CorrectInv

\* What happens between the operations, or beside them.
LEMMA OthersKeep ==
  ASSUME GroupAssumption, GroupInvariant, CorrectUse, UNCHANGED app,
         \/ \E a \in Accessors, v \in Values : SetBuffer(a, v)
         \/ \E a \in Accessors, v \in Values : RegisterChanges(a, v)
         \/ SetException
         \/ Open
         \/ Close
         \/ UNCHANGED vars
  PROVE  CorrectInv'
<1>1. s \in Members /\ Copies' = Copies /\ Elements' = Elements /\ Nodes' = Nodes /\ Used' = Used
      /\ \A x : LowLevel(x)' = LowLevel(x)
  BY Frame DEF GroupInvariant, GroupType, Used
<1>2. /\ IdleInv /\ VersionsAreOld(s)
      /\ op # "idle" => TransferInv
      /\ op = "read" => ReadInv
      /\ op = "write" => WriteInv
  BY DEF GroupInvariant, CorrectInv
<1>3. UNCHANGED <<op, phase, todo, first, nErrors, wanted, done, before>>
  BY DEF SetBuffer, RegisterChanges, SetException, Open, Close, groupVars, vars
<1>4. s'.rip = s.rip /\ s'.wip = s.wip /\ s'.version = s.version /\ s'.last = s.last
  BY <1>1 DEF SetBuffer, RegisterChanges, SetException, Open, Close, Members, vars
<1>5. op # "idle" => UNCHANGED <<opened, s>> /\ (error => error')
  BY DEF SetBuffer, RegisterChanges, SetException, Open, Close, vars
<1>6. IdleInv' /\ VersionsAreOld(s)'
  BY <1>1, <1>2, <1>3, <1>4 DEF IdleInv, VersionsAreOld
<1>7. ASSUME op # "idle" PROVE TransferInv'
  <2>1. TransferInv /\ UNCHANGED <<opened, s>> /\ (error => error')
    BY <1>2, <1>5, <1>7
  <2>2. ExceptionsAgree(s) => ExceptionsAgree(s)'
    BY <1>1, <1>3, <2>1 DEF ExceptionsAgree
  <2>3. QED
    BY <1>1, <1>3, <2>1, <2>2 DEF TransferInv
<1>8. ASSUME op = "read" PROVE ReadInv'
  <2>1. ReadInv /\ UNCHANGED <<opened, s>>
    BY <1>2, <1>5, <1>8
  <2>2. /\ KeepsOld(s) => KeepsOld(s)'
        /\ EndedTogether(s) => EndedTogether(s)'
        /\ Filled(s) => Filled(s)'
        /\ CopiesFilled(s, Copies) => CopiesFilled(s, Copies)'
        /\ Unchanged(s) => Unchanged(s)'
    <3>1. s' = s
      BY <2>1
    <3>2. QED
      BY <1>1, <1>3, <3>1 DEF KeepsOld, EndedTogether, Filled, CopiesFilled, Unchanged
  <2>3. QED
    BY <1>1, <1>3, <2>1, <2>2 DEF ReadInv
<1>9. ASSUME op = "write" PROVE WriteInv'
  <2>1. WriteInv /\ UNCHANGED <<opened, s>>
    BY <1>2, <1>5, <1>9
  <2>2. QED
    BY <1>1, <1>3, <2>1 DEF WriteInv
<1>10. QED
  BY <1>3, <1>6, <1>7, <1>8, <1>9 DEF CorrectInv

LEMMA CorrectInvStep == ASSUME GroupAssumption, GroupInvariant, GroupType', [Next]_vars PROVE CorrectInv'
<1>1. CASE ~CorrectUse
  <2>1. UNCHANGED app
    BY DEF Next, vars
  <2>2. QED
    BY <1>1, <2>1 DEF CorrectInv, CorrectUse
<1>2. CASE CorrectUse /\ Next
  BY <1>2, ReadKeeps, WriteKeeps, PreReadKeeps, PreWriteKeeps, TransferKeeps, PostReadStepKeeps,
     PostWriteStepKeeps, NextPhaseKeeps, FinishKeeps, OthersKeep DEF Next, GroupStep
<1>3. CASE CorrectUse /\ UNCHANGED vars
  BY <1>3, OthersKeep DEF vars
<1>4. QED
  BY <1>1, <1>2, <1>3

-----------------------------------------------------------------------------
(* Theorems *)

LEMMA InvariantHolds == ASSUME GroupAssumption PROVE Spec => []GroupInvariant
<1>1. Init => GroupInvariant
  BY GroupTypeInit, CorrectInvInit DEF GroupInvariant
<1>2. GroupInvariant /\ [Next]_vars => GroupInvariant'
  BY GroupTypeStep, CorrectInvStep DEF GroupInvariant
<1>3. QED
  BY <1>1, <1>2, PTL DEF Spec

(***************************************************************************)
(* The members always have their types, and a correct application finds no *)
(* transaction in progress when read() or write() has ended: the post      *)
(* functions of all elements were called, whatever they have thrown.       *)
(***************************************************************************)
THEOREM GroupHolds == ASSUME GroupAssumption PROVE Spec => []GroupInv
<1>1. ASSUME GroupInvariant PROVE GroupInv
  <2>1. GroupType /\ s \in Members
    BY <1>1 DEF GroupInvariant, GroupType
  <2>2. todo \subseteq Nodes
    BY <2>1 DEF GroupType, Nodes
  <2>3. /\ s.rip \in [Nodes -> BOOLEAN] /\ s.wip \in [Nodes -> BOOLEAN]
        /\ s.exc \in [Nodes -> Exceptions] /\ s.thrown \in Exceptions
        /\ s.version \in [Nodes -> Nat] /\ s.last \in Nat
        /\ s.buf \in [Elements -> Values \cup {Initially}]
    BY <2>1 DEF Members, Data
  <2>4. TypeOK
    BY <2>1, <2>2, <2>3 DEF GroupType, TypeOK, Data
  <2>5. CallsArePaired
    BY <1>1 DEF GroupInvariant, CorrectInv, IdleInv, CallsArePaired
  <2>6. QED
    BY <2>4, <2>5 DEF GroupInv
<1>2. QED
  BY <1>1, InvariantHolds, PTL

\* An operation of a correct application ends only after its last element.
LEMMA OnlyFinishEnds ==
  ASSUME GroupAssumption, GroupInvariant, CorrectUse, Next, op # "idle", op' = "idle"
  PROVE  Finish
<1>1. UNCHANGED app
  BY DEF Next
<1>2. ~Read /\ \A version \in 1 .. MaxVersion : ~Write(version)
  BY DEF Read, Write, Start
<1>3. ~PreReadStep /\ ~PreWriteStep /\ ~NextPhase /\ ~SetException /\ ~Open /\ ~Close
  BY DEF PreReadStep, PreWriteStep, NextPhase, SetException, Open, Close, groupVars
<1>4. /\ \A r \in Raws, ok \in TransferOutcomes : ~TransferStep(r, ok)
      /\ \A a \in Accessors, v \in Values : ~SetBuffer(a, v) /\ ~RegisterChanges(a, v)
  BY DEF TransferStep, SetBuffer, RegisterChanges, groupVars
<1>5. ~PostReadStep
  BY <1>1, PostReadStepKeeps
<1>6. ~PostWriteStep
  BY <1>1, PostWriteStepKeeps
<1>7. QED
  BY <1>2, <1>3, <1>4, <1>5, <1>6 DEF Next, GroupStep

\* What holds at that point.
LEMMA FinishOfRead ==
  ASSUME GroupAssumption, GroupInvariant, CorrectUse, Finish, op = "read"
  PROVE  /\ nErrors = 0 => done = Used /\ first = "none"
         /\ nErrors # 0 => done # Used /\ first = "runtime" /\ error
         /\ Filled(s) /\ CopiesFilled(s, Copies)
         /\ \A e \in Elements : ~s.rip[e]
         /\ \A x \in Used : ~s.rip[x]
<1>1. phase = "post" /\ todo = {} /\ GroupType /\ TransferInv /\ ReadInv
  BY DEF Finish, GroupInvariant, CorrectInv
<1>2. /\ first \in {"none", "runtime"} /\ done \subseteq Used /\ (first = "none" <=> done = Used)
      /\ nErrors # 0 => first = "runtime" /\ error
      /\ \A e \in Elements : LowLevel(e) \notin done => nErrors # 0
  BY <1>1 DEF TransferInv
<1>3. Filled(s) /\ CopiesFilled(s, Copies) /\ EndedTogether(s) /\ \A e \in Elements : ~s.rip[e]
  BY <1>1 DEF ReadInv
<1>4. /\ \A a \in Accessors : a \in Elements /\ LowLevel(a) = RawOf[a]
      /\ \A x \in Used : \E a \in Accessors : RawOf[a] = x
  BY <1>1, Elementary DEF Elements
<1>5. nErrors = 0 => Used \subseteq done
  BY <1>2, <1>4
<1>6. \A x \in Used : ~s.rip[x]
  BY <1>3, <1>4 DEF EndedTogether
<1>7. QED
  BY <1>2, <1>3, <1>5, <1>6

LEMMA FinishOfWrite ==
  ASSUME GroupAssumption, GroupInvariant, CorrectUse, Finish, op = "write"
  PROVE  /\ nErrors = 0 => \A a \in Accessors : RawOf[a] \in done
         /\ \A a \in Accessors : s.raw[a] = s.buf[a]
         /\ \A a \in Accessors : s.version[a] # before.version[a] => RawOf[a] \in done
<1>1. phase = "post" /\ todo = {} /\ GroupType /\ TransferInv /\ WriteInv
  BY DEF Finish, GroupInvariant, CorrectInv
<1>2. \A e \in Elements : LowLevel(e) \notin done => nErrors # 0
  BY <1>1 DEF TransferInv
<1>3. \A a \in Accessors : a \in Elements /\ LowLevel(a) = RawOf[a]
  BY <1>1, Elementary DEF Elements
<1>4. /\ \A a \in Accessors : s.raw[a] = s.buf[a]
      /\ \A a \in Accessors : s.version[a] # before.version[a] => RawOf[a] \in done
  BY <1>1 DEF WriteInv
<1>5. QED
  BY <1>2, <1>3, <1>4

\* The applications which make no logic_error.
CorrectApplications == \A p \in Applications : p.correct

LEMMA CorrectApplicationsUse == ASSUME CorrectApplications, GroupInvariant PROVE CorrectUse
BY DEF CorrectApplications, GroupInvariant, GroupType, CorrectUse

(***************************************************************************)
(* read() of a correct application which returns has filled the buffers of *)
(* all accessors and copy decorators with what was transferred in this     *)
(* call. Each accessor gets a new version, and those which share a         *)
(* transfer the same: only the first postRead() gives the low-level        *)
(* element one (RawPostRead), and the others come when it has ended.       *)
(***************************************************************************)
THEOREM ReadFillsBuffers ==
  ASSUME GroupAssumption, CorrectApplications
  PROVE  Spec => ReadDelivers
<1> DEFINE A == Ends("read") /\ outcome' = "ok" =>
                  /\ \A e \in Elements : LowLevel(e) \in done /\ s'.buf[e] = s'.raw[Accessor(e)]
                  /\ \A a \in Accessors : s'.version[a] > before.version[a]
                  /\ \A a, b \in Accessors : RawOf[a] = RawOf[b] => s'.version[a] = s'.version[b]
<1>1. ASSUME GroupInvariant, Next PROVE A
  <2>1. SUFFICES ASSUME op = "read", op' = "idle", outcome' = "ok"
                 PROVE  /\ \A e \in Elements : LowLevel(e) \in done /\ s'.buf[e] = s'.raw[Accessor(e)]
                        /\ \A a \in Accessors : s'.version[a] > before.version[a]
                        /\ \A a, b \in Accessors : RawOf[a] = RawOf[b] => s'.version[a] = s'.version[b]
    BY DEF Ends
  <2>2. CorrectUse /\ GroupType
    BY <1>1, CorrectApplicationsUse DEF GroupInvariant
  <2>3. Finish
    BY <1>1, <2>1, <2>2, OnlyFinishEnds
  <2>4. /\ nErrors = 0 => done = Used /\ first = "none"
        /\ nErrors # 0 => first = "runtime"
        /\ Filled(s) /\ CopiesFilled(s, Copies)
        /\ \A e \in Elements : ~s.rip[e]
        /\ \A x \in Used : ~s.rip[x]
    BY <1>1, <2>1, <2>2, <2>3, FinishOfRead
  <2>5. nErrors = 0 /\ s' = s
    BY <2>1, <2>3, <2>4 DEF Finish
  <2>6. /\ \A a \in Accessors : a \in Elements /\ Accessor(a) = a /\ RawOf[a] \in Used
        /\ \A c \in Copies : c \in Elements /\ Accessor(c) = TargetOf[c]
        /\ \A e \in Elements : LowLevel(e) \in Used
    BY <2>2, Elementary DEF Elements
  <2>7. /\ \A a \in Accessors : s.buf[a] = s.raw[a] /\ s.version[a] = s.version[RawOf[a]]
        /\ \A a \in Accessors : s.version[RawOf[a]] > before.version[a]
    BY <2>4, <2>5, <2>6 DEF Filled
  <2>8. \A c \in Copies : s.buf[c] = s.raw[TargetOf[c]]
    BY <2>4, <2>5, <2>6 DEF CopiesFilled
  <2>9. \A e \in Elements : LowLevel(e) \in done /\ s.buf[e] = s.raw[Accessor(e)]
    BY <2>4, <2>5, <2>6, <2>7, <2>8 DEF Elements
  <2>10. \A a \in Accessors : s.version[a] > before.version[a]
    BY <2>7
  <2>11. QED
    BY <2>5, <2>7, <2>9, <2>10
<1>2. GroupInvariant /\ [Next]_vars => [A]_vars
  BY <1>1
<1>3. ReadDelivers <=> [][A]_vars
  BY DEF ReadDelivers
<1> HIDE DEF A
<1>4. QED
  BY <1>2, <1>3, InvariantHolds, PTL DEF Spec

(***************************************************************************)
(* read() of a correct application which fails throws, has put the backend *)
(* into the exception state, and has changed neither the application       *)
(* buffers nor the versions of any element, also of those whose transfer   *)
(* was successful. If nothing is thrown all transfers were successful; and *)
(* if an element has thrown something, firstDetectedRuntimeError is set,   *)
(* as the assertion in TransferGroup.cc says.                              *)
(***************************************************************************)
THEOREM ReadFailsCompletely ==
  ASSUME GroupAssumption, CorrectApplications
  PROVE  Spec => FailedReadIsTold
<1> DEFINE A == Ends("read") /\ outcome' # "ok" =>
                  /\ s'.buf = before.buf
                  /\ \A e \in Elements : s'.version[e] = before.version[e]
           B == /\ Ends("read") /\ outcome' = "runtime" => error' /\ done # {RawOf[a] : a \in Accessors}
                /\ Ends("read") /\ outcome' = "ok" => done = {RawOf[a] : a \in Accessors}
                /\ nErrors' # 0 => first' # "none"
<1>1. ASSUME GroupInvariant, GroupInvariant', Next PROVE A /\ B
  <2>1. CorrectUse /\ GroupType /\ CorrectUse'
    BY <1>1, CorrectApplicationsUse DEF GroupInvariant, Next, CorrectUse
  <2>2. nErrors' # 0 => first' # "none"
    <3>1. op' = "idle" => (nErrors' # 0 => first' # "none")
      BY <1>1, <2>1 DEF GroupInvariant, CorrectInv, IdleInv
    <3>2. op' # "idle" => (nErrors' # 0 => first' # "none")
      BY <1>1, <2>1 DEF GroupInvariant, CorrectInv, TransferInv
    <3>3. QED
      BY <3>1, <3>2
  <2>3. ASSUME Ends("read")
        PROVE  /\ outcome' # "ok" => s'.buf = before.buf /\ \A e \in Elements : s'.version[e] = before.version[e]
               /\ outcome' = "runtime" => error' /\ done # {RawOf[a] : a \in Accessors}
               /\ outcome' = "ok" => done = {RawOf[a] : a \in Accessors}
    <3>1. op = "read" /\ op' = "idle"
      BY <2>3 DEF Ends
    <3>2. Finish
      BY <1>1, <2>1, <3>1, OnlyFinishEnds
    <3>3. /\ nErrors = 0 => done = Used /\ first = "none"
          /\ nErrors # 0 => done # Used /\ first = "runtime" /\ error
          /\ Filled(s)
      BY <1>1, <2>1, <3>1, <3>2, FinishOfRead
    <3>4. s' = s /\ error' = error /\ outcome' = IF nErrors = 0 THEN "ok" ELSE first
      BY <3>2 DEF Finish
    <3>5. nErrors # 0 => Unchanged(s)
      BY <3>3 DEF Filled
    <3>6. QED
      BY <3>3, <3>4, <3>5 DEF Unchanged, Used
  <2>4. QED
    BY <2>2, <2>3
<1>2. GroupInvariant /\ GroupInvariant' /\ [Next]_vars => [A]_vars /\ [B]_vars
  BY <1>1
<1>3. FailedReadIsTold <=> [][A]_vars /\ [][B]_vars
  BY DEF FailedReadIsTold, FailedReadKeepsBuffers, ReadErrorReported
<1> HIDE DEF A, B
<1>4. QED
  BY <1>2, <1>3, InvariantHolds, PTL DEF Spec

(***************************************************************************)
(* write() of a correct application which returns has transferred what is  *)
(* in the application buffers; and however it ends, an accessor has a new  *)
(* version only if its low-level element was transferred.                  *)
(***************************************************************************)
THEOREM WriteTransfersBuffers ==
  ASSUME GroupAssumption, CorrectApplications
  PROVE  Spec => WriteIsTold
<1> DEFINE A == Ends("write") /\ outcome' = "ok" => \A a \in Accessors : RawOf[a] \in done /\ s.raw[a] = s.buf[a]
           B == Ends("write") =>
                  \A a \in Accessors : s'.version[a] # before.version[a] => RawOf[a] \in done
<1>1. ASSUME GroupInvariant, Next PROVE A /\ B
  <2>1. CorrectUse /\ GroupType
    BY <1>1, CorrectApplicationsUse DEF GroupInvariant
  <2>2. ASSUME Ends("write")
        PROVE  /\ outcome' = "ok" => \A a \in Accessors : RawOf[a] \in done /\ s.raw[a] = s.buf[a]
               /\ \A a \in Accessors : s'.version[a] # before.version[a] => RawOf[a] \in done
    <3>1. op = "write" /\ op' = "idle"
      BY <2>2 DEF Ends
    <3>2. Finish
      BY <1>1, <2>1, <3>1, OnlyFinishEnds
    <3>3. /\ nErrors = 0 => \A a \in Accessors : RawOf[a] \in done
          /\ \A a \in Accessors : s.raw[a] = s.buf[a]
          /\ \A a \in Accessors : s.version[a] # before.version[a] => RawOf[a] \in done
      BY <1>1, <2>1, <3>1, <3>2, FinishOfWrite
    <3>4. s' = s /\ outcome' = IF nErrors = 0 THEN "ok" ELSE first
      BY <3>2 DEF Finish
    <3>5. nErrors # 0 => first # "ok"
      BY <1>1, <2>1 DEF GroupType, Exceptions
    <3>6. QED
      BY <3>3, <3>4, <3>5
  <2>3. QED
    BY <2>2
<1>2. GroupInvariant /\ [Next]_vars => [A]_vars /\ [B]_vars
  BY <1>1
<1>3. WriteIsTold <=> [][A]_vars /\ [][B]_vars
  BY DEF WriteIsTold, WriteDelivers, VersionOnlyIfWritten
<1> HIDE DEF A, B
<1>4. QED
  BY <1>2, <1>3, InvariantHolds, PTL DEF Spec

=============================================================================

--------------------------- MODULE TransferGroup ---------------------------
(***************************************************************************)
(* TransferGroup::read() and TransferGroup::write() on registers of one    *)
(* NumericAddressedBackend, with the TransferElement base class, the       *)
(* NumericAddressedBackendRegisterAccessors which were added to the group, *)
(* the NumericAddressedLowLevelTransferElements they share after merging,  *)
(* and the CopyRegisterDecorators for accessors which were added twice.    *)
(*                                                                         *)
(* An operation goes through its phases element by element. Between these  *)
(* steps other threads report errors and the registers change. std::set    *)
(* and std::map order the elements by address, which is the order of the   *)
(* numbers here.                                                           *)
(*                                                                         *)
(* addAccessor() merges each low-level element at least with itself, and   *)
(* setAddress() with a range which is aligned clears _isUnaligned (see     *)
(* TransferMerge). So doPreWrite() of a low-level element in a group       *)
(* neither locks nor reads. UnalignedWrite models the lock.                *)
(***************************************************************************)
EXTENDS Integers, FiniteSets, FiniteSetsExt

CONSTANTS
  Accessors,    \* accessors of the group: a set of numbers
  AllCopies,    \* copy decorators which may be in the group: other numbers
  TargetOf,     \* the accessor of each copy decorator
  Raws,         \* low-level elements
  RawOf,        \* the low-level element of each accessor
  ReadOnly,     \* accessors of registers which are not writeable
  WriteOnly,    \* accessors of registers which are not readable
  Applications, \* kinds of applications, see the variable app
  Values,       \* contents of registers and buffers
  MaxVersion    \* bound on the versions which are generated

ASSUME GroupAssumption ==
  /\ Accessors \cup AllCopies \subseteq Nat
  /\ Accessors \cap AllCopies = {}
  /\ TargetOf \in [AllCopies -> Accessors]
  /\ RawOf \in [Accessors -> Raws]
  /\ Raws \cap (Accessors \cup AllCopies) = {}
  /\ ReadOnly \cup WriteOnly \subseteq Accessors
  /\ Applications \subseteq [correct : BOOLEAN, writes : BOOLEAN, copies : SUBSET AllCopies]
  /\ MaxVersion \in Nat

VARIABLES
  app,      \* what the application does, which never changes: no calls which are a
            \* logic_error (correct), also calls of write() (writes), and which
            \* accessors it has added twice (copies)
  opened,   \* DeviceBackendImpl::_opened
  error,    \* DeviceBackendImpl::_hasActiveException
  hw,       \* content of the register of each accessor
  s,        \* members of the elements, see Init
  op,       \* the operation: "idle", "read" or "write"
  phase,    \* "pre", "transfer", "copies" or "post"
  todo,     \* elements still to be visited in the phase
  first,    \* firstDetectedRuntimeError
  nErrors,  \* _nRuntimeErrors
  wanted,   \* argument versionNumber of write()
  done,     \* low-level elements whose transfer was successful
  before,   \* buffers and versions when the operation started
  outcome   \* how the last operation ended: "none", "ok", "logic", "runtime"

groupVars == <<op, phase, todo, first, nErrors, wanted, done, before, outcome>>
vars == <<app, opened, error, hw, s, op, phase, todo, first, nErrors, wanted, done, before, outcome>>

CorrectUse == app.correct
Copies == app.copies
Elements == Accessors \cup Copies
Nodes == Elements \cup Raws

Accessor(e) == IF e \in Copies THEN TargetOf[e] ELSE e
LowLevel(e) == RawOf[Accessor(e)]
Slices(r) == {a \in Accessors : RawOf[a] = r}
First(S) == Min(S)
Initially == 0

Init ==
  /\ app \in Applications
  /\ opened = TRUE
  /\ error = FALSE
  /\ hw \in [Accessors -> Values]
  /\ s = [rip     |-> [n \in Nodes |-> FALSE],       \* readTransactionInProgress
          wip     |-> [n \in Nodes |-> FALSE],       \* writeTransactionInProgress
          exc     |-> [n \in Nodes |-> "none"],      \* _activeException
          version |-> [n \in Nodes |-> Initially],   \* _versionNumber
          buf     |-> [e \in Elements |-> Initially],  \* the application buffer
          raw     |-> [a \in Accessors |-> Initially], \* rawDataBuffer, a's part
          last    |-> Initially,  \* the last generated VersionNumber
          thrown  |-> "none"]     \* what the function has thrown
  /\ op = "idle"
  /\ phase = "pre"
  /\ todo = {}
  /\ first = "none"
  /\ nErrors = 0
  /\ wanted = 0
  /\ done = {}
  /\ before = <<>>
  /\ outcome = "none"

-----------------------------------------------------------------------------
(* The member functions, as operators from the members t to the members    *)
(* after the call.                                                         *)

Return(t) == [t EXCEPT !.thrown = "none"]
Throw(t, e) == [t EXCEPT !.thrown = e]

\* to->setActiveException(from->_activeException)
SetActiveException(t, from, to) ==
  IF t.exc[from] = "none" THEN t ELSE [t EXCEPT !.exc[to] = t.exc[from], !.exc[from] = "none"]

\* preRead() catches what doPreRead() throws into _activeException.
RawPreRead(t, r) ==
  IF t.rip[r] THEN t ELSE [t EXCEPT !.exc[r] = "none", !.rip[r] = TRUE]

PreRead(t, e) ==
  LET begun == [t EXCEPT !.exc[e] = "none", !.rip[e] = TRUE]
  IN  IF t.rip[e] THEN t
      ELSE IF e \in Copies THEN begun
      ELSE IF ~opened \/ e \in WriteOnly THEN [begun EXCEPT !.exc[e] = "logic"]
      ELSE RawPreRead(begun, RawOf[e])

\* Mistake: every accessor which shares the element gets a version of its own.
RawPostReadEach(t, r, update) ==
  LET next == [t EXCEPT !.rip[r] = FALSE,
                        !.last = IF update THEN @ + 1 ELSE @,
                        !.version[r] = IF update THEN t.last + 1 ELSE @]
  IN  Throw(next, t.exc[r])

\* The low-level element creates a new version with the first postRead().
RawPostRead(t, r, update) ==
  LET fresh == t.rip[r] /\ update
      next == [t EXCEPT !.rip[r] = FALSE,
                        !.last = IF fresh THEN @ + 1 ELSE @,
                        !.version[r] = IF fresh THEN t.last + 1 ELSE @]
  IN  Throw(next, t.exc[r])

AccessorPostRead(t, a, update) ==
  LET r == RawOf[a]
      ended == [t EXCEPT !.rip[a] = FALSE]
      delegated == t.rip[a] /\ opened
      next == IF delegated THEN RawPostRead(SetActiveException(ended, a, r), r, update)
                           ELSE Return(ended)
      filled == IF delegated /\ update
                THEN [next EXCEPT !.buf[a] = next.raw[a], !.version[a] = next.version[r]]
                ELSE next
  IN  IF next.thrown # "none" THEN next ELSE Throw(filled, filled.exc[a])

CopyPostRead(t, c, update) ==
  LET a == TargetOf[c]
      next == IF t.rip[c] THEN AccessorPostRead([t EXCEPT !.rip[c] = FALSE], a, update)
                          ELSE Return(t)
      filled == IF t.rip[c] /\ update THEN [next EXCEPT !.buf[c] = next.buf[a]] ELSE next
  IN  IF next.thrown # "none" THEN next ELSE Throw(filled, filled.exc[c])

PostRead(t, e, update) ==
  IF e \in Copies THEN CopyPostRead(t, e, update) ELSE AccessorPostRead(t, e, update)

RawPreWrite(t, r, version) ==
  LET cleared == [t EXCEPT !.exc[r] = "none"]
  IN  IF t.wip[r] THEN Return(t)
      ELSE IF version < t.version[r] THEN Throw(cleared, "logic")
      ELSE Return([cleared EXCEPT !.wip[r] = TRUE])

\* Mistake: only the first accessor of a shared element fills its buffer.
PreWriteFirstOnly(t, e, version) ==
  LET begun == [t EXCEPT !.exc[e] = "none", !.wip[e] = TRUE]
      next == RawPreWrite(begun, RawOf[e], version)
  IN  IF t.wip[RawOf[e]] THEN begun ELSE [next EXCEPT !.raw[e] = next.buf[e]]

\* preWrite() catches what it throws itself, and what doPreWrite() throws.
PreWrite(t, e, version) ==
  LET cleared == [t EXCEPT !.exc[e] = "none"]
      begun == [cleared EXCEPT !.wip[e] = TRUE]
      next == RawPreWrite(begun, RawOf[e], version)
  IN  IF t.wip[e] THEN t
      ELSE IF version < t.version[e] THEN [cleared EXCEPT !.exc[e] = "logic"]
      ELSE IF e \in Copies \/ ~opened THEN [begun EXCEPT !.exc[e] = "logic"]
      ELSE IF next.thrown # "none" THEN [next EXCEPT !.exc[e] = next.thrown]
      ELSE IF e \in ReadOnly THEN [next EXCEPT !.exc[e] = "logic"]
      ELSE [next EXCEPT !.raw[e] = next.buf[e]]

RawPostWrite(t, r, version) ==
  LET ended == [t EXCEPT !.wip[r] = FALSE]
  IN  IF t.exc[r] # "none" THEN Throw(ended, t.exc[r])
                           ELSE Return([ended EXCEPT !.version[r] = version])

\* Mistake: the version is set although the transfer has failed.
AccessorPostWriteAlways(t, a, version) ==
  LET r == RawOf[a]
      ended == [t EXCEPT !.wip[a] = FALSE, !.version[a] = version]
  IN  RawPostWrite(SetActiveException(ended, a, r), r, version)

AccessorPostWrite(t, a, version) ==
  LET r == RawOf[a]
      ended == [t EXCEPT !.wip[a] = FALSE]
      next == IF t.wip[a] /\ opened THEN RawPostWrite(SetActiveException(ended, a, r), r, version)
                                    ELSE Return(ended)
  IN  IF next.thrown # "none" THEN next
      ELSE IF next.exc[a] # "none" THEN Throw(next, next.exc[a])
      ELSE [next EXCEPT !.version[a] = version]

\* The copy decorator inherits doPostWrite() from NDRegisterAccessorDecorator,
\* which swaps the buffers.
CopyPostWrite(t, c, version) ==
  LET a == TargetOf[c]
      next == AccessorPostWrite(SetActiveException([t EXCEPT !.wip[c] = FALSE], c, a), a, version)
      swapped == IF t.wip[c] THEN [next EXCEPT !.buf[c] = next.buf[a], !.buf[a] = next.buf[c]]
                             ELSE Return(t)
  IN  IF swapped.thrown # "none" THEN swapped
      ELSE IF swapped.exc[c] # "none" THEN Throw(swapped, swapped.exc[c])
      ELSE [swapped EXCEPT !.version[c] = version]

PostWrite(t, e, version) ==
  IF e \in Copies THEN CopyPostWrite(t, e, version) ELSE AccessorPostWrite(t, e, version)

\* The group copies the exception of the low-level element into the element.
WithLowLevelException(t, e) ==
  IF t.exc[LowLevel(e)] = "none" THEN t ELSE [t EXCEPT !.exc[e] = t.exc[LowLevel(e)]]

-----------------------------------------------------------------------------
(* The operations of the group *)

Start(operation) ==
  /\ op = "idle"
  /\ op' = operation
  /\ phase' = "pre"
  /\ todo' = Elements
  /\ first' = "none"
  /\ nErrors' = 0
  /\ done' = {}
  /\ before' = [buf |-> s.buf, version |-> s.version]
  /\ outcome' = "none"
  /\ UNCHANGED <<opened, error, hw>>

Read ==
  /\ CorrectUse => opened /\ WriteOnly = {}
  /\ Start("read")
  /\ UNCHANGED <<s, wanted>>

\* A new version is the default argument of write().
Write(version) ==
  /\ app.writes
  /\ version <= s.last + 1
  /\ CorrectUse => opened /\ ReadOnly = {} /\ Copies = {} /\ version > s.last
  /\ Start("write")
  /\ wanted' = version
  /\ s' = [s EXCEPT !.last = Max({@, version})]

FirstDetected(e) == IF first = "none" THEN s'.exc[e] ELSE first

PreReadStep ==
  LET e == First(todo)
  IN  /\ op = "read" /\ phase = "pre" /\ todo # {}
      /\ s' = PreRead(s, e)
      /\ first' = FirstDetected(e)
      /\ todo' = todo \ {e}
      /\ UNCHANGED <<opened, error, hw, op, phase, nErrors, wanted, done, before, outcome>>

PreWriteStep ==
  LET e == First(todo)
  IN  /\ op = "write" /\ phase = "pre" /\ todo # {}
      /\ s' = PreWrite(s, e, wanted)
      /\ first' = FirstDetected(e)
      /\ todo' = todo \ {e}
      /\ UNCHANGED <<opened, error, hw, op, phase, nErrors, wanted, done, before, outcome>>

\* A transfer fails while the backend has an error, and it may always fail.
TransferOutcomes == IF error THEN {FALSE} ELSE BOOLEAN

TransferStep(r, ok) ==
  /\ phase = "transfer"
  /\ r \in todo
  /\ todo' = todo \ {r}
  /\ IF ok
     THEN /\ s' = IF op = "read"
                  THEN [s EXCEPT !.raw = [a \in Accessors |-> IF a \in Slices(r) THEN hw[a] ELSE @[a]]]
                  ELSE s
          /\ hw' = IF op = "write"
                   THEN [a \in Accessors |-> IF a \in Slices(r) THEN s.raw[a] ELSE hw[a]]
                   ELSE hw
          /\ done' = done \cup {r}
          /\ UNCHANGED first
     ELSE /\ s' = [s EXCEPT !.exc[r] = "runtime"]
          /\ first' = FirstDetected(r)
          /\ UNCHANGED <<hw, done>>
  /\ UNCHANGED <<opened, error, op, phase, nErrors, wanted, before, outcome>>

\* Mistake: a runtime_error ends the operation as well.
AfterPostLeave(e) ==
  IF s'.thrown # "none"
  THEN /\ op' = "idle" /\ outcome' = s'.thrown /\ todo' = {} /\ UNCHANGED nErrors
  ELSE /\ todo' = todo \ {e} /\ UNCHANGED <<op, outcome, nErrors>>

\* A runtime_error is counted, anything else ends the operation.
AfterPost(e) ==
  IF s'.thrown = "logic"
  THEN /\ op' = "idle" /\ outcome' = "logic" /\ todo' = {} /\ UNCHANGED nErrors
  ELSE /\ todo' = todo \ {e}
       /\ nErrors' = IF s'.thrown = "runtime" THEN nErrors + 1 ELSE nErrors
       /\ UNCHANGED <<op, outcome>>

\* Mistake: elements without an exception get the data.
PostReadUpdateOthers ==
  LET e == First(todo)
  IN  /\ op = "read" /\ phase \in {"copies", "post"} /\ todo # {}
      /\ s' = PostRead(WithLowLevelException(s, e), e, s.exc[LowLevel(e)] = "none")
      /\ error' = (error \/ s'.thrown = "runtime")
      /\ AfterPost(e)
      /\ UNCHANGED <<opened, hw, phase, first, wanted, done, before>>

\* Mistake: postRead() is called, which does not report the error.
PostReadUnreported ==
  LET e == First(todo)
  IN  /\ op = "read" /\ phase \in {"copies", "post"} /\ todo # {}
      /\ s' = PostRead(WithLowLevelException(s, e), e, first = "none")
      /\ AfterPost(e)
      /\ UNCHANGED <<opened, error, hw, phase, first, wanted, done, before>>

\* runPostReads(): postReadAndHandleExceptions() reports a runtime_error to
\* the backend.
PostReadStep ==
  LET e == First(todo)
  IN  /\ op = "read" /\ phase \in {"copies", "post"} /\ todo # {}
      /\ s' = PostRead(WithLowLevelException(s, e), e, first = "none")
      /\ error' = (error \/ s'.thrown = "runtime")
      /\ AfterPost(e)
      /\ UNCHANGED <<opened, hw, phase, first, wanted, done, before>>

PostWriteStep ==
  LET e == First(todo)
  IN  /\ op = "write" /\ phase = "post" /\ todo # {}
      /\ s' = PostWrite(WithLowLevelException(s, e), e, wanted)
      /\ AfterPost(e)
      /\ UNCHANGED <<opened, error, hw, phase, first, wanted, done, before>>

\* The transfers are skipped after an exception in the first phase. What the
\* copy decorators throw does not count.
NextPhase ==
  /\ op # "idle" /\ todo = {}
  /\ \/ /\ phase = "pre" /\ first = "none"
        /\ phase' = "transfer" /\ todo' = {RawOf[a] : a \in Accessors}
     \/ /\ (phase = "pre" /\ first # "none") \/ phase = "transfer"
        /\ phase' = IF op = "read" THEN "copies" ELSE "post"
        /\ todo' = IF op = "read" THEN Copies ELSE Elements
     \/ phase = "copies" /\ phase' = "post" /\ todo' = Elements
  /\ nErrors' = 0
  /\ UNCHANGED <<opened, error, hw, s, op, first, wanted, done, before, outcome>>

\* The first exception is thrown if an element has thrown one in the end.
Finish ==
  /\ op # "idle" /\ phase = "post" /\ todo = {}
  /\ op' = "idle"
  /\ outcome' = IF nErrors = 0 THEN "ok" ELSE first
  /\ UNCHANGED <<opened, error, hw, s, phase, todo, first, nErrors, wanted, done, before>>

-----------------------------------------------------------------------------
(* What else happens in the program *)

SetBuffer(a, v) ==
  /\ app.writes
  /\ op = "idle"
  /\ s.buf[a] # v
  /\ s' = [s EXCEPT !.buf[a] = v]
  /\ UNCHANGED <<opened, error, hw, groupVars>>

RegisterChanges(a, v) ==
  /\ hw[a] # v
  /\ hw' = [hw EXCEPT ![a] = v]
  /\ UNCHANGED <<opened, error, s, groupVars>>

SetException ==
  /\ opened /\ ~error
  /\ error' = TRUE
  /\ UNCHANGED <<opened, hw, s, groupVars>>

Open ==
  /\ op = "idle"
  /\ ~opened \/ error
  /\ opened' = TRUE
  /\ error' = FALSE
  /\ UNCHANGED <<hw, s, groupVars>>

Close ==
  /\ op = "idle" /\ opened
  /\ opened' = FALSE
  /\ UNCHANGED <<error, hw, s, groupVars>>

GroupStep ==
  \/ PreReadStep
  \/ PreWriteStep
  \/ \E r \in Raws, ok \in TransferOutcomes : TransferStep(r, ok)
  \/ PostReadStep
  \/ PostWriteStep
  \/ NextPhase
  \/ Finish

Next ==
  /\ UNCHANGED app
  /\ \/ Read /\ s.last + Cardinality(Raws) <= MaxVersion
     \/ \E version \in 1 .. MaxVersion : Write(version)
     \/ GroupStep
     \/ \E a \in Accessors, v \in Values : SetBuffer(a, v)
     \/ \E a \in Accessors, v \in Values : RegisterChanges(a, v)
     \/ SetException
     \/ Open
     \/ Close

Spec == Init /\ [][Next]_vars

-----------------------------------------------------------------------------
(* Properties *)

Exceptions == {"none", "logic", "runtime"}
TypeOK ==
  /\ app \in Applications
  /\ opened \in BOOLEAN /\ error \in BOOLEAN
  /\ hw \in [Accessors -> Values \cup {Initially}]
  /\ s.rip \in [Nodes -> BOOLEAN] /\ s.wip \in [Nodes -> BOOLEAN]
  /\ s.exc \in [Nodes -> Exceptions] /\ s.thrown \in Exceptions
  /\ s.version \in [Nodes -> Nat] /\ s.last \in Nat
  /\ s.buf \in [Elements -> Values \cup {Initially}]
  /\ op \in {"idle", "read", "write"}
  /\ phase \in {"pre", "transfer", "copies", "post"}
  /\ todo \subseteq Nodes
  /\ first \in Exceptions
  /\ done \subseteq Raws

Ends(operation) == op = operation /\ op' = "idle"

(***************************************************************************)
(* A read() which returns has filled every buffer with data which was      *)
(* transferred in this call, and accessors which share a transfer get the  *)
(* same, new version (spec B.12.1.1.1).                                    *)
(***************************************************************************)
ReadDelivers ==
  [][Ends("read") /\ outcome' = "ok" =>
       /\ \A e \in Elements : LowLevel(e) \in done /\ s'.buf[e] = s'.raw[Accessor(e)]
       /\ \A a \in Accessors : s'.version[a] > before.version[a]
       /\ \A a, b \in Accessors : RawOf[a] = RawOf[b] => s'.version[a] = s'.version[b]]_vars

(***************************************************************************)
(* "If a ChimeraTK::runtime_error is thrown, the content of the            *)
(* application buffers of all elements is not changed" (B.12.11), also of  *)
(* elements whose own transfer was successful.                             *)
(***************************************************************************)
FailedReadKeepsBuffers ==
  [][Ends("read") /\ outcome' # "ok" =>
       /\ s'.buf = before.buf
       /\ \A e \in Elements : s'.version[e] = before.version[e]]_vars

(***************************************************************************)
(* read() throws a runtime_error if and only if a transfer has failed, and *)
(* then the backend is in the exception state (B.9.1). The assertion on    *)
(* firstDetectedRuntimeError in TransferGroup.cc holds.                    *)
(***************************************************************************)
ReadErrorReported ==
  [][/\ Ends("read") /\ outcome' = "runtime" => error' /\ done # {RawOf[a] : a \in Accessors}
     /\ Ends("read") /\ outcome' = "ok" => done = {RawOf[a] : a \in Accessors}
     /\ nErrors' # 0 => first' # "none"]_vars

(***************************************************************************)
(* A write() which returns has transferred what is in the application      *)
(* buffers: "It is always guaranteed that the data of the current transfer *)
(* is not lost" (B.7.2).                                                   *)
(***************************************************************************)
WriteDelivers ==
  [][Ends("write") /\ outcome' = "ok" =>
       \A a \in Accessors : RawOf[a] \in done /\ s.raw[a] = s.buf[a]]_vars

(***************************************************************************)
(* "If a transfer was not successful (exception has been thrown), the      *)
(* VersionNumber ... does not change" (B.11.5): after write() an element   *)
(* has a new version only if its data was transferred.                     *)
(***************************************************************************)
VersionOnlyIfWritten ==
  [][Ends("write") =>
       \A a \in Accessors : s'.version[a] # before.version[a] => RawOf[a] \in done]_vars

(***************************************************************************)
(* When the operation has ended no transaction is in progress: preXxx()    *)
(* and postXxx() "are always called in pairs" (B.5), "postXxx() is called  *)
(* for all high level elements, even if some postXxx() throw exceptions"   *)
(* (B.12.10.4).                                                            *)
(***************************************************************************)
CallsArePaired ==
  CorrectUse /\ op = "idle" => \A n \in Nodes : ~s.rip[n] /\ ~s.wip[n]

\* What the group keeps: the types, and no transaction between its operations.
GroupInv == TypeOK /\ CallsArePaired

\* A read() which fails says so and changes nothing.
FailedReadIsTold == FailedReadKeepsBuffers /\ ReadErrorReported

\* A write() transfers what is in the buffers, and the versions tell what it
\* has transferred if it fails.
WriteIsTold == WriteDelivers /\ VersionOnlyIfWritten

=============================================================================

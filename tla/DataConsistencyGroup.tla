------------------------ MODULE DataConsistencyGroup ------------------------
(***************************************************************************)
(* DataConsistencyGroup together with the ReadAnyGroup of its elements: the *)
(* SimpleMatcher (mode exact), and the HistorizedMatcher with its          *)
(* DataConsistencyDecorators, which deliver an update only if all elements *)
(* have a value with the same version number, the last one or one in their *)
(* history.                                                                *)
(*                                                                         *)
(* The updates of an element have version numbers which do not decrease.   *)
(* The content of a buffer is the number of the update it came with, 0 for *)
(* a buffer which was never filled. Data are swapped between the buffers,  *)
(* never copied, as in the code.                                           *)
(***************************************************************************)
EXTENDS Naturals, Sequences, FiniteSets

CONSTANTS
  Elements,
  HistoryLengths,   \* possible values of histLen
  MaxVersion,       \* bound: version numbers
  MaxUpdates        \* bound: updates of an element

VARIABLES
  mode, histLen,        \* of the group
  log,                  \* log[e]: the versions of all updates of e
  user,                 \* user[e]: the buffer the application sees
  target,               \* target[e]: the buffer of the decorated accessor
  history,              \* history[e]: TargetElement::versionNumbers and histBuffer
  index,                \* index[e]: TargetElement::lastMatchingIndex
  lastMatching,         \* _lastMatchingVersionNumber
  inTransaction,        \* decorators with preRead() and without postRead()
  needPreRead,          \* _decoratorsNeedPreRead
  updateCalled,         \* _updateCalled
  consistentElements,   \* SimpleMatcher::_consistentElements
  consistentTo,         \* SimpleMatcher::_versionNumberToBeConsistentTo
  untold,               \* elements with an update for which update() was not called
  phase, current        \* where readAny() is, and for which element

historized == <<user, target, history, index, lastMatching, inTransaction, needPreRead>>
exact == <<consistentElements, consistentTo, untold>>
vars == <<mode, histLen, log, historized, updateCalled, exact, phase, current>>

None == "none"
Buffer(version, data) == [version |-> version, data |-> data]

-----------------------------------------------------------------------------
(* HistorizedMatcher *)

\* Mistake: the oldest buffer is not dropped.
PushedGrowing(h, buffer) == <<buffer>> \o h

\* Mistake: the buffers are not shifted.
PushedOver(h, buffer) == [h EXCEPT ![1] = buffer]

\* The history after updateHistory(). The first entry is overwritten if it is
\* invalid. What is swapped out of the history is overwritten by the update.
Pushed(h, buffer) ==
  IF h[1].version > 0 THEN [i \in 1 .. histLen |-> IF i = 1 THEN buffer ELSE h[i - 1]]
  ELSE [h EXCEPT ![1] = buffer]

\* Mistake: the same version number may be twice in the history.
UnduplicatedKept(h, version) == h

\* checkUpdate(): a version number is only once in the history.
Unduplicated(h, version) ==
  IF histLen > 0 /\ h[1].version = version THEN [h EXCEPT ![1].version = 0] ELSE h

\* findMatch() for one of the other elements: 0 for the target, i for the i-th
\* buffer of the history.
MatchesAt(e, version) ==
  (IF target[e].version = version THEN {0} ELSE {})
    \cup {i \in 1 .. histLen : history[e][i].version = version}
FirstOf(S) == CHOOSE i \in S : \A j \in S : i <= j

\* DataConsistencyDecorator::readCallback() with an update of e. The call of
\* preRead() of the target before and after it has no effect which is seen.
ReadCallback(e, version) ==
  LET pushed == IF histLen = 0 THEN history[e] ELSE Pushed(history[e], target[e])
      found == \A f \in Elements \ {e} : MatchesAt(f, version) # {}
  IN  /\ log' = [log EXCEPT ![e] = Append(@, version)]
      /\ target' = [target EXCEPT ![e] = Buffer(version, Len(log'[e]))]
      /\ history' = [history EXCEPT ![e] = Unduplicated(pushed, version)]
      /\ IF found
         THEN /\ index' = [f \in Elements |-> IF f = e THEN 0 ELSE FirstOf(MatchesAt(f, version))]
              /\ lastMatching' = version
              /\ phase' = "notified" /\ current' = e
         ELSE UNCHANGED <<index, lastMatching, phase, current>>
      /\ UNCHANGED <<mode, histLen, user, inTransaction, needPreRead, updateCalled, exact>>

\* handleMissingPostReads(): the other decorators which get the match as well.
Missing(e) == {f \in (inTransaction \ {e}) : lastMatching > user[f].version}

\* getMatchingInfo(), and the swap with getMatchingBuffer(), for the decorators
\* in read. The version number stays in the history.
Swap(read) ==
  /\ user' = [f \in Elements |-> IF f \notin read THEN user[f]
                                 ELSE IF index[f] = 0 THEN target[f] ELSE history[f][index[f]]]
  /\ target' = [f \in Elements |-> IF f \in read /\ index[f] = 0
                                   THEN [target[f] EXCEPT !.data = user[f].data] ELSE target[f]]
  /\ history' = [f \in Elements |-> IF f \in read /\ index[f] > 0
                                    THEN [history[f] EXCEPT ![index[f]].data = user[f].data]
                                    ELSE history[f]]
  /\ inTransaction' = inTransaction \ read

\* Mistake: the other decorators are read whenever there is a match.
PostReadAll(e) == Swap(inTransaction \cup {e}) /\ needPreRead' = TRUE

\* DataConsistencyDecorator::doPostRead(): the special case is a match with the
\* version number which the application has already.
PostRead(e) ==
  LET others == lastMatching > user[e].version
  IN  /\ Swap({e} \cup (IF others THEN Missing(e) ELSE {}))
      /\ needPreRead' = (needPreRead \/ others)

\* postRead() does nothing for a decorator which is not in a transaction.
AcceptMatch ==
  /\ mode = "historized" /\ phase = "notified"
  /\ IF current \in inTransaction THEN PostRead(current)
     ELSE UNCHANGED <<user, target, history, inTransaction, needPreRead>>
  /\ phase' = "returned"
  /\ UNCHANGED <<mode, histLen, log, index, lastMatching, updateCalled, exact, current>>

\* An exception in the queue of the target: readAny() throws.
ReadException(e) ==
  /\ mode = "historized" /\ phase = "waiting"
  /\ inTransaction' = inTransaction \ {e}
  /\ phase' = "returned" /\ current' = e
  /\ UNCHANGED <<mode, histLen, log, user, target, history, index, lastMatching, needPreRead,
                 updateCalled, exact>>

\* Mistake: the others are not caught up on.
PreReadAlone ==
  /\ mode = "historized" /\ phase = "returned"
  /\ IF needPreRead /\ updateCalled # current
     THEN phase' = "logic_error" /\ UNCHANGED <<inTransaction, needPreRead>>
     ELSE phase' = "waiting" /\ inTransaction' = inTransaction \cup {current} /\ needPreRead' = FALSE
  /\ UNCHANGED <<mode, histLen, log, user, target, history, index, lastMatching, updateCalled, exact,
                 current>>

\* The next readAny() calls preRead() of the decorator which was read last:
\* handleMissingPreReads().
PreRead ==
  /\ mode = "historized" /\ phase = "returned"
  /\ IF needPreRead /\ updateCalled # current
     THEN phase' = "logic_error" /\ UNCHANGED <<inTransaction, needPreRead>>
     ELSE phase' = "waiting" /\ inTransaction' = Elements /\ needPreRead' = FALSE
  /\ UNCHANGED <<mode, histLen, log, user, target, history, index, lastMatching, updateCalled, exact,
                 current>>

-----------------------------------------------------------------------------
(* SimpleMatcher *)

Told(e) == user[e].version >= consistentTo

\* Mistake: a newer version number does not start again.
MatchUpdateKeeping(e) ==
  /\ consistentTo' = IF Told(e) THEN user[e].version ELSE consistentTo
  /\ consistentElements' = IF Told(e) THEN consistentElements \cup {e} ELSE consistentElements

\* SimpleMatcher::update()
MatchUpdate(e) ==
  /\ consistentTo' = IF Told(e) THEN user[e].version ELSE consistentTo
  /\ consistentElements' = IF ~Told(e) THEN consistentElements
                           ELSE {e} \cup (IF consistentTo = user[e].version THEN consistentElements ELSE {})

\* The accessor is not decorated.
ReadPlain(e, version) ==
  /\ log' = [log EXCEPT ![e] = Append(@, version)]
  /\ user' = [user EXCEPT ![e] = Buffer(version, Len(log'[e]))]
  /\ untold' = untold \cup {e}
  /\ phase' = "returned" /\ current' = e
  /\ UNCHANGED <<mode, histLen, target, history, index, lastMatching, inTransaction, needPreRead,
                 updateCalled, consistentElements, consistentTo>>

-----------------------------------------------------------------------------
(* DataConsistencyGroup *)

LastVersion(e) == IF log[e] = <<>> THEN 0 ELSE log[e][Len(log[e])]

\* readAny() takes an update from the queue of e.
ReadAny(e, version) ==
  /\ phase = "waiting"
  /\ Len(log[e]) < MaxUpdates
  /\ version >= LastVersion(e)
  /\ IF mode = "historized" THEN ReadCallback(e, version) ELSE ReadPlain(e, version)

\* update() for the element which readAny() has returned.
Update ==
  /\ phase = "returned"
  /\ CASE mode = "historized" ->
            updateCalled' = current /\ UNCHANGED <<exact, phase>>
       [] mode = "exact" ->
            MatchUpdate(current) /\ untold' = untold \ {current} /\ phase' = "waiting" /\ UNCHANGED updateCalled
       [] mode = None ->
            phase' = "waiting" /\ UNCHANGED <<updateCalled, exact>>
  /\ UNCHANGED <<mode, histLen, log, historized, current>>

\* setMatchingMode() throws for historized.
SetMatchingMode(newMode) ==
  /\ phase = "waiting"
  /\ mode # "historized" /\ newMode # "historized"
  /\ mode' = newMode
  /\ UNCHANGED <<histLen, log, historized, updateCalled, exact, phase, current>>

\* isConsistent()
IsConsistent ==
  CASE mode = None -> TRUE
    [] mode = "exact" -> Cardinality(consistentElements) = Cardinality(Elements)
    [] mode = "historized" -> \A e, f \in Elements : user[e].version = user[f].version

-----------------------------------------------------------------------------
\* The decorator takes the data of the target over when it is created. All
\* elements were added before the first readAny(), which calls preRead().
Decorate(initial) ==
  /\ log = [e \in Elements |-> IF initial[e] = 0 THEN <<>> ELSE <<1>>]
  /\ user = [e \in Elements |-> Buffer(initial[e], initial[e])]
  /\ target = [e \in Elements |-> Buffer(initial[e], 0)]
  /\ history = [e \in Elements |-> [i \in 1 .. histLen |-> Buffer(0, 0)]]

Init ==
  /\ mode \in {None, "exact", "historized"}
  /\ histLen \in IF mode = "historized" THEN HistoryLengths ELSE {0}
  /\ \E initial \in [Elements -> IF mode = "historized" THEN {0, 1} ELSE {0}] : Decorate(initial)
  /\ index = [e \in Elements |-> 0]
  /\ lastMatching = 0
  /\ inTransaction = IF mode = "historized" THEN Elements ELSE {}
  /\ needPreRead = FALSE
  /\ updateCalled = None
  /\ consistentElements = {} /\ consistentTo = 0 /\ untold = {}
  /\ phase = "waiting" /\ current = None

Next ==
  \/ \E e \in Elements : ReadException(e) \/ \E v \in 1 .. MaxVersion : ReadAny(e, v)
  \/ AcceptMatch \/ Update \/ PreRead
  \/ \E m \in {None, "exact"} : SetMatchingMode(m)

Spec == Init /\ [][Next]_vars

-----------------------------------------------------------------------------
(* Properties *)

TypeOK ==
  /\ \A e \in Elements : /\ user[e] \in [version : 0 .. MaxVersion, data : 0 .. MaxUpdates]
                         /\ target[e] \in [version : 0 .. MaxVersion, data : 0 .. MaxUpdates]
                         /\ Len(history[e]) = histLen
  /\ inTransaction \subseteq Elements /\ consistentElements \subseteq Elements

(***************************************************************************)
(* Whenever readAny() has returned a match, all elements have the same     *)
(* version number, and isConsistent() says so: "the effect that the        *)
(* readAny() returns only on consistent inputs".                           *)
(***************************************************************************)
MatchIsConsistent ==
  mode = "historized" /\ phase = "returned" /\ lastMatching > 0 =>
    IsConsistent /\ \A e \in Elements : user[e].version = lastMatching

(***************************************************************************)
(* The data which the application sees are those of an update with the     *)
(* version number it sees, although the buffers are swapped with old       *)
(* content whose version number stays in the history.                      *)
(***************************************************************************)
DataBelongToVersion ==
  \A e \in Elements :
    /\ user[e].version > 0 => user[e].data > 0
    /\ user[e].data > 0 => log[e][user[e].data] = user[e].version

(***************************************************************************)
(* No match is missed: each version number among the last histLen + 1      *)
(* updates of an element can be found, also if version numbers come twice. *)
(***************************************************************************)
HistoryIsComplete ==
  mode = "historized" =>
    \A e \in Elements : \A i \in DOMAIN log[e] :
      i + histLen >= Len(log[e]) => MatchesAt(e, log[e][i]) # {}

(***************************************************************************)
(* A version number is found at one place only, so that there is no choice *)
(* between newer and older data of the same version number.                *)
(***************************************************************************)
HistoryIsUnique ==
  mode = "historized" =>
    \A e \in Elements : \A v \in 1 .. MaxVersion : Cardinality(MatchesAt(e, v)) <= 1

(***************************************************************************)
(* In mode exact isConsistent() says whether all elements have the same    *)
(* version number, as long as update() was called for all updates.         *)
(***************************************************************************)
ExactMeansEqual ==
  mode = "exact" /\ untold = {} =>
    (IsConsistent => \A e, f \in Elements : user[e].version = user[f].version)

=============================================================================

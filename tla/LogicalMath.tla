---------------------------- MODULE LogicalMath ----------------------------
(***************************************************************************)
(* The MathPlugin of the logical name mapping, for writing. A register     *)
(* with the plugin is written by one thread, the variables which are the   *)
(* parameters of its formula by others. If a plugin has push parameters,   *)
(* the formula is also evaluated when one of them is written; the threads  *)
(* exclude each other with _writeMutex. How often a thread has locked the  *)
(* mutex of any plugin is counted in one thread_local _writeLockCounter.   *)
(*                                                                         *)
(* The main thread writes its registers alone or in a TransferGroup:       *)
(* preWrite() of all, the transfers, postWrite() of all.                   *)
(***************************************************************************)
EXTENDS Naturals, Sequences

CONSTANTS
  Plugins,      \* the plugins of the registers of the main thread
  Push,         \* those with _hasPushParameter
  Group,        \* the order in which the main thread writes them
  Parameters,   \* the variables, each of them a parameter of all plugins
  Main, Nobody, \* the main thread; a parameter is written by its own thread
  NoData,
  MaxVersion    \* bound: version numbers

\* The plugins with push parameters are written first (otherwise the counter of
\* locks, which all of them share, releases the mutex of another one), and no
\* register is in a group twice.
MathAssumption ==
  /\ Push \subseteq Plugins /\ Main # Nobody
  /\ Group \in Seq(Plugins) /\ Group # <<>>
  /\ \A i, j \in DOMAIN Group : i < j => Group[i] # Group[j] /\ (Group[j] \in Push => Group[i] \in Push)

VARIABLES
  mathOpen,         \* the LNM backend is opened and has no exception
  onOpen,           \* getVersionOnOpen()
  now,              \* the last version number
  variable,         \* variable[v]: version of its value
  seen,             \* seen[p][v]: the same in the accessors of the FormulaHelper
  mutex, depth,     \* _writeMutex: owner and how often it is locked
  mainWritten, allWritten, lastMain,
  skip,             \* _skipWriteDelegation
  thrown,           \* _activeException of the decorators
  counter,          \* _writeLockCounter of the main thread
  result,           \* result[p]: what the target accessor would write
  target,           \* target[p]: arguments of the last result in the device
  mathPc, position, \* where the main thread is
  mainValue,        \* the value which it writes
  updating          \* updating[v]: plugins whose updateResult() is not done

mathVars == <<mathOpen, onOpen, now, variable, seen, mutex, depth, mainWritten, allWritten, lastMain, skip,
              thrown, counter, result, target, mathPc, position, mainValue, updating>>

flags == <<mainWritten, allWritten, lastMain>>
lock == <<mutex, depth, counter>>
mainThread == <<mathPc, position, mainValue, skip, thrown>>

Current == Group[position]

-----------------------------------------------------------------------------
(* The backend *)

\* Mistake: the values which were written before the opening still count.
OpenKeeping ==
  /\ ~mathOpen /\ mathPc = "idle" /\ now < MaxVersion
  /\ mathOpen' = TRUE /\ now' = now + 1 /\ onOpen' = now'
  /\ UNCHANGED <<variable, seen, flags, lock, result, target, mainThread, updating>>

\* open(), with the openHook() of the plugins. The main thread does not write
\* while the device is opened.
OpenMath ==
  /\ ~mathOpen /\ mathPc = "idle" /\ now < MaxVersion
  /\ mathOpen' = TRUE /\ now' = now + 1 /\ onOpen' = now'
  /\ mainWritten' = [p \in Plugins |-> FALSE]
  /\ allWritten' = [p \in Plugins |-> FALSE]
  /\ UNCHANGED <<variable, seen, lastMain, lock, result, target, mainThread, updating>>

\* An exception is reported by any accessor.
FailMath ==
  /\ mathOpen
  /\ mathOpen' = FALSE
  /\ UNCHANGED <<onOpen, now, variable, seen, flags, lock, result, target, mainThread, updating>>

-----------------------------------------------------------------------------
(* The formula helper *)

\* checkAllParametersWritten()
AllWritten(p, params) == allWritten[p] \/ \A v \in Parameters : params[v] > onOpen

\* The arguments of the formula stand for its result.
Compute(x, params) == [x |-> x, params |-> params]

\* Mistake: it is tried again while the device is not functional.
UpdateResultRetry(v, p) ==
  /\ p \in updating[v] /\ mutex[p] = Nobody
  /\ mathOpen
  /\ updating' = [updating EXCEPT ![v] = @ \ {p}]
  /\ seen' = [seen EXCEPT ![p] = variable]
  /\ allWritten' = [allWritten EXCEPT ![p] = AllWritten(p, variable)]
  /\ target' = IF allWritten'[p] /\ mainWritten[p]
               THEN [target EXCEPT ![p] = Compute(lastMain[p], variable)] ELSE target
  /\ UNCHANGED <<mathOpen, onOpen, now, variable, mainWritten, lastMain, lock, result, mainThread>>

\* updateResult(), with the mutex. An exception of the target is reported to
\* the backend and goes no further.
UpdateResult(v, p) ==
  /\ p \in updating[v] /\ mutex[p] = Nobody
  /\ updating' = [updating EXCEPT ![v] = @ \ {p}]
  /\ IF ~mathOpen THEN UNCHANGED <<seen, allWritten, target>>
     ELSE /\ seen' = [seen EXCEPT ![p] = variable]
          /\ allWritten' = [allWritten EXCEPT ![p] = AllWritten(p, variable)]
          /\ target' = IF allWritten'[p] /\ mainWritten[p]
                       THEN [target EXCEPT ![p] = Compute(lastMain[p], variable)] ELSE target
  /\ UNCHANGED <<mathOpen, onOpen, now, variable, mainWritten, lastMain, lock, result, mainThread>>

\* A variable is written: LNMBackendVariableAccessor::doWriteTransfer(), and
\* doPostWrite() calls updateResult() of the formulas which it is pushed to.
WriteParameter(v) ==
  /\ mathOpen /\ updating[v] = {} /\ now < MaxVersion
  /\ now' = now + 1
  /\ variable' = [variable EXCEPT ![v] = now']
  /\ updating' = [updating EXCEPT ![v] = Push]
  /\ UNCHANGED <<mathOpen, onOpen, seen, flags, lock, result, target, mainThread>>

-----------------------------------------------------------------------------
(* The decorator *)

\* The next register of the group, or the next phase.
Step(again, next) ==
  IF position < Len(Group) THEN mathPc' = again /\ position' = position + 1
  ELSE mathPc' = next /\ position' = 1

BeginMain ==
  /\ mathPc = "idle" /\ now < MaxVersion
  /\ now' = now + 1 /\ mainValue' = now'
  /\ mathPc' = "update" /\ position' = 1
  /\ skip' = [p \in Plugins |-> TRUE]
  /\ thrown' = {}
  /\ UNCHANGED <<mathOpen, onOpen, variable, seen, flags, lock, result, target, updating>>

\* The first part of doPreWrite(), without the mutex
UpdateParameters ==
  /\ mathPc = "update"
  /\ IF mathOpen
     THEN /\ seen' = [seen EXCEPT ![Current] = variable]
          /\ mathPc' = "pre" /\ UNCHANGED <<position, thrown>>
     ELSE /\ thrown' = thrown \cup {Current}
          /\ Step("update", "post")
          /\ UNCHANGED seen
  /\ UNCHANGED <<mathOpen, onOpen, now, variable, flags, lock, result, target, mainValue, skip, updating>>

\* Mistake: the value is computed, but the mutex is not held until postWrite().
PreWriteUnlocked ==
  LET p == Current IN
  /\ mathPc = "pre"
  /\ p \in Push => mutex[p] \in {Nobody, Main}
  /\ lastMain' = [lastMain EXCEPT ![p] = mainValue]
  /\ mainWritten' = [mainWritten EXCEPT ![p] = TRUE]
  /\ allWritten' = [allWritten EXCEPT ![p] = p \in Push /\ AllWritten(p, seen[p])]
  /\ skip' = [skip EXCEPT ![p] = p \in Push /\ ~allWritten'[p]]
  /\ result' = IF skip'[p] THEN result ELSE [result EXCEPT ![p] = Compute(mainValue, seen[p])]
  /\ Step("update", IF thrown = {} THEN "transfer" ELSE "post")
  /\ UNCHANGED <<mathOpen, onOpen, now, variable, seen, lock, target, mainValue, thrown, updating>>

\* The rest of doPreWrite(): with push parameters the mutex is locked and the
\* value is stored for the other threads; the transfer is skipped if there is
\* a parameter which has not been written. There are no transfers in a group
\* with an exception.
PreWrite ==
  LET p == Current IN
  /\ mathPc = "pre"
  /\ IF p \in Push
     THEN /\ mutex[p] \in {Nobody, Main}
          /\ mutex' = [mutex EXCEPT ![p] = Main]
          /\ depth' = [depth EXCEPT ![p] = @ + 1]
          /\ counter' = counter + 1
          /\ lastMain' = [lastMain EXCEPT ![p] = mainValue]
          /\ mainWritten' = [mainWritten EXCEPT ![p] = TRUE]
          /\ allWritten' = [allWritten EXCEPT ![p] = AllWritten(p, seen[p])]
     ELSE UNCHANGED <<lock, flags>>
  /\ skip' = [skip EXCEPT ![p] = p \in Push /\ ~allWritten'[p]]
  /\ result' = IF skip'[p] THEN result ELSE [result EXCEPT ![p] = Compute(mainValue, seen[p])]
  /\ Step("update", IF thrown = {} THEN "transfer" ELSE "post")
  /\ UNCHANGED <<mathOpen, onOpen, now, variable, seen, target, mainValue, thrown, updating>>

\* doWriteTransfer(). Without the backend the transfer throws.
Transfer ==
  LET p == Current IN
  /\ mathPc = "transfer"
  /\ target' = IF mathOpen /\ ~skip[p] THEN [target EXCEPT ![p] = result[p]] ELSE target
  /\ thrown' = IF mathOpen \/ skip[p] THEN thrown ELSE thrown \cup {p}
  /\ Step("transfer", "post")
  /\ UNCHANGED <<mathOpen, onOpen, now, variable, seen, flags, lock, result, mainValue, skip, updating>>

\* Mistake: a skipped transfer keeps the mutex.
PostWriteSkipping ==
  LET p == Current IN
  /\ mathPc = "post"
  /\ IF counter > 0 /\ ~skip[p]
     THEN /\ counter' = counter - 1
          /\ depth' = [depth EXCEPT ![p] = @ - 1]
          /\ mutex' = IF depth'[p] = 0 THEN [mutex EXCEPT ![p] = Nobody] ELSE mutex
     ELSE UNCHANGED lock
  /\ Step("post", "idle")
  /\ UNCHANGED <<mathOpen, onOpen, now, variable, seen, flags, result, target, mainValue, skip, thrown, updating>>

\* doPostWrite() releases the mutex if any is counted. Unlocking a mutex which
\* the thread does not hold is undefined behaviour; here it has no effect.
PostWrite ==
  LET p == Current IN
  /\ mathPc = "post"
  /\ counter' = IF counter > 0 THEN counter - 1 ELSE counter
  /\ IF counter > 0 /\ mutex[p] = Main
     THEN /\ depth' = [depth EXCEPT ![p] = @ - 1]
          /\ mutex' = IF depth'[p] = 0 THEN [mutex EXCEPT ![p] = Nobody] ELSE mutex
     ELSE UNCHANGED <<mutex, depth>>
  /\ Step("post", "idle")
  /\ UNCHANGED <<mathOpen, onOpen, now, variable, seen, flags, result, target, mainValue, skip, thrown, updating>>

-----------------------------------------------------------------------------
MathInit ==
  /\ mathOpen = FALSE /\ onOpen = 0 /\ now = 0
  /\ variable = [v \in Parameters |-> 0]
  /\ seen = [p \in Plugins |-> variable]
  /\ mutex = [p \in Plugins |-> Nobody] /\ depth = [p \in Plugins |-> 0] /\ counter = 0
  /\ mainWritten = [p \in Plugins |-> FALSE] /\ allWritten = mainWritten
  /\ lastMain = [p \in Plugins |-> 0]
  /\ skip = [p \in Plugins |-> TRUE] /\ thrown = {}
  /\ result = [p \in Plugins |-> NoData] /\ target = result
  /\ mathPc = "idle" /\ position = 1 /\ mainValue = 0
  /\ updating = [v \in Parameters |-> {}]

MainStep == UpdateParameters \/ PreWrite \/ Transfer \/ PostWrite

MathNext ==
  \/ OpenMath \/ FailMath \/ BeginMain
  \/ UpdateParameters \/ PreWrite \/ Transfer \/ PostWrite
  \/ \E v \in Parameters : WriteParameter(v) \/ \E p \in Plugins : UpdateResult(v, p)

\* A write operation which has begun goes on.
MathFairness ==
  /\ WF_mathVars(MainStep)
  /\ \A v \in Parameters, p \in Plugins : SF_mathVars(UpdateResult(v, p))

MathSpec == MathInit /\ [][MathNext]_mathVars /\ MathFairness

-----------------------------------------------------------------------------
(* Properties *)

Quiet == mathPc = "idle" /\ \A v \in Parameters : updating[v] = {}

(***************************************************************************)
(* When nothing is going on, the device has the result for the last value  *)
(* of the register and the last values of all parameters, if all of them   *)
(* have been written since the device was opened: no order of the writes   *)
(* of the threads loses one of them.                                       *)
(***************************************************************************)
ResultIsCurrent ==
  Quiet /\ mathOpen =>
    \A p \in Push : mainWritten[p] /\ (\A v \in Parameters : variable[v] > onOpen)
                      => target[p] = Compute(lastMain[p], variable)

(***************************************************************************)
(* Nothing is computed from values which were not written since the device *)
(* was opened: what the parameters' threads write uses a value of the main *)
(* thread which is newer, and the main thread newer parameters.            *)
(***************************************************************************)
WritesNothingOld ==
  \A p \in Push : target'[p] # target[p] =>
    target'[p].x > onOpen /\ \A v \in Parameters : target'[p].params[v] > onOpen
NothingOldIsWritten == [][WritesNothingOld]_mathVars

(***************************************************************************)
(* "we count separately how many times the lock has been aquired, so we    *)
(* can release it the exact right amount of times"                         *)
(***************************************************************************)
MutexIsReleased == mathPc = "idle" => counter = 0 /\ \A p \in Plugins : mutex[p] = Nobody

\* What is in the device, and what is left of an operation.
ResultsAreCurrent == ResultIsCurrent /\ MutexIsReleased

(***************************************************************************)
(* A thread which has written a parameter comes back from the evaluation   *)
(* of the formulas: the main thread does not keep the mutex for ever.      *)
(***************************************************************************)
ParameterWriteReturns == \A v \in Parameters : updating[v] # {} ~> updating[v] = {}

=============================================================================

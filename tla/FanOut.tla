-------------------------------- MODULE FanOut --------------------------------
(***************************************************************************)
(* Writing through the fanOut plugin of the LogicalNameMappingBackend: one *)
(* value is written to additional targets and to the main target of a      *)
(* logical register. The buffer of the application is swapped into the     *)
(* accessor of the main target for the time of the transfer; the others    *)
(* get copies. Any target may refuse the write (its device is closed), and *)
(* any transfer may fail.                                                  *)
(***************************************************************************)
EXTENDS Integers

CONSTANTS
  Others,      \* the number of additional targets, 1 .. Others; the main target is the next
  Values,      \* what an application writes
  MaxFanOutVersion,   \* bound: version numbers
  OldVersions  \* whether applications pass a version which was used by a failed write

ASSUME FanOutAssumption == Others \in Nat

VARIABLES
  decoratorBuffer,   \* buffer_2D of the decorator, which the application sees
  spare,       \* the buffer of the accessor of the main target
  prepared,    \* what the accessor of an additional target is going to write
  contents,    \* the registers
  version,     \* _versionNumber of the decorator
  versions,    \* _versionNumber of the accessors of the targets
  write,       \* the call: [phase, version, error, next]
  chosen,      \* (history) the value the application has set
  closed,      \* targets whose devices are closed
  newest       \* (history) the newest version passed to write()

fanOutVars == <<decoratorBuffer, spare, prepared, contents, version, versions, write, chosen, closed, newest>>

Main == Others + 1
AllTargets == 1 .. Main
NoValue == "nothing"
Phase(p) == write.phase = p

\* The application sets its buffer and calls write(). A version which is too
\* old for the decorator itself is refused before anything is done.
Call ==
  /\ Phase("idle")
  /\ \E value \in Values, v \in (IF OldVersions THEN version ELSE newest + 1) .. MaxFanOutVersion :
       /\ chosen' = value /\ decoratorBuffer' = value
       /\ write' = [phase |-> "preWrite", version |-> v, error |-> "none", next |-> 1]
       /\ newest' = IF v > newest THEN v ELSE newest
  /\ UNCHANGED <<spare, prepared, contents, version, versions, closed>>

\* What the preWrite() of a target throws.
VersionTooOld(t) == write.version < versions[t]
FirstError(ts) ==
  IF write.error # "none" THEN write.error
  ELSE IF \E t \in ts : VersionTooOld(t) \/ t \in closed THEN "logic_error" ELSE "none"

\* Mistake: an exception of another target ends doPreWrite().
PreWriteThrowing ==
  /\ Phase("preWrite")
  /\ LET others == AllTargets \ {Main}
         throws == \E t \in others : VersionTooOld(t) \/ t \in closed
     IN  /\ prepared' = [t \in others |-> decoratorBuffer]
         /\ IF throws THEN UNCHANGED <<decoratorBuffer, spare>> ELSE decoratorBuffer' = spare /\ spare' = decoratorBuffer
         /\ write' = [write EXCEPT !.error = FirstError(AllTargets),
                                   !.phase = IF FirstError(AllTargets) = "none" THEN "transfer" ELSE "postWrite"]
  /\ UNCHANGED <<contents, version, versions, chosen, closed, newest>>

\* doPreWrite(): all targets, whether or not one of them throws. The swap is
\* done before the main target may throw.
PreWriteAll ==
  /\ Phase("preWrite")
  /\ prepared' = [t \in AllTargets \ {Main} |-> decoratorBuffer]
  /\ decoratorBuffer' = spare /\ spare' = decoratorBuffer
  /\ write' = [write EXCEPT !.error = FirstError(AllTargets),
                            !.phase = IF FirstError(AllTargets) = "none" THEN "transfer" ELSE "postWrite"]
  /\ UNCHANGED <<contents, version, versions, chosen, closed, newest>>

\* doWriteTransfer(): one target after the other, the main target last. The
\* first failure ends it.
TransferOne ==
  /\ Phase("transfer")
  /\ LET t == write.next
     IN  \/ /\ contents' = [contents EXCEPT ![t] = IF t = Main THEN spare ELSE prepared[t]]
            /\ write' = [write EXCEPT !.next = @ + 1, !.phase = IF t = Main THEN "postWrite" ELSE @]
         \/ /\ write' = [write EXCEPT !.error = "runtime_error", !.phase = "postWrite"]
            /\ UNCHANGED contents
  /\ UNCHANGED <<decoratorBuffer, spare, prepared, version, versions, chosen, closed, newest>>

\* doPostWrite(): the additional targets do not know of any exception, and
\* take the version over. The main target gets the exception, throws it, and
\* the buffers are swapped back in any case.
PostWriteAll ==
  /\ Phase("postWrite")
  /\ versions' = [t \in AllTargets |-> IF t # Main \/ write.error = "none" THEN write.version ELSE versions[t]]
  /\ decoratorBuffer' = spare /\ spare' = decoratorBuffer
  /\ version' = IF write.error = "none" THEN write.version ELSE version
  /\ write' = [write EXCEPT !.phase = "idle"]
  /\ UNCHANGED <<prepared, contents, chosen, closed, newest>>

\* A device is closed or opened.
CloseOrOpen ==
  /\ Phase("idle")
  /\ closed' \in SUBSET AllTargets
  /\ UNCHANGED <<decoratorBuffer, spare, prepared, contents, version, versions, write, chosen, newest>>

FanOutInit ==
  /\ decoratorBuffer = NoValue /\ spare = NoValue /\ chosen = NoValue
  /\ prepared = [t \in AllTargets \ {Main} |-> NoValue]
  /\ contents = [t \in AllTargets |-> NoValue]
  /\ version = 0 /\ versions = [t \in AllTargets |-> 0] /\ newest = 0
  /\ write = [phase |-> "idle", version |-> 0, error |-> "none", next |-> 1]
  /\ closed = {}

FanOutNext == Call \/ PreWriteAll \/ TransferOne \/ PostWriteAll \/ CloseOrOpen

FanOutSpec == FanOutInit /\ [][FanOutNext]_fanOutVars

-----------------------------------------------------------------------------
(* Properties *)

(***************************************************************************)
(* After write() the application finds its value in its buffer, however    *)
(* many targets have refused it or failed, and if write() has not thrown,  *)
(* all targets have the value, with its version.                           *)
(***************************************************************************)
FanOutDelivers ==
  Phase("idle") =>
    /\ decoratorBuffer = chosen
    /\ write.error = "none" =>
         \A t \in AllTargets : contents[t] = chosen /\ versions[t] = version

(***************************************************************************)
(* write() refuses a value only if a device is closed, and no register is  *)
(* changed then. (Violated with OldVersions: after a failed write the      *)
(* additional targets have its version, and the decorator has not.)        *)
(***************************************************************************)
RefusesForClosedDevice == PreWriteAll /\ write'.error = "logic_error" => closed # {}
RefusedForClosedDevice == [][RefusesForClosedDevice]_fanOutVars

=============================================================================

-------------------------- MODULE LogicalVariables --------------------------
(***************************************************************************)
(* A variable of the logical name mapping backend and its accessors. The   *)
(* value, its version and the queues of the accessors with                 *)
(* wait_for_new_data are guarded by valueTable_mutex in the accessors, but *)
(* LogicalNameMappingBackend::activateAsyncRead() and setExceptionImpl()   *)
(* use them without it.                                                    *)
(*                                                                         *)
(* A value is identified with the version number of its write operation.   *)
(***************************************************************************)
EXTENDS Naturals, SequencesExt

CONSTANTS
  Writers, Subscribers,
  Exception, Nothing,
  WriteWhileActivating, \* writers may overlap activateAsyncRead()
  QueueLength,          \* 3 in the code
  MaxVariableVersion    \* bound: version numbers

\* What a queue can hold
Messages == [value : Nat, version : Nat] \cup {Exception}

ASSUME VariableAssumption ==
  /\ QueueLength \in Nat \ {0}
  /\ Nothing \notin Nat \cup Messages \cup Seq(Messages)
  /\ Exception \notin [value : Nat, version : Nat]

VARIABLES
  opened, activeException, asyncReadActive, versionOnOpen,
  latestValue, latestVersion,
  subscriptions,        \* subscriptions[s]: its queue, or Nothing
  received,             \* received[s]: what the reader has got last, or Nothing
  writing,              \* writing[w]: the version which w writes, or Nothing
  operation,            \* what the controlling thread does
  todo, copied,         \* subscriptions which it has not seen, the value copied
  crossed,              \* a write from before the opening has ended after it
  clock                 \* the last version number

variableVars == <<opened, activeException, asyncReadActive, versionOnOpen, latestValue, latestVersion,
                  subscriptions, received, writing, operation, todo, copied, crossed,
                  clock>>

backend == <<opened, activeException, asyncReadActive, versionOnOpen>>
table == <<latestValue, latestVersion>>
control == <<operation, todo, copied, crossed>>

Subscribed == {s \in Subscribers : subscriptions[s] # Nothing}
Entry(value, version) == [value |-> value, version |-> version]

-----------------------------------------------------------------------------
(* The queues *)

\* future_queue::push_overwrite(): the last entry of a full queue is replaced.
PushOverwrite(q, x) == IF Len(q) < QueueLength THEN Append(q, x) ELSE Append(Front(q), x)

-----------------------------------------------------------------------------
(* The backend *)

Functional == opened /\ ~activeException

\* open(), when the target devices could be opened
Open ==
  /\ operation = "idle" /\ ~Functional /\ clock < MaxVariableVersion
  /\ opened' = TRUE /\ activeException' = FALSE /\ asyncReadActive' = FALSE
  /\ clock' = clock + 1 /\ versionOnOpen' = clock'
  /\ crossed' = FALSE
  /\ UNCHANGED <<table, subscriptions, received, writing, operation, todo, copied>>

Close ==
  /\ operation = "idle" /\ opened
  /\ opened' = FALSE /\ asyncReadActive' = FALSE
  /\ UNCHANGED <<activeException, versionOnOpen, table, subscriptions, received, writing, control, clock>>

\* Mistake: the values keep the versions from before the opening.
ActivateOldVersion ==
  /\ operation = "idle" /\ Functional /\ ~asyncReadActive
  /\ WriteWhileActivating \/ \A w \in Writers : writing[w] = Nothing
  /\ asyncReadActive' = TRUE
  /\ operation' = "activate" /\ todo' = Subscribed /\ copied' = Nothing
  /\ UNCHANGED <<opened, activeException, versionOnOpen, table, subscriptions, received, writing, crossed, clock>>

\* activateAsyncRead(): it returns if it is active already.
Activate ==
  /\ operation = "idle" /\ Functional /\ ~asyncReadActive
  /\ WriteWhileActivating \/ \A w \in Writers : writing[w] = Nothing
  /\ asyncReadActive' = TRUE
  /\ latestVersion' = IF latestVersion < versionOnOpen THEN versionOnOpen ELSE latestVersion
  /\ operation' = "activate" /\ todo' = Subscribed /\ copied' = Nothing
  /\ UNCHANGED <<opened, activeException, versionOnOpen, latestValue, subscriptions, received, writing, crossed, clock>>

\* The value is copied, and then pushed.
CopyInitial ==
  /\ operation = "activate" /\ todo # {} /\ copied = Nothing
  /\ copied' = Entry(latestValue, latestVersion)
  /\ UNCHANGED <<backend, table, subscriptions, received, writing, operation, todo, crossed, clock>>

PushInitial(s) ==
  /\ operation = "activate" /\ copied # Nothing /\ s \in todo
  /\ subscriptions' = [subscriptions EXCEPT ![s] = PushOverwrite(@, copied)]
  /\ todo' = todo \ {s} /\ copied' = Nothing
  /\ UNCHANGED <<backend, table, received, writing, operation, crossed, clock>>

\* setException(), and setExceptionImpl()
SetException ==
  /\ operation = "idle" /\ Functional
  /\ activeException' = TRUE
  /\ operation' = "exception" /\ copied' = Nothing
  /\ todo' = IF asyncReadActive THEN Subscribed ELSE {}
  /\ UNCHANGED <<opened, asyncReadActive, versionOnOpen, table, subscriptions, received, writing, crossed, clock>>

PushException(s) ==
  /\ operation = "exception" /\ s \in todo
  /\ subscriptions' = [subscriptions EXCEPT ![s] = PushOverwrite(@, Exception)]
  /\ todo' = todo \ {s}
  /\ UNCHANGED <<backend, table, received, writing, operation, copied, crossed, clock>>

\* The end of activateAsyncRead() and of setExceptionImpl()
Finish ==
  /\ operation # "idle" /\ todo = {}
  /\ operation' = "idle"
  /\ asyncReadActive' = (asyncReadActive /\ operation # "exception")
  /\ UNCHANGED <<opened, activeException, versionOnOpen, table, subscriptions, received, writing, todo, copied, crossed, clock>>

-----------------------------------------------------------------------------
(* The accessors *)

\* Mistake: the constructor does not send the initial value.
SubscribeSilently(s) ==
  /\ operation = "idle" /\ subscriptions[s] = Nothing
  /\ subscriptions' = [subscriptions EXCEPT ![s] = <<>>]
  /\ received' = [received EXCEPT ![s] = Nothing]
  /\ UNCHANGED <<backend, table, writing, control, clock>>

\* The constructor. The map of subscriptions is not modified while the
\* controlling thread iterates over it.
Subscribe(s) ==
  /\ operation = "idle" /\ subscriptions[s] = Nothing
  /\ subscriptions' = [subscriptions EXCEPT ![s] =
                         IF asyncReadActive THEN <<Entry(latestValue, latestVersion)>> ELSE <<>>]
  /\ received' = [received EXCEPT ![s] = Nothing]
  /\ UNCHANGED <<backend, table, writing, control, clock>>

\* The destructor
Unsubscribe(s) ==
  /\ operation = "idle" /\ subscriptions[s] # Nothing
  /\ subscriptions' = [subscriptions EXCEPT ![s] = Nothing]
  /\ UNCHANGED <<backend, table, received, writing, control, clock>>

\* doPreWrite(), and checkActiveException() of doWriteTransfer()
BeginWrite(w) ==
  /\ writing[w] = Nothing /\ Functional /\ clock < MaxVariableVersion
  /\ WriteWhileActivating \/ operation # "activate"
  /\ clock' = clock + 1
  /\ writing' = [writing EXCEPT ![w] = clock']
  /\ UNCHANGED <<backend, table, subscriptions, received, control>>

\* The rest of doWriteTransfer(), with the mutex
Write(w) ==
  /\ writing[w] # Nothing
  /\ latestValue' = writing[w] /\ latestVersion' = writing[w]
  /\ subscriptions' = [s \in Subscribers |->
                         IF asyncReadActive /\ s \in Subscribed
                         THEN PushOverwrite(subscriptions[s], Entry(writing[w], writing[w])) ELSE subscriptions[s]]
  /\ writing' = [writing EXCEPT ![w] = Nothing]
  /\ crossed' = (crossed \/ writing[w] < versionOnOpen)
  /\ UNCHANGED <<backend, received, operation, todo, copied, clock>>

\* A push-type read. The value is converted when it is taken from the queue.
Read(s) ==
  /\ subscriptions[s] \notin {Nothing, <<>>} /\ opened
  /\ received' = [received EXCEPT ![s] = Head(subscriptions[s])]
  /\ subscriptions' = [subscriptions EXCEPT ![s] = Tail(@)]
  /\ UNCHANGED <<backend, table, writing, control, clock>>

-----------------------------------------------------------------------------
VariableInit ==
  /\ opened = FALSE /\ activeException = FALSE /\ asyncReadActive = FALSE /\ versionOnOpen = 0
  /\ latestValue = 0 /\ latestVersion = 0 /\ clock = 0
  /\ subscriptions = [s \in Subscribers |-> Nothing]
  /\ received = [s \in Subscribers |-> Nothing]
  /\ writing = [w \in Writers |-> Nothing]
  /\ operation = "idle" /\ todo = {} /\ copied = Nothing /\ crossed = FALSE

VariableNext ==
  \/ Open \/ Close \/ Activate \/ CopyInitial \/ SetException \/ Finish
  \/ \E s \in Subscribers : PushInitial(s) \/ PushException(s) \/ Subscribe(s) \/ Unsubscribe(s) \/ Read(s)
  \/ \E w \in Writers : BeginWrite(w) \/ Write(w)

VariableSpec == VariableInit /\ [][VariableNext]_variableVars

-----------------------------------------------------------------------------
(* Properties *)

\* What the reader of s will see last
Newest(s) == IF subscriptions[s] = <<>> THEN received[s] ELSE Last(subscriptions[s])

(***************************************************************************)
(* When nothing is going on each subscription ends with the value of the   *)
(* variable, whatever was written, closed, recovered and overwritten       *)
(* before. If the variable is written while activateAsyncRead() runs, the  *)
(* value which it has copied may come after the newer one.                 *)
(***************************************************************************)
NewestValueArrives ==
  asyncReadActive /\ operation = "idle" /\ (\A w \in Writers : writing[w] = Nothing) =>
    \A s \in Subscribed : Newest(s) # Nothing /\ Newest(s) # Exception /\ Newest(s).value = latestValue

(***************************************************************************)
(* Values which are sent after the device was opened have the version of   *)
(* the opening or a later one, also if the variable was written before it. *)
(* (Unless a write which began before an exception ends after the device   *)
(* has been opened again: it stores its own, older version.)               *)
(***************************************************************************)
NewestIsFresh ==
  asyncReadActive /\ operation = "idle" /\ ~crossed =>
    \A s \in Subscribed : Newest(s) # Exception => Newest(s).version >= versionOnOpen

=============================================================================

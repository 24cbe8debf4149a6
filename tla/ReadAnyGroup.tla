---------------------------- MODULE ReadAnyGroup ----------------------------
(***************************************************************************)
(* A ReadAnyGroup and the elements in it: the backend pushes updates,      *)
(* errors and values to be discarded into the _readQueue of each element   *)
(* with AccessMode::wait_for_new_data, and the application waits for any   *)
(* of them, retains notifications and accepts them. Elements which are not *)
(* in the group are read directly.                                         *)
(*                                                                         *)
(* The data of an update is its number in the order of all pushes. The     *)
(* functions of the application are split where they wait and before the   *)
(* transfers of the poll-type elements.                                    *)
(***************************************************************************)
EXTENDS Integers, Sequences, FiniteSets, FutureQueue

CONSTANTS
  PushElements,  \* elements with AccessMode::wait_for_new_data
  PollElements,  \* elements without
  Members,       \* the elements in the order in which they are added
  QueueSize,     \* entries of a _readQueue
  MaxPushes,     \* bound: number of all pushes
  MaxEarly,      \* bound: number of pushes before finalise()
  MaxHeld,       \* bound: notifications of an element which the application retains
  Retaining      \* values of the variable retains

GroupAssumption ==
  /\ QueueSize \in Nat \ {0, 1} /\ MaxPushes \in Nat /\ MaxEarly \in Nat /\ MaxHeld \in Nat \ {0}
  /\ Retaining \subseteq BOOLEAN
  /\ PushElements \cap PollElements = {}
  /\ Members \in Seq(PushElements \cup PollElements)
  /\ \A i, j \in DOMAIN Members : Members[i] = Members[j] => i = j
  /\ \E i \in DOMAIN Members : Members[i] \in PushElements
  /\ {"all", "discarded", "none", "exception"} \cap PushElements = {}

\* An exception is a runtime_error or the thread_interrupted of interrupt().
Kinds == {"data", "exception", "discard"}

VARIABLES
  retains,        \* the application waits although it has not accepted all
                  \* notifications. Never changes.
  opened,         \* the device is open
  pushed,         \* number of pushes so far
  queue,          \* TransferElement::_readQueue of each element
  pushElements,   \* ReadAnyGroup::push_elements
  pollElements,   \* ReadAnyGroup::poll_elements
  linked,         \* push_elements whose queues when_any() has linked to the
                  \* notification_queue so far
  notifications,  \* ReadAnyGroup::notification_queue
  lastOperation,  \* _lastOperationIndex, with "all" and "discarded" for its
                  \* special values
  inProgress,     \* TransferElement::readTransactionInProgress
  active,         \* TransferElement::_activeException is set
  buffer,         \* the application buffer: number of the update
  call,           \* the function which runs: "idle", "waitAny", "readAny", ...
  fetched,        \* the notification which readAny() has got
  polls,          \* poll-type elements which processPolled() has still to read
  returned,       \* of the last call of readAny()
  held,           \* number of notifications which the application retains, for
                  \* each element
  terminated,     \* an exception has left a destructor
  finalisedAt,    \* pushed at the time of finalise()
  taken           \* the last entry taken from the queue of each element

appVars == <<call, fetched, polls, returned, held, terminated>>
elementVars == <<inProgress, active, buffer, taken>>
groupVars == <<pushElements, pollElements, linked, finalisedAt>>
readAnyVars == <<retains, opened, pushed, queue, pushElements, pollElements, linked, notifications,
          lastOperation, inProgress, active, buffer, call, fetched, polls, returned, held, terminated,
          finalisedAt, taken>>

Elements == PushElements \cup PollElements
Nothing == [kind |-> "nothing", number |-> 0, late |-> FALSE]

ReadAnyInit ==
  /\ retains \in Retaining
  /\ opened = TRUE
  /\ pushed = 0
  /\ queue = [e \in PushElements |-> <<>>]
  /\ pushElements = <<>>
  /\ pollElements = <<>>
  /\ linked = 0
  /\ notifications = <<>>
  /\ lastOperation = "all"
  /\ inProgress = [e \in PushElements |-> FALSE]
  /\ active = [e \in PushElements |-> FALSE]
  /\ buffer = [e \in Elements |-> 0]
  /\ call = "idle"
  /\ fetched = "none"
  /\ polls = <<>>
  /\ returned = "none"
  /\ held = [e \in PushElements |-> 0]
  /\ terminated = FALSE
  /\ finalisedAt = 0
  /\ taken = [e \in PushElements |-> Nothing]

ElementsOf(sequence) == { sequence[i] : i \in DOMAIN sequence }
InGroup(e) == e \in ElementsOf(pushElements)

\* finalise() is under way, or has returned.
Linked(e) == \E i \in 1 .. linked : pushElements[i] = e
isFinalised == linked > 0 /\ linked = Len(pushElements)

-----------------------------------------------------------------------------
(* The backend *)

\* push_overwrite(): an entry which replaces another one is not notified again.
\* TransferElement::interrupt() pushes an entry as well. Elements which have not
\* been added are independent of the finalised group and left out.
PushUpdate(e, kind) ==
  LET full == Len(queue[e]) = QueueSize
  IN  /\ pushed < MaxPushes
      /\ IF isFinalised THEN InGroup(e) ELSE pushed < MaxEarly
      /\ pushed' = pushed + 1
      /\ queue' = [queue EXCEPT ![e] =
                     PushOverwrite(@, [kind |-> kind, number |-> pushed', late |-> full], QueueSize)]
      /\ notifications' = IF Linked(e) /\ ~full
                          THEN Append(notifications, e)
                          ELSE notifications
      /\ UNCHANGED <<opened, groupVars, lastOperation, elementVars, appVars>>

\* The calls look at the state of the device when they start, or may fail anyway.
OpenOrClose ==
  /\ call = "idle"
  /\ opened' = ~opened
  /\ UNCHANGED <<pushed, queue, groupVars, notifications, lastOperation, elementVars, appVars>>

-----------------------------------------------------------------------------
(* TransferElement *)

\* preRead() of the elements in S: nothing if a transaction is in progress.
PreRead(S) ==
  /\ inProgress' = [e \in PushElements |-> inProgress[e] \/ e \in S]
  /\ active' = [e \in PushElements |-> active[e] /\ (inProgress[e] \/ e \notin S)]

\* postRead() with an entry which was taken from the queue: doPostRead() is only
\* called in a transaction. The active exception is thrown in any case.
PostRead(e, entry) ==
  /\ inProgress' = [inProgress EXCEPT ![e] = FALSE]
  /\ active' = [active EXCEPT ![e] = @ \/ entry.kind # "data"]
  /\ buffer' = IF inProgress[e] /\ entry.kind = "data"
               THEN [buffer EXCEPT ![e] = entry.number]
               ELSE buffer

\* readTransferAsyncWaitingImpl() and readTransferAsyncNonWaitingImpl() skip
\* the values to be discarded.
Readable(e) == { i \in DOMAIN queue[e] : queue[e][i].kind # "discard" }

\* preRead() fails if the device is closed.
PreReadFails(e) ==
  /\ ~opened
  /\ active' = [active EXCEPT ![e] = TRUE]
  /\ UNCHANGED <<queue, buffer, taken>>

ReadNothing(e) ==
  /\ opened /\ Readable(e) = {}
  /\ queue' = [queue EXCEPT ![e] = <<>>]
  /\ active' = [active EXCEPT ![e] = FALSE]
  /\ UNCHANGED <<buffer, taken>>

\* Exceptions are thrown by postRead().
ReadEntry(e, i) ==
  /\ opened /\ \A k \in Readable(e) : i <= k
  /\ queue' = [queue EXCEPT ![e] = SubSeq(@, i + 1, Len(@))]
  /\ active' = [active EXCEPT ![e] = queue[e][i].kind # "data"]
  /\ buffer' = IF queue[e][i].kind = "data" THEN [buffer EXCEPT ![e] = queue[e][i].number] ELSE buffer
  /\ taken' = [taken EXCEPT ![e] = queue[e][i]]

\* read(), readNonBlocking() and each turn of readLatest(), for an element which
\* is not in the group; otherwise they throw a logic_error, without effect.
ReadDirectly(e) ==
  /\ linked = 0
  /\ ~InGroup(e)
  /\ PreReadFails(e) \/ ReadNothing(e) \/ \E i \in Readable(e) : ReadEntry(e, i)
  /\ inProgress' = [inProgress EXCEPT ![e] = FALSE]
  /\ UNCHANGED <<opened, pushed, groupVars, notifications, lastOperation, appVars>>

-----------------------------------------------------------------------------
(* Setting up the group *)

\* add(): elements with and without wait_for_new_data are kept apart.
Add ==
  LET added == Len(pushElements) + Len(pollElements)
      e == Members[added + 1]
  IN  /\ linked = 0
      /\ added < Len(Members)
      /\ IF e \in PushElements
         THEN pushElements' = Append(pushElements, e) /\ UNCHANGED pollElements
         ELSE pollElements' = Append(pollElements, e) /\ UNCHANGED pushElements
      /\ UNCHANGED <<opened, pushed, queue, linked, finalisedAt, notifications, lastOperation,
                     elementVars, appVars>>

Complete == Len(pushElements) + Len(pollElements) = Len(Members)

\* finalise(): when_any() links the queues one by one, while the backend may
\* push, and notifies the entries which are present.
Finalise ==
  LET e == pushElements[linked + 1]
  IN  /\ Complete
      /\ linked < Len(pushElements)
      /\ linked' = linked + 1
      /\ finalisedAt' = pushed
      /\ notifications' = notifications \o [k \in DOMAIN queue[e] |-> e]
      /\ UNCHANGED <<opened, pushed, queue, pushElements, pollElements, lastOperation, elementVars,
                     appVars>>

-----------------------------------------------------------------------------
(* Waiting *)

\* The elements on which handlePreRead() calls preRead().
NeedPreRead ==
  CASE lastOperation = "all" -> pushElements
    [] lastOperation = "discarded" -> <<>>
    [] OTHER -> <<lastOperation>>

\* preRead() throws if the device is closed, at the first element which has no
\* transaction. The transaction has been started then.
FirstFails == ~opened /\ \E i \in DOMAIN NeedPreRead : ~inProgress[NeedPreRead[i]]
PreReadUpTo ==
  CHOOSE i \in DOMAIN NeedPreRead :
    /\ ~inProgress[NeedPreRead[i]]
    /\ \A k \in 1 .. (i - 1) : inProgress[NeedPreRead[k]]

HandlePreRead == PreRead(IF FirstFails THEN {NeedPreRead[PreReadUpTo]} ELSE ElementsOf(NeedPreRead))

MayWait == isFinalised /\ (retains \/ \A e \in PushElements : held[e] = 0)
MayRetain == \A e \in PushElements : held[e] < MaxHeld

\* waitAny() and readAny() up to the point where they wait.
Wait(function) ==
  /\ call = "idle"
  /\ MayWait
  /\ function = "waitAny" => MayRetain
  /\ HandlePreRead
  /\ IF FirstFails
     THEN returned' = "exception" /\ UNCHANGED call
     ELSE returned' = "none" /\ call' = function
  /\ UNCHANGED <<opened, pushed, queue, groupVars, notifications, lastOperation, buffer, taken,
                 fetched, polls, held, terminated>>

\* The notification object is returned to the application or to readAny().
GetNotification ==
  IF call \in {"waitAny", "waitAnyNonBlocking"}
  THEN held' = [held EXCEPT ![Head(notifications)] = @ + 1] /\ call' = "idle" /\ UNCHANGED fetched
  ELSE /\ fetched' = Head(notifications)
       /\ call' = IF call = "readAny" THEN "accept" ELSE "acceptNonBlocking"
       /\ UNCHANGED held

PopNotification ==
  /\ call \in {"waitAny", "readAny"}
  /\ notifications # <<>>
  /\ notifications' = Tail(notifications)
  /\ GetNotification
  /\ UNCHANGED <<opened, pushed, queue, groupVars, lastOperation, elementVars, polls, returned,
                 terminated>>

WaitNonBlocking(function) ==
  /\ call = "idle"
  /\ MayWait
  /\ function = "waitAnyNonBlocking" => MayRetain
  /\ call' = function
  /\ returned' = "none"
  /\ UNCHANGED <<opened, pushed, queue, groupVars, notifications, lastOperation, elementVars,
                 fetched, polls, held, terminated>>

NonBlocking == call \in {"waitAnyNonBlocking", "readAnyNonBlocking"}

\* Without a notification readAnyNonBlocking() reads the poll-type elements.
FindNothing ==
  /\ NonBlocking
  /\ notifications = <<>>
  /\ call' = IF call = "readAnyNonBlocking" THEN "polling" ELSE "idle"
  /\ polls' = IF call = "readAnyNonBlocking" THEN pollElements ELSE <<>>
  /\ UNCHANGED <<opened, pushed, queue, groupVars, notifications, lastOperation, elementVars,
                 fetched, returned, held, terminated>>

\* Mistake: the notification of a discarded value stays.
FindDiscardedKeep ==
  /\ NonBlocking /\ notifications # <<>>
  /\ Head(queue[Head(notifications)]).kind = "discard"
  /\ queue' = [queue EXCEPT ![Head(notifications)] = Tail(@)]
  /\ UNCHANGED <<opened, pushed, groupVars, notifications, lastOperation, elementVars, appVars>>

\* waitAnyNonBlocking() owns the front entry when it looks at it.
FindDiscarded ==
  /\ NonBlocking
  /\ notifications # <<>>
  /\ Head(queue[Head(notifications)]).kind = "discard"
  /\ notifications' = Tail(notifications)
  /\ queue' = [queue EXCEPT ![Head(notifications)] = Tail(@)]
  /\ UNCHANGED <<opened, pushed, groupVars, lastOperation, elementVars, appVars>>

\* It calls waitAny(), which does not wait.
FindUpdate ==
  /\ NonBlocking
  /\ notifications # <<>>
  /\ Head(queue[Head(notifications)]).kind # "discard"
  /\ HandlePreRead
  /\ IF FirstFails
     THEN returned' = "exception" /\ call' = "idle" /\ UNCHANGED <<notifications, held, fetched>>
     ELSE notifications' = Tail(notifications) /\ GetNotification /\ UNCHANGED returned
  /\ UNCHANGED <<opened, pushed, queue, groupVars, lastOperation, buffer, taken, polls, terminated>>

-----------------------------------------------------------------------------
(* Accepting *)

\* Notification::accept(). There is no postRead() for a discarded value.
Accept(e) ==
  LET entry == Head(queue[e])
  IN  /\ queue' = [queue EXCEPT ![e] = Tail(@)]
      /\ IF entry.kind = "discard"
         THEN lastOperation' = "discarded" /\ UNCHANGED <<inProgress, active, buffer, taken>>
         ELSE /\ lastOperation' = e
              /\ PostRead(e, entry)
              /\ taken' = [taken EXCEPT ![e] = entry]

Discards(e) == Head(queue[e]).kind = "discard"

Accepting == call \in {"accept", "acceptNonBlocking"}

\* readAny() waits again if the value was discarded. handlePreRead() has nothing
\* to do then. An exception leaves the function.
ReadAccept ==
  /\ Accepting
  /\ queue[fetched] # <<>>
  /\ Accept(fetched)
  /\ fetched' = IF Discards(fetched) \/ active'[fetched] THEN "none" ELSE fetched
  /\ call' = CASE Discards(fetched) /\ call = "accept" -> "readAny"
               [] Discards(fetched) /\ call # "accept" -> "readAnyNonBlocking"
               [] ~Discards(fetched) /\ active'[fetched] -> "idle"
               [] ~Discards(fetched) /\ ~active'[fetched] -> "polling"
  /\ polls' = IF call' = "polling" THEN pollElements ELSE <<>>
  /\ returned' = IF call' = "idle" THEN "exception" ELSE returned
  /\ UNCHANGED <<opened, pushed, groupVars, notifications, held, terminated>>

\* The application accepts a notification which it has retained.
AcceptHeld(e) ==
  /\ call = "idle"
  /\ held[e] > 0 /\ queue[e] # <<>>
  /\ Accept(e)
  /\ held' = [held EXCEPT ![e] = @ - 1]
  /\ returned' = "none"
  /\ UNCHANGED <<opened, pushed, groupVars, notifications, call, fetched, polls, terminated>>

\* The destructor of a notification and the assignment to it accept it as well,
\* and terminate the program if that throws.
DropHeld(e) ==
  /\ call = "idle"
  /\ held[e] > 0 /\ queue[e] # <<>>
  /\ Accept(e)
  /\ held' = [held EXCEPT ![e] = @ - 1]
  /\ returned' = "none"
  /\ terminated' = (~Discards(e) /\ active'[e])
  /\ UNCHANGED <<opened, pushed, groupVars, notifications, call, fetched, polls>>

-----------------------------------------------------------------------------
(* processPolled() *)

\* The registers of the poll-type elements change with each push.
ProcessPolled ==
  /\ call = "polling"
  /\ polls # <<>>
  /\ opened
  /\ polls' = Tail(polls)
  /\ buffer' = [buffer EXCEPT ![Head(polls)] = pushed]
  /\ UNCHANGED <<opened, pushed, queue, groupVars, notifications, lastOperation, inProgress,
                 active, taken, call, fetched, returned, held, terminated>>

\* readLatest() throws: the device is closed, or the transfer fails.
ProcessPolledFails ==
  /\ call = "polling"
  /\ polls # <<>>
  /\ call' = "idle"
  /\ returned' = "exception"
  /\ fetched' = "none"
  /\ polls' = <<>>
  /\ UNCHANGED <<opened, pushed, queue, groupVars, notifications, lastOperation, elementVars, held,
                 terminated>>

Return ==
  /\ call = "polling"
  /\ polls = <<>>
  /\ call' = "idle"
  /\ returned' = fetched
  /\ fetched' = "none"
  /\ UNCHANGED <<opened, pushed, queue, groupVars, notifications, lastOperation, elementVars, polls,
                 held, terminated>>

-----------------------------------------------------------------------------
Running == ~terminated /\ UNCHANGED retains

\* The steps inside of a call: one which can go on does, if the thread of the
\* application runs.
Continue ==
  \/ PopNotification \/ FindNothing \/ FindDiscarded \/ FindUpdate
  \/ ReadAccept
  \/ ProcessPolled \/ ProcessPolledFails \/ Return

ReadAnyNext ==
  /\ Running
  /\ \/ \E e \in PushElements, kind \in Kinds : PushUpdate(e, kind)
     \/ OpenOrClose
     \/ \E e \in PushElements : ReadDirectly(e) \/ AcceptHeld(e) \/ DropHeld(e)
     \/ Add
     \/ Finalise
     \/ \E function \in {"waitAny", "readAny"} : Wait(function)
     \/ \E function \in {"waitAnyNonBlocking", "readAnyNonBlocking"} : WaitNonBlocking(function)
     \/ Continue

ReadAnySpec == ReadAnyInit /\ [][ReadAnyNext]_readAnyVars

-----------------------------------------------------------------------------
(* Properties *)

ReadAnyType ==
  /\ opened \in BOOLEAN /\ linked \in 0 .. Len(pushElements) /\ terminated \in BOOLEAN
  /\ \A e \in PushElements : Len(queue[e]) <= QueueSize
  /\ ElementsOf(pushElements) \cup ElementsOf(notifications) \subseteq PushElements
  /\ held \in [PushElements -> Nat]
  /\ lastOperation \in PushElements \cup {"all", "discarded"}
  /\ inProgress \in [PushElements -> BOOLEAN] /\ active \in [PushElements -> BOOLEAN]
  /\ buffer \in [Elements -> Nat]
  /\ call \in {"idle", "waitAny", "readAny", "waitAnyNonBlocking", "readAnyNonBlocking", "accept",
               "acceptNonBlocking", "polling"}

(***************************************************************************)
(* There is a notification for each entry of the queues, waiting or in the *)
(* hands of the application: accept() never blocks, and the front entry    *)
(* which waitAnyNonBlocking() looks at exists (it asserts that, "we must   *)
(* never end up at this point").                                           *)
(***************************************************************************)
Notified(e) == Cardinality({ i \in DOMAIN notifications : notifications[i] = e })
NotificationPerEntry ==
  /\ ReadAnyType
  /\ isFinalised =>
       \A e \in ElementsOf(pushElements) :
         Len(queue[e]) = Notified(e) + held[e] + (IF Accepting /\ fetched = e THEN 1 ELSE 0)

(***************************************************************************)
(* The data of an accepted notification is in the application buffer, and  *)
(* a call which got data does not throw an earlier exception: accept()     *)
(* "will complete the read operation of the transfer element"              *)
(* (ReadAnyGroup.h). preRead() and postRead() come in pairs, although      *)
(* preRead() is only called for the element of the last operation.         *)
(***************************************************************************)
Completed ==
  \A e \in PushElements :
    taken[e].kind = "data" =>
      /\ buffer[e] = taken[e].number
      /\ isFinalised /\ InGroup(e) /\ taken[e].number > finalisedAt => ~active[e]
AcceptCompletesRead == ~retains => Completed

(***************************************************************************)
(* Updates are accepted in the order in which they were pushed, "even      *)
(* accross TransferElements" (finalise() in ReadAnyGroup.h), if they came  *)
(* after finalise(). An update which has replaced one in a full queue      *)
(* takes its place.                                                        *)
(***************************************************************************)
TakenInOrder ==
  ~retains => \A e, f \in PushElements :
     /\ taken'[e] # taken[e]
     /\ \/ e = f
        \/ /\ isFinalised /\ InGroup(e) /\ InGroup(f)
           /\ taken[f].number > finalisedAt /\ ~taken[f].late
     => taken[f].number < taken'[e].number

(***************************************************************************)
(* When readAny() returns an element, the poll-type elements in the group  *)
(* are at least as new as its update: they are read after it was received. *)
(***************************************************************************)
PolledIsNotOlder ==
  ~retains /\ call = "idle" /\ returned \in PushElements =>
    \A i \in DOMAIN pollElements : buffer[pollElements[i]] >= taken[returned].number

\* There is something to receive: an update, an error or the entry of interrupt().
\* It may be replaced by a value to be discarded.
Available == \E e \in ElementsOf(pushElements) : Readable(e) # {}

=============================================================================

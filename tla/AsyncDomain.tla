---------------------------- MODULE AsyncDomain ----------------------------
(***************************************************************************)
(* One async::Domain: the distribution of asynchronous data (interrupts,   *)
(* messages) and of exceptions from a backend to the accessors with        *)
(* AccessMode::wait_for_new_data which have subscribed to the domain.      *)
(*                                                                         *)
(* DomainImpl runs each operation under its _mutex, so an operation is one *)
(* step here, with everything it calls in SubDomain, the distributors, the *)
(* AsyncVariables and the accessors. Polled accessors belong to the        *)
(* TriggeredPollDistributor, which reads their registers synchronously;    *)
(* void accessors belong to the VariableDistributor and get the data of    *)
(* the message. The interrupt thread, the exception thread and the threads *)
(* of the application interleave between the operations.                   *)
(*                                                                         *)
(* The content of the hardware register is the number hw of the update. A  *)
(* domain lives as long as it has accessors (the container of the backend  *)
(* keeps a weak pointer only).                                             *)
(***************************************************************************)
EXTENDS Integers, Sequences, FutureQueue

CONSTANTS
  Backends,           \* kinds of backends, see the variable backend
  RegisterAccessors,  \* accessors of registers with data
  InterruptAccessors, \* accessors which have no data when triggered (Void)
  QueueSize,          \* AsyncNDRegisterAccessor::_queueSize (3 in the code)
  Keys,               \* keys which the hardware may send, with a realm
  KeyRange, MaxSizeEventIdMap,  \* of the DataConsistencyRealm
  CheckedActivation,  \* asynchronous read is activated on a functional device
                      \* only, and no error overtakes the activation
  MaxVersion,         \* bound on the versions which are generated
  MaxValue,           \* bound on the updates of the hardware register
  MaxInFlight         \* bound on the messages which wait for distribution

Accessors == RegisterAccessors \cup InterruptAccessors

ASSUME DomainAssumption ==
  /\ Backends \subseteq {"trigger", "realm", "data"}
  /\ RegisterAccessors \cap InterruptAccessors = {}
  /\ QueueSize \in Nat \ {0}
  /\ CheckedActivation \in BOOLEAN
  /\ MaxSizeEventIdMap \in Nat \ {0}
  /\ KeyRange \in Nat \ {0}
  /\ Keys \subseteq 0 .. (KeyRange - 1)
  /\ MaxVersion \in Nat
  /\ MaxValue \in Nat
  /\ MaxInFlight \in Nat

VARIABLES
  backend,      \* the kind of the backend, which never changes
  lastVersion,  \* VersionNumber::_lastGeneratedVersionNumber
  realm,        \* the DataConsistencyRealm
  hw,           \* content of the hardware register
  inFlight,     \* received messages which have not been distributed
  opened,       \* DeviceBackendImpl::_opened
  error,        \* DeviceBackendImpl::_hasActiveException
  sending,      \* DomainsContainer::_isSendingExceptions
  asyncActive,  \* NumericAddressedBackend::_asyncIsActive
  activating,   \* an activation is running (it holds the container lock)
  initial,      \* the initial value which the activation has polled
  domain,       \* members of DomainImpl
  poll,         \* members of the TriggeredPollDistributor
  source,       \* _version and _sourceBuffer of the VariableDistributor
  subscribed,   \* the AsyncVariables of the two distributors
  lastSent,     \* AsyncVariableImpl::_lastSentVersion
  queue,        \* AsyncNDRegisterAccessor::_dataTransportQueue
  received,     \* the last entry which the application has read
  logicError    \* send() has thrown "Trying to send decreased version"

backendVars == <<opened, error, sending, asyncActive>>
accessorVars == <<lastSent, queue, logicError>>
vars == <<backend, lastVersion, realm, hw, inFlight, opened, error, sending, asyncActive,
          activating, initial, domain, poll, source, subscribed, lastSent,
          queue, received, logicError>>

(***************************************************************************)
(* A domain without data of its own is triggered by interrupts: registers  *)
(* are polled, with or without a DataConsistencyRealm. The messages of the *)
(* other kind of backend bring data and its version, and nothing is polled.*)
(***************************************************************************)
VersionFromData == backend = "data"
UseRealm == backend = "realm"
PolledAccessors == IF VersionFromData THEN {} ELSE RegisterAccessors
VoidAccessors == Accessors \ PolledAccessors

Realm == INSTANCE DataConsistencyRealm WITH given <- [k \in Keys |-> 0]

NullVersion == 0
NoValue == 0
Message(version, value) == [version |-> version, value |-> value]
NoMessage == Message(NullVersion, NoValue)

Data(version, value, faulty) ==
  [kind |-> "data", version |-> version, value |-> value, faulty |-> faulty]
ExceptionEntry == [kind |-> "exception", version |-> NullVersion, value |-> NoValue, faulty |-> FALSE]
Nothing == [kind |-> "nothing", version |-> NullVersion, value |-> NoValue, faulty |-> FALSE]

NewDomain == [active |-> FALSE, notDistributed |-> NoMessage, activationVersion |-> NullVersion]
NewPollDistributor == [version |-> NullVersion, lastVersion |-> NullVersion, forceFaulty |-> FALSE]

Polled == subscribed \cap PolledAccessors
Void == subscribed \cap VoidAccessors

-----------------------------------------------------------------------------
Init ==
  /\ backend \in Backends
  /\ lastVersion = 0
  /\ realm = Realm!EmptyRealm
  /\ hw = 1
  /\ inFlight = <<>>
  /\ opened = FALSE
  /\ error = FALSE
  /\ sending = FALSE
  /\ asyncActive = FALSE
  /\ activating = FALSE
  /\ initial = NoMessage
  /\ domain = NewDomain
  /\ poll = NewPollDistributor
  /\ source = NoMessage
  /\ subscribed = {}
  /\ lastSent = [a \in Accessors |-> NullVersion]
  /\ queue = [a \in Accessors |-> <<>>]
  /\ received = [a \in Accessors |-> Nothing]
  /\ logicError = FALSE

(***************************************************************************)
(* A synchronous read of the device fails when the backend has an active   *)
(* exception, and it may fail at any time otherwise. Without a polled      *)
(* accessor there is nothing to read.                                      *)
(***************************************************************************)
ReadOutcomes == IF error THEN {FALSE} ELSE BOOLEAN
PollOutcomes == IF Polled = {} THEN {TRUE} ELSE ReadOutcomes

KeysRead == IF UseRealm THEN Keys ELSE {0}

\* A failed read calls setException() of the backend, see ReportException.
SetExceptionUnless(ok) ==
  /\ error' = (error \/ ~ok)
  /\ sending' = (sending \/ (~ok /\ ~error))
  /\ asyncActive' = (asyncActive /\ (ok \/ error))

(***************************************************************************)
(* TriggeredPollDistributor::distribute(version): read the transfer group, *)
(* and with a realm replace the version by the one of the key. gen is the  *)
(* last generated version at this time.                                    *)
(***************************************************************************)
PollAfter(version, gen, ok, key) ==
  LET keyVersion == Realm!VersionOf(realm, key, gen)
  IN  IF ~ok \/ ~UseRealm
        THEN [poll EXCEPT !.version = version]
      ELSE IF keyVersion >= poll.lastVersion
        THEN [version |-> keyVersion, lastVersion |-> keyVersion, forceFaulty |-> FALSE]
      ELSE [version |-> poll.lastVersion, lastVersion |-> poll.lastVersion, forceFaulty |-> TRUE]

\* The realm and the version generator after that.
RealmStep(gen, ok, key) ==
  LET n == IF ok /\ UseRealm THEN Realm!NumberOfNewEntries(realm, key) ELSE 0
  IN  /\ lastVersion' = gen + n
      /\ lastVersion' <= MaxVersion
      /\ realm' = IF n = 0 THEN realm ELSE Realm!RealmAfter(realm, key, gen)

\* Mistake: the version is not checked.
SendUnchecked(S, version, entries) ==
  /\ lastSent' = [a \in Accessors |-> IF a \in S THEN version ELSE lastSent[a]]
  /\ queue' = [a \in Accessors |->
       IF a \in S THEN PushOverwrite(queue[a], entries[a], QueueSize) ELSE queue[a]]
  /\ UNCHANGED logicError

(***************************************************************************)
(* AsyncVariableImpl::send() and AsyncNDRegisterAccessor::sendDestructively*)
(* for the accessors in S, with the entry of each one. A decreased version *)
(* makes send() throw, which ends the program (the callers are noexcept or *)
(* have no handler).                                                       *)
(***************************************************************************)
Send(S, version, entries) ==
  IF \E a \in S : lastSent[a] > version
  THEN /\ logicError' = TRUE
       /\ UNCHANGED <<lastSent, queue>>
  ELSE /\ lastSent' = [a \in Accessors |-> IF a \in S THEN version ELSE lastSent[a]]
       /\ queue' = [a \in Accessors |->
            IF a \in S THEN PushOverwrite(queue[a], entries[a], QueueSize) ELSE queue[a]]
       /\ UNCHANGED logicError

\* Mistake: the variable distributor gets the version of the message.
DistributeMessageVersion(m, gen, ok, key) ==
  LET p == IF Polled = {} THEN poll ELSE PollAfter(m.version, gen, ok, key)
      entries == [a \in subscribed |->
        IF a \in PolledAccessors THEN Data(p.version, hw, p.forceFaulty) ELSE Data(m.version, m.value, FALSE)]
  IN  /\ poll' = p
      /\ source' = IF Void = {} THEN source ELSE m
      /\ RealmStep(gen, ok /\ Polled # {}, key)
      /\ SetExceptionUnless(ok)
      /\ Send(IF ok THEN subscribed ELSE Void, m.version, entries)

(***************************************************************************)
(* SubDomain::distribute() and SubDomain::activate() for the message m:    *)
(* first the poll distributor, then the variable distributor with the      *)
(* version which the poll distributor has returned.                        *)
(***************************************************************************)
SubDomainDistribute(m, gen, ok, key) ==
  LET p == IF Polled = {} THEN poll ELSE PollAfter(m.version, gen, ok, key)
      version == IF Polled = {} THEN m.version ELSE p.version
      entries == [a \in subscribed |->
        IF a \in PolledAccessors THEN Data(version, hw, p.forceFaulty) ELSE Data(version, m.value, FALSE)]
  IN  /\ poll' = p
      /\ source' = IF Void = {} THEN source ELSE Message(version, m.value)
      /\ RealmStep(gen, ok /\ Polled # {}, key)
      /\ SetExceptionUnless(ok)
      /\ Send(IF ok THEN subscribed ELSE Void, version, entries)

-----------------------------------------------------------------------------
(* The hardware and the backend *)

\* The register changes and the device sends an interrupt or a message.
Arrive ==
  /\ hw < MaxValue
  /\ Len(inFlight) < MaxInFlight
  /\ hw' = hw + 1
  /\ IF VersionFromData
     THEN /\ lastVersion < MaxVersion
          /\ lastVersion' = lastVersion + 1
          /\ inFlight' = Append(inFlight, Message(lastVersion', hw'))
     ELSE /\ inFlight' = Append(inFlight, NoMessage)
          /\ UNCHANGED lastVersion
  /\ UNCHANGED <<realm, backendVars, activating, initial, domain, poll, source,
                 subscribed, accessorVars, received>>

\* Any thread calls setException() of the backend.
ReportException ==
  /\ opened
  /\ ~error
  /\ SetExceptionUnless(FALSE)
  /\ UNCHANGED <<lastVersion, realm, hw, inFlight, opened, activating, initial, domain,
                 poll, source, subscribed, accessorVars, received>>

\* open(), also to recover from an error, waits for the exception thread.
Open ==
  /\ ~opened \/ error
  /\ ~sending
  /\ lastVersion < MaxVersion
  /\ lastVersion' = lastVersion + 1
  /\ opened' = TRUE
  /\ error' = FALSE
  /\ UNCHANGED <<realm, hw, inFlight, sending, asyncActive, activating, initial, domain,
                 poll, source, subscribed, accessorVars, received>>

Close ==
  /\ opened
  /\ ~activating
  /\ opened' = FALSE
  /\ asyncActive' = FALSE
  /\ domain' = [domain EXCEPT !.active = FALSE]
  /\ UNCHANGED <<lastVersion, realm, hw, inFlight, error, sending, activating, initial,
                 poll, source, subscribed, accessorVars, received>>

\* activateAsyncRead() gets the container lock and starts with the domain.
ActivateAsyncRead ==
  /\ opened
  /\ ~activating
  /\ CheckedActivation => ~error
  /\ asyncActive' = TRUE
  /\ activating' = (subscribed # {})
  /\ UNCHANGED <<lastVersion, realm, hw, inFlight, opened, error, sending, initial, domain,
                 poll, source, subscribed, accessorVars, received>>

\* A backend with versions in its data polls the initial value before the
\* domain is locked: getAsyncDomainInitialValue().
PollInitialValue ==
  /\ VersionFromData
  /\ activating
  /\ initial = NoMessage
  /\ lastVersion < MaxVersion
  /\ lastVersion' = lastVersion + 1
  /\ initial' = Message(lastVersion', hw)
  /\ UNCHANGED <<realm, hw, inFlight, backendVars, activating, domain, poll, source,
                 subscribed, accessorVars, received>>

-----------------------------------------------------------------------------
(* The operations of the domain *)

\* The version of a message, and the last generated version with it: a
\* message without version gets a new one under the domain lock.
VersionFor(m) == IF m.version = NullVersion THEN lastVersion + 1 ELSE m.version
GeneratedFor(m) == IF m.version = NullVersion THEN lastVersion + 1 ELSE lastVersion

\* The interrupt thread finds no domain.
DropMessage ==
  /\ inFlight # <<>>
  /\ subscribed = {}
  /\ inFlight' = Tail(inFlight)
  /\ UNCHANGED <<lastVersion, realm, hw, backendVars, activating, initial, domain, poll,
                 source, subscribed, accessorVars, received>>

\* DomainImpl::distribute() in an inactive domain stores the message.
DistributeInactive ==
  LET m == Head(inFlight)
  IN  /\ inFlight # <<>>
      /\ subscribed # {}
      /\ ~domain.active
      /\ inFlight' = Tail(inFlight)
      /\ domain' = [domain EXCEPT !.notDistributed = Message(VersionFor(m), m.value)]
      /\ lastVersion' = GeneratedFor(m)
      /\ lastVersion' <= MaxVersion
      /\ UNCHANGED <<realm, hw, backendVars, activating, initial, poll, source,
                     subscribed, accessorVars, received>>

\* DomainImpl::distribute() drops data older than the initial value.
DistributeOutdated ==
  LET m == Head(inFlight)
  IN  /\ inFlight # <<>>
      /\ subscribed # {}
      /\ domain.active
      /\ VersionFor(m) < domain.activationVersion
      /\ inFlight' = Tail(inFlight)
      /\ UNCHANGED <<lastVersion, realm, hw, backendVars, activating, initial, domain, poll,
                     source, subscribed, accessorVars, received>>

\* Mistake: data older than the initial value is distributed as well.
DistributeAnyVersion(ok, key) ==
  LET m == Head(inFlight)
  IN  /\ inFlight # <<>>
      /\ subscribed # {}
      /\ domain.active
      /\ inFlight' = Tail(inFlight)
      /\ SubDomainDistribute(Message(VersionFor(m), m.value), GeneratedFor(m), ok, key)
      /\ UNCHANGED <<hw, opened, activating, initial, domain, subscribed, received>>

\* DomainImpl::distribute() hands the message to the distributors.
Distribute(ok, key) ==
  LET m == Head(inFlight)
  IN  /\ inFlight # <<>>
      /\ subscribed # {}
      /\ domain.active
      /\ VersionFor(m) >= domain.activationVersion
      /\ inFlight' = Tail(inFlight)
      /\ SubDomainDistribute(Message(VersionFor(m), m.value), GeneratedFor(m), ok, key)
      /\ UNCHANGED <<hw, opened, activating, initial, domain, subscribed, received>>

\* Mistakes: the stored message is preferred, or ignored.
PreferStoredMessage ==
  IF domain.notDistributed = NoMessage THEN Message(VersionFor(initial), initial.value)
                                       ELSE domain.notDistributed
IgnoreStoredMessage == Message(VersionFor(initial), initial.value)

\* What DomainImpl::activate() distributes: the initial value, or a message
\* which arrived before and is newer.
ActivationMessage ==
  IF VersionFor(initial) >= domain.notDistributed.version
  THEN Message(VersionFor(initial), initial.value)
  ELSE domain.notDistributed

\* DomainImpl::activate(), and the end of the activation.
Activate(ok, key) ==
  /\ activating
  /\ VersionFromData => initial # NoMessage
  /\ subscribed # {}
  /\ ~domain.active
  /\ activating' = FALSE
  /\ initial' = NoMessage
  /\ domain' = [domain EXCEPT !.active = TRUE, !.activationVersion = ActivationMessage.version]
  /\ SubDomainDistribute(ActivationMessage, GeneratedFor(initial), ok, key)
  /\ UNCHANGED <<hw, inFlight, opened, subscribed, received>>

\* DomainImpl::activate() of a domain which is active, or which has lost its
\* last accessor, has no effect.
ActivateWithoutEffect ==
  /\ activating
  /\ VersionFromData => initial # NoMessage
  /\ subscribed = {} \/ domain.active
  /\ activating' = FALSE
  /\ initial' = NoMessage
  /\ UNCHANGED <<lastVersion, realm, hw, inFlight, backendVars, domain, poll, source,
                 subscribed, accessorVars, received>>

\* Mistakes: an inactive domain sends the exception, or an active one stays
\* active.
SendExceptionAlways ==
  /\ sending
  /\ ~activating
  /\ sending' = FALSE
  /\ domain' = [domain EXCEPT !.active = FALSE]
  /\ queue' = [a \in Accessors |->
       IF a \in subscribed THEN PushOverwrite(queue[a], ExceptionEntry, QueueSize) ELSE queue[a]]
  /\ UNCHANGED <<lastVersion, realm, hw, inFlight, opened, error, asyncActive, activating,
                 initial, poll, source, subscribed, lastSent, received, logicError>>
SendExceptionStayActive ==
  /\ sending
  /\ ~activating
  /\ sending' = FALSE
  /\ queue' = [a \in Accessors |->
       IF a \in subscribed /\ domain.active
       THEN PushOverwrite(queue[a], ExceptionEntry, QueueSize) ELSE queue[a]]
  /\ UNCHANGED <<lastVersion, realm, hw, inFlight, opened, error, asyncActive, activating, domain,
                 initial, poll, source, subscribed, lastSent, received, logicError>>

\* The exception thread calls DomainImpl::sendException().
SendException ==
  /\ sending
  /\ ~activating
  /\ sending' = FALSE
  /\ domain' = [domain EXCEPT !.active = FALSE]
  /\ queue' = [a \in Accessors |->
       IF a \in subscribed /\ domain.active
       THEN PushOverwrite(queue[a], ExceptionEntry, QueueSize) ELSE queue[a]]
  /\ UNCHANGED <<lastVersion, realm, hw, inFlight, opened, error, asyncActive, activating,
                 initial, poll, source, subscribed, lastSent, received, logicError>>

(***************************************************************************)
(* DomainsContainer::subscribe() in a domain which is not active. A new    *)
(* domain is activated afterwards if asynchronous read is active.          *)
(***************************************************************************)
SubscribeInactive(a) ==
  /\ a \notin subscribed
  /\ ~activating
  /\ subscribed = {} \/ ~domain.active
  /\ subscribed' = subscribed \cup {a}
  /\ activating' = (subscribed = {} /\ asyncActive)
  /\ UNCHANGED <<lastVersion, realm, hw, inFlight, backendVars, initial, domain, poll,
                 source, accessorVars, received>>

(***************************************************************************)
(* In an active domain the subscription of a void accessor sends the       *)
(* version of the last distribution, or a new version if the distributor   *)
(* has been created for the accessor.                                      *)
(***************************************************************************)
SubscribeVoid(a) ==
  /\ a \in VoidAccessors \ subscribed
  /\ ~activating
  /\ subscribed # {}
  /\ domain.active
  /\ subscribed' = subscribed \cup {a}
  /\ lastVersion' = IF Void = {} THEN lastVersion + 1 ELSE lastVersion
  /\ lastVersion' <= MaxVersion
  /\ source' = IF Void = {} THEN Message(lastVersion', NoValue) ELSE source
  /\ Send({a}, source'.version, [b \in {a} |-> Data(source'.version, source'.value, FALSE)])
  /\ UNCHANGED <<realm, hw, inFlight, backendVars, activating, initial, domain, poll, received>>

(***************************************************************************)
(* In an active domain the subscription of a polled accessor reads its     *)
(* initial value. A distributor which is created for the accessor gets a   *)
(* new version first, or the one of the realm (keyOk: the key was read).   *)
(* The accessor is sent to even if its value could not be read.            *)
(***************************************************************************)
SubscribePolled(a, keyOk, ok, key) ==
  LET created == Polled = {}
      gen == IF created THEN lastVersion + 1 ELSE lastVersion
      p == IF created THEN PollAfter(gen, gen, keyOk, key) ELSE poll
      value == IF ok THEN hw ELSE NoValue
  IN  /\ a \in PolledAccessors \ subscribed
      /\ ~activating
      /\ subscribed # {}
      /\ domain.active
      /\ ok => keyOk
      /\ ~(created /\ UseRealm) => keyOk = ok
      /\ subscribed' = subscribed \cup {a}
      /\ poll' = p
      /\ RealmStep(gen, keyOk /\ created, key)
      /\ SetExceptionUnless(ok)
      /\ Send({a}, p.version, [b \in {a} |-> Data(p.version, value, p.forceFaulty)])
      /\ UNCHANGED <<hw, inFlight, opened, activating, initial, domain, source, received>>

\* The accessor is destroyed. A distributor without accessors goes away, and
\* so does the domain.
Unsubscribe(a) ==
  LET rest == subscribed \ {a}
  IN  /\ a \in subscribed
      /\ subscribed' = rest
      /\ domain' = IF rest = {} THEN NewDomain ELSE domain
      /\ poll' = IF rest \cap PolledAccessors = {} THEN NewPollDistributor ELSE poll
      /\ source' = IF rest \cap VoidAccessors = {} THEN NoMessage ELSE source
      /\ lastSent' = [lastSent EXCEPT ![a] = NullVersion]
      /\ queue' = [queue EXCEPT ![a] = <<>>]
      /\ received' = [received EXCEPT ![a] = Nothing]
      /\ UNCHANGED <<lastVersion, realm, hw, inFlight, backendVars, activating, initial, logicError>>

\* The application reads an entry of the queue.
Read(a) ==
  /\ a \in subscribed
  /\ queue[a] # <<>>
  /\ received' = [received EXCEPT ![a] = Head(queue[a])]
  /\ queue' = [queue EXCEPT ![a] = Tail(queue[a])]
  /\ UNCHANGED <<lastVersion, realm, hw, inFlight, backendVars, activating, initial, domain,
                 poll, source, subscribed, lastSent, logicError>>

Next ==
  /\ ~logicError
  /\ UNCHANGED backend
  /\ \/ Arrive
     \/ ReportException
     \/ Open
     \/ Close
     \/ ActivateAsyncRead
     \/ PollInitialValue
     \/ DropMessage
     \/ DistributeInactive
     \/ DistributeOutdated
     \/ \E ok \in PollOutcomes, key \in KeysRead : Distribute(ok, key)
     \/ \E ok \in PollOutcomes, key \in KeysRead : Activate(ok, key)
     \/ ActivateWithoutEffect
     \/ SendException
     \/ \E a \in Accessors : SubscribeInactive(a)
     \/ \E a \in Accessors : SubscribeVoid(a)
     \/ \E a \in Accessors, keyOk, ok \in ReadOutcomes, key \in KeysRead :
          SubscribePolled(a, keyOk, ok, key)
     \/ \E a \in Accessors : Unsubscribe(a)
     \/ \E a \in Accessors : Read(a)

Spec == Init /\ [][Next]_vars

-----------------------------------------------------------------------------
(* Properties *)

Entry == [kind : {"data", "exception", "nothing"}, version : Nat, value : Nat, faulty : BOOLEAN]
MessageType == [version : Nat, value : Nat]

TypeOK ==
  /\ backend \in Backends
  /\ lastVersion \in Nat
  /\ realm \in [latestKey : Nat, history : Seq(Nat)]
  /\ hw \in Nat
  /\ inFlight \in Seq(MessageType)
  /\ opened \in BOOLEAN /\ error \in BOOLEAN /\ sending \in BOOLEAN
  /\ asyncActive \in BOOLEAN /\ activating \in BOOLEAN
  /\ initial \in MessageType
  /\ domain \in [active : BOOLEAN, notDistributed : MessageType, activationVersion : Nat]
  /\ poll \in [version : Nat, lastVersion : Nat, forceFaulty : BOOLEAN]
  /\ source \in MessageType
  /\ subscribed \in SUBSET Accessors
  /\ lastSent \in [Accessors -> Nat]
  /\ queue \in [Accessors -> Seq(Entry)]
  /\ \A a \in Accessors : Len(queue[a]) <= QueueSize
  /\ received \in [Accessors -> Entry]
  /\ logicError \in BOOLEAN

(***************************************************************************)
(* AsyncVariableImpl::send() never finds a decreased version, whatever     *)
(* order initial values, messages and subscriptions come in. (Without a    *)
(* DataConsistencyRealm, which brings in versions of its own.)             *)
(***************************************************************************)
NeverLogicError == ~UseRealm => ~logicError

(***************************************************************************)
(* "If the incoming DataConsistencyKey results in a smaller VersionNumber  *)
(* than last used: the last used VersionNumber is attached to the data"    *)
(* (spec_DataConsistencyKeyMapping.dox, 3.3.2): send() does not get a      *)
(* decreased version from a realm either, so that it never throws.         *)
(***************************************************************************)
SmallerVersionIsReplaced == ~logicError

\* What the application has read last and what it is still going to read.
Stream(a) == <<received[a]>> \o queue[a]
NewestEntry(a) == IF queue[a] = <<>> THEN received[a] ELSE queue[a][Len(queue[a])]

(***************************************************************************)
(* The application never reads data with an older version or an older      *)
(* value than it has read before, also if entries were overwritten and     *)
(* asynchronous read was activated again in between.                       *)
(***************************************************************************)
StreamInOrder ==
  \A a \in Accessors : \A i, j \in 1 .. Len(Stream(a)) :
    /\ i < j
    /\ Stream(a)[i].kind = "data"
    /\ Stream(a)[j].kind = "data"
    => /\ Stream(a)[i].version <= Stream(a)[j].version
       /\ Stream(a)[i].value <= Stream(a)[j].value

(***************************************************************************)
(* No update is missed: when all messages have been distributed in an      *)
(* active domain of a functional device, the newest entry of each accessor *)
(* with data is the content of the hardware register. The domain stores    *)
(* messages which come before activate() and drops outdated ones for this. *)
(***************************************************************************)
HasValue(a) == a \in PolledAccessors \/ VersionFromData
NewestValueArrives ==
  opened /\ ~error /\ domain.active /\ inFlight = <<>> /\ ~logicError
    => \A a \in subscribed : HasValue(a) =>
         /\ NewestEntry(a).kind = "data"
         /\ NewestEntry(a).value = hw

(***************************************************************************)
(* Polled and void accessors which get data in the same step get the same  *)
(* version: SubDomain::distribute() asks the poll distributor first.       *)
(***************************************************************************)
SameTriggerSameVersion ==
  [][\A a, b \in subscribed \cap subscribed' :
       queue'[a] # queue[a] /\ queue'[b] # queue[b] /\ received' = received
         => NewestEntry(a)'.version = NewestEntry(b)'.version]_vars

(***************************************************************************)
(* Each accessor sees a stream as AccessorStream promises it: silence      *)
(* until asynchronous read is active, one exception as the last entry of   *)
(* an active period, versions which never decrease.                        *)
(***************************************************************************)
AccessorView(a) == INSTANCE AccessorStream WITH
  phase <- IF a \notin subscribed THEN "none" ELSE IF domain.active THEN "on" ELSE "silent",
  version <- lastSent[a],
  queue <- queue[a],
  received <- received[a]
AccessorViews ==
  /\ \A a \in Accessors : AccessorView(a)!Init
  /\ [][\A a \in Accessors : [AccessorView(a)!Next]_(AccessorView(a)!vars)]_vars

\* What the domain and its accessors keep: the types (and so the bound of the
\* queues), no decreased version at send(), and streams which are in order.
DomainInv == TypeOK /\ NeverLogicError /\ StreamInOrder

=============================================================================

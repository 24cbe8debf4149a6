------------------------- MODULE AsyncDomain_proof -------------------------
(***************************************************************************)
(* The safety properties of AsyncDomain for every set of accessors, every  *)
(* queue size, every kind of backend and every bound.                      *)
(*                                                                         *)
(* DomainInv is not inductive: why a message is never older than what has  *)
(* been sent depends on the order of the messages in flight, the initial   *)
(* value and the stored message. The invariants below name these parts.    *)
(***************************************************************************)
EXTENDS AsyncDomain, SequenceTheorems, TLAPS

-----------------------------------------------------------------------------
(* The inductive invariants *)

QueuesOK ==
  /\ lastSent \in [Accessors -> Nat]
  /\ queue \in [Accessors -> Seq(Entry)]
  /\ \A a \in Accessors : Len(queue[a]) <= QueueSize

RealmOK ==
  /\ realm \in [latestKey : 0 .. (KeyRange - 1), history : Seq(Nat)]
  /\ Realm!HistoryHasNoGaps
PollType == [version : Nat, lastVersion : Nat, forceFaulty : BOOLEAN]
PollOK == poll \in PollType

\* The types, and the buffer of the realm has one entry per key.
TypeInv == TypeOK /\ RealmOK

\* Nothing is left of an accessor after it is destroyed, and nothing of the
\* domain and its distributors after they have lost their accessors.
NothingIsLeft ==
  /\ \A a \in Accessors \ subscribed :
       lastSent[a] = NullVersion /\ queue[a] = <<>> /\ received[a] = Nothing
  /\ subscribed = {} => ~domain.active
  /\ Void = {} => source = NoMessage

\* The initial value is polled for an activation in progress.
InitialInv == initial # NoMessage => activating /\ VersionFromData /\ initial.version > 0

\* The messages which wait for distribution, and all which the domain knows.
InFlight == {inFlight[i] : i \in 1 .. Len(inFlight)}
Messages == {source, initial, domain.notDistributed} \cup InFlight

\* Every version in the domain has been generated.
VersionsGenerated ==
  /\ \A m \in {initial, domain.notDistributed} \cup InFlight : m.version <= lastVersion
  /\ domain.activationVersion <= lastVersion
  /\ ~UseRealm =>
       /\ source.version <= lastVersion
       /\ poll.version <= lastVersion
       /\ \A a \in Accessors : lastSent[a] <= lastVersion

\* Interrupts have no data. Messages have data and a version.
MessagesInv ==
  IF VersionFromData
  THEN /\ \A m \in Messages : m.value <= hw /\ (m.version = NullVersion => m.value = NoValue)
       /\ \A m \in InFlight : m.version > NullVersion
  ELSE /\ source.value = NoValue /\ domain.notDistributed.value = NoValue
       /\ InFlight \subseteq {NoMessage}

\* The messages of a backend with versions in its data: newer versions have
\* newer values, wherever the messages are, and they come in order.
NotNewer(m, n) == m.version <= n.version => m.value <= n.value
MessagesConsistent ==
  VersionFromData =>
    /\ \A m, n \in Messages : NotNewer(m, n)
    /\ \A i, j \in 1 .. Len(inFlight) : i <= j => inFlight[i].version <= inFlight[j].version

\* What is distributed next is not older than what was distributed last.
DistributionInOrder ==
  VersionFromData =>
    /\ \A a \in subscribed : lastSent[a] <= source.version
    /\ ~domain.active /\ initial # NoMessage => source.version <= initial.version
    /\ domain.active =>
         /\ domain.activationVersion <= source.version
         /\ \A m \in InFlight :
              domain.activationVersion <= m.version => source.version <= m.version

OrderInv == NothingIsLeft /\ InitialInv /\ VersionsGenerated /\ MessagesInv
            /\ MessagesConsistent /\ DistributionInOrder /\ NeverLogicError

\* The data which an accessor has read and the data in its queue is in order,
\* and not newer than what was sent last.
Ordered(e, f) ==
  e.kind = "data" /\ f.kind = "data" => e.version <= f.version /\ e.value <= f.value
UpTo(e, version, value) ==
  e.kind = "data" => e.version <= version /\ e.value <= value
StreamOK(e, q, version, value) ==
  /\ UpTo(e, version, value)
  /\ \A i \in 1 .. Len(q) : Ordered(e, q[i]) /\ UpTo(q[i], version, value)
  /\ \A i, j \in 1 .. Len(q) : i < j => Ordered(q[i], q[j])
NewestValue(a) == IF a \in PolledAccessors THEN hw ELSE source.value
StreamInv ==
  \A a \in Accessors : StreamOK(received[a], queue[a], lastSent[a], NewestValue(a))

\* Asynchronous read is active on an opened device only. An active domain of
\* a device with an error will get the exception.
LifecycleInv ==
  /\ domain.active \/ activating \/ asyncActive => opened
  /\ CheckedActivation =>
       /\ error => ~asyncActive
       /\ error /\ (domain.active \/ activating) => sending

\* Where the newest update of the hardware register is: with versions in the
\* data, the newest message in flight, what was sent last, or what an
\* activation is going to send.
NewestSent ==
  domain.active => \A a \in subscribed :
    NewestEntry(a).kind = "data" /\ NewestEntry(a).value = source.value
NewestInFlight == inFlight # <<>> => inFlight[Len(inFlight)].value = hw
NewestDistributed == inFlight = <<>> /\ domain.active => source.value = hw
NewestStored ==
  inFlight = <<>> /\ ~domain.active /\ initial # NoMessage /\ subscribed # {}
    => hw \in {initial.value, domain.notDistributed.value}
NewestInv ==
  VersionFromData => NewestSent /\ NewestInFlight /\ NewestDistributed /\ NewestStored

\* A register which is polled has been read after the last update, unless a
\* read has failed or the domain still waits for the exception.
PolledInv ==
  CheckedActivation /\ opened /\ ~error /\ domain.active /\ inFlight = <<>> /\ ~logicError
    => \A a \in Polled : NewestEntry(a).kind = "data" /\ NewestEntry(a).value = hw

ArrivalInv == LifecycleInv /\ NewestInv /\ PolledInv

-----------------------------------------------------------------------------
(* The realm and the queues *)

\* getVersion() of a realm without gaps: it returns a version, and the realm
\* has no gaps afterwards.
LEMMA RealmFacts ==
  ASSUME realm \in [latestKey : 0 .. (KeyRange - 1), history : Seq(Nat)], Realm!HistoryHasNoGaps,
         NEW key \in Keys, NEW gen \in Nat
  PROVE  LET n == Realm!NumberOfNewEntries(realm, key)
             after == Realm!RealmAfter(realm, key, gen)
         IN  /\ n \in Nat
             /\ Realm!VersionOf(realm, key, gen) \in Nat
             /\ after \in [latestKey : 0 .. (KeyRange - 1), history : Seq(Nat)]
             /\ Len(after.history) = Realm!Smaller(after.latestKey, MaxSizeEventIdMap)
  <1> DEFINE n == Realm!NumberOfNewEntries(realm, key)
             h == realm.history
             latest == realm.latestKey
             kept == Realm!Smaller(Len(h) + n, MaxSizeEventIdMap)
             fresh == Realm!PushFresh(h, n, gen)
  <1>1. /\ key \in Nat /\ key < KeyRange /\ latest \in Nat /\ Len(h) \in Nat /\ h \in Seq(Nat)
        /\ MaxSizeEventIdMap \in Nat \ {0} /\ KeyRange \in Nat \ {0}
        /\ Len(h) = Realm!Smaller(latest, MaxSizeEventIdMap)
    BY DomainAssumption DEF Realm!HistoryHasNoGaps
  <1>2. Realm!AddKey(key, MaxSizeEventIdMap) \in Nat
        /\ Realm!AddKey(key, MaxSizeEventIdMap) <= key + MaxSizeEventIdMap
    BY <1>1 DEF Realm!AddKey
  <1>3. n \in Nat
    BY <1>1, <1>2 DEF Realm!NumberOfNewEntries, Realm!InWindow, Realm!TooOld, Realm!Smaller
  <1>4. Realm!VersionOf(realm, key, gen) \in Nat
    <2>1. CASE Realm!InWindow(realm, key) /\ key # 0
      <3>1. Realm!IndexOf(realm, key) \in 1 .. Len(h)
        BY <1>1, <1>2, <2>1 DEF Realm!InWindow, Realm!IndexOf, Realm!Smaller
      <3>2. h[Realm!IndexOf(realm, key)] \in Nat
        BY <1>1, <3>1
      <3>3. QED
        BY <2>1, <3>2 DEF Realm!VersionOf, Realm!NullVersion
    <2>2. CASE ~(Realm!InWindow(realm, key) /\ key # 0)
      BY <1>3, <2>2 DEF Realm!VersionOf, Realm!NullVersion
    <2>3. QED
      BY <2>1, <2>2
  <1>5. CASE n = 0
    BY <1>1, <1>3, <1>4, <1>5 DEF Realm!RealmAfter
  <1>6. CASE n # 0
    <2>1. kept \in Nat /\ kept <= Len(h) + n
      BY <1>1, <1>3 DEF Realm!Smaller
    <2>2. fresh \in Seq(Nat) /\ Len(fresh) = kept
      <3> DEFINE total == Len(h) + n
                 e == [i \in 1 .. total |-> IF i <= Len(h) THEN h[i] ELSE gen + (i - Len(h))]
      <3>1. total \in Nat /\ \A i \in 1 .. kept : total - kept + i \in 1 .. total
        BY <1>1, <1>3, <2>1
      <3>2. \A i \in 1 .. total : e[i] \in Nat
        BY <1>1, <1>3
      <3>3. fresh = [i \in 1 .. kept |-> e[total - kept + i]]
        <4>1. fresh = [i \in 1 .. kept |-> IF total - kept + i <= Len(h) THEN h[total - kept + i]
                                           ELSE gen + ((total - kept + i) - Len(h))]
          BY DEF Realm!PushFresh
        <4> HIDE DEF kept, fresh, total
        <4> QED
          BY <3>1, <4>1
      <3> HIDE DEF kept, fresh, total, e
      <3>4. fresh \in [1 .. kept -> Nat]
        BY <3>1, <3>2, <3>3
      <3>5. fresh \in Seq(Nat)
        BY <2>1, <3>4, SeqDef
      <3>6. QED
        BY <2>1, <3>4, <3>5, LenProperties
    <2>3. Realm!RealmAfter(realm, key, gen) = [latestKey |-> key, history |-> fresh]
      BY <1>6 DEF Realm!RealmAfter
    <2>4. kept = Realm!Smaller(key, MaxSizeEventIdMap)
      BY <1>1, <1>2, <1>6
      DEF Realm!NumberOfNewEntries, Realm!InWindow, Realm!TooOld, Realm!Smaller
    <2>5. QED
      BY <1>1, <1>3, <1>4, <2>2, <2>3, <2>4
  <1>7. QED
    BY <1>5, <1>6

\* A push gets the entry in, as the newest one, and keeps the bound.
LEMMA PushFacts ==
  ASSUME NEW q \in Seq(Entry), NEW e \in Entry, Len(q) <= QueueSize
  PROVE  LET r == PushOverwrite(q, e, QueueSize)
         IN  /\ r \in Seq(Entry)
             /\ r # <<>>
             /\ Len(r) <= QueueSize
             /\ Len(r) \in {Len(q), Len(q) + 1}
             /\ r[Len(r)] = e
             /\ r = PushOverwrite(q, r[Len(r)], QueueSize)
             /\ \A i \in 1 .. (Len(r) - 1) : i <= Len(q) /\ r[i] = q[i]
  <1>1. QueueSize \in Nat \ {0} /\ Len(q) \in Nat
    BY DomainAssumption
  <1>2. CASE Len(q) < QueueSize
    BY <1>1, <1>2 DEF PushOverwrite
  <1>3. CASE Len(q) = QueueSize
    <2> DEFINE r == [q EXCEPT ![Len(q)] = e]
    <2>1. PushOverwrite(q, e, QueueSize) = r
      BY <1>1, <1>3 DEF PushOverwrite
    <2>2. r \in Seq(Entry) /\ Len(r) = Len(q)
          /\ \A j \in 1 .. Len(q) : r[j] = IF j = Len(q) THEN e ELSE q[j]
      BY <1>1, <1>3, ExceptSeq
    <2> HIDE DEF r
    <2>3. r # <<>> /\ r[Len(r)] = e
      BY <1>1, <1>3, <2>2
    <2>4. QED
      BY <1>1, <1>3, <2>1, <2>2, <2>3
  <1>4. QED
    BY <1>1, <1>2, <1>3

\* The application reads the oldest entry.
LEMMA ReadFacts ==
  ASSUME NEW q \in Seq(Entry), q # <<>>
  PROVE  /\ Head(q) \in Entry
         /\ Head(q) = q[1]
         /\ Tail(q) \in Seq(Entry)
         /\ Len(Tail(q)) = Len(q) - 1
         /\ \A i \in 1 .. Len(Tail(q)) : Tail(q)[i] = q[i + 1]
BY HeadTailProperties

-----------------------------------------------------------------------------
(* What send() does *)

\* The entry with this version and value goes into the queue of the accessor.
Pushed(a, version, value) ==
  /\ lastSent'[a] = version
  /\ \E faulty \in BOOLEAN :
       queue'[a] = PushOverwrite(queue[a], Data(version, value, faulty), QueueSize)

Untouched(a) == lastSent'[a] = lastSent[a] /\ queue'[a] = queue[a]

\* All accessors in S get their value with the version, or send() throws.
Delivered(S, version, values) ==
  /\ logicError' \in BOOLEAN
  /\ logicError' => \E a \in S : lastSent[a] > version
  /\ \A a \in Accessors :
       IF a \in S /\ ~logicError'
       THEN lastSent[a] <= version /\ Pushed(a, version, values[a])
       ELSE Untouched(a)

LEMMA DataIsEntry ==
  ASSUME NEW version \in Nat, NEW value \in Nat, NEW faulty \in BOOLEAN
  PROVE  Data(version, value, faulty) \in Entry
BY DEF Data, Entry

LEMMA SendDelivers ==
  ASSUME QueuesOK, ~logicError, NEW S \in SUBSET Accessors, NEW version \in Nat,
         NEW values \in [Accessors -> Nat], NEW entries,
         \A a \in S : \E faulty \in BOOLEAN : entries[a] = Data(version, values[a], faulty),
         Send(S, version, entries)
  PROVE  Delivered(S, version, values) /\ QueuesOK'
  <1>1. CASE \E a \in S : lastSent[a] > version
    BY <1>1 DEF Send, Delivered, Untouched, QueuesOK
  <1>2. CASE ~ \E a \in S : lastSent[a] > version
    <2>1. /\ logicError' = FALSE
          /\ lastSent' = [a \in Accessors |-> IF a \in S THEN version ELSE lastSent[a]]
          /\ queue' = [a \in Accessors |->
               IF a \in S THEN PushOverwrite(queue[a], entries[a], QueueSize) ELSE queue[a]]
      BY <1>2 DEF Send
    <2>2. \A a \in S : lastSent[a] <= version
      BY <1>2 DEF QueuesOK
    <2>3. \A a \in S : /\ PushOverwrite(queue[a], entries[a], QueueSize) \in Seq(Entry)
                       /\ Len(PushOverwrite(queue[a], entries[a], QueueSize)) <= QueueSize
      <3> SUFFICES ASSUME NEW a \in S
                   PROVE  /\ PushOverwrite(queue[a], entries[a], QueueSize) \in Seq(Entry)
                          /\ Len(PushOverwrite(queue[a], entries[a], QueueSize)) <= QueueSize
        OBVIOUS
      <3>1. entries[a] \in Entry
        BY DataIsEntry
      <3>2. QED
        BY <3>1, PushFacts DEF QueuesOK
    <2>4. QueuesOK'
      BY <2>1, <2>3 DEF QueuesOK
    <2>5. \A a \in S : Pushed(a, version, values[a])
      BY <2>1 DEF Pushed
    <2>6. \A a \in Accessors \ S : Untouched(a)
      BY <2>1 DEF Untouched, QueuesOK
    <2>7. QED
      BY <2>1, <2>2, <2>4, <2>5, <2>6 DEF Delivered
  <1>3. QED
    BY <1>1, <1>2

-----------------------------------------------------------------------------
(* What a distribution does *)

\* A register which is polled has the value of the hardware, the accessors
\* without data of their own get what the message has.
Values(v) == [a \in Accessors |-> IF a \in PolledAccessors THEN hw ELSE v]

\* The outcome of SubDomainDistribute(): version is the one which goes out.
Distributed(m, gen, ok, version) ==
  /\ poll'.version = IF Polled = {} THEN poll.version ELSE version
  /\ source' = IF Void = {} THEN source ELSE Message(version, m.value)
  /\ lastVersion' >= gen
  /\ ~UseRealm => version = m.version /\ lastVersion' = gen
  /\ SetExceptionUnless(ok)
  /\ Delivered(IF ok THEN subscribed ELSE Void, version, Values(m.value))

LEMMA PollFacts ==
  ASSUME RealmOK, PollOK, NEW version \in Nat, NEW gen \in Nat, NEW ok \in BOOLEAN,
         NEW key \in KeysRead
  PROVE  /\ PollAfter(version, gen, ok, key) \in PollType
         /\ ~UseRealm => PollAfter(version, gen, ok, key).version = version
  <1>1. CASE ~ok \/ ~UseRealm
    BY <1>1 DEF PollAfter, PollOK, PollType
  <1>2. CASE ok /\ UseRealm
    <2>1. key \in Keys
      BY <1>2 DEF KeysRead
    <2>2. Realm!VersionOf(realm, key, gen) \in Nat
      BY <2>1, RealmFacts DEF RealmOK
    <2>3. QED
      BY <1>2, <2>2 DEF PollAfter, PollOK, PollType
  <1>3. QED
    BY <1>1, <1>2

LEMMA RealmStepFacts ==
  ASSUME RealmOK, NEW gen \in Nat, NEW ok \in BOOLEAN, NEW key \in KeysRead,
         RealmStep(gen, ok, key)
  PROVE  RealmOK' /\ lastVersion' \in Nat /\ lastVersion' >= gen
         /\ (~UseRealm => lastVersion' = gen)
  <1> DEFINE n == IF ok /\ UseRealm THEN Realm!NumberOfNewEntries(realm, key) ELSE 0
  <1>1. /\ lastVersion' = gen + n
        /\ realm' = IF n = 0 THEN realm ELSE Realm!RealmAfter(realm, key, gen)
    BY DEF RealmStep
  <1>2. CASE ok /\ UseRealm
    <2>1. key \in Keys
      BY <1>2 DEF KeysRead
    <2> HIDE DEF n
    <2>2. n = Realm!NumberOfNewEntries(realm, key)
      BY <1>2 DEF n
    <2>3. /\ n \in Nat
          /\ Realm!RealmAfter(realm, key, gen) \in [latestKey : 0 .. (KeyRange - 1), history : Seq(Nat)]
          /\ Len(Realm!RealmAfter(realm, key, gen).history)
               = Realm!Smaller(Realm!RealmAfter(realm, key, gen).latestKey, MaxSizeEventIdMap)
      BY <2>1, <2>2, RealmFacts DEF RealmOK
    <2>4. QED
      BY <1>1, <1>2, <2>3 DEF RealmOK, Realm!HistoryHasNoGaps
  <1>3. CASE ~(ok /\ UseRealm)
    BY <1>1, <1>3 DEF RealmOK, Realm!HistoryHasNoGaps
  <1>4. QED
    BY <1>2, <1>3

LEMMA DistributeFacts ==
  ASSUME RealmOK, PollOK, QueuesOK, ~logicError, hw \in Nat, subscribed \in SUBSET Accessors,
         NEW m \in MessageType, NEW gen \in Nat, NEW ok \in BOOLEAN, NEW key \in KeysRead,
         SubDomainDistribute(m, gen, ok, key)
  PROVE  /\ RealmOK' /\ PollOK' /\ QueuesOK' /\ lastVersion' \in Nat
         /\ \E version \in Nat : Distributed(m, gen, ok, version)
  <1> DEFINE p == IF Polled = {} THEN poll ELSE PollAfter(m.version, gen, ok, key)
             version == IF Polled = {} THEN m.version ELSE p.version
             S == IF ok THEN subscribed ELSE Void
             entries == [a \in subscribed |->
               IF a \in PolledAccessors THEN Data(version, hw, p.forceFaulty)
                                        ELSE Data(version, m.value, FALSE)]
  <1>1. /\ poll' = p
        /\ source' = IF Void = {} THEN source ELSE Message(version, m.value)
        /\ RealmStep(gen, ok /\ Polled # {}, key)
        /\ SetExceptionUnless(ok)
        /\ Send(S, version, entries)
    BY DEF SubDomainDistribute
  <1>2. m.version \in Nat /\ m.value \in Nat
    BY DEF MessageType
  <1>3. /\ p \in PollType
        /\ version \in Nat
        /\ ~UseRealm => version = m.version
    <2>1. CASE Polled = {}
      BY <1>2, <2>1 DEF PollOK, PollType
    <2>2. CASE Polled # {}
      <3>1. p = PollAfter(m.version, gen, ok, key)
        BY <2>2
      <3> HIDE DEF p, version
      <3>2. /\ PollAfter(m.version, gen, ok, key) \in PollType
            /\ ~UseRealm => PollAfter(m.version, gen, ok, key).version = m.version
        BY <1>2, PollFacts
      <3>3. version = p.version
        BY <2>2 DEF version
      <3>4. QED
        BY <3>1, <3>2, <3>3 DEF PollType
    <2>3. QED
      BY <2>1, <2>2
  <1>4. RealmOK' /\ lastVersion' \in Nat /\ lastVersion' >= gen /\ (~UseRealm => lastVersion' = gen)
    BY <1>1, RealmStepFacts
  <1>5. S \in SUBSET Accessors /\ S \subseteq subscribed /\ Values(m.value) \in [Accessors -> Nat]
    BY <1>2 DEF Values, Void
  <1>6. \A a \in S : \E faulty \in BOOLEAN : entries[a] = Data(version, Values(m.value)[a], faulty)
    <2> SUFFICES ASSUME NEW a \in S
                 PROVE  \E faulty \in BOOLEAN : entries[a] = Data(version, Values(m.value)[a], faulty)
      OBVIOUS
    <2>1. a \in Accessors /\ a \in subscribed
      BY <1>5
    <2> HIDE DEF version, S
    <2>2. CASE a \in PolledAccessors
      BY <1>3, <2>1, <2>2 DEF Values, PollType
    <2>3. CASE a \notin PolledAccessors
      BY <1>3, <2>1, <2>3 DEF Values
    <2>4. QED
      BY <2>2, <2>3
  <1> HIDE DEF entries, S, version, p
  <1>7. Delivered(S, version, Values(m.value)) /\ QueuesOK'
    BY <1>1, <1>3, <1>5, <1>6, SendDelivers
  <1>8. poll'.version = IF Polled = {} THEN poll.version ELSE version
    BY <1>1 DEF version, p
  <1>9. PollOK'
    BY <1>1, <1>3 DEF PollOK
  <1>10. Distributed(m, gen, ok, version)
    BY <1>1, <1>3, <1>4, <1>7, <1>8 DEF Distributed, S
  <1>11. QED
    BY <1>3, <1>4, <1>7, <1>9, <1>10

-----------------------------------------------------------------------------
(* Types *)

LEMMA ConstantFacts ==
  /\ NewDomain \in [active : BOOLEAN, notDistributed : MessageType, activationVersion : Nat]
  /\ NewPollDistributor \in PollType
  /\ NoMessage \in MessageType
  /\ Nothing \in Entry /\ ExceptionEntry \in Entry
BY DEF NewDomain, NewPollDistributor, NoMessage, Message, MessageType, PollType, Nothing,
       ExceptionEntry, Entry, NullVersion, NoValue

\* The message which is handed to the distributors.
LEMMA MessageFacts ==
  ASSUME TypeOK
  PROVE  /\ inFlight # <<>> =>
              /\ Head(inFlight) \in MessageType
              /\ Head(inFlight) = inFlight[1]
              /\ Tail(inFlight) \in Seq(MessageType)
              /\ Len(inFlight) \in Nat \ {0}
              /\ Len(Tail(inFlight)) = Len(inFlight) - 1
              /\ \A i \in 1 .. Len(Tail(inFlight)) : Tail(inFlight)[i] = inFlight[i + 1]
              /\ Message(VersionFor(Head(inFlight)), Head(inFlight).value) \in MessageType
         /\ \A m \in MessageType : GeneratedFor(m) \in Nat /\ GeneratedFor(m) >= lastVersion
         /\ ActivationMessage \in MessageType
  <1>1. \A m \in MessageType : m.version \in Nat /\ m.value \in Nat
    BY DEF MessageType
  <1>2. lastVersion \in Nat /\ initial \in MessageType /\ domain.notDistributed \in MessageType
    BY DEF TypeOK
  <1>3. \A m \in MessageType : /\ GeneratedFor(m) \in Nat /\ GeneratedFor(m) >= lastVersion
                               /\ VersionFor(m) \in Nat
    BY <1>1, <1>2 DEF GeneratedFor, VersionFor
  <1>4. \A v, w \in Nat : Message(v, w) \in MessageType
    BY DEF Message, MessageType
  <1>5. ActivationMessage \in MessageType
    BY <1>1, <1>2, <1>3, <1>4 DEF ActivationMessage
  <1>6. CASE inFlight # <<>>
    <2>1. inFlight \in Seq(MessageType)
      BY DEF TypeOK
    <2>2. Head(inFlight) \in MessageType /\ Head(inFlight) = inFlight[1]
      BY <1>6, <2>1, HeadTailProperties
    <2>3. /\ Tail(inFlight) \in Seq(MessageType)
          /\ Len(Tail(inFlight)) = Len(inFlight) - 1
          /\ \A i \in 1 .. Len(Tail(inFlight)) : Tail(inFlight)[i] = inFlight[i + 1]
      BY <1>6, <2>1, HeadTailProperties
    <2>4. Len(inFlight) \in Nat \ {0}
      BY <1>6, <2>1, EmptySeq
    <2>5. QED
      BY <1>1, <1>3, <1>4, <1>5, <2>2, <2>3, <2>4
  <1>7. QED
    BY <1>3, <1>5, <1>6

\* What a distribution changes has the right type.
LEMMA DistributeTypes ==
  ASSUME TypeInv, ~logicError,
         NEW m \in MessageType, NEW gen \in Nat, NEW ok \in PollOutcomes, NEW key \in KeysRead,
         SubDomainDistribute(m, gen, ok, key)
  PROVE  /\ RealmOK' /\ PollOK' /\ QueuesOK' /\ lastVersion' \in Nat
         /\ source' \in MessageType
         /\ logicError' \in BOOLEAN
         /\ error' \in BOOLEAN /\ sending' \in BOOLEAN /\ asyncActive' \in BOOLEAN
         /\ \E version \in Nat : Distributed(m, gen, ok, version)
  <1>1. ok \in BOOLEAN
    BY DEF PollOutcomes, ReadOutcomes
  <1>2. /\ RealmOK' /\ PollOK' /\ QueuesOK' /\ lastVersion' \in Nat
        /\ \E version \in Nat : Distributed(m, gen, ok, version)
    BY <1>1, DistributeFacts DEF TypeInv, TypeOK, PollOK, PollType, QueuesOK
  <1>3. PICK version \in Nat : Distributed(m, gen, ok, version)
    BY <1>2
  <1>4. source' \in MessageType
    BY <1>3 DEF Distributed, Message, MessageType, TypeInv, TypeOK
  <1>5. logicError' \in BOOLEAN
    BY <1>3 DEF Distributed, Delivered
  <1>6. error' \in BOOLEAN /\ sending' \in BOOLEAN /\ asyncActive' \in BOOLEAN
    BY <1>3, Zenon DEF Distributed, SetExceptionUnless
  <1>7. QED
    BY <1>2, <1>4, <1>5, <1>6

LEMMA TypeInit == Init => TypeInv
  <1> SUFFICES ASSUME Init PROVE TypeInv
    OBVIOUS
  <1>1. realm = [latestKey |-> 0, history |-> <<>>]
    BY DEF Init, Realm!EmptyRealm
  <1>2. RealmOK /\ realm \in [latestKey : Nat, history : Seq(Nat)]
    BY <1>1, DomainAssumption DEF RealmOK, Realm!HistoryHasNoGaps, Realm!Smaller
  <1>3. /\ lastVersion \in Nat /\ hw \in Nat /\ inFlight \in Seq(MessageType)
        /\ backend \in Backends /\ subscribed \in SUBSET Accessors
    BY DEF Init
  <1>4. /\ opened \in BOOLEAN /\ error \in BOOLEAN /\ sending \in BOOLEAN
        /\ asyncActive \in BOOLEAN /\ activating \in BOOLEAN /\ logicError \in BOOLEAN
    BY Zenon DEF Init
  <1>5. /\ initial \in MessageType /\ source \in MessageType
        /\ domain \in [active : BOOLEAN, notDistributed : MessageType, activationVersion : Nat]
        /\ poll \in [version : Nat, lastVersion : Nat, forceFaulty : BOOLEAN]
    BY ConstantFacts DEF Init, PollType
  <1>6. /\ lastSent \in [Accessors -> Nat]
        /\ queue \in [Accessors -> Seq(Entry)]
        /\ \A a \in Accessors : Len(queue[a]) <= QueueSize
        /\ received \in [Accessors -> Entry]
    BY ConstantFacts, DomainAssumption DEF Init, NullVersion
  <1>7. QED
    BY <1>2, <1>3, <1>4, <1>5, <1>6 DEF TypeInv, TypeOK

\* A subscription in an active domain sends the last version to the accessor.
LEMMA SubscribeVoidSends ==
  ASSUME TypeOK, ~logicError, NEW a \in Accessors, SubscribeVoid(a)
  PROVE  /\ QueuesOK'
         /\ Delivered({a}, source'.version, [b \in Accessors |-> source'.value])
  <1>1. source' \in MessageType
    BY DEF SubscribeVoid, TypeOK, Message, MessageType, NoValue
  <1>2. source'.version \in Nat /\ source'.value \in Nat
    BY <1>1 DEF MessageType
  <1> DEFINE version == source'.version
             value == source'.value
             values == [b \in Accessors |-> value]
             entries == [b \in {a} |-> Data(version, value, FALSE)]
  <1>3. Send({a}, version, entries)
    BY DEF SubscribeVoid
  <1>4. \A b \in {a} : \E faulty \in BOOLEAN : entries[b] = Data(version, values[b], faulty)
    OBVIOUS
  <1>5. values \in [Accessors -> Nat]
    BY <1>2
  <1>6. QueuesOK
    BY DEF TypeOK, QueuesOK
  <1>7. version \in Nat
    BY <1>2
  <1> HIDE DEF version, values, entries
  <1>8. QueuesOK' /\ Delivered({a}, version, values)
    BY <1>3, <1>4, <1>5, <1>6, <1>7, SendDelivers
  <1>9. QED
    BY <1>8 DEF version, values

LEMMA SubscribePolledSends ==
  ASSUME TypeInv, ~logicError, NEW a \in Accessors, NEW keyOk \in ReadOutcomes,
         NEW ok \in ReadOutcomes, NEW key \in KeysRead, SubscribePolled(a, keyOk, ok, key)
  PROVE  /\ RealmOK' /\ PollOK' /\ QueuesOK' /\ lastVersion' \in Nat /\ lastVersion' >= lastVersion
         /\ error' \in BOOLEAN /\ sending' \in BOOLEAN /\ asyncActive' \in BOOLEAN
         /\ ~UseRealm /\ poll.version <= lastVersion => poll'.version <= lastVersion'
         /\ Delivered({a}, poll'.version, [b \in Accessors |-> IF ok THEN hw ELSE NoValue])
  <1> DEFINE created == Polled = {}
             gen == IF created THEN lastVersion + 1 ELSE lastVersion
             p == IF created THEN PollAfter(gen, gen, keyOk, key) ELSE poll
             value == IF ok THEN hw ELSE NoValue
             values == [b \in Accessors |-> value]
             version == p.version
             entries == [b \in {a} |-> Data(version, value, p.forceFaulty)]
  <1>1. /\ poll' = p
        /\ RealmStep(gen, keyOk /\ created, key)
        /\ SetExceptionUnless(ok)
        /\ Send({a}, version, entries)
    BY DEF SubscribePolled
  <1>2. ok \in BOOLEAN /\ keyOk \in BOOLEAN
    BY DEF ReadOutcomes
  <1>3. gen \in Nat /\ gen >= lastVersion /\ lastVersion \in Nat /\ poll \in PollType /\ hw \in Nat
    BY DEF TypeInv, TypeOK, PollType
  <1>4. RealmOK' /\ lastVersion' \in Nat /\ lastVersion' >= gen /\ (~UseRealm => lastVersion' = gen)
    <2> HIDE DEF gen
    <2>1. QED
      BY <1>1, <1>2, <1>3, RealmStepFacts DEF TypeInv
  <1>5. p \in PollType /\ (~UseRealm /\ poll.version <= lastVersion => p.version <= gen)
    <2>1. CASE created
      <3>1. PollAfter(gen, gen, keyOk, key) \in PollType
            /\ (~UseRealm => PollAfter(gen, gen, keyOk, key).version = gen)
        <4> HIDE DEF gen
        <4>1. QED
          BY <1>2, <1>3, PollFacts DEF TypeInv, PollOK
      <3>2. p = PollAfter(gen, gen, keyOk, key)
        BY <2>1
      <3> HIDE DEF gen, p
      <3>3. QED
        BY <1>3, <3>1, <3>2
    <2>2. CASE ~created
      BY <1>3, <2>2
    <2>3. QED
      BY <2>1, <2>2
  <1>6. version \in Nat /\ values \in [Accessors -> Nat]
    <2>1. version \in Nat
      <3> HIDE DEF p
      <3>1. QED
        BY <1>5 DEF PollType
    <2>2. values \in [Accessors -> Nat]
      BY <1>3 DEF NoValue
    <2>3. QED
      BY <2>1, <2>2
  <1>7. \A b \in {a} : \E faulty \in BOOLEAN : entries[b] = Data(version, values[b], faulty)
    <2>1. p.forceFaulty \in BOOLEAN
      <3> HIDE DEF p
      <3>1. QED
        BY <1>5 DEF PollType
    <2> HIDE DEF p, value, version
    <2>2. QED
      BY <2>1
  <1>8. QueuesOK
    BY DEF TypeInv, TypeOK, QueuesOK
  <1>9. QueuesOK' /\ Delivered({a}, version, values)
    <2> HIDE DEF version, values, entries
    <2>1. QED
      BY <1>1, <1>6, <1>7, <1>8, SendDelivers
  <1>10. error' \in BOOLEAN /\ sending' \in BOOLEAN /\ asyncActive' \in BOOLEAN
    BY <1>1, Zenon DEF SetExceptionUnless
  <1> HIDE DEF p, gen, created, value
  <1>11. QED
    BY <1>1, <1>3, <1>4, <1>5, <1>9, <1>10 DEF version, values, value, PollOK

LEMMA TypeStep ==
  ASSUME TypeInv, [Next]_vars
  PROVE  TypeInv'
  <1> USE DEF backendVars, accessorVars
  <1>1. CASE UNCHANGED vars
    BY <1>1 DEF vars, TypeInv, TypeOK, RealmOK, Realm!HistoryHasNoGaps
  <1>2. CASE Next
    <2> SUFFICES ASSUME ~logicError, UNCHANGED backend
                 PROVE  TypeInv'
      BY <1>2 DEF Next
    <2>1. ASSUME UNCHANGED realm PROVE RealmOK'
      BY <2>1 DEF TypeInv, RealmOK, Realm!HistoryHasNoGaps
    <2> DEFINE Others == /\ RealmOK' /\ PollOK' /\ QueuesOK' /\ lastVersion' \in Nat
                         /\ source' \in MessageType /\ logicError' \in BOOLEAN
                         /\ error' \in BOOLEAN /\ sending' \in BOOLEAN /\ asyncActive' \in BOOLEAN
    <2>0. ASSUME Others,
                 hw' \in Nat, inFlight' \in Seq(MessageType), opened' \in BOOLEAN,
                 activating' \in BOOLEAN, initial' \in MessageType,
                 domain' \in [active : BOOLEAN, notDistributed : MessageType, activationVersion : Nat],
                 subscribed' \in SUBSET Accessors, received' \in [Accessors -> Entry]
          PROVE  TypeInv'
      <3>1. realm' \in [latestKey : Nat, history : Seq(Nat)]
        BY <2>0, DomainAssumption DEF RealmOK
      <3>2. QED
        BY <2>0, <3>1 DEF TypeInv, TypeOK, PollOK, PollType, QueuesOK
    <2>2. CASE Arrive
      <3>1. lastVersion' \in Nat /\ hw' \in Nat
        <4>1. CASE VersionFromData
          BY <2>2, <4>1 DEF Arrive, TypeInv, TypeOK
        <4>2. CASE ~VersionFromData
          BY <2>2, <4>2 DEF Arrive, TypeInv, TypeOK
        <4>3. QED
          BY <4>1, <4>2
      <3>2. Message(lastVersion', hw') \in MessageType
        BY <3>1 DEF Message, MessageType
      <3>3. inFlight' \in {Append(inFlight, Message(lastVersion', hw')), Append(inFlight, NoMessage)}
        BY <2>2 DEF Arrive
      <3>4. inFlight' \in Seq(MessageType)
        <4>1. inFlight \in Seq(MessageType)
          BY DEF TypeInv, TypeOK
        <4>2. \A m \in MessageType : Append(inFlight, m) \in Seq(MessageType)
          BY <4>1
        <4>3. QED
          BY <3>2, <3>3, <4>2, ConstantFacts
      <3>5. QED
        BY <2>1, <2>2, <3>1, <3>4 DEF Arrive, TypeInv, TypeOK
    <2>3. CASE ReportException
      BY <2>1, <2>3 DEF ReportException, SetExceptionUnless, TypeInv, TypeOK
    <2>4. CASE Open
      <3>1. opened' \in BOOLEAN /\ error' \in BOOLEAN
        BY <2>4, Zenon DEF Open
      <3>2. QED
        BY <2>1, <2>4, <3>1 DEF Open, TypeInv, TypeOK
    <2>5. CASE Close
      BY <2>1, <2>5 DEF Close, TypeInv, TypeOK
    <2>6. CASE ActivateAsyncRead
      BY <2>1, <2>6 DEF ActivateAsyncRead, TypeInv, TypeOK
    <2>7. CASE PollInitialValue
      BY <2>1, <2>7 DEF PollInitialValue, TypeInv, TypeOK, Message, MessageType
    <2>8. CASE DropMessage
      BY <2>1, <2>8, MessageFacts DEF DropMessage, TypeInv, TypeOK
    <2>9. CASE DistributeInactive
      BY <2>1, <2>9, MessageFacts DEF DistributeInactive, TypeInv, TypeOK
    <2>10. CASE DistributeOutdated
      BY <2>1, <2>10, MessageFacts DEF DistributeOutdated, TypeInv, TypeOK
    <2>11. ASSUME NEW ok \in PollOutcomes, NEW key \in KeysRead, Distribute(ok, key)
           PROVE  TypeInv'
      <3> DEFINE m == Message(VersionFor(Head(inFlight)), Head(inFlight).value)
                 gen == GeneratedFor(Head(inFlight))
      <3>1. SubDomainDistribute(m, gen, ok, key) /\ m \in MessageType /\ gen \in Nat
        BY <2>11, MessageFacts DEF Distribute, TypeInv
      <3>2. inFlight' \in Seq(MessageType)
        BY <2>11, MessageFacts DEF Distribute, TypeInv
      <3> HIDE DEF m, gen
      <3>3. Others
        BY <3>1, DistributeTypes
      <3> HIDE DEF Others
      <3>4. QED
        BY <2>0, <2>11, <3>2, <3>3 DEF Distribute, TypeInv, TypeOK
    <2>12. ASSUME NEW ok \in PollOutcomes, NEW key \in KeysRead, Activate(ok, key)
           PROVE  TypeInv'
      <3>1. /\ SubDomainDistribute(ActivationMessage, GeneratedFor(initial), ok, key)
            /\ ActivationMessage \in MessageType /\ GeneratedFor(initial) \in Nat
        BY <2>12, MessageFacts DEF Activate, TypeInv, TypeOK
      <3>2. ActivationMessage.version \in Nat
        BY <3>1 DEF MessageType
      <3>3. Others
        BY <3>1, DistributeTypes
      <3>4. activating' \in BOOLEAN /\ initial' \in MessageType
            /\ domain' \in [active : BOOLEAN, notDistributed : MessageType, activationVersion : Nat]
        BY <2>12, <3>2, ConstantFacts DEF Activate, TypeInv, TypeOK
      <3> HIDE DEF Others
      <3>5. QED
        BY <2>0, <2>12, <3>3, <3>4 DEF Activate, TypeInv, TypeOK
    <2>13. CASE ActivateWithoutEffect
      BY <2>1, <2>13, ConstantFacts DEF ActivateWithoutEffect, TypeInv, TypeOK
    <2>14. CASE SendException
      <3>1. \A a \in Accessors :
              /\ PushOverwrite(queue[a], ExceptionEntry, QueueSize) \in Seq(Entry)
              /\ Len(PushOverwrite(queue[a], ExceptionEntry, QueueSize)) <= QueueSize
        BY PushFacts, ConstantFacts DEF TypeInv, TypeOK
      <3>2. QueuesOK'
        BY <2>14, <3>1 DEF SendException, QueuesOK, TypeInv, TypeOK
      <3>3. QED
        BY <2>1, <2>14, <3>2 DEF SendException, QueuesOK, TypeInv, TypeOK
    <2>15. ASSUME NEW a \in Accessors, SubscribeInactive(a)
           PROVE  TypeInv'
      BY <2>1, <2>15 DEF SubscribeInactive, TypeInv, TypeOK
    <2>16. ASSUME NEW a \in Accessors, SubscribeVoid(a)
           PROVE  TypeInv'
      <3>1. lastVersion' \in Nat /\ source' \in MessageType
        BY <2>16 DEF SubscribeVoid, TypeInv, TypeOK, Message, MessageType, NoValue
      <3>2. QueuesOK' /\ logicError' \in BOOLEAN
        BY <2>16, SubscribeVoidSends DEF TypeInv, Delivered
      <3>3. QED
        BY <2>1, <2>16, <3>1, <3>2 DEF SubscribeVoid, TypeInv, TypeOK, QueuesOK
    <2>17. ASSUME NEW a \in Accessors, NEW keyOk \in ReadOutcomes, NEW ok \in ReadOutcomes,
                  NEW key \in KeysRead, SubscribePolled(a, keyOk, ok, key)
           PROVE  TypeInv'
      <3>1. Others
        BY <2>17, SubscribePolledSends DEF Delivered, SubscribePolled, TypeInv, TypeOK
      <3> HIDE DEF Others
      <3>2. QED
        BY <2>0, <2>17, <3>1 DEF SubscribePolled, TypeInv, TypeOK
    <2>18. ASSUME NEW a \in Accessors, Unsubscribe(a)
           PROVE  TypeInv'
      BY <2>1, <2>18, ConstantFacts, DomainAssumption
      DEF Unsubscribe, TypeInv, TypeOK, PollType, NullVersion
    <2>19. ASSUME NEW a \in Accessors, Read(a)
           PROVE  TypeInv'
      <3>1. queue[a] \in Seq(Entry) /\ queue[a] # <<>> /\ Len(queue[a]) <= QueueSize
        BY <2>19 DEF Read, TypeInv, TypeOK
      <3>2. Head(queue[a]) \in Entry /\ Tail(queue[a]) \in Seq(Entry) /\ Len(Tail(queue[a])) <= QueueSize
        BY <3>1, ReadFacts, DomainAssumption
      <3>3. QED
        BY <2>1, <2>19, <3>2 DEF Read, TypeInv, TypeOK
    <2>20. QED
      BY <1>2, <2>2, <2>3, <2>4, <2>5, <2>6, <2>7, <2>8, <2>9, <2>10, <2>11, <2>12, <2>13,
         <2>14, <2>15, <2>16, <2>17, <2>18, <2>19 DEF Next
  <1>3. QED
    BY <1>1, <1>2

\* The types of the domain, its queues and its accessors hold in every reachable
\* state: no step of DomainImpl leaves a queue longer than its size.
THEOREM TypesHold == Spec => []TypeInv
  <1>1. Init => TypeInv
    BY TypeInit
  <1>2. TypeInv /\ [Next]_vars => TypeInv'
    BY TypeStep
  <1>3. QED
    BY <1>1, <1>2, PTL DEF Spec

-----------------------------------------------------------------------------
(* The order of the distributions *)

\* The versions and values are numbers.
LEMMA Numbers ==
  ASSUME TypeOK
  PROVE  /\ lastVersion \in Nat /\ hw \in Nat
         /\ Messages \subseteq MessageType
         /\ \A m \in MessageType : m.version \in Nat /\ m.value \in Nat
         /\ domain.activationVersion \in Nat
         /\ poll.version \in Nat
         /\ \A a \in Accessors : lastSent[a] \in Nat
  <1>1. \A m \in MessageType : m.version \in Nat /\ m.value \in Nat
    BY DEF MessageType
  <1>2. inFlight \in Seq(MessageType)
    BY DEF TypeOK
  <1>3. InFlight \subseteq MessageType
    BY <1>2 DEF InFlight
  <1>4. /\ lastVersion \in Nat /\ hw \in Nat
        /\ source \in MessageType /\ initial \in MessageType
        /\ domain.notDistributed \in MessageType /\ domain.activationVersion \in Nat
        /\ poll.version \in Nat
        /\ \A a \in Accessors : lastSent[a] \in Nat
    BY DEF TypeOK
  <1>5. QED
    BY <1>1, <1>3, <1>4 DEF Messages

\* The kind of the backend decides what is polled, so this does not change.
LEMMA SameBackend ==
  ASSUME UNCHANGED backend
  PROVE  /\ VersionFromData' = VersionFromData
         /\ UseRealm' = UseRealm
         /\ PolledAccessors' = PolledAccessors
         /\ VoidAccessors' = VoidAccessors
BY DEF VersionFromData, UseRealm, PolledAccessors, VoidAccessors

LEMMA BackendKinds == VersionFromData => ~UseRealm
BY DEF UseRealm, VersionFromData

\* No message at all is older than every message.
LEMMA NoMessageFacts ==
  /\ NoMessage \in MessageType
  /\ NoMessage.version = 0 /\ NoMessage.value = 0
  /\ NullVersion = 0 /\ NoValue = 0
BY DEF NoMessage, Message, MessageType, NullVersion, NoValue

LEMMA OrderInit == Init => OrderInv
  <1> SUFFICES ASSUME Init PROVE OrderInv
    OBVIOUS
  <1>1. Messages = {NoMessage} /\ InFlight = {}
    BY DEF Init, Messages, InFlight, NewDomain
  <1>2. NothingIsLeft /\ InitialInv
    BY DEF Init, NothingIsLeft, InitialInv, NewDomain
  <1>3. VersionsGenerated
    BY <1>1, NoMessageFacts DEF Init, VersionsGenerated, NewDomain, NewPollDistributor
  <1>4. MessagesInv
    BY <1>1, NoMessageFacts DEF Init, MessagesInv, NewDomain
  <1>5. MessagesConsistent
    BY <1>1, NoMessageFacts DEF Init, MessagesConsistent, NotNewer
  <1>6. DistributionInOrder /\ NeverLogicError
    BY <1>1, NoMessageFacts DEF Init, DistributionInOrder, NeverLogicError, NewDomain
  <1>7. QED
    BY <1>2, <1>3, <1>4, <1>5, <1>6 DEF OrderInv

\* The messages stay consistent when one which is newer than all comes in.
LEMMA StaysConsistent ==
  ASSUME TypeOK, MessagesConsistent, MessagesInv, UNCHANGED backend, VersionFromData,
         NEW new \in MessageType, Messages' \subseteq Messages \cup {new, NoMessage},
         \A m \in Messages : m.version < new.version /\ m.value <= new.value
  PROVE  \A m, n \in Messages' : NotNewer(m, n)
  <1>1. \A m, n \in Messages : NotNewer(m, n)
    BY DEF MessagesConsistent
  <1>2. \A m \in Messages : /\ m \in MessageType
                            /\ NotNewer(m, new) /\ NotNewer(new, m)
                            /\ NotNewer(m, NoMessage) /\ NotNewer(NoMessage, m)
    BY Numbers, NoMessageFacts DEF MessagesInv, NotNewer
  <1>3. /\ NotNewer(new, NoMessage) /\ NotNewer(NoMessage, new)
        /\ NotNewer(new, new) /\ NotNewer(NoMessage, NoMessage)
    <2>1. source \in Messages /\ source \in MessageType
      BY DEF Messages, TypeOK
    <2>2. QED
      BY <2>1, Numbers, NoMessageFacts DEF NotNewer
  <1>4. QED
    BY <1>1, <1>2, <1>3

\* ... and when none comes in.
LEMMA StaysConsistentWithout ==
  ASSUME TypeOK, MessagesConsistent, MessagesInv, VersionFromData,
         Messages' \subseteq Messages \cup {NoMessage}
  PROVE  \A m, n \in Messages' : NotNewer(m, n)
  <1>1. \A m, n \in Messages : NotNewer(m, n)
    BY DEF MessagesConsistent
  <1>2. \A m \in Messages : NotNewer(m, NoMessage) /\ NotNewer(NoMessage, m)
    BY Numbers, NoMessageFacts DEF MessagesInv, NotNewer
  <1>3. NotNewer(NoMessage, NoMessage)
    BY NoMessageFacts DEF NotNewer
  <1>4. QED
    BY <1>1, <1>2, <1>3

LEMMA ArriveOrder ==
  ASSUME TypeOK, OrderInv, ~logicError, UNCHANGED backend, Arrive
  PROVE  OrderInv'
  <1> DEFINE new == IF VersionFromData THEN Message(lastVersion + 1, hw + 1) ELSE NoMessage
  <1>1. /\ hw' = hw + 1
        /\ inFlight' = Append(inFlight, new)
        /\ lastVersion' = IF VersionFromData THEN lastVersion + 1 ELSE lastVersion
        /\ UNCHANGED <<initial, domain, poll, source, subscribed, activating, lastSent, queue,
                       received, logicError>>
    BY DEF Arrive, accessorVars
  <1>2. /\ new \in MessageType
        /\ new.version <= lastVersion'
        /\ VersionFromData => new.version = lastVersion + 1 /\ new.value = hw + 1
        /\ ~VersionFromData => new = NoMessage
    BY <1>1, Numbers, NoMessageFacts DEF Message, MessageType
  <1>3. inFlight \in Seq(MessageType) /\ Len(inFlight) \in Nat
    BY DEF TypeOK
  <1> HIDE DEF new
  <1>4. /\ Len(inFlight') = Len(inFlight) + 1
        /\ inFlight'[Len(inFlight) + 1] = new
        /\ \A i \in 1 .. Len(inFlight) : inFlight'[i] = inFlight[i]
    BY <1>1, <1>2, <1>3
  <1>5. InFlight' = InFlight \cup {new} /\ Messages' = Messages \cup {new}
    BY <1>1, <1>3, <1>4 DEF InFlight, Messages
  <1>6. NothingIsLeft' /\ InitialInv'
    BY <1>1, SameBackend DEF OrderInv, NothingIsLeft, InitialInv, Void
  <1>7. VersionsGenerated'
    BY <1>1, <1>2, <1>5, Numbers, SameBackend DEF OrderInv, VersionsGenerated, Messages
  <1>8. MessagesInv'
    BY <1>1, <1>2, <1>5, Numbers, SameBackend, NoMessageFacts DEF OrderInv, MessagesInv
  <1>9. MessagesConsistent'
    <2> SUFFICES ASSUME VersionFromData PROVE MessagesConsistent'
      BY SameBackend DEF MessagesConsistent
    <2>1. \A m \in Messages : m.version < new.version /\ m.value <= new.value
      BY <1>2, Numbers, BackendKinds DEF OrderInv, VersionsGenerated, MessagesInv, Messages
    <2>2. \A m, n \in Messages' : NotNewer(m, n)
      BY <1>2, <1>5, <2>1, StaysConsistent DEF OrderInv
    <2>3. \A i \in 1 .. Len(inFlight) : inFlight[i] \in Messages
      BY DEF Messages, InFlight
    <2>4. \A i, j \in 1 .. Len(inFlight') : i <= j => inFlight'[i].version <= inFlight'[j].version
      <3> SUFFICES ASSUME NEW i \in 1 .. Len(inFlight'), NEW j \in 1 .. Len(inFlight'), i <= j
                   PROVE  inFlight'[i].version <= inFlight'[j].version
        OBVIOUS
      <3>1. CASE j \in 1 .. Len(inFlight)
        BY <1>3, <1>4, <3>1 DEF OrderInv, MessagesConsistent
      <3>2. CASE j = Len(inFlight) + 1 /\ i \in 1 .. Len(inFlight)
        BY <1>2, <1>4, <2>1, <2>3, <3>2, Numbers
      <3>3. CASE i = Len(inFlight) + 1 /\ j = Len(inFlight) + 1
        BY <1>2, <1>4, <3>3, Numbers
      <3>4. QED
        BY <1>3, <1>4, <3>1, <3>2, <3>3
    <2>5. QED
      BY <2>2, <2>4 DEF MessagesConsistent
  <1>10. DistributionInOrder'
    <2>1. VersionFromData => source.version <= new.version
      BY <1>2, Numbers, BackendKinds DEF OrderInv, VersionsGenerated, Messages
    <2>2. QED
      BY <1>1, <1>5, <2>1, SameBackend DEF OrderInv, DistributionInOrder
  <1>11. NeverLogicError'
    BY <1>1, SameBackend DEF OrderInv, NeverLogicError
  <1>12. QED
    BY <1>6, <1>7, <1>8, <1>9, <1>10, <1>11 DEF OrderInv

\* Steps which send nothing and leave the messages where they are.
LEMMA QuietOrder ==
  ASSUME TypeOK, OrderInv, UNCHANGED backend,
         \/ ReportException
         \/ Open
         \/ Close
         \/ ActivateAsyncRead
         \/ ActivateWithoutEffect
         \/ SendException
         \/ \E a \in Accessors : SubscribeInactive(a) \/ Read(a)
  PROVE  OrderInv'
  <1> USE SameBackend
  <1>1. /\ UNCHANGED <<hw, inFlight, poll, source, lastSent, logicError>>
        /\ lastVersion' \in {lastVersion, lastVersion + 1}
        /\ subscribed \subseteq subscribed' /\ subscribed' \subseteq Accessors
        /\ UNCHANGED subscribed \/ subscribed = {} \/ ~domain.active
        /\ \A a \in Accessors \ subscribed' : queue'[a] = queue[a] /\ received'[a] = received[a]
        /\ domain' \in {domain, [domain EXCEPT !.active = FALSE]}
        /\ domain' = domain \/ ~activating
        /\ \/ initial' = initial /\ (activating' \/ ~activating)
           \/ initial' = NoMessage
    BY Numbers
    DEF ReportException, Open, Close, ActivateAsyncRead, ActivateWithoutEffect, SendException,
        SubscribeInactive, Read, TypeOK, backendVars, accessorVars
  <1>2. Void \subseteq Void'
    BY <1>1 DEF Void
  <1>3. /\ domain'.notDistributed = domain.notDistributed
        /\ domain'.activationVersion = domain.activationVersion
        /\ domain'.active => domain.active
    BY <1>1 DEF TypeOK
  <1>4. InFlight' = InFlight /\ Messages' \subseteq Messages \cup {NoMessage}
    BY <1>1, <1>3 DEF Messages, InFlight
  <1>5. NothingIsLeft'
    BY <1>1, <1>2 DEF OrderInv, NothingIsLeft, TypeOK
  <1>6. InitialInv'
    BY <1>1 DEF OrderInv, InitialInv
  <1>7. VersionsGenerated'
    BY <1>1, <1>3, <1>4, Numbers, NoMessageFacts DEF OrderInv, VersionsGenerated, Messages
  <1>8. MessagesInv'
    BY <1>1, <1>3, <1>4, Numbers, NoMessageFacts DEF OrderInv, MessagesInv
  <1>9. MessagesConsistent'
    BY <1>1, <1>4, StaysConsistentWithout DEF OrderInv, MessagesConsistent
  <1>10. DistributionInOrder'
    <2> SUFFICES ASSUME VersionFromData PROVE DistributionInOrder'
      BY DEF DistributionInOrder
    <2>1. \A a \in subscribed' : lastSent'[a] <= source'.version
      <3>1. source.version \in Nat
        BY Numbers DEF Messages
      <3>2. QED
        BY <1>1, <3>1, NoMessageFacts DEF OrderInv, DistributionInOrder, NothingIsLeft
    <2>2. ~domain'.active /\ initial' # NoMessage => source'.version <= initial'.version
      BY <1>1 DEF OrderInv, DistributionInOrder, InitialInv
    <2>3. QED
      BY <1>1, <1>3, <1>4, <2>1, <2>2 DEF OrderInv, DistributionInOrder
  <1>11. NeverLogicError'
    BY <1>1 DEF OrderInv, NeverLogicError
  <1>12. QED
    BY <1>5, <1>6, <1>7, <1>8, <1>9, <1>10, <1>11 DEF OrderInv

\* Versions of the messages in flight never decrease.
InFlightInOrder == \A i, j \in 1 .. Len(inFlight) : i <= j => inFlight[i].version <= inFlight[j].version

\* The oldest message is taken.
LEMMA TakeFacts ==
  ASSUME TypeOK, inFlight # <<>>, inFlight' = Tail(inFlight)
  PROVE  /\ Head(inFlight) \in InFlight
         /\ InFlight' \subseteq InFlight
         /\ InFlightInOrder => /\ InFlightInOrder'
                               /\ \A m \in InFlight : Head(inFlight).version <= m.version
  <1>1. /\ Head(inFlight) = inFlight[1]
        /\ Len(inFlight) \in Nat \ {0}
        /\ Len(inFlight') = Len(inFlight) - 1
        /\ \A i \in 1 .. Len(inFlight') : inFlight'[i] = inFlight[i + 1]
    BY MessageFacts
  <1>2. \A i \in 1 .. Len(inFlight') : i + 1 \in 1 .. Len(inFlight)
    BY <1>1
  <1>3. Head(inFlight) \in InFlight /\ InFlight' \subseteq InFlight
    BY <1>1, <1>2 DEF InFlight
  <1>4. ASSUME InFlightInOrder
        PROVE  /\ InFlightInOrder'
               /\ \A m \in InFlight : Head(inFlight).version <= m.version
    <2>1. \A i \in 1 .. Len(inFlight) : inFlight[1].version <= inFlight[i].version
      BY <1>1, <1>4 DEF InFlightInOrder
    <2>2. InFlightInOrder'
      BY <1>1, <1>2, <1>4 DEF InFlightInOrder
    <2>3. QED
      BY <1>1, <2>1, <2>2 DEF InFlight
  <1>5. QED
    BY <1>3, <1>4

LEMMA PollInitialOrder ==
  ASSUME TypeOK, OrderInv, UNCHANGED backend, PollInitialValue
  PROVE  OrderInv'
  <1> USE SameBackend
  <1>1. /\ VersionFromData /\ activating
        /\ lastVersion' = lastVersion + 1
        /\ initial' = Message(lastVersion', hw)
        /\ UNCHANGED <<hw, inFlight, activating, domain, poll, source, subscribed, lastSent,
                       queue, received, logicError>>
    BY DEF PollInitialValue, accessorVars
  <1>2. /\ initial' \in MessageType
        /\ initial'.version = lastVersion + 1 /\ initial'.value = hw
    BY <1>1, Numbers DEF Message, MessageType
  <1>3. InFlight' = InFlight /\ Messages' \subseteq Messages \cup {initial', NoMessage}
    BY <1>1 DEF Messages, InFlight
  <1>4. \A m \in Messages : m.version < initial'.version /\ m.value <= initial'.value
    BY <1>1, <1>2, Numbers, BackendKinds DEF OrderInv, VersionsGenerated, MessagesInv, Messages
  <1>5. NothingIsLeft'
    BY <1>1 DEF OrderInv, NothingIsLeft, Void
  <1>6. InitialInv'
    BY <1>1, <1>2, Numbers DEF InitialInv
  <1>7. VersionsGenerated'
    BY <1>1, <1>2, <1>3, Numbers DEF OrderInv, VersionsGenerated, Messages
  <1>8. MessagesInv'
    BY <1>1, <1>2, <1>3, Numbers, NoMessageFacts DEF OrderInv, MessagesInv
  <1>9. MessagesConsistent'
    <2>1. \A m, n \in Messages' : NotNewer(m, n)
      BY <1>1, <1>2, <1>3, <1>4, StaysConsistent DEF OrderInv
    <2>2. QED
      BY <1>1, <2>1 DEF OrderInv, MessagesConsistent
  <1>10. DistributionInOrder'
    <2>1. source.version <= initial'.version
      BY <1>2, <1>4, Numbers DEF Messages
    <2>2. QED
      BY <1>1, <1>3, <2>1 DEF OrderInv, DistributionInOrder
  <1>11. NeverLogicError'
    BY <1>1 DEF OrderInv, NeverLogicError
  <1>12. QED
    BY <1>5, <1>6, <1>7, <1>8, <1>9, <1>10, <1>11 DEF OrderInv

\* The domain takes a message without handing it to the distributors.
LEMMA TakeOrder ==
  ASSUME TypeOK, OrderInv, UNCHANGED backend, DropMessage \/ DistributeInactive \/ DistributeOutdated
  PROVE  OrderInv'
  <1> USE SameBackend
  <1> DEFINE m == Head(inFlight)
             stored == Message(VersionFor(m), m.value)
  <1>1. /\ inFlight # <<>> /\ inFlight' = Tail(inFlight)
        /\ UNCHANGED <<hw, activating, initial, poll, source, subscribed, lastSent, queue,
                       received, logicError>>
        /\ \/ UNCHANGED <<lastVersion, domain>>
           \/ /\ lastVersion' = GeneratedFor(m)
              /\ ~domain.active
              /\ domain' = [domain EXCEPT !.notDistributed = stored]
    BY DEF DropMessage, DistributeInactive, DistributeOutdated, accessorVars
  <1>2. /\ m \in InFlight /\ m \in MessageType
        /\ InFlight' \subseteq InFlight
        /\ InFlightInOrder => InFlightInOrder'
    BY <1>1, TakeFacts, MessageFacts
  <1>3. VersionFromData => stored = m /\ VersionFor(m) = m.version
    <2>1. VersionFromData => m.version > 0
      BY <1>2, NoMessageFacts DEF OrderInv, MessagesInv
    <2>2. m = [version |-> m.version, value |-> m.value]
      BY <1>2 DEF MessageType
    <2>3. QED
      BY <2>1, <2>2, NoMessageFacts DEF VersionFor, Message
  <1>4. /\ stored \in MessageType
        /\ stored.version = VersionFor(m) /\ stored.value = m.value
        /\ VersionFor(m) \in Nat
    BY <1>2, MessageFacts, Numbers DEF Message, MessageType, VersionFor
  <1>5. /\ lastVersion' \in Nat /\ lastVersion' >= lastVersion
        /\ lastVersion' = lastVersion \/ VersionFor(m) <= lastVersion'
        /\ m.version <= lastVersion
    BY <1>1, <1>2, Numbers DEF GeneratedFor, VersionFor, OrderInv, VersionsGenerated
  <1> HIDE DEF stored, m
  <1>6. /\ domain'.notDistributed \in {domain.notDistributed, stored}
        /\ domain'.activationVersion = domain.activationVersion
        /\ domain'.active = domain.active
        /\ \/ domain'.notDistributed = domain.notDistributed
           \/ lastVersion' = GeneratedFor(m) /\ domain'.notDistributed = stored
    BY <1>1 DEF TypeOK, m, stored
  <1>7. VersionFromData => Messages' \subseteq Messages
    BY <1>1, <1>2, <1>3, <1>6 DEF Messages
  <1>8. NothingIsLeft'
    BY <1>1, <1>6 DEF OrderInv, NothingIsLeft, Void
  <1>9. InitialInv'
    BY <1>1 DEF OrderInv, InitialInv
  <1>10. VersionsGenerated'
    <2>1. stored.version <= lastVersion' \/ domain'.notDistributed = domain.notDistributed
      BY <1>2, <1>4, <1>5, <1>6, Numbers DEF GeneratedFor, VersionFor
    <2>2. \A n \in {initial, domain.notDistributed} \cup InFlight : n.version <= lastVersion'
      BY <1>5, Numbers DEF OrderInv, VersionsGenerated, Messages
    <2>3. \A n \in {initial', domain'.notDistributed} \cup InFlight' : n.version <= lastVersion'
      BY <1>1, <1>2, <1>6, <2>1, <2>2
    <2>4. /\ domain'.activationVersion <= lastVersion'
          /\ ~UseRealm => /\ source'.version <= lastVersion'
                          /\ poll'.version <= lastVersion'
                          /\ \A a \in Accessors : lastSent'[a] <= lastVersion'
      BY <1>1, <1>5, <1>6, Numbers DEF OrderInv, VersionsGenerated, Messages
    <2>5. QED
      BY <2>3, <2>4 DEF VersionsGenerated
  <1>11. MessagesInv'
    <2>1. CASE VersionFromData
      BY <1>1, <1>2, <1>7, <2>1 DEF OrderInv, MessagesInv
    <2>2. CASE ~VersionFromData
      BY <1>1, <1>2, <1>4, <1>6, <2>2, NoMessageFacts DEF OrderInv, MessagesInv
    <2>3. QED
      BY <2>1, <2>2
  <1>12. MessagesConsistent'
    BY <1>2, <1>7 DEF OrderInv, MessagesConsistent, InFlightInOrder
  <1>13. DistributionInOrder'
    BY <1>1, <1>2, <1>6 DEF OrderInv, DistributionInOrder
  <1>14. NeverLogicError'
    BY <1>1 DEF OrderInv, NeverLogicError
  <1>15. QED
    BY <1>8, <1>9, <1>10, <1>11, <1>12, <1>13, <1>14 DEF OrderInv

\* In a domain of a backend with versions in its data nothing is polled.
LEMMA VoidFacts ==
  ASSUME TypeOK
  PROVE  /\ VersionFromData => Polled = {} /\ Void = subscribed
         /\ subscribed = Polled \cup Void
         /\ Void \subseteq subscribed
         /\ subscribed \subseteq Accessors
BY DEF TypeOK, Polled, Void, PolledAccessors, VoidAccessors

\* The distributors get the message m: it is not older than all which was
\* sent, and the messages which are still in flight are not older than it.
DistributedInOrder(m, gen, ok, version) ==
  /\ Distributed(m, gen, ok, version)
  /\ lastVersion <= gen /\ m.version <= gen
  /\ VersionFromData => m \in Messages /\ source.version <= m.version
  /\ ~VersionFromData => m.value = NoValue /\ lastVersion < m.version
  /\ InFlight' \subseteq InFlight
  /\ InFlightInOrder => InFlightInOrder'
  /\ initial' \in {initial, NoMessage}
  /\ initial' # NoMessage => activating'
  /\ domain'.active
  /\ domain'.notDistributed = domain.notDistributed
  /\ domain'.activationVersion <= m.version
  /\ VersionFromData => \A n \in InFlight' :
       domain'.activationVersion <= n.version => m.version <= n.version
  /\ subscribed # {}
  /\ UNCHANGED <<hw, subscribed, received>>

LEMMA DistributionOrder ==
  ASSUME TypeInv, TypeInv', OrderInv, ~logicError, UNCHANGED backend,
         NEW m \in MessageType, NEW gen \in Nat, NEW ok \in BOOLEAN, NEW version \in Nat,
         DistributedInOrder(m, gen, ok, version)
  PROVE  OrderInv'
  <1> USE DEF DistributedInOrder
  <1> TypeOK /\ TypeOK'
    BY DEF TypeInv
  <1> DEFINE S == IF ok THEN subscribed ELSE Void
  <1>1. /\ poll'.version = IF Polled = {} THEN poll.version ELSE version
        /\ source' = IF Void = {} THEN source ELSE Message(version, m.value)
        /\ lastVersion' >= gen
        /\ ~UseRealm => version = m.version /\ lastVersion' = gen
        /\ Delivered(S, version, Values(m.value))
    BY DEF Distributed
  <1>2. /\ UNCHANGED <<backend, hw, subscribed>>
        /\ S \subseteq subscribed /\ Void \subseteq S
        /\ Void' = Void
        /\ m.version \in Nat /\ m.value \in Nat
    BY SameBackend, VoidFacts, Numbers DEF Void
  <1>3. /\ logicError' => \E a \in S : lastSent[a] > version
        /\ \A a \in S : ~logicError' => lastSent'[a] = version
        /\ \A a \in Accessors : lastSent'[a] \in {lastSent[a], version}
        /\ \A a \in Accessors \ S : lastSent'[a] = lastSent[a] /\ queue'[a] = queue[a]
    BY <1>1, <1>2, VoidFacts DEF Delivered, Pushed, Untouched
  <1>4. ~UseRealm => \A a \in subscribed : lastSent[a] <= m.version
    <2>1. CASE VersionFromData
      <3>1. source.version \in Nat
        BY Numbers DEF Messages
      <3>2. QED
        BY <1>2, <2>1, <3>1, Numbers, VoidFacts DEF OrderInv, DistributionInOrder
    <2>2. CASE ~VersionFromData
      BY <1>2, <2>2, Numbers, VoidFacts DEF OrderInv, VersionsGenerated
    <2>3. QED
      BY <2>1, <2>2
  <1>5. ~UseRealm => ~logicError'
    BY <1>1, <1>2, <1>3, <1>4, Numbers, VoidFacts
  <1>6. NothingIsLeft'
    <2>1. \A a \in Accessors \ subscribed :
            lastSent'[a] = NullVersion /\ queue'[a] = <<>> /\ received'[a] = Nothing
      BY <1>2, <1>3 DEF OrderInv, NothingIsLeft
    <2>2. QED
      BY <1>1, <1>2, <2>1 DEF OrderInv, NothingIsLeft
  <1>7. InitialInv'
    BY <1>2, SameBackend DEF OrderInv, InitialInv
  <1>8. source'.version \in {source.version, version} /\ source'.value \in {source.value, m.value}
    BY <1>1 DEF Message
  <1>9. VersionsGenerated'
    <2>1. lastVersion' \in Nat /\ lastVersion <= lastVersion' /\ m.version <= lastVersion'
      <3>1. lastVersion' \in Nat
        BY DEF TypeOK
      <3>2. QED
        BY <1>1, <1>2, <3>1, Numbers
    <2>2. \A n \in {initial', domain'.notDistributed} \cup InFlight' : n.version <= lastVersion'
      BY <2>1, Numbers, NoMessageFacts DEF OrderInv, VersionsGenerated, Messages
    <2>3. domain'.activationVersion <= lastVersion' /\ domain'.activationVersion \in Nat
      <3>1. domain'.activationVersion \in Nat
        BY DEF TypeOK
      <3>2. QED
        BY <1>2, <2>1, <3>1
    <2>4. ASSUME ~UseRealm
          PROVE  /\ source'.version <= lastVersion'
                 /\ poll'.version <= lastVersion'
                 /\ \A a \in Accessors : lastSent'[a] <= lastVersion'
      <3>1. /\ version = m.version
            /\ source.version <= lastVersion /\ source.version \in Nat
            /\ poll.version <= lastVersion /\ poll.version \in Nat
            /\ \A a \in Accessors : lastSent[a] <= lastVersion /\ lastSent[a] \in Nat
        BY <1>1, <2>4, Numbers DEF OrderInv, VersionsGenerated, Messages
      <3>2. QED
        BY <1>1, <1>2, <1>3, <1>8, <2>1, <3>1, Numbers
    <2>5. QED
      BY <1>2, <2>2, <2>3, <2>4, SameBackend DEF VersionsGenerated
  <1>10. VersionFromData => source' = m
    <2>1. m = [version |-> m.version, value |-> m.value]
      BY DEF MessageType
    <2>2. QED
      BY <1>1, <2>1, VoidFacts, BackendKinds DEF Message
  <1>11. VersionFromData => Messages' \subseteq Messages \cup {NoMessage}
    BY <1>10 DEF Messages
  <1>12. MessagesInv'
    <2>1. CASE VersionFromData
      BY <1>2, <1>11, <2>1, SameBackend, Numbers, NoMessageFacts DEF OrderInv, MessagesInv
    <2>2. CASE ~VersionFromData
      BY <1>2, <1>8, <2>2, SameBackend DEF OrderInv, MessagesInv
    <2>3. QED
      BY <2>1, <2>2
  <1>13. MessagesConsistent'
    BY <1>2, <1>11, SameBackend, StaysConsistentWithout
    DEF OrderInv, MessagesConsistent, InFlightInOrder
  <1>14. DistributionInOrder'
    <2> SUFFICES ASSUME VersionFromData PROVE DistributionInOrder'
      BY <1>2, SameBackend DEF DistributionInOrder
    <2>1. S = subscribed /\ ~logicError' /\ source' = m /\ version = m.version
      BY <1>1, <1>5, <1>10, VoidFacts, BackendKinds
    <2>2. \A a \in subscribed' : lastSent'[a] <= source'.version
      BY <1>2, <1>3, <2>1
    <2>3. QED
      BY <2>1, <2>2 DEF DistributionInOrder
  <1>15. NeverLogicError'
    BY <1>2, <1>5, SameBackend DEF NeverLogicError
  <1>16. QED
    BY <1>6, <1>7, <1>9, <1>12, <1>13, <1>14, <1>15 DEF OrderInv

\* The message comes from the queue.
LEMMA DistributeInOrder ==
  ASSUME TypeInv, OrderInv, ~logicError, NEW ok \in PollOutcomes, NEW key \in KeysRead,
         Distribute(ok, key)
  PROVE  /\ ok \in BOOLEAN
         /\ \E m \in MessageType, gen \in Nat, version \in Nat :
              /\ DistributedInOrder(m, gen, ok, version)
              /\ VersionFromData => m = Head(inFlight)
  <1> TypeOK
    BY DEF TypeInv
  <1> DEFINE head == Head(inFlight)
             m == Message(VersionFor(head), head.value)
             gen == GeneratedFor(head)
  <1>1. /\ inFlight # <<>> /\ inFlight' = Tail(inFlight)
        /\ subscribed # {} /\ domain.active
        /\ VersionFor(head) >= domain.activationVersion
        /\ SubDomainDistribute(m, gen, ok, key)
        /\ UNCHANGED <<hw, activating, initial, domain, subscribed, received>>
    BY DEF Distribute
  <1>2. /\ head \in InFlight /\ head \in MessageType
        /\ InFlight' \subseteq InFlight
        /\ InFlightInOrder => InFlightInOrder' /\ \A n \in InFlight : head.version <= n.version
        /\ m \in MessageType /\ gen \in Nat /\ gen >= lastVersion
    BY <1>1, TakeFacts, MessageFacts
  <1>3. m.version = VersionFor(head) /\ m.value = head.value
    BY DEF Message
  <1>4. VersionFromData => m = head
    <2>1. VersionFromData => head.version > 0
      BY <1>2, NoMessageFacts DEF OrderInv, MessagesInv
    <2>2. head = [version |-> head.version, value |-> head.value]
      BY <1>2 DEF MessageType
    <2>3. QED
      BY <2>1, <2>2, NoMessageFacts DEF VersionFor, Message
  <1>5. ~VersionFromData => m.value = NoValue /\ m.version = lastVersion + 1 /\ gen = lastVersion + 1
    BY <1>2, <1>3, NoMessageFacts DEF OrderInv, MessagesInv, VersionFor, GeneratedFor
  <1>6. m.version <= gen
    BY <1>2, <1>3, Numbers DEF VersionFor, GeneratedFor, OrderInv, VersionsGenerated
  <1>7. VersionFromData => source.version <= m.version /\ m \in Messages
    BY <1>1, <1>2, <1>3, <1>4 DEF OrderInv, DistributionInOrder, Messages
  <1>8. VersionFromData => \A n \in InFlight' : m.version <= n.version
    BY <1>2, <1>4 DEF OrderInv, MessagesConsistent, InFlightInOrder
  <1> HIDE DEF m, gen, head
  <1>9. ok \in BOOLEAN
    BY DEF PollOutcomes, ReadOutcomes
  <1>10. PICK version \in Nat : Distributed(m, gen, ok, version)
    BY <1>1, <1>2, DistributeTypes
  <1>11. initial' # NoMessage => activating'
    BY <1>1 DEF OrderInv, InitialInv
  <1>12. /\ lastVersion <= gen
         /\ domain'.activationVersion <= m.version
         /\ ~VersionFromData => lastVersion < m.version
    BY <1>1, <1>2, <1>3, <1>5, Numbers DEF VersionFor
  <1>13. DistributedInOrder(m, gen, ok, version)
    BY <1>1, <1>2, <1>5, <1>6, <1>7, <1>8, <1>10, <1>11, <1>12 DEF DistributedInOrder
  <1>14. VersionFromData => m = Head(inFlight)
    BY <1>4 DEF head
  <1>15. QED
    BY <1>2, <1>9, <1>13, <1>14

\* The message is the initial value, or the stored message.
LEMMA ActivateInOrder ==
  ASSUME TypeInv, OrderInv, ~logicError, NEW ok \in PollOutcomes, NEW key \in KeysRead,
         Activate(ok, key)
  PROVE  /\ ok \in BOOLEAN
         /\ \E m \in MessageType, gen \in Nat, version \in Nat :
              /\ DistributedInOrder(m, gen, ok, version)
              /\ VersionFromData =>
                   /\ m \in {initial, domain.notDistributed}
                   /\ \A n \in {initial, domain.notDistributed} : n.version <= m.version
  <1> TypeOK
    BY DEF TypeInv
  <1> DEFINE first == Message(VersionFor(initial), initial.value)
             m == ActivationMessage
             gen == GeneratedFor(initial)
  <1>1. /\ VersionFromData => initial # NoMessage
        /\ subscribed # {} /\ ~domain.active
        /\ activating' = FALSE /\ initial' = NoMessage
        /\ domain' = [domain EXCEPT !.active = TRUE, !.activationVersion = m.version]
        /\ SubDomainDistribute(m, gen, ok, key)
        /\ UNCHANGED <<hw, inFlight, subscribed, received>>
    BY DEF Activate
  <1>2. /\ domain'.active
        /\ domain'.notDistributed = domain.notDistributed
        /\ domain'.activationVersion = m.version
        /\ InFlight' = InFlight /\ (InFlightInOrder => InFlightInOrder')
    BY <1>1 DEF TypeOK, InFlight, InFlightInOrder
  <1>3. /\ m \in MessageType /\ gen \in Nat /\ gen >= lastVersion
        /\ initial \in MessageType /\ domain.notDistributed \in MessageType
        /\ initial.version \in Nat /\ domain.notDistributed.version \in Nat
    BY MessageFacts, Numbers DEF TypeOK
  <1>4. first.version = VersionFor(initial) /\ first.value = initial.value
    BY DEF Message
  <1>5. m = IF VersionFor(initial) >= domain.notDistributed.version THEN first ELSE domain.notDistributed
    BY DEF ActivationMessage
  <1>6. VersionFromData => first = initial /\ VersionFor(initial) = initial.version
    <2>1. VersionFromData => initial.version > 0
      BY <1>1 DEF OrderInv, InitialInv
    <2>2. initial = [version |-> initial.version, value |-> initial.value]
      BY <1>3 DEF MessageType
    <2>3. QED
      BY <2>1, <2>2, NoMessageFacts DEF VersionFor, Message
  <1>7. ~VersionFromData => initial = NoMessage
    BY DEF OrderInv, InitialInv
  <1>8. VersionFor(initial) \in Nat /\ VersionFor(initial) <= gen
    BY <1>3, Numbers DEF VersionFor, GeneratedFor, OrderInv, VersionsGenerated
  <1> HIDE DEF m, gen, first
  <1>9. VersionFromData => m \in Messages /\ initial.version <= m.version /\ source.version <= m.version
    <2>1. VersionFromData => m \in Messages /\ initial.version <= m.version
      BY <1>3, <1>5, <1>6 DEF Messages
    <2>2. VersionFromData => source.version <= initial.version
      BY <1>1 DEF OrderInv, DistributionInOrder
    <2>3. QED
      BY <1>3, <2>1, <2>2, Numbers DEF Messages
  <1>10. ~VersionFromData => m.value = NoValue /\ lastVersion < m.version
    BY <1>3, <1>4, <1>5, <1>7, Numbers, NoMessageFacts DEF OrderInv, MessagesInv, VersionsGenerated, VersionFor
  <1>11. m.version <= gen
    BY <1>3, <1>4, <1>5, <1>8, Numbers DEF OrderInv, VersionsGenerated
  <1>12. ok \in BOOLEAN
    BY DEF PollOutcomes, ReadOutcomes
  <1>13. PICK version \in Nat : Distributed(m, gen, ok, version)
    BY <1>1, <1>3, DistributeTypes
  <1>14. lastVersion <= gen /\ domain'.activationVersion <= m.version
    BY <1>2, <1>3, Numbers
  <1>15. VersionFromData => \A n \in InFlight' :
           domain'.activationVersion <= n.version => m.version <= n.version
    BY <1>2
  <1>16. DistributedInOrder(m, gen, ok, version)
    BY <1>1, <1>2, <1>9, <1>10, <1>11, <1>13, <1>14, <1>15 DEF DistributedInOrder
  <1>17. VersionFromData =>
           /\ m \in {initial, domain.notDistributed}
           /\ \A n \in {initial, domain.notDistributed} : n.version <= m.version
    BY <1>3, <1>5, <1>6
  <1>18. QED
    BY <1>3, <1>12, <1>16, <1>17

\* One more accessor gets its first entry.
LEMMA SubscribeVoidOrder ==
  ASSUME TypeInv, TypeInv', OrderInv, ~logicError, UNCHANGED backend,
         NEW a \in Accessors, SubscribeVoid(a)
  PROVE  OrderInv'
  <1> TypeOK /\ TypeOK'
    BY DEF TypeInv
  <1> USE SameBackend
  <1>1. /\ a \notin subscribed /\ a \in VoidAccessors
        /\ subscribed # {} /\ domain.active
        /\ subscribed' = subscribed \cup {a}
        /\ lastVersion' = IF Void = {} THEN lastVersion + 1 ELSE lastVersion
        /\ source' = IF Void = {} THEN Message(lastVersion', NoValue) ELSE source
        /\ UNCHANGED <<hw, inFlight, activating, initial, domain, poll, received>>
    BY DEF SubscribeVoid
  <1>2. Delivered({a}, source'.version, [b \in Accessors |-> source'.value])
    BY SubscribeVoidSends
  <1>3. /\ lastSent[a] = 0
        /\ source'.version \in Nat /\ lastVersion' \in Nat /\ lastVersion' >= lastVersion
    BY <1>1, Numbers, NoMessageFacts DEF OrderInv, NothingIsLeft, Message, Messages
  <1>4. /\ ~logicError'
        /\ lastSent'[a] = source'.version
        /\ \A b \in Accessors \ {a} : lastSent'[b] = lastSent[b] /\ queue'[b] = queue[b]
    BY <1>2, <1>3 DEF Delivered, Pushed, Untouched
  <1>5. a \in Void'
    BY <1>1 DEF Void
  <1>6. VersionFromData => source' = source /\ Messages' = Messages
    BY <1>1, VoidFacts DEF Messages, InFlight
  <1>7. InFlight' = InFlight
    BY <1>1 DEF InFlight
  <1>8. \/ source' = source
        \/ source'.version = lastVersion' /\ source'.value = NoValue
    BY <1>1 DEF Message
  <1>9. NothingIsLeft'
    BY <1>1, <1>4, <1>5 DEF OrderInv, NothingIsLeft
  <1>10. InitialInv'
    BY <1>1 DEF OrderInv, InitialInv
  <1>11. VersionsGenerated'
    <2>1. \A n \in {initial, domain.notDistributed} \cup InFlight : n.version <= lastVersion'
      BY <1>3, Numbers DEF OrderInv, VersionsGenerated, Messages
    <2>2. domain.activationVersion <= lastVersion'
      BY <1>3, Numbers DEF OrderInv, VersionsGenerated
    <2>3. ~UseRealm => /\ source'.version <= lastVersion'
                       /\ poll.version <= lastVersion'
                       /\ \A b \in Accessors : lastSent'[b] <= lastVersion'
      BY <1>3, <1>4, <1>8, Numbers DEF OrderInv, VersionsGenerated, Messages
    <2>4. QED
      BY <1>1, <1>7, <2>1, <2>2, <2>3 DEF VersionsGenerated
  <1>12. MessagesInv'
    <2>1. CASE VersionFromData
      BY <1>1, <1>6, <1>7, <2>1 DEF OrderInv, MessagesInv
    <2>2. CASE ~VersionFromData
      BY <1>1, <1>7, <1>8, <2>2 DEF OrderInv, MessagesInv
    <2>3. QED
      BY <2>1, <2>2
  <1>13. MessagesConsistent'
    BY <1>1, <1>6 DEF OrderInv, MessagesConsistent
  <1>14. DistributionInOrder'
    <2> SUFFICES ASSUME VersionFromData PROVE DistributionInOrder'
      BY DEF DistributionInOrder
    <2>1. \A b \in subscribed' : lastSent'[b] <= source'.version
      BY <1>1, <1>3, <1>4, <1>6, VoidFacts DEF OrderInv, DistributionInOrder
    <2>2. QED
      BY <1>1, <1>6, <1>7, <2>1 DEF OrderInv, DistributionInOrder
  <1>15. NeverLogicError'
    BY <1>4 DEF NeverLogicError
  <1>16. QED
    BY <1>9, <1>10, <1>11, <1>12, <1>13, <1>14, <1>15 DEF OrderInv

LEMMA SubscribePolledOrder ==
  ASSUME TypeInv, TypeInv', OrderInv, ~logicError, UNCHANGED backend,
         NEW a \in Accessors, NEW keyOk \in ReadOutcomes, NEW ok \in ReadOutcomes,
         NEW key \in KeysRead, SubscribePolled(a, keyOk, ok, key)
  PROVE  OrderInv'
  <1> TypeOK /\ TypeOK'
    BY DEF TypeInv
  <1> USE SameBackend
  <1>1. /\ a \notin subscribed /\ a \in PolledAccessors
        /\ subscribed # {}
        /\ subscribed' = subscribed \cup {a}
        /\ UNCHANGED <<hw, inFlight, activating, initial, domain, source, received>>
    BY DEF SubscribePolled
  <1>2. ~VersionFromData
    BY <1>1 DEF PolledAccessors
  <1>3. /\ lastVersion' \in Nat /\ lastVersion' >= lastVersion
        /\ ~UseRealm /\ poll.version <= lastVersion => poll'.version <= lastVersion'
        /\ Delivered({a}, poll'.version, [b \in Accessors |-> IF ok THEN hw ELSE NoValue])
    BY SubscribePolledSends
  <1>4. lastSent[a] = 0 /\ poll'.version \in Nat
    BY <1>1, NoMessageFacts DEF OrderInv, NothingIsLeft, TypeOK
  <1>5. /\ ~logicError'
        /\ lastSent'[a] = poll'.version
        /\ \A b \in Accessors \ {a} : lastSent'[b] = lastSent[b] /\ queue'[b] = queue[b]
    BY <1>3, <1>4 DEF Delivered, Pushed, Untouched
  <1>6. /\ InFlight' = InFlight
        /\ Void \subseteq Void'
    BY <1>1 DEF InFlight, Void
  <1>7. NothingIsLeft'
    BY <1>1, <1>5, <1>6 DEF OrderInv, NothingIsLeft
  <1>8. InitialInv'
    BY <1>1 DEF OrderInv, InitialInv
  <1>9. VersionsGenerated'
    <2>1. \A n \in {initial, domain.notDistributed} \cup InFlight : n.version <= lastVersion'
      BY <1>3, Numbers DEF OrderInv, VersionsGenerated, Messages
    <2>2. domain.activationVersion <= lastVersion'
      BY <1>3, Numbers DEF OrderInv, VersionsGenerated
    <2>3. ~UseRealm => /\ source.version <= lastVersion'
                       /\ poll'.version <= lastVersion'
                       /\ \A b \in Accessors : lastSent'[b] <= lastVersion'
      BY <1>3, <1>5, Numbers DEF OrderInv, VersionsGenerated, Messages
    <2>4. QED
      BY <1>1, <1>6, <2>1, <2>2, <2>3 DEF VersionsGenerated
  <1>10. MessagesInv' /\ MessagesConsistent' /\ DistributionInOrder'
    BY <1>1, <1>2, <1>6 DEF OrderInv, MessagesInv, MessagesConsistent, DistributionInOrder
  <1>11. NeverLogicError'
    BY <1>5 DEF NeverLogicError
  <1>12. QED
    BY <1>7, <1>8, <1>9, <1>10, <1>11 DEF OrderInv

LEMMA UnsubscribeOrder ==
  ASSUME TypeOK, OrderInv, UNCHANGED backend, NEW a \in Accessors, Unsubscribe(a)
  PROVE  OrderInv'
  <1> USE SameBackend
  <1> DEFINE rest == subscribed \ {a}
  <1>1. /\ subscribed' = rest /\ rest \subseteq Accessors
        /\ domain' = IF rest = {} THEN NewDomain ELSE domain
        /\ poll' = IF rest \cap PolledAccessors = {} THEN NewPollDistributor ELSE poll
        /\ source' = IF rest \cap VoidAccessors = {} THEN NoMessage ELSE source
        /\ lastSent'[a] = NullVersion /\ queue'[a] = <<>> /\ received'[a] = Nothing
        /\ \A b \in Accessors \ {a} :
             lastSent'[b] = lastSent[b] /\ queue'[b] = queue[b] /\ received'[b] = received[b]
        /\ UNCHANGED <<lastVersion, hw, inFlight, activating, initial, logicError>>
    BY DEF Unsubscribe, TypeOK
  <1>2. /\ NewDomain.active = FALSE /\ NewDomain.notDistributed = NoMessage
        /\ NewDomain.activationVersion = 0
        /\ NewPollDistributor.version = 0
    BY NoMessageFacts DEF NewDomain, NewPollDistributor
  <1>3. InFlight' = InFlight /\ Messages' \subseteq Messages \cup {NoMessage}
    BY <1>1, <1>2 DEF InFlight, Messages
  <1>4. Void' = rest \cap VoidAccessors
    BY <1>1 DEF Void
  <1>5. NothingIsLeft'
    BY <1>1, <1>2, <1>4 DEF OrderInv, NothingIsLeft
  <1>6. InitialInv'
    BY <1>1 DEF OrderInv, InitialInv
  <1>7. VersionsGenerated'
    <2>1. /\ \A n \in {initial', domain'.notDistributed} \cup InFlight' : n.version <= lastVersion'
          /\ domain'.activationVersion <= lastVersion'
      BY <1>1, <1>2, <1>3, Numbers, NoMessageFacts DEF OrderInv, VersionsGenerated
    <2>2. ~UseRealm => /\ source'.version <= lastVersion'
                       /\ poll'.version <= lastVersion'
                       /\ \A b \in Accessors : lastSent'[b] <= lastVersion'
      BY <1>1, <1>2, Numbers, NoMessageFacts DEF OrderInv, VersionsGenerated
    <2>3. QED
      BY <2>1, <2>2 DEF VersionsGenerated
  <1>8. MessagesInv'
    BY <1>1, <1>2, <1>3, Numbers, NoMessageFacts DEF OrderInv, MessagesInv
  <1>9. MessagesConsistent'
    BY <1>1, <1>3, StaysConsistentWithout DEF OrderInv, MessagesConsistent
  <1>10. DistributionInOrder'
    <2> SUFFICES ASSUME VersionFromData PROVE DistributionInOrder'
      BY DEF DistributionInOrder
    <2>1. rest \cap VoidAccessors = rest
      BY <1>1 DEF VoidAccessors, PolledAccessors
    <2>2. initial.version \in Nat
      BY Numbers DEF Messages
    <2>3. QED
      BY <1>1, <1>2, <1>3, <2>1, <2>2, NoMessageFacts DEF OrderInv, DistributionInOrder, NothingIsLeft
  <1>11. NeverLogicError'
    BY <1>1 DEF OrderInv, NeverLogicError
  <1>12. QED
    BY <1>5, <1>6, <1>7, <1>8, <1>9, <1>10, <1>11 DEF OrderInv

LEMMA OrderStep ==
  ASSUME TypeInv, TypeInv', OrderInv, [Next]_vars
  PROVE  OrderInv'
  <1> TypeOK /\ TypeOK'
    BY DEF TypeInv
  <1>1. CASE UNCHANGED vars
    BY <1>1, SameBackend
    DEF vars, OrderInv, NothingIsLeft, InitialInv, VersionsGenerated, MessagesInv, MessagesConsistent,
        DistributionInOrder, NeverLogicError, Messages, InFlight, NotNewer, Void
  <1>2. CASE Next
    <2> SUFFICES ASSUME ~logicError, UNCHANGED backend
                 PROVE  OrderInv'
      BY <1>2 DEF Next
    <2>1. CASE Arrive
      BY <2>1, ArriveOrder
    <2>2. CASE PollInitialValue
      BY <2>2, PollInitialOrder
    <2>3. CASE \/ ReportException \/ Open \/ Close \/ ActivateAsyncRead
               \/ ActivateWithoutEffect \/ SendException
               \/ \E a \in Accessors : SubscribeInactive(a) \/ Read(a)
      BY <2>3, QuietOrder
    <2>4. CASE DropMessage \/ DistributeInactive \/ DistributeOutdated
      BY <2>4, TakeOrder
    <2>5. ASSUME NEW ok \in PollOutcomes, NEW key \in KeysRead, Distribute(ok, key)
          PROVE  OrderInv'
      BY <2>5, DistributeInOrder, DistributionOrder
    <2>6. ASSUME NEW ok \in PollOutcomes, NEW key \in KeysRead, Activate(ok, key)
          PROVE  OrderInv'
      BY <2>6, ActivateInOrder, DistributionOrder
    <2>7. ASSUME NEW a \in Accessors, SubscribeVoid(a)
          PROVE  OrderInv'
      BY <2>7, SubscribeVoidOrder
    <2>8. ASSUME NEW a \in Accessors, NEW keyOk \in ReadOutcomes, NEW ok \in ReadOutcomes,
                 NEW key \in KeysRead, SubscribePolled(a, keyOk, ok, key)
          PROVE  OrderInv'
      BY <2>8, SubscribePolledOrder
    <2>9. ASSUME NEW a \in Accessors, Unsubscribe(a)
          PROVE  OrderInv'
      BY <2>9, UnsubscribeOrder
    <2>10. QED
      BY <1>2, <2>1, <2>2, <2>3, <2>4, <2>5, <2>6, <2>7, <2>8, <2>9 DEF Next
  <1>3. QED
    BY <1>1, <1>2

(***************************************************************************)
(* The versions in the queues of the accessors, in the stored message and  *)
(* on the way from the backend are in the order in which DomainImpl and    *)
(* AsyncVariableImpl::send() need them, in every reachable state.          *)
(***************************************************************************)
THEOREM OrderHolds == Spec => []OrderInv
  <1>1. Init => OrderInv
    BY OrderInit
  <1>2. TypeInv /\ TypeInv' /\ OrderInv /\ [Next]_vars => OrderInv'
    BY OrderStep
  <1>3. QED
    BY <1>1, <1>2, TypesHold, PTL DEF Spec

(***************************************************************************)
(* Without a realm, AsyncVariableImpl::send() never finds a decreased      *)
(* version, whatever order initial values, messages, activations and       *)
(* subscriptions come in.                                                  *)
(***************************************************************************)
THEOREM SendNeverThrows == Spec => []NeverLogicError
  <1>1. OrderInv => NeverLogicError
    BY DEF OrderInv
  <1>2. QED
    BY <1>1, OrderHolds, PTL

-----------------------------------------------------------------------------
(* The order of the entries *)

LEMMA EntryFacts ==
  /\ \A e \in Entry : e.version \in Nat /\ e.value \in Nat
  /\ Nothing \in Entry /\ Nothing.kind # "data"
  /\ ExceptionEntry \in Entry /\ ExceptionEntry.kind # "data"
BY DEF Entry, Nothing, ExceptionEntry, NullVersion, NoValue

\* An accessor which is not subscribed has no stream.
LEMMA FreshStream ==
  ASSUME NEW version \in Nat, NEW value \in Nat
  PROVE  StreamOK(Nothing, <<>>, version, value)
BY EntryFacts DEF StreamOK, Ordered, UpTo

\* What the newest entry may be grows.
LEMMA WiderStream ==
  ASSUME NEW e \in Entry, NEW q \in Seq(Entry),
         NEW v \in Nat, NEW w \in Nat, NEW version \in Nat, NEW value \in Nat,
         StreamOK(e, q, v, w), v <= version, w <= value
  PROVE  StreamOK(e, q, version, value)
  <1>1. \A x \in Entry : UpTo(x, v, w) => UpTo(x, version, value)
    BY EntryFacts DEF UpTo
  <1>2. \A i \in 1 .. Len(q) : q[i] \in Entry
    OBVIOUS
  <1>3. QED
    BY <1>1, <1>2 DEF StreamOK

\* An entry which is not older than the newest one comes in, and may replace it.
LEMMA PushStream ==
  ASSUME NEW e \in Entry, NEW q \in Seq(Entry), Len(q) <= QueueSize,
         NEW v \in Nat, NEW w \in Nat, NEW version \in Nat, NEW value \in Nat,
         StreamOK(e, q, v, w), v <= version, w <= value,
         NEW new \in Entry,
         new.kind = "data" => v <= new.version /\ w <= new.value
                              /\ new.version <= version /\ new.value <= value
  PROVE  StreamOK(e, PushOverwrite(q, new, QueueSize), version, value)
  <1> DEFINE r == PushOverwrite(q, new, QueueSize)
  <1>1. /\ r \in Seq(Entry) /\ Len(r) \in Nat /\ Len(q) \in Nat
        /\ r[Len(r)] = new
        /\ \A i \in 1 .. (Len(r) - 1) : i \in 1 .. Len(q) /\ r[i] = q[i]
    <2>1. /\ r \in Seq(Entry) /\ r[Len(r)] = new
          /\ \A i \in 1 .. (Len(r) - 1) : i <= Len(q) /\ r[i] = q[i]
      BY PushFacts
    <2> HIDE DEF r
    <2>2. QED
      BY <2>1
  <1>2. \A x \in Entry : UpTo(x, v, w) => UpTo(x, version, value) /\ Ordered(x, new)
    BY EntryFacts DEF UpTo, Ordered
  <1>3. UpTo(new, version, value)
    BY DEF UpTo
  <1>4. \A i \in 1 .. Len(q) : q[i] \in Entry
    OBVIOUS
  <1> HIDE DEF r
  <1>5. \A i \in 1 .. Len(r) : Ordered(e, r[i]) /\ UpTo(r[i], version, value)
    <2> SUFFICES ASSUME NEW i \in 1 .. Len(r)
                 PROVE  Ordered(e, r[i]) /\ UpTo(r[i], version, value)
      OBVIOUS
    <2>1. CASE i = Len(r)
      BY <1>1, <1>2, <1>3, <2>1 DEF StreamOK
    <2>2. CASE i # Len(r)
      BY <1>1, <1>2, <1>4, <2>2 DEF StreamOK
    <2>3. QED
      BY <2>1, <2>2
  <1>6. \A i, j \in 1 .. Len(r) : i < j => Ordered(r[i], r[j])
    <2> SUFFICES ASSUME NEW i \in 1 .. Len(r), NEW j \in 1 .. Len(r), i < j
                 PROVE  Ordered(r[i], r[j])
      OBVIOUS
    <2>1. i \in 1 .. (Len(r) - 1)
      BY <1>1
    <2>2. i \in 1 .. Len(q) /\ r[i] = q[i]
      BY <1>1, <2>1
    <2>3. CASE j = Len(r)
      BY <1>1, <1>2, <1>4, <2>2, <2>3 DEF StreamOK
    <2>4. CASE j # Len(r)
      BY <1>1, <2>2, <2>4 DEF StreamOK
    <2>5. QED
      BY <2>3, <2>4
  <1>7. QED
    BY <1>2, <1>5, <1>6 DEF StreamOK, r

\* The application reads the oldest entry.
LEMMA ReadStream ==
  ASSUME NEW e \in Entry, NEW q \in Seq(Entry), q # <<>>, NEW v \in Nat, NEW w \in Nat,
         StreamOK(e, q, v, w)
  PROVE  StreamOK(Head(q), Tail(q), v, w)
  <1> DEFINE t == Tail(q)
  <1>1. /\ Head(q) = q[1] /\ Len(t) = Len(q) - 1 /\ Len(q) \in Nat \ {0}
        /\ \A i \in 1 .. Len(t) : t[i] = q[i + 1]
    BY ReadFacts, EmptySeq
  <1>2. 1 \in 1 .. Len(q) /\ \A i \in 1 .. Len(t) : i + 1 \in 1 .. Len(q) /\ 1 < i + 1
    BY <1>1
  <1> HIDE DEF t
  <1>3. \A i, j \in 1 .. Len(t) : i < j => Ordered(t[i], t[j])
    BY <1>1, <1>2 DEF StreamOK
  <1>4. QED
    BY <1>1, <1>2, <1>3 DEF StreamOK, t

\* Types of one accessor.
LEMMA AccessorFacts ==
  ASSUME TypeOK
  PROVE  /\ \A a \in Accessors : /\ received[a] \in Entry
                                 /\ queue[a] \in Seq(Entry)
                                 /\ Len(queue[a]) <= QueueSize
                                 /\ lastSent[a] \in Nat
                                 /\ NewestValue(a) \in Nat
         /\ source.version \in Nat /\ source.value \in Nat
BY DEF TypeOK, NewestValue, MessageType

\* Accessors which get nothing: what they may have grows.
LEMMA UntouchedStream ==
  ASSUME TypeOK, TypeOK', StreamInv, NEW a \in Accessors,
         queue'[a] = queue[a], received'[a] = received[a], lastSent'[a] = lastSent[a],
         \/ NewestValue(a) <= NewestValue(a)'
         \/ queue[a] = <<>> /\ received[a] = Nothing
  PROVE  StreamOK(received'[a], queue'[a], lastSent'[a], NewestValue(a)')
  <1>1. NewestValue(a)' \in Nat /\ lastSent'[a] \in Nat
    BY DEF TypeOK, NewestValue, MessageType
  <1>2. CASE queue[a] = <<>> /\ received[a] = Nothing
    BY <1>1, <1>2, FreshStream
  <1>3. CASE NewestValue(a) <= NewestValue(a)'
    BY <1>1, <1>3, AccessorFacts, WiderStream DEF StreamInv
  <1>4. QED
    BY <1>2, <1>3

\* Accessors which get data: the version is not older (or send() throws).
LEMMA DeliveredStream ==
  ASSUME TypeOK, TypeOK', StreamInv, NEW a \in Accessors, NEW version \in Nat, NEW value \in Nat,
         lastSent[a] <= version, Pushed(a, version, value), received'[a] = received[a],
         \/ NewestValue(a) <= value
         \/ queue[a] = <<>> /\ received[a] = Nothing,
         value <= NewestValue(a)'
  PROVE  StreamOK(received'[a], queue'[a], lastSent'[a], NewestValue(a)')
  <1>1. PICK faulty \in BOOLEAN :
          /\ lastSent'[a] = version
          /\ queue'[a] = PushOverwrite(queue[a], Data(version, value, faulty), QueueSize)
    BY DEF Pushed
  <1> DEFINE new == Data(version, value, faulty)
  <1>2. new \in Entry /\ new.version = version /\ new.value = value
    BY DataIsEntry DEF Data
  <1>3. /\ NewestValue(a) \in Nat /\ lastSent[a] \in Nat
        /\ received[a] \in Entry /\ queue[a] \in Seq(Entry) /\ Len(queue[a]) <= QueueSize
        /\ NewestValue(a)' \in Nat
    <2>1. NewestValue(a)' \in Nat
      BY DEF TypeOK, NewestValue, MessageType
    <2>2. QED
      BY <2>1, AccessorFacts
  <1> HIDE DEF new
  <1>4. CASE NewestValue(a) <= value
    <2>1. PICK v \in Nat, w \in Nat, u \in Nat :
            v = lastSent[a] /\ w = NewestValue(a) /\ u = NewestValue(a)'
      BY <1>3
    <2>2. StreamOK(received[a], queue[a], v, w)
      BY <2>1 DEF StreamInv
    <2>3. /\ v <= version /\ w <= u
          /\ v <= new.version /\ w <= new.value /\ new.version <= version /\ new.value <= u
      BY <1>2, <1>4, <2>1
    <2>4. StreamOK(received[a], PushOverwrite(queue[a], new, QueueSize), version, u)
      BY <1>2, <1>3, <2>2, <2>3, PushStream
    <2>5. QED
      BY <1>1, <2>1, <2>4 DEF new
  <1>5. CASE queue[a] = <<>> /\ received[a] = Nothing
    <2>1. StreamOK(received[a], queue[a], lastSent[a], 0)
      BY <1>3, <1>5, FreshStream
    <2>2. StreamOK(received[a], PushOverwrite(queue[a], new, QueueSize), version, NewestValue(a)')
      BY <1>2, <1>3, <2>1, PushStream
    <2>3. QED
      BY <1>1, <2>2 DEF new
  <1>6. QED
    BY <1>4, <1>5

LEMMA StreamInit == Init => StreamInv
BY FreshStream, NoMessageFacts DEF Init, StreamInv, NewestValue

\* A distribution.
LEMMA DistributionStream ==
  ASSUME TypeInv, TypeInv', OrderInv, StreamInv, UNCHANGED backend,
         NEW m \in MessageType, NEW gen \in Nat, NEW ok \in BOOLEAN, NEW version \in Nat,
         DistributedInOrder(m, gen, ok, version)
  PROVE  StreamInv'
  <1> TypeOK /\ TypeOK'
    BY DEF TypeInv
  <1> DEFINE S == IF ok THEN subscribed ELSE Void
  <1>1. /\ source' = IF Void = {} THEN source ELSE Message(version, m.value)
        /\ Delivered(S, version, Values(m.value))
        /\ UNCHANGED <<hw, subscribed, received>>
        /\ S \subseteq subscribed /\ Void \subseteq S
    BY VoidFacts DEF DistributedInOrder, Distributed
  <1>2. source.value <= m.value
    BY Numbers DEF OrderInv, MessagesInv, MessagesConsistent, NotNewer, Messages, DistributedInOrder,
                   NoValue
  <1>3. /\ m.value \in Nat /\ source.value \in Nat /\ hw \in Nat
        /\ source'.value \in {source.value, m.value}
    BY <1>1, Numbers DEF Message, Messages
  <1> SUFFICES ASSUME NEW a \in Accessors
               PROVE  StreamOK(received'[a], queue'[a], lastSent'[a], NewestValue(a)')
    BY DEF StreamInv
  <1>4. CASE a \in S /\ ~logicError'
    <2>1. lastSent[a] <= version /\ Pushed(a, version, Values(m.value)[a])
      BY <1>1, <1>4 DEF Delivered
    <2>2. CASE a \in PolledAccessors
      <3>1. Values(m.value)[a] = hw /\ NewestValue(a) = hw /\ NewestValue(a)' = hw
        BY <1>1, <2>2, SameBackend DEF Values, NewestValue
      <3>2. Pushed(a, version, hw)
        BY <2>1, <3>1
      <3>3. NewestValue(a) <= hw /\ hw <= NewestValue(a)'
        BY <1>3, <3>1
      <3>4. QED
        BY <1>1, <1>3, <2>1, <3>2, <3>3, DeliveredStream
    <2>3. CASE a \notin PolledAccessors
      <3>1. Void # {}
        BY <1>1, <1>4, <2>3 DEF Void, VoidAccessors
      <3>2. source'.value = m.value
        BY <1>1, <3>1 DEF Message
      <3>3. Values(m.value)[a] = m.value /\ NewestValue(a) = source.value /\ NewestValue(a)' = m.value
        BY <2>3, <3>2, SameBackend DEF Values, NewestValue
      <3>4. Pushed(a, version, m.value)
        BY <2>1, <3>3
      <3>5. NewestValue(a) <= m.value /\ m.value <= NewestValue(a)'
        BY <1>2, <1>3, <3>3
      <3>6. QED
        BY <1>1, <1>3, <2>1, <3>4, <3>5, DeliveredStream
    <2>4. QED
      BY <2>2, <2>3
  <1>5. CASE ~(a \in S /\ ~logicError')
    <2>1. queue'[a] = queue[a] /\ received'[a] = received[a] /\ lastSent'[a] = lastSent[a]
      BY <1>1, <1>5 DEF Delivered, Untouched
    <2>2. NewestValue(a) <= NewestValue(a)'
      BY <1>1, <1>2, <1>3, SameBackend DEF NewestValue
    <2>3. QED
      BY <2>1, <2>2, UntouchedStream
  <1>6. QED
    BY <1>4, <1>5

\* Steps which change no queue.
LEMMA QuietStream ==
  ASSUME TypeInv, TypeInv', StreamInv, UNCHANGED <<backend, queue, received, lastSent, source>>,
         hw' = hw \/ hw' = hw + 1
  PROVE  StreamInv'
  <1> TypeOK /\ TypeOK'
    BY DEF TypeInv
  <1> SUFFICES ASSUME NEW a \in Accessors
               PROVE  StreamOK(received'[a], queue'[a], lastSent'[a], NewestValue(a)')
    BY DEF StreamInv
  <1>1. NewestValue(a) <= NewestValue(a)'
    BY SameBackend, Numbers DEF NewestValue, Messages
  <1>2. QED
    BY <1>1, UntouchedStream

\* The exception is no data.
LEMMA SendExceptionStream ==
  ASSUME TypeInv, TypeInv', StreamInv, UNCHANGED backend, SendException
  PROVE  StreamInv'
  <1> TypeOK /\ TypeOK'
    BY DEF TypeInv
  <1> SUFFICES ASSUME NEW a \in Accessors
               PROVE  StreamOK(received'[a], queue'[a], lastSent'[a], NewestValue(a)')
    BY DEF StreamInv
  <1>1. /\ received' = received /\ lastSent' = lastSent
        /\ NewestValue(a)' = NewestValue(a)
        /\ \/ queue'[a] = queue[a]
           \/ queue'[a] = PushOverwrite(queue[a], ExceptionEntry, QueueSize)
    BY SameBackend DEF SendException, NewestValue
  <1>2. StreamOK(received[a], queue[a], lastSent[a], NewestValue(a))
    BY DEF StreamInv
  <1>3. StreamOK(received[a], PushOverwrite(queue[a], ExceptionEntry, QueueSize), lastSent[a], NewestValue(a))
    <2>1. PICK v \in Nat, w \in Nat : v = lastSent[a] /\ w = NewestValue(a)
      BY AccessorFacts
    <2>2. v <= v /\ w <= w
      OBVIOUS
    <2>3. StreamOK(received[a], PushOverwrite(queue[a], ExceptionEntry, QueueSize), v, w)
      BY <1>2, <2>1, <2>2, AccessorFacts, EntryFacts, PushStream
    <2>4. QED
      BY <2>1, <2>3
  <1>4. QED
    BY <1>1, <1>2, <1>3

LEMMA ReadStep ==
  ASSUME TypeInv, TypeInv', StreamInv, UNCHANGED backend, NEW b \in Accessors, Read(b)
  PROVE  StreamInv'
  <1> TypeOK /\ TypeOK'
    BY DEF TypeInv
  <1> SUFFICES ASSUME NEW a \in Accessors
               PROVE  StreamOK(received'[a], queue'[a], lastSent'[a], NewestValue(a)')
    BY DEF StreamInv
  <1>1. /\ lastSent' = lastSent
        /\ NewestValue(a)' = NewestValue(a)
        /\ queue[b] # <<>>
        /\ IF a = b THEN received'[a] = Head(queue[a]) /\ queue'[a] = Tail(queue[a])
                    ELSE received'[a] = received[a] /\ queue'[a] = queue[a]
    BY SameBackend DEF Read, NewestValue, TypeOK
  <1>2. StreamOK(received[a], queue[a], lastSent[a], NewestValue(a))
    BY DEF StreamInv
  <1>3. CASE a = b
    <2>1. PICK v \in Nat, w \in Nat : v = lastSent[a] /\ w = NewestValue(a)
      BY AccessorFacts
    <2>2. StreamOK(Head(queue[a]), Tail(queue[a]), v, w)
      BY <1>1, <1>2, <1>3, <2>1, AccessorFacts, ReadStream
    <2>3. QED
      BY <1>1, <1>3, <2>1, <2>2
  <1>4. QED
    BY <1>1, <1>2, <1>3

\* An accessor which subscribes has a stream of its own.
LEMMA SubscribeStream ==
  ASSUME TypeInv, TypeInv', OrderInv, StreamInv, UNCHANGED <<backend, hw, received>>,
         NEW a \in Accessors \ subscribed, NEW version \in Nat, NEW value \in Nat,
         Delivered({a}, version, [b \in Accessors |-> value]),
         value <= NewestValue(a)',
         \A b \in subscribed : NewestValue(b)' = NewestValue(b)
  PROVE  StreamInv'
  <1> TypeOK /\ TypeOK'
    BY DEF TypeInv
  <1>1. \A b \in Accessors \ subscribed : queue[b] = <<>> /\ received[b] = Nothing
    BY DEF OrderInv, NothingIsLeft
  <1> SUFFICES ASSUME NEW b \in Accessors
               PROVE  StreamOK(received'[b], queue'[b], lastSent'[b], NewestValue(b)')
    BY DEF StreamInv
  <1>2. CASE b = a /\ ~logicError'
    <2>1. lastSent[a] <= version /\ Pushed(a, version, value)
      BY <1>2 DEF Delivered
    <2>2. QED
      BY <1>1, <1>2, <2>1, DeliveredStream
  <1>3. CASE ~(b = a /\ ~logicError')
    <2>1. queue'[b] = queue[b] /\ lastSent'[b] = lastSent[b] /\ received'[b] = received[b]
      BY <1>3 DEF Delivered, Untouched
    <2>2. CASE b \in subscribed
      <3>1. NewestValue(b) <= NewestValue(b)'
        BY <2>2, AccessorFacts
      <3>2. QED
        BY <2>1, <3>1, UntouchedStream
    <2>3. CASE b \notin subscribed
      BY <1>1, <2>1, <2>3, UntouchedStream
    <2>4. QED
      BY <2>2, <2>3
  <1>4. QED
    BY <1>2, <1>3

LEMMA SubscribeVoidStream ==
  ASSUME TypeInv, TypeInv', OrderInv, StreamInv, ~logicError, UNCHANGED backend,
         NEW a \in Accessors, SubscribeVoid(a)
  PROVE  StreamInv'
  <1> TypeOK /\ TypeOK'
    BY DEF TypeInv
  <1>1. /\ a \notin subscribed /\ a \notin PolledAccessors
        /\ source' = IF Void = {} THEN Message(lastVersion', NoValue) ELSE source
        /\ UNCHANGED <<hw, received>>
    BY DEF SubscribeVoid, VoidAccessors
  <1>2. source'.version \in Nat /\ source'.value \in Nat
    BY DEF TypeOK, MessageType
  <1>3. Delivered({a}, source'.version, [b \in Accessors |-> source'.value])
    BY SubscribeVoidSends
  <1>4. NewestValue(a)' = source'.value
    BY <1>1, SameBackend DEF NewestValue
  <1>5. \A b \in subscribed : NewestValue(b)' = NewestValue(b)
    <2> SUFFICES ASSUME NEW b \in subscribed PROVE NewestValue(b)' = NewestValue(b)
      OBVIOUS
    <2>1. CASE b \in PolledAccessors
      BY <1>1, <2>1, SameBackend DEF NewestValue
    <2>2. CASE b \notin PolledAccessors
      <3>1. Void # {}
        BY <2>2, VoidFacts DEF Void, VoidAccessors
      <3>2. QED
        BY <1>1, <2>2, <3>1, SameBackend DEF NewestValue
    <2>3. QED
      BY <2>1, <2>2
  <1>6. source'.value <= NewestValue(a)'
    BY <1>2, <1>4
  <1>7. QED
    BY <1>1, <1>2, <1>3, <1>5, <1>6, SubscribeStream

LEMMA SubscribePolledStream ==
  ASSUME TypeInv, TypeInv', OrderInv, StreamInv, ~logicError, UNCHANGED backend,
         NEW a \in Accessors, NEW keyOk \in ReadOutcomes, NEW ok \in ReadOutcomes,
         NEW key \in KeysRead, SubscribePolled(a, keyOk, ok, key)
  PROVE  StreamInv'
  <1> TypeOK /\ TypeOK'
    BY DEF TypeInv
  <1> DEFINE value == IF ok THEN hw ELSE NoValue
  <1>1. /\ a \notin subscribed /\ a \in PolledAccessors
        /\ UNCHANGED <<hw, source, received>>
    BY DEF SubscribePolled
  <1>2. poll'.version \in Nat /\ value \in Nat /\ value <= hw
    BY Numbers, NoMessageFacts DEF TypeOK
  <1>3. Delivered({a}, poll'.version, [b \in Accessors |-> value])
    BY SubscribePolledSends
  <1>4. \A b \in subscribed : NewestValue(b)' = NewestValue(b)
    BY <1>1, SameBackend DEF NewestValue
  <1>5. NewestValue(a)' = hw
    BY <1>1, SameBackend DEF NewestValue
  <1> HIDE DEF value
  <1>6. QED
    BY <1>1, <1>2, <1>3, <1>4, <1>5, SubscribeStream

LEMMA UnsubscribeStream ==
  ASSUME TypeInv, TypeInv', OrderInv, StreamInv, UNCHANGED backend,
         NEW a \in Accessors, Unsubscribe(a)
  PROVE  StreamInv'
  <1> TypeOK /\ TypeOK'
    BY DEF TypeInv
  <1> DEFINE rest == subscribed \ {a}
  <1>1. /\ source' = IF rest \cap VoidAccessors = {} THEN NoMessage ELSE source
        /\ queue'[a] = <<>> /\ received'[a] = Nothing
        /\ \A b \in Accessors \ {a} :
             lastSent'[b] = lastSent[b] /\ queue'[b] = queue[b] /\ received'[b] = received[b]
        /\ hw' = hw
    BY DEF Unsubscribe, TypeOK
  <1>2. \A b \in Accessors \ subscribed : queue[b] = <<>> /\ received[b] = Nothing
    BY DEF OrderInv, NothingIsLeft
  <1> SUFFICES ASSUME NEW b \in Accessors
               PROVE  StreamOK(received'[b], queue'[b], lastSent'[b], NewestValue(b)')
    BY DEF StreamInv
  <1>3. NewestValue(b)' \in Nat /\ lastSent'[b] \in Nat /\ NewestValue(b) \in Nat
    BY DEF TypeOK, NewestValue, MessageType
  <1>4. CASE b = a
    BY <1>1, <1>3, <1>4, FreshStream
  <1>5. CASE b # a /\ b \in rest
    <2>1. NewestValue(b)' = NewestValue(b)
      BY <1>1, <1>5, SameBackend DEF NewestValue, VoidAccessors
    <2>2. NewestValue(b) <= NewestValue(b)'
      BY <1>3, <2>1
    <2>3. QED
      BY <1>1, <1>5, <2>2, UntouchedStream
  <1>6. CASE b # a /\ b \notin rest
    BY <1>1, <1>2, <1>6, UntouchedStream
  <1>7. QED
    BY <1>4, <1>5, <1>6

LEMMA StreamStep ==
  ASSUME TypeInv, TypeInv', OrderInv, StreamInv, [Next]_vars
  PROVE  StreamInv'
  <1> TypeOK /\ TypeOK'
    BY DEF TypeInv
  <1>1. CASE UNCHANGED vars
    BY <1>1, QuietStream DEF vars
  <1>2. CASE Next
    <2> SUFFICES ASSUME ~logicError, UNCHANGED backend
                 PROVE  StreamInv'
      BY <1>2 DEF Next
    <2>1. CASE \/ Arrive \/ ReportException \/ Open \/ Close \/ ActivateAsyncRead
               \/ ActivateWithoutEffect \/ PollInitialValue \/ DropMessage
               \/ DistributeInactive \/ DistributeOutdated
               \/ \E a \in Accessors : SubscribeInactive(a)
      <3>1. UNCHANGED <<queue, received, lastSent, source>> /\ (hw' = hw \/ hw' = hw + 1)
        BY <2>1
        DEF Arrive, ReportException, Open, Close, ActivateAsyncRead, ActivateWithoutEffect,
            PollInitialValue, DropMessage, DistributeInactive, DistributeOutdated,
            SubscribeInactive, accessorVars
      <3>2. QED
        BY <3>1, QuietStream
    <2>2. ASSUME NEW ok \in PollOutcomes, NEW key \in KeysRead, Distribute(ok, key)
          PROVE  StreamInv'
      BY <2>2, DistributeInOrder, DistributionStream
    <2>3. ASSUME NEW ok \in PollOutcomes, NEW key \in KeysRead, Activate(ok, key)
          PROVE  StreamInv'
      BY <2>3, ActivateInOrder, DistributionStream
    <2>4. CASE SendException
      BY <2>4, SendExceptionStream
    <2>5. ASSUME NEW a \in Accessors, SubscribeVoid(a)
          PROVE  StreamInv'
      BY <2>5, SubscribeVoidStream
    <2>6. ASSUME NEW a \in Accessors, NEW keyOk \in ReadOutcomes, NEW ok \in ReadOutcomes,
                 NEW key \in KeysRead, SubscribePolled(a, keyOk, ok, key)
          PROVE  StreamInv'
      BY <2>6, SubscribePolledStream
    <2>7. ASSUME NEW a \in Accessors, Unsubscribe(a)
          PROVE  StreamInv'
      BY <2>7, UnsubscribeStream
    <2>8. ASSUME NEW a \in Accessors, Read(a)
          PROVE  StreamInv'
      BY <2>8, ReadStep
    <2>9. QED
      BY <1>2, <2>1, <2>2, <2>3, <2>4, <2>5, <2>6, <2>7, <2>8 DEF Next
  <1>3. QED
    BY <1>1, <1>2

LEMMA StreamHolds == Spec => []StreamInv
  <1>1. Init => StreamInv
    BY StreamInit
  <1>2. TypeInv /\ TypeInv' /\ OrderInv /\ StreamInv /\ [Next]_vars => StreamInv'
    BY StreamStep
  <1>3. QED
    BY <1>1, <1>2, TypesHold, OrderHolds, PTL DEF Spec

\* What the application has read is the first element of the stream.
LEMMA StreamElements ==
  ASSUME TypeOK, NEW a \in Accessors
  PROVE  /\ Len(Stream(a)) = Len(queue[a]) + 1
         /\ Len(queue[a]) \in Nat
         /\ Stream(a)[1] = received[a]
         /\ \A i \in 2 .. Len(Stream(a)) : Stream(a)[i] = queue[a][i - 1]
BY DEF TypeOK, Stream

LEMMA StreamsInOrder ==
  ASSUME TypeOK, StreamInv
  PROVE  StreamInOrder
  <1> SUFFICES ASSUME NEW a \in Accessors,
                      NEW i \in 1 .. Len(Stream(a)), NEW j \in 1 .. Len(Stream(a)),
                      i < j, Stream(a)[i].kind = "data", Stream(a)[j].kind = "data"
               PROVE  /\ Stream(a)[i].version <= Stream(a)[j].version
                      /\ Stream(a)[i].value <= Stream(a)[j].value
    BY DEF StreamInOrder
  <1>1. Ordered(Stream(a)[i], Stream(a)[j])
    <2>1. /\ Len(Stream(a)) = Len(queue[a]) + 1 /\ Len(queue[a]) \in Nat
          /\ Stream(a)[j] = queue[a][j - 1] /\ j - 1 \in 1 .. Len(queue[a])
      BY StreamElements
    <2>2. StreamOK(received[a], queue[a], lastSent[a], NewestValue(a))
      BY DEF StreamInv
    <2>3. CASE i = 1
      BY <2>1, <2>2, <2>3, StreamElements DEF StreamOK
    <2>4. CASE i # 1
      <3>1. Stream(a)[i] = queue[a][i - 1] /\ i - 1 \in 1 .. Len(queue[a]) /\ i - 1 < j - 1
        BY <2>1, <2>4, StreamElements
      <3>2. QED
        BY <2>1, <2>2, <3>1 DEF StreamOK
    <2>5. QED
      BY <2>3, <2>4
  <1>2. QED
    BY <1>1 DEF Ordered

(***************************************************************************)
(* A domain keeps its types and the bound of the queues, send() never      *)
(* finds a decreased version, and no accessor gets data with an older      *)
(* version or value than it has got before: the order in which             *)
(* DomainImpl::distribute() and activate() let messages pass.              *)
(***************************************************************************)
THEOREM DomainHolds == Spec => []DomainInv
  <1>1. TypeInv /\ OrderInv /\ StreamInv => DomainInv
    BY StreamsInOrder DEF TypeInv, OrderInv, DomainInv
  <1>2. QED
    BY <1>1, TypesHold, OrderHolds, StreamHolds, PTL

-----------------------------------------------------------------------------
(* The versions which one trigger sends *)

\* What was pushed is the newest entry.
LEMMA PushedIsNewest ==
  ASSUME TypeOK, NEW a \in Accessors, NEW e \in Entry,
         queue'[a] = PushOverwrite(queue[a], e, QueueSize)
  PROVE  queue'[a] # <<>> /\ queue'[a][Len(queue'[a])] = e /\ NewestEntry(a)' = e
  <1> DEFINE r == PushOverwrite(queue[a], e, QueueSize)
  <1>1. r # <<>> /\ r[Len(r)] = e /\ queue'[a] = r
    BY AccessorFacts, PushFacts
  <1> HIDE DEF r
  <1>2. QED
    BY <1>1 DEF NewestEntry

LEMMA DeliveredIsNewest ==
  ASSUME TypeOK, NEW S, NEW version \in Nat, NEW values \in [Accessors -> Nat],
         Delivered(S, version, values), NEW a \in Accessors, a \in S, ~logicError'
  PROVE  /\ NewestEntry(a)'.kind = "data"
         /\ NewestEntry(a)'.version = version
         /\ NewestEntry(a)'.value = values[a]
  <1>1. Pushed(a, version, values[a])
    BY DEF Delivered
  <1>2. PICK faulty \in BOOLEAN :
          queue'[a] = PushOverwrite(queue[a], Data(version, values[a], faulty), QueueSize)
    BY <1>1 DEF Pushed
  <1>3. Data(version, values[a], faulty) \in Entry
    BY DataIsEntry
  <1>4. NewestEntry(a)' = Data(version, values[a], faulty)
    BY <1>2, <1>3, PushedIsNewest
  <1>5. QED
    BY <1>1, <1>4 DEF Data

SameVersion ==
  \A a, b \in subscribed \cap subscribed' :
    queue'[a] # queue[a] /\ queue'[b] # queue[b] /\ received' = received
      => NewestEntry(a)'.version = NewestEntry(b)'.version

LEMMA SameVersionStep ==
  ASSUME TypeInv, OrderInv, Next
  PROVE  SameVersion
  <1> TypeOK /\ subscribed \subseteq Accessors /\ hw \in Nat
    BY DEF TypeInv, TypeOK
  <1> ~logicError /\ UNCHANGED backend
    BY DEF Next
  <1>1. CASE \/ Arrive \/ ReportException \/ Open \/ Close \/ ActivateAsyncRead
             \/ ActivateWithoutEffect \/ PollInitialValue \/ DropMessage
             \/ DistributeInactive \/ DistributeOutdated
             \/ \E a \in Accessors : SubscribeInactive(a)
    <2>1. queue' = queue
      BY <1>1
      DEF Arrive, ReportException, Open, Close, ActivateAsyncRead, ActivateWithoutEffect,
          PollInitialValue, DropMessage, DistributeInactive, DistributeOutdated,
          SubscribeInactive, accessorVars
    <2>2. QED
      BY <2>1 DEF SameVersion
  <1>2. ASSUME NEW m \in MessageType, NEW gen \in Nat, NEW ok \in BOOLEAN, NEW version \in Nat,
               DistributedInOrder(m, gen, ok, version)
        PROVE  SameVersion
    <2> DEFINE S == IF ok THEN subscribed ELSE Void
    <2>1. Delivered(S, version, Values(m.value))
      BY <1>2 DEF DistributedInOrder, Distributed
    <2>2. Values(m.value) \in [Accessors -> Nat]
      BY Numbers DEF Values
    <2> HIDE DEF S
    <2>3. \A a \in subscribed : queue'[a] # queue[a] => a \in S /\ ~logicError'
      BY <2>1 DEF Delivered, Untouched
    <2>4. \A a \in subscribed : queue'[a] # queue[a] => NewestEntry(a)'.version = version
      BY <2>1, <2>2, <2>3, DeliveredIsNewest
    <2>5. QED
      BY <2>4 DEF SameVersion
  <1>3. ASSUME NEW ok \in PollOutcomes, NEW key \in KeysRead, Distribute(ok, key) \/ Activate(ok, key)
        PROVE  SameVersion
    <2>1. /\ ok \in BOOLEAN
          /\ \E m \in MessageType, gen \in Nat, version \in Nat : DistributedInOrder(m, gen, ok, version)
      BY <1>3, DistributeInOrder, ActivateInOrder
    <2>2. QED
      BY <1>2, <2>1
  <1>4. CASE SendException
    <2>1. \A a \in Accessors : queue'[a] # queue[a]
            => queue'[a] = PushOverwrite(queue[a], ExceptionEntry, QueueSize)
      BY <1>4 DEF SendException, TypeOK
    <2>2. \A a \in Accessors : queue'[a] # queue[a] => NewestEntry(a)' = ExceptionEntry
      BY <2>1, EntryFacts, PushedIsNewest
    <2>3. QED
      BY <2>2 DEF SameVersion
  <1>5. ASSUME NEW a \in Accessors, SubscribeVoid(a)
        PROVE  SameVersion
    <2>1. \A b \in subscribed : queue'[b] = queue[b]
      BY <1>5, SubscribeVoidSends DEF Delivered, Untouched, SubscribeVoid
    <2>2. QED
      BY <2>1 DEF SameVersion
  <1>6. ASSUME NEW a \in Accessors, NEW keyOk \in ReadOutcomes, NEW ok \in ReadOutcomes,
               NEW key \in KeysRead, SubscribePolled(a, keyOk, ok, key)
        PROVE  SameVersion
    <2> DEFINE values == [b \in Accessors |-> IF ok THEN hw ELSE NoValue]
    <2>1. a \notin subscribed
      BY <1>6 DEF SubscribePolled
    <2>2. Delivered({a}, poll'.version, values)
      BY <1>6, SubscribePolledSends
    <2> HIDE DEF values
    <2>3. \A b \in subscribed : queue'[b] = queue[b]
      BY <2>1, <2>2 DEF Delivered, Untouched
    <2>4. QED
      BY <2>3 DEF SameVersion
  <1>7. ASSUME NEW a \in Accessors, Unsubscribe(a) \/ Read(a)
        PROVE  SameVersion
    <2>1. \A b \in Accessors : b # a => queue'[b] = queue[b]
      BY <1>7 DEF Unsubscribe, Read, TypeOK
    <2>2. QED
      BY <2>1 DEF SameVersion
  <1>8. QED
    BY <1>1, <1>3, <1>4, <1>5, <1>6, <1>7 DEF Next

(***************************************************************************)
(* Accessors which get data from the same trigger get the same version,    *)
(* polled or not: SubDomain::distribute() and activate() ask the poll      *)
(* distributor for the version first.                                      *)
(***************************************************************************)
THEOREM TriggersKeepVersions == Spec => SameTriggerSameVersion
  <1>1. TypeInv /\ OrderInv /\ [Next]_vars => [SameVersion]_vars
    BY SameVersionStep
  <1>2. SameTriggerSameVersion <=> [][SameVersion]_vars
    BY PTL DEF SameTriggerSameVersion, SameVersion
  <1>3. QED
    BY <1>1, <1>2, TypesHold, OrderHolds, PTL DEF Spec

-----------------------------------------------------------------------------
(* What each accessor sees *)

Phase(a) == IF a \notin subscribed THEN "none" ELSE IF domain.active THEN "on" ELSE "silent"

ViewStep(a) == [AccessorView(a)!Next]_(AccessorView(a)!vars)

LEMMA ViewInit ==
  ASSUME Init, NEW a \in Accessors
  PROVE  AccessorView(a)!Init
BY DEF Init, AccessorView!Init, AccessorView!Fresh, NullVersion, Nothing

LEMMA ViewStutters ==
  ASSUME NEW a \in Accessors, Untouched(a), received'[a] = received[a], Phase(a)' = Phase(a)
  PROVE  ViewStep(a)
BY DEF ViewStep, AccessorView!vars, Untouched, Phase

\* Data which is sent is data for the view.
LEMMA ViewOfData ==
  ASSUME TypeOK, NEW a \in Accessors, NEW version \in Nat, NEW value \in Nat,
         Pushed(a, version, value), lastSent[a] <= version
  PROVE  AccessorView(a)!PushesData
  <1>1. PICK faulty \in BOOLEAN :
          /\ lastSent'[a] = version
          /\ queue'[a] = PushOverwrite(queue[a], Data(version, value, faulty), QueueSize)
    BY DEF Pushed
  <1> DEFINE e == Data(version, value, faulty)
  <1>2. e \in Entry /\ e.kind = "data" /\ e.version = version
    BY DataIsEntry DEF Data
  <1> HIDE DEF e
  <1>3. queue'[a] # <<>> /\ queue'[a][Len(queue'[a])] = e
    BY <1>1, <1>2, PushedIsNewest DEF e
  <1>4. queue'[a] = PushOverwrite(queue[a], queue'[a][Len(queue'[a])], QueueSize)
    BY <1>1, <1>3 DEF e
  <1>5. lastSent'[a] >= lastSent[a]
    BY <1>1, AccessorFacts
  <1>6. QED
    BY <1>1, <1>2, <1>3, <1>4, <1>5
    DEF AccessorView!PushesData, AccessorView!Newest, AccessorView!PushOverwrite, PushOverwrite

\* A distribution starts the stream of an accessor, or publishes data.
LEMMA ViewOfDistribution ==
  ASSUME TypeInv, NEW a \in Accessors,
         NEW m \in MessageType, NEW gen \in Nat, NEW ok \in BOOLEAN, NEW version \in Nat,
         DistributedInOrder(m, gen, ok, version)
  PROVE  ViewStep(a)
  <1> TypeOK
    BY DEF TypeInv
  <1> DEFINE S == IF ok THEN subscribed ELSE Void
  <1>1. /\ Delivered(S, version, Values(m.value))
        /\ S \subseteq subscribed
        /\ domain'.active
        /\ UNCHANGED <<subscribed, received>>
    BY VoidFacts DEF DistributedInOrder, Distributed
  <1>2. Values(m.value)[a] \in Nat
    BY Numbers DEF Values
  <1> HIDE DEF S
  <1>3. CASE a \in S /\ ~logicError'
    <2>1. AccessorView(a)!PushesData
      BY <1>1, <1>2, <1>3, ViewOfData DEF Delivered
    <2>2. QED
      BY <1>1, <1>3, <2>1 DEF ViewStep, AccessorView!Next, AccessorView!Start, AccessorView!Publish
  <1>4. CASE ~(a \in S /\ ~logicError')
    <2>1. Untouched(a)
      BY <1>1, <1>4 DEF Delivered
    <2>2. CASE Phase(a)' = Phase(a)
      BY <1>1, <2>1, <2>2, ViewStutters
    <2>3. CASE Phase(a)' # Phase(a)
      <3>1. a \in subscribed /\ ~domain.active
        BY <1>1, <2>3 DEF Phase
      <3>2. QED
        BY <1>1, <2>1, <3>1
        DEF ViewStep, AccessorView!Next, AccessorView!Start, Untouched
    <2>4. QED
      BY <2>2, <2>3
  <1>5. QED
    BY <1>3, <1>4

\* An exception ends the active period, and so does close().
LEMMA ViewOfEnd ==
  ASSUME TypeInv, NEW a \in Accessors, SendException \/ Close
  PROVE  ViewStep(a)
  <1> TypeOK
    BY DEF TypeInv
  <1>1. /\ UNCHANGED <<subscribed, received, lastSent>>
        /\ domain'.active = FALSE
        /\ \/ UNCHANGED queue
           \/ queue' = [b \in Accessors |->
                IF b \in subscribed /\ domain.active
                THEN PushOverwrite(queue[b], ExceptionEntry, QueueSize) ELSE queue[b]]
    BY DEF SendException, Close, TypeOK, accessorVars
  <1>2. CASE a \notin subscribed \/ ~domain.active
    <2>1. Untouched(a) /\ received'[a] = received[a] /\ Phase(a)' = Phase(a)
      BY <1>1, <1>2 DEF Untouched, Phase
    <2>2. QED
      BY <2>1, ViewStutters
  <1>3. CASE a \in subscribed /\ domain.active /\ UNCHANGED queue
    BY <1>1, <1>3 DEF ViewStep, AccessorView!Next, AccessorView!Stop
  <1>4. CASE a \in subscribed /\ domain.active
             /\ queue'[a] = PushOverwrite(queue[a], ExceptionEntry, QueueSize)
    <2>1. queue'[a] # <<>> /\ queue'[a][Len(queue'[a])] = ExceptionEntry
      BY <1>4, EntryFacts, PushedIsNewest
    <2>2. queue'[a] = PushOverwrite(queue[a], queue'[a][Len(queue'[a])], QueueSize)
      BY <1>4, <2>1
    <2>3. AccessorView(a)!PushesException
      BY <1>1, <2>1, <2>2
      DEF AccessorView!PushesException, AccessorView!Newest, AccessorView!PushOverwrite, PushOverwrite,
          ExceptionEntry
    <2>4. QED
      BY <1>1, <1>4, <2>3 DEF ViewStep, AccessorView!Next, AccessorView!Fail
  <1>5. QED
    BY <1>1, <1>2, <1>3, <1>4

\* A subscription in an active domain starts with data.
LEMMA ViewOfSubscription ==
  ASSUME TypeInv, OrderInv, ~logicError, NEW a \in Accessors, NEW b \in Accessors \ subscribed,
         NEW version \in Nat, NEW value \in Nat,
         Delivered({b}, version, [c \in Accessors |-> value]),
         domain.active, UNCHANGED <<domain, received>>, subscribed' = subscribed \cup {b}
  PROVE  ViewStep(a)
  <1> TypeOK
    BY DEF TypeInv
  <1>1. lastSent[b] = 0
    BY NoMessageFacts DEF OrderInv, NothingIsLeft
  <1>2. ~logicError'
    BY <1>1 DEF Delivered
  <1>3. CASE a = b
    <2>1. lastSent[a] <= version /\ Pushed(a, version, value)
      BY <1>2, <1>3 DEF Delivered
    <2>2. AccessorView(a)!PushesData
      BY <2>1, ViewOfData
    <2>3. QED
      BY <1>3, <2>2 DEF ViewStep, AccessorView!Next, AccessorView!Subscribe
  <1>4. CASE a # b
    <2>1. Untouched(a) /\ received'[a] = received[a] /\ Phase(a)' = Phase(a)
      BY <1>4 DEF Delivered, Phase
    <2>2. QED
      BY <2>1, ViewStutters
  <1>5. QED
    BY <1>3, <1>4

LEMMA ViewOfSubscribeInactive ==
  ASSUME TypeInv, OrderInv, NEW a \in Accessors, NEW b \in Accessors, SubscribeInactive(b)
  PROVE  ViewStep(a)
  <1>1. /\ b \notin subscribed /\ ~domain.active
        /\ subscribed' = subscribed \cup {b}
        /\ UNCHANGED <<domain, received, lastSent, queue>>
    BY DEF SubscribeInactive, OrderInv, NothingIsLeft, accessorVars
  <1>2. CASE a = b
    BY <1>1, <1>2 DEF ViewStep, AccessorView!Next, AccessorView!Subscribe
  <1>3. CASE a # b
    <2>1. Untouched(a) /\ received'[a] = received[a] /\ Phase(a)' = Phase(a)
      BY <1>1, <1>3 DEF Untouched, Phase
    <2>2. QED
      BY <2>1, ViewStutters
  <1>4. QED
    BY <1>2, <1>3

LEMMA ViewOfUnsubscribe ==
  ASSUME TypeInv, NEW a \in Accessors, NEW b \in Accessors, Unsubscribe(b)
  PROVE  ViewStep(a)
  <1> DEFINE rest == subscribed \ {b}
  <1>1. /\ b \in subscribed /\ subscribed' = rest
        /\ domain' = IF rest = {} THEN NewDomain ELSE domain
        /\ lastSent'[b] = NullVersion /\ queue'[b] = <<>> /\ received'[b] = Nothing
        /\ a # b => Untouched(a) /\ received'[a] = received[a]
    BY DEF Unsubscribe, TypeInv, TypeOK, Untouched
  <1>2. CASE a = b
    <2>1. AccessorView(a)!Fresh'
      BY <1>1, <1>2 DEF AccessorView!Fresh, Nothing, NullVersion
    <2>2. QED
      BY <1>1, <1>2, <2>1 DEF ViewStep, AccessorView!Next, AccessorView!Release
  <1>3. CASE a # b
    <2>1. Phase(a)' = Phase(a)
      BY <1>1, <1>3 DEF Phase
    <2>2. QED
      BY <1>1, <1>3, <2>1, ViewStutters
  <1>4. QED
    BY <1>2, <1>3

LEMMA ViewOfRead ==
  ASSUME TypeInv, NEW a \in Accessors, NEW b \in Accessors, Read(b)
  PROVE  ViewStep(a)
  <1>1. /\ b \in subscribed /\ queue[b] # <<>>
        /\ UNCHANGED <<domain, subscribed, lastSent>>
        /\ IF a = b THEN received'[a] = Head(queue[a]) /\ queue'[a] = Tail(queue[a])
                    ELSE received'[a] = received[a] /\ queue'[a] = queue[a]
    BY DEF Read, TypeInv, TypeOK
  <1>2. CASE a = b
    BY <1>1, <1>2 DEF ViewStep, AccessorView!Next, AccessorView!Read
  <1>3. CASE a # b
    <2>1. Untouched(a) /\ Phase(a)' = Phase(a)
      BY <1>1, <1>3 DEF Untouched, Phase
    <2>2. QED
      BY <1>1, <1>3, <2>1, ViewStutters
  <1>4. QED
    BY <1>2, <1>3

LEMMA ViewNext ==
  ASSUME TypeInv, OrderInv, Next, NEW a \in Accessors
  PROVE  ViewStep(a)
  <1> TypeOK /\ ~logicError
    BY DEF TypeInv, Next
  <1>1. CASE \/ Arrive \/ ReportException \/ Open \/ ActivateAsyncRead
             \/ ActivateWithoutEffect \/ PollInitialValue \/ DropMessage
             \/ DistributeInactive \/ DistributeOutdated
    <2>1. UNCHANGED <<subscribed, lastSent, queue, received>> /\ domain'.active = domain.active
      BY <1>1
      DEF Arrive, ReportException, Open, ActivateAsyncRead, ActivateWithoutEffect,
          PollInitialValue, DropMessage, DistributeInactive, DistributeOutdated, accessorVars, TypeOK
    <2>2. QED
      BY <2>1, ViewStutters DEF Untouched, Phase
  <1>2. CASE SendException \/ Close
    BY <1>2, ViewOfEnd
  <1>3. ASSUME NEW ok \in PollOutcomes, NEW key \in KeysRead, Distribute(ok, key) \/ Activate(ok, key)
        PROVE  ViewStep(a)
    BY <1>3, DistributeInOrder, ActivateInOrder, ViewOfDistribution
  <1>4. ASSUME NEW b \in Accessors, SubscribeInactive(b)
        PROVE  ViewStep(a)
    BY <1>4, ViewOfSubscribeInactive
  <1>5. ASSUME NEW b \in Accessors, SubscribeVoid(b)
        PROVE  ViewStep(a)
    <2>1. /\ b \notin subscribed /\ domain.active
          /\ UNCHANGED <<domain, received>> /\ subscribed' = subscribed \cup {b}
          /\ source' \in MessageType
      BY <1>5 DEF SubscribeVoid, TypeOK, Message, MessageType, NoValue
    <2>2. source'.version \in Nat /\ source'.value \in Nat
      BY <2>1 DEF MessageType
    <2>3. Delivered({b}, source'.version, [c \in Accessors |-> source'.value])
      BY <1>5, SubscribeVoidSends
    <2>4. QED
      BY <2>1, <2>2, <2>3, ViewOfSubscription
  <1>6. ASSUME NEW b \in Accessors, NEW keyOk \in ReadOutcomes, NEW ok \in ReadOutcomes,
               NEW key \in KeysRead, SubscribePolled(b, keyOk, ok, key)
        PROVE  ViewStep(a)
    <2> DEFINE value == IF ok THEN hw ELSE NoValue
    <2>1. /\ b \notin subscribed /\ domain.active
          /\ UNCHANGED <<domain, received>> /\ subscribed' = subscribed \cup {b}
      BY <1>6 DEF SubscribePolled
    <2>2. Delivered({b}, poll'.version, [c \in Accessors |-> value])
      BY <1>6, SubscribePolledSends
    <2>3. poll'.version \in Nat
      BY <1>6, SubscribePolledSends DEF PollOK, PollType
    <2>4. value \in Nat
      BY Numbers, NoMessageFacts
    <2> HIDE DEF value
    <2>5. QED
      BY <2>1, <2>2, <2>3, <2>4, ViewOfSubscription
  <1>7. ASSUME NEW b \in Accessors, Unsubscribe(b)
        PROVE  ViewStep(a)
    BY <1>7, ViewOfUnsubscribe
  <1>8. ASSUME NEW b \in Accessors, Read(b)
        PROVE  ViewStep(a)
    BY <1>8, ViewOfRead
  <1>9. QED
    BY <1>1, <1>2, <1>3, <1>4, <1>5, <1>6, <1>7, <1>8 DEF Next

AllViewsStep == \A a \in Accessors : ViewStep(a)

(***************************************************************************)
(* The domain implements what AccessorStream promises, for each accessor:  *)
(* nothing is sent in an inactive domain, an exception ends the active     *)
(* period, and versions never decrease, whatever the threads of the        *)
(* interrupts, of the exceptions and of the application do to the domain.  *)
(***************************************************************************)
THEOREM DomainImplementsStream == Spec => AccessorViews
  <1>1. Init => \A a \in Accessors : AccessorView(a)!Init
    BY ViewInit
  <1>2. TypeInv /\ OrderInv /\ [Next]_vars => [AllViewsStep]_vars
    BY ViewNext DEF AllViewsStep
  <1>3. AccessorViews <=> (\A a \in Accessors : AccessorView(a)!Init) /\ [][AllViewsStep]_vars
    BY PTL DEF AccessorViews, AllViewsStep, ViewStep
  <1>4. QED
    BY <1>1, <1>2, <1>3, TypesHold, OrderHolds, PTL DEF Spec

-----------------------------------------------------------------------------
(* The arrival of the newest value *)

LEMMA ArrivalInit == Init => ArrivalInv
BY NoMessageFacts
DEF Init, ArrivalInv, LifecycleInv, NewestInv, NewestSent, NewestInFlight, NewestDistributed,
    NewestStored, PolledInv, NewDomain

\* setException() wakes up the exception thread, and ends asynchronous read.
LEMMA ExceptionLifecycle ==
  ASSUME TypeOK, TypeOK', LifecycleInv, NEW ok \in BOOLEAN, SetExceptionUnless(ok), opened' = opened,
         domain'.active \/ activating' => domain.active \/ activating
  PROVE  LifecycleInv'
  <1>1. /\ error' = (error \/ ~ok)
        /\ sending' = (sending \/ (~ok /\ ~error))
        /\ asyncActive' = (asyncActive /\ (ok \/ error))
    BY DEF SetExceptionUnless
  <1>2. domain'.active \/ activating' \/ asyncActive' => opened'
    BY <1>1, Zenon DEF LifecycleInv
  <1>3. CheckedActivation => (error' => ~asyncActive')
    BY <1>1, Zenon DEF LifecycleInv
  <1>4. CheckedActivation => (error' /\ (domain'.active \/ activating') => sending')
    BY <1>1, Zenon DEF LifecycleInv
  <1>5. QED
    BY <1>2, <1>3, <1>4, Zenon DEF LifecycleInv

LEMMA LifecycleStep ==
  ASSUME TypeInv, TypeInv', OrderInv, LifecycleInv, Next
  PROVE  LifecycleInv'
  <1> TypeOK /\ TypeOK' /\ ~logicError
    BY DEF TypeInv, Next
  <1>1. CASE \/ Arrive \/ PollInitialValue \/ DropMessage \/ DistributeInactive
             \/ DistributeOutdated \/ ActivateWithoutEffect
             \/ \E a \in Accessors : SubscribeVoid(a) \/ Unsubscribe(a) \/ Read(a)
    <2>1. UNCHANGED <<opened, error, sending, asyncActive>>
      BY <1>1
      DEF Arrive, PollInitialValue, DropMessage, DistributeInactive, DistributeOutdated,
          ActivateWithoutEffect, SubscribeVoid, Unsubscribe, Read, backendVars
    <2>2. domain'.active => domain.active
      <3>1. CASE DistributeInactive
        BY <3>1 DEF DistributeInactive, TypeOK
      <3>2. CASE ~DistributeInactive
        <4>1. domain' = domain \/ domain' = NewDomain
          BY <1>1, <3>2
          DEF Arrive, PollInitialValue, DropMessage, DistributeOutdated, ActivateWithoutEffect,
              SubscribeVoid, Unsubscribe, Read
        <4>2. NewDomain.active = FALSE
          BY DEF NewDomain
        <4>3. QED
          BY <4>1, <4>2
      <3>3. QED
        BY <3>1, <3>2
    <2>3. activating' = activating \/ activating' = FALSE
      BY <1>1
      DEF Arrive, PollInitialValue, DropMessage, DistributeInactive, DistributeOutdated,
          ActivateWithoutEffect, SubscribeVoid, Unsubscribe, Read
    <2>4. QED
      BY <2>1, <2>2, <2>3 DEF LifecycleInv
  <1>2. CASE ReportException
    <2>1. /\ SetExceptionUnless(FALSE)
          /\ UNCHANGED <<opened, activating, domain>>
      BY <1>2 DEF ReportException
    <2>2. QED
      BY <2>1, ExceptionLifecycle
  <1>3. ASSUME NEW ok \in PollOutcomes, NEW key \in KeysRead, Distribute(ok, key) \/ Activate(ok, key)
        PROVE  LifecycleInv'
    <2>1. /\ ok \in BOOLEAN
          /\ \E m \in MessageType, gen \in Nat, version \in Nat : DistributedInOrder(m, gen, ok, version)
      BY <1>3, DistributeInOrder, ActivateInOrder
    <2>2. SetExceptionUnless(ok)
      BY <2>1 DEF DistributedInOrder, Distributed
    <2>3. opened' = opened /\ (domain'.active \/ activating' => domain.active \/ activating)
      BY <1>3 DEF Distribute, Activate
    <2>4. QED
      BY <2>1, <2>2, <2>3, ExceptionLifecycle
  <1>4. ASSUME NEW a \in Accessors, NEW keyOk \in ReadOutcomes, NEW ok \in ReadOutcomes,
               NEW key \in KeysRead, SubscribePolled(a, keyOk, ok, key)
        PROVE  LifecycleInv'
    <2>1. ok \in BOOLEAN /\ SetExceptionUnless(ok) /\ UNCHANGED <<opened, activating, domain>>
      BY <1>4 DEF ReadOutcomes, SubscribePolled
    <2>2. QED
      BY <2>1, ExceptionLifecycle
  <1>5. CASE Open
    BY <1>5 DEF Open, LifecycleInv
  <1>6. CASE Close
    BY <1>6 DEF Close, LifecycleInv, TypeOK
  <1>7. CASE ActivateAsyncRead
    BY <1>7 DEF ActivateAsyncRead, LifecycleInv
  <1>8. CASE SendException
    BY <1>8 DEF SendException, LifecycleInv, TypeOK
  <1>9. ASSUME NEW a \in Accessors, SubscribeInactive(a)
        PROVE  LifecycleInv'
    <2>1. /\ ~activating /\ activating' = (subscribed = {} /\ asyncActive)
          /\ UNCHANGED <<domain, opened, error, sending, asyncActive>>
      BY <1>9 DEF SubscribeInactive, backendVars
    <2>2. activating' => asyncActive
      BY <2>1
    <2>3. QED
      BY <2>1, <2>2, Zenon DEF LifecycleInv
  <1>10. QED
    BY <1>1, <1>2, <1>3, <1>4, <1>5, <1>6, <1>7, <1>8, <1>9 DEF Next

\* Reading does not change the newest entry.
LEMMA ReadKeepsNewest ==
  ASSUME TypeOK, NEW a \in Accessors, NEW b \in Accessors, Read(b)
  PROVE  NewestEntry(a)' = NewestEntry(a)
  <1>1. /\ queue[b] # <<>>
        /\ IF a = b THEN received'[a] = Head(queue[a]) /\ queue'[a] = Tail(queue[a])
                    ELSE received'[a] = received[a] /\ queue'[a] = queue[a]
    BY DEF Read, TypeOK
  <1>2. CASE a = b
    <2> DEFINE q == queue[a]
               t == Tail(q)
    <2>1. q \in Seq(Entry) /\ q # <<>>
      BY <1>1, <1>2, AccessorFacts
    <2>2. /\ Head(q) = q[1] /\ t \in Seq(Entry) /\ Len(t) = Len(q) - 1 /\ Len(q) \in Nat \ {0}
          /\ \A i \in 1 .. Len(t) : t[i] = q[i + 1]
      BY <2>1, ReadFacts, EmptySeq
    <2>3. queue'[a] = t /\ received'[a] = q[1]
      BY <1>1, <1>2, <2>2
    <2> HIDE DEF t, q
    <2>4. CASE t = <<>>
      <3>1. Len(q) = 1
        BY <2>2, <2>4
      <3>2. NewestEntry(a)' = q[Len(q)]
        BY <2>3, <2>4, <3>1 DEF NewestEntry
      <3>3. QED
        BY <2>1, <3>2 DEF NewestEntry, q
    <2>5. CASE t # <<>>
      <3>1. Len(t) \in 1 .. Len(t)
        BY <2>2, <2>5, EmptySeq
      <3>2. t[Len(t)] = q[Len(q)]
        BY <2>2, <3>1
      <3>3. NewestEntry(a)' = q[Len(q)]
        BY <2>3, <2>5, <3>2 DEF NewestEntry
      <3>4. QED
        BY <2>1, <3>3 DEF NewestEntry, q
    <2>6. QED
      BY <2>4, <2>5
  <1>3. CASE a # b
    BY <1>1, <1>3 DEF NewestEntry
  <1>4. QED
    BY <1>2, <1>3

\* A distribution in a backend with versions in its data.
LEMMA NewestDistribution ==
  ASSUME TypeInv, OrderInv', VersionFromData, UNCHANGED backend,
         NEW m \in MessageType, NEW gen \in Nat, NEW ok \in BOOLEAN, NEW version \in Nat,
         DistributedInOrder(m, gen, ok, version)
  PROVE  NewestSent' /\ source'.value = m.value
  <1> TypeOK
    BY DEF TypeInv
  <1>1. /\ source'.value = m.value
        /\ Delivered(subscribed, version, Values(m.value))
        /\ UNCHANGED subscribed
    BY VoidFacts DEF DistributedInOrder, Distributed, Message
  <1>2. ~logicError'
    BY BackendKinds, SameBackend DEF OrderInv, NeverLogicError
  <1>3. Values(m.value) \in [Accessors -> Nat] /\ \A a \in Accessors : Values(m.value)[a] = m.value
    BY Numbers DEF Values, PolledAccessors
  <1>4. \A a \in subscribed : NewestEntry(a)'.kind = "data" /\ NewestEntry(a)'.value = m.value
    BY <1>1, <1>2, <1>3, DeliveredIsNewest, VoidFacts
  <1>5. QED
    BY <1>1, <1>4 DEF NewestSent

\* Steps which send nothing and read nothing.
LEMMA QuietNewest ==
  ASSUME NewestSent, UNCHANGED <<queue, received, source, subscribed>>, domain'.active => domain.active
  PROVE  NewestSent'
BY DEF NewestSent, NewestEntry

LEMMA LastInFlight ==
  ASSUME TypeOK, inFlight # <<>>, inFlight' = Tail(inFlight), NewestInFlight, UNCHANGED hw
  PROVE  /\ NewestInFlight'
         /\ inFlight' = <<>> => Head(inFlight).value = hw
  <1>1. /\ Head(inFlight) = inFlight[1]
        /\ Len(inFlight) \in Nat \ {0}
        /\ inFlight' \in Seq(MessageType)
        /\ Len(inFlight') = Len(inFlight) - 1
        /\ \A i \in 1 .. Len(inFlight') : inFlight'[i] = inFlight[i + 1]
    BY MessageFacts
  <1>2. inFlight[Len(inFlight)].value = hw
    BY DEF NewestInFlight
  <1>3. CASE inFlight' = <<>>
    <2> DEFINE t == Tail(inFlight)
    <2>1. Len(t) = Len(inFlight) - 1 /\ t = <<>>
      BY <1>1, <1>3
    <2> HIDE DEF t
    <2>2. Len(inFlight) = 1
      BY <1>1, <2>1
    <2>3. QED
      BY <1>1, <1>2, <1>3, <2>2 DEF NewestInFlight
  <1>4. CASE inFlight' # <<>>
    <2>1. Len(inFlight') \in 1 .. Len(inFlight') /\ Len(inFlight') + 1 = Len(inFlight)
      BY <1>1, <1>4, EmptySeq
    <2>2. inFlight'[Len(inFlight')] = inFlight[Len(inFlight)]
      BY <1>1, <2>1
    <2>3. QED
      BY <1>2, <1>4, <2>2 DEF NewestInFlight
  <1>5. QED
    BY <1>3, <1>4

LEMMA NewestDistribute ==
  ASSUME TypeInv, OrderInv, OrderInv', ~logicError, NewestInv, VersionFromData, UNCHANGED backend,
         NEW ok \in PollOutcomes, NEW key \in KeysRead, Distribute(ok, key)
  PROVE  NewestSent' /\ NewestInFlight' /\ NewestDistributed' /\ NewestStored'
  <1> TypeOK
    BY DEF TypeInv
  <1>1. PICK m \in MessageType, gen \in Nat, version \in Nat :
          DistributedInOrder(m, gen, ok, version) /\ m = Head(inFlight)
    BY DistributeInOrder
  <1>2. ok \in BOOLEAN
    BY DistributeInOrder
  <1>3. NewestSent' /\ source'.value = m.value
    BY <1>1, <1>2, NewestDistribution
  <1>4. /\ inFlight # <<>> /\ inFlight' = Tail(inFlight)
        /\ hw' = hw /\ domain'.active
    BY <1>1 DEF Distribute, DistributedInOrder
  <1>5. NewestInFlight' /\ (inFlight' = <<>> => m.value = hw)
    BY <1>1, <1>4, LastInFlight DEF NewestInv
  <1>6. QED
    BY <1>3, <1>4, <1>5 DEF NewestDistributed, NewestStored

LEMMA NewestActivate ==
  ASSUME TypeInv, OrderInv, OrderInv', ~logicError, NewestInv, VersionFromData, UNCHANGED backend,
         NEW ok \in PollOutcomes, NEW key \in KeysRead, Activate(ok, key)
  PROVE  NewestSent' /\ NewestInFlight' /\ NewestDistributed' /\ NewestStored'
  <1> TypeOK
    BY DEF TypeInv
  <1> DEFINE first == {initial, domain.notDistributed}
  <1>1. PICK m \in MessageType, gen \in Nat, version \in Nat :
          /\ DistributedInOrder(m, gen, ok, version)
          /\ m \in first
          /\ \A n \in first : n.version <= m.version
    BY ActivateInOrder
  <1>2. ok \in BOOLEAN
    BY ActivateInOrder
  <1>3. NewestSent' /\ source'.value = m.value
    BY <1>1, <1>2, NewestDistribution
  <1>4. /\ inFlight' = inFlight /\ hw' = hw /\ domain'.active
        /\ initial # NoMessage /\ subscribed # {} /\ ~domain.active
    BY <1>1 DEF Activate, DistributedInOrder
  <1>5. inFlight' = <<>> => m.value = hw
    <2>1. inFlight = <<>> => hw \in {n.value : n \in first}
      BY <1>4 DEF NewestInv, NewestStored
    <2>2. first \subseteq Messages
      BY DEF Messages
    <2>3. \A n \in first : n.value <= m.value /\ n.value \in Nat
      BY <1>1, <2>2, Numbers DEF OrderInv, MessagesConsistent, NotNewer
    <2>4. m.value <= hw /\ m.value \in Nat /\ hw \in Nat
      BY <1>1, <2>2, Numbers DEF OrderInv, MessagesInv
    <2> HIDE DEF first
    <2>5. QED
      BY <1>4, <2>1, <2>3, <2>4
  <1>6. QED
    BY <1>3, <1>4, <1>5 DEF NewestDistributed, NewestStored, NewestInFlight, NewestInv

\* A message which the domain takes and does not distribute is stored, or it
\* is older than what the domain has sent.
LEMMA NewestTake ==
  ASSUME TypeInv, OrderInv, ~logicError, NewestInv, VersionFromData, UNCHANGED backend,
         DropMessage \/ DistributeInactive \/ DistributeOutdated
  PROVE  NewestSent' /\ NewestInFlight' /\ NewestDistributed' /\ NewestStored'
  <1> TypeOK
    BY DEF TypeInv
  <1> DEFINE m == Head(inFlight)
  <1>1. /\ inFlight # <<>> /\ inFlight' = Tail(inFlight)
        /\ UNCHANGED <<hw, initial, source, subscribed, queue, received>>
    BY DEF DropMessage, DistributeInactive, DistributeOutdated, accessorVars
  <1>2. NewestInFlight' /\ (inFlight' = <<>> => m.value = hw)
    BY <1>1, LastInFlight DEF NewestInv
  <1>3. m \in InFlight /\ m \in MessageType /\ m.version > 0
    BY <1>1, TakeFacts, MessageFacts, NoMessageFacts DEF OrderInv, MessagesInv
  <1>4. domain'.active = domain.active
    BY DEF DropMessage, DistributeInactive, DistributeOutdated, TypeOK
  <1>5. NewestSent'
    BY <1>1, <1>4, QuietNewest DEF NewestInv
  <1>6. CASE DropMessage
    <2>1. subscribed = {} /\ ~domain.active
      BY <1>6 DEF DropMessage, OrderInv, NothingIsLeft
    <2>2. QED
      BY <1>1, <1>2, <1>4, <1>5, <2>1 DEF NewestDistributed, NewestStored
  <1>7. CASE DistributeInactive
    <2>1. /\ ~domain.active
          /\ domain'.notDistributed.value = m.value
      BY <1>7 DEF DistributeInactive, TypeOK, Message
    <2> HIDE DEF m
    <2>2. QED
      BY <1>1, <1>2, <1>4, <1>5, <2>1 DEF NewestDistributed, NewestStored
  <1>8. CASE DistributeOutdated
    <2>1. /\ domain.active /\ m.version < domain.activationVersion
      BY <1>3, <1>8, NoMessageFacts DEF DistributeOutdated, VersionFor
    <2>2. domain.activationVersion <= source.version
      BY <2>1 DEF OrderInv, DistributionInOrder
    <2>3. m \in Messages /\ source \in Messages
      BY <1>3 DEF Messages
    <2>4. m.version <= source.version
      BY <2>1, <2>2, <2>3, Numbers
    <2>5. m.value <= source.value /\ source.value <= hw
      BY <2>3, <2>4 DEF OrderInv, MessagesConsistent, NotNewer, MessagesInv
    <2>6. m.value = hw => source.value = hw
      BY <2>3, <2>5, Numbers
    <2> HIDE DEF m
    <2>7. QED
      BY <1>1, <1>2, <1>4, <1>5, <2>1, <2>6 DEF NewestDistributed, NewestStored
  <1>9. QED
    BY <1>6, <1>7, <1>8

LEMMA NewestSubscribeVoid ==
  ASSUME TypeInv, OrderInv, OrderInv', ~logicError, NewestInv, VersionFromData, UNCHANGED backend,
         NEW a \in Accessors, SubscribeVoid(a)
  PROVE  NewestSent' /\ NewestInFlight' /\ NewestDistributed' /\ NewestStored'
  <1> TypeOK
    BY DEF TypeInv
  <1>1. /\ a \notin subscribed /\ subscribed' = subscribed \cup {a} /\ domain.active
        /\ Void # {} => source' = source
        /\ subscribed # {}
        /\ UNCHANGED <<hw, inFlight, initial, domain, received>>
    BY DEF SubscribeVoid
  <1>2. source' = source
    BY <1>1, VoidFacts
  <1>3. Delivered({a}, source.version, [b \in Accessors |-> source.value])
    BY <1>2, SubscribeVoidSends
  <1>4. ~logicError'
    BY BackendKinds, SameBackend DEF OrderInv, NeverLogicError
  <1>5. source.version \in Nat /\ [b \in Accessors |-> source.value] \in [Accessors -> Nat]
    BY AccessorFacts
  <1>6. NewestEntry(a)'.kind = "data" /\ NewestEntry(a)'.value = source.value
    BY <1>3, <1>4, <1>5, DeliveredIsNewest
  <1>7. \A b \in subscribed : NewestEntry(b)' = NewestEntry(b)
    BY <1>1, <1>3, VoidFacts DEF Delivered, Untouched, NewestEntry
  <1>8. NewestSent'
    BY <1>1, <1>2, <1>6, <1>7 DEF NewestInv, NewestSent
  <1>9. QED
    BY <1>1, <1>2, <1>8 DEF NewestInv, NewestInFlight, NewestDistributed, NewestStored

LEMMA NewestUnsubscribe ==
  ASSUME TypeInv, NewestInv, VersionFromData, NEW a \in Accessors, Unsubscribe(a)
  PROVE  NewestSent' /\ NewestInFlight' /\ NewestDistributed' /\ NewestStored'
  <1> DEFINE rest == subscribed \ {a}
  <1>1. /\ subscribed' = rest
        /\ domain' = IF rest = {} THEN NewDomain ELSE domain
        /\ rest # {} => source' = source
        /\ \A b \in Accessors : b # a => queue'[b] = queue[b] /\ received'[b] = received[b]
        /\ UNCHANGED <<hw, inFlight, initial>>
    BY DEF Unsubscribe, TypeInv, TypeOK, VoidAccessors, PolledAccessors
  <1>2. NewDomain.active = FALSE
    BY DEF NewDomain
  <1>3. NewestSent'
    <2>1. \A b \in rest : b \in Accessors /\ b # a /\ b \in subscribed
      BY DEF TypeInv, TypeOK
    <2>2. QED
      BY <1>1, <1>2, <2>1 DEF NewestInv, NewestSent, NewestEntry
  <1>4. QED
    BY <1>1, <1>2, <1>3 DEF NewestInv, NewestInFlight, NewestDistributed, NewestStored

LEMMA NewestArrive ==
  ASSUME TypeInv, NewestInv, VersionFromData, Arrive
  PROVE  NewestSent' /\ NewestInFlight' /\ NewestDistributed' /\ NewestStored'
  <1> DEFINE new == Message(lastVersion', hw')
             t == Append(inFlight, new)
  <1>1. /\ inFlight' = t
        /\ UNCHANGED <<source, subscribed, queue, received, domain>>
    BY DEF Arrive, accessorVars
  <1>2. NewestSent'
    BY <1>1, QuietNewest DEF NewestInv
  <1>3. inFlight \in Seq(MessageType) /\ new.value = hw'
    BY DEF TypeInv, TypeOK, Message
  <1> HIDE DEF new
  <1>4. t # <<>> /\ t[Len(t)] = new
    <2>1. Len(t) = Len(inFlight) + 1 /\ Len(inFlight) \in Nat /\ t[Len(inFlight) + 1] = new
      BY <1>3
    <2> HIDE DEF t
    <2>2. QED
      BY <2>1
  <1>5. QED
    BY <1>1, <1>2, <1>3, <1>4 DEF NewestInFlight, NewestDistributed, NewestStored

LEMMA NewestStep ==
  ASSUME TypeInv, TypeInv', OrderInv, OrderInv', NewestInv, [Next]_vars
  PROVE  NewestInv'
  <1> TypeOK
    BY DEF TypeInv
  <1>1. CASE UNCHANGED vars
    BY <1>1
    DEF vars, NewestInv, NewestSent, NewestInFlight, NewestDistributed, NewestStored, NewestEntry,
        VersionFromData
  <1>2. CASE Next
    <2> SUFFICES ASSUME ~logicError, UNCHANGED backend, VersionFromData
                 PROVE  NewestSent' /\ NewestInFlight' /\ NewestDistributed' /\ NewestStored'
      BY <1>2, SameBackend DEF Next, NewestInv
    <2>1. CASE Arrive
      BY <2>1, NewestArrive
    <2>2. CASE \/ ReportException \/ Open \/ Close \/ ActivateAsyncRead \/ ActivateWithoutEffect
               \/ SendException \/ PollInitialValue
               \/ \E a \in Accessors : SubscribeInactive(a) \/ Read(a)
      <3>1. /\ UNCHANGED <<hw, inFlight, source>>
            /\ domain'.notDistributed = domain.notDistributed
            /\ domain'.active => domain.active
        BY <2>2
        DEF ReportException, Open, Close, ActivateAsyncRead, ActivateWithoutEffect, SendException,
            PollInitialValue, SubscribeInactive, Read, TypeOK
      <3>2. NewestInFlight' /\ NewestDistributed'
        BY <3>1 DEF NewestInv, NewestInFlight, NewestDistributed
      <3>3. NewestStored'
        <4>1. CASE PollInitialValue
          <5>1. initial'.value = hw /\ hw' = hw
            BY <4>1 DEF PollInitialValue, Message
          <5>2. QED
            BY <5>1 DEF NewestStored
        <4>2. CASE Close \/ SendException \/ \E a \in Accessors : SubscribeInactive(a)
          <5>1. initial' = NoMessage
            BY <4>2 DEF Close, SendException, SubscribeInactive, OrderInv, InitialInv
          <5>2. QED
            BY <5>1 DEF NewestStored
        <4>3. CASE \/ ReportException \/ Open \/ ActivateAsyncRead
                   \/ \E a \in Accessors : Read(a)
          <5>1. UNCHANGED <<initial, domain, subscribed>>
            BY <4>3 DEF ReportException, Open, ActivateAsyncRead, Read
          <5>2. QED
            BY <3>1, <5>1 DEF NewestInv, NewestStored
        <4>4. CASE ActivateWithoutEffect
          BY <4>4 DEF ActivateWithoutEffect, NewestStored
        <4>5. QED
          BY <2>2, <4>1, <4>2, <4>3, <4>4
      <3>4. NewestSent'
        <4>1. CASE \E a \in Accessors : Read(a)
          <5>1. \A a \in Accessors : NewestEntry(a)' = NewestEntry(a)
            BY <4>1, ReadKeepsNewest
          <5>2. UNCHANGED <<subscribed, domain>>
            BY <4>1 DEF Read
          <5>3. QED
            BY <3>1, <5>1, <5>2, VoidFacts DEF NewestInv, NewestSent
        <4>2. CASE SendException \/ \E a \in Accessors : SubscribeInactive(a)
          <5>1. ~domain'.active
            BY <4>2 DEF SendException, SubscribeInactive, TypeOK, OrderInv, NothingIsLeft
          <5>2. QED
            BY <5>1 DEF NewestSent
        <4>3. CASE \/ ReportException \/ Open \/ Close \/ ActivateAsyncRead
                   \/ ActivateWithoutEffect \/ PollInitialValue
          <5>1. UNCHANGED <<queue, received, source, subscribed>>
            BY <4>3 DEF ReportException, Open, Close, ActivateAsyncRead, ActivateWithoutEffect,
                        PollInitialValue, accessorVars
          <5>2. QED
            BY <3>1, <5>1, QuietNewest DEF NewestInv
        <4>4. QED
          BY <2>2, <4>1, <4>2, <4>3
      <3>5. QED
        BY <3>2, <3>3, <3>4
    <2>3. CASE DropMessage \/ DistributeInactive \/ DistributeOutdated
      BY <2>3, NewestTake
    <2>4. ASSUME NEW ok \in PollOutcomes, NEW key \in KeysRead, Distribute(ok, key)
          PROVE  NewestSent' /\ NewestInFlight' /\ NewestDistributed' /\ NewestStored'
      BY <2>4, NewestDistribute
    <2>5. ASSUME NEW ok \in PollOutcomes, NEW key \in KeysRead, Activate(ok, key)
          PROVE  NewestSent' /\ NewestInFlight' /\ NewestDistributed' /\ NewestStored'
      BY <2>5, NewestActivate
    <2>6. ASSUME NEW a \in Accessors, SubscribeVoid(a)
          PROVE  NewestSent' /\ NewestInFlight' /\ NewestDistributed' /\ NewestStored'
      BY <2>6, NewestSubscribeVoid
    <2>7. ASSUME NEW a \in Accessors, Unsubscribe(a)
          PROVE  NewestSent' /\ NewestInFlight' /\ NewestDistributed' /\ NewestStored'
      BY <2>7, NewestUnsubscribe
    <2>8. ASSUME NEW a \in Accessors, NEW keyOk \in ReadOutcomes, NEW ok \in ReadOutcomes,
                 NEW key \in KeysRead, SubscribePolled(a, keyOk, ok, key)
          PROVE  FALSE
      BY <2>8 DEF SubscribePolled, PolledAccessors
    <2>9. QED
      BY <1>2, <2>1, <2>2, <2>3, <2>4, <2>5, <2>6, <2>7, <2>8 DEF Next
  <1>3. QED
    BY <1>1, <1>2

\* A register is polled again by a distribution, unless the read fails.
LEMMA PolledStep ==
  ASSUME TypeInv, TypeInv', OrderInv, OrderInv', LifecycleInv, PolledInv, [Next]_vars
  PROVE  PolledInv'
  <1> TypeOK /\ TypeOK'
    BY DEF TypeInv
  <1>1. CASE UNCHANGED vars
    BY <1>1 DEF vars, PolledInv, NewestEntry, Polled, PolledAccessors, VersionFromData
  <1>2. CASE Next
    <2> SUFFICES ASSUME ~logicError, UNCHANGED backend, CheckedActivation,
                        opened', ~error', domain'.active, inFlight' = <<>>, ~logicError',
                        NEW a \in Polled'
                 PROVE  NewestEntry(a)'.kind = "data" /\ NewestEntry(a)'.value = hw'
      BY <1>2 DEF Next, PolledInv
    <2> USE SameBackend
    <2>1. /\ a \in subscribed' /\ a \in PolledAccessors /\ a \in Accessors
          /\ ~VersionFromData
      BY DEF Polled, PolledAccessors, TypeOK
    \* Steps after which the domain is not functional, or a message waits.
    <2>2. CASE \/ Arrive \/ ReportException \/ Open \/ Close \/ PollInitialValue \/ SendException
               \/ DistributeInactive \/ DropMessage
               \/ \E b \in Accessors : SubscribeInactive(b)
      <3>1. ~Arrive
        <4>1. \A s \in Seq(MessageType), m \in MessageType : Append(s, m) # <<>>
          BY AppendProperties
        <4>2. Arrive => inFlight' = Append(inFlight, NoMessage) /\ inFlight \in Seq(MessageType)
          BY <2>1 DEF Arrive, TypeOK
        <4>3. QED
          BY <4>1, <4>2, NoMessageFacts
      <3>2. ~ReportException
        BY Zenon DEF ReportException, SetExceptionUnless
      <3>3. ~Open
        BY DEF Open, LifecycleInv
      <3>4. ~Close /\ ~SendException /\ ~DistributeInactive
        BY DEF Close, SendException, DistributeInactive, TypeOK
      <3>5. ~PollInitialValue
        BY <2>1 DEF PollInitialValue
      <3>6. ~DropMessage
        BY <2>1 DEF DropMessage
      <3>7. \A b \in Accessors : ~SubscribeInactive(b)
        BY DEF SubscribeInactive, OrderInv, NothingIsLeft
      <3>8. QED
        BY <2>2, <3>1, <3>2, <3>3, <3>4, <3>5, <3>6, <3>7
    <2>3. CASE DistributeOutdated
      <3>1. /\ inFlight # <<>> /\ Head(inFlight).version = NullVersion
        BY <2>1, <2>3, TakeFacts, NoMessageFacts DEF DistributeOutdated, OrderInv, MessagesInv
      <3>2. lastVersion + 1 < domain.activationVersion
        BY <2>3, <3>1 DEF DistributeOutdated, VersionFor
      <3>3. QED
        BY <3>2, Numbers DEF OrderInv, VersionsGenerated
    \* The functional domain was functional before.
    <2>4. ASSUME UNCHANGED <<opened, error, inFlight, hw>>, domain.active, a \in subscribed,
                 NewestEntry(a)' = NewestEntry(a)
          PROVE  NewestEntry(a)'.kind = "data" /\ NewestEntry(a)'.value = hw'
      BY <2>1, <2>4 DEF PolledInv, Polled
    <2>5. CASE ActivateAsyncRead \/ ActivateWithoutEffect
      <3>1. /\ UNCHANGED <<opened, error, inFlight, hw, domain, subscribed, queue, received>>
        BY <2>5 DEF ActivateAsyncRead, ActivateWithoutEffect, backendVars, accessorVars
      <3>2. QED
        BY <2>1, <2>4, <3>1 DEF NewestEntry
    <2>6. ASSUME NEW ok \in PollOutcomes, NEW key \in KeysRead, Distribute(ok, key) \/ Activate(ok, key)
          PROVE  NewestEntry(a)'.kind = "data" /\ NewestEntry(a)'.value = hw'
      <3>1. PICK m \in MessageType, gen \in Nat, version \in Nat :
              DistributedInOrder(m, gen, ok, version)
        BY <2>6, DistributeInOrder, ActivateInOrder
      <3>2. /\ SetExceptionUnless(ok)
            /\ Delivered(IF ok THEN subscribed ELSE Void, version, Values(m.value))
            /\ UNCHANGED <<hw, subscribed>>
        BY <3>1 DEF DistributedInOrder, Distributed
      <3>3. ok
        BY <3>2, Zenon DEF SetExceptionUnless
      <3>4. Delivered(subscribed, version, Values(m.value))
        BY <3>2, <3>3
      <3>5. Values(m.value) \in [Accessors -> Nat] /\ Values(m.value)[a] = hw
        BY <2>1, Numbers DEF Values
      <3>6. QED
        BY <2>1, <3>2, <3>4, <3>5, DeliveredIsNewest
    <2>7. ASSUME NEW b \in Accessors, SubscribeVoid(b)
          PROVE  NewestEntry(a)'.kind = "data" /\ NewestEntry(a)'.value = hw'
      <3>1. /\ UNCHANGED <<opened, error, inFlight, hw, received>> /\ domain.active
            /\ a # b /\ a \in subscribed
        BY <2>1, <2>7 DEF SubscribeVoid, VoidAccessors, backendVars
      <3>2. queue'[a] = queue[a]
        BY <2>1, <2>7, <3>1, SubscribeVoidSends DEF Delivered, Untouched
      <3>3. QED
        BY <2>4, <3>1, <3>2 DEF NewestEntry
    <2>8. ASSUME NEW b \in Accessors, NEW keyOk \in ReadOutcomes, NEW ok \in ReadOutcomes,
                 NEW key \in KeysRead, SubscribePolled(b, keyOk, ok, key)
          PROVE  NewestEntry(a)'.kind = "data" /\ NewestEntry(a)'.value = hw'
      <3> DEFINE values == [c \in Accessors |-> IF ok THEN hw ELSE NoValue]
      <3>1. /\ UNCHANGED <<opened, inFlight, hw, received>> /\ domain.active
            /\ SetExceptionUnless(ok)
            /\ subscribed' = subscribed \cup {b}
        BY <2>8 DEF SubscribePolled
      <3>2. ok /\ ~error
        BY <3>1, Zenon DEF SetExceptionUnless
      <3>3. Delivered({b}, poll'.version, values) /\ poll'.version \in Nat
        BY <2>8, SubscribePolledSends DEF PollOK, PollType
      <3>4. values \in [Accessors -> Nat] /\ \A c \in Accessors : values[c] = hw
        BY <3>2, Numbers
      <3> HIDE DEF values
      <3>5. CASE a = b
        <4>1. PICK version \in Nat : Delivered({b}, version, values)
          BY <3>3
        <4>2. NewestEntry(b)'.kind = "data" /\ NewestEntry(b)'.value = values[b]
          BY <3>4, <4>1, DeliveredIsNewest
        <4>3. QED
          BY <3>1, <3>4, <3>5, <4>2
      <3>6. CASE a # b
        <4>1. queue'[a] = queue[a] /\ a \in subscribed /\ error' = error
          BY <2>1, <3>1, <3>2, <3>3, <3>6 DEF Delivered, Untouched, TypeOK
        <4>2. QED
          BY <2>4, <3>1, <4>1 DEF NewestEntry
      <3>7. QED
        BY <3>5, <3>6
    <2>9. ASSUME NEW b \in Accessors, Unsubscribe(b)
          PROVE  NewestEntry(a)'.kind = "data" /\ NewestEntry(a)'.value = hw'
      <3>1. NewDomain.active = FALSE
        BY DEF NewDomain
      <3>2. /\ UNCHANGED <<opened, error, inFlight, hw>> /\ domain.active
            /\ a \in subscribed /\ a # b
            /\ queue'[a] = queue[a] /\ received'[a] = received[a]
        BY <2>1, <2>9, <3>1 DEF Unsubscribe, backendVars, TypeOK
      <3>3. QED
        BY <2>4, <3>2 DEF NewestEntry
    <2>10. ASSUME NEW b \in Accessors, Read(b)
           PROVE  NewestEntry(a)'.kind = "data" /\ NewestEntry(a)'.value = hw'
      <3>1. UNCHANGED <<opened, error, inFlight, hw, domain, subscribed>>
        BY <2>10 DEF Read, backendVars
      <3>2. NewestEntry(a)' = NewestEntry(a)
        BY <2>1, <2>10, ReadKeepsNewest
      <3>3. QED
        BY <2>1, <2>4, <3>1, <3>2
    <2>11. QED
      BY <1>2, <2>2, <2>3, <2>5, <2>6, <2>7, <2>8, <2>9, <2>10 DEF Next
  <1>3. QED
    BY <1>1, <1>2

(***************************************************************************)
(* The newest value of the device is in each accessor of an active domain, *)
(* or on its way to it: as a message, as the one which activate() keeps,   *)
(* or by the poll which the next trigger brings.                           *)
(***************************************************************************)
THEOREM ArrivalHolds == Spec => []ArrivalInv
  <1>1. Init => ArrivalInv
    BY ArrivalInit
  <1>2. TypeInv /\ TypeInv' /\ OrderInv /\ OrderInv' /\ ArrivalInv /\ [Next]_vars => ArrivalInv'
    <2>1. LifecycleInv /\ UNCHANGED vars => LifecycleInv'
      BY DEF LifecycleInv, vars
    <2>2. QED
      BY <2>1, LifecycleStep, NewestStep, PolledStep DEF ArrivalInv
  <1>3. QED
    BY <1>1, <1>2, TypesHold, OrderHolds, PTL DEF Spec

(***************************************************************************)
(* No update is missed when asynchronous read is activated on a functional *)
(* device: the stored message and the dropping of outdated ones in         *)
(* DomainImpl::activate() and distribute() bring the newest value to each  *)
(* accessor of an active domain.                                           *)
(***************************************************************************)
THEOREM NewestValuesArrive ==
  ASSUME CheckedActivation
  PROVE  Spec => []NewestValueArrives
  <1>1. TypeInv /\ ArrivalInv => NewestValueArrives
    <2> SUFFICES ASSUME TypeInv, ArrivalInv,
                        opened, ~error, domain.active, inFlight = <<>>, ~logicError,
                        NEW a \in subscribed, HasValue(a)
                 PROVE  NewestEntry(a).kind = "data" /\ NewestEntry(a).value = hw
      BY DEF NewestValueArrives
    <2>1. CASE VersionFromData
      BY <2>1 DEF ArrivalInv, NewestInv, NewestSent, NewestDistributed
    <2>2. CASE ~VersionFromData
      BY <2>2 DEF ArrivalInv, PolledInv, HasValue, Polled
    <2>3. QED
      BY <2>1, <2>2
  <1>2. QED
    BY <1>1, TypesHold, ArrivalHolds, PTL

(***************************************************************************)
(* A backend whose messages bring data and a version misses no update,     *)
(* however asynchronous read is activated.                                 *)
(***************************************************************************)
THEOREM NewestDataArrives == Spec => [](VersionFromData => NewestValueArrives)
  <1>1. ArrivalInv => (VersionFromData => NewestValueArrives)
    BY DEF ArrivalInv, NewestInv, NewestSent, NewestDistributed, NewestValueArrives
  <1>2. QED
    BY <1>1, ArrivalHolds, PTL

============================================================================

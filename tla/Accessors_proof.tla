-------------------------- MODULE Accessors_proof --------------------------
(***************************************************************************)
(* Proofs about two ways in which accessors work together: LogicalMath,    *)
(* for every set of plugins and parameters, and every group in which the   *)
(* plugins with push parameters come first, and ReadAnyGroup, for every    *)
(* set of elements, every order in which they are added and every size of  *)
(* their queues.                                                           *)
(***************************************************************************)
EXTENDS LogicalMath, ReadAnyGroup, FiniteSetTheorems, TLAPS


-----------------------------------------------------------------------------
(* LogicalMath: the inductive invariant *)

Phases == {"idle", "update", "pre", "transfer", "post"}
Versions == [Parameters -> Nat]
Results == {NoData} \cup [x : Nat, params : Versions]

MathType ==
  /\ mathOpen \in BOOLEAN /\ onOpen \in Nat /\ now \in Nat
  /\ variable \in Versions /\ seen \in [Plugins -> Versions]
  /\ mutex \in [Plugins -> {Nobody, Main}] /\ depth \in [Plugins -> Nat] /\ counter \in Nat
  /\ mainWritten \in [Plugins -> BOOLEAN] /\ allWritten \in [Plugins -> BOOLEAN]
  /\ lastMain \in [Plugins -> Nat] /\ skip \in [Plugins -> BOOLEAN] /\ thrown \subseteq Plugins
  /\ result \in [Plugins -> Results] /\ target \in [Plugins -> Results]
  /\ mathPc \in Phases /\ position \in 1 .. Len(Group) /\ mainValue \in Nat
  /\ updating \in [Parameters -> SUBSET Plugins]

\* The main thread has the mutexes of a part of the group: of the plugins which
\* were prepared, and whose postWrite() is still to come.
First == IF mathPc = "post" THEN position ELSE 1
HoldsAt(i) == First <= i /\ i < First + counter
MutexInv ==
  /\ First + counter <= Len(Group) + 1
  /\ \A i \in DOMAIN Group : mutex[Group[i]] = Main <=> HoldsAt(i)
  /\ \A p \in Plugins : mutex[p] = Main => \E i \in DOMAIN Group : Group[i] = p
  /\ \A p \in Plugins : depth[p] = IF mutex[p] = Main THEN 1 ELSE 0
  /\ mathPc = "idle" => counter = 0
  /\ mathPc \in {"update", "pre"} /\ thrown = {} =>
       counter < position /\ \A i \in 1 .. position - 1 : Group[i] \in Push => i <= counter
  /\ mathPc = "transfer" /\ mathOpen => \A i \in DOMAIN Group : Group[i] \in Push => i <= counter

\* A device which has failed during an operation is not opened before its end.
FailureInv ==
  /\ mathPc # "idle" /\ thrown # {} => ~mathOpen
  /\ mathPc = "pre" => thrown = {}

\* A plugin has seen the newest parameters from doPreWrite() on, or the thread
\* of one of them waits for it.
AllSet == \A v \in Parameters : variable[v] > onOpen
Pending(p) == \E v \in Parameters : p \in updating[v]
SeenInv ==
  mathOpen =>
    \A p \in Push :
      mutex[p] = Main \/ (mathPc = "pre" /\ p = Current) => Pending(p) \/ seen[p] = variable

\* Its result is the newest one, in the device or on the way to it.
ToTransfer(p) ==
  /\ mutex[p] = Main
  /\ \/ mathPc \in {"update", "pre"}
     \/ mathPc = "transfer" /\ \E i \in DOMAIN Group : Group[i] = p /\ position <= i
ResultInv ==
  mathOpen /\ AllSet =>
    \A p \in Push :
      mainWritten[p] /\ ~Pending(p) =>
        IF ToTransfer(p) THEN ~skip[p] /\ result[p] = Compute(lastMain[p], variable)
        ELSE target[p] = Compute(lastMain[p], variable)

\* What is new, and results of it.
NewResult(p) ==
  result[p].x > onOpen /\ \A v \in Parameters : result[p].params[v] > onOpen
VersionInv ==
  /\ onOpen <= now /\ \A v \in Parameters : variable[v] <= now
  /\ \A p \in Plugins, v \in Parameters : seen[p][v] <= variable[v]
  /\ mathPc # "idle" => mainValue > onOpen
  /\ \A p \in Push : mainWritten[p] => lastMain[p] > onOpen
  /\ \A p \in Push : allWritten[p] => AllSet /\ \A v \in Parameters : seen[p][v] > onOpen
  /\ \A p \in Push : mutex[p] = Main /\ mathPc \in {"update", "pre", "transfer"} /\ ~skip[p] => NewResult(p)

MathInv == MathType /\ MutexInv /\ FailureInv /\ SeenInv /\ ResultInv /\ VersionInv

-----------------------------------------------------------------------------
(* Parts of the steps *)

LEMMA GroupFacts ==
  ASSUME MathAssumption, MathType
  PROVE  /\ Len(Group) \in Nat \ {0} /\ DOMAIN Group = 1 .. Len(Group)
         /\ Current \in Plugins
         /\ \A i \in 1 .. Len(Group) : Group[i] \in Plugins
         /\ \A i, j \in 1 .. Len(Group) : i # j => Group[i] # Group[j]
         /\ \A i, j \in 1 .. Len(Group) : i < j /\ Group[j] \in Push => Group[i] \in Push
<1>1. Len(Group) \in Nat /\ DOMAIN Group = 1 .. Len(Group) /\ \A i \in 1 .. Len(Group) : Group[i] \in Plugins
  BY DEF MathAssumption
<1>2. Len(Group) # 0
  BY DEF MathAssumption
<1>3. Current \in Plugins
  BY <1>1 DEF Current, MathType
<1>4. \A i, j \in 1 .. Len(Group) : i # j => Group[i] # Group[j]
  <2>1. SUFFICES ASSUME NEW i \in 1 .. Len(Group), NEW j \in 1 .. Len(Group), i # j
                 PROVE  Group[i] # Group[j]
    OBVIOUS
  <2>2. i < j \/ j < i
    BY <2>1
  <2>3. QED
    BY <1>1, <2>2 DEF MathAssumption
<1>5. \A i, j \in 1 .. Len(Group) : i < j /\ Group[j] \in Push => Group[i] \in Push
  BY <1>1 DEF MathAssumption
<1>6. QED
  BY <1>1, <1>2, <1>3, <1>4, <1>5

LEMMA NextOfGroup ==
  ASSUME MathAssumption, MathType, NEW again \in Phases, NEW next \in Phases, Step(again, next)
  PROVE  /\ \/ position < Len(Group) /\ mathPc' = again /\ position' = position + 1
            \/ position = Len(Group) /\ mathPc' = next /\ position' = 1
         /\ mathPc' \in Phases /\ position' \in 1 .. Len(Group)
BY GroupFacts DEF Step, MathType

-----------------------------------------------------------------------------
(* Types *)

LEMMA TypeInit == ASSUME MathAssumption, MathInit PROVE MathType
<1>1. Len(Group) \in Nat \ {0}
  BY DEF MathAssumption
<1>2. variable \in Versions /\ seen \in [Plugins -> Versions] /\ updating \in [Parameters -> SUBSET Plugins]
  BY DEF MathInit, Versions
<1>3. /\ mutex \in [Plugins -> {Nobody, Main}] /\ depth \in [Plugins -> Nat] /\ counter \in Nat
      /\ onOpen \in Nat /\ now \in Nat /\ mainValue \in Nat /\ lastMain \in [Plugins -> Nat]
  BY DEF MathInit
<1>4. /\ mainWritten \in [Plugins -> BOOLEAN] /\ allWritten \in [Plugins -> BOOLEAN]
      /\ skip \in [Plugins -> BOOLEAN]
  BY Zenon DEF MathInit
<1>5. result \in [Plugins -> Results] /\ target \in [Plugins -> Results]
  BY DEF MathInit, Results
<1>6. mathOpen \in BOOLEAN
  BY DEF MathInit
<1>7. thrown \subseteq Plugins /\ mathPc \in Phases /\ position \in 1 .. Len(Group)
  BY <1>1 DEF MathInit, Phases
<1>8. QED
  BY <1>2, <1>3, <1>4, <1>5, <1>6, <1>7 DEF MathType

LEMMA TypeStep ==
  ASSUME MathAssumption, MathType, MutexInv, [MathNext]_mathVars
  PROVE  MathType'
<1> USE DEF MathType, flags, lock, mainThread
<1>0. Current \in Plugins
  BY GroupFacts
<1>1. CASE OpenMath \/ FailMath
  <2>1. mainWritten' \in [Plugins -> BOOLEAN] /\ allWritten' \in [Plugins -> BOOLEAN] /\ mathOpen' \in BOOLEAN
    BY <1>1, Zenon DEF OpenMath, FailMath
  <2>2. onOpen' \in Nat /\ now' \in Nat
    BY <1>1 DEF OpenMath, FailMath
  <2>3. QED
    BY <1>1, <2>1, <2>2 DEF OpenMath, FailMath
<1>2. CASE BeginMain
  BY <1>2, GroupFacts DEF BeginMain, Phases
<1>3. CASE UpdateParameters
  <2>1. thrown' \subseteq Plugins /\ seen' \in [Plugins -> Versions]
    BY <1>0, <1>3 DEF UpdateParameters
  <2>2. mathPc' \in Phases /\ position' \in 1 .. Len(Group)
    <3>1. CASE mathOpen
      BY <1>3, <3>1 DEF UpdateParameters, Phases
    <3>2. CASE ~mathOpen
      BY <1>3, <3>2, NextOfGroup DEF UpdateParameters, Phases
    <3>3. QED
      BY <3>1, <3>2
  <2>3. QED
    BY <1>3, <2>1, <2>2 DEF UpdateParameters
<1>4. CASE PreWrite
  <2>1. mathPc' \in Phases /\ position' \in 1 .. Len(Group)
    <3>1. CASE thrown = {}
      BY <1>4, <3>1, NextOfGroup DEF PreWrite, Phases
    <3>2. CASE thrown # {}
      BY <1>4, <3>2, NextOfGroup DEF PreWrite, Phases
    <3>3. QED
      BY <3>1, <3>2
  <2>2. /\ mutex' \in [Plugins -> {Nobody, Main}] /\ depth' \in [Plugins -> Nat] /\ counter' \in Nat
        /\ lastMain' \in [Plugins -> Nat]
    <3>1. CASE Current \in Push
      <4>1. mutex' = [mutex EXCEPT ![Current] = Main] /\ depth' = [depth EXCEPT ![Current] = @ + 1]
        BY <1>4, <3>1 DEF PreWrite
      <4>2. counter' = counter + 1 /\ lastMain' = [lastMain EXCEPT ![Current] = mainValue]
        BY <1>4, <3>1 DEF PreWrite
      <4>3. QED
        BY <1>0, <4>1, <4>2
    <3>2. CASE Current \notin Push
      BY <1>4, <3>2 DEF PreWrite
    <3>3. QED
      BY <3>1, <3>2
  <2>m. mainWritten' \in [Plugins -> BOOLEAN]
    BY <1>0, <1>4, Zenon DEF PreWrite
  <2>3. allWritten' \in [Plugins -> BOOLEAN]
    <3>1. AllWritten(Current, seen[Current]) \in BOOLEAN
      BY <1>0 DEF AllWritten
    <3>2. QED
      BY <1>0, <1>4, <3>1 DEF PreWrite
  <2>4. skip' \in [Plugins -> BOOLEAN]
    BY <1>0, <1>4 DEF PreWrite
  <2>5. result' \in [Plugins -> Results]
    <3>1. Compute(mainValue, seen[Current]) \in Results
      BY <1>0 DEF Compute, Results
    <3>2. QED
      BY <1>0, <1>4, <3>1 DEF PreWrite
  <2>6. QED
    BY <1>4, <2>1, <2>2, <2>m, <2>3, <2>4, <2>5 DEF PreWrite
<1>5. CASE Transfer
  <2>1. mathPc' \in Phases /\ position' \in 1 .. Len(Group)
    BY <1>5, NextOfGroup DEF Transfer, Phases
  <2>2. target' \in [Plugins -> Results] /\ thrown' \subseteq Plugins
    BY <1>0, <1>5 DEF Transfer
  <2>3. QED
    BY <1>5, <2>1, <2>2 DEF Transfer
<1>6. CASE PostWrite
  <2>1. mathPc' \in Phases /\ position' \in 1 .. Len(Group)
    BY <1>6, NextOfGroup DEF PostWrite, Phases
  <2>2. counter' \in Nat
    BY <1>6 DEF PostWrite
  <2>3. mutex' \in [Plugins -> {Nobody, Main}]
    BY <1>0, <1>6 DEF PostWrite
  <2>4. depth' \in [Plugins -> Nat]
    <3>1. mutex[Current] = Main => depth[Current] = 1
      BY <1>0 DEF MutexInv
    <3>2. QED
      BY <1>0, <1>6, <3>1 DEF PostWrite
  <2>5. QED
    BY <1>6, <2>1, <2>2, <2>3, <2>4 DEF PostWrite
<1>7. ASSUME NEW v \in Parameters, WriteParameter(v)
      PROVE  MathType'
  <2>1. now' \in Nat /\ variable' \in Versions
    BY <1>7 DEF WriteParameter, Versions
  <2>2. updating' \in [Parameters -> SUBSET Plugins]
    BY <1>7 DEF WriteParameter, MathAssumption
  <2>3. QED
    BY <1>7, <2>1, <2>2 DEF WriteParameter
<1>8. ASSUME NEW v \in Parameters, NEW p \in Plugins, UpdateResult(v, p)
      PROVE  MathType'
  <2>1. updating' \in [Parameters -> SUBSET Plugins]
    BY <1>8 DEF UpdateResult
  <2>2. seen' \in [Plugins -> Versions]
    BY <1>8 DEF UpdateResult
  <2>3. allWritten' \in [Plugins -> BOOLEAN]
    <3>1. AllWritten(p, variable) \in BOOLEAN
      BY DEF AllWritten
    <3>2. QED
      BY <1>8, <3>1 DEF UpdateResult
  <2>4. target' \in [Plugins -> Results]
    <3>1. Compute(lastMain[p], variable) \in Results
      BY DEF Compute, Results
    <3>2. QED
      BY <1>8, <3>1 DEF UpdateResult
  <2>5. QED
    BY <1>8, <2>1, <2>2, <2>3, <2>4 DEF UpdateResult
<1>9. CASE UNCHANGED mathVars
  BY <1>9 DEF mathVars
<1>10. QED
  BY <1>1, <1>2, <1>3, <1>4, <1>5, <1>6, <1>7, <1>8, <1>9 DEF MathNext

-----------------------------------------------------------------------------
(* The mutexes *)

\* doPreWrite() takes the mutex of a plugin with push parameters only.
LEMMA LockEffect ==
  ASSUME MathAssumption, MathType, PreWrite
  PROVE  /\ Current \in Push => /\ mutex'[Current] = Main /\ depth'[Current] = depth[Current] + 1
                                /\ counter' = counter + 1
                                /\ lastMain'[Current] = mainValue /\ mainWritten'[Current]
         /\ \A p \in Plugins \ {Current} : /\ mutex'[p] = mutex[p] /\ depth'[p] = depth[p]
                                           /\ lastMain'[p] = lastMain[p]
         /\ Current \notin Push => UNCHANGED <<mutex, depth, counter>>
<1>0. Current \in Plugins
  BY GroupFacts
<1>1. CASE Current \in Push
  <2>1. mutex' = [mutex EXCEPT ![Current] = Main] /\ depth' = [depth EXCEPT ![Current] = @ + 1]
    BY <1>1 DEF PreWrite
  <2>2. counter' = counter + 1 /\ lastMain' = [lastMain EXCEPT ![Current] = mainValue]
    BY <1>1 DEF PreWrite
  <2>3. mainWritten' = [mainWritten EXCEPT ![Current] = TRUE]
    BY <1>1 DEF PreWrite
  <2>4. mainWritten'[Current]
    BY <1>0, <2>3 DEF MathType
  <2>5. QED
    BY <1>0, <1>1, <2>1, <2>2, <2>4 DEF MathType
<1>2. CASE Current \notin Push
  BY <1>2 DEF PreWrite, lock, flags
<1>3. QED
  BY <1>1, <1>2

\* doPostWrite() releases the mutex of its plugin if any is held.
LEMMA UnlockEffect ==
  ASSUME MathAssumption, MathType, MutexInv, PostWrite
  PROVE  /\ counter > 0 => /\ mutex[Current] = Main /\ mutex'[Current] = Nobody /\ depth'[Current] = 0
                           /\ counter' = counter - 1
         /\ counter = 0 => counter' = 0 /\ UNCHANGED <<mutex, depth>>
         /\ \A p \in Plugins \ {Current} : mutex'[p] = mutex[p] /\ depth'[p] = depth[p]
<1>0. Current \in Plugins
  BY GroupFacts
<1>1. CASE counter > 0
  <2>1. HoldsAt(position)
    BY <1>1 DEF HoldsAt, First, PostWrite, MathType
  <2>2. mutex[Current] = Main
    BY <2>1, GroupFacts DEF MutexInv, Current, MathType
  <2>3. depth[Current] = 1
    BY <1>0, <2>2 DEF MutexInv
  <2>4. depth' = [depth EXCEPT ![Current] = @ - 1] /\ counter' = counter - 1
    BY <1>1, <2>2 DEF PostWrite
  <2>5. depth'[Current] = 0
    BY <1>0, <2>3, <2>4 DEF MathType
  <2>6. mutex' = [mutex EXCEPT ![Current] = Nobody]
    BY <1>1, <2>2, <2>5 DEF PostWrite
  <2>7. QED
    BY <1>0, <1>1, <2>2, <2>4, <2>5, <2>6 DEF MathType
<1>2. CASE counter = 0
  BY <1>2 DEF PostWrite
<1>3. QED
  BY <1>1, <1>2 DEF MathType

LEMMA MutexInit == ASSUME MathAssumption, MathInit PROVE MutexInv
<1>1. Len(Group) \in Nat \ {0} /\ DOMAIN Group = 1 .. Len(Group) /\ \A i \in 1 .. Len(Group) : Group[i] \in Plugins
  BY TypeInit, GroupFacts
<1>2. Main # Nobody
  BY DEF MathAssumption
<1>3. QED
  BY <1>1, <1>2 DEF MathInit, MutexInv, HoldsAt, First

LEMMA MutexStep ==
  ASSUME MathAssumption, MathType, MutexInv, FailureInv, [MathNext]_mathVars
  PROVE  MutexInv'
<1> DEFINE n == Len(Group)
<1>0. /\ n \in Nat \ {0} /\ DOMAIN Group = 1 .. n /\ Current \in Plugins
      /\ \A i \in 1 .. n : Group[i] \in Plugins
      /\ \A i, j \in 1 .. n : i # j => Group[i] # Group[j]
      /\ \A i, j \in 1 .. n : i < j /\ Group[j] \in Push => Group[i] \in Push
      /\ position \in 1 .. n /\ counter \in Nat /\ Main # Nobody
  BY GroupFacts DEF MathType, MathAssumption
<1> HIDE DEF n
<1>1. ASSUME UNCHANGED <<mutex, depth, counter, position, mathPc, thrown>>, mathOpen' => mathOpen
      PROVE  MutexInv'
  BY <1>1 DEF MutexInv, HoldsAt, First
<1>2. CASE FailMath \/ UNCHANGED mathVars
  <2>1. UNCHANGED <<mutex, depth, counter, position, mathPc, thrown>> /\ (mathOpen' => mathOpen)
    BY <1>2 DEF FailMath, mathVars, lock, mainThread
  <2>2. QED
    BY <1>1, <2>1
<1>3. ASSUME NEW v \in Parameters, WriteParameter(v) \/ (\E p \in Plugins : UpdateResult(v, p))
      PROVE  MutexInv'
  <2>1. UNCHANGED <<mutex, depth, counter, position, mathPc, thrown>> /\ (mathOpen' => mathOpen)
    BY <1>3 DEF WriteParameter, UpdateResult, lock, mainThread
  <2>2. QED
    BY <1>1, <2>1
<1>4. CASE OpenMath
  BY <1>4 DEF OpenMath, lock, mainThread, MutexInv, HoldsAt, First
<1>5. CASE BeginMain
  <2>1. /\ mathPc = "idle" /\ mathPc' = "update" /\ position' = 1 /\ thrown' = {} /\ counter = 0
        /\ UNCHANGED <<mutex, depth, counter, mathOpen>>
    BY <1>5 DEF BeginMain, lock, MutexInv
  <2>2. QED
    BY <1>0, <2>1 DEF MutexInv, HoldsAt, First, n
<1>6. CASE UpdateParameters
  <2>1. mathPc = "update" /\ UNCHANGED <<mutex, depth, counter, mathOpen>>
    BY <1>6 DEF UpdateParameters, lock
  <2>2. CASE mathOpen
    <3>1. mathPc' = "pre" /\ UNCHANGED <<position, thrown>>
      BY <1>6, <2>2 DEF UpdateParameters
    <3>2. QED
      BY <2>1, <3>1 DEF MutexInv, HoldsAt, First
  <2>3. CASE ~mathOpen
    <3>1. thrown' = thrown \cup {Current} /\ Step("update", "post")
      BY <1>6, <2>3 DEF UpdateParameters
    <3>2. thrown' # {}
      BY <3>1
    <3>3. mathPc' = "update" \/ (mathPc' = "post" /\ position' = 1)
      BY <3>1 DEF Step
    <3>4. First = 1 /\ First' = 1
      BY <2>1, <3>3 DEF First
    <3>5. QED
      BY <2>1, <2>3, <3>2, <3>3, <3>4 DEF MutexInv, HoldsAt
  <2>4. QED
    BY <2>2, <2>3
<1>7. CASE PreWrite
  <2>1. mathPc = "pre" /\ thrown = {} /\ UNCHANGED <<thrown, mathOpen>> /\ Step("update", "transfer")
    BY <1>7 DEF PreWrite, FailureInv
  <2>2. \/ position < n /\ mathPc' = "update" /\ position' = position + 1
        \/ position = n /\ mathPc' = "transfer" /\ position' = 1
    BY <2>1, NextOfGroup DEF Phases, n
  <2>3. First = 1 /\ First' = 1
    BY <2>1, <2>2 DEF First
  <2>4. counter < position /\ \A i \in 1 .. position - 1 : Group[i] \in Push => i <= counter
    BY <2>1 DEF MutexInv
  <2>5. CASE Current \in Push
    <3>1. counter = position - 1
      <4>1. CASE position = 1
        BY <1>0, <2>4, <4>1
      <4>2. CASE position > 1
        <5>1. position - 1 \in 1 .. n /\ position - 1 \in 1 .. position - 1
          BY <1>0, <4>2
        <5>2. Group[position - 1] \in Push
          BY <1>0, <2>5, <5>1 DEF Current
        <5>3. QED
          BY <1>0, <2>4, <5>1, <5>2
      <4>3. QED
        BY <1>0, <4>1, <4>2
    <3>2. /\ mutex'[Current] = Main /\ depth'[Current] = depth[Current] + 1 /\ counter' = position
          /\ \A p \in Plugins \ {Current} : mutex'[p] = mutex[p] /\ depth'[p] = depth[p]
      BY <1>0, <1>7, <2>5, <3>1, LockEffect
    <3>3. Current = Group[position]
      BY DEF Current
    <3>4. ~HoldsAt(position)
      BY <1>0, <2>3, <3>1 DEF HoldsAt
    <3>5. depth[Current] = 0
      BY <1>0, <3>3, <3>4 DEF MutexInv
    <3>6. \A i \in 1 .. n : mutex'[Group[i]] = Main <=> HoldsAt(i)'
      <4>1. SUFFICES ASSUME NEW i \in 1 .. n PROVE mutex'[Group[i]] = Main <=> HoldsAt(i)'
        OBVIOUS
      <4>2. HoldsAt(i)' <=> i <= position
        BY <1>0, <2>3, <3>2 DEF HoldsAt
      <4>3. HoldsAt(i) <=> i < position
        BY <1>0, <2>3, <3>1 DEF HoldsAt
      <4>4. CASE i = position
        BY <1>0, <3>2, <3>3, <4>2, <4>4
      <4>5. CASE i # position
        <5>1. mutex'[Group[i]] = mutex[Group[i]]
          BY <1>0, <3>2, <3>3, <4>5
        <5>2. mutex[Group[i]] = Main <=> HoldsAt(i)
          BY <1>0 DEF MutexInv
        <5>3. QED
          BY <1>0, <4>2, <4>3, <4>5, <5>1, <5>2
      <4>6. QED
        BY <4>4, <4>5
    <3>7. \A p \in Plugins : mutex'[p] = Main => \E i \in 1 .. n : Group[i] = p
      BY <1>0, <3>2, <3>3 DEF MutexInv
    <3>8. \A p \in Plugins : depth'[p] = IF mutex'[p] = Main THEN 1 ELSE 0
      BY <1>0, <3>2, <3>5 DEF MutexInv
    <3>9. First' + counter' <= n + 1
      BY <1>0, <2>3, <3>2
    <3>10. mathPc' = "update" => counter' < position' /\ \A i \in 1 .. position' - 1 : i <= counter'
      BY <1>0, <2>2, <3>2
    <3>11. mathPc' = "transfer" => \A i \in 1 .. n : i <= counter'
      BY <1>0, <2>2, <3>2
    <3>12. QED
      BY <1>0, <2>2, <3>6, <3>7, <3>8, <3>9, <3>10, <3>11 DEF MutexInv, n
  <2>6. CASE Current \notin Push
    <3>1. UNCHANGED <<mutex, depth, counter>>
      BY <1>7, <2>6, LockEffect
    <3>2. \A i \in 1 .. position : Group[i] \in Push => i <= counter
      BY <1>0, <2>4, <2>6 DEF Current
    <3>3. mathPc' = "update" => counter' < position' /\ \A i \in 1 .. position' - 1 : Group[i] \in Push => i <= counter'
      BY <1>0, <2>2, <2>4, <3>1, <3>2
    <3>4. mathPc' = "transfer" => \A i \in 1 .. n : Group[i] \in Push => i <= counter'
      BY <1>0, <2>2, <3>1, <3>2
    <3>5. QED
      BY <1>0, <2>2, <2>3, <3>1, <3>3, <3>4 DEF MutexInv, HoldsAt, n
  <2>7. QED
    BY <2>5, <2>6
<1>8. CASE Transfer
  <2>1. mathPc = "transfer" /\ UNCHANGED <<mutex, depth, counter, mathOpen>> /\ Step("transfer", "post")
    BY <1>8 DEF Transfer, lock
  <2>2. mathPc' = "transfer" \/ (mathPc' = "post" /\ position' = 1)
    BY <2>1 DEF Step
  <2>3. First = 1 /\ First' = 1
    BY <2>1, <2>2 DEF First
  <2>4. QED
    BY <2>1, <2>2, <2>3 DEF MutexInv, HoldsAt
<1>9. CASE PostWrite
  <2>1. mathPc = "post" /\ Step("post", "idle")
    BY <1>9 DEF PostWrite
  <2>2. \/ position < n /\ mathPc' = "post" /\ position' = position + 1
        \/ position = n /\ mathPc' = "idle" /\ position' = 1
    BY <2>1, NextOfGroup DEF Phases, n
  <2>3. First = position /\ position + counter <= n + 1
    BY <2>1 DEF First, MutexInv, n
  <2>4. counter' = (IF counter > 0 THEN counter - 1 ELSE 0)
    BY <1>0, <1>9, UnlockEffect
  <2>5. First' + counter' <= n + 1 /\ (mathPc' = "idle" => counter' = 0)
    BY <1>0, <2>2, <2>3, <2>4 DEF First
  <2>6. Current = Group[position]
    BY DEF Current
  <2>7. mutex'[Current] # Main
    <3>1. CASE counter > 0
      BY <1>0, <1>9, <3>1, UnlockEffect
    <3>2. CASE counter = 0
      <4>1. ~HoldsAt(position)
        BY <1>0, <2>3, <3>2 DEF HoldsAt
      <4>2. QED
        BY <1>0, <1>9, <2>6, <3>2, <4>1, UnlockEffect DEF MutexInv
    <3>3. QED
      BY <1>0, <3>1, <3>2
  <2>8. \A i \in 1 .. n : mutex'[Group[i]] = Main <=> HoldsAt(i)'
    <3>1. SUFFICES ASSUME NEW i \in 1 .. n PROVE mutex'[Group[i]] = Main <=> HoldsAt(i)'
      OBVIOUS
    <3>2. HoldsAt(i)' <=> i # position /\ HoldsAt(i)
      BY <1>0, <2>2, <2>3, <2>4 DEF HoldsAt, First
    <3>3. CASE i = position
      BY <2>6, <2>7, <3>2, <3>3
    <3>4. CASE i # position
      <4>1. mutex'[Group[i]] = mutex[Group[i]]
        BY <1>0, <1>9, <2>6, <3>4, UnlockEffect
      <4>2. mutex[Group[i]] = Main <=> HoldsAt(i)
        BY <1>0 DEF MutexInv
      <4>3. QED
        BY <3>2, <3>4, <4>1, <4>2
    <3>5. QED
      BY <3>3, <3>4
  <2>9. \A p \in Plugins : mutex'[p] = Main => mutex[p] = Main
    BY <1>9, <2>7, UnlockEffect
  <2>10. \A p \in Plugins : depth'[p] = IF mutex'[p] = Main THEN 1 ELSE 0
    <3>1. depth'[Current] = 0
      <4>1. CASE counter > 0
        BY <1>9, <4>1, UnlockEffect
      <4>2. CASE counter = 0
        BY <1>0, <1>9, <2>7, <4>2, UnlockEffect DEF MutexInv
      <4>3. QED
        BY <1>0, <4>1, <4>2
    <3>2. QED
      BY <1>9, <2>7, <3>1, UnlockEffect DEF MutexInv
  <2>11. QED
    BY <1>0, <2>2, <2>5, <2>8, <2>9, <2>10 DEF MutexInv, n
<1>10. QED
  BY <1>2, <1>3, <1>4, <1>5, <1>6, <1>7, <1>8, <1>9 DEF MathNext

\* Between the operations no mutex is held.
LEMMA NothingHeld ==
  ASSUME MathAssumption, MathType, MutexInv, mathPc = "idle"
  PROVE  \A p \in Plugins : mutex[p] = Nobody
<1>1. \A i \in DOMAIN Group : ~HoldsAt(i)
  BY GroupFacts DEF MutexInv, HoldsAt, First, MathType
<1>2. ASSUME NEW p \in Plugins, mutex[p] = Main
      PROVE  FALSE
  <2>1. PICK i \in DOMAIN Group : Group[i] = p
    BY <1>2 DEF MutexInv
  <2>2. QED
    BY <1>1, <1>2, <2>1 DEF MutexInv
<1>3. QED
  BY <1>2 DEF MathType

-----------------------------------------------------------------------------
(* Failures, and what the plugins have seen *)

LEMMA FailureStep ==
  ASSUME MathAssumption, MathType, FailureInv, [MathNext]_mathVars
  PROVE  FailureInv'
<1>1. CASE OpenMath \/ FailMath \/ BeginMain \/ UNCHANGED mathVars
  BY <1>1 DEF OpenMath, FailMath, BeginMain, mathVars, mainThread, FailureInv
<1>2. CASE UpdateParameters
  <2>1. CASE mathOpen
    BY <1>2, <2>1 DEF UpdateParameters, FailureInv
  <2>2. CASE ~mathOpen
    BY <1>2, <2>2 DEF UpdateParameters, FailureInv, Step
  <2>3. QED
    BY <2>1, <2>2
<1>3. CASE PreWrite
  <2>1. mathPc' # "pre" /\ thrown' = {}
    BY <1>3 DEF PreWrite, Step, FailureInv
  <2>2. QED
    BY <2>1 DEF FailureInv
<1>4. CASE Transfer
  BY <1>4 DEF Transfer, Step, FailureInv
<1>5. CASE PostWrite
  BY <1>5 DEF PostWrite, Step, FailureInv
<1>6. ASSUME NEW v \in Parameters, WriteParameter(v) \/ (\E p \in Plugins : UpdateResult(v, p))
      PROVE  FailureInv'
  BY <1>6 DEF WriteParameter, UpdateResult, mainThread, FailureInv
<1>7. QED
  BY <1>1, <1>2, <1>3, <1>4, <1>5, <1>6 DEF MathNext

LEMMA SeenStep ==
  ASSUME MathAssumption, MathType, MutexInv, FailureInv, SeenInv, [MathNext]_mathVars
  PROVE  SeenInv'
<1>0. Push \subseteq Plugins /\ Current \in Plugins /\ Main # Nobody
  BY GroupFacts DEF MathAssumption
<1>1. CASE OpenMath \/ BeginMain
  <2>1. \A p \in Push : mutex'[p] # Main
    BY <1>0, <1>1, NothingHeld DEF OpenMath, BeginMain, lock
  <2>2. mathPc' # "pre"
    BY <1>1 DEF OpenMath, BeginMain, mainThread
  <2>3. QED
    BY <2>1, <2>2 DEF SeenInv
<1>2. CASE FailMath
  BY <1>2 DEF FailMath, SeenInv
<1>3. CASE UpdateParameters
  <2>1. CASE ~mathOpen
    BY <1>3, <2>1 DEF UpdateParameters, SeenInv
  <2>2. CASE mathOpen
    <3>1. seen' = [seen EXCEPT ![Current] = variable] /\ Current' = Current
          /\ UNCHANGED <<variable, mutex, updating, mathOpen>>
      BY <1>3, <2>2 DEF UpdateParameters, lock, Current
    <3>2. seen'[Current] = variable /\ \A p \in Plugins \ {Current} : seen'[p] = seen[p]
      BY <1>0, <3>1 DEF MathType
    <3>3. QED
      BY <1>0, <2>2, <3>1, <3>2 DEF SeenInv, Pending
  <2>3. QED
    BY <2>1, <2>2
<1>4. CASE PreWrite
  <2>1. mathPc = "pre" /\ mathPc' # "pre" /\ UNCHANGED <<variable, seen, updating, mathOpen>>
    BY <1>4 DEF PreWrite, Step
  <2>2. \A p \in Push : mutex'[p] = Main => mutex[p] = Main \/ p = Current
    BY <1>0, <1>4, LockEffect
  <2>3. QED
    BY <2>1, <2>2 DEF SeenInv, Pending
<1>5. CASE Transfer
  <2>1. mathPc' # "pre" /\ UNCHANGED <<variable, seen, updating, mathOpen, mutex>>
    BY <1>5 DEF Transfer, Step, lock
  <2>2. QED
    BY <2>1 DEF SeenInv, Pending
<1>6. CASE PostWrite
  <2>1. mathPc' # "pre" /\ UNCHANGED <<variable, seen, updating, mathOpen>>
    BY <1>6 DEF PostWrite, Step
  <2>2. \A p \in Push : mutex'[p] = Main => mutex[p] = Main
    BY <1>0, <1>6, UnlockEffect DEF MathType
  <2>3. QED
    BY <2>1, <2>2 DEF SeenInv, Pending
<1>7. ASSUME NEW v \in Parameters, WriteParameter(v)
      PROVE  SeenInv'
  <2>1. updating'[v] = Push
    BY <1>7 DEF WriteParameter, MathType
  <2>2. QED
    BY <2>1 DEF SeenInv, Pending
<1>8. ASSUME NEW v \in Parameters, NEW q \in Plugins, UpdateResult(v, q)
      PROVE  SeenInv'
  <2>1. UNCHANGED <<variable, mathOpen, mutex, mathPc, Current>>
    BY <1>8 DEF UpdateResult, lock, mainThread, Current
  <2>2. CASE ~mathOpen
    BY <2>1, <2>2 DEF SeenInv
  <2>3. CASE mathOpen
    <3>1. seen'[q] = variable /\ \A p \in Plugins \ {q} : seen'[p] = seen[p]
      BY <1>8, <2>3 DEF UpdateResult, MathType
    <3>2. \A p \in Plugins \ {q} : Pending(p) => Pending(p)'
      BY <1>8 DEF UpdateResult, Pending, MathType
    <3>3. SUFFICES ASSUME NEW p \in Push, mutex[p] = Main \/ (mathPc = "pre" /\ p = Current)
                   PROVE  Pending(p)' \/ seen'[p] = variable
      BY <2>1 DEF SeenInv
    <3>4. CASE p = q
      BY <3>1, <3>4
    <3>5. CASE p # q
      BY <1>0, <2>3, <3>1, <3>2, <3>3, <3>5 DEF SeenInv
    <3>6. QED
      BY <3>4, <3>5
  <2>4. QED
    BY <2>2, <2>3
<1>9. CASE UNCHANGED mathVars
  BY <1>9 DEF mathVars, SeenInv, Pending, Current
<1>10. QED
  BY <1>1, <1>2, <1>3, <1>4, <1>5, <1>6, <1>7, <1>8, <1>9 DEF MathNext

-----------------------------------------------------------------------------
(* Results *)

\* A plugin whose transfer is to come keeps that state until then.
LEMMA KeepsTransfer ==
  ASSUME MathAssumption, MathType, MutexInv, NEW p \in Plugins, mutex'[p] = mutex[p],
         \/ UNCHANGED <<mathPc, position>>
         \/ mathPc \in {"update", "pre"} /\ mathPc' \in {"update", "pre"}
         \/ mathPc \in {"update", "pre"} /\ mathPc' = "transfer" /\ position' = 1
  PROVE  ToTransfer(p)' <=> ToTransfer(p)
<1>1. mutex[p] = Main => \E i \in DOMAIN Group : Group[i] = p /\ 1 <= i
  BY GroupFacts DEF MutexInv
<1>2. QED
  BY <1>1 DEF ToTransfer

\* A plugin of which nothing changes that its result depends on keeps it.
Same(p) ==
  /\ ToTransfer(p)' <=> ToTransfer(p)
  /\ UNCHANGED <<mathOpen, onOpen, variable, updating>>
  /\ mainWritten'[p] => mainWritten[p]
  /\ lastMain'[p] = lastMain[p] /\ skip'[p] = skip[p] /\ result'[p] = result[p] /\ target'[p] = target[p]

ResultOf(p) ==
  mainWritten[p] /\ ~Pending(p) =>
    IF ToTransfer(p) THEN ~skip[p] /\ result[p] = Compute(lastMain[p], variable)
    ELSE target[p] = Compute(lastMain[p], variable)

LEMMA SameResult ==
  ASSUME NEW p \in Plugins, Same(p), ResultOf(p)
  PROVE  ResultOf(p)'
BY Zenon DEF Same, ResultOf, Pending, Compute

LEMMA ResultStep ==
  ASSUME MathAssumption, MathType, MutexInv, FailureInv, SeenInv, ResultInv, [MathNext]_mathVars
  PROVE  ResultInv'
<1>0. Push \subseteq Plugins /\ Current \in Plugins /\ Main # Nobody
  BY GroupFacts DEF MathAssumption
<1>a. mathOpen /\ AllSet => \A p \in Push : ResultOf(p)
  BY DEF ResultInv, ResultOf
<1>b. SUFFICES ASSUME mathOpen', AllSet', NEW p \in Push
               PROVE  ResultOf(p)'
  BY DEF ResultInv, ResultOf
<1>c. p \in Plugins
  BY <1>0
<1>1. CASE OpenMath
  BY <1>c, <1>1 DEF OpenMath, ResultOf
<1>2. CASE FailMath
  BY <1>b, <1>2 DEF FailMath
<1>3. CASE BeginMain
  <2>1. ~ToTransfer(p) /\ ~ToTransfer(p)'
    BY <1>0, <1>c, <1>3, NothingHeld DEF BeginMain, lock, ToTransfer
  <2>2. UNCHANGED <<mathOpen, onOpen, variable, updating, mainWritten, lastMain, target>>
    BY <1>3 DEF BeginMain, flags
  <2>3. ResultOf(p)
    BY <1>a, <1>b, <2>2 DEF AllSet
  <2>4. QED
    BY <2>1, <2>2, <2>3 DEF ResultOf, Pending
<1>4. CASE UpdateParameters
  <2>1. mathOpen /\ UNCHANGED <<mathOpen, onOpen, variable, updating, mainWritten, lastMain, skip, result,
                                target, mutex>>
    BY <1>b, <1>4 DEF UpdateParameters, flags, lock
  <2>2. mathPc = "update" /\ mathPc' = "pre"
    BY <1>4, <2>1 DEF UpdateParameters
  <2>3. ToTransfer(p)' <=> ToTransfer(p)
    BY <1>c, <2>1, <2>2, KeepsTransfer
  <2>4. QED
    BY <1>a, <1>b, <1>c, <2>1, <2>3, SameResult DEF Same, AllSet
<1>5. CASE PreWrite
  <2>1. /\ mathPc = "pre" /\ UNCHANGED <<mathOpen, onOpen, variable, updating, target, seen>>
        /\ Step("update", "transfer")
    BY <1>5 DEF PreWrite, FailureInv
  <2>2. mathPc' = "update" \/ (mathPc' = "transfer" /\ position' = 1)
    BY <2>1 DEF Step
  <2>3. CASE p # Current
    <3>1. mutex'[p] = mutex[p] /\ lastMain'[p] = lastMain[p]
      BY <1>5, <1>c, <2>3, LockEffect
    <3>2. skip'[p] = skip[p] /\ result'[p] = result[p]
      BY <1>5, <1>c, <2>3 DEF PreWrite, MathType
    <3>3. mainWritten'[p] = mainWritten[p]
      <4>1. CASE Current \in Push
        BY <1>5, <1>c, <2>3, <4>1, Zenon DEF PreWrite, MathType
      <4>2. CASE Current \notin Push
        BY <1>5, <4>2 DEF PreWrite, flags
      <4>3. QED
        BY <4>1, <4>2
    <3>4. ToTransfer(p)' <=> ToTransfer(p)
      BY <1>c, <2>1, <2>2, <3>1, KeepsTransfer
    <3>5. Same(p)
      BY <2>1, <3>1, <3>2, <3>3, <3>4 DEF Same
    <3>6. ResultOf(p)
      BY <1>a, <1>b, <2>1 DEF AllSet
    <3>7. QED
      BY <1>c, <3>5, <3>6, SameResult
  <2>4. CASE p = Current
    <3>1. SUFFICES ASSUME ~Pending(p)'
                   PROVE  ToTransfer(p)' /\ ~skip'[p] /\ result'[p] = Compute(lastMain'[p], variable')
      BY DEF ResultOf
    <3>2. mutex'[p] = Main /\ lastMain'[p] = mainValue
      BY <1>5, <2>4, LockEffect
    <3>3. ToTransfer(p)'
      BY <2>1, <2>2, <2>4, <3>2, GroupFacts DEF ToTransfer, Current, MathType
    <3>4. seen[p] = variable
      BY <1>b, <2>1, <2>4, <3>1 DEF SeenInv, Pending
    <3>5. AllWritten(p, seen[p])
      BY <1>b, <2>1, <3>4 DEF AllWritten, AllSet
    <3>6. allWritten'[p]
      <4>1. allWritten' = [allWritten EXCEPT ![p] = AllWritten(p, seen[p])]
        BY <1>5, <2>4 DEF PreWrite
      <4>2. QED
        BY <1>c, <3>5, <4>1, Zenon DEF MathType
    <3>7. ~skip'[p]
      <4>1. skip' = [skip EXCEPT ![p] = p \in Push /\ ~allWritten'[p]]
        BY <1>5, <2>4 DEF PreWrite
      <4>2. QED
        BY <1>c, <3>6, <4>1, Zenon DEF MathType
    <3>8. result'[p] = Compute(mainValue, seen[p])
      <4>1. result' = [result EXCEPT ![p] = Compute(mainValue, seen[p])]
        BY <1>5, <2>4, <3>7 DEF PreWrite
      <4>2. QED
        BY <1>c, <4>1 DEF MathType
    <3>9. QED
      BY <2>1, <3>2, <3>3, <3>4, <3>7, <3>8
  <2>5. QED
    BY <2>3, <2>4
<1>6. CASE Transfer
  <2>1. /\ mathPc = "transfer" /\ Step("transfer", "post") /\ mathOpen
        /\ UNCHANGED <<mathOpen, onOpen, variable, updating, mainWritten, lastMain, skip, result, mutex>>
    BY <1>b, <1>6 DEF Transfer, flags, lock
  <2>2. \/ position < Len(Group) /\ mathPc' = "transfer" /\ position' = position + 1
        \/ position = Len(Group) /\ mathPc' = "post" /\ position' = 1
    BY <2>1, NextOfGroup DEF Phases
  <2>3. ResultOf(p)
    BY <1>a, <1>b, <2>1 DEF AllSet
  <2>4. CASE p # Current
    <3>1. target'[p] = target[p]
      BY <1>6, <1>c, <2>4 DEF Transfer, MathType
    <3>2. \A i \in DOMAIN Group : Group[i] = p => i # position
      BY <2>4 DEF Current
    <3>3. ToTransfer(p)' <=> ToTransfer(p)
      BY <2>1, <2>2, <3>2, GroupFacts DEF ToTransfer, MathType
    <3>4. QED
      BY <1>c, <2>1, <2>3, <3>1, <3>3, SameResult DEF Same
  <2>5. CASE p = Current
    <3>1. HoldsAt(position)
      BY <2>1, <2>5, GroupFacts DEF MutexInv, HoldsAt, First, Current, MathType
    <3>2. mutex[p] = Main
      BY <2>5, <3>1, GroupFacts DEF MutexInv, Current, MathType
    <3>3. ToTransfer(p)
      BY <2>1, <2>5, <3>2, GroupFacts DEF ToTransfer, Current, MathType
    <3>4. ~ToTransfer(p)'
      <4>1. \A i \in 1 .. Len(Group) : Group[i] = p => i = position
        BY <2>5, GroupFacts DEF Current, MathType
      <4>2. QED
        BY <2>2, <4>1, GroupFacts DEF ToTransfer, MathType
    <3>5. SUFFICES ASSUME mainWritten[p], ~Pending(p)
                   PROVE  target'[p] = Compute(lastMain[p], variable)
      BY <2>1, <3>4 DEF ResultOf, Pending, Compute
    <3>6. ~skip[p] /\ result[p] = Compute(lastMain[p], variable)
      BY <2>3, <3>3, <3>5 DEF ResultOf
    <3>7. target' = [target EXCEPT ![p] = result[p]]
      BY <1>6, <2>1, <2>5, <3>6 DEF Transfer
    <3>8. QED
      BY <1>c, <3>6, <3>7 DEF MathType
  <2>6. QED
    BY <2>4, <2>5
<1>7. CASE PostWrite
  <2>1. /\ mathPc = "post" /\ mathPc' \in {"post", "idle"}
        /\ UNCHANGED <<mathOpen, onOpen, variable, updating, mainWritten, lastMain, skip, result, target>>
    BY <1>7 DEF PostWrite, flags, Step
  <2>2. ~ToTransfer(p) /\ ~ToTransfer(p)'
    BY <2>1 DEF ToTransfer
  <2>3. QED
    BY <1>a, <1>b, <1>c, <2>1, <2>2, SameResult DEF Same, AllSet
<1>8. ASSUME NEW v \in Parameters, WriteParameter(v)
      PROVE  ResultOf(p)'
  <2>1. updating'[v] = Push
    BY <1>8 DEF WriteParameter, MathType
  <2>2. QED
    BY <2>1 DEF ResultOf, Pending
<1>9. ASSUME NEW v \in Parameters, NEW q \in Plugins, UpdateResult(v, q)
      PROVE  ResultOf(p)'
  <2>1. /\ mathOpen /\ mutex[q] = Nobody
        /\ UNCHANGED <<mathOpen, onOpen, variable, mainWritten, lastMain, skip, result, mutex, mathPc,
                       position>>
    BY <1>b, <1>9 DEF UpdateResult, lock, mainThread
  <2>2. ToTransfer(p)' <=> ToTransfer(p)
    BY <1>c, <2>1, KeepsTransfer
  <2>3. CASE p = q
    <3>1. ~ToTransfer(p)'
      BY <1>0, <2>1, <2>2, <2>3 DEF ToTransfer
    <3>2. SUFFICES ASSUME mainWritten[p]
                   PROVE  target'[p] = Compute(lastMain[p], variable)
      BY <2>1, <3>1 DEF ResultOf, Compute
    <3>3. AllWritten(p, variable)
      BY <1>b, <2>1 DEF AllWritten, AllSet
    <3>4. allWritten'[p]
      <4>1. allWritten' = [allWritten EXCEPT ![p] = AllWritten(p, variable)]
        BY <1>9, <2>1, <2>3 DEF UpdateResult
      <4>2. QED
        BY <1>c, <3>3, <4>1, Zenon DEF MathType
    <3>5. target' = [target EXCEPT ![p] = Compute(lastMain[p], variable)]
      BY <1>9, <2>1, <2>3, <3>2, <3>4 DEF UpdateResult
    <3>6. QED
      BY <1>c, <3>5 DEF MathType
  <2>4. CASE p # q
    <3>1. target'[p] = target[p]
      BY <1>9, <1>c, <2>4 DEF UpdateResult, MathType
    <3>2. Pending(p) => Pending(p)'
      BY <1>9, <2>4 DEF UpdateResult, Pending, MathType
    <3>3. ResultOf(p)
      BY <1>a, <1>b, <2>1 DEF AllSet
    <3>4. QED
      BY <2>1, <2>2, <3>1, <3>2, <3>3, Zenon DEF ResultOf, Compute
  <2>5. QED
    BY <2>3, <2>4
<1>10. CASE UNCHANGED mathVars
  <2>1. Same(p)
    BY <1>10 DEF mathVars, Same, ToTransfer
  <2>2. QED
    BY <1>a, <1>b, <1>c, <1>10, <2>1, SameResult DEF mathVars, AllSet
<1>11. QED
  BY <1>1, <1>2, <1>3, <1>4, <1>5, <1>6, <1>7, <1>8, <1>9, <1>10 DEF MathNext

-----------------------------------------------------------------------------
(* Versions *)

\* Versions are numbers, of every variable.
LEMMA VersionFacts ==
  ASSUME MathType
  PROVE  /\ onOpen \in Nat /\ now \in Nat /\ mainValue \in Nat
         /\ \A v \in Parameters : variable[v] \in Nat
         /\ \A p \in Plugins, v \in Parameters : seen[p][v] \in Nat
<1>1. \A p \in Plugins : seen[p] \in [Parameters -> Nat]
  BY DEF MathType, Versions
<1>2. \A v \in Parameters : variable[v] \in Nat
  BY DEF MathType, Versions
<1>3. QED
  BY <1>1, <1>2 DEF MathType

\* The versions of the variables grow, and those which are seen follow.
Grow ==
  /\ onOpen' <= now'
  /\ \A v \in Parameters : variable'[v] \in Nat /\ variable'[v] <= now' /\ variable'[v] >= variable[v]
  /\ \A p \in Plugins, v \in Parameters : seen'[p][v] <= variable'[v]
  /\ mathPc' # "idle" => mainValue' > onOpen'

LEMMA VersionsGrow ==
  ASSUME MathAssumption, MathType, VersionInv, [MathNext]_mathVars
  PROVE  Grow
<1>0. /\ onOpen <= now /\ \A v \in Parameters : variable[v] <= now
      /\ \A p \in Plugins, v \in Parameters : seen[p][v] <= variable[v]
      /\ mathPc # "idle" => mainValue > onOpen
  BY DEF VersionInv
<1>f. /\ onOpen \in Nat /\ now \in Nat /\ mainValue \in Nat
      /\ \A v \in Parameters : variable[v] \in Nat
      /\ \A p \in Plugins, v \in Parameters : seen[p][v] \in Nat
  BY VersionFacts
\* The variables stay, and an accessor of the formula helper may be read.
<1>a. ASSUME NEW q \in Plugins, UNCHANGED <<onOpen, now, variable>>,
             seen' = seen \/ seen' = [seen EXCEPT ![q] = variable],
             mathPc' # "idle" => mainValue' > onOpen
      PROVE  Grow
  <2>1. \A p \in Plugins : seen'[p] = seen[p] \/ seen'[p] = variable
    BY <1>a DEF MathType
  <2>2. \A p \in Plugins, v \in Parameters : seen'[p][v] <= variable[v]
    <3>1. SUFFICES ASSUME NEW p \in Plugins, NEW v \in Parameters
                   PROVE  seen'[p][v] <= variable[v]
      OBVIOUS
    <3>2. seen'[p][v] = seen[p][v] \/ seen'[p][v] = variable[v]
      BY <2>1
    <3>3. QED
      BY <1>0, <1>f, <3>2
  <2>3. QED
    BY <1>0, <1>f, <1>a, <2>2 DEF Grow
<1>b. Current \in Plugins
  BY GroupFacts
<1>1. CASE OpenMath
  <2>1. /\ mathPc' = "idle" /\ now' = now + 1 /\ onOpen' = now' /\ UNCHANGED <<variable, seen>>
    BY <1>1 DEF OpenMath, mainThread
  <2>2. \A v \in Parameters : variable[v] <= now + 1
    BY <1>0, <1>f
  <2>3. QED
    BY <1>0, <1>f, <2>1, <2>2 DEF Grow
<1>2. CASE BeginMain
  <2>1. now' = now + 1 /\ mainValue' = now' /\ UNCHANGED <<onOpen, variable, seen>>
    BY <1>2 DEF BeginMain
  <2>2. \A v \in Parameters : variable[v] <= now + 1
    BY <1>0, <1>f
  <2>3. QED
    BY <1>0, <1>f, <2>1, <2>2 DEF Grow
<1>3. CASE UpdateParameters
  <2>1. /\ UNCHANGED <<onOpen, now, variable, mainValue>> /\ mathPc # "idle"
        /\ seen' = seen \/ seen' = [seen EXCEPT ![Current] = variable]
    BY <1>3 DEF UpdateParameters
  <2>2. QED
    BY <1>0, <1>a, <1>b, <2>1
<1>4. CASE FailMath \/ PreWrite \/ Transfer \/ PostWrite \/ UNCHANGED mathVars
  <2>1. UNCHANGED <<onOpen, now, variable, seen, mainValue>> /\ (mathPc' # "idle" => mathPc # "idle")
    BY <1>4 DEF FailMath, PreWrite, Transfer, PostWrite, mathVars, mainThread
  <2>2. QED
    BY <1>0, <1>a, <1>b, <2>1
<1>5. ASSUME NEW v \in Parameters, WriteParameter(v)
      PROVE  Grow
  <2>1. /\ now' = now + 1 /\ UNCHANGED <<onOpen, seen, mathPc, mainValue>>
        /\ variable'[v] = now + 1 /\ \A u \in Parameters \ {v} : variable'[u] = variable[u]
    BY <1>5 DEF WriteParameter, mainThread, MathType, Versions
  <2>2. \A u \in Parameters : variable'[u] <= now + 1 /\ variable'[u] >= variable[u] /\ variable'[u] \in Nat
    <3>1. SUFFICES ASSUME NEW u \in Parameters
                   PROVE  variable'[u] <= now + 1 /\ variable'[u] >= variable[u] /\ variable'[u] \in Nat
      OBVIOUS
    <3>2. CASE u = v
      BY <1>0, <1>f, <2>1, <3>2
    <3>3. CASE u # v
      BY <1>0, <1>f, <2>1, <3>3
    <3>4. QED
      BY <3>2, <3>3
  <2>4. \A p \in Plugins, u \in Parameters : seen[p][u] <= variable'[u]
    BY <1>0, <1>f, <2>2
  <2>5. QED
    BY <1>0, <1>f, <2>1, <2>2, <2>4 DEF Grow
<1>6. ASSUME NEW v \in Parameters, NEW q \in Plugins, UpdateResult(v, q)
      PROVE  Grow
  <2>1. /\ UNCHANGED <<onOpen, now, variable, mainValue, mathPc>>
        /\ seen' = seen \/ seen' = [seen EXCEPT ![q] = variable]
    BY <1>6 DEF UpdateResult, mainThread
  <2>2. QED
    BY <1>0, <1>a, <2>1
<1>7. QED
  BY <1>1, <1>2, <1>3, <1>4, <1>5, <1>6 DEF MathNext

SeenIsNew(p) == allWritten[p] => AllSet /\ \A v \in Parameters : seen[p][v] > onOpen

\* What counts as written has a version after the opening of the device.
LEMMA SeenStaysNew ==
  ASSUME MathAssumption, MathType, VersionInv, [MathNext]_mathVars, NEW p \in Push
  PROVE  SeenIsNew(p)'
<1>0. p \in Plugins /\ Current \in Plugins
  BY GroupFacts DEF MathAssumption
<1>a. SeenIsNew(p)
  BY DEF VersionInv, SeenIsNew
<1>b. AllSet /\ onOpen' = onOpen => AllSet'
  <2>1. \A v \in Parameters : variable[v] \in Nat /\ variable'[v] \in Nat /\ variable'[v] >= variable[v]
    BY VersionFacts, VersionsGrow DEF Grow
  <2>2. QED
    BY <2>1, VersionFacts DEF AllSet
<1>c. ASSUME UNCHANGED <<onOpen, allWritten, seen>>
      PROVE  SeenIsNew(p)'
  BY <1>a, <1>b, <1>c DEF SeenIsNew
<1>1. CASE OpenMath
  BY <1>0, <1>1 DEF OpenMath, SeenIsNew
<1>2. CASE FailMath \/ BeginMain \/ Transfer \/ PostWrite \/ UNCHANGED mathVars
  <2>1. UNCHANGED <<onOpen, allWritten, seen>>
    BY <1>2 DEF FailMath, BeginMain, Transfer, PostWrite, mathVars, flags
  <2>2. QED
    BY <1>c, <2>1
<1>3. CASE UpdateParameters
  <2>1. /\ UNCHANGED <<onOpen, allWritten, variable>>
        /\ seen' = seen \/ seen' = [seen EXCEPT ![Current] = variable]
    BY <1>3 DEF UpdateParameters, flags
  <2>2. seen'[p] = seen[p] \/ seen'[p] = variable
    BY <1>0, <2>1 DEF MathType
  <2>3. QED
    BY <1>a, <1>b, <2>1, <2>2 DEF SeenIsNew, AllSet
<1>4. CASE PreWrite
  <2>1. UNCHANGED <<onOpen, variable, seen>>
    BY <1>4 DEF PreWrite
  <2>2. allWritten'[p] => allWritten[p] \/ \A v \in Parameters : seen[p][v] > onOpen
    <3>1. CASE Current \in Push
      <4>1. allWritten' = [allWritten EXCEPT ![Current] = AllWritten(Current, seen[Current])]
        BY <1>4, <3>1 DEF PreWrite
      <4>2. allWritten'[p] = (IF p = Current THEN AllWritten(p, seen[p]) ELSE allWritten[p])
        BY <1>0, <4>1, Zenon DEF MathType
      <4>3. QED
        BY <4>2, Zenon DEF AllWritten
    <3>2. CASE Current \notin Push
      BY <1>4, <3>2 DEF PreWrite, flags
    <3>3. QED
      BY <3>1, <3>2
  <2>3. (\A v \in Parameters : seen[p][v] > onOpen) => AllSet
    BY <1>0 DEF VersionInv, AllSet, MathType, Versions
  <2>4. QED
    BY <1>a, <1>b, <2>1, <2>2, <2>3 DEF SeenIsNew
<1>5. ASSUME NEW v \in Parameters, WriteParameter(v)
      PROVE  SeenIsNew(p)'
  <2>1. UNCHANGED <<onOpen, allWritten, seen>>
    BY <1>5 DEF WriteParameter, flags
  <2>2. QED
    BY <1>c, <2>1
<1>6. ASSUME NEW v \in Parameters, NEW q \in Plugins, UpdateResult(v, q)
      PROVE  SeenIsNew(p)'
  <2>1. UNCHANGED <<onOpen, variable>>
    BY <1>6 DEF UpdateResult
  <2>2. CASE mathOpen /\ p = q
    <3>1. seen'[p] = variable
      BY <1>0, <1>6, <2>2 DEF UpdateResult, MathType
    <3>2. allWritten' = [allWritten EXCEPT ![p] = AllWritten(p, variable)]
      BY <1>6, <2>2 DEF UpdateResult
    <3>3. allWritten'[p] = AllWritten(p, variable)
      BY <1>0, <3>2, Zenon DEF MathType
    <3>4. allWritten'[p] => AllSet
      BY <1>a, <3>3 DEF AllWritten, AllSet, SeenIsNew
    <3>5. QED
      BY <2>1, <3>1, <3>4 DEF SeenIsNew, AllSet
  <2>3. CASE ~(mathOpen /\ p = q)
    <3>1. seen'[p] = seen[p]
      BY <1>0, <1>6, <2>3 DEF UpdateResult, MathType
    <3>2. allWritten'[p] = allWritten[p]
      BY <1>0, <1>6, <2>3, Zenon DEF UpdateResult, MathType
    <3>3. QED
      BY <1>a, <1>b, <2>1, <3>1, <3>2 DEF SeenIsNew
  <2>4. QED
    BY <2>2, <2>3
<1>7. QED
  BY <1>1, <1>2, <1>3, <1>4, <1>5, <1>6 DEF MathNext

\* What the main thread writes last is newer than the opening.
MainIsNew(p) == mainWritten[p] => lastMain[p] > onOpen

LEMMA MainStaysNew ==
  ASSUME MathAssumption, MathType, VersionInv, [MathNext]_mathVars, NEW p \in Push
  PROVE  MainIsNew(p)'
<1>0. p \in Plugins /\ Current \in Plugins
  BY GroupFacts DEF MathAssumption
<1>a. MainIsNew(p)
  BY DEF VersionInv, MainIsNew
<1>1. CASE OpenMath
  BY <1>0, <1>1 DEF OpenMath, MainIsNew
<1>2. ASSUME UNCHANGED <<onOpen, mainWritten, lastMain>>
      PROVE  MainIsNew(p)'
  BY <1>a, <1>2 DEF MainIsNew
<1>3. CASE PreWrite
  <2>1. CASE p = Current
    <3>1. lastMain'[p] = mainValue /\ mainValue > onOpen /\ onOpen' = onOpen
      BY <1>3, <2>1, LockEffect DEF PreWrite, VersionInv
    <3>2. QED
      BY <3>1 DEF MainIsNew
  <2>2. CASE p # Current
    <3>1. lastMain'[p] = lastMain[p] /\ onOpen' = onOpen
      BY <1>0, <1>3, <2>2, LockEffect DEF PreWrite
    <3>2. mainWritten'[p] = mainWritten[p]
      <4>1. CASE Current \in Push
        BY <1>0, <1>3, <2>2, <4>1, Zenon DEF PreWrite, MathType
      <4>2. CASE Current \notin Push
        BY <1>3, <4>2 DEF PreWrite, flags
      <4>3. QED
        BY <4>1, <4>2
    <3>3. QED
      BY <1>a, <3>1, <3>2 DEF MainIsNew
  <2>3. QED
    BY <2>1, <2>2
<1>4. CASE FailMath \/ BeginMain \/ UpdateParameters \/ Transfer \/ PostWrite \/ UNCHANGED mathVars
  <2>1. UNCHANGED <<onOpen, mainWritten, lastMain>>
    BY <1>4 DEF FailMath, BeginMain, UpdateParameters, Transfer, PostWrite, mathVars, flags
  <2>2. QED
    BY <1>2, <2>1
<1>5. ASSUME NEW v \in Parameters, WriteParameter(v) \/ \E q \in Plugins : UpdateResult(v, q)
      PROVE  MainIsNew(p)'
  <2>1. UNCHANGED <<onOpen, mainWritten, lastMain>>
    BY <1>5 DEF WriteParameter, UpdateResult, flags
  <2>2. QED
    BY <1>2, <2>1
<1>6. QED
  BY <1>1, <1>3, <1>4, <1>5 DEF MathNext

\* What waits for its transfer was computed from values which are new.
Waiting(p) == mutex[p] = Main /\ mathPc \in {"update", "pre", "transfer"} /\ ~skip[p]
ResultIsNew(p) == Waiting(p) => NewResult(p)

LEMMA ResultStaysNew ==
  ASSUME MathAssumption, MathType, VersionInv, [MathNext]_mathVars, NEW p \in Push
  PROVE  ResultIsNew(p)'
<1>0. p \in Plugins /\ Current \in Plugins
  BY GroupFacts DEF MathAssumption
<1>a. ResultIsNew(p)
  BY DEF VersionInv, ResultIsNew, Waiting
<1>1. CASE OpenMath
  BY <1>1 DEF OpenMath, mainThread, ResultIsNew, Waiting
<1>2. CASE BeginMain
  BY <1>0, <1>2 DEF BeginMain, ResultIsNew, Waiting
<1>3. ASSUME UNCHANGED <<onOpen, result>>, Waiting(p)' => Waiting(p)
      PROVE  ResultIsNew(p)'
  BY <1>a, <1>3 DEF ResultIsNew, NewResult
<1>4. CASE FailMath \/ UNCHANGED mathVars
  <2>1. UNCHANGED <<onOpen, result>> /\ (Waiting(p)' => Waiting(p))
    BY <1>4 DEF FailMath, mathVars, lock, mainThread, Waiting
  <2>2. QED
    BY <1>3, <2>1
<1>5. CASE UpdateParameters \/ Transfer \/ PostWrite
  <2>1. UNCHANGED <<onOpen, result, skip>>
    BY <1>5 DEF UpdateParameters, Transfer, PostWrite
  <2>2. CASE PostWrite
    BY <2>2 DEF PostWrite, Step, ResultIsNew, Waiting
  <2>3. CASE UpdateParameters \/ Transfer
    <3>1. mutex' = mutex /\ mathPc \in {"update", "transfer"}
      BY <2>3 DEF UpdateParameters, Transfer, lock
    <3>2. QED
      BY <1>3, <2>1, <3>1 DEF Waiting
  <2>4. QED
    BY <1>5, <2>2, <2>3
<1>6. CASE PreWrite
  <2>1. mathPc = "pre" /\ UNCHANGED <<onOpen, seen>>
    BY <1>6 DEF PreWrite
  <2>2. CASE p # Current
    <3>1. mutex'[p] = mutex[p]
      BY <1>0, <1>6, <2>2, LockEffect
    <3>2. skip'[p] = skip[p] /\ result'[p] = result[p]
      BY <1>0, <1>6, <2>2 DEF PreWrite, MathType
    <3>3. Waiting(p)' => Waiting(p)
      BY <2>1, <3>1, <3>2, Zenon DEF Waiting
    <3>4. QED
      BY <1>a, <2>1, <3>2, <3>3 DEF ResultIsNew, NewResult
  <2>3. CASE p = Current
    <3>1. SUFFICES ASSUME ~skip'[p]
                   PROVE  NewResult(p)'
      BY DEF ResultIsNew, Waiting
    <3>2. allWritten'[p]
      <4>1. skip' = [skip EXCEPT ![p] = p \in Push /\ ~allWritten'[p]]
        BY <1>6, <2>3 DEF PreWrite
      <4>2. QED
        BY <1>0, <3>1, <4>1, Zenon DEF MathType
    <3>3. \A v \in Parameters : seen[p][v] > onOpen
      BY <2>1, <3>2, SeenStaysNew DEF SeenIsNew
    <3>4. result' = [result EXCEPT ![p] = Compute(mainValue, seen[p])]
      BY <1>6, <2>3, <3>1 DEF PreWrite
    <3>5. result'[p] = Compute(mainValue, seen[p])
      BY <1>0, <3>4 DEF MathType
    <3>6. mainValue > onOpen
      BY <2>1 DEF VersionInv
    <3>7. QED
      BY <2>1, <3>3, <3>5, <3>6 DEF NewResult, Compute
  <2>4. QED
    BY <2>2, <2>3
<1>7. ASSUME NEW v \in Parameters, WriteParameter(v) \/ \E q \in Plugins : UpdateResult(v, q)
      PROVE  ResultIsNew(p)'
  <2>1. UNCHANGED <<onOpen, result>> /\ (Waiting(p)' => Waiting(p))
    BY <1>7 DEF WriteParameter, UpdateResult, lock, mainThread, Waiting
  <2>2. QED
    BY <1>3, <2>1
<1>8. QED
  BY <1>1, <1>2, <1>4, <1>5, <1>6, <1>7 DEF MathNext

LEMMA VersionStep ==
  ASSUME MathAssumption, MathType, VersionInv, [MathNext]_mathVars
  PROVE  VersionInv'
<1>1. Grow
  BY VersionsGrow
<1>2. \A p \in Push : MainIsNew(p)' /\ SeenIsNew(p)' /\ ResultIsNew(p)'
  BY MainStaysNew, SeenStaysNew, ResultStaysNew
<1>3. QED
  BY <1>1, <1>2 DEF VersionInv, Grow, MainIsNew, SeenIsNew, ResultIsNew, Waiting

-----------------------------------------------------------------------------
(* The invariant *)

LEMMA MathInvInit == ASSUME MathAssumption, MathInit PROVE MathInv
<1>1. MathType /\ MutexInv
  BY TypeInit, MutexInit
<1>2. mathPc = "idle" /\ ~mathOpen /\ onOpen = 0 /\ now = 0
  BY DEF MathInit
<1>3. FailureInv /\ SeenInv /\ ResultInv
  BY <1>2 DEF FailureInv, SeenInv, ResultInv
<1>4. Push \subseteq Plugins
  BY DEF MathAssumption
<1>5. /\ \A v \in Parameters : variable[v] <= now
      /\ \A p \in Plugins, v \in Parameters : seen[p][v] <= variable[v]
  BY DEF MathInit
<1>6. \A p \in Push : ~mainWritten[p] /\ ~allWritten[p] /\ skip[p]
  BY <1>4 DEF MathInit
<1>7. VersionInv
  BY <1>2, <1>5, <1>6 DEF VersionInv
<1>8. QED
  BY <1>1, <1>3, <1>7 DEF MathInv

LEMMA MathInvStep == ASSUME MathAssumption, MathInv, [MathNext]_mathVars PROVE MathInv'
BY TypeStep, MutexStep, FailureStep, SeenStep, ResultStep, VersionStep DEF MathInv

LEMMA MathInvImplies == ASSUME MathAssumption, MathInv PROVE ResultsAreCurrent
<1>1. MutexIsReleased
  <2>1. SUFFICES ASSUME mathPc = "idle"
                 PROVE  counter = 0 /\ \A p \in Plugins : mutex[p] = Nobody
    BY DEF MutexIsReleased
  <2>2. MathType /\ MutexInv
    BY DEF MathInv
  <2>3. \A p \in Plugins : mutex[p] = Nobody
    BY <2>1, <2>2, NothingHeld
  <2>4. counter = 0
    BY <2>1, <2>2 DEF MutexInv
  <2>5. QED
    BY <2>3, <2>4
<1>2. ResultIsCurrent
  <2>1. SUFFICES ASSUME mathPc = "idle", \A v \in Parameters : updating[v] = {}, mathOpen,
                        NEW p \in Push, mainWritten[p], AllSet
                 PROVE  target[p] = Compute(lastMain[p], variable)
    BY Zenon DEF ResultIsCurrent, Quiet, AllSet
  <2>2. ~Pending(p) /\ ~ToTransfer(p)
    BY <2>1 DEF Pending, ToTransfer
  <2>3. QED
    BY <2>1, <2>2 DEF MathInv, ResultInv
<1>3. QED
  BY <1>1, <1>2 DEF ResultsAreCurrent

-----------------------------------------------------------------------------
(* Theorems *)

(***************************************************************************)
(* When nothing is going on, the device has the result for the last values *)
(* of the register and of its parameters, and no mutex is left locked,     *)
(* whatever the order in which the threads write and the device fails and  *)
(* is opened again.                                                        *)
(***************************************************************************)
THEOREM ResultsStayCurrent == ASSUME MathAssumption PROVE MathSpec => []ResultsAreCurrent
<1>1. MathInit => MathInv
  BY MathInvInit
<1>2. MathInv /\ [MathNext]_mathVars => MathInv'
  BY MathInvStep
<1>3. MathInv => ResultsAreCurrent
  BY MathInvImplies
<1>4. QED
  BY <1>1, <1>2, <1>3, PTL DEF MathSpec

(***************************************************************************)
(* Nothing goes to the device which was computed from a value that is      *)
(* older than its opening, by none of the threads.                         *)
(***************************************************************************)
THEOREM NothingOldArrives == ASSUME MathAssumption PROVE MathSpec => NothingOldIsWritten
<1>1. MathInit => MathInv
  BY MathInvInit
<1>2. MathInv /\ [MathNext]_mathVars => MathInv'
  BY MathInvStep
<1>3. MathInv /\ [MathNext]_mathVars => [WritesNothingOld]_mathVars
  <2>1. SUFFICES ASSUME MathInv, MathNext, NEW p \in Push, target'[p] # target[p]
                 PROVE  target'[p].x > onOpen /\ \A v \in Parameters : target'[p].params[v] > onOpen
    BY DEF WritesNothingOld
  <2>2. p \in Plugins /\ Current \in Plugins
    BY <2>1, GroupFacts DEF MathAssumption, MathInv
  <2>3. CASE Transfer
    <3>1. mathPc = "transfer" /\ p = Current /\ mathOpen /\ ~skip[p] /\ target'[p] = result[p]
      BY <2>1, <2>2, <2>3 DEF Transfer, MathInv, MathType
    <3>2. HoldsAt(position)
      BY <2>1, <3>1, GroupFacts DEF MathInv, MutexInv, HoldsAt, First, Current, MathType
    <3>3. mutex[p] = Main
      BY <2>1, <3>1, <3>2, GroupFacts DEF MathInv, MutexInv, Current, MathType
    <3>4. NewResult(p)
      BY <2>1, <3>1, <3>3 DEF MathInv, VersionInv
    <3>5. QED
      BY <3>1, <3>4 DEF NewResult
  <2>4. ASSUME NEW v \in Parameters, NEW q \in Plugins, UpdateResult(v, q)
        PROVE  target'[p].x > onOpen /\ \A u \in Parameters : target'[p].params[u] > onOpen
    <3>1. /\ p = q /\ mathOpen /\ allWritten'[p] /\ mainWritten[p]
          /\ target' = [target EXCEPT ![p] = Compute(lastMain[p], variable)]
      BY <2>1, <2>2, <2>4 DEF UpdateResult, MathInv, MathType
    <3>2. target'[p] = Compute(lastMain[p], variable)
      BY <2>1, <2>2, <3>1 DEF MathInv, MathType
    <3>3. AllSet
      <4>1. allWritten' = [allWritten EXCEPT ![p] = AllWritten(p, variable)]
        BY <2>4, <3>1 DEF UpdateResult
      <4>2. AllWritten(p, variable)
        BY <2>1, <2>2, <3>1, <4>1, Zenon DEF MathInv, MathType
      <4>3. QED
        BY <2>1, <4>2 DEF AllWritten, AllSet, MathInv, VersionInv
    <3>4. lastMain[p] > onOpen
      BY <2>1, <3>1 DEF MathInv, VersionInv
    <3>5. QED
      BY <3>2, <3>3, <3>4 DEF AllSet, Compute
  <2>5. CASE UNCHANGED target
    BY <2>1, <2>5
  <2>6. QED
    BY <2>1, <2>3, <2>4, <2>5
       DEF MathNext, OpenMath, FailMath, BeginMain, UpdateParameters, PreWrite, PostWrite, WriteParameter
<1>4. QED
  BY <1>1, <1>2, <1>3, PTL DEF MathSpec, NothingOldIsWritten

-----------------------------------------------------------------------------
(* ReadAnyGroup: the inductive invariant. Each entry of a linked queue has   *)
(* one notification, and every element which may be accepted is prepared.    *)

Entries == [kind : Kinds, number : Nat, late : BOOLEAN]
CallNames == {"idle", "waitAny", "readAny", "waitAnyNonBlocking", "readAnyNonBlocking", "accept",
              "acceptNonBlocking", "polling"}

EntriesType == queue \in [PushElements -> Seq(Entries)] /\ \A e \in PushElements : Len(queue[e]) <= QueueSize

ElementsType ==
  /\ inProgress \in [PushElements -> BOOLEAN] /\ active \in [PushElements -> BOOLEAN]
  /\ buffer \in [Elements -> Nat] /\ taken \in [PushElements -> Entries \cup {Nothing}]

CallType ==
  /\ retains \in BOOLEAN /\ opened \in BOOLEAN /\ terminated \in BOOLEAN /\ pushed \in Nat /\ finalisedAt \in Nat
  /\ lastOperation \in PushElements \cup {"all", "discarded"}
  /\ call \in CallNames /\ fetched \in PushElements \cup {"none"} /\ (Accepting => fetched \in PushElements)
  /\ polls \in Seq(PollElements) /\ returned \in PushElements \cup {"none", "exception"}

\* The elements are added in their order, each of them once, and the functions
\* which need the group to be finalised have not been called before it is.
SetupInv ==
  /\ pushElements \in Seq(PushElements) /\ pollElements \in Seq(PollElements)
  /\ linked \in 0 .. Len(pushElements)
  /\ \A i \in DOMAIN pushElements :
       \E k \in 1 .. Len(pushElements) + Len(pollElements) : pushElements[i] = Members[k]
  /\ \A i, k \in DOMAIN pushElements : pushElements[i] = pushElements[k] => i = k
  /\ ~isFinalised =>
       /\ call = "idle" /\ returned = "none" /\ lastOperation = "all"
       /\ \A e \in PushElements : ~inProgress[e] /\ held[e] = 0

\* The entries of a linked queue are notified, retained, or being accepted.
Fetched(e) == IF Accepting /\ fetched = e THEN 1 ELSE 0
CountInv ==
  /\ notifications \in Seq(PushElements) /\ held \in [PushElements -> Nat]
  /\ \A e \in PushElements :
       IF Linked(e) THEN Len(queue[e]) = Notified(e) + held[e] + Fetched(e)
       ELSE Notified(e) = 0 /\ held[e] = 0 /\ Fetched(e) = 0

\* Updates are numbered in the order in which they are pushed.
NumberInv ==
  /\ finalisedAt <= pushed
  /\ \A e \in PushElements :
       taken[e].number <= pushed /\ \A i \in DOMAIN queue[e] : queue[e][i].number <= pushed

\* An application which accepts each notification before it waits again has at
\* most one, and all elements but the one of the last operation are prepared.
OneHeld ==
  /\ call # "idle" => \A e \in PushElements : held[e] = 0
  /\ \A e \in PushElements : held[e] <= 1
  /\ \A e, f \in PushElements : held[e] > 0 /\ held[f] > 0 => e = f
Prepared ==
  /\ call \in {"waitAny", "readAny", "accept", "acceptNonBlocking"} =>
       \A e \in ElementsOf(pushElements) : inProgress[e]
  /\ (\E e \in PushElements : held[e] > 0) => \A e \in ElementsOf(pushElements) : inProgress[e]
  /\ lastOperation # "all" => \A e \in ElementsOf(pushElements) \ {lastOperation} : inProgress[e]
TransactionInv ==
  /\ \A e \in PushElements : inProgress[e] => ~active[e]
  /\ ~retains => OneHeld /\ Prepared

\* What was taken is in the buffer, and no exception is left if it came after
\* finalise().
CompletedInv ==
  ~retains => \A e \in PushElements :
    taken[e].kind = "data" =>
      buffer[e] = taken[e].number /\ (linked > 0 /\ taken[e].number > finalisedAt => ~active[e])

\* The poll-type elements have been read since, unless that is still to do.
PolledInv ==
  /\ call # "idle" => returned \notin PushElements
  /\ call = "polling" /\ fetched \in PushElements =>
       \A e \in ElementsOf(pollElements) \ ElementsOf(polls) : buffer[e] >= taken[fetched].number
  /\ call = "idle" /\ returned \in PushElements =>
       \A e \in ElementsOf(pollElements) : buffer[e] >= taken[returned].number

ReadAnyTypes == EntriesType /\ ElementsType /\ CallType
ReadAnyInv == ReadAnyTypes /\ SetupInv /\ CountInv /\ NumberInv /\ TransactionInv /\ CompletedInv /\ PolledInv

-----------------------------------------------------------------------------
(* Sequences *)

\* The places of an element in a sequence, and their number.
PlacesOf(s, e) == { i \in DOMAIN s : s[i] = e }
Times(s, e) == Cardinality(PlacesOf(s, e))

LEMMA PlacesAreFinite ==
  ASSUME NEW S, NEW s \in Seq(S), NEW e
  PROVE  /\ IsFiniteSet(PlacesOf(s, e)) /\ Times(s, e) \in Nat
         /\ PlacesOf(s, e) \in SUBSET (1 .. Len(s))
<1>1. PlacesOf(s, e) \in SUBSET (1 .. Len(s)) BY DEF PlacesOf
<1>2. IsFiniteSet(1 .. Len(s)) BY FS_Interval
<1>3. IsFiniteSet(PlacesOf(s, e)) BY <1>1, <1>2, FS_Subset
<1> QED BY <1>1, <1>3, FS_CardinalityType DEF Times

\* An appended element has one place more, and the others have theirs.
LEMMA TimesOfAppended ==
  ASSUME NEW S, NEW s \in Seq(S), NEW x \in S, NEW e
  PROVE  Times(Append(s, x), e) = Times(s, e) + (IF x = e THEN 1 ELSE 0)
<1>1. IsFiniteSet(PlacesOf(s, e)) /\ Times(s, e) \in Nat /\ Len(s) + 1 \notin PlacesOf(s, e)
  BY PlacesAreFinite
<1>2. CASE x = e
  <2>1. PlacesOf(Append(s, x), e) = PlacesOf(s, e) \cup {Len(s) + 1} BY <1>2 DEF PlacesOf
  <2> QED BY <1>1, <1>2, <2>1, FS_AddElement DEF Times
<1>3. CASE x # e
  <2>1. PlacesOf(Append(s, x), e) = PlacesOf(s, e) BY <1>3 DEF PlacesOf
  <2> QED BY <1>1, <1>3, <2>1 DEF Times
<1> QED BY <1>2, <1>3

\* So have n copies of an element.
LEMMA TimesOfCopies ==
  ASSUME NEW S, NEW s \in Seq(S), NEW x \in S, NEW n \in Nat, NEW copies, copies = [k \in 1 .. n |-> x], NEW e
  PROVE  /\ s \o copies \in Seq(S)
         /\ Times(s \o copies, e) = Times(s, e) + (IF x = e THEN n ELSE 0)
<1>1. copies \in Seq(S) /\ Len(copies) = n /\ \A k \in 1 .. n : copies[k] = x
  <2>1. copies \in [1 .. n -> S] OBVIOUS
  <2> QED BY <2>1
<1>2. /\ s \o copies \in Seq(S) /\ Len(s \o copies) = Len(s) + n
      /\ DOMAIN (s \o copies) = 1 .. Len(s) + n /\ DOMAIN s = 1 .. Len(s)
      /\ \A i \in 1 .. Len(s) + n : (s \o copies)[i] = IF i <= Len(s) THEN s[i] ELSE x
  BY <1>1
<1>3. IsFiniteSet(PlacesOf(s, e)) /\ Times(s, e) \in Nat /\ PlacesOf(s, e) \in SUBSET (1 .. Len(s))
  BY PlacesAreFinite
<1>4. CASE x = e
  <2> DEFINE new == Len(s) + 1 .. Len(s) + n
  <2>1. PlacesOf(s \o copies, e) = PlacesOf(s, e) \cup new BY <1>2, <1>4 DEF PlacesOf
  <2>2. IsFiniteSet(new) /\ Cardinality(new) = n
    <3>1. PICK a \in Int, b \in Int : a = Len(s) + 1 /\ b = Len(s) + n OBVIOUS
    <3>2. IsFiniteSet(a .. b) /\ Cardinality(a .. b) = IF a > b THEN 0 ELSE b - a + 1 BY FS_Interval
    <3> QED BY <3>1, <3>2
  <2>3. PlacesOf(s, e) \cap new = {} BY <1>3
  <2> HIDE DEF new
  <2>4. Cardinality(PlacesOf(s, e) \cup new) = Cardinality(PlacesOf(s,
    e)) + Cardinality(new) - Cardinality({})
    BY <1>3, <2>2, <2>3, FS_Union
  <2>5. Cardinality(PlacesOf(s \o copies, e)) = Cardinality(PlacesOf(s, e)) + n
    <3>1. Cardinality(PlacesOf(s, e)) \in Nat /\ Cardinality({}) = 0 BY <1>3, FS_EmptySet DEF Times
    <3>2. PICK m \in Nat : m = Cardinality(PlacesOf(s, e)) BY <3>1
    <3>3. Cardinality(PlacesOf(s \o copies, e)) = m + n - 0 BY <2>1, <2>2, <2>4, <3>1, <3>2
    <3> QED BY <3>2, <3>3
  <2> QED BY <1>2, <1>4, <2>5 DEF Times
<1>5. CASE x # e
  <2>1. PlacesOf(s \o copies, e) = PlacesOf(s, e) BY <1>2, <1>5 DEF PlacesOf
  <2> QED BY <1>2, <1>3, <1>5, <2>1 DEF Times
<1> QED BY <1>4, <1>5

\* Without its first element, that one has lost one place.
LEMMA TimesOfTail ==
  ASSUME NEW S, NEW s \in Seq(S), s # <<>>, NEW e
  PROVE  /\ Head(s) \in S /\ Tail(s) \in Seq(S)
         /\ Times(s, e) = Times(Tail(s), e) + (IF Head(s) = e THEN 1 ELSE 0)
<1>1. /\ Head(s) \in S /\ Tail(s) \in Seq(S) /\ Len(Tail(s)) = Len(s) - 1 /\ Len(s) \in Nat \ {0}
      /\ DOMAIN s = 1 .. Len(s) /\ DOMAIN Tail(s) = 1 .. Len(s) - 1 /\ Head(s) = s[1]
      /\ \A i \in 1 .. Len(s) - 1 : Tail(s)[i] = s[i + 1]
  OBVIOUS
<1> DEFINE rest == PlacesOf(Tail(s), e)
           shifted == PlacesOf(s, e) \ {1}
           shift == [i \in rest |-> i + 1]
<1>2. IsFiniteSet(rest) /\ IsFiniteSet(PlacesOf(s, e)) /\ Times(s, e) \in Nat BY <1>1, PlacesAreFinite
<1>3. shift \in Injection(rest, shifted)
  <2>1. shift \in [rest -> shifted] BY <1>1 DEF PlacesOf
  <2>2. \A a, b \in rest : shift[a] = shift[b] => a = b BY <1>1 DEF PlacesOf
  <2> QED BY <2>1, <2>2 DEF Injection, IsInjective
<1>4. shift \in Surjection(rest, shifted)
  <2>1. shift \in [rest -> shifted] BY <1>1 DEF PlacesOf
  <2>2. \A t \in shifted : t - 1 \in rest /\ shift[t - 1] = t BY <1>1 DEF PlacesOf
  <2> QED BY <2>1, <2>2 DEF Surjection
<1>5. ExistsBijection(rest, shifted) BY <1>3, <1>4 DEF ExistsBijection, Bijection
<1> HIDE DEF rest, shifted, shift
<1>6. Cardinality(shifted) = Cardinality(rest) BY <1>2, <1>5, FS_Bijection
<1>7. Cardinality(shifted) = IF 1 \in PlacesOf(s, e) THEN Times(s, e) - 1 ELSE Times(s, e)
  BY <1>2, FS_RemoveElement DEF shifted, Times
<1>8. 1 \in PlacesOf(s, e) <=> Head(s) = e BY <1>1 DEF PlacesOf
<1>9. Times(Tail(s), e) = Cardinality(rest) BY DEF Times, rest
<1> QED BY <1>1, <1>2, <1>6, <1>7, <1>8, <1>9

\* An element which has a place is in the sequence.
LEMMA SomewhereIfCounted ==
  ASSUME NEW S, NEW s \in Seq(S), NEW e
  PROVE  Times(s, e) > 0 <=> \E i \in DOMAIN s : s[i] = e
<1>2. Times(s, e) \in Nat BY PlacesAreFinite
<1>3. PlacesOf(s, e) # {} <=> \E i \in DOMAIN s : s[i] = e BY DEF PlacesOf
<1>1. Times(s, e) = 0 <=> PlacesOf(s, e) = {} BY PlacesAreFinite, FS_EmptySet DEF Times
<1> QED BY <1>1, <1>2, <1>3

LEMMA NoneOfEmpty == \A e : Times(<<>>, e) = 0
<1>1. \A e : PlacesOf(<<>>, e) = {} BY DEF PlacesOf
<1> QED BY <1>1, FS_EmptySet DEF Times

-----------------------------------------------------------------------------
(* What the parts of the steps do *)

\* The four special values are no elements, and the two sets of elements are apart.
LEMMA Names ==
  ASSUME GroupAssumption
  PROVE  /\ \A e \in PushElements : e # "all" /\ e # "discarded" /\ e # "none" /\ e # "exception"
         /\ \A e \in PollElements : e \notin PushElements
         /\ QueueSize \in Nat /\ QueueSize > 1
BY DEF GroupAssumption

\* The elements of the group, and of the part of it which has been linked.
LEMMA LinkedFacts ==
  ASSUME GroupAssumption, SetupInv
  PROVE  /\ ElementsOf(pushElements) \subseteq PushElements
         /\ ElementsOf(pollElements) \subseteq PollElements
         /\ \A e : Linked(e) => InGroup(e) /\ linked > 0
         /\ isFinalised => \A e : InGroup(e) => Linked(e)
         /\ \A e \in PushElements : held[e] > 0 => held[e] # 0
<1>1. Len(pushElements) \in Nat /\ DOMAIN pushElements = 1 .. Len(pushElements) BY DEF SetupInv
<1>2. DOMAIN pollElements = 1 .. Len(pollElements) BY DEF SetupInv
<1>3. ElementsOf(pushElements) \subseteq PushElements BY <1>1 DEF SetupInv, ElementsOf
<1>4. ElementsOf(pollElements) \subseteq PollElements BY <1>2 DEF SetupInv, ElementsOf
<1>5. \A e : Linked(e) => InGroup(e) /\ linked > 0
  BY <1>1 DEF SetupInv, ElementsOf, Linked, InGroup
<1>6. isFinalised => \A e : InGroup(e) => Linked(e)
  BY <1>1 DEF isFinalised, ElementsOf, Linked, InGroup
<1> QED BY <1>3, <1>4, <1>5, <1>6

\* The front entry is taken out of a queue, and the rest stays.
LEMMA FrontFacts ==
  ASSUME NEW q \in Seq(Entries), q # <<>>
  PROVE  /\ Head(q) \in Entries /\ Head(q) = q[1] /\ 1 \in DOMAIN q
         /\ Tail(q) \in Seq(Entries) /\ Len(Tail(q)) = Len(q) - 1 /\ Len(q) \in Nat \ {0}
         /\ \A i \in DOMAIN Tail(q) : i + 1 \in DOMAIN q /\ Tail(q)[i] = q[i + 1]
<1>1. Len(q) \in Nat \ {0} /\ DOMAIN q = 1 .. Len(q) /\ Tail(q) \in Seq(Entries)
      /\ Len(Tail(q)) = Len(q) - 1 /\ Head(q) = q[1]
  OBVIOUS
<1>2. DOMAIN Tail(q) = 1 .. Len(q) - 1 /\ \A i \in 1 .. Len(q) - 1 : Tail(q)[i] = q[i + 1] BY <1>1
<1> QED BY <1>1, <1>2

LEMMA EntryFields ==
  ASSUME NEW x \in Entries
  PROVE  x.kind \in Kinds /\ x.number \in Nat /\ x.late \in BOOLEAN
BY DEF Entries

\* A push adds an entry, or replaces the last one of a full queue.
LEMMA PushFacts ==
  ASSUME NEW q \in Seq(Entries), NEW x \in Entries, NEW n \in Nat, n > 0, Len(q) <= n
  PROVE  /\ PushOverwrite(q, x, n) \in Seq(Entries) /\ Len(PushOverwrite(q, x, n)) <= n
         /\ Len(PushOverwrite(q, x, n)) = IF Len(q) = n THEN Len(q) ELSE Len(q) + 1
         /\ \A i \in DOMAIN PushOverwrite(q, x, n) :
              PushOverwrite(q, x, n)[i] = x \/ (i \in DOMAIN q /\ PushOverwrite(q, x, n)[i] = q[i])
<1>1. CASE Len(q) < n
  <2>1. PushOverwrite(q, x, n) = Append(q, x) BY <1>1 DEF PushOverwrite
  <2>2. Append(q, x) \in Seq(Entries) /\ Len(Append(q, x)) = Len(q) + 1 OBVIOUS
  <2>3. \A i \in DOMAIN Append(q, x) :
          Append(q, x)[i] = x \/ (i \in DOMAIN q /\ Append(q, x)[i] = q[i])
    OBVIOUS
  <2> QED BY <1>1, <2>1, <2>2, <2>3
<1>2. CASE ~(Len(q) < n)
  <2>1. PushOverwrite(q, x, n) = [q EXCEPT ![Len(q)] = x] BY <1>2 DEF PushOverwrite
  <2>2. PICK r : r = [q EXCEPT ![Len(q)] = x] OBVIOUS
  <2>3. Len(q) \in Nat /\ Len(q) > 0 /\ DOMAIN q = 1 .. Len(q) BY <1>2
  <2>4. DOMAIN r = 1 .. Len(q) /\ \A i \in 1 .. Len(q) : r[i] = IF i = Len(q) THEN x ELSE q[i]
    BY <2>2, <2>3
  <2>5. r \in [1 .. Len(q) -> Entries] BY <2>2, <2>3
  <2>6. r \in Seq(Entries) /\ Len(r) = Len(q) BY <2>3, <2>5
  <2>7. PushOverwrite(q, x, n) = r BY <2>1, <2>2
  <2>9. Len(q) = n
    <3>1. \A l \in Nat : l <= n /\ ~(l < n) => l = n OBVIOUS
    <3>2. Len(q) \in Nat /\ Len(q) <= n BY <2>3
    <3> QED BY <1>2, <3>1, <3>2
  <2>8. \A i \in DOMAIN r : r[i] = x \/ (i \in DOMAIN q /\ r[i] = q[i]) BY <2>3, <2>4
  <2> QED BY <2>6, <2>7, <2>8, <2>9
<1> QED BY <1>1, <1>2

\* What read() leaves in a queue was in it.
LEMMA LaterFacts ==
  ASSUME NEW q \in Seq(Entries), NEW n \in DOMAIN q
  PROVE  /\ SubSeq(q, n + 1, Len(q)) \in Seq(Entries) /\ Len(SubSeq(q, n + 1, Len(q))) <= Len(q)
         /\ \A i \in DOMAIN SubSeq(q, n + 1, Len(q)) :
              i + n \in DOMAIN q /\ SubSeq(q, n + 1, Len(q))[i] = q[i + n]
         /\ q[n] \in Entries
<1>1. Len(q) \in Nat /\ DOMAIN q = 1 .. Len(q) OBVIOUS
<1>2. PICK m \in 1 .. Len(q) : m = n BY <1>1
<1>3. SubSeq(q, m + 1, Len(q)) = [i \in 1 .. Len(q) - m |-> q[m + i]]
  <2>1. SubSeq(q, m + 1, Len(q)) = [i \in 1 .. (1 + Len(q) - (m + 1)) |-> q[i + (m + 1) - 1]]
    OBVIOUS
  <2>2. 1 + Len(q) - (m + 1) = Len(q) - m /\ \A i \in 1 .. Len(q) - m : i + (m + 1) - 1 = m + i BY <1>1
  <2> QED BY <2>1, <2>2
<1>4. PICK rest : rest = [i \in 1 .. Len(q) - m |-> q[m + i]] OBVIOUS
<1>5. rest \in [1 .. Len(q) - m -> Entries] BY <1>1, <1>4
<1>6. rest \in Seq(Entries) /\ DOMAIN rest = 1 .. Len(q) - m /\ Len(rest) = Len(q) - m
      /\ \A i \in 1 .. Len(q) - m : rest[i] = q[i + m]
  BY <1>1, <1>4, <1>5
<1>7. \A i \in 1 .. Len(q) - m : i + m \in DOMAIN q BY <1>1
<1>8. q[m] \in Entries BY <1>1
<1> QED BY <1>1, <1>2, <1>3, <1>4, <1>6, <1>7, <1>8

\* Accept() takes the front entry of one queue, and ends the transaction of that
\* element unless the entry was to be discarded.
LEMMA AcceptFacts ==
  ASSUME GroupAssumption, EntriesType, ElementsType, NEW e \in PushElements, queue[e] # <<>>, Accept(e)
  PROVE  /\ EntriesType' /\ ElementsType'
         /\ \A x \in PushElements :
              /\ Len(queue'[x]) = IF x = e THEN Len(queue[x]) - 1 ELSE Len(queue[x])
              /\ \A i \in DOMAIN queue'[x] : \E k \in DOMAIN queue[x] : queue'[x][i] = queue[x][k]
         /\ Discards(e) => lastOperation' = "discarded" /\ UNCHANGED <<inProgress, active, buffer, taken>>
         /\ ~Discards(e) =>
              /\ lastOperation' = e /\ ~inProgress'[e] /\ 1 \in DOMAIN queue[e] /\ taken'[e] = queue[e][1]
              /\ \A x \in PushElements \ {e} :
                   /\ inProgress'[x] <=> inProgress[x]
                   /\ active'[x] <=> active[x]
                   /\ taken'[x] = taken[x]
              /\ \A x \in Elements \ {e} : buffer'[x] = buffer[x]
              /\ taken'[e].kind = "data" =>
                   (active'[e] <=> active[e]) /\ (inProgress[e] => buffer'[e] = taken'[e].number)
              /\ taken'[e].kind # "data" => active'[e]
<1>1. queue[e] \in Seq(Entries) BY DEF EntriesType
<1>2. PICK entry \in Entries, rest \in Seq(Entries) :
        /\ entry = Head(queue[e]) /\ rest = Tail(queue[e]) /\ Len(rest) = Len(queue[e]) - 1
        /\ entry = queue[e][1] /\ 1 \in DOMAIN queue[e] /\ Len(queue[e]) \in Nat
        /\ \A i \in DOMAIN rest : i + 1 \in DOMAIN queue[e] /\ rest[i] = queue[e][i + 1]
  BY <1>1, FrontFacts
<1>3. queue' = [queue EXCEPT ![e] = rest] BY <1>2 DEF Accept
<1>4. queue' \in [PushElements -> Seq(Entries)] /\ queue'[e] = rest
      /\ \A x \in PushElements \ {e} : queue'[x] = queue[x]
  BY <1>3 DEF EntriesType
<1>5. EntriesType'
  <2>1. \A x \in PushElements : Len(queue'[x]) <= QueueSize
    <3>1. Len(rest) <= QueueSize BY <1>2, Names DEF EntriesType
    <3> QED BY <1>4, <3>1 DEF EntriesType
  <2> QED BY <1>4, <2>1 DEF EntriesType
<1>6. \A x \in PushElements :
              /\ Len(queue'[x]) = IF x = e THEN Len(queue[x]) - 1 ELSE Len(queue[x])
              /\ \A i \in DOMAIN queue'[x] : \E k \in DOMAIN queue[x] : queue'[x][i] = queue[x][k]
  <2>1. /\ Len(queue'[e]) = Len(queue[e]) - 1
        /\ \A i \in DOMAIN queue'[e] : \E k \in DOMAIN queue[e] : queue'[e][i] = queue[e][k]
    <3>1. \A i \in DOMAIN rest : \E k \in DOMAIN queue[e] : rest[i] = queue[e][k] BY <1>2
    <3> QED BY <1>2, <1>4, <3>1
  <2>2. \A x \in PushElements \ {e} : \A i \in DOMAIN queue'[x] : queue'[x][i] = queue[x][i] BY <1>4
  <2> QED BY <1>4, <2>1, <2>2
<1>7. Discards(e) <=> entry.kind = "discard" BY <1>2 DEF Discards
<1>8. CASE Discards(e)
  <2>1. lastOperation' = "discarded" /\ UNCHANGED <<inProgress, active, buffer, taken>>
    BY <1>2, <1>7, <1>8 DEF Accept
  <2>2. ElementsType' BY <2>1 DEF ElementsType
  <2> QED BY <1>5, <1>6, <1>8, <2>1, <2>2
<1>9. CASE ~Discards(e)
  <2>1. /\ lastOperation' = e /\ inProgress' = [inProgress EXCEPT ![e] = FALSE]
        /\ active' = [active EXCEPT ![e] = @ \/ entry.kind # "data"]
        /\ buffer' = IF inProgress[e] /\ entry.kind = "data"
                     THEN [buffer EXCEPT ![e] = entry.number] ELSE buffer
        /\ taken' = [taken EXCEPT ![e] = entry]
    BY <1>2, <1>7, <1>9 DEF Accept, PostRead
  <2>2. entry.number \in Nat BY EntryFields
  <2>3. e \in Elements BY DEF Elements
  <2>4. buffer' \in [Elements -> Nat] BY <2>1, <2>2, <2>3 DEF ElementsType
  <2>5. inProgress' \in [PushElements -> BOOLEAN] /\ ~inProgress'[e]
        /\ \A x \in PushElements \ {e} : inProgress'[x] <=> inProgress[x]
    BY <2>1 DEF ElementsType
  <2>6. /\ active' \in [PushElements -> BOOLEAN]
        /\ active'[e] <=> (active[e] \/ entry.kind # "data")
        /\ \A x \in PushElements \ {e} : active'[x] <=> active[x]
    BY <2>1 DEF ElementsType
  <2>7. taken' \in [PushElements -> Entries \cup {Nothing}] /\ taken'[e] = entry
        /\ \A x \in PushElements \ {e} : taken'[x] = taken[x]
    BY <2>1 DEF ElementsType
  <2>8. ElementsType' BY <2>4, <2>5, <2>6, <2>7 DEF ElementsType
  <2>9. \A x \in Elements \ {e} : buffer'[x] = buffer[x] BY <2>1, <2>2, <2>3 DEF ElementsType
  <2>10. inProgress[e] /\ entry.kind = "data" => buffer'[e] = entry.number
    BY <2>1, <2>3 DEF ElementsType
  <2> QED BY <1>2, <1>5, <1>6, <1>9, <2>1, <2>5, <2>6, <2>7, <2>8, <2>9, <2>10
<1> QED BY <1>8, <1>9

\* Before it waits, the application has prepared the elements which need it,
\* unless the first of them has failed.
LEMMA PreReadFacts ==
  ASSUME ElementsType, HandlePreRead
  PROVE  /\ inProgress' \in [PushElements -> BOOLEAN] /\ active' \in [PushElements -> BOOLEAN]
         /\ \A e \in PushElements : inProgress[e] => inProgress'[e]
         /\ \A e \in PushElements : active'[e] => active[e]
         /\ (\A e \in PushElements : inProgress[e] => ~active[e]) =>
              \A e \in PushElements : inProgress'[e] => ~active'[e]
         /\ ~FirstFails => \A e \in PushElements : e \in ElementsOf(NeedPreRead) => inProgress'[e]
<1> DEFINE S == IF FirstFails THEN {NeedPreRead[PreReadUpTo]} ELSE ElementsOf(NeedPreRead)
<1>1. /\ inProgress' = [e \in PushElements |-> inProgress[e] \/ e \in S]
      /\ active' = [e \in PushElements |-> active[e] /\ (inProgress[e] \/ e \notin S)]
  BY DEF HandlePreRead, PreRead
<1>2. ~FirstFails => S = ElementsOf(NeedPreRead) OBVIOUS
<1> HIDE DEF S
<1>3. inProgress' \in [PushElements -> BOOLEAN] /\ active' \in [PushElements -> BOOLEAN] BY <1>1, Zenon
<1>4. \A e \in PushElements : inProgress'[e] <=> (inProgress[e] \/ e \in S)
  BY <1>1, Zenon DEF ElementsType
<1>5. \A e \in PushElements : active'[e] <=> (active[e] /\ (inProgress[e] \/ e \notin S))
  BY <1>1, Zenon DEF ElementsType
<1> QED BY <1>2, <1>3, <1>4, <1>5

\* An application which accepts each notification before it waits again has then
\* prepared all elements: the one of the last operation was missing at most.
LEMMA AllArePrepared ==
  ASSUME GroupAssumption, SetupInv, ElementsType, CallType, ~retains, Prepared, HandlePreRead, ~FirstFails
  PROVE  \A e \in ElementsOf(pushElements) : inProgress'[e]
<1>1. \A e \in ElementsOf(pushElements) : e \in PushElements BY LinkedFacts
<1>2. \A e \in PushElements : e \in ElementsOf(NeedPreRead) \/ inProgress[e] => inProgress'[e]
  BY PreReadFacts
<1>3. CASE lastOperation = "all"
  <2>1. NeedPreRead = pushElements BY <1>3 DEF NeedPreRead
  <2> QED BY <1>1, <1>2, <2>1
<1>4. CASE lastOperation = "discarded"
  <2>1. \A e \in ElementsOf(pushElements) : inProgress[e]
    BY <1>1, <1>4, Names DEF Prepared
  <2> QED BY <1>1, <1>2, <2>1
<1>5. CASE lastOperation \in PushElements
  <2>1. NeedPreRead = <<lastOperation>> BY <1>5, Names DEF NeedPreRead
  <2>2. lastOperation \in ElementsOf(NeedPreRead) BY <2>1 DEF ElementsOf
  <2>3. \A e \in ElementsOf(pushElements) : e = lastOperation \/ inProgress[e]
    BY <1>5, Names DEF Prepared
  <2> QED BY <1>1, <1>2, <2>2, <2>3
<1> QED BY <1>3, <1>4, <1>5 DEF CallType

\* read() of an element which is not in the group takes an entry, or none.
LEMMA ReadFacts ==
  ASSUME GroupAssumption, EntriesType, ElementsType, NEW e \in PushElements, ReadDirectly(e)
  PROVE  /\ EntriesType' /\ ElementsType'
         /\ linked = 0 /\ ~InGroup(e) /\ ~inProgress'[e]
         /\ \A x \in PushElements :
              /\ \A i \in DOMAIN queue'[x] : \E k \in DOMAIN queue[x] : queue'[x][i] = queue[x][k]
              /\ taken'[x] # taken[x] => \E k \in DOMAIN queue[x] : taken'[x] = queue[x][k]
              /\ (taken[x].kind = "data" => buffer[x] = taken[x].number) =>
                   (taken'[x].kind = "data" => buffer'[x] = taken'[x].number)
              /\ x # e => (inProgress'[x] <=> inProgress[x]) /\ (active'[x] <=> active[x])
         /\ \A x \in PollElements : buffer'[x] = buffer[x]
<1>1. /\ queue[e] \in Seq(Entries) /\ Len(queue[e]) <= QueueSize /\ Len(queue[e]) \in Nat
      /\ e \in Elements /\ PollElements \subseteq Elements /\ PushElements \subseteq Elements
  BY DEF EntriesType, Elements
<1>2. inProgress' \in [PushElements -> BOOLEAN] /\ ~inProgress'[e]
      /\ \A x \in PushElements \ {e} : inProgress'[x] <=> inProgress[x]
  BY DEF ReadDirectly, ElementsType
<1>3. linked = 0 /\ ~InGroup(e) BY DEF ReadDirectly
<1>4. active' \in [PushElements -> BOOLEAN] /\ \A x \in PushElements \ {e} : active'[x] <=> active[x]
  <2>1. PICK b \in BOOLEAN : active' = [active EXCEPT ![e] = b]
    BY DEF ReadDirectly, PreReadFails, ReadNothing, ReadEntry
  <2> QED BY <2>1 DEF ElementsType
<1>5. CASE UNCHANGED <<queue, buffer, taken>>
  <2>1. EntriesType' /\ ElementsType' BY <1>2, <1>4, <1>5 DEF EntriesType, ElementsType
  <2>2. \A x \in PushElements : \A i \in DOMAIN queue'[x] : queue'[x][i] = queue[x][i] BY <1>5
  <2> QED BY <1>1, <1>2, <1>3, <1>4, <1>5, <2>1, <2>2
<1>6. CASE queue' = [queue EXCEPT ![e] = <<>>] /\ UNCHANGED <<buffer, taken>>
  <2>1. /\ queue' \in [PushElements -> Seq(Entries)] /\ queue'[e] = <<>>
        /\ \A x \in PushElements \ {e} : queue'[x] = queue[x]
    BY <1>6 DEF EntriesType
  <2>2. EntriesType'
    <3>1. Len(<<>>) <= QueueSize BY <1>1, Names
    <3>2. \A x \in PushElements : Len(queue'[x]) <= QueueSize BY <2>1, <3>1 DEF EntriesType
    <3> QED BY <2>1, <3>2 DEF EntriesType
  <2>3. ElementsType' BY <1>2, <1>4, <1>6 DEF ElementsType
  <2>4. DOMAIN queue'[e] = {} BY <2>1
  <2>5. \A x \in PushElements : \A i \in DOMAIN queue'[x] : i \in DOMAIN queue[x] /\ queue'[x][i] = queue[x][i]
    BY <2>1, <2>4
  <2> QED BY <1>1, <1>2, <1>3, <1>4, <1>6, <2>2, <2>3, <2>5
<1>7. ASSUME NEW n \in Readable(e), ReadEntry(e, n)
      PROVE  /\ EntriesType' /\ ElementsType'
             /\ \A x \in PushElements :
                  /\ \A i \in DOMAIN queue'[x] : \E k \in DOMAIN queue[x] : queue'[x][i] = queue[x][k]
                  /\ taken'[x] # taken[x] => \E k \in DOMAIN queue[x] : taken'[x] = queue[x][k]
                  /\ (taken[x].kind = "data" => buffer[x] = taken[x].number) =>
                       (taken'[x].kind = "data" => buffer'[x] = taken'[x].number)
             /\ \A x \in PollElements : buffer'[x] = buffer[x]
  <2>1. PICK rest \in Seq(Entries), entry \in Entries :
          /\ n \in DOMAIN queue[e] /\ rest = SubSeq(queue[e], n + 1, Len(queue[e])) /\ entry = queue[e][n]
          /\ Len(rest) <= Len(queue[e])
          /\ \A i \in DOMAIN rest : i + n \in DOMAIN queue[e] /\ rest[i] = queue[e][i + n]
    BY <1>1, LaterFacts DEF Readable
  <2>2. /\ queue' = [queue EXCEPT ![e] = rest] /\ taken' = [taken EXCEPT ![e] = entry]
        /\ buffer' = IF entry.kind = "data" THEN [buffer EXCEPT ![e] = entry.number] ELSE buffer
    BY <1>7, <2>1 DEF ReadEntry
  <2>3. /\ queue' \in [PushElements -> Seq(Entries)] /\ queue'[e] = rest
        /\ \A x \in PushElements \ {e} : queue'[x] = queue[x]
    BY <2>2 DEF EntriesType
  <2>4. EntriesType'
    <3>1. Len(rest) <= QueueSize BY <1>1, <2>1, Names
    <3> QED BY <2>3, <3>1 DEF EntriesType
  <2>5. /\ taken' \in [PushElements -> Entries \cup {Nothing}] /\ taken'[e] = entry
        /\ \A x \in PushElements \ {e} : taken'[x] = taken[x]
    BY <2>2 DEF ElementsType
  <2>6. buffer' \in [Elements -> Nat] BY <2>2, EntryFields DEF ElementsType
  <2>7. ElementsType' BY <1>2, <1>4, <2>5, <2>6 DEF ElementsType
  <2>8. \A i \in DOMAIN queue'[e] : \E k \in DOMAIN queue[e] : queue'[e][i] = queue[e][k] BY <2>1, <2>3
  <2>9. \A x \in PushElements \ {e} : \A i \in DOMAIN queue'[x] : queue'[x][i] = queue[x][i] BY <2>3
  <2>10. \A x \in Elements \ {e} : buffer'[x] = buffer[x] BY <2>2 DEF ElementsType
  <2>11. entry.kind = "data" => buffer'[e] = entry.number BY <1>1, <2>2 DEF ElementsType
  <2>12. \A x \in PollElements : x # e BY Names
  <2>13. \A x \in PushElements :
           /\ taken'[x] # taken[x] => \E k \in DOMAIN queue[x] : taken'[x] = queue[x][k]
           /\ (taken[x].kind = "data" => buffer[x] = taken[x].number) =>
                (taken'[x].kind = "data" => buffer'[x] = taken'[x].number)
    BY <1>1, <2>1, <2>5, <2>10, <2>11
  <2>14. \A x \in PushElements :
           \A i \in DOMAIN queue'[x] : \E k \in DOMAIN queue[x] : queue'[x][i] = queue[x][k]
    BY <2>3, <2>8, <2>9
  <2> QED BY <1>1, <2>4, <2>7, <2>10, <2>12, <2>13, <2>14
<1>8. CASE \E n \in Readable(e) : ReadEntry(e, n) BY <1>2, <1>3, <1>4, <1>7, <1>8
<1> QED BY <1>5, <1>6, <1>8 DEF ReadDirectly, PreReadFails, ReadNothing

\* The numbers of the entries of the last push are the largest.
LEMMA PushUpdateFacts ==
  ASSUME GroupAssumption, EntriesType, CallType, NEW e \in PushElements, NEW kind \in Kinds,
         PushUpdate(e, kind)
  PROVE  /\ EntriesType'
         /\ pushed' = pushed + 1 /\ pushed' \in Nat
         /\ \A x \in PushElements : \A i \in DOMAIN queue'[x] :
              queue'[x][i].number = pushed + 1 \/ \E k \in DOMAIN queue[x] : queue'[x][i] = queue[x][k]
         /\ Len(queue'[e]) = IF Len(queue[e]) = QueueSize THEN Len(queue[e]) ELSE Len(queue[e]) + 1
         /\ \A x \in PushElements \ {e} : queue'[x] = queue[x]
         /\ notifications' = IF Linked(e) /\ Len(queue[e]) # QueueSize
                             THEN Append(notifications, e) ELSE notifications
<1>1. queue[e] \in Seq(Entries) /\ Len(queue[e]) <= QueueSize /\ QueueSize \in Nat /\ QueueSize > 0
  BY Names DEF EntriesType
<1>2. pushed' = pushed + 1 /\ pushed' \in Nat BY DEF PushUpdate, CallType
<1>3. PICK x : x = [kind |-> kind, number |-> pushed', late |-> Len(queue[e]) = QueueSize] OBVIOUS
<1>4. x \in Entries /\ x.number = pushed + 1 BY <1>2, <1>3 DEF Entries
<1>5. PICK q \in Seq(Entries) :
        /\ q = PushOverwrite(queue[e], x, QueueSize) /\ Len(q) <= QueueSize
        /\ Len(q) = IF Len(queue[e]) = QueueSize THEN Len(queue[e]) ELSE Len(queue[e]) + 1
        /\ \A i \in DOMAIN q : q[i] = x \/ (i \in DOMAIN queue[e] /\ q[i] = queue[e][i])
  BY <1>1, <1>4, PushFacts
<1>6. queue' = [queue EXCEPT ![e] = q] BY <1>3, <1>5 DEF PushUpdate
<1>7. /\ queue' \in [PushElements -> Seq(Entries)] /\ queue'[e] = q
      /\ \A y \in PushElements \ {e} : queue'[y] = queue[y]
  BY <1>6 DEF EntriesType
<1>8. EntriesType' BY <1>5, <1>7 DEF EntriesType
<1>9. \A y \in PushElements : \A i \in DOMAIN queue'[y] :
        queue'[y][i].number = pushed + 1 \/ \E k \in DOMAIN queue[y] : queue'[y][i] = queue[y][k]
  <2>1. \A i \in DOMAIN q : q[i].number = pushed + 1 \/ \E k \in DOMAIN queue[e] : q[i] = queue[e][k]
    BY <1>4, <1>5
  <2>2. \A y \in PushElements \ {e} : \A i \in DOMAIN queue'[y] : queue'[y][i] = queue[y][i] BY <1>7
  <2> QED BY <1>7, <2>1, <2>2
<1>10. notifications' = IF Linked(e) /\ Len(queue[e]) # QueueSize
                        THEN Append(notifications, e) ELSE notifications
  BY DEF PushUpdate
<1> QED BY <1>2, <1>5, <1>7, <1>8, <1>9, <1>10

\* The front entry of the element which was notified first has been discarded.
LEMMA DiscardFacts ==
  ASSUME EntriesType, NEW e \in PushElements, queue[e] # <<>>, queue' = [queue EXCEPT ![e] = Tail(@)],
         QueueSize \in Nat
  PROVE  /\ EntriesType'
         /\ \A x \in PushElements :
              /\ Len(queue'[x]) = IF x = e THEN Len(queue[x]) - 1 ELSE Len(queue[x])
              /\ \A i \in DOMAIN queue'[x] : \E k \in DOMAIN queue[x] : queue'[x][i] = queue[x][k]
<1>1. queue[e] \in Seq(Entries) BY DEF EntriesType
<1>2. PICK rest \in Seq(Entries) :
        /\ rest = Tail(queue[e]) /\ Len(rest) = Len(queue[e]) - 1 /\ Len(queue[e]) \in Nat
        /\ \A i \in DOMAIN rest : i + 1 \in DOMAIN queue[e] /\ rest[i] = queue[e][i + 1]
  BY <1>1, FrontFacts
<1>3. queue' \in [PushElements -> Seq(Entries)] /\ queue'[e] = rest
      /\ \A x \in PushElements \ {e} : queue'[x] = queue[x]
  BY <1>2 DEF EntriesType
<1>4. Len(rest) <= QueueSize BY <1>2 DEF EntriesType
<1>5. EntriesType' BY <1>3, <1>4 DEF EntriesType
<1>6. /\ Len(queue'[e]) = Len(queue[e]) - 1
      /\ \A i \in DOMAIN queue'[e] : \E k \in DOMAIN queue[e] : queue'[e][i] = queue[e][k]
  <2>1. \A i \in DOMAIN rest : \E k \in DOMAIN queue[e] : rest[i] = queue[e][k] BY <1>2
  <2> QED BY <1>2, <1>3, <2>1
<1>7. \A x \in PushElements \ {e} : \A i \in DOMAIN queue'[x] : queue'[x][i] = queue[x][i] BY <1>3
<1> QED BY <1>3, <1>5, <1>6, <1>7

-----------------------------------------------------------------------------
(* Types *)

\* The functions which need the group to be finalised run only if it is.
LEMMA FinalisedCalls ==
  ASSUME SetupInv
  PROVE  /\ call # "idle" \/ returned # "none" \/ lastOperation # "all" => isFinalised
         /\ \A e \in PushElements : inProgress[e] \/ held[e] # 0 => isFinalised
BY DEF SetupInv

\* A notified entry is in the queue.
LEMMA FrontIsPresent ==
  ASSUME GroupAssumption, EntriesType, SetupInv, CountInv, notifications # <<>>
  PROVE  /\ Head(notifications) \in PushElements /\ Tail(notifications) \in Seq(PushElements)
         /\ queue[Head(notifications)] # <<>> /\ Linked(Head(notifications))
         /\ \A e : Notified(e) = Times(Tail(notifications), e) + (IF Head(notifications) = e THEN 1 ELSE 0)
<1> DEFINE first == Head(notifications)
<1>1. notifications \in Seq(PushElements) BY DEF CountInv
<1>2. /\ first \in PushElements /\ Tail(notifications) \in Seq(PushElements)
      /\ \A e : Times(notifications, e) = Times(Tail(notifications), e) + (IF first = e THEN 1 ELSE 0)
  BY <1>1, TimesOfTail
<1>3. \A e : Notified(e) = Times(notifications, e) BY DEF Notified, Times, PlacesOf
<1> HIDE DEF first
<1>4. Times(Tail(notifications), first) \in Nat BY <1>2, PlacesAreFinite
<1>5. Notified(first) \in Nat /\ Notified(first) > 0 BY <1>2, <1>3, <1>4
<1>6. Linked(first) BY <1>2, <1>5 DEF CountInv
<1>7. Len(queue[first]) = Notified(first) + held[first] + Fetched(first) BY <1>2, <1>6 DEF CountInv
<1>8. held[first] \in Nat /\ Fetched(first) \in Nat BY <1>2 DEF CountInv, Fetched
<1>9. Len(queue[first]) > 0 BY <1>5, <1>7, <1>8
<1>10. queue[first] # <<>> BY <1>9
<1> QED BY <1>2, <1>3, <1>6, <1>10 DEF first

LEMMA EntriesStep ==
  ASSUME GroupAssumption, ReadAnyInv, [ReadAnyNext]_readAnyVars
  PROVE  EntriesType'
<1>1. EntriesType /\ ElementsType /\ CallType /\ SetupInv /\ CountInv BY DEF ReadAnyInv, ReadAnyTypes
<1>2. CASE UNCHANGED queue BY <1>1, <1>2 DEF EntriesType
<1>3. ASSUME NEW e \in PushElements, NEW kind \in Kinds, PushUpdate(e, kind) PROVE EntriesType'
  BY <1>1, <1>3, PushUpdateFacts
<1>4. ASSUME NEW e \in PushElements, ReadDirectly(e) PROVE EntriesType' BY <1>1, <1>4, ReadFacts
<1>5. ASSUME NEW e \in PushElements, queue[e] # <<>>, Accept(e) PROVE EntriesType'
  BY <1>1, <1>5, AcceptFacts
<1>6. CASE FindDiscarded
  <2>1. Head(notifications) \in PushElements /\ queue[Head(notifications)] # <<>>
    BY <1>1, <1>6, FrontIsPresent DEF FindDiscarded
  <2>2. queue' = [queue EXCEPT ![Head(notifications)] = Tail(@)] BY <1>6 DEF FindDiscarded
  <2> QED BY <1>1, <2>1, <2>2, DiscardFacts, Names
<1>7. CASE ReadAccept BY <1>1, <1>5, <1>7 DEF ReadAccept, CallType
<1>8. ASSUME NEW e \in PushElements, AcceptHeld(e) \/ DropHeld(e) PROVE EntriesType'
  BY <1>5, <1>8 DEF AcceptHeld, DropHeld
<1> QED
  BY <1>2, <1>3, <1>4, <1>6, <1>7, <1>8
  DEF ReadAnyNext, Continue, OpenOrClose, Add, Finalise, Wait, WaitNonBlocking, PopNotification, FindNothing,
      FindUpdate, ProcessPolled, ProcessPolledFails, Return, readAnyVars

LEMMA ElementsStep ==
  ASSUME GroupAssumption, ReadAnyInv, [ReadAnyNext]_readAnyVars
  PROVE  ElementsType'
<1>1. EntriesType /\ ElementsType /\ CallType /\ SetupInv BY DEF ReadAnyInv, ReadAnyTypes
<1>2. CASE UNCHANGED elementVars BY <1>1, <1>2 DEF ElementsType, elementVars
<1>3. ASSUME NEW e \in PushElements, ReadDirectly(e) PROVE ElementsType' BY <1>1, <1>3, ReadFacts
<1>4. ASSUME NEW e \in PushElements, queue[e] # <<>>, Accept(e) PROVE ElementsType'
  BY <1>1, <1>4, AcceptFacts
<1>5. CASE HandlePreRead /\ UNCHANGED <<buffer, taken>>
  BY <1>1, <1>5, PreReadFacts DEF ElementsType
<1>6. CASE ReadAccept BY <1>1, <1>4, <1>6 DEF ReadAccept, CallType
<1>7. ASSUME NEW e \in PushElements, AcceptHeld(e) \/ DropHeld(e) PROVE ElementsType'
  BY <1>4, <1>7 DEF AcceptHeld, DropHeld
<1>8. CASE ProcessPolled
  <2>1. buffer' = [buffer EXCEPT ![Head(polls)] = pushed] /\ UNCHANGED <<inProgress, active, taken>>
    BY <1>8 DEF ProcessPolled
  <2>2. buffer' \in [Elements -> Nat] BY <1>1, <2>1 DEF ElementsType, CallType
  <2> QED BY <1>1, <2>1, <2>2 DEF ElementsType
<1>9. ASSUME NEW function, Wait(function) PROVE ElementsType' BY <1>5, <1>9 DEF Wait
<1>10. CASE FindUpdate BY <1>5, <1>10 DEF FindUpdate
<1> QED
  BY <1>2, <1>3, <1>6, <1>7, <1>8, <1>9, <1>10
  DEF ReadAnyNext, Continue, PushUpdate, OpenOrClose, Add, Finalise, WaitNonBlocking, PopNotification,
      FindNothing, FindDiscarded, ProcessPolledFails, Return, readAnyVars, elementVars

LEMMA CallStep ==
  ASSUME GroupAssumption, ReadAnyInv, [ReadAnyNext]_readAnyVars
  PROVE  CallType'
<1>1. EntriesType /\ ElementsType /\ CallType /\ SetupInv /\ CountInv BY DEF ReadAnyInv, ReadAnyTypes
<1>2. CASE UNCHANGED readAnyVars BY <1>1, <1>2 DEF CallType, readAnyVars, Accepting
<1>3. CASE ReadAnyNext
  <2>1. retains' \in BOOLEAN BY <1>1, <1>3 DEF ReadAnyNext, Running, CallType
  <2>2. ASSUME NEW e \in PushElements, NEW kind \in Kinds, PushUpdate(e, kind) PROVE CallType'
    BY <1>1, <2>1, <2>2 DEF CallType, PushUpdate, groupVars, appVars, Accepting
  <2>3. CASE OpenOrClose BY <1>1, <2>1, <2>3 DEF CallType, OpenOrClose, groupVars, appVars, Accepting
  <2>4. ASSUME NEW e \in PushElements, ReadDirectly(e) PROVE CallType'
    BY <1>1, <2>1, <2>4 DEF CallType, ReadDirectly, groupVars, appVars, Accepting
  <2>5. ASSUME NEW e \in PushElements, queue[e] # <<>>, Accept(e)
        PROVE  lastOperation' \in PushElements \cup {"all", "discarded"}
    BY <2>5 DEF Accept
  <2>6. ASSUME NEW e \in PushElements, AcceptHeld(e) \/ DropHeld(e) PROVE CallType'
    <3>1. lastOperation' \in PushElements \cup {"all", "discarded"} BY <2>5, <2>6 DEF AcceptHeld, DropHeld
    <3>2. terminated' \in BOOLEAN BY <1>1, <2>6 DEF AcceptHeld, DropHeld, CallType
    <3> QED BY <1>1, <2>1, <2>6, <3>1, <3>2 DEF CallType, AcceptHeld, DropHeld, groupVars, Accepting
  <2>7. CASE Add BY <1>1, <2>1, <2>7 DEF CallType, Add, appVars, Accepting
  <2>8. CASE Finalise BY <1>1, <2>1, <2>8 DEF CallType, Finalise, appVars, Accepting
  <2>9. ASSUME NEW function \in {"waitAny", "readAny"}, Wait(function) PROVE CallType'
    BY <1>1, <2>1, <2>9 DEF CallType, Wait, groupVars, Accepting, CallNames
  <2>10. ASSUME NEW function \in {"waitAnyNonBlocking", "readAnyNonBlocking"}, WaitNonBlocking(function)
         PROVE  CallType'
    BY <1>1, <2>1, <2>10 DEF CallType, WaitNonBlocking, groupVars, Accepting, CallNames
  <2>11. ASSUME notifications # <<>>, GetNotification
         PROVE  /\ call' \in CallNames /\ fetched' \in PushElements \cup {"none"}
                /\ (Accepting => fetched \in PushElements)'
    BY <1>1, <2>11, FrontIsPresent DEF CallType, GetNotification, Accepting, CallNames
  <2>12. CASE PopNotification
    BY <1>1, <2>1, <2>11, <2>12 DEF CallType, PopNotification, groupVars
  <2>13. CASE FindNothing
    <3>1. polls' \in Seq(PollElements) BY <1>1, <2>13 DEF FindNothing, SetupInv
    <3> QED BY <1>1, <2>1, <2>13, <3>1 DEF CallType, FindNothing, groupVars, Accepting, CallNames
  <2>14. CASE FindDiscarded BY <1>1, <2>1, <2>14 DEF CallType, FindDiscarded, groupVars, appVars, Accepting
  <2>15. CASE FindUpdate
    <3>1. /\ call' \in CallNames /\ fetched' \in PushElements \cup {"none"}
          /\ (Accepting => fetched \in PushElements)' /\ returned' \in PushElements \cup {"none", "exception"}
      BY <1>1, <2>11, <2>15 DEF FindUpdate, CallType, Accepting, CallNames
    <3> QED BY <1>1, <2>1, <2>15, <3>1 DEF CallType, FindUpdate, groupVars
  <2>16. CASE ReadAccept
    <3>1. fetched \in PushElements BY <1>1, <2>16 DEF ReadAccept, CallType
    <3>2. lastOperation' \in PushElements \cup {"all", "discarded"} BY <2>5, <2>16, <3>1 DEF ReadAccept
    <3>3. polls' \in Seq(PollElements) BY <1>1, <2>16 DEF ReadAccept, SetupInv
    <3>4. fetched' \in PushElements \cup {"none"} BY <2>16, <3>1 DEF ReadAccept
    <3>5. call' \in {"readAny", "readAnyNonBlocking", "idle", "polling"} BY <2>16 DEF ReadAccept
    <3>6. returned' \in PushElements \cup {"none", "exception"} BY <1>1, <2>16 DEF ReadAccept, CallType
    <3>7. UNCHANGED <<opened, pushed, finalisedAt, terminated>> BY <2>16 DEF ReadAccept, groupVars
    <3> QED BY <1>1, <2>1, <3>2, <3>3, <3>4, <3>5, <3>6, <3>7 DEF CallType, Accepting, CallNames
  <2>17. CASE ProcessPolled
    <3>1. polls' \in Seq(PollElements) BY <1>1, <2>17 DEF ProcessPolled, CallType
    <3> QED BY <1>1, <2>1, <2>17, <3>1 DEF CallType, ProcessPolled, groupVars, Accepting
  <2>18. CASE ProcessPolledFails
    BY <1>1, <2>1, <2>18 DEF CallType, ProcessPolledFails, groupVars, Accepting, CallNames
  <2>19. CASE Return
    BY <1>1, <2>1, <2>19 DEF CallType, Return, groupVars, Accepting, CallNames
  <2> QED
    BY <1>3, <2>2, <2>3, <2>4, <2>6, <2>7, <2>8, <2>9, <2>10, <2>12, <2>13, <2>14, <2>15, <2>16, <2>17,
       <2>18, <2>19
    DEF ReadAnyNext, Continue
<1> QED BY <1>2, <1>3

-----------------------------------------------------------------------------
(* Setting up the group *)

\* The element which is added last is a member, and none of the earlier ones.
LEMMA AddedOnce ==
  ASSUME GroupAssumption, SetupInv, Add
  PROVE  /\ pushElements' \in Seq(PushElements) /\ pollElements' \in Seq(PollElements) /\ linked' = 0
         /\ \A i \in DOMAIN pushElements' :
              \E k \in 1 .. Len(pushElements') + Len(pollElements') : pushElements'[i] = Members[k]
         /\ \A i, k \in DOMAIN pushElements' : pushElements'[i] = pushElements'[k] => i = k
<1> DEFINE added == Len(pushElements) + Len(pollElements)
           e == Members[added + 1]
<1>1. /\ pushElements \in Seq(PushElements) /\ pollElements \in Seq(PollElements)
      /\ \A i \in DOMAIN pushElements : \E k \in 1 .. added : pushElements[i] = Members[k]
      /\ \A i, k \in DOMAIN pushElements : pushElements[i] = pushElements[k] => i = k
  BY DEF SetupInv
<1>2. added \in Nat /\ added + 1 \in DOMAIN Members /\ Len(Members) \in Nat /\ 1 .. added \subseteq DOMAIN Members
  BY <1>1 DEF Add, GroupAssumption
<1>3. e \in PushElements \cup PollElements BY <1>2 DEF GroupAssumption
<1>4. \A k \in 1 .. added : Members[k] # e
  <2>1. \A k \in 1 .. added : k # added + 1 BY <1>2
  <2> QED BY <1>2, <2>1 DEF GroupAssumption
<1>5. linked' = 0 BY DEF Add
<1>6. CASE e \in PushElements
  <2>1. pushElements' = Append(pushElements, e) /\ pollElements' = pollElements BY <1>6 DEF Add
  <2>2. /\ pushElements' \in Seq(PushElements) /\ Len(pushElements') = Len(pushElements) + 1
        /\ Len(pushElements) \in Nat /\ Len(pollElements) \in Nat
    BY <1>1, <1>6, <2>1
  <2>3. \A i \in DOMAIN pushElements' :
          \/ i \in DOMAIN pushElements /\ pushElements'[i] = pushElements[i]
          \/ i = Len(pushElements) + 1 /\ pushElements'[i] = e
    BY <1>1, <1>6, <2>1
  <2>4. Len(pushElements') + Len(pollElements') = added + 1 BY <2>1, <2>2
  <2>5. \A i \in DOMAIN pushElements' : \E k \in 1 .. added + 1 : pushElements'[i] = Members[k]
    <3> HIDE DEF e
    <3>1. \A k \in 1 .. added : k \in 1 .. added + 1 BY <1>2
    <3>2. added + 1 \in 1 .. added + 1 /\ Members[added + 1] = e BY <1>2 DEF e
    <3> HIDE DEF added
    <3> QED BY <1>1, <2>3, <3>1, <3>2
  <2>6. \A i, k \in DOMAIN pushElements' : pushElements'[i] = pushElements'[k] => i = k
    <3>1. \A i \in DOMAIN pushElements : pushElements[i] # e BY <1>1, <1>4
    <3> HIDE DEF e
    <3> QED BY <1>1, <2>3, <3>1
  <2> QED BY <1>1, <1>5, <2>1, <2>2, <2>4, <2>5, <2>6
<1>7. CASE e \notin PushElements
  <2>1. pollElements' = Append(pollElements, e) /\ pushElements' = pushElements BY <1>7 DEF Add
  <2>2. /\ pollElements' \in Seq(PollElements) /\ Len(pollElements') = Len(pollElements) + 1
        /\ Len(pushElements) \in Nat /\ Len(pollElements) \in Nat
    BY <1>1, <1>3, <1>7, <2>1
  <2>3. Len(pushElements') + Len(pollElements') = added + 1 BY <2>1, <2>2
  <2>4. \A k \in 1 .. added : k \in 1 .. added + 1 BY <1>2
  <2> QED BY <1>1, <1>5, <2>1, <2>2, <2>3, <2>4
<1> QED BY <1>6, <1>7

LEMMA SetupStep ==
  ASSUME GroupAssumption, ReadAnyInv, [ReadAnyNext]_readAnyVars
  PROVE  SetupInv'
<1>1. SetupInv /\ ElementsType /\ EntriesType /\ CallType BY DEF ReadAnyInv, ReadAnyTypes
<1>2. Len(pushElements) \in Nat /\ linked \in Nat BY <1>1 DEF SetupInv
\* Most steps leave the group as it is, and those of a function are only taken in
\* a finalised one.
<1> DEFINE NoCall == UNCHANGED <<call, returned, lastOperation, inProgress, held>>
<1>3. ASSUME UNCHANGED <<pushElements, pollElements, linked>>, isFinalised \/ NoCall PROVE SetupInv'
  BY <1>1, <1>3 DEF SetupInv, isFinalised
<1>4. CASE UNCHANGED readAnyVars BY <1>3, <1>4 DEF readAnyVars
<1>5. ASSUME NEW e \in PushElements, ReadDirectly(e) PROVE SetupInv'
  <2>1. UNCHANGED <<pushElements, pollElements, linked, call, returned, lastOperation, held>>
    BY <1>5 DEF ReadDirectly, groupVars, appVars
  <2>2. linked = 0 /\ \A x \in PushElements : inProgress'[x] => inProgress[x] BY <1>1, <1>5, ReadFacts
  <2> QED BY <1>1, <2>1, <2>2 DEF SetupInv, isFinalised
<1>6. CASE Add
  <2>1. NoCall /\ linked = 0 BY <1>6 DEF Add, appVars, elementVars
  <2>2. ~isFinalised BY <2>1 DEF isFinalised
  <2>3. call = "idle" /\ returned = "none" /\ lastOperation = "all"
        /\ \A e \in PushElements : ~inProgress[e] /\ held[e] = 0
    BY <1>1, <2>2 DEF SetupInv
  <2>4. /\ pushElements' \in Seq(PushElements) /\ pollElements' \in Seq(PollElements) /\ linked' = 0
        /\ \A i \in DOMAIN pushElements' :
             \E k \in 1 .. Len(pushElements') + Len(pollElements') : pushElements'[i] = Members[k]
        /\ \A i, k \in DOMAIN pushElements' : pushElements'[i] = pushElements'[k] => i = k
    BY <1>1, <1>6, AddedOnce
  <2>5. linked' \in 0 .. Len(pushElements') BY <2>4
  <2> QED BY <2>1, <2>3, <2>4, <2>5 DEF SetupInv
<1>7. CASE Finalise
  <2>1. UNCHANGED <<pushElements,
    pollElements>> /\ NoCall /\ linked' = linked + 1 /\ linked < Len(pushElements)
    BY <1>7 DEF Finalise, appVars, elementVars
  <2>2. ~isFinalised BY <1>2, <2>1 DEF isFinalised
  <2>3. linked' \in 0 .. Len(pushElements) BY <1>2, <2>1
  <2>4. call = "idle" /\ returned = "none" /\ lastOperation = "all"
        /\ \A e \in PushElements : ~inProgress[e] /\ held[e] = 0
    BY <1>1, <2>2 DEF SetupInv
  <2> QED BY <1>1, <2>1, <2>3, <2>4 DEF SetupInv
<1>8. CASE UNCHANGED groupVars /\ call # "idle" BY <1>1, <1>3, <1>8, FinalisedCalls DEF groupVars
<1>9. ASSUME NEW e \in PushElements, AcceptHeld(e) \/ DropHeld(e) PROVE SetupInv'
  <2>1. held[e] # 0 /\ UNCHANGED groupVars BY <1>9 DEF AcceptHeld, DropHeld
  <2> QED BY <1>1, <1>3, <2>1, FinalisedCalls DEF groupVars
<1>10. ASSUME NEW e \in PushElements, NEW kind \in Kinds, PushUpdate(e, kind) PROVE SetupInv'
  BY <1>3, <1>10 DEF PushUpdate, groupVars, elementVars, appVars
<1>11. CASE OpenOrClose BY <1>3, <1>11 DEF OpenOrClose, groupVars, elementVars, appVars
<1>12. ASSUME NEW function, Wait(function) \/ WaitNonBlocking(function) PROVE SetupInv'
  BY <1>3, <1>12 DEF Wait, WaitNonBlocking, MayWait, groupVars
<1>13. CASE PopNotification \/ FindNothing \/ FindDiscarded \/ FindUpdate
  BY <1>8, <1>13 DEF PopNotification, FindNothing, FindDiscarded, FindUpdate, NonBlocking
<1>14. CASE ReadAccept \/ ProcessPolled \/ ProcessPolledFails \/ Return
  BY <1>8, <1>14 DEF ReadAccept, Accepting, ProcessPolled, ProcessPolledFails, Return
<1> QED BY <1>4, <1>5, <1>6, <1>7, <1>9, <1>10, <1>11, <1>12, <1>13, <1>14 DEF ReadAnyNext, Continue

LEMMA NumberStep ==
  ASSUME GroupAssumption, ReadAnyInv, [ReadAnyNext]_readAnyVars
  PROVE  NumberInv'
<1>1. EntriesType /\ ElementsType /\ CallType /\ SetupInv /\ CountInv /\ NumberInv
  BY DEF ReadAnyInv, ReadAnyTypes
<1>2. EntriesType' /\ ElementsType' BY EntriesStep, ElementsStep
<1>3. /\ pushed \in Nat /\ finalisedAt \in Nat
      /\ \A e \in PushElements : taken[e].number \in Nat /\ \A i \in DOMAIN queue[e] : queue[e][i].number \in Nat
  BY <1>1, EntryFields DEF EntriesType, ElementsType, CallType, Nothing
<1>4. ASSUME UNCHANGED <<pushed, finalisedAt>>,
             \A e \in PushElements :
               /\ taken'[e] = taken[e] \/ \E k \in DOMAIN queue[e] : taken'[e] = queue[e][k]
               /\ \A i \in DOMAIN queue'[e] : \E k \in DOMAIN queue[e] : queue'[e][i] = queue[e][k]
      PROVE  NumberInv'
  BY <1>1, <1>4 DEF NumberInv
<1>5. CASE UNCHANGED <<pushed, finalisedAt, taken, queue>> BY <1>1, <1>5 DEF NumberInv
<1>6. ASSUME NEW e \in PushElements, NEW kind \in Kinds, PushUpdate(e, kind) PROVE NumberInv'
  <2>1. /\ pushed' = pushed + 1 /\ UNCHANGED <<finalisedAt, taken>>
        /\ \A x \in PushElements : \A i \in DOMAIN queue'[x] :
              queue'[x][i].number = pushed + 1 \/ \E k \in DOMAIN queue[x] : queue'[x][i] = queue[x][k]
    BY <1>1, <1>6, PushUpdateFacts DEF PushUpdate, groupVars, elementVars
  <2>2. \A n \in Nat : n <= pushed => n <= pushed + 1 BY <1>3
  <2>3. \A x \in PushElements : \A i \in DOMAIN queue'[x] : queue'[x][i].number <= pushed + 1
    BY <1>1, <1>3, <2>1, <2>2 DEF NumberInv
  <2>4. finalisedAt <= pushed + 1 /\ \A x \in PushElements : taken[x].number <= pushed + 1
    BY <1>1, <1>3, <2>2 DEF NumberInv
  <2> QED BY <2>1, <2>3, <2>4 DEF NumberInv
<1>7. ASSUME NEW e \in PushElements, ReadDirectly(e) PROVE NumberInv'
  <2>1. UNCHANGED <<pushed, finalisedAt>> BY <1>7 DEF ReadDirectly, groupVars
  <2> QED BY <1>1, <1>4, <1>7, <2>1, ReadFacts
<1>8. ASSUME NEW e \in PushElements, queue[e] # <<>>, Accept(e), UNCHANGED <<pushed, finalisedAt>>
      PROVE  NumberInv'
  <2>1. \A x \in PushElements : taken'[x] = taken[x] \/ \E k \in DOMAIN queue[x] : taken'[x] = queue[x][k]
    BY <1>1, <1>8, AcceptFacts
  <2>2. \A x \in PushElements :
          \A i \in DOMAIN queue'[x] : \E k \in DOMAIN queue[x] : queue'[x][i] = queue[x][k]
    BY <1>1, <1>8, AcceptFacts
  <2> QED BY <1>4, <1>8, <2>1, <2>2
<1>9. ASSUME NEW e \in PushElements, AcceptHeld(e) \/ DropHeld(e) PROVE NumberInv'
  BY <1>8, <1>9 DEF AcceptHeld, DropHeld, groupVars
<1>10. CASE ReadAccept BY <1>1, <1>8, <1>10 DEF ReadAccept, CallType, groupVars
<1>11. CASE Finalise
  <2>1. finalisedAt' = pushed /\ UNCHANGED <<pushed, taken, queue>> BY <1>11 DEF Finalise, elementVars
  <2> QED BY <1>1, <1>3, <2>1 DEF NumberInv
<1>12. CASE FindDiscarded
  <2>1. Head(notifications) \in PushElements /\ queue[Head(notifications)] # <<>>
    BY <1>1, <1>12, FrontIsPresent DEF FindDiscarded
  <2>2. queue' = [queue EXCEPT ![Head(notifications)] = Tail(@)] /\ UNCHANGED <<pushed, finalisedAt, taken>>
    BY <1>12 DEF FindDiscarded, groupVars, elementVars
  <2>3. \A x \in PushElements :
          \A i \in DOMAIN queue'[x] : \E k \in DOMAIN queue[x] : queue'[x][i] = queue[x][k]
    BY <1>1, <2>1, <2>2, DiscardFacts, Names
  <2> QED BY <1>4, <2>2, <2>3
<1> QED
  BY <1>5, <1>6, <1>7, <1>9, <1>10, <1>11, <1>12
  DEF ReadAnyNext, Continue, OpenOrClose, Add, Wait, WaitNonBlocking, PopNotification, FindNothing,
      FindUpdate, ProcessPolled, ProcessPolledFails, Return, readAnyVars, elementVars, groupVars

-----------------------------------------------------------------------------
(* Counting *)

LEMMA NotifiedIsTimes == \A e : Notified(e) = Times(notifications, e) BY DEF Notified, Times, PlacesOf

\* The queues, the notifications and what the application holds.
LEMMA CountStep ==
  ASSUME GroupAssumption, ReadAnyInv, [ReadAnyNext]_readAnyVars
  PROVE  CountInv'
<1>1. EntriesType /\ ElementsType /\ CallType /\ SetupInv /\ CountInv BY DEF ReadAnyInv, ReadAnyTypes
<1>2. /\ notifications \in Seq(PushElements) /\ held \in [PushElements -> Nat]
      /\ \A e \in PushElements : Notified(e) = Times(notifications, e)
      /\ \A e \in PushElements : Notified(e)' = Times(notifications', e)
      /\ \A e \in PushElements :
           IF Linked(e) THEN Len(queue[e]) = Times(notifications, e) + held[e] + Fetched(e)
           ELSE Times(notifications, e) = 0 /\ held[e] = 0 /\ Fetched(e) = 0
  BY <1>1 DEF CountInv, Notified, Times, PlacesOf
<1>3. \A e \in PushElements :
        Times(notifications, e) \in Nat /\ held[e] \in Nat /\ Fetched(e) \in Nat /\ Len(queue[e]) \in Nat
  BY <1>1, <1>2, PlacesAreFinite DEF Fetched, EntriesType
\* It is enough to look at each element.
<1>4. ASSUME notifications' \in Seq(PushElements), held' \in [PushElements -> Nat],
             \A e \in PushElements :
               IF Linked(e)' THEN Len(queue'[e]) = Times(notifications', e) + held'[e] + Fetched(e)'
               ELSE Times(notifications', e) = 0 /\ held'[e] = 0 /\ Fetched(e)' = 0
      PROVE  CountInv'
  BY <1>2, <1>4 DEF CountInv
<1>5. ASSUME UNCHANGED <<pushElements, linked>> PROVE \A e \in PushElements : Linked(e)' <=> Linked(e)
  BY <1>5 DEF Linked
<1>6. ASSUME UNCHANGED <<call, fetched>> PROVE \A e \in PushElements : Fetched(e)' = Fetched(e)
  BY <1>6 DEF Fetched, Accepting
<1>7. ASSUME ~Accepting, ~Accepting' PROVE \A e \in PushElements : Fetched(e)' = Fetched(e)
  BY <1>7 DEF Fetched
<1>8. ASSUME UNCHANGED <<notifications, held, queue, pushElements, linked>>,
             UNCHANGED <<call, fetched>> \/ (~Accepting /\ ~Accepting')
      PROVE  CountInv'
  BY <1>2, <1>4, <1>5, <1>6, <1>7, <1>8
<1>9. ASSUME NEW e \in PushElements, NEW kind \in Kinds, PushUpdate(e, kind) PROVE CountInv'
  <2>1. UNCHANGED <<pushElements, linked, held, call, fetched>> BY <1>9 DEF PushUpdate, groupVars, appVars
  <2>2. /\ Len(queue'[e]) = IF Len(queue[e]) = QueueSize THEN Len(queue[e]) ELSE Len(queue[e]) + 1
        /\ \A x \in PushElements \ {e} : queue'[x] = queue[x]
        /\ notifications' = IF Linked(e) /\ Len(queue[e]) # QueueSize
                            THEN Append(notifications, e) ELSE notifications
    BY <1>1, <1>9, PushUpdateFacts
  <2>3. CASE Linked(e) /\ Len(queue[e]) # QueueSize
    <3>1. notifications' = Append(notifications, e) BY <2>2, <2>3
    <3>2. notifications' \in Seq(PushElements) BY <1>2, <3>1
    <3>3. \A x \in PushElements : Times(notifications', x) = Times(notifications, x) + (IF e = x THEN 1 ELSE 0)
      BY <1>2, <3>1, TimesOfAppended
    <3>4. Times(notifications', e) = Times(notifications, e) + 1 /\ Len(queue'[e]) = Len(queue[e]) + 1
      BY <2>2, <2>3, <3>3
    <3>5. \A x \in PushElements \ {e} : Times(notifications', x) = Times(notifications, x)
      BY <1>3, <3>3
    <3>6. Len(queue'[e]) = Times(notifications', e) + held'[e] + Fetched(e)'
      <4>1. Len(queue[e]) = Times(notifications, e) + held[e] + Fetched(e) BY <1>2, <2>3
      <4>2. Times(notifications, e) \in Nat /\ held[e] \in Nat /\ Fetched(e) \in Nat BY <1>3
      <4>3. Fetched(e)' = Fetched(e) /\ held'[e] = held[e] BY <1>6, <2>1
      <4> QED BY <3>4, <4>1, <4>2, <4>3
    <3> QED BY <1>2, <1>4, <1>5, <1>6, <2>1, <2>2, <2>3, <3>2, <3>5, <3>6
  <2>4. CASE ~(Linked(e) /\ Len(queue[e]) # QueueSize)
    <3>1. notifications' = notifications BY <2>2, <2>4
    <3>2. Linked(e) => Len(queue'[e]) = Len(queue[e]) BY <2>2, <2>4
    <3> QED BY <1>2, <1>4, <1>5, <1>6, <2>1, <2>2, <3>1, <3>2
  <2> QED BY <2>3, <2>4
<1>10. ASSUME linked' = 0, UNCHANGED <<notifications, held, call, fetched, linked>> PROVE CountInv'
  <2>1. \A e : ~Linked(e) /\ ~Linked(e)' BY <1>10 DEF Linked
  <2> QED BY <1>2, <1>4, <1>6, <1>10, <2>1
<1>11. ASSUME NEW e \in PushElements, ReadDirectly(e) PROVE CountInv'
  BY <1>10, <1>11 DEF ReadDirectly, groupVars, appVars
<1>12. CASE Add BY <1>10, <1>12 DEF Add, appVars
<1>13. CASE Finalise
  <2>20. /\ linked' = linked + 1 /\ linked < Len(pushElements)
         /\ UNCHANGED <<queue, pushElements, held, call, fetched>>
    BY <1>13 DEF Finalise, appVars
  <2>2. Len(pushElements) \in Nat /\ linked \in Nat /\ linked + 1 \in DOMAIN pushElements
        /\ 1 .. linked \subseteq DOMAIN pushElements
    BY <1>1, <2>20 DEF SetupInv
  <2>3. PICK e \in PushElements : e = pushElements[linked + 1] BY <1>1, <2>2 DEF SetupInv
  <2>1. /\ linked' = linked + 1 /\ UNCHANGED <<queue, pushElements, held, call, fetched>>
        /\ notifications' = notifications \o [k \in DOMAIN queue[e] |-> e]
    BY <1>13, <2>3, <2>20 DEF Finalise
  <2>4. ~Linked(e)
    <3>1. \A i \in 1 .. linked : i # linked + 1 BY <2>2
    <3> QED BY <1>1, <2>2, <2>3, <3>1 DEF SetupInv, Linked
  <2>5. \A x : Linked(x)' <=> Linked(x) \/ x = e
    <3>1. 1 .. linked + 1 = (1 .. linked) \cup {linked + 1} BY <2>2
    <3> QED BY <2>1, <2>3, <3>1 DEF Linked
  <2>6. DOMAIN queue[e] = 1 .. Len(queue[e]) /\ Len(queue[e]) \in Nat BY <1>1, <2>3 DEF EntriesType
  <2>7. /\ notifications' \in Seq(PushElements)
        /\ \A x \in PushElements :
             Times(notifications', x) = Times(notifications, x) + (IF e = x THEN Len(queue[e]) ELSE 0)
    <3>1. PICK n \in Nat : n = Len(queue[e]) /\ DOMAIN queue[e] = 1 .. n BY <2>6
    <3>2. PICK copies : copies = [k \in 1 .. n |-> e] OBVIOUS
    <3>3. notifications' = notifications \o copies BY <2>1, <3>1, <3>2
    <3>4. /\ notifications \o copies \in Seq(PushElements)
          /\ \A x : Times(notifications \o copies, x) = Times(notifications, x) + (IF e = x THEN n ELSE 0)
      BY <1>2, <3>2, TimesOfCopies
    <3> QED BY <3>1, <3>3, <3>4
  <2>8. \A x \in PushElements \ {e} : Times(notifications', x) = Times(notifications, x) BY <1>3, <2>7
  <2>9. Len(queue'[e]) = Times(notifications', e) + held'[e] + Fetched(e)'
    <3>1. Times(notifications, e) = 0 /\ held[e] = 0 /\ Fetched(e) = 0 BY <1>2, <2>3, <2>4
    <3>2. Times(notifications', e) = Len(queue[e]) BY <2>3, <2>6, <2>7, <3>1
    <3>3. Fetched(e)' = 0 /\ held'[e] = 0 BY <1>6, <2>1, <2>3, <3>1
    <3> QED BY <2>1, <2>6, <3>2, <3>3
  <2>10. \A x \in PushElements \ {e} : Linked(x)' <=> Linked(x) BY <2>5
  <2>11. \A x \in PushElements : Fetched(x)' = Fetched(x) BY <1>6, <2>1
  <2>12. \A x \in PushElements \ {e} :
          IF Linked(x)' THEN Len(queue'[x]) = Times(notifications', x) + held'[x] + Fetched(x)'
          ELSE Times(notifications', x) = 0 /\ held'[x] = 0 /\ Fetched(x)' = 0
    BY <1>2, <2>1, <2>8, <2>10, <2>11
  <2>13. Linked(e)' BY <2>5
  <2> QED BY <1>2, <1>4, <2>1, <2>7, <2>9, <2>12, <2>13
<1>14. CASE OpenOrClose BY <1>8, <1>14 DEF OpenOrClose, groupVars, appVars
<1>15. ASSUME NEW function \in {"waitAny", "readAny"}, Wait(function) PROVE CountInv'
  BY <1>8, <1>15 DEF Wait, groupVars, Accepting
<1>16. ASSUME NEW function \in {"waitAnyNonBlocking", "readAnyNonBlocking"}, WaitNonBlocking(function)
       PROVE  CountInv'
  BY <1>8, <1>16 DEF WaitNonBlocking, groupVars, Accepting
\* The first notification is held by the application, or fetched by readAny().
<1>17. ASSUME notifications # <<>>, ~Accepting, call # "idle", notifications' = Tail(notifications),
              GetNotification, UNCHANGED <<queue, pushElements, linked>>
       PROVE  CountInv'
  <2>10. PICK e \in PushElements : e = Head(notifications) BY <1>1, <1>17, FrontIsPresent
  <2>1. /\ notifications' \in Seq(PushElements) /\ Linked(e)
        /\ \A x \in PushElements : Times(notifications, x) = Times(notifications', x) + (IF e = x THEN 1 ELSE 0)
    BY <1>1, <1>2, <1>17, <2>10, FrontIsPresent
  <2>2. \/ held' = [held EXCEPT ![e] = @ + 1] /\ call' = "idle"
        \/ held' = held /\ fetched' = e /\ call' \in {"accept", "acceptNonBlocking"}
    BY <1>17, <2>10 DEF GetNotification
  <2>3. \A x \in PushElements : Times(notifications', x) \in Nat BY <2>1, PlacesAreFinite
  <2>4. \A x \in PushElements : Fetched(x) = 0 BY <1>17 DEF Fetched
  <2>5. held' \in [PushElements -> Nat]
        /\ \A x \in PushElements : held'[x] + Fetched(x)' = held[x] + (IF e = x THEN 1 ELSE 0)
    <3>1. CASE held' = [held EXCEPT ![e] = @ + 1] /\ call' = "idle"
      <4>1. \A x \in PushElements : Fetched(x)' = 0 BY <3>1 DEF Fetched, Accepting
      <4>4. PICK h \in Nat : h = held[e] + 1 BY <1>3, <2>1
      <4>5. held' = [held EXCEPT ![e] = h] BY <3>1, <4>4
      <4>2. held' \in [PushElements -> Nat] BY <1>2, <4>5
      <4>3. \A x \in PushElements : held'[x] = held[x] + (IF e = x THEN 1 ELSE 0)
        BY <1>2, <1>3, <2>1, <4>4, <4>5
      <4> QED BY <1>3, <4>1, <4>2, <4>3
    <3>2. CASE held' = held /\ fetched' = e /\ call' \in {"accept", "acceptNonBlocking"}
      <4>1. \A x \in PushElements : Fetched(x)' = IF e = x THEN 1 ELSE 0 BY <3>2 DEF Fetched, Accepting
      <4> QED BY <1>2, <3>2, <4>1
    <3> QED BY <2>2, <3>1, <3>2
  <2>6. \A x \in PushElements : Linked(x)' <=> Linked(x) BY <1>5, <1>17
  <2>7. \A x \in PushElements : Fetched(x)' \in Nat BY DEF Fetched
  <2>8. \A x \in PushElements : Linked(x) =>
          Len(queue'[x]) = Times(notifications', x) + held'[x] + Fetched(x)'
    <3> SUFFICES ASSUME NEW x \in PushElements, Linked(x)
                 PROVE  Len(queue[x]) = Times(notifications', x) + held'[x] + Fetched(x)'
      BY <1>17
    <3>1. Len(queue[x]) = Times(notifications, x) + held[x] BY <1>2, <1>3, <2>4
    <3>2. held'[x] \in Nat /\ Fetched(x)' \in Nat /\ Times(notifications', x) \in Nat /\ held[x] \in Nat
      BY <1>3, <2>3, <2>5, <2>7
    <3>3. Times(notifications, x) = Times(notifications', x) + (IF e = x THEN 1 ELSE 0) BY <2>1
    <3>4. held'[x] + Fetched(x)' = held[x] + (IF e = x THEN 1 ELSE 0) BY <2>5
    <3> QED BY <3>1, <3>2, <3>3, <3>4
  <2>9. \A x \in PushElements : ~Linked(x) => Times(notifications', x) = 0 /\ held'[x] = 0 /\ Fetched(x)' = 0
    <3> SUFFICES ASSUME NEW x \in PushElements, ~Linked(x)
                 PROVE  Times(notifications', x) = 0 /\ held'[x] = 0 /\ Fetched(x)' = 0
      OBVIOUS
    <3>1. e # x BY <2>1
    <3>2. held'[x] \in Nat BY <2>5
    <3> QED BY <1>2, <2>1, <2>3, <2>5, <2>7, <3>1, <3>2
  <2> QED BY <1>4, <2>1, <2>5, <2>6, <2>8, <2>9
<1>18. CASE PopNotification
  BY <1>17, <1>18 DEF PopNotification, groupVars, Accepting
<1>19. CASE FindNothing BY <1>8, <1>19 DEF FindNothing, groupVars, Accepting, NonBlocking
<1>20. CASE FindDiscarded
  <2>10. PICK e \in PushElements : e = Head(notifications) BY <1>1, <1>20, FrontIsPresent DEF FindDiscarded
  <2>1. /\ notifications # <<>> /\ notifications' = Tail(notifications)
        /\ queue' = [queue EXCEPT ![e] = Tail(@)] /\ UNCHANGED <<held, call, fetched, pushElements, linked>>
    BY <1>20, <2>10 DEF FindDiscarded, groupVars, appVars
  <2>2. /\ notifications' \in Seq(PushElements) /\ Linked(e) /\ queue[e] # <<>>
        /\ \A x \in PushElements : Times(notifications, x) = Times(notifications', x) + (IF e = x THEN 1 ELSE 0)
    BY <1>1, <1>2, <2>1, <2>10, FrontIsPresent
  <2>3. \A x \in PushElements : Len(queue'[x]) = IF x = e THEN Len(queue[x]) - 1 ELSE Len(queue[x])
    BY <1>1, <2>1, <2>2, DiscardFacts, Names
  <2>4. \A x \in PushElements : Times(notifications', x) \in Nat BY <2>2, PlacesAreFinite
  <2>5. \A x \in PushElements \ {e} : Times(notifications', x) = Times(notifications, x) BY <2>2, <2>4
  <2>6. Len(queue'[e]) = Times(notifications', e) + held'[e] + Fetched(e)'
    <3>1. Len(queue[e]) = Times(notifications, e) + held[e] + Fetched(e) BY <1>2, <2>2
    <3>2. Times(notifications', e) \in Nat /\ held[e] \in Nat /\ Fetched(e) \in Nat BY <1>3, <2>2, <2>4
    <3>3. Times(notifications, e) = Times(notifications', e) + 1 BY <2>2
    <3>4. Fetched(e)' = Fetched(e) /\ held'[e] = held[e] BY <1>6, <2>1, <2>2
    <3>5. Len(queue'[e]) = Len(queue[e]) - 1 BY <2>2, <2>3
    <3> QED BY <3>1, <3>2, <3>3, <3>4, <3>5
  <2>7. \A x \in PushElements : (Linked(x)' <=> Linked(x)) /\ Fetched(x)' = Fetched(x) BY <1>5, <1>6, <2>1
  <2>8. \A x \in PushElements \ {e} :
          IF Linked(x)' THEN Len(queue'[x]) = Times(notifications', x) + held'[x] + Fetched(x)'
          ELSE Times(notifications', x) = 0 /\ held'[x] = 0 /\ Fetched(x)' = 0
    BY <1>2, <2>1, <2>3, <2>5, <2>7
  <2>9. Linked(e)' BY <2>2, <2>7
  <2> QED BY <1>2, <1>4, <2>1, <2>2, <2>6, <2>8, <2>9
<1>21. CASE FindUpdate
  <2>1. CASE FirstFails
    BY <1>8, <1>21, <2>1 DEF FindUpdate, groupVars, Accepting, NonBlocking
  <2>2. CASE ~FirstFails
    BY <1>17, <1>21, <2>2 DEF FindUpdate, groupVars, Accepting, NonBlocking
  <2> QED BY <2>1, <2>2
\* An entry is taken from a queue, and one notification less is in the hands of
\* the application.
<1>22. ASSUME NEW e \in PushElements, queue[e] # <<>>, Accept(e), held' \in [PushElements -> Nat],
              UNCHANGED <<notifications, pushElements, linked>>,
              \A x \in PushElements : held'[x] + Fetched(x)' + (IF x = e THEN 1 ELSE 0) = held[x] + Fetched(x)
       PROVE  CountInv'
  <2>1. \A x \in PushElements : Len(queue'[x]) = IF x = e THEN Len(queue[x]) - 1 ELSE Len(queue[x])
    BY <1>1, <1>22, AcceptFacts
  <2>2. \A x \in PushElements : Linked(x)' <=> Linked(x) BY <1>5, <1>22
  <2>3. \A x \in PushElements : Fetched(x)' \in Nat /\ held'[x] \in Nat BY <1>22 DEF Fetched
  <2>4. \A x \in PushElements : Linked(x) =>
          Len(queue'[x]) = Times(notifications, x) + held'[x] + Fetched(x)'
    <3> SUFFICES ASSUME NEW x \in PushElements, Linked(x)
                 PROVE  Len(queue'[x]) = Times(notifications, x) + held'[x] + Fetched(x)'
      OBVIOUS
    <3>1. Len(queue[x]) = Times(notifications, x) + held[x] + Fetched(x) BY <1>2
    <3>2. /\ Times(notifications, x) \in Nat /\ held[x] \in Nat /\ Fetched(x) \in Nat
          /\ held'[x] \in Nat /\ Fetched(x)' \in Nat
      BY <1>3, <2>3
    <3>3. held'[x] + Fetched(x)' + (IF x = e THEN 1 ELSE 0) = held[x] + Fetched(x) BY <1>22
    <3>4. Len(queue'[x]) = IF x = e THEN Len(queue[x]) - 1 ELSE Len(queue[x]) BY <2>1
    <3>5. CASE x = e
      <4>1. Len(queue'[x]) = Len(queue[x]) - 1 /\ held'[x] + Fetched(x)' + 1 = held[x] + Fetched(x)
        BY <3>3, <3>4, <3>5
      <4>2. PICK a \in Nat, b \in Nat, c \in Nat, d \in Nat, f \in Nat :
              a = Times(notifications, x) /\ b = held[x] /\ c = Fetched(x) /\ d = held'[x] /\ f = Fetched(x)'
        BY <3>2
      <4>3. PICK l, m : l = Len(queue[x]) /\ m = Len(queue'[x]) BY <1>3
      <4>4. l = a + b + c /\ m = l - 1 /\ d + f + 1 = b + c BY <3>1, <4>1, <4>2, <4>3
      <4>5. m = a + d + f BY <4>4
      <4> QED BY <4>2, <4>3, <4>5
    <3>6. CASE x # e BY <3>1, <3>2, <3>3, <3>4, <3>6
    <3> QED BY <3>5, <3>6
  <2>5. \A x \in PushElements : ~Linked(x) => held'[x] = 0 /\ Fetched(x)' = 0
    <3> SUFFICES ASSUME NEW x \in PushElements, ~Linked(x) PROVE held'[x] = 0 /\ Fetched(x)' = 0
      OBVIOUS
    <3>1. held[x] = 0 /\ Fetched(x) = 0 BY <1>2
    <3>2. held'[x] \in Nat /\ Fetched(x)' \in Nat BY <2>3
    <3>3. held'[x] + Fetched(x)' + (IF x = e THEN 1 ELSE 0) = held[x] + Fetched(x) BY <1>22
    <3> QED BY <3>1, <3>2, <3>3
  <2> QED BY <1>2, <1>4, <1>22, <2>2, <2>4, <2>5
<1>23. ASSUME NEW e \in PushElements, AcceptHeld(e) \/ DropHeld(e) PROVE CountInv'
  <2>1. /\ held[e] > 0 /\ queue[e] # <<>> /\ Accept(e) /\ held' = [held EXCEPT ![e] = @ - 1]
        /\ UNCHANGED <<notifications, pushElements, linked, call, fetched>>
    BY <1>23 DEF AcceptHeld, DropHeld, groupVars
  <2>2. held' \in [PushElements -> Nat] BY <1>2, <1>3, <2>1
  <2>3. held'[e] = held[e] - 1 /\ \A x \in PushElements \ {e} : held'[x] = held[x] BY <1>2, <2>1
  <2>4. \A x \in PushElements : Fetched(x)' = Fetched(x) BY <1>6, <2>1
  <2>5. \A x \in PushElements : held'[x] + Fetched(x)' + (IF x = e THEN 1 ELSE 0) = held[x] + Fetched(x)
    BY <1>3, <2>3, <2>4
  <2> QED BY <1>22, <2>1, <2>2, <2>5
<1>24. CASE ReadAccept
  <2>1. /\ Accepting /\ queue[fetched] # <<>> /\ Accept(fetched)
        /\ UNCHANGED <<notifications, pushElements, linked, held>>
        /\ call' \in {"readAny", "readAnyNonBlocking", "idle", "polling"}
    BY <1>24 DEF ReadAccept, groupVars
  <2>2. fetched \in PushElements BY <1>1, <2>1 DEF CallType
  <2>3. \A x \in PushElements : Fetched(x) = (IF x = fetched THEN 1 ELSE 0) /\ Fetched(x)' = 0
    BY <2>1 DEF Fetched, Accepting
  <2>4. \A x \in PushElements :
          held'[x] + Fetched(x)' + (IF x = fetched THEN 1 ELSE 0) = held[x] + Fetched(x)
    BY <1>3, <2>1, <2>3
  <2>5. PICK e \in PushElements : e = fetched BY <2>2
  <2> QED BY <1>2, <1>22, <2>1, <2>4, <2>5
<1>25. CASE ProcessPolled \/ ProcessPolledFails \/ Return
  BY <1>8, <1>25 DEF ProcessPolled, ProcessPolledFails, Return, groupVars, Accepting
<1>26. CASE UNCHANGED readAnyVars BY <1>8, <1>26 DEF readAnyVars
<1> QED
  BY <1>9, <1>11, <1>12, <1>13, <1>14, <1>15, <1>16, <1>18, <1>19, <1>20, <1>21, <1>23, <1>24, <1>25, <1>26
  DEF ReadAnyNext, Continue

-----------------------------------------------------------------------------
(* Transactions *)

\* The part of the invariant which is about all applications, and the one about
\* those which accept each notification before they wait again.
LEMMA TransactionStep ==
  ASSUME GroupAssumption, ReadAnyInv, SetupInv', [ReadAnyNext]_readAnyVars
  PROVE  TransactionInv'
<1>1. /\ EntriesType /\ ElementsType /\ CallType /\ SetupInv /\ CountInv
      /\ \A e \in PushElements : inProgress[e] => ~active[e]
      /\ ~retains => OneHeld /\ Prepared
  BY DEF ReadAnyInv, ReadAnyTypes, TransactionInv
<1>2. held \in [PushElements -> Nat] BY <1>1 DEF CountInv
<1>3. retains' = retains BY DEF ReadAnyNext, Running, readAnyVars
<1>4. \A e \in PushElements : InGroup(e) <=> e \in ElementsOf(pushElements) BY DEF InGroup
<1> DEFINE Safe == \A e \in PushElements : inProgress'[e] => ~active'[e]
\* A group which is not finalised has not been used.
<1>5. ASSUME call' = "idle", lastOperation' = "all", \A e \in PushElements : held'[e] = 0, Safe
      PROVE  TransactionInv'
  BY <1>5 DEF TransactionInv, OneHeld, Prepared
<1>6. CASE ~isFinalised'
  <2>1. /\ call' = "idle" /\ lastOperation' = "all"
        /\ \A e \in PushElements : ~inProgress'[e] /\ held'[e] = 0
    BY <1>6 DEF SetupInv
  <2> QED BY <1>5, <2>1
<1>7. ASSUME ~isFinalised, UNCHANGED <<call, lastOperation, inProgress, active, held>>
      PROVE  TransactionInv'
  <2>1. /\ call = "idle" /\ lastOperation = "all"
        /\ \A e \in PushElements : ~inProgress[e] /\ held[e] = 0
    BY <1>1, <1>7 DEF SetupInv
  <2> QED BY <1>1, <1>5, <1>7, <2>1
\* Steps which do not change the elements, before or after a function.
<1>8. ASSUME UNCHANGED <<inProgress, active, held, lastOperation, pushElements>>,
             \/ call' = call
             \/ call' = "idle"
             \/ ~retains => /\ call' \in {"waitAnyNonBlocking", "readAnyNonBlocking", "polling"}
                            /\ \A e \in PushElements : held[e] = 0
      PROVE  TransactionInv'
  <2>1. Safe BY <1>1, <1>8
  <2>2. ~retains => OneHeld' BY <1>1, <1>8 DEF OneHeld
  <2>3. ~retains => Prepared' BY <1>1, <1>8 DEF Prepared
  <2> QED BY <1>3, <2>1, <2>2, <2>3 DEF TransactionInv
<1>9. CASE UNCHANGED readAnyVars BY <1>8, <1>9 DEF readAnyVars
<1>10. ASSUME NEW e \in PushElements, NEW kind \in Kinds, PushUpdate(e, kind) PROVE TransactionInv'
  BY <1>8, <1>10 DEF PushUpdate, groupVars, elementVars, appVars
<1>11. CASE OpenOrClose BY <1>8, <1>11 DEF OpenOrClose, groupVars, elementVars, appVars
<1>12. ASSUME NEW e \in PushElements, ReadDirectly(e) PROVE TransactionInv'
  <2>1. linked = 0 /\ UNCHANGED groupVars BY <1>12 DEF ReadDirectly
  <2>2. ~isFinalised' BY <2>1 DEF isFinalised, groupVars
  <2> QED BY <1>6, <2>2
<1>13. CASE Add
  <2>1. linked' = 0 BY <1>13 DEF Add
  <2>2. ~isFinalised' BY <2>1 DEF isFinalised
  <2> QED BY <1>6, <2>2
<1>14. CASE Finalise
  <2>1. linked < Len(pushElements) /\ UNCHANGED <<call, lastOperation, inProgress, active, held>>
    BY <1>14 DEF Finalise, elementVars, appVars
  <2>2. Len(pushElements) \in Nat /\ linked \in Nat BY <1>1 DEF SetupInv
  <2>3. ~isFinalised BY <2>1, <2>2 DEF isFinalised
  <2> QED BY <1>7, <2>1, <2>3
\* handlePreRead() only adds transactions.
<1>15. ASSUME HandlePreRead
       PROVE  /\ Safe /\ \A e \in PushElements : inProgress[e] => inProgress'[e]
              /\ ~retains /\ ~FirstFails => \A e \in ElementsOf(pushElements) : inProgress'[e]
  <2>1. Safe /\ \A e \in PushElements : inProgress[e] => inProgress'[e] BY <1>1, <1>15, PreReadFacts
  <2>2. ~retains /\ ~FirstFails => \A e \in ElementsOf(pushElements) : inProgress'[e]
    BY <1>1, <1>15, AllArePrepared
  <2> QED BY <2>1, <2>2
<1>16. ASSUME HandlePreRead, UNCHANGED <<held, lastOperation, pushElements>>, call' = call \/ call' = "idle"
       PROVE  TransactionInv'
  <2>1. ~retains => OneHeld' BY <1>1, <1>16 DEF OneHeld
  <2>2. \A e \in ElementsOf(pushElements) : e \in PushElements /\ ElementsOf(pushElements)' = ElementsOf(pushElements)
    BY <1>1, <1>16, LinkedFacts DEF ElementsOf
  <2>3. ~retains => Prepared' BY <1>1, <1>15, <1>16, <2>2 DEF Prepared
  <2> QED BY <1>3, <1>15, <1>16, <2>1, <2>3 DEF TransactionInv
<1>17. ASSUME NEW function \in {"waitAny", "readAny"}, Wait(function) PROVE TransactionInv'
  <2>1. CASE FirstFails BY <1>16, <1>17, <2>1 DEF Wait, groupVars
  <2>2. CASE ~FirstFails
    <3>1. /\ HandlePreRead /\ UNCHANGED <<held, lastOperation, pushElements>> /\ MayWait
      BY <1>17 DEF Wait, groupVars
    <3>2. ~retains => \A e \in PushElements : held'[e] = 0 BY <3>1 DEF MayWait
    <3>3. ~retains => OneHeld' BY <3>2 DEF OneHeld
    <3>4. ~retains => \A e \in ElementsOf(pushElements)' : inProgress'[e]
      BY <1>15, <2>2, <3>1 DEF ElementsOf
    <3>5. ~retains => Prepared' BY <3>4 DEF Prepared
    <3> QED BY <1>3, <1>15, <3>1, <3>3, <3>5 DEF TransactionInv
  <2> QED BY <2>1, <2>2
<1>18. ASSUME NEW function \in {"waitAnyNonBlocking", "readAnyNonBlocking"}, WaitNonBlocking(function)
       PROVE  TransactionInv'
  BY <1>8, <1>18 DEF WaitNonBlocking, MayWait, groupVars, elementVars
<1>19. CASE FindNothing
  <2>1. ~retains => \A e \in PushElements : held[e] = 0 BY <1>1, <1>19 DEF FindNothing, NonBlocking, OneHeld
  <2> QED BY <1>8, <1>19, <2>1 DEF FindNothing, groupVars, elementVars
<1>20. CASE FindDiscarded BY <1>8, <1>20 DEF FindDiscarded, groupVars, elementVars, appVars
\* The notification goes to the application or to readAny(): all elements are
\* prepared, and it is the only one.
<1>21. ASSUME notifications # <<>>, call # "idle", GetNotification, UNCHANGED <<lastOperation,
  pushElements>>, Safe,
              ~retains => \A e \in ElementsOf(pushElements) : inProgress'[e]
       PROVE  TransactionInv'
  <2>1. PICK e \in PushElements : e = Head(notifications) BY <1>1, <1>21, FrontIsPresent
  <2>2. ~retains => \A x \in PushElements : held[x] = 0 BY <1>1, <1>21 DEF OneHeld
  <2>3. \/ held' = [held EXCEPT ![e] = @ + 1] /\ call' = "idle"
        \/ held' = held
    BY <1>21, <2>1 DEF GetNotification
  <2>4. ~retains => OneHeld'
    <3>1. CASE held' = held BY <2>2, <3>1 DEF OneHeld
    <3>2. ASSUME ~retains, held' = [held EXCEPT ![e] = @ + 1], call' = "idle" PROVE OneHeld'
      <4>1. held[e] = 0 BY <2>2, <3>2
      <4>2. held' = [held EXCEPT ![e] = 1] BY <3>2, <4>1
      <4>3. \A x \in PushElements : held'[x] = IF x = e THEN 1 ELSE 0 BY <1>2, <2>2, <3>2, <4>2
      <4> QED BY <3>2, <4>3 DEF OneHeld
    <3> QED BY <2>3, <3>1, <3>2
  <2>5. ~retains => \A x \in ElementsOf(pushElements)' : inProgress'[x] BY <1>21 DEF ElementsOf
  <2>6. ~retains => Prepared' BY <2>5 DEF Prepared
  <2> QED BY <1>3, <1>21, <2>4, <2>6 DEF TransactionInv
<1>22. CASE PopNotification
  <2>1. ~retains => \A e \in ElementsOf(pushElements) : inProgress[e]
    BY <1>1, <1>22 DEF PopNotification, Prepared
  <2> QED BY <1>1, <1>21, <1>22, <2>1 DEF PopNotification, groupVars, elementVars
<1>23. CASE FindUpdate
  <2>1. CASE FirstFails BY <1>16, <1>23, <2>1 DEF FindUpdate, groupVars
  <2>2. CASE ~FirstFails
    <3>1. /\ HandlePreRead /\ UNCHANGED <<lastOperation, pushElements>> /\ GetNotification
          /\ notifications # <<>> /\ call # "idle"
      BY <1>23, <2>2 DEF FindUpdate, groupVars, NonBlocking
    <3>2. Safe /\ (~retains => \A e \in ElementsOf(pushElements) : inProgress'[e]) BY <1>15, <2>2, <3>1
    <3> QED BY <1>21, <3>1, <3>2
  <2> QED BY <2>1, <2>2
\* The transaction of the accepted element is over, and the others are prepared.
<1>24. ASSUME NEW e \in PushElements, queue[e] # <<>>, Accept(e), UNCHANGED pushElements
       PROVE  /\ Safe
              /\ ~retains /\ (\A x \in ElementsOf(pushElements) : inProgress[x]) =>
                   /\ \A x \in ElementsOf(pushElements)' : x = lastOperation' \/ inProgress'[x]
                   /\ Discards(e) => \A x \in ElementsOf(pushElements)' : inProgress'[x]
  <2>1. ElementsOf(pushElements)' = ElementsOf(pushElements) BY <1>24 DEF ElementsOf
  <2>2. \A x \in ElementsOf(pushElements) : x \in PushElements BY <1>1, LinkedFacts
  <2>3. CASE Discards(e)
    <3>1. UNCHANGED <<inProgress, active>> BY <1>1, <1>24, <2>3, AcceptFacts
    <3> QED BY <1>1, <2>1, <2>2, <3>1
  <2>4. CASE ~Discards(e)
    <3>1. /\ lastOperation' = e /\ ~inProgress'[e]
          /\ \A x \in PushElements \ {e} : (inProgress'[x] <=> inProgress[x]) /\ (active'[x] <=> active[x])
      BY <1>1, <1>24, <2>4, AcceptFacts
    <3> QED BY <1>1, <2>1, <2>2, <2>4, <3>1
  <2> QED BY <2>3, <2>4
<1>25. ASSUME NEW e \in PushElements, AcceptHeld(e) \/ DropHeld(e) PROVE TransactionInv'
  <2>1. /\ held[e] > 0 /\ queue[e] # <<>> /\ Accept(e) /\ held' = [held EXCEPT ![e] = @ - 1]
        /\ UNCHANGED <<pushElements, call>> /\ call = "idle"
    BY <1>25 DEF AcceptHeld, DropHeld, groupVars
  <2>2. ~retains => \A x \in PushElements : held'[x] = 0
    <3> SUFFICES ASSUME ~retains, NEW x \in PushElements PROVE held'[x] = 0
      OBVIOUS
    <3>1. OneHeld BY <1>1
    <3>2. held[x] \in Nat /\ held[e] \in Nat BY <1>2
    <3>3. CASE x = e
      <4>1. held[e] = 1 BY <2>1, <3>1, <3>2 DEF OneHeld
      <4>2. held' = [held EXCEPT ![e] = 0] BY <2>1, <4>1
      <4> QED BY <1>2, <3>3, <4>2
    <3>4. CASE x # e
      <4>1. ~(held[x] > 0) BY <2>1, <3>1, <3>4 DEF OneHeld
      <4>2. held'[x] = held[x] BY <1>2, <2>1, <3>4
      <4> QED BY <3>2, <4>1, <4>2
    <3> QED BY <3>3, <3>4
  <2>3. ~retains => OneHeld' BY <2>2 DEF OneHeld
  <2>4. ~retains => \A x \in ElementsOf(pushElements) : inProgress[x] BY <1>1, <2>1 DEF Prepared
  <2>5. ~retains => Prepared' BY <1>24, <2>1, <2>2, <2>4 DEF Prepared
  <2> QED BY <1>3, <1>24, <2>1, <2>3, <2>5 DEF TransactionInv
<1>26. CASE ReadAccept
  <2>1. /\ Accepting /\ queue[fetched] # <<>> /\ Accept(fetched) /\ UNCHANGED <<pushElements, held>>
    BY <1>26 DEF ReadAccept, groupVars
  <2>2. PICK e \in PushElements : e = fetched BY <1>1, <2>1 DEF CallType
  <2>3. call' \in {"readAny", "readAnyNonBlocking", "idle", "polling"} /\ (call' = "readAny" => Discards(e))
    BY <1>26, <2>2 DEF ReadAccept
  <2>4. ~retains => /\ \A x \in PushElements : held[x] = 0
                    /\ \A x \in ElementsOf(pushElements) : inProgress[x]
    BY <1>1, <2>1 DEF OneHeld, Prepared, Accepting
  <2>5. ~retains => OneHeld' BY <2>1, <2>4 DEF OneHeld
  <2>6. ~retains => Prepared' BY <1>24, <2>1, <2>2, <2>3, <2>4 DEF Prepared
  <2> QED BY <1>3, <1>24, <2>1, <2>2, <2>5, <2>6 DEF TransactionInv
<1>27. CASE ProcessPolled \/ ProcessPolledFails \/ Return
  BY <1>8, <1>27 DEF ProcessPolled, ProcessPolledFails, Return, groupVars, elementVars
<1> QED
  BY <1>9, <1>10, <1>11, <1>12, <1>13, <1>14, <1>17, <1>18, <1>19, <1>20, <1>22, <1>23, <1>25, <1>26, <1>27
  DEF ReadAnyNext, Continue

-----------------------------------------------------------------------------
(* What is in the buffers *)

LEMMA CompletedStep ==
  ASSUME GroupAssumption, ReadAnyInv, [ReadAnyNext]_readAnyVars
  PROVE  CompletedInv'
<1>1. EntriesType /\ ElementsType /\ CallType /\ SetupInv /\ CountInv /\ NumberInv /\ TransactionInv /\ CompletedInv
  BY DEF ReadAnyInv, ReadAnyTypes
<1>2. retains' = retains BY DEF ReadAnyNext, Running, readAnyVars
<1>3. /\ PushElements \subseteq Elements /\ PollElements \subseteq Elements
      /\ \A e \in PushElements, p \in PollElements : e # p
  BY Names DEF Elements
\* Most steps take nothing, and no exception becomes active.
<1>4. ASSUME UNCHANGED <<taken, linked, finalisedAt>>, \A e \in PushElements : buffer'[e] = buffer[e],
             \A e \in PushElements : active'[e] => active[e]
      PROVE  CompletedInv'
  BY <1>1, <1>2, <1>4 DEF CompletedInv
<1>5. ASSUME UNCHANGED <<elementVars, linked, finalisedAt>> PROVE CompletedInv'
  BY <1>4, <1>5 DEF elementVars
<1>6. ASSUME HandlePreRead, UNCHANGED <<buffer, taken, groupVars>> PROVE CompletedInv'
  <2>1. \A e \in PushElements : active'[e] => active[e] BY <1>1, <1>6, PreReadFacts
  <2> QED BY <1>4, <1>6, <2>1 DEF groupVars
<1>7. ASSUME NEW e \in PushElements, ReadDirectly(e) PROVE CompletedInv'
  <2>1. linked' = 0 BY <1>7 DEF ReadDirectly, groupVars
  <2>2. \A x \in PushElements : (taken[x].kind = "data" => buffer[x] = taken[x].number) =>
          (taken'[x].kind = "data" => buffer'[x] = taken'[x].number)
    BY <1>1, <1>7, ReadFacts
  <2> QED BY <1>1, <1>2, <2>1, <2>2 DEF CompletedInv
<1>8. CASE Finalise
  <2>1. finalisedAt' = pushed /\ UNCHANGED elementVars BY <1>8 DEF Finalise
  <2>2. \A x \in PushElements : taken[x].number \in Nat
    BY <1>1, EntryFields DEF ElementsType, Nothing
  <2>3. \A x \in PushElements : ~(taken'[x].number > finalisedAt')
    BY <1>1, <2>1, <2>2 DEF NumberInv, CallType, elementVars
  <2> QED BY <1>1, <1>2, <2>1, <2>3 DEF CompletedInv, elementVars
\* The accepted element had a transaction, so its data arrive and no exception is left.
<1>9. ASSUME NEW e \in PushElements, queue[e] # <<>>, Accept(e), UNCHANGED groupVars,
             ~retains => inProgress[e]
      PROVE  CompletedInv'
  <2>1. CASE Discards(e)
    <3>1. UNCHANGED elementVars BY <1>1, <1>9, <2>1, AcceptFacts DEF elementVars
    <3> QED BY <1>5, <1>9, <3>1 DEF groupVars
  <2>2. CASE ~Discards(e)
    <3>1. /\ \A x \in PushElements \ {e} : taken'[x] = taken[x] /\ (active'[x] <=> active[x])
          /\ \A x \in PushElements \ {e} : buffer'[x] = buffer[x]
          /\ taken'[e].kind = "data" =>
               (active'[e] <=> active[e]) /\ (inProgress[e] => buffer'[e] = taken'[e].number)
      BY <1>1, <1>3, <1>9, <2>2, AcceptFacts
    <3>2. ~retains => ~active[e] BY <1>1, <1>9 DEF TransactionInv
    <3>3. UNCHANGED <<linked, finalisedAt>> BY <1>9 DEF groupVars
    <3> QED BY <1>1, <1>2, <1>9, <3>1, <3>2, <3>3 DEF CompletedInv
  <2> QED BY <2>1, <2>2
<1>10. ASSUME NEW e \in PushElements, AcceptHeld(e) \/ DropHeld(e) PROVE CompletedInv'
  <2>1. held[e] > 0 /\ queue[e] # <<>> /\ Accept(e) /\ UNCHANGED groupVars
    BY <1>10 DEF AcceptHeld, DropHeld
  <2>2. Linked(e) BY <1>1, <2>1 DEF CountInv
  <2>3. e \in ElementsOf(pushElements) BY <1>1, <2>2, LinkedFacts DEF InGroup
  <2>4. ~retains => inProgress[e] BY <1>1, <2>1, <2>3 DEF TransactionInv, Prepared
  <2> QED BY <1>9, <2>1, <2>4
<1>11. CASE ReadAccept
  <2>1. Accepting /\ queue[fetched] # <<>> /\ Accept(fetched) /\ UNCHANGED groupVars
    BY <1>11 DEF ReadAccept
  <2>2. PICK e \in PushElements : e = fetched BY <1>1, <2>1 DEF CallType
  <2>3. Fetched(e) # 0 BY <2>1, <2>2 DEF Fetched
  <2>4. Linked(e) BY <1>1, <2>3 DEF CountInv
  <2>5. e \in ElementsOf(pushElements) BY <1>1, <2>4, LinkedFacts DEF InGroup
  <2>6. ~retains => inProgress[e] BY <1>1, <2>1, <2>5 DEF TransactionInv, Prepared, Accepting
  <2> QED BY <1>9, <2>1, <2>2, <2>6
<1>12. CASE ProcessPolled
  <2>1. /\ polls # <<>> /\ buffer' = [buffer EXCEPT ![Head(polls)] = pushed]
        /\ UNCHANGED <<taken, active, linked, finalisedAt>>
    BY <1>12 DEF ProcessPolled, groupVars
  <2>2. PICK p \in PollElements : p = Head(polls) BY <1>1, <2>1 DEF CallType
  <2>3. \A e \in PushElements : buffer'[e] = buffer[e] BY <1>1, <1>3, <2>1, <2>2 DEF ElementsType
  <2> QED BY <1>4, <2>1, <2>3
<1>13. ASSUME NEW function, Wait(function) PROVE CompletedInv' BY <1>6, <1>13 DEF Wait
<1>14. CASE FindUpdate BY <1>6, <1>14 DEF FindUpdate
<1>15. CASE Add BY <1>5, <1>15 DEF Add
<1> QED
  BY <1>5, <1>7, <1>8, <1>10, <1>11, <1>12, <1>13, <1>14, <1>15
  DEF ReadAnyNext, Continue, PushUpdate, OpenOrClose, WaitNonBlocking, PopNotification, FindNothing,
      FindDiscarded, ProcessPolledFails, Return, readAnyVars, elementVars, groupVars

LEMMA PolledStep ==
  ASSUME GroupAssumption, ReadAnyInv, SetupInv', [ReadAnyNext]_readAnyVars
  PROVE  PolledInv'
<1>1. EntriesType /\ ElementsType /\ CallType /\ SetupInv /\ CountInv /\ NumberInv /\ PolledInv
  BY DEF ReadAnyInv, ReadAnyTypes
<1>2. "none" \notin PushElements /\ "exception" \notin PushElements BY Names
\* Nothing has been returned, and no element is read.
<1>3. ASSUME returned' \in {"none", "exception"}, call' # "polling" PROVE PolledInv'
  BY <1>2, <1>3 DEF PolledInv
<1>4. CASE ~isFinalised'
  <2>1. call' = "idle" /\ returned' = "none" BY <1>4 DEF SetupInv
  <2> QED BY <1>3, <2>1
\* Steps which leave the poll-type elements and what was taken as they are.
<1>5. ASSUME UNCHANGED <<call, returned, fetched, polls, buffer, taken, pollElements>> PROVE PolledInv'
  BY <1>1, <1>5 DEF PolledInv, ElementsOf
<1>6. CASE UNCHANGED readAnyVars BY <1>5, <1>6 DEF readAnyVars
<1>7. ASSUME NEW e \in PushElements, NEW kind \in Kinds, PushUpdate(e, kind) PROVE PolledInv'
  BY <1>5, <1>7 DEF PushUpdate, groupVars, elementVars, appVars
<1>8. CASE OpenOrClose BY <1>5, <1>8 DEF OpenOrClose, groupVars, elementVars, appVars
<1>9. ASSUME NEW e \in PushElements, ReadDirectly(e) PROVE PolledInv'
  <2>1. linked' = 0 BY <1>9 DEF ReadDirectly, groupVars
  <2>2. ~isFinalised' BY <2>1 DEF isFinalised
  <2> QED BY <1>4, <2>2
<1>10. CASE Add
  <2>1. linked' = 0 BY <1>10 DEF Add
  <2>2. ~isFinalised' BY <2>1 DEF isFinalised
  <2> QED BY <1>4, <2>2
<1>11. CASE Finalise BY <1>5, <1>11 DEF Finalise, elementVars, appVars
\* The functions start without a result.
<1>12. ASSUME NEW function \in {"waitAny", "readAny"}, Wait(function) PROVE PolledInv'
  <2>1. returned' \in {"none", "exception"} /\ call' # "polling" BY <1>12 DEF Wait
  <2> QED BY <1>3, <2>1
<1>13. ASSUME NEW function \in {"waitAnyNonBlocking", "readAnyNonBlocking"}, WaitNonBlocking(function)
       PROVE  PolledInv'
  <2>1. returned' = "none" /\ call' # "polling" BY <1>13 DEF WaitNonBlocking
  <2> QED BY <1>3, <2>1
<1>14. ASSUME call # "idle", returned' = returned \/ returned' = "exception", call' # "polling"
       PROVE  PolledInv'
  <2>1. returned' \in {"none", "exception"} BY <1>1, <1>14 DEF PolledInv, CallType
  <2> QED BY <1>3, <1>14, <2>1
<1>15. CASE PopNotification BY <1>14, <1>15 DEF PopNotification, GetNotification
<1>16. CASE FindUpdate BY <1>14, <1>16 DEF FindUpdate, GetNotification, NonBlocking
<1>17. CASE FindDiscarded BY <1>5, <1>17 DEF FindDiscarded, groupVars, elementVars, appVars
\* The poll-type elements are all to be read.
<1>18. ASSUME call # "idle", returned' = returned, polls' = pollElements, UNCHANGED pollElements,
  call' = "polling"
       PROVE  PolledInv'
  <2>1. returned' \notin PushElements BY <1>1, <1>18 DEF PolledInv
  <2>2. ElementsOf(pollElements)' \ ElementsOf(polls)' = {} BY <1>18 DEF ElementsOf
  <2> QED BY <1>18, <2>1, <2>2 DEF PolledInv
<1>19. CASE FindNothing
  <2>1. CASE call = "readAnyNonBlocking" BY <1>18, <1>19, <2>1 DEF FindNothing, groupVars
  <2>2. CASE call # "readAnyNonBlocking" BY <1>14, <1>19, <2>2 DEF FindNothing, NonBlocking
  <2> QED BY <2>1, <2>2
<1>20. CASE ReadAccept
  <2>1. call # "idle" /\ UNCHANGED pollElements BY <1>20 DEF ReadAccept, Accepting, groupVars
  <2>2. CASE call' = "polling"
    <3>1. polls' = pollElements /\ returned' = returned BY <1>20, <2>2 DEF ReadAccept
    <3> QED BY <1>18, <2>1, <2>2, <3>1
  <2>3. CASE call' # "polling"
    <3>1. returned' = returned \/ returned' = "exception" BY <1>20 DEF ReadAccept
    <3> QED BY <1>14, <2>1, <2>3, <3>1
  <2> QED BY <2>2, <2>3
<1>21. ASSUME NEW e \in PushElements, AcceptHeld(e) \/ DropHeld(e) PROVE PolledInv'
  <2>1. returned' = "none" /\ call' = "idle" BY <1>21 DEF AcceptHeld, DropHeld
  <2> QED BY <1>3, <2>1
\* An element which is read gets the number of the last push.
<1>22. CASE ProcessPolled
  <2>1. /\ polls # <<>> /\ buffer' = [buffer EXCEPT ![Head(polls)] = pushed] /\ polls' = Tail(polls)
        /\ UNCHANGED <<call, returned, fetched, taken, pollElements, pushed>> /\ call = "polling"
    BY <1>22 DEF ProcessPolled, groupVars
  <2>2. PICK p \in PollElements : p = Head(polls) BY <1>1, <2>1 DEF CallType
  <2>3. ElementsOf(polls) \subseteq ElementsOf(polls') \cup {p}
    <3>1. polls \in Seq(PollElements) BY <1>1 DEF CallType
    <3>2. \A i \in DOMAIN polls : i # 1 => i - 1 \in DOMAIN Tail(polls) /\ polls[i] = Tail(polls)[i - 1]
      BY <2>1, <3>1
    <3>3. polls[1] = p BY <2>1, <2>2, <3>1
    <3> QED BY <2>1, <3>2, <3>3 DEF ElementsOf
  <2>4. p \in Elements /\ PollElements \subseteq Elements BY DEF Elements
  <2>5. buffer'[p] = pushed /\ \A x \in Elements \ {p} : buffer'[x] = buffer[x]
    BY <1>1, <2>1, <2>2, <2>4 DEF ElementsType
  <2>6. \A x \in ElementsOf(pollElements) : x \in Elements BY <1>1, <2>4, LinkedFacts
  <2>7. ASSUME fetched \in PushElements, NEW x \in ElementsOf(pollElements) \ ElementsOf(polls')
        PROVE  buffer'[x] >= taken[fetched].number
    <3>1. CASE x = p
      <4>1. taken[fetched].number <= pushed /\ taken[fetched].number \in Nat /\ pushed \in Nat
        BY <1>1, <2>7, EntryFields DEF NumberInv, ElementsType, Nothing, CallType
      <4> QED BY <2>5, <3>1, <4>1
    <3>2. CASE x # p
      <4>1. x \notin ElementsOf(polls) BY <2>3, <2>7, <3>2
      <4>2. buffer[x] >= taken[fetched].number BY <1>1, <2>1, <2>7, <4>1 DEF PolledInv
      <4> QED BY <2>5, <2>6, <2>7, <3>2, <4>2
    <3> QED BY <3>1, <3>2
  <2>8. returned \notin PushElements BY <1>1, <2>1 DEF PolledInv
  <2>9. ElementsOf(pollElements)' = ElementsOf(pollElements) /\ ElementsOf(polls)' = ElementsOf(polls')
    BY <2>1 DEF ElementsOf
  <2> QED BY <2>1, <2>7, <2>8, <2>9 DEF PolledInv
<1>23. CASE ProcessPolledFails
  <2>1. returned' = "exception" /\ call' = "idle" BY <1>23 DEF ProcessPolledFails
  <2> QED BY <1>3, <2>1
<1>24. CASE Return
  <2>1. /\ call = "polling" /\ polls = <<>> /\ call' = "idle" /\ returned' = fetched
        /\ UNCHANGED <<buffer, taken, pollElements>>
    BY <1>24 DEF Return, groupVars, elementVars
  <2>2. ElementsOf(polls) = {} /\ ElementsOf(pollElements)' = ElementsOf(pollElements)
    BY <2>1 DEF ElementsOf
  <2>3. fetched \in PushElements =>
          \A x \in ElementsOf(pollElements) : buffer[x] >= taken[fetched].number
    BY <1>1, <2>1, <2>2 DEF PolledInv
  <2> QED BY <2>1, <2>2, <2>3 DEF PolledInv
<1> QED
  BY <1>6, <1>7, <1>8, <1>9, <1>10, <1>11, <1>12, <1>13, <1>15, <1>16, <1>17, <1>19, <1>20, <1>21, <1>22,
  <1>23,
     <1>24
  DEF ReadAnyNext, Continue

-----------------------------------------------------------------------------
(* The invariant *)

LEMMA GroupInvInit == ASSUME GroupAssumption, ReadAnyInit PROVE ReadAnyInv
<1>1. EntriesType
  <2>1. Len(<<>>) <= QueueSize BY Names
  <2> QED BY <2>1 DEF ReadAnyInit, EntriesType
<1>2. ElementsType BY DEF ReadAnyInit, ElementsType
<1>3. CallType
  <2>1. retains \in BOOLEAN BY DEF ReadAnyInit, GroupAssumption
  <2>2. polls \in Seq(PollElements) BY DEF ReadAnyInit
  <2>3. /\ opened = TRUE /\ terminated = FALSE /\ pushed = 0 /\ finalisedAt = 0 /\ lastOperation = "all"
        /\ call = "idle" /\ fetched = "none" /\ returned = "none"
    BY DEF ReadAnyInit
  <2> QED BY <2>1, <2>2, <2>3 DEF CallType, CallNames, Accepting
<1>4. SetupInv
  <2>1. /\ pushElements = <<>> /\ pollElements = <<>> /\ linked = 0 /\ call = "idle" /\ returned = "none"
        /\ lastOperation = "all" /\ \A e \in PushElements : ~inProgress[e] /\ held[e] = 0
    BY DEF ReadAnyInit
  <2>2. DOMAIN pushElements = {} /\ Len(pushElements) = 0 BY <2>1
  <2> QED BY <2>1, <2>2 DEF SetupInv
<1>5. CountInv
  <2>1. /\ notifications = <<>> /\ linked = 0 /\ call = "idle" /\ held \in [PushElements -> Nat]
        /\ \A e \in PushElements : held[e] = 0
    BY DEF ReadAnyInit
  <2>2. \A e : Notified(e) = 0 BY <2>1, NotifiedIsTimes, NoneOfEmpty
  <2>3. \A e : ~Linked(e) /\ Fetched(e) = 0 BY <2>1 DEF Linked, Fetched, Accepting
  <2> QED BY <2>1, <2>2, <2>3 DEF CountInv
<1>6. NumberInv
  <2>1. \A e \in PushElements : queue[e] = <<>> /\ taken[e].number = 0 BY DEF ReadAnyInit, Nothing
  <2>2. \A e \in PushElements : DOMAIN queue[e] = {} BY <2>1
  <2> QED BY <2>1, <2>2 DEF ReadAnyInit, NumberInv
<1>7. TransactionInv BY DEF ReadAnyInit, TransactionInv, OneHeld, Prepared
<1>8. CompletedInv
  <2>1. \A e \in PushElements : taken[e].kind # "data" BY DEF ReadAnyInit, Nothing
  <2> QED BY <2>1 DEF CompletedInv
<1>9. PolledInv BY Names DEF ReadAnyInit, PolledInv
<1> QED BY <1>1, <1>2, <1>3, <1>4, <1>5, <1>6, <1>7, <1>8, <1>9 DEF ReadAnyInv, ReadAnyTypes

LEMMA GroupInvStep == ASSUME GroupAssumption, ReadAnyInv, [ReadAnyNext]_readAnyVars PROVE ReadAnyInv'
<1>1. EntriesType' /\ ElementsType' /\ CallType' BY EntriesStep, ElementsStep, CallStep
<1>2. SetupInv' BY SetupStep
<1>3. CountInv' /\ NumberInv' BY CountStep, NumberStep
<1>4. TransactionInv' /\ CompletedInv' /\ PolledInv' BY <1>2, TransactionStep, CompletedStep, PolledStep
<1> QED BY <1>1, <1>2, <1>3, <1>4 DEF ReadAnyInv, ReadAnyTypes

LEMMA GroupInvImplies ==
  ASSUME GroupAssumption, ReadAnyInv
  PROVE  NotificationPerEntry /\ AcceptCompletesRead /\ PolledIsNotOlder
<1>1. /\ EntriesType /\ ElementsType /\ CallType /\ SetupInv /\ CountInv /\ CompletedInv /\ PolledInv
      /\ TransactionInv /\ NumberInv
  BY DEF ReadAnyInv, ReadAnyTypes
<1>2. ElementsOf(pushElements) \subseteq PushElements /\ ElementsOf(pollElements) \subseteq PollElements
      /\ (isFinalised => \A e : InGroup(e) => Linked(e))
  BY <1>1, LinkedFacts
<1>3. ReadAnyType
  <2>1. ElementsOf(notifications) \subseteq PushElements BY <1>1 DEF CountInv, ElementsOf
  <2>2. linked \in 0 .. Len(pushElements) BY <1>1 DEF SetupInv
  <2>3. \A e \in PushElements : Len(queue[e]) <= QueueSize BY <1>1 DEF EntriesType
  <2>4. held \in [PushElements -> Nat] BY <1>1 DEF CountInv
  <2>5. inProgress \in [PushElements -> BOOLEAN] /\ active \in [PushElements -> BOOLEAN]
        /\ buffer \in [Elements -> Nat]
    BY <1>1 DEF ElementsType
  <2> QED BY <1>1, <1>2, <2>1, <2>2, <2>3, <2>4, <2>5 DEF ReadAnyType, CallType, CallNames
<1>4. NotificationPerEntry
  <2>1. ASSUME isFinalised, NEW e \in ElementsOf(pushElements)
        PROVE  Len(queue[e]) = Notified(e) + held[e] + (IF Accepting /\ fetched = e THEN 1 ELSE 0)
    <3>1. e \in PushElements /\ Linked(e) BY <1>2, <2>1 DEF InGroup
    <3> QED BY <1>1, <3>1 DEF CountInv, Fetched
  <2> QED BY <1>3, <2>1 DEF NotificationPerEntry
<1>5. AcceptCompletesRead
  <2>1. isFinalised => linked > 0 BY DEF isFinalised
  <2> QED BY <1>1, <2>1 DEF AcceptCompletesRead, Completed, CompletedInv
<1>6. PolledIsNotOlder
  <2>1. \A i \in DOMAIN pollElements : pollElements[i] \in ElementsOf(pollElements) BY DEF ElementsOf
  <2> QED BY <1>1, <2>1 DEF PolledIsNotOlder, PolledInv
<1> QED BY <1>4, <1>5, <1>6

THEOREM GroupKeepsUpdates ==
  ASSUME GroupAssumption
  PROVE  ReadAnySpec => [](NotificationPerEntry /\ AcceptCompletesRead /\ PolledIsNotOlder)
<1>1. ReadAnyInit => ReadAnyInv BY GroupInvInit
<1>2. ReadAnyInv /\ [ReadAnyNext]_readAnyVars => ReadAnyInv' BY GroupInvStep
<1>3. ReadAnyInv => NotificationPerEntry /\ AcceptCompletesRead /\ PolledIsNotOlder BY GroupInvImplies
<1> QED BY <1>1, <1>2, <1>3, PTL DEF ReadAnySpec

=============================================================================

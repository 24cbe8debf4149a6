------------------------- MODULE AsyncBackend_proof -------------------------
(***************************************************************************)
(* Proofs about AsyncBackend for every set of domains and of threads which *)
(* report errors.                                                          *)
(***************************************************************************)
EXTENDS AsyncBackend, TLAPS

-----------------------------------------------------------------------------
(* Where the threads are *)

RecoveryLabels ==
  {"idle", "openWait", "openSet", "openClear", "openMessage", "activateFlag", "activateLock",
   "activateEach", "activateNext", "closeLock", "closeEach", "closeImpl"}
SubscriberLabels ==
  {"idle", "subscribeLock", "subscribe", "subscribed", "activate", "activated", "unlock"}
InterruptLabels == {"idle", "distribute", "distributed"}
ExceptionLabels == {"idle", "lock", "each", "done"}
Labels == RecoveryLabels \cup SubscriberLabels \cup InterruptLabels \cup ExceptionLabels

LabelsOK ==
  /\ pc \in [Threads -> Labels]
  /\ pc["recovery"] \in RecoveryLabels
  /\ pc["subscriber"] \in SubscriberLabels
  /\ pc["interrupt"] \in InterruptLabels
  /\ pc["exception"] \in ExceptionLabels
  /\ \A t \in Reporters : pc[t] = "idle"

\* A thread which works on a domain has chosen one.
TargetsOK ==
  \A t \in Threads :
    pc[t] \in {"activateNext", "distribute", "distributed"} \cup (SubscriberLabels \ {"idle"})
      => target[t] \in Domains

LockInv == LockOwners /\ LabelsOK /\ TargetsOK

\* The names of the threads are different, and none is Nobody.
LEMMA ThreadNames ==
  /\ {"recovery", "subscriber", "interrupt", "exception"} \subseteq Threads
  /\ Reporters \subseteq Threads
  /\ Nobody \notin Threads
  /\ NoDomain \notin Domains
  /\ \A t \in Threads : t \in Reporters \/ t \in {"recovery", "subscriber", "interrupt", "exception"}
BY BackendAssumption DEF Threads, Callers, Nobody, NoDomain

\* Nobody holds a lock in the beginning.
LEMMA LockInvInit == Init => LockInv
<1> SUFFICES ASSUME Init PROVE LockInv
  OBVIOUS
<1> USE ThreadNames DEF Init
<1>1. TypeOK
  <2>1. /\ opened \in BOOLEAN /\ hasException \in BOOLEAN /\ asyncActive \in BOOLEAN
        /\ isSending \in BOOLEAN /\ threadRunning \in BOOLEAN
        /\ flag \in BOOLEAN /\ terminated \in BOOLEAN
    BY Zenon
  <2>2. message \in {"none", "error", "cleared"} /\ requests \in 0 .. QueueSize
    BY DEF QueueSize
  <2>3. containerLock \in Threads \cup {Nobody} /\ domainLock \in [Domains -> Threads \cup {Nobody}]
    OBVIOUS
  <2>4. /\ domain \in [Domains -> {"absent", "inactive", "active"}]
        /\ exc \in [Threads -> {"none", "message", "impl", "check", "flag", "push"}]
    OBVIOUS
  <2>5. todo \in [Threads -> SUBSET Domains] /\ target \in [Threads -> Domains \cup {NoDomain}]
    OBVIOUS
  <2>6. QED
    BY <2>1, <2>2, <2>3, <2>4, <2>5, Zenon DEF TypeOK
<1>2. LabelsOK
  BY DEF LabelsOK, Labels, RecoveryLabels, SubscriberLabels, InterruptLabels, ExceptionLabels
<1>3. TargetsOK
  BY DEF TargetsOK, SubscriberLabels
<1>4. QED
  BY <1>1, <1>2, <1>3 DEF LockInv, LockOwners, HoldsContainer, HoldsDomain

\* A step which leaves the locks and the threads where they are.
LEMMA LocksUntouched ==
  ASSUME LockInv, TypeOK', UNCHANGED <<lockVars, pc, target>>
  PROVE  LockInv'
BY DEF LockInv, LockOwners, HoldsContainer, HoldsDomain, LabelsOK, TargetsOK, lockVars

\* setException() takes no lock.
LEMMA SetExceptionLocks ==
  ASSUME LockInv, NEW t \in Callers, SetException(t)
  PROVE  LockInv'
<1> t \in Threads
  BY DEF Threads
<1> TypeOK
  BY DEF LockInv, LockOwners
<1> USE DEF TypeOK, lockVars, sharedVars, containerVars
<1>1. CASE Report(t)
  <2>1. TypeOK'
    BY <1>1 DEF Report, ReportsException
  <2>2. QED
    BY <1>1, <2>1, LocksUntouched DEF Report
<1>2. CASE SetMessage(t)
  <2>1. TypeOK'
    BY <1>2 DEF SetMessage
  <2>2. QED
    BY <1>2, <2>1, LocksUntouched DEF SetMessage
<1>3. CASE SetExceptionImpl(t)
  <2>1. TypeOK'
    BY <1>3 DEF SetExceptionImpl
  <2>2. QED
    BY <1>3, <2>1, LocksUntouched DEF SetExceptionImpl
<1>4. CASE CheckSending(t)
  <2>1. TypeOK'
    <3>1. CASE isSending
      BY <1>4, <3>1 DEF CheckSending
    <3>2. CASE ~isSending
      BY <1>4, <3>2 DEF CheckSending
    <3>3. QED
      BY <3>1, <3>2
  <2>2. QED
    BY <1>4, <2>1, LocksUntouched DEF CheckSending
<1>5. CASE SetSending(t)
  <2>1. TypeOK'
    BY <1>5 DEF SetSending
  <2>2. QED
    BY <1>5, <2>1, LocksUntouched DEF SetSending
<1>6. CASE PushRequest(t)
  <2>1. TypeOK'
    BY <1>6 DEF PushRequest, QueueSize
  <2>2. QED
    BY <1>6, <2>1, LocksUntouched DEF PushRequest
<1>7. QED
  BY <1>1, <1>2, <1>3, <1>4, <1>5, <1>6 DEF SetException

-----------------------------------------------------------------------------
(* The steps of the threads between the calls of setException() *)

\* Label l belongs to the code of thread t.
LabelOf(t, l) ==
  \/ t = "recovery" /\ l \in RecoveryLabels
  \/ t = "subscriber" /\ l \in SubscriberLabels
  \/ t = "interrupt" /\ l \in InterruptLabels
  \/ t = "exception" /\ l \in ExceptionLabels

WorksOnDomain(l) ==
  l \in {"activateNext", "distribute", "distributed"} \cup (SubscriberLabels \ {"idle"})

\* A step of thread t which leaves the locks and the places of the others.
LEMMA ThreadStep ==
  ASSUME LockInv, TypeOK',
         NEW t \in {"recovery", "subscriber", "interrupt", "exception"}, NEW l,
         Goto(t, l), LabelOf(t, l),
         WorksOnDomain(l) => target'[t] \in Domains,
         \A u \in Threads \ {t} : target'[u] = target[u],
         containerLock' = t <=> HoldsContainer(t)',
         \A u \in Threads \ {t} : containerLock' = u <=> containerLock = u,
         \A d \in Domains : domainLock'[d] = t <=> HoldsDomain(t, d)',
         \A u \in Threads \ {t}, d \in Domains : domainLock'[d] = u <=> domainLock[d] = u
  PROVE  LockInv'
<1> USE ThreadNames, BackendAssumption DEF LockInv
<1>1. t \in Threads /\ pc' = [pc EXCEPT ![t] = l] /\ pc \in [Threads -> Labels] /\ l \in Labels
  BY DEF Goto, LabelsOK, LabelOf, Labels
<1>2. pc'[t] = l /\ \A u \in Threads \ {t} : pc'[u] = pc[u]
  BY <1>1
<1>3. LabelsOK'
  BY <1>1, <1>2 DEF LabelsOK, LabelOf
<1>4. TargetsOK'
  BY <1>1, <1>2 DEF TargetsOK, WorksOnDomain
<1>5. \A u \in Threads : containerLock' = u <=> HoldsContainer(u)'
  BY <1>1, <1>2 DEF LockOwners, HoldsContainer
<1>6. \A u \in Threads, d \in Domains : domainLock'[d] = u <=> HoldsDomain(u, d)'
  BY <1>1, <1>2 DEF LockOwners, HoldsDomain
<1>7. QED
  BY <1>3, <1>4, <1>5, <1>6 DEF LockOwners

\* A step of thread t which concerns no lock.
LEMMA FreeStep ==
  ASSUME LockInv, TypeOK',
         NEW t \in {"recovery", "subscriber", "interrupt", "exception"}, NEW l,
         Goto(t, l), LabelOf(t, l), UNCHANGED lockVars,
         WorksOnDomain(l) => target'[t] \in Domains,
         \A u \in Threads \ {t} : target'[u] = target[u],
         HoldsContainer(t)' <=> HoldsContainer(t),
         \A d \in Domains : ~HoldsDomain(t, d) /\ ~HoldsDomain(t, d)'
  PROVE  LockInv'
<1>1. t \in Threads
  BY ThreadNames
<1>2. QED
  BY <1>1, ThreadStep DEF LockInv, LockOwners, lockVars

\* Thread t takes the lock of the container, to visit the domains.
LEMMA LockContainerStep ==
  ASSUME LockInv, NEW t \in {"recovery", "subscriber", "interrupt", "exception"}, NEW l,
         LockContainer(t, l), LabelOf(t, l), ~WorksOnDomain(l),
         HoldsContainer(t)', \A d \in Domains : ~HoldsDomain(t, d) /\ ~HoldsDomain(t, d)'
  PROVE  LockInv'
<1> t \in Threads /\ Nobody \notin Threads
  BY ThreadNames
<1> TypeOK
  BY DEF LockInv, LockOwners
<1> USE DEF LockContainer, sharedVars, containerVars
<1>1. TypeOK'
  BY DEF TypeOK, Existing
<1>2. QED
  BY <1>1, ThreadStep DEF LockInv, LockOwners

\* Thread t gives the lock of the container back.
LEMMA UnlockContainerStep ==
  ASSUME LockInv, NEW t \in {"recovery", "subscriber", "interrupt", "exception"}, NEW l,
         UnlockContainer(t, l), LabelOf(t, l), ~WorksOnDomain(l), HoldsContainer(t),
         ~HoldsContainer(t)', \A d \in Domains : ~HoldsDomain(t, d) /\ ~HoldsDomain(t, d)'
  PROVE  LockInv'
<1> t \in Threads /\ Nobody \notin Threads
  BY ThreadNames
<1> TypeOK
  BY DEF LockInv, LockOwners
<1> USE DEF UnlockContainer, sharedVars, containerVars
<1>1. TypeOK'
  BY DEF TypeOK
<1>2. QED
  BY <1>1, ThreadStep DEF LockInv, LockOwners

\* Thread t gives the lock of the domain back on which it works.
LEMMA UnlockDomainStep ==
  ASSUME LockInv, NEW t \in {"recovery", "subscriber", "interrupt", "exception"}, NEW l,
         UnlockDomain(t, l), LabelOf(t, l),
         pc[t] \in {"activateNext", "subscribed", "activated", "distributed"},
         HoldsContainer(t)' <=> HoldsContainer(t), \A d \in Domains : ~HoldsDomain(t, d)'
  PROVE  LockInv'
<1> t \in Threads /\ Nobody \notin Threads
  BY ThreadNames
<1> TypeOK
  BY DEF LockInv, LockOwners
<1>1. target[t] \in Domains /\ domainLock[target[t]] = t
  BY DEF LockInv, LockOwners, HoldsDomain, TargetsOK, SubscriberLabels
<1> USE DEF UnlockDomain, sharedVars, containerVars
<1>2. TypeOK'
  BY <1>1 DEF TypeOK
<1>3. \A d \in Domains : HoldsDomain(t, d) <=> d = target[t]
  BY <1>1 DEF HoldsDomain
<1>4. \A d \in Domains : domainLock'[d] # t
  BY <1>3 DEF LockInv, LockOwners, TypeOK
<1>5. \A u \in Threads \ {t}, d \in Domains : domainLock'[d] = u <=> domainLock[d] = u
  BY <1>1 DEF TypeOK
<1>6. QED
  BY <1>1, <1>2, <1>4, <1>5, ThreadStep DEF LockInv, LockOwners

\* A step of thread t which takes the lock of a domain and polls there.
LEMMA LockDomainStep ==
  ASSUME LockInv, TypeOK',
         NEW t \in {"recovery", "subscriber", "interrupt", "exception"}, NEW l,
         NEW d \in Domains, Goto(t, l), LabelOf(t, l), UNCHANGED containerLock,
         l \in {"activateNext", "subscribed", "activated", "distributed"},
         target' = [target EXCEPT ![t] = d],
         domainLock[d] = Nobody, domainLock' = [domainLock EXCEPT ![d] = t],
         HoldsContainer(t)' <=> HoldsContainer(t), \A e \in Domains : ~HoldsDomain(t, e)
  PROVE  LockInv'
<1> t \in Threads /\ Nobody \notin Threads
  BY ThreadNames
<1> TypeOK /\ pc \in [Threads -> Labels]
  BY DEF LockInv, LockOwners, LabelsOK
<1>1. target'[t] = d /\ pc'[t] = l /\ \A u \in Threads \ {t} : target'[u] = target[u]
  BY DEF Goto, TypeOK
<1>2. \A e \in Domains : domainLock'[e] = t <=> HoldsDomain(t, e)'
  BY <1>1 DEF TypeOK, HoldsDomain, LockInv, LockOwners
<1>3. \A u \in Threads \ {t}, e \in Domains : domainLock'[e] = u <=> domainLock[e] = u
  BY DEF TypeOK
<1>4. QED
  BY <1>1, <1>2, <1>3, ThreadStep DEF LockInv, LockOwners

\* The exception thread.
LEMMA ExceptionThreadLocks ==
  ASSUME LockInv, ExceptionThread
  PROVE  LockInv'
<1> TypeOK /\ LabelsOK /\ TargetsOK
  BY DEF LockInv, LockOwners
<1> USE ThreadNames
<1> USE DEF TypeOK, Goto, At, lockVars, sharedVars, containerVars, HoldsContainer, HoldsDomain,
            LabelOf, WorksOnDomain, RecoveryLabels, SubscriberLabels, InterruptLabels,
            ExceptionLabels, LabelsOK, Labels
<1>1. CASE PopRequest
  <2>1. TypeOK'
    BY <1>1 DEF PopRequest, QueueSize
  <2>2. QED
    BY <1>1, <2>1, FreeStep DEF PopRequest, QueueSize
<1>2. CASE ExceptionLock
  <2>1. LockContainer("exception", "each")
    BY <1>2 DEF ExceptionLock
  <2>2. /\ HoldsContainer("exception")'
        /\ \A d \in Domains : ~HoldsDomain("exception", d) /\ ~HoldsDomain("exception", d)'
    BY <1>2 DEF ExceptionLock, LockContainer
  <2>3. QED
    BY <1>2, <2>1, <2>2, LockContainerStep DEF ExceptionLock
<1>3. ASSUME NEW d \in Domains, ExceptionEach(d) PROVE LockInv'
  <2>1. TypeOK'
    BY <1>3 DEF ExceptionEach
  <2>2. QED
    BY <1>3, <2>1, LocksUntouched DEF ExceptionEach
<1>4. CASE ExceptionUnlock
  <2>1. UnlockContainer("exception", "done")
    BY <1>4 DEF ExceptionUnlock
  <2>2. /\ HoldsContainer("exception") /\ ~HoldsContainer("exception")'
        /\ \A d \in Domains : ~HoldsDomain("exception", d) /\ ~HoldsDomain("exception", d)'
    BY <1>4 DEF ExceptionUnlock, UnlockContainer
  <2>3. QED
    BY <1>4, <2>1, <2>2, UnlockContainerStep DEF ExceptionUnlock
<1>5. CASE ExceptionDone
  <2>1. TypeOK'
    BY <1>5 DEF ExceptionDone
  <2>2. QED
    BY <1>5, <2>1, FreeStep DEF ExceptionDone
<1>6. QED
  BY <1>1, <1>2, <1>3, <1>4, <1>5 DEF ExceptionThread

\* Polling changes nothing else than the state of the error.
LEMMA ReadDeviceType ==
  ASSUME TypeOK, NEW t \in Threads, ReadDevice(t)
  PROVE  /\ hasException' \in BOOLEAN
         /\ exc' \in [Threads -> {"none", "message", "impl", "check", "flag", "push"}]
<1>1. CASE UNCHANGED <<hasException, exc>>
  BY <1>1 DEF TypeOK
<1>2. CASE ReportsException(t)
  BY <1>2 DEF TypeOK, ReportsException
<1>3. QED
  BY <1>1, <1>2 DEF ReadDevice

\* A step of the thread which opens, activates and closes the device, without a lock.
LEMMA RecoveryFreeStep ==
  ASSUME LockInv, TypeOK',
         NEW l \in RecoveryLabels \ {"activateEach", "activateNext", "closeEach"},
         pc["recovery"] \notin {"activateEach", "activateNext", "closeEach"},
         Goto("recovery", l), UNCHANGED <<lockVars, target>>
  PROVE  LockInv'
<1>1. pc'["recovery"] = l
  BY ThreadNames DEF Goto, LockInv, LabelsOK
<1>2. pc["recovery"] \in RecoveryLabels
  BY DEF LockInv, LabelsOK
<1>3. /\ LabelOf("recovery", l) /\ ~WorksOnDomain(l)
      /\ ~HoldsContainer("recovery") /\ ~HoldsContainer("recovery")'
      /\ \A d \in Domains : ~HoldsDomain("recovery", d) /\ ~HoldsDomain("recovery", d)'
  BY <1>1, <1>2 DEF LabelOf, WorksOnDomain, HoldsContainer, HoldsDomain, RecoveryLabels,
     SubscriberLabels
<1>4. QED
  BY <1>3, FreeStep, Zenon

\* The thread which opens, activates and closes the device.
LEMMA RecoveryLocks ==
  ASSUME LockInv, Recovery \/ Open \/ ActivateAsyncRead \/ Close
  PROVE  LockInv'
<1> TypeOK /\ LabelsOK /\ TargetsOK
  BY DEF LockInv, LockOwners
<1> USE ThreadNames
<1> USE DEF TypeOK, Goto, At, lockVars, sharedVars, containerVars, HoldsContainer, HoldsDomain,
            LabelOf, WorksOnDomain, RecoveryLabels, SubscriberLabels, InterruptLabels,
            ExceptionLabels, LabelsOK, Labels
<1>1. CASE OpenWait
  <2>1. TypeOK'
    BY <1>1 DEF OpenWait
  <2>2. QED
    BY <1>1, <2>1, RecoveryFreeStep DEF OpenWait
<1>2. CASE OpenSet
  <2>1. TypeOK'
    BY <1>2 DEF OpenSet
  <2>2. QED
    BY <1>2, <2>1, RecoveryFreeStep DEF OpenSet
<1>3. CASE OpenClear
  <2>1. TypeOK'
    BY <1>3 DEF OpenClear
  <2>2. QED
    BY <1>3, <2>1, RecoveryFreeStep DEF OpenClear
<1>4. CASE OpenMessage
  <2>1. TypeOK'
    BY <1>4 DEF OpenMessage
  <2>2. QED
    BY <1>4, <2>1, RecoveryFreeStep DEF OpenMessage
<1>5. CASE ActivateFlag
  <2>1. TypeOK'
    BY <1>5 DEF ActivateFlag
  <2>2. QED
    BY <1>5, <2>1, RecoveryFreeStep DEF ActivateFlag
<1>6. CASE ActivateLock
  <2>1. LockContainer("recovery", "activateEach")
    BY <1>6 DEF ActivateLock
  <2>2. /\ HoldsContainer("recovery")'
        /\ \A d \in Domains : ~HoldsDomain("recovery", d) /\ ~HoldsDomain("recovery", d)'
    BY <1>6 DEF ActivateLock, LockContainer
  <2>3. QED
    BY <1>6, <2>1, <2>2, LockContainerStep DEF ActivateLock
<1>7. CASE ActivateNext
  <2>1. UnlockDomain("recovery", "activateEach")
    BY <1>7 DEF ActivateNext
  <2>2. /\ HoldsContainer("recovery")' <=> HoldsContainer("recovery")
        /\ \A d \in Domains : ~HoldsDomain("recovery", d)'
    BY <1>7 DEF ActivateNext, UnlockDomain
  <2>3. QED
    BY <1>7, <2>1, <2>2, UnlockDomainStep DEF ActivateNext
<1>8. CASE ActivateUnlock
  <2>1. UnlockContainer("recovery", "idle")
    BY <1>8 DEF ActivateUnlock
  <2>2. /\ HoldsContainer("recovery") /\ ~HoldsContainer("recovery")'
        /\ \A d \in Domains : ~HoldsDomain("recovery", d) /\ ~HoldsDomain("recovery", d)'
    BY <1>8 DEF ActivateUnlock, UnlockContainer
  <2>3. QED
    BY <1>8, <2>1, <2>2, UnlockContainerStep DEF ActivateUnlock
<1>9. CASE CloseLock
  <2>1. LockContainer("recovery", "closeEach")
    BY <1>9 DEF CloseLock
  <2>2. /\ HoldsContainer("recovery")'
        /\ \A d \in Domains : ~HoldsDomain("recovery", d) /\ ~HoldsDomain("recovery", d)'
    BY <1>9 DEF CloseLock, LockContainer
  <2>3. QED
    BY <1>9, <2>1, <2>2, LockContainerStep DEF CloseLock
<1>10. CASE CloseUnlock
  <2>1. UnlockContainer("recovery", "closeImpl")
    BY <1>10 DEF CloseUnlock
  <2>2. /\ HoldsContainer("recovery") /\ ~HoldsContainer("recovery")'
        /\ \A d \in Domains : ~HoldsDomain("recovery", d) /\ ~HoldsDomain("recovery", d)'
    BY <1>10 DEF CloseUnlock, UnlockContainer
  <2>3. QED
    BY <1>10, <2>1, <2>2, UnlockContainerStep DEF CloseUnlock
<1>11. CASE CloseImpl
  <2>1. TypeOK'
    BY <1>11 DEF CloseImpl
  <2>2. QED
    BY <1>11, <2>1, RecoveryFreeStep DEF CloseImpl
<1>12. ASSUME NEW d \in Domains, CloseEach(d) PROVE LockInv'
  <2>1. TypeOK'
    BY <1>12 DEF CloseEach
  <2>2. QED
    BY <1>12, <2>1, LocksUntouched DEF CloseEach
<1>13. CASE Open
  <2>1. TypeOK'
    BY <1>13 DEF Open
  <2>2. QED
    BY <1>13, <2>1, RecoveryFreeStep DEF Open
<1>14. CASE ActivateAsyncRead
  <2>1. TypeOK'
    BY <1>14 DEF ActivateAsyncRead
  <2>2. QED
    BY <1>14, <2>1, RecoveryFreeStep DEF ActivateAsyncRead
<1>15. CASE Close
  <2>1. TypeOK'
    BY <1>15 DEF Close
  <2>2. QED
    BY <1>15, <2>1, RecoveryFreeStep DEF Close
<1>16. ASSUME NEW d \in Domains, ActivateEach(d) PROVE LockInv'
  <2>1. /\ hasException' \in BOOLEAN
        /\ exc' \in [Threads -> {"none", "message", "impl", "check", "flag", "push"}]
    <3>1. CASE domain[d] = "active"
      BY <1>16, <3>1 DEF ActivateEach, ActivateDomain
    <3>2. CASE domain[d] # "active"
      BY <1>16, <3>2, ReadDeviceType DEF ActivateEach, ActivateDomain
    <3>3. QED
      BY <3>1, <3>2
  <2>2. domain' \in [Domains -> {"absent", "inactive", "active"}]
    BY <1>16 DEF ActivateEach, ActivateDomain
  <2>3. TypeOK'
    BY <1>16, <2>1, <2>2 DEF ActivateEach, ActivateDomain
  <2>4. QED
    BY <1>16, <2>3, LockDomainStep DEF ActivateEach, ActivateDomain
<1>17. QED
  BY <1>1, <1>2, <1>3, <1>4, <1>5, <1>6, <1>7, <1>8, <1>9, <1>10, <1>11, <1>12, <1>13, <1>14,
     <1>15, <1>16 DEF Recovery

\* The thread which creates accessors.
LEMMA SubscriberLocks ==
  ASSUME LockInv, Subscriber \/ \E d \in Domains : Subscribe(d)
  PROVE  LockInv'
<1> TypeOK /\ LabelsOK /\ TargetsOK
  BY DEF LockInv, LockOwners
<1> USE ThreadNames
<1> USE DEF TypeOK, Goto, At, lockVars, sharedVars, containerVars, HoldsContainer, HoldsDomain,
            LabelOf, WorksOnDomain, RecoveryLabels, SubscriberLabels, InterruptLabels,
            ExceptionLabels, LabelsOK, Labels
<1>1. ASSUME NEW d \in Domains, Subscribe(d) PROVE LockInv'
  <2>1. TypeOK'
    BY <1>1 DEF Subscribe
  <2>2. /\ HoldsContainer("subscriber")' <=> HoldsContainer("subscriber")
        /\ \A e \in Domains : ~HoldsDomain("subscriber", e) /\ ~HoldsDomain("subscriber", e)'
    BY <1>1 DEF Subscribe
  <2>3. target'["subscriber"] \in Domains /\ \A u \in Threads \ {"subscriber"} : target'[u] = target[u]
    BY <1>1 DEF Subscribe
  <2>4. /\ Goto("subscriber", "subscribeLock") /\ LabelOf("subscriber", "subscribeLock")
        /\ UNCHANGED lockVars
    BY <1>1 DEF Subscribe
  <2>5. QED
    BY <2>1, <2>2, <2>3, <2>4, FreeStep
<1>2. CASE SubscribeLock
  <2> target["subscriber"] \in Domains
    BY <1>2 DEF SubscribeLock, TargetsOK
  <2>1. /\ domain' \in [Domains -> {"absent", "inactive", "active"}]
        /\ flag' \in BOOLEAN /\ threadRunning' \in BOOLEAN
    <3>1. CASE domain[target["subscriber"]] = "absent"
      BY <1>2, <3>1 DEF SubscribeLock
    <3>2. CASE domain[target["subscriber"]] # "absent"
      <4>1. flag' = FALSE /\ domain' = domain /\ threadRunning' = threadRunning
        BY <1>2, <3>2, Zenon DEF SubscribeLock
      <4>2. QED
        BY <4>1
    <3>3. QED
      BY <3>1, <3>2
  <2>2. TypeOK'
    BY <1>2, <2>1 DEF SubscribeLock
  <2>3. /\ containerLock' = "subscriber" /\ HoldsContainer("subscriber")'
        /\ \A u \in Threads \ {"subscriber"} : containerLock' # u /\ containerLock # u
    BY <1>2 DEF SubscribeLock
  <2>4. /\ UNCHANGED domainLock
        /\ \A d \in Domains : ~HoldsDomain("subscriber", d) /\ ~HoldsDomain("subscriber", d)'
    BY <1>2 DEF SubscribeLock
  <2>5. /\ target' = target
        /\ Goto("subscriber", "subscribe") /\ LabelOf("subscriber", "subscribe")
    BY <1>2 DEF SubscribeLock
  <2>6. \A d \in Domains : domainLock[d] # "subscriber"
    BY <2>4 DEF LockInv, LockOwners
  <2>7. /\ \A d \in Domains : domainLock'[d] = "subscriber" <=> HoldsDomain("subscriber", d)'
        /\ \A u \in Threads \ {"subscriber"}, d \in Domains : domainLock'[d] = u <=> domainLock[d] = u
        /\ \A u \in Threads \ {"subscriber"} : containerLock' = u <=> containerLock = u
    BY <2>3, <2>4, <2>6
  <2>8. QED
    BY <2>2, <2>3, <2>5, <2>7, ThreadStep
<1>3. CASE SubscribeDomain
  <2> target["subscriber"] \in Domains
    BY <1>3 DEF SubscribeDomain, TargetsOK
  <2>1. /\ hasException' \in BOOLEAN
        /\ exc' \in [Threads -> {"none", "message", "impl", "check", "flag", "push"}]
    <3>1. CASE domain[target["subscriber"]] = "active"
      BY <1>3, <3>1, ReadDeviceType DEF SubscribeDomain
    <3>2. CASE domain[target["subscriber"]] # "active"
      BY <1>3, <3>2 DEF SubscribeDomain
    <3>3. QED
      BY <3>1, <3>2
  <2>2. TypeOK'
    BY <1>3, <2>1 DEF SubscribeDomain
  <2>3. target' = [target EXCEPT !["subscriber"] = target["subscriber"]]
    BY <1>3 DEF SubscribeDomain
  <2>4. /\ HoldsContainer("subscriber")' <=> HoldsContainer("subscriber")
        /\ \A e \in Domains : ~HoldsDomain("subscriber", e)
    BY <1>3 DEF SubscribeDomain
  <2>5. QED
    BY <1>3, <2>2, <2>3, <2>4, LockDomainStep DEF SubscribeDomain
<1>4. CASE SubscribeNext
  <2>1. UnlockDomain("subscriber", IF flag THEN "activate" ELSE "unlock")
    BY <1>4 DEF SubscribeNext
  <2>2. /\ HoldsContainer("subscriber")' <=> HoldsContainer("subscriber")
        /\ \A d \in Domains : ~HoldsDomain("subscriber", d)'
    BY <1>4 DEF SubscribeNext, UnlockDomain
  <2>3. QED
    BY <1>4, <2>1, <2>2, UnlockDomainStep DEF SubscribeNext
<1>5. CASE SubscribeActivate
  <2> target["subscriber"] \in Domains
    BY <1>5 DEF SubscribeActivate, TargetsOK
  <2>1. /\ hasException' \in BOOLEAN
        /\ exc' \in [Threads -> {"none", "message", "impl", "check", "flag", "push"}]
    <3>1. CASE domain[target["subscriber"]] = "active"
      BY <1>5, <3>1 DEF SubscribeActivate, ActivateDomain
    <3>2. CASE domain[target["subscriber"]] # "active"
      BY <1>5, <3>2, ReadDeviceType DEF SubscribeActivate, ActivateDomain
    <3>3. QED
      BY <3>1, <3>2
  <2>2. domain' \in [Domains -> {"absent", "inactive", "active"}]
    BY <1>5 DEF SubscribeActivate, ActivateDomain
  <2>3. TypeOK'
    BY <1>5, <2>1, <2>2 DEF SubscribeActivate, ActivateDomain
  <2>4. /\ target' = [target EXCEPT !["subscriber"] = target["subscriber"]]
        /\ HoldsContainer("subscriber")' <=> HoldsContainer("subscriber")
        /\ \A e \in Domains : ~HoldsDomain("subscriber", e)
    BY <1>5 DEF SubscribeActivate, ActivateDomain
  <2>5. QED
    BY <1>5, <2>3, <2>4, LockDomainStep DEF SubscribeActivate, ActivateDomain
<1>6. CASE SubscribeActivated
  <2>1. UnlockDomain("subscriber", "unlock")
    BY <1>6 DEF SubscribeActivated
  <2>2. /\ HoldsContainer("subscriber")' <=> HoldsContainer("subscriber")
        /\ \A d \in Domains : ~HoldsDomain("subscriber", d)'
    BY <1>6 DEF SubscribeActivated, UnlockDomain
  <2>3. QED
    BY <1>6, <2>1, <2>2, UnlockDomainStep DEF SubscribeActivated
<1>7. CASE SubscribeUnlock
  <2>1. UnlockContainer("subscriber", "idle")
    BY <1>7 DEF SubscribeUnlock
  <2>2. /\ HoldsContainer("subscriber") /\ ~HoldsContainer("subscriber")'
        /\ \A d \in Domains : ~HoldsDomain("subscriber", d) /\ ~HoldsDomain("subscriber", d)'
    BY <1>7 DEF SubscribeUnlock, UnlockContainer
  <2>3. QED
    BY <1>7, <2>1, <2>2, UnlockContainerStep DEF SubscribeUnlock
<1>8. QED
  BY <1>1, <1>2, <1>3, <1>4, <1>5, <1>6, <1>7 DEF Subscriber

\* The thread which distributes interrupts.
LEMMA InterruptLocks ==
  ASSUME LockInv, InterruptThread \/ \E d \in Domains : Interrupt(d)
  PROVE  LockInv'
<1> TypeOK /\ LabelsOK /\ TargetsOK
  BY DEF LockInv, LockOwners
<1> USE ThreadNames
<1> USE DEF TypeOK, Goto, At, lockVars, sharedVars, containerVars, HoldsContainer, HoldsDomain,
            LabelOf, WorksOnDomain, RecoveryLabels, SubscriberLabels, InterruptLabels,
            ExceptionLabels, LabelsOK, Labels
<1>1. ASSUME NEW d \in Domains, Interrupt(d) PROVE LockInv'
  <2>1. TypeOK'
    BY <1>1 DEF Interrupt
  <2>2. /\ HoldsContainer("interrupt")' <=> HoldsContainer("interrupt")
        /\ \A e \in Domains : ~HoldsDomain("interrupt", e) /\ ~HoldsDomain("interrupt", e)'
    BY <1>1 DEF Interrupt
  <2>3. target'["interrupt"] \in Domains /\ \A u \in Threads \ {"interrupt"} : target'[u] = target[u]
    BY <1>1 DEF Interrupt
  <2>4. /\ Goto("interrupt", "distribute") /\ LabelOf("interrupt", "distribute")
        /\ UNCHANGED lockVars
    BY <1>1 DEF Interrupt
  <2>5. QED
    BY <2>1, <2>2, <2>3, <2>4, FreeStep
<1>2. CASE InterruptDistribute
  <2> target["interrupt"] \in Domains
    BY <1>2 DEF InterruptDistribute, TargetsOK
  <2>1. /\ hasException' \in BOOLEAN
        /\ exc' \in [Threads -> {"none", "message", "impl", "check", "flag", "push"}]
    <3>1. CASE domain[target["interrupt"]] = "active"
      BY <1>2, <3>1, ReadDeviceType DEF InterruptDistribute
    <3>2. CASE domain[target["interrupt"]] # "active"
      BY <1>2, <3>2 DEF InterruptDistribute
    <3>3. QED
      BY <3>1, <3>2
  <2>2. TypeOK'
    BY <1>2, <2>1 DEF InterruptDistribute
  <2>3. target' = [target EXCEPT !["interrupt"] = target["interrupt"]]
    BY <1>2 DEF InterruptDistribute
  <2>4. QED
    BY <1>2, <2>2, <2>3, LockDomainStep DEF InterruptDistribute
<1>3. CASE InterruptDone
  <2>1. UnlockDomain("interrupt", "idle")
    BY <1>3 DEF InterruptDone
  <2>2. /\ HoldsContainer("interrupt")' <=> HoldsContainer("interrupt")
        /\ \A d \in Domains : ~HoldsDomain("interrupt", d)'
    BY <1>3 DEF InterruptDone, UnlockDomain
  <2>3. QED
    BY <1>3, <2>1, <2>2, UnlockDomainStep DEF InterruptDone
<1>4. QED
  BY <1>1, <1>2, <1>3 DEF InterruptThread

\* Every step keeps the invariant of the locks.
LEMMA LockInvNext == LockInv /\ [Next]_vars => LockInv'
<1> SUFFICES ASSUME LockInv, [Next]_vars PROVE LockInv'
  OBVIOUS
<1>1. CASE Next
  BY <1>1, SetExceptionLocks, ExceptionThreadLocks, RecoveryLocks, SubscriberLocks,
     InterruptLocks DEF Next
<1>2. CASE UNCHANGED vars
  <2>1. TypeOK'
    BY <1>2 DEF LockInv, LockOwners, TypeOK, vars
  <2>2. QED
    BY <1>2, <2>1, LocksUntouched DEF vars, lockVars
<1>3. QED
  BY <1>1, <1>2

(***************************************************************************)
(* At any time the container and each domain are locked by exactly the     *)
(* thread which works on them, also while it reports an error from there.  *)
(***************************************************************************)
THEOREM LocksAreOwned == Spec => []LockOwners
<1>1. LockInv => LockOwners
  BY DEF LockInv
<1>2. QED
  BY <1>1, LockInvInit, LockInvNext, PTL DEF Spec

-----------------------------------------------------------------------------
(* The reporting of errors, in applications which keep open() alone *)

\* At most one thread is in setException(), and only while there is an error.
\* open() clears the error when nobody is.
ReportInv ==
  /\ "open" \in alone
  /\ InOpen => NobodyReports
  /\ \A t \in Threads : exc[t] # "none" => hasException
  /\ \A t, u \in Threads : exc[t] # "none" /\ exc[u] # "none" => t = u
  /\ pc["recovery"] = "openMessage" => ~hasException
  /\ MessageIsCurrentOnceSet

\* While isSending is set the error is active, and the distribution is about
\* to be requested, waiting in the queue, or running: only one of the three.
SendInv ==
  /\ isSending => hasException
  /\ requests > 0 => isSending /\ requests = 1 /\ pc["exception"] = "idle"
  /\ pc["exception"] # "idle" => isSending
  /\ \A t \in Threads : exc[t] = "push" => isSending /\ requests = 0 /\ pc["exception"] = "idle"
  /\ \A t \in Threads : exc[t] \in {"message", "impl", "check", "flag"} => ~isSending
  /\ pc["recovery"] \in {"openSet", "openClear", "openMessage"} => ~isSending
  /\ ~terminated

ErrorInv == ReportInv /\ SendInv

\* There is no error in the beginning.
LEMMA ErrorInvInit ==
  ASSUME \A D \in Disciplines : "open" \in D, Init
  PROVE  ErrorInv
<1> USE ThreadNames DEF Init
<1>1. ReportInv
  BY DEF ReportInv, InOpen, NobodyReports, MessageIsCurrentOnceSet
<1>2. SendInv
  BY DEF SendInv
<1>3. QED
  BY <1>1, <1>2 DEF ErrorInv

errorVars == <<hasException, message, isSending, requests, exc, terminated>>
OpenLabels == {"openWait", "openSet", "openClear", "openMessage"}

\* The steps of the threads which are of no interest here.
Elsewhere ==
  /\ pc'["exception"] = pc["exception"] \/ pc["exception"] # "idle"
  /\ pc'["recovery"] = pc["recovery"] \/ pc'["recovery"] \notin OpenLabels

\* A step which has nothing to do with the error and with open().
LEMMA OtherStep ==
  ASSUME LockInv, ErrorInv, Running, UNCHANGED errorVars, Elsewhere
  PROVE  ErrorInv'
<1> USE ThreadNames DEF ErrorInv, errorVars, OpenLabels, Running, Elsewhere
<1>1. ReportInv'
  BY DEF ReportInv, InOpen, NobodyReports, MessageIsCurrentOnceSet
<1>2. SendInv'
  <2>1. requests \in Nat
    BY DEF LockInv, LockOwners, TypeOK, QueueSize
  <2>2. QED
    BY <2>1 DEF SendInv
<1>3. QED
  BY <1>1, <1>2

\* The first step of setException(), by a transfer or by polling in a domain.
LEMMA ReportStep ==
  ASSUME LockInv, ErrorInv, Running, NEW t \in Threads, exc[t] = "none",
         hasException \/ MayReport(t), ReportsException(t), Elsewhere,
         UNCHANGED <<message, isSending, requests, terminated>>
  PROVE  ErrorInv'
<1> TypeOK
  BY DEF LockInv, LockOwners
<1>1. CASE hasException
  <2>1. UNCHANGED <<exc, hasException>>
    BY <1>1 DEF ReportsException, TypeOK
  <2>2. QED
    BY <2>1, OtherStep DEF errorVars
<1>2. CASE ~hasException
  <2>1. ~InOpen /\ ~isSending /\ NobodyReports /\ "open" \in alone
    BY <1>2 DEF ErrorInv, ReportInv, SendInv, MayReport, NobodyReports
  <2>2. hasException' /\ exc'[t] = "message" /\ \A u \in Threads \ {t} : exc'[u] = "none"
    BY <1>2, <2>1 DEF ReportsException, TypeOK, NobodyReports
  <2>3. ~InOpen'
    BY <2>1 DEF InOpen, Elsewhere, OpenLabels
  <2>4. ReportInv'
    BY <2>1, <2>2, <2>3 DEF ReportInv, MessageIsCurrentOnceSet, Running, InOpen
  <2>5. SendInv'
    BY <1>2, <2>1, <2>2, <2>3 DEF ErrorInv, SendInv, InOpen, Elsewhere
  <2>6. QED
    BY <2>4, <2>5 DEF ErrorInv
<1>3. QED
  BY <1>1, <1>2

\* Polling in a domain, or not, with nothing else going on.
LEMMA PollStep ==
  ASSUME LockInv, ErrorInv, Running, NEW t \in Threads, exc[t] = "none",
         ReadDevice(t) \/ UNCHANGED <<hasException, exc>>, Elsewhere,
         UNCHANGED <<message, isSending, requests, terminated>>
  PROVE  ErrorInv'
<1>1. CASE UNCHANGED <<hasException, exc>>
  BY <1>1, OtherStep DEF errorVars
<1>2. CASE (hasException \/ MayReport(t)) /\ ReportsException(t)
  BY <1>2, ReportStep
<1>3. QED
  BY <1>1, <1>2 DEF ReadDevice

\* A later step of setException().
LEMMA ContinueStep ==
  ASSUME LockInv, ErrorInv, Running, NEW t \in Threads, NEW l, exc[t] # "none",
         exc' = [exc EXCEPT ![t] = l], UNCHANGED <<hasException, pc>>,
         message' = "error" \/ (message' = message /\ exc[t] # "message"), l # "message"
  PROVE  ReportInv'
<1> TypeOK
  BY DEF LockInv, LockOwners
<1>1. ~InOpen /\ hasException /\ \A u \in Threads \ {t} : exc[u] = "none"
  BY DEF ErrorInv, ReportInv, NobodyReports
<1>2. exc'[t] = l /\ \A u \in Threads \ {t} : exc'[u] = "none"
  BY <1>1 DEF TypeOK
<1>3. message' = "error"
  BY <1>1 DEF ErrorInv, ReportInv, MessageIsCurrentOnceSet
<1>4. QED
  BY <1>1, <1>2, <1>3 DEF ErrorInv, ReportInv, Running, InOpen, MessageIsCurrentOnceSet

\* setException(), step by step.
LEMMA SetExceptionErrors ==
  ASSUME LockInv, ErrorInv, Running, NEW t \in Callers, SetException(t)
  PROVE  ErrorInv'
<1> t \in Threads
  BY DEF Threads
<1> TypeOK
  BY DEF LockInv, LockOwners
<1> USE DEF sharedVars, containerVars
<1>1. CASE Report(t)
  BY <1>1, ReportStep DEF Report, Elsewhere
<1>2. ASSUME exc[t] # "none"
      PROVE  \A u \in Threads \ {t} : exc[u] = "none"
  BY <1>2 DEF ErrorInv, ReportInv
<1>3. CASE SetMessage(t)
  <2>1. ReportInv'
    BY <1>3, ContinueStep DEF SetMessage
  <2>2. SendInv'
    BY <1>2, <1>3 DEF SetMessage, ErrorInv, SendInv, TypeOK
  <2>3. QED
    BY <2>1, <2>2 DEF ErrorInv
<1>4. CASE SetExceptionImpl(t)
  <2>1. ReportInv'
    BY <1>4, ContinueStep DEF SetExceptionImpl
  <2>2. SendInv'
    BY <1>2, <1>4 DEF SetExceptionImpl, ErrorInv, SendInv, TypeOK
  <2>3. QED
    BY <2>1, <2>2 DEF ErrorInv
<1>5. CASE CheckSending(t)
  <2>1. ~isSending
    BY <1>5 DEF CheckSending, ErrorInv, SendInv
  <2>2. PICK l \in {"flag", "none"} : exc' = [exc EXCEPT ![t] = l]
    BY <1>5, <2>1 DEF CheckSending
  <2>3. UNCHANGED <<hasException, message, isSending, requests, pc, terminated>> /\ exc[t] = "check"
    BY <1>5, <2>1 DEF CheckSending
  <2>4. ReportInv'
    BY <2>2, <2>3, ContinueStep
  <2>5. SendInv'
    BY <1>2, <2>2, <2>3 DEF ErrorInv, SendInv, TypeOK
  <2>6. QED
    BY <2>4, <2>5 DEF ErrorInv
<1>6. CASE SetSending(t)
  <2>1. ReportInv'
    BY <1>6, ContinueStep DEF SetSending
  <2>2. requests = 0 /\ pc["exception"] = "idle" /\ hasException /\ ~InOpen
    BY <1>6 DEF SetSending, ErrorInv, ReportInv, SendInv, TypeOK, QueueSize, NobodyReports
  <2>3. exc'[t] = "push" /\ \A u \in Threads \ {t} : exc'[u] = "none"
    BY <1>2, <1>6 DEF SetSending, TypeOK
  <2>4. SendInv'
    BY <1>6, <2>2, <2>3 DEF SetSending, ErrorInv, SendInv, InOpen
  <2>5. QED
    BY <2>1, <2>4 DEF ErrorInv
<1>7. CASE PushRequest(t)
  <2>1. ReportInv'
    BY <1>7, ContinueStep DEF PushRequest
  <2>2. requests' = 1 /\ isSending /\ pc["exception"] = "idle"
    BY <1>7 DEF PushRequest, ErrorInv, SendInv, QueueSize
  <2>3. \A u \in Threads : exc'[u] = "none"
    BY <1>2, <1>7 DEF PushRequest, TypeOK
  <2>4. SendInv'
    BY <1>7, <2>2, <2>3 DEF PushRequest, ErrorInv, SendInv
  <2>5. QED
    BY <2>1, <2>4 DEF ErrorInv
<1>8. QED
  BY <1>1, <1>3, <1>4, <1>5, <1>6, <1>7 DEF SetException

\* The exception thread takes one request, and resets isSending when it is done.
LEMMA ExceptionThreadErrors ==
  ASSUME LockInv, ErrorInv, Running, ExceptionThread
  PROVE  ErrorInv'
<1> TypeOK /\ LabelsOK
  BY DEF LockInv, LockOwners
<1> USE ThreadNames
<1> USE DEF sharedVars, containerVars, Goto, At, LabelsOK
<1>1. CASE PopRequest
  <2>1. requests' = 0 /\ isSending /\ pc'["exception"] = "lock" /\ pc'["recovery"] = pc["recovery"]
    BY <1>1 DEF PopRequest, ErrorInv, SendInv
  <2>2. \A t \in Threads : exc[t] # "push"
    BY <1>1 DEF PopRequest, ErrorInv, SendInv
  <2>3. SendInv'
    BY <1>1, <2>1, <2>2 DEF PopRequest, ErrorInv, SendInv
  <2>4. ReportInv'
    BY <1>1, <2>1 DEF PopRequest, ErrorInv, ReportInv, InOpen, NobodyReports,
       MessageIsCurrentOnceSet, Running
  <2>5. QED
    BY <2>3, <2>4 DEF ErrorInv
<1>2. CASE ExceptionLock
  BY <1>2, OtherStep DEF ExceptionLock, LockContainer, Elsewhere, errorVars, OpenLabels
<1>3. ASSUME NEW d \in Domains, ExceptionEach(d) PROVE ErrorInv'
  BY <1>3, OtherStep DEF ExceptionEach, Elsewhere, errorVars
<1>4. CASE ExceptionUnlock
  BY <1>4, OtherStep DEF ExceptionUnlock, UnlockContainer, Elsewhere, errorVars, OpenLabels
<1>5. CASE ExceptionDone
  <2>1. requests = 0 /\ pc'["exception"] = "idle" /\ pc'["recovery"] = pc["recovery"]
    BY <1>5 DEF ExceptionDone, ErrorInv, SendInv, TypeOK, QueueSize
  <2>2. \A t \in Threads : exc[t] # "push"
    BY <1>5 DEF ExceptionDone, ErrorInv, SendInv
  <2>3. SendInv'
    BY <1>5, <2>1, <2>2 DEF ExceptionDone, ErrorInv, SendInv
  <2>4. ReportInv'
    BY <1>5, <2>1 DEF ExceptionDone, ErrorInv, ReportInv, InOpen, NobodyReports,
       MessageIsCurrentOnceSet, Running
  <2>5. QED
    BY <2>3, <2>4 DEF ErrorInv
<1>6. QED
  BY <1>1, <1>2, <1>3, <1>4, <1>5 DEF ExceptionThread

\* open() waits for the distribution and clears the error.
LEMMA OpenErrors ==
  ASSUME LockInv, ErrorInv, Running, Open \/ OpenWait \/ OpenSet \/ OpenClear \/ OpenMessage
  PROVE  ErrorInv'
<1> TypeOK /\ LabelsOK
  BY DEF LockInv, LockOwners
<1> USE ThreadNames
<1> USE DEF sharedVars, containerVars, Goto, At, LabelsOK
<1> USE DEF ErrorInv, ReportInv, SendInv, InOpen, NobodyReports, MessageIsCurrentOnceSet, Running
<1>1. CASE Open
  BY <1>1 DEF Open, MayEnter
<1>2. CASE OpenWait
  BY <1>2 DEF OpenWait
<1>3. CASE OpenSet
  BY <1>3 DEF OpenSet
<1>4. CASE OpenClear
  BY <1>4 DEF OpenClear
<1>5. CASE OpenMessage
  BY <1>5 DEF OpenMessage
<1>6. QED
  BY <1>1, <1>2, <1>3, <1>4, <1>5

\* The thread which opens, activates and closes the device.
LEMMA RecoveryErrors ==
  ASSUME LockInv, ErrorInv, Running, Recovery \/ Open \/ ActivateAsyncRead \/ Close
  PROVE  ErrorInv'
<1> TypeOK /\ LabelsOK
  BY DEF LockInv, LockOwners
<1> USE ThreadNames
<1> USE DEF sharedVars, containerVars, Goto, At, LabelsOK
<1>1. CASE ActivateFlag
  BY <1>1, OtherStep DEF ActivateFlag, Elsewhere, errorVars, OpenLabels
<1>2. CASE ActivateLock
  BY <1>2, OtherStep DEF ActivateLock, LockContainer, Elsewhere, errorVars, OpenLabels
<1>3. CASE ActivateNext
  BY <1>3, OtherStep DEF ActivateNext, UnlockDomain, Elsewhere, errorVars, OpenLabels
<1>4. CASE ActivateUnlock
  BY <1>4, OtherStep DEF ActivateUnlock, UnlockContainer, Elsewhere, errorVars, OpenLabels
<1>5. CASE CloseLock
  BY <1>5, OtherStep DEF CloseLock, LockContainer, Elsewhere, errorVars, OpenLabels
<1>6. CASE CloseUnlock
  BY <1>6, OtherStep DEF CloseUnlock, UnlockContainer, Elsewhere, errorVars, OpenLabels
<1>7. CASE CloseImpl
  BY <1>7, OtherStep DEF CloseImpl, Elsewhere, errorVars, OpenLabels
<1>8. CASE ActivateAsyncRead
  BY <1>8, OtherStep DEF ActivateAsyncRead, Elsewhere, errorVars, OpenLabels
<1>9. CASE Close
  BY <1>9, OtherStep DEF Close, Elsewhere, errorVars, OpenLabels
<1>10. ASSUME NEW d \in Domains, CloseEach(d) PROVE ErrorInv'
  BY <1>10, OtherStep DEF CloseEach, Elsewhere, errorVars
<1>11. ASSUME NEW d \in Domains, ActivateEach(d) PROVE ErrorInv'
  <2>1. ReadDevice("recovery") \/ UNCHANGED <<hasException, exc>>
    BY <1>11 DEF ActivateEach, ActivateDomain
  <2>2. QED
    BY <1>11, <2>1, PollStep DEF ActivateEach, Elsewhere, OpenLabels
<1>12. QED
  BY <1>1, <1>2, <1>3, <1>4, <1>5, <1>6, <1>7, <1>8, <1>9, <1>10, <1>11, OpenErrors DEF Recovery

\* The thread which creates accessors.
LEMMA SubscriberErrors ==
  ASSUME LockInv, ErrorInv, Running, Subscriber \/ \E d \in Domains : Subscribe(d)
  PROVE  ErrorInv'
<1> TypeOK /\ LabelsOK
  BY DEF LockInv, LockOwners
<1> USE ThreadNames
<1> USE DEF sharedVars, containerVars, Goto, At, LabelsOK
<1>1. ASSUME NEW d \in Domains, Subscribe(d) PROVE ErrorInv'
  BY <1>1, OtherStep DEF Subscribe, Elsewhere, errorVars
<1>2. CASE SubscribeLock
  BY <1>2, OtherStep DEF SubscribeLock, Elsewhere, errorVars, OpenLabels
<1>3. CASE SubscribeDomain
  <2>1. ReadDevice("subscriber") \/ UNCHANGED <<hasException, exc>>
    BY <1>3 DEF SubscribeDomain
  <2>2. QED
    BY <1>3, <2>1, PollStep DEF SubscribeDomain, Elsewhere
<1>4. CASE SubscribeNext
  BY <1>4, OtherStep DEF SubscribeNext, UnlockDomain, Elsewhere, errorVars, OpenLabels
<1>5. CASE SubscribeActivate
  <2>1. ReadDevice("subscriber") \/ UNCHANGED <<hasException, exc>>
    BY <1>5 DEF SubscribeActivate, ActivateDomain
  <2>2. QED
    BY <1>5, <2>1, PollStep DEF SubscribeActivate, Elsewhere
<1>6. CASE SubscribeActivated
  BY <1>6, OtherStep DEF SubscribeActivated, UnlockDomain, Elsewhere, errorVars, OpenLabels
<1>7. CASE SubscribeUnlock
  BY <1>7, OtherStep DEF SubscribeUnlock, UnlockContainer, Elsewhere, errorVars, OpenLabels
<1>8. QED
  BY <1>1, <1>2, <1>3, <1>4, <1>5, <1>6, <1>7 DEF Subscriber

\* The thread which distributes interrupts.
LEMMA InterruptErrors ==
  ASSUME LockInv, ErrorInv, Running, InterruptThread \/ \E d \in Domains : Interrupt(d)
  PROVE  ErrorInv'
<1> TypeOK /\ LabelsOK
  BY DEF LockInv, LockOwners
<1> USE ThreadNames
<1> USE DEF sharedVars, containerVars, Goto, At, LabelsOK
<1>1. ASSUME NEW d \in Domains, Interrupt(d) PROVE ErrorInv'
  BY <1>1, OtherStep DEF Interrupt, Elsewhere, errorVars
<1>2. CASE InterruptDistribute
  <2>1. ReadDevice("interrupt") \/ UNCHANGED <<hasException, exc>>
    BY <1>2 DEF InterruptDistribute
  <2>2. QED
    BY <1>2, <2>1, PollStep DEF InterruptDistribute, Elsewhere
<1>3. CASE InterruptDone
  BY <1>3, OtherStep DEF InterruptDone, UnlockDomain, Elsewhere, errorVars, OpenLabels
<1>4. QED
  BY <1>1, <1>2, <1>3 DEF InterruptThread

\* Every step keeps the invariant of the errors.
LEMMA ErrorInvNext == LockInv /\ ErrorInv /\ [Next]_vars => ErrorInv'
<1> SUFFICES ASSUME LockInv, ErrorInv, [Next]_vars PROVE ErrorInv'
  OBVIOUS
<1>1. CASE Next
  BY <1>1, SetExceptionErrors, ExceptionThreadErrors, RecoveryErrors, SubscriberErrors,
     InterruptErrors DEF Next
<1>2. CASE UNCHANGED vars
  BY <1>2, OtherStep DEF vars, errorVars, Elsewhere, Running, ErrorInv, SendInv
<1>3. QED
  BY <1>1, <1>2

\* The invariant of the errors holds in an application which keeps open() alone.
LEMMA ErrorInvHolds ==
  ASSUME \A D \in Disciplines : "open" \in D
  PROVE  Spec => []ErrorInv
<1>1. Init => ErrorInv
  BY ErrorInvInit
<1>2. QED
  BY <1>1, LockInvInit, LockInvNext, ErrorInvNext, PTL DEF Spec

(***************************************************************************)
(* setException() never terminates the program: sendExceptions() does not  *)
(* find a previous distribution still running if open() is called while no *)
(* error is being reported and the application reports none during it.     *)
(***************************************************************************)
THEOREM NeverTerminated ==
  ASSUME \A D \in Disciplines : "open" \in D
  PROVE  Spec => []NeverTerminates
<1>1. ErrorInv => NeverTerminates
  BY DEF ErrorInv, SendInv, NeverTerminates
<1>2. QED
  BY <1>1, ErrorInvHolds, PTL

(***************************************************************************)
(* The exception thread distributes an error only while it is active: its  *)
(* work is done when open() has recovered the device (spec B.9.3.4).       *)
(***************************************************************************)
THEOREM ExceptionsComeFirst ==
  ASSUME \A D \in Disciplines : "open" \in D
  PROVE  Spec => []ExceptionsBeforeRecovery
<1>1. ErrorInv => ExceptionsBeforeRecovery
  BY DEF ErrorInv, SendInv, ExceptionsBeforeRecovery
<1>2. QED
  BY <1>1, ErrorInvHolds, PTL

(***************************************************************************)
(* checkActiveException() finds the message of the active error, from the  *)
(* moment on when the thread which reports it has set it: open() does not  *)
(* clear the message of a later error.                                     *)
(***************************************************************************)
THEOREM MessageIsCurrent ==
  ASSUME \A D \in Disciplines : "open" \in D
  PROVE  Spec => []MessageIsCurrentOnceSet
<1>1. ErrorInv => MessageIsCurrentOnceSet
  BY DEF ErrorInv, ReportInv
<1>2. QED
  BY <1>1, ErrorInvHolds, PTL

-----------------------------------------------------------------------------
(* The domains, in applications which do not let activateAsyncRead(),      *)
(* close() and the creation of accessors overlap with other calls          *)

\* The distribution of the error to all domains is still ahead.
Pending ==
  \/ \E t \in Threads : exc[t] # "none"
  \/ requests > 0
  \/ pc["exception"] = "lock"

Activating == pc["recovery"] \in {"activateEach", "activateNext"}
Creating == pc["subscriber"] \in {"subscribe", "subscribed", "activate"} /\ flag

\* The exception thread exists as soon as there is a domain, and a thread
\* visits, and subscribes to, only domains which exist.
ContainerInv ==
  /\ ~threadRunning => Existing = {}
  /\ \A t \in Threads : todo[t] \subseteq Existing
  /\ pc["subscriber"] \notin {"idle", "subscribeLock"} => target["subscriber"] \in Existing

\* The calls run one by one, on a device in the state which they need.
CallsInv ==
  /\ pc["subscriber"] # "idle" => pc["recovery"] = "idle"
  /\ pc["recovery"] \in {"activateFlag", "activateLock"} => ~hasException
  /\ Activating /\ hasException /\ threadRunning => Pending
  /\ pc["recovery"] \in {"closeLock", "closeEach", "closeImpl"} => ~asyncActive
  /\ pc["subscriber"] = "subscribeLock" /\ ~flag => ~asyncActive
  /\ pc["subscriber"] = "subscribeLock" /\ flag => ~hasException
  /\ pc["subscriber"] = "activate" => flag
  /\ Creating => ~hasException
  /\ pc["subscriber"] = "subscribe" /\ flag => domain[target["subscriber"]] = "inactive"

\* setException() switches asynchronous read off, before it distributes the error.
SwitchedOffInv ==
  hasException /\ asyncActive => \E t \in Threads : exc[t] \in {"message", "impl"}

\* A domain which is active in spite of an error is still to be visited.
ErrorReachesDomains ==
  hasException =>
    \A d \in Domains : domain[d] = "active" =>
      Pending \/ (pc["exception"] = "each" /\ d \in todo["exception"])

\* A domain which is not active, but should be, is about to be activated.
ActivationReachesDomains ==
  asyncActive /\ ~hasException =>
    \A d \in Existing :
      \/ domain[d] = "active"
      \/ pc["recovery"] = "activateLock"
      \/ Activating /\ d \in todo["recovery"]
      \/ Creating /\ target["subscriber"] = d

DomainsInv ==
  /\ ContainerInv
  /\ Serialised => CallsInv /\ SwitchedOffInv /\ ErrorReachesDomains /\ ActivationReachesDomains

\* setException() switches asynchronous read off, and requests the distribution
\* if there is an exception thread, which means if there are domains.
LEMMA SetExceptionDomains ==
  ASSUME LockInv, ErrorInv, DomainsInv, Running, NEW t \in Callers, SetException(t)
  PROVE  DomainsInv'
<1> TypeOK /\ LabelsOK /\ TargetsOK
  BY DEF LockInv, LockOwners
<1> t \in Threads
  BY DEF Threads
<1> USE ThreadNames, BackendAssumption
<1> USE DEF Goto, At, sharedVars, containerVars, lockVars, Running, ReportsException,
            LockContainer, UnlockContainer, UnlockDomain, MayEnter, MayReport, ActivateDomain,
            ReadDevice
<1> USE DEF DomainsInv, ContainerInv, CallsInv, SwitchedOffInv, ErrorReachesDomains,
            ActivationReachesDomains, Pending, Activating, Creating, Serialised, Existing
<1> USE DEF ErrorInv, ReportInv, SendInv, InActivateOrClose, InOpen, InSubscribe, NobodyReports,
            LockInv, LockOwners, HoldsContainer, TypeOK, LabelsOK, TargetsOK, SubscriberLabels
<1>1. CASE Report(t)
  BY <1>1 DEF Report
<1>2. CASE SetMessage(t)
  BY <1>2 DEF SetMessage
<1>3. CASE SetExceptionImpl(t)
  BY <1>3 DEF SetExceptionImpl
<1>4. CASE CheckSending(t)
  BY <1>4 DEF CheckSending
<1>5. CASE SetSending(t)
  BY <1>5 DEF SetSending
<1>6. CASE PushRequest(t)
  <2>1. requests' = 1
    BY <1>6 DEF PushRequest, QueueSize
  <2>2. Pending'
    BY <2>1
  <2>3. \A u \in Threads : exc[u] \in {"message", "impl"} => exc'[u] = exc[u]
    BY <1>6 DEF PushRequest
  <2>4. QED
    BY <1>6, <2>2, <2>3 DEF PushRequest
<1>7. QED
  BY <1>1, <1>2, <1>3, <1>4, <1>5, <1>6 DEF SetException

\* The exception thread visits all domains, while the error is active.
LEMMA ExceptionThreadDomains ==
  ASSUME LockInv, ErrorInv, DomainsInv, Running, ExceptionThread
  PROVE  DomainsInv'
<1> TypeOK /\ LabelsOK /\ TargetsOK
  BY DEF LockInv, LockOwners
<1> USE ThreadNames, BackendAssumption
<1> USE DEF Goto, At, sharedVars, containerVars, lockVars, Running, ReportsException,
            LockContainer, UnlockContainer, UnlockDomain, MayEnter, MayReport, ActivateDomain,
            ReadDevice
<1> USE DEF DomainsInv, ContainerInv, CallsInv, SwitchedOffInv, ErrorReachesDomains,
            ActivationReachesDomains, Pending, Activating, Creating, Serialised, Existing
<1> USE DEF ErrorInv, ReportInv, SendInv, InActivateOrClose, InOpen, InSubscribe, NobodyReports,
            LockInv, LockOwners, HoldsContainer, TypeOK, LabelsOK, TargetsOK, SubscriberLabels
<1>1. CASE PopRequest
  BY <1>1 DEF PopRequest
<1>2. CASE ExceptionLock
  BY <1>2 DEF ExceptionLock
<1>3. ASSUME NEW d \in Domains, ExceptionEach(d) PROVE DomainsInv'
  BY <1>3 DEF ExceptionEach
<1>4. CASE ExceptionUnlock
  BY <1>4 DEF ExceptionUnlock
<1>5. CASE ExceptionDone
  BY <1>5 DEF ExceptionDone
<1>6. QED
  BY <1>1, <1>2, <1>3, <1>4, <1>5 DEF ExceptionThread

\* open() clears the error when asynchronous read is off. activateAsyncRead() visits
\* all domains, and holds the container while an error is reported by one of them.
LEMMA RecoveryDomains ==
  ASSUME LockInv, ErrorInv, DomainsInv, Running, Recovery \/ Open \/ ActivateAsyncRead \/ Close
  PROVE  DomainsInv'
<1> TypeOK /\ LabelsOK /\ TargetsOK
  BY DEF LockInv, LockOwners
<1> USE ThreadNames, BackendAssumption
<1> USE DEF Goto, At, sharedVars, containerVars, lockVars, Running, ReportsException,
            LockContainer, UnlockContainer, UnlockDomain, MayEnter, MayReport, ActivateDomain,
            ReadDevice
<1> USE DEF DomainsInv, ContainerInv, CallsInv, SwitchedOffInv, ErrorReachesDomains,
            ActivationReachesDomains, Pending, Activating, Creating, Serialised, Existing
<1> USE DEF ErrorInv, ReportInv, SendInv, InActivateOrClose, InOpen, InSubscribe, NobodyReports,
            LockInv, LockOwners, HoldsContainer, TypeOK, LabelsOK, TargetsOK, SubscriberLabels
<1>1. CASE Open
  BY <1>1 DEF Open
<1>2. CASE OpenWait
  BY <1>2 DEF OpenWait
<1>3. CASE OpenSet
  BY <1>3 DEF OpenSet
<1>4. CASE OpenClear
  BY <1>4 DEF OpenClear
<1>5. CASE OpenMessage
  BY <1>5 DEF OpenMessage
<1>6. CASE ActivateAsyncRead
  BY <1>6 DEF ActivateAsyncRead
<1>7. CASE ActivateFlag
  BY <1>7 DEF ActivateFlag
<1>8. CASE ActivateLock
  BY <1>8 DEF ActivateLock
<1>9. CASE ActivateNext
  BY <1>9 DEF ActivateNext
<1>10. CASE ActivateUnlock
  BY <1>10 DEF ActivateUnlock
<1>11. CASE Close
  BY <1>11 DEF Close
<1>12. CASE CloseLock
  BY <1>12 DEF CloseLock
<1>13. ASSUME NEW d \in Domains, CloseEach(d) PROVE DomainsInv'
  BY <1>13 DEF CloseEach
<1>14. CASE CloseUnlock
  BY <1>14 DEF CloseUnlock
<1>15. CASE CloseImpl
  BY <1>15 DEF CloseImpl
<1>16. ASSUME NEW d \in Domains, ActivateEach(d) PROVE DomainsInv'
  BY <1>16 DEF ActivateEach
<1>17. QED
  BY <1>1, <1>2, <1>3, <1>4, <1>5, <1>6, <1>7, <1>8, <1>9, <1>10, <1>11, <1>12, <1>13, <1>14,
     <1>15, <1>16 DEF Recovery

\* Polling in a domain starts setException() if it is the first to find an error.
LEMMA PollReports ==
  ASSUME TypeOK, NEW t \in Threads, exc[t] = "none", ReadDevice(t)
  PROVE  \/ UNCHANGED <<hasException, exc>>
         \/ ~hasException /\ hasException' /\ exc' = [exc EXCEPT ![t] = "message"]
<1>1. CASE ~hasException
  BY <1>1 DEF ReadDevice, ReportsException
<1>2. CASE hasException
  BY <1>2 DEF ReadDevice, ReportsException, TypeOK
<1>3. QED
  BY <1>1, <1>2

\* subscribe() activates the domain which it has created.
LEMMA SubscribeActivateDomains ==
  ASSUME LockInv, ErrorInv, DomainsInv, Running, SubscribeActivate
  PROVE  DomainsInv'
<1> TypeOK /\ LabelsOK /\ TargetsOK
  BY DEF LockInv, LockOwners
<1> USE ThreadNames
<1> DEFINE d == target["subscriber"]
<1>1. d \in Existing /\ d \in Domains
  BY DEF SubscribeActivate, At, DomainsInv, ContainerInv, Existing
<1>2. /\ pc["subscriber"] = "activate" /\ exc["subscriber"] = "none"
      /\ pc'["subscriber"] = "activated" /\ \A t \in Threads \ {"subscriber"} : pc'[t] = pc[t]
      /\ UNCHANGED <<alone, requests, threadRunning, asyncActive, todo, flag, target>>
  BY DEF SubscribeActivate, ActivateDomain, At, Goto, TypeOK, LabelsOK, Running, containerVars
<1>3. domain' = [domain EXCEPT ![d] = "active"] /\ Existing' = Existing
  BY <1>1 DEF SubscribeActivate, ActivateDomain, TypeOK, Existing
<1>4. \/ UNCHANGED <<hasException, exc>>
      \/ ~hasException /\ hasException' /\ exc' = [exc EXCEPT !["subscriber"] = "message"]
  BY <1>2, PollReports DEF SubscribeActivate, ActivateDomain
<1>5. domain'[d] = "active" /\ \A e \in Domains \ {d} : domain'[e] = domain[e]
  BY <1>1, <1>3 DEF TypeOK
<1>6. ContainerInv'
  BY <1>1, <1>2, <1>3 DEF DomainsInv, ContainerInv
<1>7. ASSUME Serialised
      PROVE  (CallsInv /\ SwitchedOffInv /\ ErrorReachesDomains /\ ActivationReachesDomains)'
  <2>1. pc["recovery"] = "idle" /\ CallsInv'
    BY <1>2, <1>5, <1>7 DEF DomainsInv, CallsInv, Activating, Creating
  <2>2. CASE UNCHANGED <<hasException, exc>>
    <3>1. SwitchedOffInv'
      BY <1>2, <1>7, <2>2 DEF DomainsInv, SwitchedOffInv
    <3>2. ActivationReachesDomains'
      BY <1>2, <1>3, <1>5, <1>7, <2>1, <2>2 DEF DomainsInv, ActivationReachesDomains, Activating,
         Creating, Existing
    <3>3. ErrorReachesDomains'
      BY <1>2, <1>3, <1>5, <1>7, <2>2 DEF DomainsInv, ErrorReachesDomains, Pending, CallsInv, Creating
    <3>4. QED
      BY <2>1, <3>1, <3>2, <3>3
  <2>3. CASE hasException' /\ exc' = [exc EXCEPT !["subscriber"] = "message"]
    <3>1. hasException' /\ exc'["subscriber"] = "message"
      BY <2>3 DEF TypeOK
    <3>2. QED
      BY <2>1, <3>1 DEF SwitchedOffInv, ErrorReachesDomains, ActivationReachesDomains, Pending
  <2>4. QED
    BY <1>4, <2>2, <2>3
<1>8. QED
  BY <1>2, <1>6, <1>7 DEF DomainsInv, Serialised

\* A domain which is created while asynchronous read is active is activated.
LEMMA SubscriberDomains ==
  ASSUME LockInv, ErrorInv, DomainsInv, Running, Subscriber \/ \E d \in Domains : Subscribe(d)
  PROVE  DomainsInv'
<1> TypeOK /\ LabelsOK /\ TargetsOK
  BY DEF LockInv, LockOwners
<1> USE ThreadNames, BackendAssumption
<1> USE DEF Goto, At, sharedVars, containerVars, lockVars, Running, ReportsException,
            LockContainer, UnlockContainer, UnlockDomain, MayEnter, MayReport, ActivateDomain,
            ReadDevice
<1> USE DEF DomainsInv, ContainerInv, CallsInv, SwitchedOffInv, ErrorReachesDomains,
            ActivationReachesDomains, Pending, Activating, Creating, Serialised, Existing
<1> USE DEF ErrorInv, ReportInv, SendInv, InActivateOrClose, InOpen, InSubscribe, NobodyReports,
            LockInv, LockOwners, HoldsContainer, TypeOK, LabelsOK, TargetsOK, SubscriberLabels
<1>1. ASSUME NEW d \in Domains, Subscribe(d) PROVE DomainsInv'
  BY <1>1 DEF Subscribe
<1>2. CASE SubscribeLock
  BY <1>2 DEF SubscribeLock
<1>3. CASE SubscribeDomain
  BY <1>3 DEF SubscribeDomain
<1>4. CASE SubscribeNext
  BY <1>4 DEF SubscribeNext
<1>5. CASE SubscribeActivate
  BY <1>5, SubscribeActivateDomains
<1>6. CASE SubscribeActivated
  BY <1>6 DEF SubscribeActivated
<1>7. CASE SubscribeUnlock
  BY <1>7 DEF SubscribeUnlock
<1>8. QED
  BY <1>1, <1>2, <1>3, <1>4, <1>5, <1>6, <1>7 DEF Subscriber

\* An interrupt finds an error at most while the others are idle.
LEMMA InterruptDomains ==
  ASSUME LockInv, ErrorInv, DomainsInv, Running, InterruptThread \/ \E d \in Domains : Interrupt(d)
  PROVE  DomainsInv'
<1> TypeOK /\ LabelsOK /\ TargetsOK
  BY DEF LockInv, LockOwners
<1> USE ThreadNames, BackendAssumption
<1> USE DEF Goto, At, sharedVars, containerVars, lockVars, Running, ReportsException,
            LockContainer, UnlockContainer, UnlockDomain, MayEnter, MayReport, ActivateDomain,
            ReadDevice
<1> USE DEF DomainsInv, ContainerInv, CallsInv, SwitchedOffInv, ErrorReachesDomains,
            ActivationReachesDomains, Pending, Activating, Creating, Serialised, Existing
<1> USE DEF ErrorInv, ReportInv, SendInv, InActivateOrClose, InOpen, InSubscribe, NobodyReports,
            LockInv, LockOwners, HoldsContainer, TypeOK, LabelsOK, TargetsOK, SubscriberLabels
<1>1. ASSUME NEW d \in Domains, Interrupt(d) PROVE DomainsInv'
  BY <1>1 DEF Interrupt
<1>2. CASE InterruptDistribute
  BY <1>2 DEF InterruptDistribute
<1>3. CASE InterruptDone
  BY <1>3 DEF InterruptDone
<1>4. QED
  BY <1>1, <1>2, <1>3 DEF InterruptThread

\* There is no domain in the beginning.
LEMMA DomainsInvInit == Init => DomainsInv
<1> SUFFICES ASSUME Init PROVE DomainsInv
  OBVIOUS
<1>1. Existing = {} /\ ~hasException /\ ~asyncActive /\ ~flag
  BY DEF Init, Existing
<1>2. pc["recovery"] = "idle" /\ pc["subscriber"] = "idle" /\ \A t \in Threads : todo[t] = {}
  BY ThreadNames DEF Init
<1>3. QED
  BY <1>1, <1>2 DEF DomainsInv, ContainerInv, CallsInv, SwitchedOffInv, ErrorReachesDomains,
     ActivationReachesDomains, Activating, Creating

\* Every step keeps the invariant of the domains.
LEMMA DomainsInvNext == LockInv /\ ErrorInv /\ DomainsInv /\ [Next]_vars => DomainsInv'
<1> SUFFICES ASSUME LockInv, ErrorInv, DomainsInv, [Next]_vars PROVE DomainsInv'
  OBVIOUS
<1>1. CASE Next
  BY <1>1, SetExceptionDomains, ExceptionThreadDomains, RecoveryDomains, SubscriberDomains,
     InterruptDomains DEF Next
<1>2. CASE UNCHANGED vars
  BY <1>2 DEF vars, DomainsInv, ContainerInv, CallsInv, SwitchedOffInv, ErrorReachesDomains,
     ActivationReachesDomains, Pending, Activating, Creating, Serialised, Existing
<1>3. QED
  BY <1>1, <1>2

\* The invariant of the domains holds in an application which keeps open() alone.
LEMMA DomainsInvHolds ==
  ASSUME \A D \in Disciplines : "open" \in D
  PROVE  Spec => [](LockInv /\ ErrorInv /\ DomainsInv)
<1>1. Init => ErrorInv
  BY ErrorInvInit
<1>2. QED
  BY <1>1, LockInvInit, LockInvNext, ErrorInvNext, DomainsInvInit, DomainsInvNext, PTL DEF Spec

(***************************************************************************)
(* After an error has been reported and distributed no domain is active,   *)
(* also not one which was activated, or created, or polled while the error *)
(* was reported (spec B.9.3.1): the container is locked until the thread   *)
(* which activates has visited all domains, and the distribution starts    *)
(* after that.                                                             *)
(***************************************************************************)
THEOREM NoDomainIsActiveInError ==
  ASSUME \A D \in Disciplines : "open" \in D
  PROVE  Spec => []NoActiveDomainInError
<1>1. LockInv /\ ErrorInv /\ DomainsInv => NoActiveDomainInError
  <2> SUFFICES ASSUME ErrorInv, DomainsInv, Serialised, Settled, hasException,
                      NEW d \in Domains, domain[d] = "active"
               PROVE  FALSE
    BY DEF NoActiveDomainInError
  <2>1. pc["exception"] = "idle" /\ (\A t \in Threads : exc[t] = "none") /\ ~(requests > 0)
    BY ThreadNames DEF Settled, ErrorInv, SendInv
  <2>2. QED
    BY <2>1 DEF DomainsInv, ErrorReachesDomains, Pending
<1>2. QED
  BY <1>1, DomainsInvHolds, PTL

(***************************************************************************)
(* After activateAsyncRead() all domains are active, also the ones which   *)
(* are created meanwhile (spec B.8.5.3): getRegisterAccessor_impl()        *)
(* evaluates _asyncIsActive before the container is locked, and that value *)
(* is still right when the domain is created.                              *)
(***************************************************************************)
THEOREM ActivationIsComplete ==
  ASSUME \A D \in Disciplines : "open" \in D
  PROVE  Spec => []AllDomainsActive
<1>1. LockInv /\ ErrorInv /\ DomainsInv => AllDomainsActive
  <2> SUFFICES ASSUME DomainsInv, Serialised, Settled, ~hasException, asyncActive,
                      NEW d \in Existing
               PROVE  domain[d] = "active"
    BY DEF AllDomainsActive
  <2>1. pc["recovery"] = "idle" /\ pc["subscriber"] = "idle"
    BY ThreadNames DEF Settled
  <2>2. QED
    BY <2>1 DEF DomainsInv, ActivationReachesDomains, Activating, Creating
<1>2. QED
  BY <1>1, DomainsInvHolds, PTL

=============================================================================

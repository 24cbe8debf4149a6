---------------------------- MODULE SharedDummy ----------------------------
(***************************************************************************)
(* The SharedDummyBackend: processes which share the registers of a dummy  *)
(* device in a memory segment, and interrupt each other. The segment and   *)
(* its mutex are found by name and removed by the process which leaves     *)
(* last. Processes may crash, also while they hold the mutex.              *)
(*                                                                         *)
(* What the code does under the mutex is one step here, which needs a      *)
(* mutex that is not held by a dead process. All bars are one value.       *)
(***************************************************************************)
EXTENDS Naturals, FiniteSets

CONSTANTS
  Processes,
  Interrupts,
  Overlap,       \* constructors overlap with constructors and destructors
  MaxMember,     \* bound: maxMember
  MaxCount,      \* bound: interrupts
  MaxCrashes,    \* bound: crashes
  MaxObjects     \* bound: segments and mutexes which exist at a time

SharedAssumption ==
  /\ IsFiniteSet(Processes)
  /\ MaxMember \in Nat /\ MaxCount \in Nat /\ MaxCrashes \in Nat /\ MaxObjects \in Nat

VARIABLES
  maxMember,     \* SHARED_MEMORY_N_MAX_MEMBER
  named,         \* the objects which are found by name, 0 if there is none
  stale,         \* the mutexes locked by a dead process
  pidSet, value, semaphores, posted, counter,  \* contents of each segment
  phase, thread,    \* where each process and its interrupt dispatcher thread are
  segment, mutex, stop, posting,
  known, copy,   \* lastInterruptState and interruptEntries of each thread
  first, calls,  \* the counters at its start, and its calls of handleInterrupt()
  last           \* how the last process has gone

objects == <<maxMember, named, stale>>
contents == <<pidSet, value, semaphores, posted, counter>>
threads == <<known, copy, first, calls>>
sharedDummyVars == <<objects, contents, phase, thread, segment, mutex, stop, posting, threads, last>>

Kinds == {"segment", "mutex"}
Objects == 1 .. MaxObjects
Alive(p) == phase[p] \notin {"none", "dead"}
Constructing(p) == phase[p] \in {"mutex", "lock"}
Leaving(p) == phase[p] \in {"leave", "remove segment", "remove mutex"}
Locks(p) == mutex[p] \notin stale

\* The counter of an interrupt whose entry is not used is 0.
NewInterrupt == 0
NoCounts == [i \in Interrupts |-> 0]

\* What a process leaves behind when it is gone: nothing of its own.
Forget(p) ==
  /\ segment' = [segment EXCEPT ![p] = 0] /\ mutex' = [mutex EXCEPT ![p] = 0]
  /\ known' = [known EXCEPT ![p] = NoCounts] /\ copy' = [copy EXCEPT ![p] = NoCounts]
  /\ first' = [first EXCEPT ![p] = NoCounts] /\ calls' = [calls EXCEPT ![p] = NoCounts]
  /\ stop' = [stop EXCEPT ![p] = FALSE]

-----------------------------------------------------------------------------
(* The constructor of SharedMemoryManager *)

Unused(kind) ==
  {o \in Objects : named[kind] # o /\ \A p \in Processes :
                    Alive(p) => (IF kind = "segment" THEN segment[p] ELSE mutex[p]) # o}

\* open_or_create
OpenSegment(p) ==
  /\ phase[p] = "none"
  /\ Overlap \/ \A q \in Processes : ~Constructing(q) /\ ~Leaving(q)
  /\ \/ /\ named["segment"] # 0
        /\ segment' = [segment EXCEPT ![p] = named["segment"]]
        /\ UNCHANGED <<named, contents>>
     \/ /\ named["segment"] = 0 /\ Unused("segment") # {}
        /\ LET s == CHOOSE o \in Unused("segment") : TRUE IN
           /\ segment' = [segment EXCEPT ![p] = s]
           /\ named' = [named EXCEPT !["segment"] = s]
           /\ pidSet' = [pidSet EXCEPT ![s] = {}]
           /\ semaphores' = [semaphores EXCEPT ![s] = {}]
           /\ value' = [value EXCEPT ![s] = 0]
           /\ posted' = [posted EXCEPT ![s] = [q \in Processes |-> 0]]
           /\ counter' = [counter EXCEPT ![s] = [i \in Interrupts |-> 0]]
  /\ phase' = [phase EXCEPT ![p] = "mutex"]
  /\ UNCHANGED <<maxMember, stale, thread, mutex, stop, posting, threads, last>>

NewMutex(p) ==
  /\ Unused("mutex") # {}
  /\ LET m == CHOOSE o \in Unused("mutex") : TRUE IN
     /\ mutex' = [mutex EXCEPT ![p] = m]
     /\ named' = [named EXCEPT !["mutex"] = m]
     /\ stale' = stale \ {m}

OpenMutex(p) ==
  /\ phase[p] = "mutex"
  /\ \/ /\ named["mutex"] # 0 /\ mutex' = [mutex EXCEPT ![p] = named["mutex"]] /\ UNCHANGED <<named, stale>>
     \/ named["mutex"] = 0 /\ NewMutex(p)
  /\ phase' = [phase EXCEPT ![p] = "lock"]
  /\ UNCHANGED <<maxMember, contents, thread, segment, stop, posting, threads, last>>

\* Mistake: any mutex is replaced, also one which is only locked at the moment.
TimeoutImpatient(p) ==
  /\ phase[p] = "lock"
  /\ NewMutex(p)
  /\ UNCHANGED <<maxMember, contents, phase, thread, segment, stop, posting, threads, last>>

\* try_lock_for(): the name of a stale mutex is removed, and another one created.
Timeout(p) ==
  /\ phase[p] = "lock" /\ ~Locks(p)
  /\ NewMutex(p)
  /\ UNCHANGED <<maxMember, contents, phase, thread, segment, stop, posting, threads, last>>

\* Mistake: processes which have died are not looked for.
ExistingAll(s) == pidSet[s]

\* checkPidSetConsistency(): the processes which still exist
Existing(s) == {p \in pidSet[s] : phase[p] # "dead"}
\* Mistake: reset whenever a process has been found.
ReInitAlways(s) == pidSet[s] # {}

ReInitRequired(s) == pidSet[s] # {} /\ Existing(s) = {}

\* Mistake: semaphores of processes which have died are kept.
CleanupNothing(s) == semaphores[s]

Cleanup(s) == semaphores[s] \cap Existing(s)

\* reInitMemory() destroys the bars, but not the interrupts: it looks for a
\* unique instance of SharedMemoryVector. Semaphores of processes which are
\* not in the pidSet are removed.
Register(p) ==
  LET s == segment[p] IN
  /\ phase[p] = "lock" /\ Locks(p)
  /\ value' = [value EXCEPT ![s] = IF ReInitRequired(s) THEN 0 ELSE @]
  /\ IF Cardinality(Existing(s)) >= maxMember
     THEN /\ pidSet' = [pidSet EXCEPT ![s] = Existing(s)]
          /\ phase' = [phase EXCEPT ![p] = "none"] /\ Forget(p)
          /\ UNCHANGED <<semaphores, thread>>
     ELSE /\ pidSet' = [pidSet EXCEPT ![s] = Existing(s) \cup {p}]
          /\ semaphores' = [semaphores EXCEPT ![s] = Cleanup(s)]
          /\ phase' = [phase EXCEPT ![p] = "running"]
          /\ thread' = [thread EXCEPT ![p] = "start"]
          /\ UNCHANGED <<segment, mutex, stop, threads>>
  /\ UNCHANGED <<objects, posted, counter, posting, last>>

-----------------------------------------------------------------------------
(* The interrupt dispatcher thread *)

\* The counters are read and the semaphore registered under one lock.
StartThread(p) ==
  LET s == segment[p] IN
  /\ thread[p] = "start" /\ Locks(p)
  /\ known' = [known EXCEPT ![p] = counter[s]]
  /\ first' = [first EXCEPT ![p] = counter[s]]
  /\ calls' = [calls EXCEPT ![p] = NoCounts]
  /\ semaphores' = [semaphores EXCEPT ![s] = @ \cup {p}]
  /\ thread' = [thread EXCEPT ![p] = "wait"]
  /\ UNCHANGED <<objects, pidSet, value, posted, counter, phase, segment, mutex, stop, posting, copy, last>>

WaitForSem(p) ==
  /\ thread[p] = "wait" /\ posted[segment[p]][p] > 0
  /\ posted' = [posted EXCEPT ![segment[p]][p] = @ - 1]
  /\ thread' = [thread EXCEPT ![p] = "copy"]
  /\ UNCHANGED <<objects, pidSet, value, semaphores, counter, phase, segment, mutex, stop, posting, threads, last>>

Copy(p) ==
  /\ thread[p] = "copy" /\ Locks(p)
  /\ copy' = [copy EXCEPT ![p] = counter[segment[p]]]
  /\ thread' = [thread EXCEPT ![p] = "handle"]
  /\ UNCHANGED <<objects, contents, phase, segment, mutex, stop, posting, known, first, calls, last>>

\* Mistake: a number which is new to the thread is only remembered.
DispatchedKnown(p, i) == IF known[p][i] = NewInterrupt THEN 0 ELSE copy[p][i] - known[p][i]

\* A number which is new to the thread is handled once.
Dispatched(p, i) ==
  IF known[p][i] = NewInterrupt /\ copy[p][i] > 0 THEN 1 ELSE copy[p][i] - known[p][i]

Handle(p) ==
  /\ thread[p] = "handle"
  /\ calls' = [calls EXCEPT ![p] = [i \in Interrupts |-> @[i] + Dispatched(p, i)]]
  /\ known' = [known EXCEPT ![p] = copy[p]]
  /\ thread' = [thread EXCEPT ![p] = IF stop[p] THEN "ended" ELSE "wait"]
  /\ copy' = [copy EXCEPT ![p] = NoCounts]
  /\ UNCHANGED <<objects, contents, phase, segment, mutex, stop, posting, first, last>>

-----------------------------------------------------------------------------
(* Registers and interrupts *)

Write(p) ==
  /\ phase[p] = "running" /\ Locks(p)
  /\ value' = [value EXCEPT ![segment[p]] = 1]
  /\ UNCHANGED <<objects, pidSet, semaphores, posted, counter, phase, thread, segment, mutex, stop, posting, threads, last>>

\* triggerInterrupt(): the semaphores are posted after the lock.
Trigger(p, i) ==
  LET s == segment[p] IN
  /\ phase[p] = "running" /\ Locks(p) /\ counter[s][i] < MaxCount
  /\ counter' = [counter EXCEPT ![s][i] = @ + 1]
  /\ posting' = [posting EXCEPT ![p] = semaphores[s]]
  /\ phase' = [phase EXCEPT ![p] = "posting"]
  /\ UNCHANGED <<objects, pidSet, value, semaphores, posted, thread, segment, mutex, stop, threads, last>>

Post(p) ==
  /\ phase[p] = "posting"
  /\ \/ \E q \in posting[p] :
          /\ posted' = [posted EXCEPT ![segment[p]][q] = @ + 1]
          /\ posting' = [posting EXCEPT ![p] = @ \ {q}]
          /\ UNCHANGED phase
     \/ posting[p] = {} /\ phase' = [phase EXCEPT ![p] = "running"] /\ UNCHANGED <<posted, posting>>
  /\ UNCHANGED <<objects, pidSet, value, semaphores, counter, thread, segment, mutex, stop, threads, last>>

-----------------------------------------------------------------------------
(* The destructor *)

Stop(p) ==
  /\ phase[p] = "running"
  /\ stop' = [stop EXCEPT ![p] = TRUE]
  /\ phase' = [phase EXCEPT ![p] = "stop"]
  /\ UNCHANGED <<objects, contents, thread, segment, mutex, posting, threads, last>>

\* Mistake: the thread is not woken up.
WakeUpNot(p) ==
  /\ phase[p] = "stop" /\ thread[p] # "start"
  /\ phase' = [phase EXCEPT ![p] = "join"]
  /\ UNCHANGED <<objects, contents, thread, segment, mutex, stop, posting, threads, last>>

\* The thread has to be started before it can be woken up.
WakeUp(p) ==
  /\ phase[p] = "stop" /\ thread[p] # "start"
  /\ posted' = [posted EXCEPT ![segment[p]][p] = @ + 1]
  /\ phase' = [phase EXCEPT ![p] = "join"]
  /\ UNCHANGED <<objects, pidSet, value, semaphores, counter, thread, segment, mutex, stop, posting, threads, last>>

RemoveSem(p) ==
  /\ phase[p] = "join" /\ thread[p] = "ended" /\ Locks(p)
  /\ semaphores' = [semaphores EXCEPT ![segment[p]] = @ \ {p}]
  /\ phase' = [phase EXCEPT ![p] = "leave"]
  /\ UNCHANGED <<objects, pidSet, value, posted, counter, thread, segment, mutex, stop, posting, threads, last>>

\* The decision to remove the names is taken under the mutex, the removal not.
Leave(p) ==
  LET others == Existing(segment[p]) \ {p} IN
  /\ phase[p] = "leave" /\ Locks(p)
  /\ Overlap \/ \A q \in Processes : ~Constructing(q)
  /\ pidSet' = [pidSet EXCEPT ![segment[p]] = others]
  /\ phase' = [phase EXCEPT ![p] = IF others = {} THEN "remove segment" ELSE "none"]
  /\ Forget(p)
  /\ thread' = [thread EXCEPT ![p] = "none"]
  /\ last' = "closed"
  /\ UNCHANGED <<objects, value, semaphores, posted, counter, posting>>

RemoveName(p, here, kind, next) ==
  /\ phase[p] = here
  /\ named' = [named EXCEPT ![kind] = 0]
  /\ phase' = [phase EXCEPT ![p] = next]
  /\ UNCHANGED <<maxMember, stale, contents, thread, segment, mutex, stop, posting, threads, last>>

RemoveNames(p) ==
  RemoveName(p, "remove segment", "segment", "remove mutex") \/ RemoveName(p, "remove mutex", "mutex", "none")

\* The process dies, possibly in the middle of a step under the mutex.
Crash(p) ==
  /\ Alive(p) /\ Cardinality({q \in Processes : phase[q] = "dead"}) < MaxCrashes
  /\ phase' = [phase EXCEPT ![p] = "dead"]
  /\ thread' = [thread EXCEPT ![p] = "none"]
  /\ \/ UNCHANGED stale
     \/ mutex[p] # 0 /\ stale' = stale \cup {mutex[p]}
  /\ last' = "crashed"
  /\ Forget(p)
  /\ UNCHANGED <<maxMember, named, contents, posting>>

-----------------------------------------------------------------------------
(* Specification *)

SharedDummyInit ==
  /\ maxMember \in 1 .. MaxMember
  /\ named = [k \in Kinds |-> 0] /\ stale = {}
  /\ pidSet = [s \in Objects |-> {}] /\ semaphores = pidSet
  /\ value = [s \in Objects |-> 0]
  /\ posted = [s \in Objects |-> [p \in Processes |-> 0]]
  /\ counter = [s \in Objects |-> [i \in Interrupts |-> 0]]
  /\ phase = [p \in Processes |-> "none"] /\ thread = phase
  /\ segment = [p \in Processes |-> 0] /\ mutex = segment
  /\ stop = [p \in Processes |-> FALSE]
  /\ posting = [p \in Processes |-> {}]
  /\ known = [p \in Processes |-> [i \in Interrupts |-> 0]]
  /\ copy = known /\ first = known /\ calls = known
  /\ last = "none"

SharedDummyNext ==
  \E p \in Processes :
    \/ OpenSegment(p) \/ OpenMutex(p) \/ Timeout(p) \/ Register(p)
    \/ StartThread(p) \/ WaitForSem(p) \/ Copy(p) \/ Handle(p)
    \/ Write(p) \/ (\E i \in Interrupts : Trigger(p, i)) \/ Post(p)
    \/ Stop(p) \/ WakeUp(p) \/ RemoveSem(p) \/ Leave(p) \/ RemoveNames(p)
    \/ Crash(p)

SharedDummySpec == SharedDummyInit /\ [][SharedDummyNext]_sharedDummyVars

-----------------------------------------------------------------------------
(* Properties *)

Member(p) == Alive(p) /\ segment[p] # 0 /\ p \in pidSet[segment[p]]

\* All backends use the same registers, and the same mutex unless they are
\* blocked for ever by a dead process.
RegistersAreShared ==
  \A p, q \in Processes : Member(p) /\ Member(q) =>
    /\ segment[p] = segment[q]
    /\ Locks(p) /\ Locks(q) => mutex[p] = mutex[q]

\* A thread at rest has handled all interrupts: as often as they were
\* triggered, or at least once if it has seen the number for the first time.
AtRest(p) ==
  /\ thread[p] = "wait" /\ posted[segment[p]][p] = 0
  /\ \A q \in Processes : p \notin posting[q]

InterruptsAreDispatched ==
  \A p \in Processes : AtRest(p) =>
    \A i \in Interrupts :
      LET triggered == counter[segment[p]][i] - first[p][i] IN
      /\ first[p][i] > 0 => calls[p][i] = triggered
      /\ triggered > 0 => calls[p][i] > 0

\* InterruptDispatcherThread::run(): "call trigger/dispatch count times"
EachInterruptIsDispatched ==
  \A p \in Processes : AtRest(p) =>
    \A i \in Interrupts : calls[p][i] = counter[segment[p]][i] - first[p][i]

\* There is a semaphore for each thread: addSem() finds a free entry, and none
\* of its own.
SemaphoresAreFree ==
  \A p \in Processes : Alive(p) /\ thread[p] = "start" =>
    p \notin semaphores[segment[p]] /\ Cardinality(semaphores[segment[p]]) < maxMember

\* checkPidSetConsistency(): if the last process exits gracefully nothing is
\* left behind.
NothingIsLeft ==
  (last = "closed" /\ \A p \in Processes : ~Alive(p)) => named = [k \in Kinds |-> 0]

\* The registers are reset only by a process which is alone.
KeepsRegisters ==
  \A s \in Objects : value[s] = 1 /\ value'[s] = 0 =>
    \A p \in Processes : Alive(p) => p \notin pidSet[s]
RegistersAreKept == [][KeepsRegisters]_sharedDummyVars

\* A destructor does not wait for ever for a thread which sleeps.
StoppedThreadsWakeUp ==
  \A p \in Processes : phase[p] = "join" /\ thread[p] = "wait" => posted[segment[p]][p] > 0
=============================================================================

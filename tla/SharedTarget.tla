---------------------------- MODULE SharedTarget ----------------------------
(***************************************************************************)
(* Accessors which write a part of a register through a target accessor    *)
(* for the whole: the bit accessor and the bitRange plugin of the logical  *)
(* name mapping, and the SubArrayAccessorDecorator. Those for the same     *)
(* register share a buffer and a recursive mutex, which is held from       *)
(* preWrite() to postWrite(). The bitRange plugin reads the register       *)
(* before each write, the sub-array accessor once after the device was     *)
(* opened, and the bit accessor never.                                     *)
(*                                                                         *)
(* A thread writes one accessor, or several in a TransferGroup.            *)
(***************************************************************************)
EXTENDS Naturals, SequencesExt

CONSTANTS
  Threads, NoThread,
  Group,        \* Group[th]: the accessors which thread th writes
  Target,       \* Target[a]: the register
  Targets,      \* the registers
  Mask,         \* Mask[a]: the elements (bits, or words) of the accessor
  Width,        \* the registers have the elements 1..Width
  Unknown,
  MaxReopen     \* bound: number of recoveries

ASSUME TargetAssumption ==
  /\ Width \in Nat
  /\ \A th \in Threads : Group[th] \in Seq(DOMAIN Target) /\ Group[th] # <<>>
  /\ \A a \in DOMAIN Target : Target[a] \in Targets /\ Mask[a] \subseteq 1 .. Width
  /\ NoThread \notin Threads
  /\ Unknown \notin {0, 1}

\* Each thread writes elements of one register only.
OneTargetPerGroup ==
  \A th \in Threads : \A i, j \in DOMAIN Group[th] : Target[Group[th][i]] = Target[Group[th][j]]

VARIABLES
  accessorKind,         \* "bit", "bitRange" or "subArray": the accessors
  register,     \* register[t][i], in the device
  buffer,       \* buffer[t][i]: the shared buffer
  remembered,   \* registers read since the device was opened (sub-arrays)
  holder, held, \* holder[t], held[t]: owner of the mutex, and how often locked
  targetUseCount,     \* targetUseCount[th], thread_local
  phase, at,    \* where the threads are
  values,       \* values[th]: what is written to each accessor
  broken,       \* threads with an exception in this transfer
  down,         \* the device has an exception
  expected,     \* expected[t][i]: what was written last to the element
  reopened

sharedVars == <<accessorKind, register, buffer, remembered, holder, held, targetUseCount, phase, at, values, broken, down,
                expected, reopened>>

locks == <<holder, held, targetUseCount>>
Elements == 1..Width
Accessor(th) == Group[th][at[th]]
InGroup(th) == Len(Group[th]) > 1
Written(th) == {Target[a] : a \in Range(Group[th])}

\* The next accessor of the group, or the next phase
Proceed(th, again, next) ==
  IF at[th] < Len(Group[th])
  THEN phase' = [phase EXCEPT ![th] = again] /\ at' = [at EXCEPT ![th] = @ + 1]
  ELSE phase' = [phase EXCEPT ![th] = next] /\ at' = [at EXCEPT ![th] = 1]

-----------------------------------------------------------------------------
Begin(th) ==
  /\ phase[th] = "idle" /\ ~down
  /\ \E x \in {0, 1} : values' = [values EXCEPT ![th] = x]
  /\ phase' = [phase EXCEPT ![th] = "lock"]
  /\ UNCHANGED <<accessorKind, register, buffer, remembered, locks, at, broken, down, expected, reopened>>

\* The mutex is locked in doPreWrite().
Lock(th) ==
  LET t == Target[Accessor(th)] IN
  /\ phase[th] = "lock"
  /\ holder[t] \in {NoThread, th}
  /\ holder' = [holder EXCEPT ![t] = th]
  /\ held' = [held EXCEPT ![t] = @ + 1]
  /\ targetUseCount' = [targetUseCount EXCEPT ![th] = @ + 1]
  /\ phase' = [phase EXCEPT ![th] = "fill"]
  /\ UNCHANGED <<accessorKind, register, buffer, remembered, at, values, broken, down, expected, reopened>>

\* Mistake: each accessor of a group reads the register.
ReadsAlways(th, t) ==
  CASE accessorKind = "bitRange" -> TRUE
    [] accessorKind = "subArray" -> t \notin remembered
    [] accessorKind = "bit" -> FALSE

\* Whether doPreWrite() of thread th reads the register
Reads(th, t) ==
  CASE accessorKind = "bitRange" -> ~InGroup(th) \/ targetUseCount[th] = 1
    [] accessorKind = "subArray" -> t \notin remembered
    [] accessorKind = "bit" -> FALSE

\* The elements of the accessor are set in the buffer. If the register cannot
\* be read the exception leaves the buffer as it is.
Fill(th) ==
  LET a == Accessor(th)
      t == Target[a]
      read == IF Reads(th, t) THEN register[t] ELSE buffer[t]
  IN
  /\ phase[th] = "fill"
  /\ \/ /\ Reads(th, t) => ~down
        /\ buffer' = [buffer EXCEPT ![t] = [i \in Elements |-> IF i \in Mask[a] THEN values[th] ELSE read[i]]]
        /\ remembered' = IF Reads(th, t) THEN remembered \cup {t} ELSE remembered
        /\ UNCHANGED <<broken, down>>
     \/ /\ Reads(th, t)
        /\ down' = TRUE /\ broken' = broken \cup {th}
        /\ UNCHANGED <<buffer, remembered>>
  /\ Proceed(th, "lock", IF th \in broken' THEN "unlock" ELSE "transfer")
  /\ UNCHANGED <<accessorKind, locks, values, register, expected, reopened>>

\* The elements of register t which th writes
OwnElements(th, t) == UNION {Mask[a] : a \in {b \in Range(Group[th]) : Target[b] = t}}

\* The transfers of the group, each register once. After an error the contents
\* of the registers are not known.
Transfer(th) ==
  /\ phase[th] = "transfer"
  /\ \/ /\ ~down
        /\ register' = [t \in Targets |-> IF t \in Written(th) THEN buffer[t] ELSE register[t]]
        /\ expected' = [t \in Targets |-> [i \in Elements |->
                          IF i \in OwnElements(th, t) THEN values[th] ELSE expected[t][i]]]
        /\ UNCHANGED <<broken, down>>
     \/ /\ down' = TRUE /\ broken' = broken \cup {th}
        /\ expected' = [t \in Targets |-> [i \in Elements |->
                          IF i \in OwnElements(th, t) THEN Unknown ELSE expected[t][i]]]
        /\ UNCHANGED register
  /\ phase' = [phase EXCEPT ![th] = "unlock"]
  /\ UNCHANGED <<accessorKind, buffer, remembered, locks, at, values, reopened>>

\* Mistake: after an exception the mutex stays locked.
UnlockIfOk(th) ==
  LET t == Target[Accessor(th)] IN
  /\ phase[th] = "unlock"
  /\ IF th \in broken THEN UNCHANGED locks
     ELSE /\ held' = [held EXCEPT ![t] = @ - 1]
          /\ holder' = IF held'[t] = 0 THEN [holder EXCEPT ![t] = NoThread] ELSE holder
          /\ targetUseCount' = [targetUseCount EXCEPT ![th] = @ - 1]
  /\ Proceed(th, "unlock", "idle")
  /\ broken' = IF phase'[th] = "idle" THEN broken \ {th} ELSE broken
  /\ UNCHANGED <<accessorKind, register, buffer, remembered, values, down, expected, reopened>>

\* doPostWrite()
Unlock(th) ==
  LET t == Target[Accessor(th)] IN
  /\ phase[th] = "unlock"
  /\ held' = [held EXCEPT ![t] = @ - 1]
  /\ holder' = IF held'[t] = 0 THEN [holder EXCEPT ![t] = NoThread] ELSE holder
  /\ targetUseCount' = [targetUseCount EXCEPT ![th] = @ - 1]
  /\ Proceed(th, "unlock", "idle")
  /\ broken' = IF phase'[th] = "idle" THEN broken \ {th} ELSE broken
  /\ UNCHANGED <<accessorKind, register, buffer, remembered, values, down, expected, reopened>>

\* A read operation, with the mutex
ReadShared(th, t) ==
  /\ phase[th] = "idle" /\ ~down /\ t \in Written(th)
  /\ holder[t] = NoThread
  /\ buffer' = [buffer EXCEPT ![t] = register[t]]
  /\ remembered' = remembered \cup {t}
  /\ UNCHANGED <<accessorKind, register, locks, phase, at, values, broken, down, expected, reopened>>

\* The device is opened again. It may have other contents now.
Reopen ==
  /\ down /\ reopened < MaxReopen
  /\ \A th \in Threads : phase[th] = "idle"
  /\ down' = FALSE /\ reopened' = reopened + 1
  /\ \E x \in {0, 1} : register' = [t \in Targets |-> [i \in Elements |-> x]]
  /\ expected' = [t \in Targets |-> [i \in Elements |-> IF accessorKind = "bit" THEN Unknown ELSE register'[t][i]]]
  /\ remembered' = {}
  /\ UNCHANGED <<accessorKind, buffer, locks, phase, at, values, broken>>

-----------------------------------------------------------------------------
SharedInit ==
  /\ accessorKind \in {"bit", "bitRange", "subArray"}
  /\ \E x \in {0, 1} : register = [t \in Targets |-> [i \in Elements |-> x]]
  /\ buffer = [t \in Targets |-> [i \in Elements |-> 0]]
  /\ remembered = {}
  /\ holder = [t \in Targets |-> NoThread] /\ held = [t \in Targets |-> 0]
  /\ targetUseCount = [th \in Threads |-> 0]
  /\ phase = [th \in Threads |-> "idle"] /\ at = [th \in Threads |-> 1]
  /\ values = [th \in Threads |-> 0]
  /\ broken = {} /\ down = FALSE /\ reopened = 0
  /\ expected = [t \in Targets |-> [i \in Elements |-> IF accessorKind = "bit" THEN Unknown ELSE register[t][i]]]

SharedNext ==
  \/ Reopen
  \/ \E th \in Threads : Begin(th) \/ Lock(th) \/ Fill(th) \/ Transfer(th) \/ Unlock(th)
                           \/ \E t \in Targets : ReadShared(th, t)

SharedSpec == SharedInit /\ [][SharedNext]_sharedVars

-----------------------------------------------------------------------------
(* Properties *)

(***************************************************************************)
(* An element of a register has what was written last to it, or what it    *)
(* had when the device was opened: the accessors for the other elements    *)
(* keep it, in whatever order the threads write, and after errors. (A bit  *)
(* accessor does not know the bits which have not been written before.)    *)
(***************************************************************************)
OthersAreKept ==
  ~down => \A t \in Targets, i \in Elements :
             holder[t] = NoThread /\ expected[t][i] # Unknown => register[t][i] = expected[t][i]

(***************************************************************************)
(* After a transfer the thread has released all mutexes, also if one of    *)
(* the accessors of its group has thrown.                                  *)
(***************************************************************************)
LocksReleased ==
  \A th \in Threads : phase[th] = "idle" =>
    targetUseCount[th] = 0 /\ \A t \in Targets : holder[t] # th

=============================================================================

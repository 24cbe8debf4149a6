------------------------ MODULE DataConsistencyRealm ------------------------
(***************************************************************************)
(* The DataConsistencyRealm maps a 64 bit DataConsistencyKey (for example  *)
(* a macro pulse number read from the hardware) to a VersionNumber, so     *)
(* that data with the same key gets the same version in every register     *)
(* and in every device which uses the realm.                               *)
(*                                                                         *)
(* Versions are natural numbers, VersionNumber{nullptr} is 0, and the      *)
(* process-wide VersionNumber::_lastGeneratedVersionNumber is lastVersion. *)
(* One call of getVersion() is one step, because it runs under _mapMutex.  *)
(***************************************************************************)
EXTENDS Integers, Sequences

CONSTANTS
  MaxSizeEventIdMap,  \* capacity of the circular buffer (2000 in the code)
  KeyRange,           \* number of values of the key type (2^64 in the code)
  Keys,               \* the keys which the devices of the realm send
  MaxVersion          \* bound on the versions the process generates

ASSUME RealmAssumption ==
  /\ MaxSizeEventIdMap \in Nat \ {0}
  /\ KeyRange \in Nat \ {0}
  /\ Keys \subseteq 0 .. (KeyRange - 1)
  /\ MaxVersion \in Nat

NullVersion == 0

(***************************************************************************)
(* The operators below work on a realm value, so that other modules can    *)
(* use a realm as a part of their state.                                   *)
(***************************************************************************)
EmptyRealm == [latestKey |-> 0, history |-> <<>>]

\* The addition of the key type wraps around like a uint64_t.
AddKey(k, n) == (k + n) % KeyRange

Smaller(a, b) == IF a < b THEN a ELSE b

\* The key has an entry: eventId <= _latestKey && eventId + max > _latestKey
InWindow(r, k) ==
  /\ k <= r.latestKey
  /\ AddKey(k, MaxSizeEventIdMap) > r.latestKey

\* The key is older than the oldest entry.
TooOld(r, k) == AddKey(k, MaxSizeEventIdMap) <= r.latestKey

\* Mistake: the buffer is read from the wrong end.
IndexFromFront(r, k) == 1 + (r.latestKey - k)

\* Where the entry of a key is (C++ index plus one).
IndexOf(r, k) == Len(r.history) - (r.latestKey - k)

\* Mistake: the entry which leaves a full buffer is the newest one.
PushKeepOldest(h, n, v) ==
  [i \in 1 .. Smaller(Len(h) + n, MaxSizeEventIdMap) |->
     IF i <= Len(h) THEN h[i] ELSE v + (i - Len(h))]

(***************************************************************************)
(* Push n new versions v+1 .. v+n into the circular buffer. When the       *)
(* buffer is full, each push drops the oldest entry.                       *)
(***************************************************************************)
PushFresh(h, n, v) ==
  LET total == Len(h) + n
      kept  == Smaller(total, MaxSizeEventIdMap)
      entry(i) == IF i <= Len(h) THEN h[i] ELSE v + (i - Len(h))
  IN  [i \in 1 .. kept |-> entry(total - kept + i)]

\* How many versions the call getVersion(k) generates.
NumberOfNewEntries(r, k) ==
  IF k = 0 \/ InWindow(r, k) THEN 0
  ELSE IF Len(r.history) = 0 THEN Smaller(k, MaxSizeEventIdMap)
  ELSE IF TooOld(r, k) THEN 0
  ELSE Smaller(k - r.latestKey, MaxSizeEventIdMap)

\* The realm after the call getVersion(k), with v the last generated version.
RealmAfter(r, k, v) ==
  LET n == NumberOfNewEntries(r, k)
  IN  IF n = 0 THEN r
      ELSE [latestKey |-> k, history |-> PushFresh(r.history, n, v)]

\* Mistake: a key which is too old gets the newest version.
VersionOfTooOld(r, k, v) ==
  IF k = 0 THEN NullVersion
  ELSE IF InWindow(r, k) THEN r.history[IndexOf(r, k)]
  ELSE v + NumberOfNewEntries(r, k)

\* The return value of the call getVersion(k).
VersionOf(r, k, v) ==
  IF k = 0 THEN NullVersion
  ELSE IF InWindow(r, k) THEN r.history[IndexOf(r, k)]
  ELSE IF NumberOfNewEntries(r, k) = 0 THEN NullVersion
  ELSE v + NumberOfNewEntries(r, k)

-----------------------------------------------------------------------------
VARIABLES
  realm,        \* the realm: _latestKey and _versionHistory
  lastVersion,  \* VersionNumber::_lastGeneratedVersionNumber
  given         \* history: the last version handed out for each key

vars == <<realm, lastVersion, given>>

TypeOK ==
  /\ realm \in [latestKey : 0 .. (KeyRange - 1), history : Seq(Nat)]
  /\ lastVersion \in Nat
  /\ given \in [Keys -> Nat]

Init ==
  /\ realm = EmptyRealm
  /\ lastVersion = 0
  /\ given = [k \in Keys |-> NullVersion]

\* A device of the realm asks for the version of the key it has received.
GetVersion(k) ==
  /\ lastVersion + NumberOfNewEntries(realm, k) <= MaxVersion
  /\ realm' = RealmAfter(realm, k, lastVersion)
  /\ lastVersion' = lastVersion + NumberOfNewEntries(realm, k)
  /\ LET v == VersionOf(realm, k, lastVersion)
     IN  given' = IF v = NullVersion THEN given ELSE [given EXCEPT ![k] = v]

\* Any other part of the process generates a version: VersionNumber{}.
NewVersion ==
  /\ lastVersion < MaxVersion
  /\ lastVersion' = lastVersion + 1
  /\ UNCHANGED <<realm, given>>

Next == NewVersion \/ \E k \in Keys : GetVersion(k)

Spec == Init /\ [][Next]_vars

-----------------------------------------------------------------------------
(* Properties *)

(***************************************************************************)
(* Newer data gets a newer version: of two keys which both have been given *)
(* a version the larger key has the larger version, also if the keys came  *)
(* from different devices in any order. DataConsistencyRealm::getVersion() *)
(* fills the gaps between the newest key and an incoming key for this.     *)
(***************************************************************************)
LargerKeyLargerVersion ==
  \A j, k \in Keys :
    /\ given[j] # NullVersion
    /\ given[k] # NullVersion
    /\ j < k
    => given[j] < given[k]

(***************************************************************************)
(* Data with the same key is consistent: once getVersion() has given a     *)
(* version for a key it never gives another version for it, however many   *)
(* keys came in between and dropped entries of the circular buffer.        *)
(***************************************************************************)
SameKeySameVersion ==
  [][\A k \in Keys : given[k] # NullVersion => given'[k] = given[k]]_vars

(***************************************************************************)
(* The inductive invariant behind the two properties. The buffer holds one *)
(* entry for each of the newest keys, strictly increasing.                 *)
(***************************************************************************)
HistoryHasNoGaps ==
  Len(realm.history) = Smaller(realm.latestKey, MaxSizeEventIdMap)

Increasing(h) == \A i, j \in 1 .. Len(h) : i < j => h[i] < h[j]

Generated(h, v) == \A i \in 1 .. Len(h) : 0 < h[i] /\ h[i] <= v

\* A version given for a key is the key's entry, or has left the buffer.
GivenAgrees(k) ==
  /\ 0 < k
  /\ k <= realm.latestKey
  /\ IndexOf(realm, k) > 0 => given[k] = realm.history[IndexOf(realm, k)]
  /\ IndexOf(realm, k) <= 0 => given[k] < realm.history[1]

(***************************************************************************)
(* The state of the realm which getVersion() keeps: what the buffer holds  *)
(* agrees with everything that has been handed out before.                 *)
(***************************************************************************)
RealmInv ==
  /\ TypeOK
  /\ HistoryHasNoGaps
  /\ Increasing(realm.history)
  /\ Generated(realm.history, lastVersion)
  /\ \A k \in Keys : given[k] # NullVersion => GivenAgrees(k)
  /\ LargerKeyLargerVersion

=============================================================================

------------------------- MODULE MCRegisters_proof -------------------------
(***************************************************************************)
(* Proofs about DataConsistencyRealm, LogicalVariables, SharedTarget and   *)
(* FanOut, for all values of their constants which the assumptions of the  *)
(* modules allow, and about their composition in MCRegisters.              *)
(***************************************************************************)
EXTENDS MCRegisters, SequenceTheorems, FiniteSetTheorems, TLAPS

-----------------------------------------------------------------------------
(* DataConsistencyRealm                                                     *)

(***************************************************************************)
(* A wrapped sum is never larger than the sum.                             *)
(***************************************************************************)
LEMMA AddKeyBound ==
  ASSUME NEW k \in Nat, NEW n \in Nat
  PROVE  /\ AddKey(k, n) \in Nat
         /\ AddKey(k, n) <= k + n
BY RealmAssumption DEF AddKey

\* The buffer q has the entries of h, moved to the front, or has only later ones.
MovedBy(shift, h, q) ==
  \A i \in 1 .. Len(h) : /\ i - shift > 0 => q[i - shift] = h[i]
                         /\ i - shift <= 0 => h[i] < q[1]

(***************************************************************************)
(* What the circular buffer holds after n > 0 new versions were pushed.    *)
(***************************************************************************)
LEMMA PushFreshFacts ==
  ASSUME NEW h \in Seq(Nat), NEW n \in Nat \ {0}, NEW v \in Nat,
         Increasing(h), Generated(h, v),
         NEW shift \in Int, shift = (Len(h) + n) - Smaller(Len(h) + n, MaxSizeEventIdMap)
  PROVE  LET p == PushFresh(h, n, v)
             kept == Smaller(Len(h) + n, MaxSizeEventIdMap)
         IN  /\ p \in Seq(Nat)
             /\ Len(p) = kept
             /\ Increasing(p)
             /\ Generated(p, v + n)
             /\ p[kept] = v + n
             /\ MovedBy(shift, h, p)
  <1> DEFINE p == PushFresh(h, n, v)
             total == Len(h) + n
             kept == Smaller(total, MaxSizeEventIdMap)
             e == [i \in 1 .. total |-> IF i <= Len(h) THEN h[i] ELSE v + (i - Len(h))]
  <1>1. kept \in 1 .. total /\ total \in Nat /\ Len(h) \in Nat /\ total = Len(h) + n
    BY RealmAssumption DEF Smaller
  <1>2. \A i \in 1 .. kept : total - kept + i \in 1 .. total
    BY <1>1
  <1>3. p = [i \in 1 .. kept |-> e[total - kept + i]]
    <2>1. p = [i \in 1 .. kept |-> IF total - kept + i <= Len(h) THEN h[total - kept + i]
                                   ELSE v + ((total - kept + i) - Len(h))]
      BY DEF PushFresh
    <2> HIDE DEF kept, p, total
    <2> QED
      BY <1>2, <2>1
  <1>4. \A i \in 1 .. total : /\ e[i] \in Nat /\ 0 < e[i] /\ e[i] <= v + n
                              /\ i <= Len(h) => e[i] = h[i]
    BY <1>1 DEF Generated
  <1>5. \A i, j \in 1 .. total : i < j => e[i] < e[j]
    BY <1>1 DEF Increasing, Generated
  <1>6. e[total] = v + n
    BY <1>1
  <1> HIDE DEF kept, p, total, e
  <1>7. p \in [1 .. kept -> Nat] /\ \A i \in 1 .. kept : p[i] = e[total - kept + i]
    BY <1>2, <1>3, <1>4
  <1>8. p \in Seq(Nat) /\ Len(p) = kept
    <2>1. kept \in Nat
      BY <1>1
    <2>2. p \in Seq(Nat)
      BY <2>1, <1>7, SeqDef
    <2> QED
      BY <2>1, <2>2, <1>7, LenProperties
  <1>9. Increasing(p)
    <2> SUFFICES ASSUME NEW i \in 1 .. kept, NEW j \in 1 .. kept, i < j
                 PROVE  p[i] < p[j]
      BY <1>8 DEF Increasing
    <2>1. total - kept + i < total - kept + j
      BY <1>1
    <2>2. e[total - kept + i] < e[total - kept + j]
      BY <2>1, <1>2, <1>5
    <2> QED
      BY <2>2, <1>7
  <1>10. Generated(p, v + n)
    BY <1>1, <1>2, <1>4, <1>7, <1>8 DEF Generated
  <1>11. p[kept] = v + n
    BY <1>1, <1>6, <1>7
  <1>12. ASSUME NEW i \in 1 .. Len(h)
         PROVE  /\ i - (total - kept) > 0 => p[i - (total - kept)] = h[i]
                /\ i - (total - kept) <= 0 => h[i] < p[1]
    <2>1. i \in 1 .. total /\ e[i] = h[i]
      BY <1>1, <1>4
    <2>2. ASSUME i - (total - kept) > 0
          PROVE  p[i - (total - kept)] = h[i]
      <3>1. i - (total - kept) \in 1 .. kept
        BY <2>1, <2>2, <1>1
      <3>2. p[i - (total - kept)] = e[total - kept + (i - (total - kept))]
        BY <3>1, <1>7
      <3>3. total - kept + (i - (total - kept)) = i
        BY <2>1, <1>1
      <3> QED
        BY <3>2, <3>3, <2>1
    <2>3. ASSUME i - (total - kept) <= 0
          PROVE  h[i] < p[1]
      <3>1. 1 \in 1 .. kept /\ i < total - kept + 1 /\ total - kept + 1 \in 1 .. total
        BY <2>1, <2>3, <1>1
      <3>2. p[1] = e[total - kept + 1]
        BY <3>1, <1>7
      <3> QED
        BY <3>1, <3>2, <2>1, <1>5
    <2> QED
      BY <2>2, <2>3
  <1> QED
    <2>1. MovedBy(shift, h, p)
      <3>1. shift = total - kept
        BY DEF total, kept
      <3> QED
        BY <3>1, <1>12 DEF MovedBy
    <2> QED
      BY <1>8, <1>9, <1>10, <1>11, <2>1 DEF p, kept, total

(***************************************************************************)
(* What the conditions of getVersion() mean for a realm without gaps: an   *)
(* entry is inside the buffer, only keys newer than the newest one make    *)
(* new entries, and they leave no gap.                                     *)
(***************************************************************************)
LEMMA ConditionFacts ==
  ASSUME TypeOK, HistoryHasNoGaps, NEW k \in Keys, k # 0
  PROVE  LET n == NumberOfNewEntries(realm, k)
         IN  /\ k \in Nat
             /\ InWindow(realm, k) => IndexOf(realm, k) \in 1 .. Len(realm.history)
             /\ n \in Nat
             /\ n # 0 => /\ ~InWindow(realm, k)
                         /\ k > realm.latestKey
                         /\ n = Smaller(k - realm.latestKey, MaxSizeEventIdMap)
                         /\ Smaller(Len(realm.history) + n, MaxSizeEventIdMap)
                              = Smaller(k, MaxSizeEventIdMap)
  <1>1. k \in Nat /\ realm.latestKey \in Nat /\ Len(realm.history) \in Nat
    BY RealmAssumption DEF TypeOK
  <1>2. AddKey(k, MaxSizeEventIdMap) \in Nat /\ AddKey(k, MaxSizeEventIdMap) <= k + MaxSizeEventIdMap
    BY <1>1, AddKeyBound, RealmAssumption
  <1>3. InWindow(realm, k) => IndexOf(realm, k) \in 1 .. Len(realm.history)
    BY <1>1, <1>2, RealmAssumption DEF InWindow, IndexOf, HistoryHasNoGaps, Smaller
  <1>4. NumberOfNewEntries(realm, k) \in Nat
    BY <1>1, <1>2, RealmAssumption DEF NumberOfNewEntries, InWindow, TooOld, HistoryHasNoGaps, Smaller
  <1>5. NumberOfNewEntries(realm, k) # 0
          => /\ ~InWindow(realm, k)
             /\ k > realm.latestKey
             /\ NumberOfNewEntries(realm, k) = Smaller(k - realm.latestKey, MaxSizeEventIdMap)
    BY <1>1, <1>2, RealmAssumption DEF NumberOfNewEntries, InWindow, TooOld, HistoryHasNoGaps, Smaller
  <1>6. NumberOfNewEntries(realm, k) # 0
          => Smaller(Len(realm.history) + NumberOfNewEntries(realm, k), MaxSizeEventIdMap)
               = Smaller(k, MaxSizeEventIdMap)
    BY <1>1, <1>4, <1>5, RealmAssumption DEF HistoryHasNoGaps, Smaller
  <1> QED
    BY <1>1, <1>3, <1>4, <1>5, <1>6

(***************************************************************************)
(* Neighbouring keys have neighbouring entries, and no entry is behind the *)
(* one of the newest key.                                                  *)
(***************************************************************************)
LEMMA IndexShift ==
  ASSUME TypeOK, NEW j \in Keys, NEW k \in Keys
  PROVE  /\ IndexOf(realm, j) \in Int
         /\ IndexOf(realm, j) = IndexOf(realm, k) + (j - k)
         /\ j <= realm.latestKey => IndexOf(realm, j) <= Len(realm.history)
  <1> DEFINE len == Len(realm.history)
             latest == realm.latestKey
  <1>1. j \in Int /\ k \in Int /\ latest \in Int /\ len \in Int
    BY RealmAssumption DEF TypeOK
  <1>2. IndexOf(realm, j) = len - (latest - j) /\ IndexOf(realm, k) = len - (latest - k)
    BY DEF IndexOf
  <1> HIDE DEF len, latest
  <1>3. /\ len - (latest - j) \in Int
        /\ len - (latest - j) = len - (latest - k) + (j - k)
        /\ j <= latest => len - (latest - j) <= len
    BY <1>1
  <1> QED
    BY <1>2, <1>3 DEF len, latest

(***************************************************************************)
(* A version which was given is not newer than the generator.              *)
(***************************************************************************)
LEMMA GivenIsGenerated ==
  ASSUME RealmInv, NEW j \in Keys, given[j] # NullVersion
  PROVE  /\ j \in Nat /\ 0 < j /\ j <= realm.latestKey
         /\ Len(realm.history) > 0
         /\ IndexOf(realm, j) <= Len(realm.history)
         /\ given[j] \in Nat /\ given[j] <= lastVersion
  <1>1. /\ j \in Nat /\ 0 < j /\ j <= realm.latestKey /\ realm.latestKey \in Nat
        /\ Len(realm.history) \in Nat /\ given[j] \in Nat /\ lastVersion \in Nat
        /\ realm.history \in Seq(Nat)
    BY RealmAssumption DEF RealmInv, TypeOK, GivenAgrees
  <1>2. Len(realm.history) > 0 /\ IndexOf(realm, j) <= Len(realm.history) /\ IndexOf(realm, j) \in Int
    BY <1>1, RealmAssumption DEF RealmInv, HistoryHasNoGaps, Smaller, IndexOf
  <1>3. given[j] <= lastVersion
    <2>1. CASE IndexOf(realm, j) > 0
      BY <2>1, <1>1, <1>2 DEF RealmInv, Generated, GivenAgrees
    <2>2. CASE IndexOf(realm, j) <= 0
      <3>1. given[j] < realm.history[1] /\ 1 \in 1 .. Len(realm.history)
        BY <2>2, <1>1, <1>2 DEF RealmInv, GivenAgrees
      <3>2. realm.history[1] <= lastVersion /\ realm.history[1] \in Nat
        BY <3>1, <1>1 DEF RealmInv, Generated
      <3> QED
        BY <3>1, <3>2, <1>1
    <2> QED
      BY <2>1, <2>2, <1>2
  <1> QED
    BY <1>1, <1>2, <1>3

(***************************************************************************)
(* A call which finds its entry, or which is answered without one, keeps   *)
(* the realm and hands out the entry of the key or nothing.                *)
(***************************************************************************)
LEMMA LookupPreserves ==
  ASSUME RealmInv, NEW k \in Keys, GetVersion(k), NumberOfNewEntries(realm, k) = 0
  PROVE  /\ RealmInv'
         /\ \A j \in Keys : given[j] # NullVersion => given'[j] = given[j]
  <1> DEFINE v == VersionOf(realm, k, lastVersion)
  <1>1. realm' = realm /\ lastVersion' = lastVersion
    BY DEF GetVersion, RealmAfter, RealmInv, TypeOK
  <1>2. CASE v = NullVersion
    <2>1. given' = given
      BY <1>2 DEF GetVersion
    <2> QED
      BY <1>1, <2>1 DEF RealmInv, TypeOK, HistoryHasNoGaps, GivenAgrees, LargerKeyLargerVersion, IndexOf
  <1>3. CASE v # NullVersion
    <2>1. given' = [given EXCEPT ![k] = v]
      BY <1>3 DEF GetVersion
    <2>2. k # 0 /\ InWindow(realm, k) /\ v = realm.history[IndexOf(realm, k)]
      BY <1>3 DEF VersionOf
    <2> HIDE DEF v
    <2>3. k \in Nat /\ IndexOf(realm, k) \in 1 .. Len(realm.history)
      BY <2>2, ConditionFacts DEF RealmInv
    <2>4. /\ realm.latestKey \in Nat /\ realm.history \in Seq(Nat) /\ Len(realm.history) \in Nat
          /\ lastVersion \in Nat /\ given \in [Keys -> Nat] /\ Keys \subseteq Nat
      BY RealmAssumption DEF RealmInv, TypeOK
    <2>5. v \in Nat
      BY <2>2, <2>3, <2>4
    <2>6. given'[k] = v /\ \A j \in Keys : j # k => given'[j] = given[j]
      BY <2>1, <2>4
    <2>7. TypeOK'
      BY <1>1, <2>1, <2>4, <2>5 DEF RealmInv, TypeOK
    <2>8. k <= realm.latestKey
      BY <2>2 DEF InWindow
    <2>9. \A j \in Keys : given'[j] # NullVersion => GivenAgrees(j)'
      <3> SUFFICES ASSUME NEW j \in Keys, given'[j] # NullVersion
                   PROVE  GivenAgrees(j)'
        OBVIOUS
      <3>1. CASE j = k
        BY <3>1, <1>1, <2>2, <2>3, <2>4, <2>6, <2>8 DEF GivenAgrees, IndexOf
      <3>2. CASE j # k
        BY <3>2, <1>1, <2>6 DEF RealmInv, GivenAgrees, IndexOf
      <3> QED
        BY <3>1, <3>2
    <2>10. \A j \in Keys : /\ given[j] # NullVersion
                            => /\ j < k => given[j] < v
                               /\ j = k => given[j] = v
                               /\ j > k => v < given[j]
      <3> SUFFICES ASSUME NEW j \in Keys, given[j] # NullVersion
                   PROVE  /\ j < k => given[j] < v
                          /\ j = k => given[j] = v
                          /\ j > k => v < given[j]
        OBVIOUS
      <3>1. GivenAgrees(j) /\ j \in Nat /\ given[j] \in Nat
        BY <2>4 DEF RealmInv
      <3>2. IndexOf(realm, j) = IndexOf(realm, k) + (j - k) /\ IndexOf(realm, j) <= Len(realm.history)
        BY <3>1, <2>3, <2>4, IndexShift DEF RealmInv, GivenAgrees
      <3>3. CASE IndexOf(realm, j) > 0
        <4>1. given[j] = realm.history[IndexOf(realm, j)] /\ IndexOf(realm, j) \in 1 .. Len(realm.history)
          BY <3>1, <3>2, <3>3, <2>3, <2>4 DEF GivenAgrees
        <4>2. \A i, m \in 1 .. Len(realm.history) : i < m => realm.history[i] < realm.history[m]
          BY DEF RealmInv, Increasing
        <4>3. /\ j < k => IndexOf(realm, j) < IndexOf(realm, k)
              /\ j = k => IndexOf(realm, j) = IndexOf(realm, k)
              /\ j > k => IndexOf(realm, k) < IndexOf(realm, j)
          <5>1. \A a, b \in Int :
                  a = b + (j - k) => (j < k => a < b) /\ (j = k => a = b) /\ (j > k => b < a)
            BY <3>1, <2>3
          <5>2. IndexOf(realm, j) \in Int /\ IndexOf(realm, k) \in Int
            BY <4>1, <2>3
          <5> QED
            BY <5>1, <5>2, <3>2
        <4> QED
          BY <4>1, <4>2, <4>3, <2>2, <2>3
      <3>4. CASE IndexOf(realm, j) <= 0
        <4>1. given[j] < realm.history[1] /\ j < k
          BY <3>1, <3>2, <3>4, <2>3 DEF GivenAgrees
        <4>2. realm.history[1] <= v /\ realm.history[1] \in Nat
          <5>1. \A i, m \in 1 .. Len(realm.history) : i < m => realm.history[i] < realm.history[m]
            BY DEF RealmInv, Increasing
          <5>2. 1 \in 1 .. Len(realm.history)
            BY <2>3, <2>4
          <5>3. v = realm.history[IndexOf(realm, k)] /\ IndexOf(realm, k) \in 1 .. Len(realm.history)
            BY <2>2, <2>3
          <5>4. realm.history[1] \in Nat
            BY <5>2, <2>4
          <5>5. IndexOf(realm, k) # 1 => realm.history[1] < v
            <6>1. \A n \in Nat : \A m \in 1 .. n : m # 1 => 1 < m
              OBVIOUS
            <6>2. IndexOf(realm, k) # 1 => 1 < IndexOf(realm, k)
              BY <6>1, <5>3, <2>4
            <6> QED
              BY <6>2, <5>1, <5>2, <5>3, Zenon
          <5>6. IndexOf(realm, k) = 1 => realm.history[1] = v
            BY <5>3
          <5> QED
            BY <5>4, <5>5, <5>6, <2>5
        <4>3. \A a, b, c \in Nat : a < b /\ b <= c => a < c
          OBVIOUS
        <4>4. ~(j = k) /\ ~(j > k)
          BY <4>1, <3>1, <2>3
        <4> QED
          BY <4>1, <4>2, <4>3, <4>4, <3>1, <2>5
      <3> QED
        BY <3>2, <3>3, <3>4, <3>1, <2>3
    <2>11. LargerKeyLargerVersion'
      <3> SUFFICES ASSUME NEW i \in Keys, NEW j \in Keys, given'[i] # NullVersion, given'[j] # NullVersion, i < j
                   PROVE  given'[i] < given'[j]
        BY DEF LargerKeyLargerVersion
      <3>1. i \in Nat /\ j \in Nat /\ k \in Nat
        BY <2>3, <2>4
      <3>2. CASE i = k
        <4>1. j # k /\ j > k
          BY <3>1, <3>2
        <4> QED
          BY <3>2, <4>1, <2>6, <2>10
      <3>3. CASE j = k
        <4>1. i # k /\ i < k
          BY <3>1, <3>3
        <4> QED
          BY <3>3, <4>1, <2>6, <2>10
      <3>4. CASE i # k /\ j # k
        BY <3>4, <2>6 DEF RealmInv, LargerKeyLargerVersion
      <3> QED
        BY <3>2, <3>3, <3>4
    <2>12. \A j \in Keys : given[j] # NullVersion => given'[j] = given[j]
      BY <2>6, <2>10
    <2> QED
      BY <1>1, <2>7, <2>9, <2>11, <2>12 DEF RealmInv, HistoryHasNoGaps
  <1> QED
    BY <1>2, <1>3

(***************************************************************************)
(* A call with a key newer than the newest one pushes new versions, moves  *)
(* the entries of the older keys or drops them, and disturbs nothing that  *)
(* has been handed out.                                                    *)
(***************************************************************************)
LEMMA InsertPreserves ==
  ASSUME RealmInv, NEW k \in Keys, GetVersion(k), NumberOfNewEntries(realm, k) # 0
  PROVE  /\ RealmInv'
         /\ \A j \in Keys : given[j] # NullVersion => given'[j] = given[j]
  <1> DEFINE n == NumberOfNewEntries(realm, k)
             h == realm.history
             p == PushFresh(h, n, lastVersion)
             kept == Smaller(Len(h) + n, MaxSizeEventIdMap)
             shift == (Len(h) + n) - kept
  <1>1. /\ realm.latestKey \in Nat /\ h \in Seq(Nat) /\ Len(h) \in Nat
        /\ lastVersion \in Nat /\ given \in [Keys -> Nat] /\ Keys \subseteq Nat
        /\ k \in 0 .. (KeyRange - 1) /\ TypeOK
    BY RealmAssumption DEF RealmInv, TypeOK
  <1>2. k # 0
    BY DEF NumberOfNewEntries
  <1>3. /\ n \in Nat \ {0} /\ k > realm.latestKey /\ ~InWindow(realm, k)
        /\ n = Smaller(k - realm.latestKey, MaxSizeEventIdMap)
        /\ kept = Smaller(k, MaxSizeEventIdMap)
    BY <1>2, ConditionFacts DEF RealmInv
  <1>4. realm' = [latestKey |-> k, history |-> p] /\ lastVersion' = lastVersion + n
    BY DEF GetVersion, RealmAfter
  <1>5. given' = [given EXCEPT ![k] = lastVersion + n]
    BY <1>1, <1>2, <1>3 DEF GetVersion, VersionOf, NullVersion
  <1> HIDE DEF n
  <1>6. /\ p \in Seq(Nat) /\ Len(p) = kept /\ Increasing(p) /\ Generated(p, lastVersion + n)
        /\ p[kept] = lastVersion + n
        /\ \A i \in 1 .. Len(h) : /\ i - shift > 0 => p[i - shift] = h[i]
                                  /\ i - shift <= 0 => h[i] < p[1]
    <2>1. Increasing(h) /\ Generated(h, lastVersion)
      BY DEF RealmInv
    <2>2. n \in Nat \ {0} /\ h \in Seq(Nat) /\ lastVersion \in Nat
      BY <1>1, <1>3
    <2> HIDE DEF h
    <2>3. shift = (Len(h) + n) - Smaller(Len(h) + n, MaxSizeEventIdMap)
      OBVIOUS
    <2>4. p = PushFresh(h, n, lastVersion) /\ kept = Smaller(Len(h) + n, MaxSizeEventIdMap)
      OBVIOUS
    <2>7. shift \in Int
      <3>1. kept \in Int /\ Len(h) \in Int
        BY <2>2, RealmAssumption DEF Smaller
      <3> HIDE DEF kept
      <3> QED
        BY <3>1, <2>2
    <2> HIDE DEF shift, p, kept
    <2>5. /\ p \in Seq(Nat) /\ Len(p) = kept /\ Increasing(p) /\ Generated(p, lastVersion + n)
          /\ p[kept] = lastVersion + n
      BY <2>1, <2>2, <2>3, <2>4, <2>7, PushFreshFacts
    <2>6. MovedBy(shift, h, p)
      BY <2>1, <2>2, <2>3, <2>4, <2>7, PushFreshFacts
    <2> QED
      BY <2>5, <2>6 DEF MovedBy
  <1> HIDE DEF p
  <1>7. given'[k] = lastVersion + n /\ \A j \in Keys : j # k => given'[j] = given[j]
    BY <1>1, <1>5
  <1>8. \A j \in Keys : given[j] # NullVersion => j # k
    BY <1>1, <1>3, GivenIsGenerated
  <1>9. TypeOK'
    <2>1. lastVersion' \in Nat
      BY <1>1, <1>3, <1>4
    <2>2. realm' \in [latestKey : 0 .. (KeyRange - 1), history : Seq(Nat)]
      BY <1>1, <1>4, <1>6
    <2>3. lastVersion + n \in Nat
      BY <1>1, <1>3
    <2>4. given' \in [Keys -> Nat]
      BY <1>1, <1>5, <2>3
    <2> QED
      BY <2>1, <2>2, <2>4 DEF TypeOK
  <1>10. HistoryHasNoGaps'
    BY <1>3, <1>4, <1>6 DEF HistoryHasNoGaps
  <1>11. Increasing(realm.history)' /\ Generated(realm.history, lastVersion)'
    BY <1>4, <1>6
  <1>12. ASSUME NEW j \in Keys, given'[j] # NullVersion
         PROVE  GivenAgrees(j)'
    <2>1. kept \in Nat /\ kept > 0 /\ shift \in Nat
      <3> HIDE DEF h
      <3>1. Len(h) \in Nat /\ n \in Nat \ {0} /\ MaxSizeEventIdMap \in Nat \ {0}
        BY <1>1, <1>3, RealmAssumption
      <3> QED
        BY <3>1 DEF Smaller
    <2>2. IndexOf(realm, j)' = kept - (k - j)
      BY <1>4, <1>6 DEF IndexOf
    <2>3. CASE j = k
      <3>1. IndexOf(realm, j)' = kept /\ realm.history'[kept] = given'[j] /\ realm'.latestKey = k
        BY <2>1, <2>2, <2>3, <1>1, <1>4, <1>6, <1>7
      <3> QED
        BY <3>1, <2>1, <2>3, <1>1, <1>2 DEF GivenAgrees
    <2>4. CASE j # k
      <3>1. given'[j] = given[j] /\ given[j] # NullVersion
        BY <2>4, <1>7, <1>12
      <3>2. GivenAgrees(j)
        BY <3>1 DEF RealmInv
      <3>3. /\ j \in Nat /\ 0 < j /\ j <= realm.latestKey /\ given[j] \in Nat
            /\ Len(h) > 0 /\ IndexOf(realm, j) <= Len(h)
        BY <3>1, GivenIsGenerated
      <3>4. IndexOf(realm, j) = Len(h) - (realm.latestKey - j) /\ IndexOf(realm, j) \in Int
        BY <3>3, IndexShift, <1>1 DEF IndexOf
      <3> DEFINE old == IndexOf(realm, j)
                 new == kept - (k - j)
      <3>5. /\ new \in Int /\ new <= old - shift
            /\ old - shift > 0 => new = old - shift
        <4>1. Len(h) = Smaller(realm.latestKey, MaxSizeEventIdMap)
          BY DEF RealmInv, HistoryHasNoGaps
        <4>2. /\ realm.latestKey \in Nat /\ j \in Nat /\ k \in Nat /\ Len(h) \in Nat /\ n \in Nat
              /\ j <= realm.latestKey /\ realm.latestKey < k
              /\ MaxSizeEventIdMap \in Nat \ {0}
              /\ n = Smaller(k - realm.latestKey, MaxSizeEventIdMap)
          BY <3>3, <1>1, <1>3, RealmAssumption
        <4> HIDE DEF h
        <4>3. /\ kept = Smaller(Len(h) + n, MaxSizeEventIdMap)
              /\ shift = (Len(h) + n) - kept
              /\ old = Len(h) - (realm.latestKey - j)
              /\ new = kept - (k - j)
          BY <3>4
        <4>4. kept \in Int /\ shift \in Int /\ old \in Int /\ new \in Int
          BY <3>4, <2>1, <4>2
        <4> HIDE DEF kept, shift, old, new
        <4> QED
          <5>1. \A len, latest \in Nat :
                  /\ j <= latest /\ latest < k
                  /\ len = Smaller(latest, MaxSizeEventIdMap)
                  /\ n = Smaller(k - latest, MaxSizeEventIdMap)
                  /\ kept = Smaller(len + n, MaxSizeEventIdMap)
                  /\ shift = (len + n) - kept
                  /\ old = len - (latest - j)
                  /\ new = kept - (k - j)
                  => /\ new \in Int
                     /\ new <= old - shift
                     /\ old - shift > 0 => new = old - shift
            <6> SUFFICES ASSUME NEW len \in Nat, NEW latest \in Nat, j <= latest, latest < k,
                                len = Smaller(latest, MaxSizeEventIdMap),
                                n = Smaller(k - latest, MaxSizeEventIdMap),
                                kept = Smaller(len + n, MaxSizeEventIdMap),
                                shift = (len + n) - kept, old = len - (latest - j), new = kept - (k - j)
                         PROVE  /\ new \in Int
                                /\ new <= old - shift
                                /\ old - shift > 0 => new = old - shift
              OBVIOUS
            <6>1. CASE latest < MaxSizeEventIdMap
              <7>1. len = latest /\ old = j
                BY <6>1, <4>2 DEF Smaller
              <7> QED
                BY <6>1, <7>1, <4>2, <4>4 DEF Smaller
            <6>2. CASE ~(latest < MaxSizeEventIdMap)
              <7>1. len = MaxSizeEventIdMap /\ kept = MaxSizeEventIdMap /\ shift = n
                BY <6>2, <4>2 DEF Smaller
              <7> QED
                BY <6>2, <7>1, <4>2, <4>4 DEF Smaller
            <6> QED
              BY <6>1, <6>2
          <5> QED
            BY <5>1, <4>1, <4>2, <4>3
      <3>6. CASE old - shift > 0
        <4>1. old \in 1 .. Len(h) /\ new = old - shift /\ new > 0
          BY <3>3, <3>4, <3>5, <3>6, <2>1
        <4>2. given[j] = h[old] /\ p[new] = h[old]
          BY <4>1, <3>2, <3>6, <1>6 DEF GivenAgrees
        <4> HIDE DEF old, new
        <4> QED
          <5>1. IndexOf(realm, j)' = new /\ realm'.history = p /\ realm'.latestKey = k
            BY <2>2, <1>4 DEF new
          <5>2. j <= k /\ ~(new <= 0)
            BY <4>1, <3>3, <3>5, <1>1, <1>3
          <5> QED
            BY <5>1, <5>2, <4>1, <4>2, <3>1, <3>3 DEF GivenAgrees
      <3>7. CASE old - shift <= 0
        <4>1. new <= 0
          BY <3>4, <3>5, <3>7, <2>1
        <4>2. given[j] < p[1]
          <5>1. CASE old > 0
            BY <5>1, <3>2, <3>3, <3>4, <3>7, <1>6 DEF GivenAgrees
          <5>2. CASE old <= 0
            <6>1. given[j] < h[1] /\ 1 \in 1 .. Len(h) /\ h[1] \in Nat
              BY <5>2, <3>2, <3>3, <1>1 DEF GivenAgrees
            <6>2. 1 - shift > 0 => 1 - shift = 1
              BY <2>1
            <6>3. 1 \in 1 .. Len(p) /\ p[1] \in Nat
              BY <2>1, <1>6
            <6>4. h[1] <= p[1]
              BY <6>1, <6>2, <6>3, <2>1, <1>6
            <6> QED
              BY <6>1, <6>3, <6>4, <3>3
          <5> QED
            BY <5>1, <5>2, <3>4
        <4> HIDE DEF old, new
        <4> QED
          BY <4>1, <4>2, <3>1, <3>3, <3>5, <2>2, <1>1, <1>3, <1>4 DEF GivenAgrees, new
      <3> QED
        BY <3>4, <3>6, <3>7, <2>1
    <2> QED
      BY <2>3, <2>4
  <1>13. LargerKeyLargerVersion'
    <2>1. \A j \in Keys : given[j] # NullVersion => j < k /\ given[j] < lastVersion + n /\ given[j] \in Nat
      BY <1>1, <1>3, GivenIsGenerated
    <2> SUFFICES ASSUME NEW i \in Keys, NEW j \in Keys, i < j,
                        given'[i] # NullVersion, given'[j] # NullVersion
                 PROVE  given'[i] < given'[j]
      BY DEF LargerKeyLargerVersion
    <2>2. i # k
      BY <2>1, <1>7, <1>1
    <2>3. CASE j = k
      BY <2>1, <2>2, <2>3, <1>7
    <2>4. CASE j # k
      BY <2>2, <2>4, <1>7 DEF RealmInv, LargerKeyLargerVersion
    <2> QED
      BY <2>3, <2>4
  <1> QED
    BY <1>7, <1>8, <1>9, <1>10, <1>11, <1>12, <1>13 DEF RealmInv

(***************************************************************************)
(* Every step of the realm keeps its invariant and what has been given.    *)
(***************************************************************************)
LEMMA StepPreserves ==
  ASSUME RealmInv, [Next]_vars
  PROVE  /\ RealmInv'
         /\ \A j \in Keys : given[j] # NullVersion => given'[j] = given[j]
  <1>1. ASSUME NEW k \in Keys, GetVersion(k)
        PROVE  /\ RealmInv'
               /\ \A j \in Keys : given[j] # NullVersion => given'[j] = given[j]
    BY <1>1, LookupPreserves, InsertPreserves
  <1>2. CASE NewVersion
    <2>1. realm' = realm /\ given' = given /\ lastVersion' = lastVersion + 1
      BY <1>2 DEF NewVersion
    <2>2. lastVersion \in Nat /\ realm.history \in Seq(Nat)
      BY DEF RealmInv, TypeOK
    <2>3. Generated(realm.history, lastVersion)'
      BY <2>1, <2>2 DEF RealmInv, Generated
    <2> QED
      BY <2>1, <2>2, <2>3 DEF RealmInv, TypeOK, HistoryHasNoGaps, GivenAgrees,
         LargerKeyLargerVersion, IndexOf
  <1>3. CASE UNCHANGED vars
    BY <1>3 DEF vars, RealmInv, TypeOK, HistoryHasNoGaps, GivenAgrees,
       LargerKeyLargerVersion, IndexOf
  <1> QED
    BY <1>1, <1>2, <1>3 DEF Next

(***************************************************************************)
(* The empty realm of a starting process satisfies the invariant.          *)
(***************************************************************************)
LEMMA InitEstablishes == Init => RealmInv
  <1> SUFFICES ASSUME Init PROVE RealmInv
    OBVIOUS
  <1>1. realm.history = <<>> /\ realm.latestKey = 0 /\ Len(realm.history) = 0
    BY DEF Init, EmptyRealm
  <1>2. \A k \in Keys : given[k] = NullVersion
    BY DEF Init
  <1>3. TypeOK
    BY RealmAssumption DEF Init, TypeOK, EmptyRealm, NullVersion
  <1>4. HistoryHasNoGaps
    BY <1>1, RealmAssumption DEF HistoryHasNoGaps, Smaller
  <1>5. Increasing(realm.history) /\ Generated(realm.history, lastVersion)
    BY <1>1 DEF Increasing, Generated
  <1> QED
    BY <1>2, <1>3, <1>4, <1>5 DEF RealmInv, LargerKeyLargerVersion

(***************************************************************************)
(* getVersion() keeps the buffer gap-free, strictly increasing and in      *)
(* agreement with everything handed out, for every buffer size, key range  *)
(* and set of keys, wrap-around of the key type included.                  *)
(***************************************************************************)
THEOREM RealmInvariant == Spec => []RealmInv
  <1>1. Init => RealmInv
    BY InitEstablishes
  <1>2. RealmInv /\ [Next]_vars => RealmInv'
    BY StepPreserves
  <1> QED
    BY <1>1, <1>2, PTL DEF Spec

(***************************************************************************)
(* Of two keys with a version the larger key has the larger version,       *)
(* whatever the order in which the devices asked getVersion() for them.    *)
(***************************************************************************)
THEOREM KeysInOrder == Spec => []LargerKeyLargerVersion
  <1>1. RealmInv => LargerKeyLargerVersion
    BY DEF RealmInv
  <1> QED
    BY <1>1, RealmInvariant, PTL

(***************************************************************************)
(* getVersion() never gives a second version for a key.                    *)
(***************************************************************************)
THEOREM KeysConsistent == Spec => SameKeySameVersion
  <1>1. RealmInv /\ [Next]_vars
          => [\A k \in Keys : given[k] # NullVersion => given'[k] = given[k]]_vars
    BY StepPreserves
  <1> QED
    BY <1>1, RealmInvariant, PTL DEF Spec, SameKeySameVersion

-----------------------------------------------------------------------------
(* LogicalVariables                                                         *)

\* The queues, and what is in them
VariableTypeOK ==
  /\ opened \in BOOLEAN /\ activeException \in BOOLEAN /\ asyncReadActive \in BOOLEAN /\ crossed \in BOOLEAN
  /\ versionOnOpen \in Nat /\ latestValue \in Nat /\ latestVersion \in Nat /\ clock \in Nat
  /\ subscriptions \in [Subscribers -> Seq(Messages) \cup {Nothing}]
  /\ received \in [Subscribers -> Messages \cup {Nothing}]
  /\ writing \in [Writers -> Nat \cup {Nothing}]
  /\ operation \in {"idle", "activate", "exception"}
  /\ todo \subseteq Subscribed

\* The controlling thread: nothing is left to do when it is idle, nobody writes
\* while it activates, and what it has copied is still the value.
ControlInv ==
  /\ operation = "idle" => todo = {}
  /\ operation = "activate" =>
       /\ asyncReadActive /\ \A w \in Writers : writing[w] = Nothing
       /\ copied = Nothing \/ copied = Entry(latestValue, latestVersion)

\* The subscriptions which the controlling thread has seen end with the value,
\* unless it is sending exceptions.
CurrentInv ==
  asyncReadActive /\ operation # "exception" =>
    \A s \in Subscribed \ todo : Newest(s) = Entry(latestValue, latestVersion)

FreshInv == asyncReadActive /\ ~crossed => latestVersion >= versionOnOpen

VariableInv == VariableTypeOK /\ ControlInv /\ CurrentInv /\ FreshInv

(***************************************************************************)
(* What is pushed is the last entry of the queue, also of a full one.      *)
(***************************************************************************)
LEMMA PushedIsLast ==
  ASSUME NEW q \in Seq(Messages), NEW x \in Messages
  PROVE  /\ PushOverwrite(q, x) \in Seq(Messages)
         /\ PushOverwrite(q, x) # <<>>
         /\ Last(PushOverwrite(q, x)) = x
<1>1. ASSUME NEW r \in Seq(Messages)
      PROVE  Append(r, x) \in Seq(Messages) /\ Append(r, x) # <<>> /\ Last(Append(r, x)) = x
  BY AppendProperties DEF Last
<1>2. CASE Len(q) < QueueLength
  BY <1>1, <1>2 DEF PushOverwrite
<1>3. CASE ~(Len(q) < QueueLength)
  <2>1. Len(q) - 1 \in Nat /\ Len(q) - 1 <= Len(q) /\ Len(q) \in Nat
    BY <1>3, VariableAssumption, LenProperties
  <2>2. Front(q) \in Seq(Messages)
    BY <2>1, SubSeqProperties DEF Front
  <2> QED BY <1>1, <1>3, <2>2 DEF PushOverwrite
<1> QED BY <1>2, <1>3

(***************************************************************************)
(* A queue is not Nothing, an entry neither Nothing nor the exception.     *)
(***************************************************************************)
LEMMA NothingIsOther ==
  ASSUME NEW v \in Nat, NEW w \in Nat
  PROVE  /\ Entry(v, w) \in Messages /\ Entry(v, w) # Nothing /\ Entry(v, w) # Exception
         /\ Entry(v, w).value = v /\ Entry(v, w).version = w
         /\ \A q \in Seq(Messages) : q # Nothing
         /\ \A n \in Nat : n # Nothing
BY VariableAssumption DEF Entry, Messages

(***************************************************************************)
(* Every step of the backend and of the accessors keeps the invariant.     *)
(***************************************************************************)
LEMMA VariableStep ==
  ASSUME VariableInv, ~WriteWhileActivating, [VariableNext]_variableVars
  PROVE  VariableInv'
<1> USE DEF VariableInv, backend, table, control
<1>1. CASE Open
  <2>1. /\ opened' = TRUE /\ activeException' = FALSE /\ asyncReadActive' = FALSE /\ crossed' = FALSE
        /\ clock' = clock + 1 /\ versionOnOpen' = clock + 1 /\ operation = "idle"
        /\ UNCHANGED <<latestValue, latestVersion, subscriptions, received, writing, operation, todo, copied>>
    BY <1>1 DEF Open
  <2>2. clock + 1 \in Nat
    BY DEF VariableTypeOK
  <2>3. VariableTypeOK'
    BY <2>1, <2>2 DEF VariableTypeOK, Subscribed
  <2> QED BY <2>1, <2>3 DEF ControlInv, CurrentInv, FreshInv
<1>2. CASE Close
  BY <1>2 DEF Close, VariableTypeOK, ControlInv, CurrentInv, FreshInv, Subscribed
<1>3. CASE Activate
  <2>1. VariableTypeOK'
    BY <1>3 DEF Activate, VariableTypeOK, Subscribed
  <2>2. ControlInv'
    BY <1>3 DEF Activate, ControlInv
  <2>3. CurrentInv'
    BY <1>3 DEF Activate, CurrentInv, Subscribed
  <2>4. FreshInv'
    BY <1>3 DEF Activate, FreshInv, VariableTypeOK
  <2> QED BY <2>1, <2>2, <2>3, <2>4
<1>4. CASE CopyInitial
  <2>1. UNCHANGED <<opened, activeException, asyncReadActive, versionOnOpen, latestValue, latestVersion,
                    subscriptions, received, writing, operation, todo, crossed, clock>>
    BY <1>4 DEF CopyInitial
  <2>2. copied' = Entry(latestValue, latestVersion) /\ operation = "activate"
    BY <1>4 DEF CopyInitial
  <2> QED
    BY <2>1, <2>2 DEF VariableTypeOK, ControlInv, CurrentInv, FreshInv, Subscribed, Newest, Entry
<1>5. ASSUME NEW s \in Subscribers, PushInitial(s)
      PROVE  VariableInv'
  <2>1. /\ subscriptions[s] \in Seq(Messages) /\ copied = Entry(latestValue, latestVersion)
        /\ Entry(latestValue, latestVersion) \in Messages
    BY <1>5, NothingIsOther DEF PushInitial, VariableTypeOK, ControlInv, Subscribed
  <2>2. /\ PushOverwrite(subscriptions[s], copied) \in Seq(Messages)
        /\ PushOverwrite(subscriptions[s], copied) # <<>>
        /\ Last(PushOverwrite(subscriptions[s], copied)) = copied
    BY <2>1, PushedIsLast
  <2>3. /\ subscriptions' = [subscriptions EXCEPT ![s] = PushOverwrite(subscriptions[s], copied)]
        /\ todo' = todo \ {s} /\ copied' = Nothing /\ operation = "activate"
        /\ UNCHANGED <<opened, activeException, asyncReadActive, versionOnOpen, latestValue, latestVersion,
                       received, writing, operation, crossed, clock>>
    BY <1>5 DEF PushInitial
  <2>4. Subscribed' = Subscribed
    BY <2>1, <2>2, <2>3, NothingIsOther DEF Subscribed, VariableTypeOK
  <2>5. VariableTypeOK'
    BY <2>2, <2>3, <2>4 DEF VariableTypeOK
  <2>6. ControlInv'
    BY <2>3 DEF ControlInv
  <2>7. ASSUME NEW q \in Subscribed', q \notin todo' PROVE Newest(q)' = Entry(latestValue, latestVersion)
    <3>1. CASE q = s
      BY <3>1, <2>1, <2>2, <2>3 DEF Newest, VariableTypeOK
    <3>2. CASE q # s
      <4>1. Newest(q)' = Newest(q)
        BY <3>2, <2>3, <2>4 DEF Newest, VariableTypeOK, Subscribed
      <4> QED BY <4>1, <3>2, <2>3, <2>4, <2>7 DEF CurrentInv, ControlInv
    <3> QED BY <3>1, <3>2
  <2>8. CurrentInv'
    BY <2>3, <2>7 DEF CurrentInv, Entry
  <2>9. FreshInv'
    BY <2>3 DEF FreshInv
  <2> QED BY <2>5, <2>6, <2>8, <2>9
<1>6. CASE SetException
  BY <1>6 DEF SetException, VariableTypeOK, ControlInv, CurrentInv, FreshInv, Subscribed
<1>7. ASSUME NEW s \in Subscribers, PushException(s)
      PROVE  VariableInv'
  <2>1. subscriptions[s] \in Seq(Messages) /\ Exception \in Messages
    BY <1>7 DEF PushException, VariableTypeOK, Subscribed, Messages
  <2>2. PushOverwrite(subscriptions[s], Exception) \in Seq(Messages)
    BY <2>1, PushedIsLast
  <2>3. /\ subscriptions' = [subscriptions EXCEPT ![s] = PushOverwrite(subscriptions[s], Exception)]
        /\ todo' = todo \ {s} /\ operation = "exception"
        /\ UNCHANGED <<opened, activeException, asyncReadActive, versionOnOpen, latestValue, latestVersion,
                       received, writing, operation, copied, crossed, clock>>
    BY <1>7 DEF PushException
  <2>4. Subscribed' = Subscribed
    BY <2>1, <2>2, <2>3, NothingIsOther DEF Subscribed, VariableTypeOK
  <2>5. VariableTypeOK'
    BY <2>2, <2>3, <2>4 DEF VariableTypeOK
  <2> QED BY <2>3, <2>5 DEF ControlInv, CurrentInv, FreshInv
<1>8. CASE Finish
  <2>1. /\ operation' = "idle" /\ todo = {} /\ asyncReadActive' = (asyncReadActive /\ operation # "exception")
        /\ UNCHANGED <<opened, activeException, versionOnOpen, latestValue, latestVersion, subscriptions,
                       received, writing, todo, copied, crossed, clock>>
    BY <1>8 DEF Finish
  <2>2. VariableTypeOK'
    BY <2>1 DEF VariableTypeOK, Subscribed
  <2>3. ControlInv' /\ FreshInv'
    BY <2>1 DEF ControlInv, FreshInv
  <2>4. CurrentInv'
    BY <2>1 DEF CurrentInv, Subscribed, Newest, Entry
  <2> QED BY <2>2, <2>3, <2>4
<1>9. ASSUME NEW s \in Subscribers, Subscribe(s)
      PROVE  VariableInv'
  <2>1. LET q == IF asyncReadActive THEN <<Entry(latestValue, latestVersion)>> ELSE <<>>
        IN  subscriptions' = [subscriptions EXCEPT ![s] = q] /\ q \in Seq(Messages) /\ q # Nothing
    <3>1. <<Entry(latestValue, latestVersion)>> \in Seq(Messages) /\ <<>> \in Seq(Messages)
      BY NothingIsOther DEF VariableTypeOK
    <3> QED BY <3>1, <1>9, NothingIsOther DEF Subscribe
  <2>2. /\ received' = [received EXCEPT ![s] = Nothing] /\ operation = "idle" /\ todo = {}
        /\ UNCHANGED <<opened, activeException, asyncReadActive, versionOnOpen, latestValue, latestVersion,
                       writing, operation, todo, copied, crossed, clock>>
    BY <1>9 DEF Subscribe, ControlInv
  <2>3. VariableTypeOK'
    BY <2>1, <2>2 DEF VariableTypeOK
  <2>4. ControlInv' /\ FreshInv'
    BY <2>2 DEF ControlInv, FreshInv
  <2>5. ASSUME asyncReadActive, NEW q \in Subscribed' PROVE Newest(q)' = Entry(latestValue, latestVersion)
    <3>1. CASE q = s
      <4>1. subscriptions'[q] = <<Entry(latestValue, latestVersion)>>
        BY <3>1, <2>1, <2>5 DEF VariableTypeOK
      <4> QED BY <4>1 DEF Newest, Last
    <3>2. CASE q # s
      <4>1. Newest(q)' = Newest(q) /\ q \in Subscribed
        BY <3>2, <2>1, <2>2 DEF Newest, VariableTypeOK, Subscribed
      <4> QED BY <4>1, <2>2, <2>5 DEF CurrentInv
    <3> QED BY <3>1, <3>2
  <2>6. CurrentInv'
    BY <2>2, <2>5 DEF CurrentInv, Entry
  <2> QED BY <2>3, <2>4, <2>6
<1>10. ASSUME NEW s \in Subscribers, Unsubscribe(s)
       PROVE  VariableInv'
  <2>1. /\ subscriptions' = [subscriptions EXCEPT ![s] = Nothing] /\ operation = "idle" /\ todo = {}
        /\ UNCHANGED <<opened, activeException, asyncReadActive, versionOnOpen, latestValue, latestVersion,
                       received, writing, operation, todo, copied, crossed, clock>>
    BY <1>10 DEF Unsubscribe, ControlInv
  <2>2. VariableTypeOK'
    BY <2>1 DEF VariableTypeOK
  <2>3. ControlInv' /\ FreshInv'
    BY <2>1 DEF ControlInv, FreshInv
  <2>4. CurrentInv'
    BY <2>1 DEF CurrentInv, Subscribed, Newest, Entry, VariableTypeOK
  <2> QED BY <2>2, <2>3, <2>4
<1>11. ASSUME NEW s \in Subscribers, Read(s)
       PROVE  VariableInv'
  <2>1. /\ subscriptions[s] \in Seq(Messages) /\ subscriptions[s] # <<>>
        /\ received' = [received EXCEPT ![s] = Head(subscriptions[s])]
        /\ subscriptions' = [subscriptions EXCEPT ![s] = Tail(subscriptions[s])]
        /\ UNCHANGED <<opened, activeException, asyncReadActive, versionOnOpen, latestValue, latestVersion,
                       writing, operation, todo, copied, crossed, clock>>
    BY <1>11 DEF Read, VariableTypeOK
  <2>2. /\ Head(subscriptions[s]) \in Messages /\ Tail(subscriptions[s]) \in Seq(Messages)
        /\ Tail(subscriptions[s]) # Nothing
    BY <2>1, HeadTailProperties, NothingIsOther
  <2>3. Subscribed' = Subscribed
    BY <2>1, <2>2, NothingIsOther DEF Subscribed, VariableTypeOK
  <2>4. VariableTypeOK'
    BY <2>1, <2>2, <2>3 DEF VariableTypeOK
  <2>5. ControlInv' /\ FreshInv'
    BY <2>1 DEF ControlInv, FreshInv, Entry
  <2>6. ASSUME NEW q \in Subscribed PROVE Newest(q)' = Newest(q)
    <3>1. CASE q = s
      <4>1. CASE Len(subscriptions[s]) = 1
        BY <4>1, <3>1, <2>1 DEF Newest, Last, VariableTypeOK
      <4>2. CASE Len(subscriptions[s]) # 1
        <5> DEFINE t == Tail(subscriptions[s])
        <5>1. Len(subscriptions[s]) \in Nat /\ Len(subscriptions[s]) > 1
          <6>1. Len(subscriptions[s]) \in Nat /\ Len(subscriptions[s]) # 0
            BY <2>1, EmptySeq, LenProperties
          <6>2. \A n \in Nat : n # 0 /\ n # 1 => n > 1
            OBVIOUS
          <6> QED BY <6>1, <6>2, <4>2
        <5>2. /\ Len(t) = Len(subscriptions[s]) - 1
              /\ \A i \in 1 .. Len(t) : t[i] = subscriptions[s][i + 1]
          BY <2>1, HeadTailProperties
        <5> HIDE DEF t
        <5>3. t # <<>> /\ t[Len(t)] = subscriptions[s][Len(subscriptions[s])]
          BY <5>1, <5>2
        <5>4. subscriptions'[q] = t
          BY <3>1, <2>1 DEF VariableTypeOK, t
        <5> QED BY <5>3, <5>4, <3>1, <2>1 DEF Newest, Last
      <4> QED BY <4>1, <4>2
    <3>2. CASE q # s
      BY <3>2, <2>1 DEF Newest, VariableTypeOK, Subscribed
    <3> QED BY <3>1, <3>2
  <2>7. CurrentInv'
    BY <2>1, <2>3, <2>6 DEF CurrentInv, Entry
  <2> QED BY <2>4, <2>5, <2>7
<1>12. ASSUME NEW w \in Writers, BeginWrite(w)
       PROVE  VariableInv'
  <2>1. /\ clock' = clock + 1 /\ writing' = [writing EXCEPT ![w] = clock'] /\ operation # "activate"
        /\ UNCHANGED <<opened, activeException, asyncReadActive, versionOnOpen, latestValue, latestVersion,
                       subscriptions, received, operation, todo, copied, crossed>>
    BY <1>12 DEF BeginWrite
  <2>2. VariableTypeOK'
    BY <2>1 DEF VariableTypeOK, Subscribed
  <2>3. ControlInv' /\ FreshInv'
    BY <2>1 DEF ControlInv, FreshInv
  <2>4. CurrentInv'
    BY <2>1 DEF CurrentInv, Subscribed, Newest, Entry
  <2> QED BY <2>2, <2>3, <2>4
<1>13. ASSUME NEW w \in Writers, Write(w)
       PROVE  VariableInv'
  <2>1. writing[w] \in Nat /\ writing[w] # Nothing
    BY <1>13 DEF Write, VariableTypeOK
  <2> DEFINE e == Entry(writing[w], writing[w])
  <2>2. /\ latestValue' = writing[w] /\ latestVersion' = writing[w]
        /\ subscriptions' = [s \in Subscribers |-> IF asyncReadActive /\ s \in Subscribed
                                                   THEN PushOverwrite(subscriptions[s], e) ELSE subscriptions[s]]
        /\ writing' = [writing EXCEPT ![w] = Nothing]
        /\ crossed' = (crossed \/ writing[w] < versionOnOpen)
        /\ UNCHANGED <<opened, activeException, asyncReadActive, versionOnOpen, received, operation, todo,
                       copied, clock>>
    BY <1>13 DEF Write
  <2>3. operation # "activate"
    BY <2>1 DEF ControlInv
  <2>4. e \in Messages
    BY <2>1, NothingIsOther
  <2> HIDE DEF e
  <2>5. ASSUME NEW s \in Subscribed
        PROVE  /\ PushOverwrite(subscriptions[s], e) \in Seq(Messages)
               /\ PushOverwrite(subscriptions[s], e) # <<>> /\ PushOverwrite(subscriptions[s], e) # Nothing
               /\ Last(PushOverwrite(subscriptions[s], e)) = e
    <3>1. subscriptions[s] \in Seq(Messages)
      BY DEF Subscribed, VariableTypeOK
    <3> QED BY <3>1, <2>4, PushedIsLast, NothingIsOther
  <2>6. Subscribed' = Subscribed
    BY <2>2, <2>5 DEF Subscribed
  <2>7. VariableTypeOK'
    <3>1. subscriptions' \in [Subscribers -> Seq(Messages) \cup {Nothing}]
      BY <2>2, <2>5 DEF VariableTypeOK
    <3> QED BY <3>1, <2>1, <2>2, <2>6 DEF VariableTypeOK
  <2>8. ControlInv'
    BY <2>2, <2>3 DEF ControlInv
  <2>9. CurrentInv'
    <3>1. ASSUME asyncReadActive, NEW s \in Subscribed PROVE Newest(s)' = e
      BY <3>1, <2>2, <2>5 DEF Newest, Subscribed
    <3>2. Entry(latestValue, latestVersion)' = e
      BY <2>2 DEF Entry, e
    <3> QED BY <3>1, <3>2, <2>2, <2>6 DEF CurrentInv
  <2>10. FreshInv'
    <3>1. versionOnOpen \in Nat /\ (writing[w] < versionOnOpen \/ writing[w] >= versionOnOpen)
      BY <2>1 DEF VariableTypeOK
    <3> QED BY <3>1, <2>2 DEF FreshInv
  <2> QED BY <2>7, <2>8, <2>9, <2>10
<1>14. CASE UNCHANGED variableVars
  BY <1>14 DEF variableVars, VariableTypeOK, ControlInv, CurrentInv, FreshInv, Subscribed, Newest, Entry
<1> QED
  BY <1>1, <1>2, <1>3, <1>4, <1>5, <1>6, <1>7, <1>8, <1>9, <1>10, <1>11, <1>12, <1>13, <1>14 DEF VariableNext

LEMMA VariableInvInit == VariableInit => VariableInv
<1> SUFFICES ASSUME VariableInit PROVE VariableInv
  OBVIOUS
<1>1. VariableTypeOK
  BY DEF VariableInit, VariableTypeOK
<1>2. ControlInv /\ CurrentInv /\ FreshInv
  BY DEF VariableInit, ControlInv, CurrentInv, FreshInv
<1> QED BY <1>1, <1>2 DEF VariableInv

LEMMA VariableInvImplies == ASSUME VariableInv PROVE NewestValueArrives /\ NewestIsFresh
<1>1. ASSUME asyncReadActive, operation = "idle", NEW s \in Subscribed
      PROVE  Newest(s) = Entry(latestValue, latestVersion)
  BY <1>1 DEF VariableInv, ControlInv, CurrentInv
<1>2. latestValue \in Nat /\ latestVersion \in Nat
  BY DEF VariableInv, VariableTypeOK
<1>3. NewestValueArrives
  BY <1>1, <1>2, NothingIsOther DEF NewestValueArrives
<1>4. NewestIsFresh
  <2>1. asyncReadActive /\ ~crossed => latestVersion >= versionOnOpen
    BY DEF VariableInv, FreshInv
  <2>2. Entry(latestValue, latestVersion).version = latestVersion
    BY <1>2, NothingIsOther
  <2> QED
    BY <1>1, <2>1, <2>2, Zenon DEF NewestIsFresh
<1> QED BY <1>3, <1>4

(***************************************************************************)
(* Each subscriber of a variable receives the value which was written last *)
(* (VersionNumber and all), and it is not older than the opening of the    *)
(* device, if nobody writes while activateAsyncRead() is under way.        *)
(***************************************************************************)
THEOREM SubscribersAreCurrent ==
  ASSUME ~WriteWhileActivating
  PROVE  VariableSpec => [](NewestValueArrives /\ NewestIsFresh)
<1>1. VariableInv /\ [VariableNext]_variableVars => VariableInv'
  BY VariableStep
<1> QED BY <1>1, VariableInvInit, VariableInvImplies, PTL DEF VariableSpec

-----------------------------------------------------------------------------
(* FanOut                                                                   *)

WriteCalls ==
  [phase : {"idle", "preWrite", "transfer", "postWrite"}, version : Int,
   error : {"none", "logic_error", "runtime_error"}, next : Int]

\* Where the value of the application is, and which targets have it: the
\* additional targets have copies and the main target has the buffer from
\* doPreWrite() on, and the targets before the next one have been written.
WriteInv ==
  /\ Phase("preWrite") => decoratorBuffer = chosen /\ write.error = "none" /\ write.next = 1
  /\ Phase("transfer") =>
       /\ write.error = "none" /\ spare = chosen /\ \A t \in AllTargets \ {Main} : prepared[t] = chosen
       /\ write.next \in AllTargets /\ \A t \in AllTargets : t < write.next => contents[t] = chosen
  /\ Phase("postWrite") =>
       /\ spare = chosen
       /\ write.error = "none" => \A t \in AllTargets : contents[t] = chosen
  /\ Phase("idle") => FanOutDelivers

FanOutInv == write \in WriteCalls /\ DOMAIN contents = AllTargets /\ WriteInv

(***************************************************************************)
(* Every step of write() keeps the value of the application: it is in its  *)
(* buffer, or in that of the main target for the time of the transfer.     *)
(***************************************************************************)
LEMMA FanOutStep ==
  ASSUME FanOutInv, [FanOutNext]_fanOutVars
  PROVE  FanOutInv'
<1> USE FanOutAssumption DEF FanOutInv
<1>0. Main \in AllTargets /\ 1 \in AllTargets /\ Main \in Nat /\ AllTargets \subseteq Int
  BY DEF AllTargets, Main
<1>1. CASE Call
  <2>1. PICK v \in Int : write' = [phase |-> "preWrite", version |-> v, error |-> "none", next |-> 1]
    BY <1>1 DEF Call
  <2>2. decoratorBuffer' = chosen' /\ contents' = contents
    BY <1>1 DEF Call
  <2>3. write' \in WriteCalls /\ write'.phase = "preWrite" /\ write'.error = "none" /\ write'.next = 1
    BY <2>1 DEF WriteCalls
  <2> QED BY <2>2, <2>3 DEF WriteInv, Phase
<1>2. CASE PreWriteAll
  <2>1. /\ write.phase = "preWrite" /\ prepared' = [t \in AllTargets \ {Main} |-> decoratorBuffer]
        /\ spare' = decoratorBuffer /\ UNCHANGED <<contents, chosen>>
    BY <1>2 DEF PreWriteAll, Phase
  <2>2. decoratorBuffer = chosen /\ write.error = "none" /\ write.next = 1
    BY <2>1 DEF WriteInv, Phase
  <2>3. PICK e \in {"none", "logic_error"} :
          write' = [write EXCEPT !.error = e, !.phase = IF e = "none" THEN "transfer" ELSE "postWrite"]
    BY <1>2, <2>2 DEF PreWriteAll, FirstError
  <2>4. /\ write' \in WriteCalls /\ write'.error = e /\ write'.next = 1
        /\ write'.phase = IF e = "none" THEN "transfer" ELSE "postWrite"
    BY <2>2, <2>3 DEF WriteCalls
  <2>5. \A t \in AllTargets : ~(t < 1)
    BY DEF AllTargets
  <2> QED BY <1>0, <2>1, <2>2, <2>4, <2>5 DEF WriteInv, Phase
<1>3. CASE TransferOne
  <2>1. /\ write.phase = "transfer" /\ write.error = "none" /\ spare = chosen
        /\ write.next \in AllTargets /\ \A t \in AllTargets : t < write.next => contents[t] = chosen
        /\ (IF write.next = Main THEN spare ELSE prepared[write.next]) = chosen
    BY <1>3 DEF TransferOne, WriteInv, Phase
  <2>2. UNCHANGED <<spare, prepared, chosen>>
    BY <1>3 DEF TransferOne
  <2>3. CASE /\ contents' = [contents EXCEPT ![write.next] = chosen]
             /\ write' = [write EXCEPT !.next = @ + 1, !.phase = IF write.next = Main THEN "postWrite" ELSE @]
    <3>1. \A t \in AllTargets : t < write.next + 1 => contents'[t] = chosen
      <4>1. \A t \in AllTargets : t < write.next + 1 => t < write.next \/ t = write.next
        BY <2>1 DEF AllTargets
      <4> QED BY <4>1, <2>1, <2>3
    <3>2. /\ write' \in WriteCalls /\ write'.next = write.next + 1 /\ write'.error = "none"
          /\ write'.phase = IF write.next = Main THEN "postWrite" ELSE "transfer"
      <4>1. write.next \in Int /\ write.next + 1 \in Int
        BY DEF WriteCalls
      <4>2. (IF write.next = Main THEN "postWrite" ELSE "transfer") \in {"postWrite", "transfer"}
        OBVIOUS
      <4> QED BY <4>1, <4>2, <2>1, <2>3 DEF WriteCalls
    <3>3. write.next = Main => \A t \in AllTargets : t < write.next + 1
      BY DEF AllTargets, Main
    <3>4. write.next # Main => write.next + 1 \in AllTargets
      BY <2>1 DEF AllTargets, Main
    <3>5. DOMAIN contents' = AllTargets
      BY <2>3
    <3> QED BY <2>1, <2>2, <3>1, <3>2, <3>3, <3>4, <3>5 DEF WriteInv, Phase
  <2>4. CASE write' = [write EXCEPT !.error = "runtime_error", !.phase = "postWrite"] /\ UNCHANGED contents
    <3>1. write' \in WriteCalls /\ write'.error = "runtime_error" /\ write'.phase = "postWrite"
      BY <2>4 DEF WriteCalls
    <3> QED BY <2>1, <2>2, <2>4, <3>1 DEF WriteInv, Phase
  <2> QED BY <1>3, <2>1, <2>3, <2>4 DEF TransferOne
<1>4. CASE PostWriteAll
  <2>1. /\ write.phase = "postWrite" /\ decoratorBuffer' = spare /\ spare = chosen
        /\ write.error = "none" => \A t \in AllTargets : contents[t] = chosen
        /\ UNCHANGED <<contents, chosen>>
    BY <1>4 DEF PostWriteAll, WriteInv, Phase
  <2>2. write' \in WriteCalls /\ write'.phase = "idle" /\ write'.error = write.error
    BY <1>4 DEF PostWriteAll, WriteCalls
  <2>3. write.error = "none" => version' = write.version /\ \A t \in AllTargets : versions'[t] = write.version
    BY <1>4 DEF PostWriteAll
  <2>4. FanOutDelivers'
    BY <2>1, <2>2, <2>3 DEF FanOutDelivers
  <2> QED BY <2>1, <2>2, <2>4 DEF WriteInv, Phase
<1>5. CASE CloseOrOpen
  BY <1>5 DEF CloseOrOpen, WriteInv, Phase, FanOutDelivers
<1>6. CASE UNCHANGED fanOutVars
  BY <1>6 DEF fanOutVars, WriteInv, Phase, FanOutDelivers
<1> QED BY <1>1, <1>2, <1>3, <1>4, <1>5, <1>6 DEF FanOutNext

LEMMA FanOutInvInit == FanOutInit => FanOutInv
<1> SUFFICES ASSUME FanOutInit PROVE FanOutInv
  OBVIOUS
<1>1. write \in WriteCalls /\ write.phase = "idle"
  BY DEF FanOutInit, WriteCalls
<1>2. FanOutDelivers /\ DOMAIN contents = AllTargets
  BY DEF FanOutInit, FanOutDelivers
<1> QED BY <1>1, <1>2 DEF FanOutInv, WriteInv, Phase

LEMMA FanOutInvImplies == FanOutInv => FanOutDelivers
BY DEF FanOutInv, WriteInv, FanOutDelivers, Phase

(***************************************************************************)
(* write() of a fan-out either throws or all targets have the value, and   *)
(* the application gets its buffer back, for any number of targets and     *)
(* whichever of them refuses or fails.                                     *)
(***************************************************************************)
THEOREM FanOutIsComplete == FanOutSpec => []FanOutDelivers
<1>1. FanOutInv /\ [FanOutNext]_fanOutVars => FanOutInv'
  BY FanOutStep
<1> QED BY <1>1, FanOutInvInit, FanOutInvImplies, PTL DEF FanOutSpec

-----------------------------------------------------------------------------
(* SharedTarget                                                             *)

Phases == {"idle", "lock", "fill", "transfer", "unlock"}
Positions(th) == 1 .. Len(Group[th])
TargetAt(th, i) == Target[Group[th][i]]

SharedTypeOK ==
  /\ accessorKind \in {"bit", "bitRange", "subArray"}
  /\ register \in [Targets -> [Elements -> {0, 1}]]
  /\ buffer \in [Targets -> [Elements -> {0, 1}]]
  /\ remembered \subseteq Targets
  /\ holder \in [Targets -> Threads \cup {NoThread}] /\ held \in [Targets -> Nat]
  /\ targetUseCount \in [Threads -> Nat]
  /\ phase \in [Threads -> Phases] /\ at \in [Threads -> Nat]
  /\ values \in [Threads -> {0, 1}]
  /\ broken \subseteq Threads /\ down \in BOOLEAN
  /\ expected \in [Targets -> [Elements -> {0, 1, Unknown}]]

\* Where the threads are in their groups
PhaseInv ==
  \A th \in Threads : at[th] \in Positions(th) /\ (phase[th] \in {"idle", "transfer"} => at[th] = 1)

\* The accessors of thread th which hold the mutex, and those which have set
\* their elements in the buffer
Locked(th) ==
  {i \in Positions(th) : \/ phase[th] = "transfer"
                         \/ phase[th] = "lock" /\ i < at[th]
                         \/ phase[th] = "fill" /\ i <= at[th]
                         \/ phase[th] = "unlock" /\ i >= at[th]}
Filled(th) ==
  {i \in Positions(th) : \/ phase[th] = "transfer"
                         \/ phase[th] \in {"lock", "fill"} /\ i < at[th]}
LockedOn(th, t) == {i \in Locked(th) : TargetAt(th, i) = t}
FilledIn(th, t, e) == \E i \in Filled(th) : TargetAt(th, i) = t /\ e \in Mask[Group[th][i]]

\* The recursive mutex counts the accessors which hold it.
LockInv ==
  /\ \A th \in Threads : targetUseCount[th] = Cardinality(Locked(th))
  /\ \A t \in Targets : holder[t] = NoThread => held[t] = 0
  /\ \A t \in Targets, th \in Threads : holder[t] = th => held[t] = Cardinality(LockedOn(th, t)) /\ held[t] > 0
  /\ \A th \in Threads : \A i \in Locked(th) : holder[TargetAt(th, i)] = th

\* A thread with an exception finishes its transfer before the recovery.
BrokenInv ==
  /\ broken # {} => down
  /\ \A th \in broken : phase[th] # "idle"

\* The buffer has what is expected of the register, except for the elements
\* which a thread has set to write them.
Fresh(t) ==
  \/ accessorKind = "bit"
  \/ accessorKind = "subArray" /\ t \in remembered
  \/ accessorKind = "bitRange" /\ \E th \in Threads : \E i \in Filled(th) : TargetAt(th, i) = t
BufferInv ==
  /\ \A t \in Targets, e \in Elements : expected[t][e] # Unknown => register[t][e] = expected[t][e]
  /\ \A t \in Targets, e \in Elements :
       Fresh(t) /\ expected[t][e] # Unknown /\ (\A th \in Threads : ~FilledIn(th, t, e)) => buffer[t][e] = expected[t][e]
  /\ \A th \in Threads, t \in Targets, e \in Elements : FilledIn(th, t, e) => buffer[t][e] = values[th]
  /\ \A th \in Threads : \A i \in Filled(th) : Fresh(TargetAt(th, i))

\* (With bit ranges of several registers in one group this does not hold.)
CountsOneRegister == accessorKind = "bitRange" => OneTargetPerGroup

SharedInv ==
  /\ SharedTypeOK /\ PhaseInv /\ LockInv /\ BrokenInv
  /\ CountsOneRegister => (down \/ BufferInv)

LEMMA GroupFacts ==
  ASSUME NEW th \in Threads
  PROVE  /\ Len(Group[th]) \in Nat /\ Len(Group[th]) >= 1 /\ 1 \in Positions(th)
         /\ Range(Group[th]) = {Group[th][i] : i \in Positions(th)}
         /\ \A i \in Positions(th) : TargetAt(th, i) \in Targets /\ Mask[Group[th][i]] \subseteq Elements
<1>1. Group[th] \in Seq(DOMAIN Target) /\ Group[th] # <<>>
  BY TargetAssumption
<1>2. Len(Group[th]) \in Nat /\ DOMAIN Group[th] = Positions(th)
  BY <1>1 DEF Positions
<1>3. Len(Group[th]) >= 1
  BY <1>1
<1>4. 1 \in Positions(th)
  BY <1>2, <1>3 DEF Positions
<1>5. Range(Group[th]) = {Group[th][i] : i \in Positions(th)}
  BY <1>2 DEF Range
<1>6. \A i \in Positions(th) : Group[th][i] \in DOMAIN Target
  BY <1>1, <1>2 DEF Positions
<1> QED
  BY <1>2, <1>3, <1>4, <1>5, <1>6, TargetAssumption DEF TargetAt, Elements

\* Locked() and Filled() are finite, and what is filled is locked.
LEMMA LockedFacts ==
  ASSUME SharedTypeOK, PhaseInv, NEW th \in Threads
  PROVE  /\ Locked(th) \subseteq Positions(th) /\ IsFiniteSet(Locked(th))
         /\ \A t : IsFiniteSet(LockedOn(th, t))
         /\ Filled(th) \subseteq Locked(th)
<1>1. Locked(th) \subseteq Positions(th)
  BY DEF Locked
<1>2. IsFiniteSet(Positions(th))
  BY GroupFacts, FS_Interval DEF Positions
<1>3. IsFiniteSet(Locked(th))
  BY <1>1, <1>2, FS_Subset
<1>4. \A t : IsFiniteSet(LockedOn(th, t))
  BY <1>3, FS_Subset DEF LockedOn
<1>5. at[th] \in Nat
  BY DEF SharedTypeOK
<1>6. \A i \in Positions(th) : i \in Nat /\ (i < at[th] => i <= at[th])
  BY <1>5, GroupFacts DEF Positions
<1>7. Filled(th) \subseteq Locked(th)
  BY <1>6 DEF Filled, Locked
<1> QED
  BY <1>1, <1>3, <1>4, <1>7

\* Where Proceed() takes a thread
LEMMA ProceedSteps ==
  ASSUME SharedTypeOK, PhaseInv, NEW th \in Threads, NEW again \in Phases, NEW next \in Phases, Proceed(th, again, next)
  PROVE  /\ phase' \in [Threads -> Phases] /\ at' \in [Threads -> Nat]
         /\ \A x \in Threads \ {th} : phase'[x] = phase[x] /\ at'[x] = at[x]
         /\ at'[th] \in Positions(th)
         /\ \/ at[th] < Len(Group[th]) /\ phase'[th] = again /\ at'[th] = at[th] + 1
            \/ at[th] = Len(Group[th]) /\ phase'[th] = next /\ at'[th] = 1
<1>1. /\ phase \in [Threads -> Phases] /\ at \in [Threads -> Nat] /\ at[th] \in 1 .. Len(Group[th])
  BY DEF SharedTypeOK, PhaseInv, Positions
<1>2. Len(Group[th]) \in Nat /\ Len(Group[th]) >= 1
  BY GroupFacts
<1>3. CASE at[th] < Len(Group[th])
  BY <1>1, <1>2, <1>3 DEF Proceed, Positions
<1>4. CASE ~(at[th] < Len(Group[th]))
  BY <1>1, <1>2, <1>4 DEF Proceed, Positions
<1> QED
  BY <1>3, <1>4

\* The sets Locked() and Filled() after a step of a thread
LEMMA SetsStay ==
  ASSUME NEW x \in Threads, phase'[x] = phase[x], at'[x] = at[x]
  PROVE  Locked(x)' = Locked(x) /\ Filled(x)' = Filled(x) /\ (\A t : LockedOn(x, t)' = LockedOn(x, t))
<1>1. Locked(x)' = Locked(x)
  BY DEF Locked, Positions
<1>2. Filled(x)' = Filled(x)
  BY DEF Filled, Positions
<1>3. \A t : LockedOn(x, t)' = LockedOn(x, t)
  BY <1>1 DEF LockedOn, TargetAt
<1> QED
  BY <1>1, <1>2, <1>3

LEMMA BeginSets ==
  ASSUME SharedInv, NEW th \in Threads, Begin(th)
  PROVE  \A x \in Threads : Locked(x)' = Locked(x) /\ Filled(x)' = Filled(x)
<1>1. phase \in [Threads -> Phases] /\ at[th] = 1 /\ phase[th] = "idle"
  BY DEF SharedInv, SharedTypeOK, PhaseInv, Begin
<1>2. phase'[th] = "lock" /\ at'[th] = 1 /\ \A x \in Threads \ {th} : phase'[x] = phase[x] /\ at'[x] = at[x]
  BY <1>1 DEF Begin
<1>3. \A i \in Positions(th) : ~(i < 1)
  BY GroupFacts DEF Positions
<1>4. Locked(th)' = {} /\ Locked(th) = {}
  BY <1>1, <1>2, <1>3 DEF Locked, Positions
<1>5. Filled(th)' = {} /\ Filled(th) = {}
  BY <1>1, <1>2, <1>3 DEF Filled, Positions
<1> QED
  BY <1>2, <1>4, <1>5, SetsStay

LEMMA LockSets ==
  ASSUME SharedInv, NEW th \in Threads, Lock(th)
  PROVE  /\ Locked(th)' = Locked(th) \cup {at[th]} /\ at[th] \notin Locked(th)
         /\ \A x \in Threads \ {th} : Locked(x)' = Locked(x)
         /\ \A x \in Threads : Filled(x)' = Filled(x)
<1>1. phase \in [Threads -> Phases] /\ at[th] \in Positions(th) /\ at[th] \in Nat /\ phase[th] = "lock"
  BY DEF SharedInv, SharedTypeOK, PhaseInv, Lock
<1>2. phase'[th] = "fill" /\ at'[th] = at[th] /\ \A x \in Threads \ {th} : phase'[x] = phase[x] /\ at'[x] = at[x]
  BY <1>1 DEF Lock
<1>3. /\ \A i \in Positions(th) : i <= at[th] <=> i < at[th] \/ i = at[th]
      /\ ~(at[th] < at[th])
  BY <1>1, GroupFacts DEF Positions
<1>4. Locked(th) = {i \in Positions(th) : i < at[th]} /\ Locked(th)' = {i \in Positions(th) : i <= at[th]}
  BY <1>1, <1>2 DEF Locked, Positions
<1>5. Locked(th)' = Locked(th) \cup {at[th]} /\ at[th] \notin Locked(th)
  BY <1>1, <1>3, <1>4
<1>6. Filled(th)' = Filled(th)
  BY <1>1, <1>2 DEF Filled, Positions
<1> QED
  BY <1>2, <1>5, <1>6, SetsStay

LEMMA FillSets ==
  ASSUME SharedInv, NEW th \in Threads, Fill(th)
  PROVE  /\ \A x \in Threads : Locked(x)' = Locked(x)
         /\ th \notin broken' => Filled(th)' = Filled(th) \cup {at[th]}
         /\ \A x \in Threads \ {th} : Filled(x)' = Filled(x)
         /\ Locked(th) = 1 .. at[th] /\ Filled(th) = 1 .. (at[th] - 1)
<1> DEFINE n == Len(Group[th])
           next == IF th \in broken' THEN "unlock" ELSE "transfer"
<1>1. at[th] \in 1 .. n /\ phase[th] = "fill" /\ SharedTypeOK /\ PhaseInv /\ n \in Nat
  BY GroupFacts DEF SharedInv, SharedTypeOK, PhaseInv, Fill, Positions
<1>2. Proceed(th, "lock", next) /\ next \in {"unlock", "transfer"}
  BY DEF Fill
<1>3. /\ \A x \in Threads \ {th} : phase'[x] = phase[x] /\ at'[x] = at[x]
      /\ \/ at[th] < n /\ phase'[th] = "lock" /\ at'[th] = at[th] + 1
         \/ at[th] = n /\ phase'[th] = next /\ at'[th] = 1
  <2> HIDE DEF next
  <2>1. "lock" \in Phases /\ next \in Phases
    BY <1>2 DEF Phases
  <2> QED
    BY <1>1, <1>2, <2>1, ProceedSteps
<1> HIDE DEF n
<1>4. Locked(th) = {i \in 1 .. n : i <= at[th]} /\ Filled(th) = {i \in 1 .. n : i < at[th]}
  BY <1>1 DEF Locked, Filled, Positions, n
<1>5. Locked(th) = 1 .. at[th] /\ Filled(th) = 1 .. (at[th] - 1)
  <2>1. {i \in 1 .. n : i <= at[th]} = 1 .. at[th]
    BY <1>1
  <2>2. {i \in 1 .. n : i < at[th]} = 1 .. (at[th] - 1)
    BY <1>1
  <2> QED
    BY <1>4, <2>1, <2>2
<1>6. CASE at[th] < n /\ phase'[th] = "lock" /\ at'[th] = at[th] + 1
  <2>1. Locked(th)' = {i \in 1 .. n : i < at[th] + 1} /\ Filled(th)' = {i \in 1 .. n : i < at[th] + 1}
    BY <1>6 DEF Locked, Filled, Positions, n
  <2>2. {i \in 1 .. n : i < at[th] + 1} = 1 .. at[th]
    BY <1>1
  <2>3. 1 .. at[th] = (1 .. (at[th] - 1)) \cup {at[th]}
    BY <1>1
  <2> QED
    BY <1>3, <1>5, <2>1, <2>2, <2>3, SetsStay
<1>7. CASE at[th] = n /\ phase'[th] = next /\ at'[th] = 1
  <2>1. Locked(th)' = 1 .. n
    <3>1. \A i \in 1 .. n : i >= 1
      BY <1>1
    <3>2. Locked(th)' = {i \in 1 .. n : \/ phase'[th] = "transfer"
                                        \/ phase'[th] = "lock" /\ i < at'[th]
                                        \/ phase'[th] = "fill" /\ i <= at'[th]
                                        \/ phase'[th] = "unlock" /\ i >= at'[th]}
      BY DEF Locked, Positions, n
    <3>3. phase'[th] \in {"unlock", "transfer"}
      BY <1>7
    <3> HIDE DEF next
    <3> QED
      BY <1>7, <3>1, <3>2, <3>3
  <2>2. th \notin broken' => Filled(th)' = 1 .. n
    BY <1>7 DEF Filled, Positions, n
  <2>3. 1 .. n = (1 .. (n - 1)) \cup {n}
    BY <1>1
  <2> QED
    BY <1>3, <1>5, <1>7, <2>1, <2>2, <2>3, SetsStay
<1> QED
  BY <1>3, <1>6, <1>7

LEMMA TransferSets ==
  ASSUME SharedInv, NEW th \in Threads, Transfer(th)
  PROVE  /\ \A x \in Threads : Locked(x)' = Locked(x)
         /\ Filled(th) = Positions(th) /\ Filled(th)' = {}
         /\ \A x \in Threads \ {th} : Filled(x)' = Filled(x)
<1>1. phase \in [Threads -> Phases] /\ at[th] = 1 /\ phase[th] = "transfer"
  BY DEF SharedInv, SharedTypeOK, PhaseInv, Transfer
<1>2. phase'[th] = "unlock" /\ at'[th] = 1 /\ \A x \in Threads \ {th} : phase'[x] = phase[x] /\ at'[x] = at[x]
  BY <1>1 DEF Transfer
<1>3. \A i \in Positions(th) : i >= 1
  BY GroupFacts DEF Positions
<1>4. Locked(th) = Positions(th)
  BY <1>1 DEF Locked
<1>5. Locked(th)' = Positions(th)
  BY <1>2, <1>3 DEF Locked, Positions
<1>6. Filled(th) = Positions(th)
  BY <1>1 DEF Filled
<1>7. Filled(th)' = {}
  BY <1>2 DEF Filled, Positions
<1> QED
  BY <1>2, <1>4, <1>5, <1>6, <1>7, SetsStay

LEMMA UnlockSets ==
  ASSUME SharedInv, NEW th \in Threads, Unlock(th)
  PROVE  /\ Locked(th)' = Locked(th) \ {at[th]} /\ at[th] \in Locked(th)
         /\ \A x \in Threads \ {th} : Locked(x)' = Locked(x)
         /\ \A x \in Threads : Filled(x)' = Filled(x)
<1> DEFINE n == Len(Group[th])
<1>1. at[th] \in 1 .. n /\ phase[th] = "unlock" /\ SharedTypeOK /\ PhaseInv /\ n \in Nat
  BY GroupFacts DEF SharedInv, SharedTypeOK, PhaseInv, Unlock, Positions
<1>2. Proceed(th, "unlock", "idle")
  BY DEF Unlock
<1>3. /\ \A x \in Threads \ {th} : phase'[x] = phase[x] /\ at'[x] = at[x]
      /\ \/ at[th] < n /\ phase'[th] = "unlock" /\ at'[th] = at[th] + 1
         \/ at[th] = n /\ phase'[th] = "idle" /\ at'[th] = 1
  <2>1. "unlock" \in Phases /\ "idle" \in Phases
    BY DEF Phases
  <2> QED
    BY <1>1, <1>2, <2>1, ProceedSteps
<1> HIDE DEF n
<1>4. Locked(th) = {i \in 1 .. n : i >= at[th]} /\ Filled(th) = {}
  BY <1>1 DEF Locked, Filled, Positions, n
<1>5. Filled(th)' = {}
  BY <1>3 DEF Filled, Positions
<1>6. at[th] \in Locked(th)
  BY <1>1, <1>4
<1>7. CASE at[th] < n /\ phase'[th] = "unlock" /\ at'[th] = at[th] + 1
  <2>1. Locked(th)' = {i \in 1 .. n : i >= at[th] + 1}
    BY <1>7 DEF Locked, Positions, n
  <2>2. {i \in 1 .. n : i >= at[th] + 1} = {i \in 1 .. n : i >= at[th]} \ {at[th]}
    BY <1>1
  <2> QED
    BY <1>3, <1>4, <1>5, <1>6, <2>1, <2>2, SetsStay
<1>8. CASE at[th] = n /\ phase'[th] = "idle" /\ at'[th] = 1
  <2>1. Locked(th)' = {}
    BY <1>8 DEF Locked, Positions
  <2>2. {i \in 1 .. n : i >= at[th]} \ {at[th]} = {}
    BY <1>1, <1>8
  <2> QED
    BY <1>3, <1>4, <1>5, <1>6, <2>1, <2>2, SetsStay
<1> QED
  BY <1>3, <1>7, <1>8

LEMMA SharedTypeStep ==
  ASSUME SharedInv, SharedNext
  PROVE  SharedTypeOK' /\ PhaseInv'
<1>1. SharedTypeOK /\ PhaseInv
  BY DEF SharedInv
<1>2. CASE Reopen
  <2>1. register' \in [Targets -> [Elements -> {0, 1}]]
    BY <1>2 DEF Reopen
  <2>2. expected' \in [Targets -> [Elements -> {0, 1, Unknown}]]
    BY <1>2, <2>1 DEF Reopen
  <2>3. PhaseInv'
    BY <1>1, <1>2 DEF Reopen, PhaseInv, Positions
  <2> QED
    BY <1>1, <1>2, <2>1, <2>2, <2>3 DEF Reopen, SharedTypeOK, Elements, locks
<1>3. ASSUME NEW th \in Threads, Begin(th)
      PROVE  SharedTypeOK' /\ PhaseInv'
  <2>1. "lock" \in Phases
    BY DEF Phases
  <2>2. SharedTypeOK'
    BY <1>1, <1>3, <2>1 DEF Begin, SharedTypeOK, Elements, locks
  <2>3. PhaseInv'
    BY <1>1, <1>3 DEF Begin, PhaseInv, Positions, SharedTypeOK
  <2> QED
    BY <2>2, <2>3
<1>4. ASSUME NEW th \in Threads, Lock(th)
      PROVE  SharedTypeOK' /\ PhaseInv'
  <2>1. "fill" \in Phases
    BY DEF Phases
  <2>2. Target[Accessor(th)] \in Targets
    BY <1>1, GroupFacts DEF PhaseInv, TargetAt, Accessor
  <2>3. SharedTypeOK'
    BY <1>1, <1>4, <2>1, <2>2 DEF Lock, SharedTypeOK, Elements
  <2>4. PhaseInv'
    BY <1>1, <1>4 DEF Lock, PhaseInv, Positions, SharedTypeOK
  <2> QED
    BY <2>3, <2>4
<1>5. ASSUME NEW th \in Threads, Fill(th)
      PROVE  SharedTypeOK' /\ PhaseInv'
  <2> DEFINE t == Target[Accessor(th)]
             again == "lock"
             next == IF th \in broken' THEN "unlock" ELSE "transfer"
  <2>1. t \in Targets
    BY <1>1, GroupFacts DEF PhaseInv, TargetAt, Accessor
  <2>2. \A read : read \in [Elements -> {0, 1}] =>
          [i \in Elements |-> IF i \in Mask[Accessor(th)] THEN values[th] ELSE read[i]] \in [Elements -> {0, 1}]
    BY <1>1 DEF SharedTypeOK
  <2>3. register[t] \in [Elements -> {0, 1}] /\ buffer[t] \in [Elements -> {0, 1}]
    BY <1>1, <2>1 DEF SharedTypeOK
  <2>4. buffer' \in [Targets -> [Elements -> {0, 1}]]
    <3>1. CASE buffer' = buffer
      BY <1>1, <3>1 DEF SharedTypeOK
    <3>2. CASE buffer' = [buffer EXCEPT ![t] = [i \in Elements |-> IF i \in Mask[Accessor(th)] THEN values[th]
                              ELSE (IF Reads(th, t) THEN register[t] ELSE buffer[t])[i]]]
      <4>1. (IF Reads(th, t) THEN register[t] ELSE buffer[t]) \in [Elements -> {0, 1}]
        BY <2>3
      <4>2. [i \in Elements |-> IF i \in Mask[Accessor(th)] THEN values[th]
                              ELSE (IF Reads(th, t) THEN register[t] ELSE buffer[t])[i]] \in [Elements -> {0, 1}]
        BY <2>2, <4>1
      <4> HIDE DEF t
      <4> QED
        BY <1>1, <3>2, <4>2 DEF SharedTypeOK
    <3> QED
      BY <1>5, <3>1, <3>2 DEF Fill
  <2>5. remembered' \subseteq Targets
    <3>1. remembered' \in {remembered, remembered \cup {t}}
      BY <1>5 DEF Fill
    <3> QED
      BY <1>1, <2>1, <3>1 DEF SharedTypeOK
  <2>6. broken' \subseteq Threads /\ down' \in BOOLEAN
    <3>1. \/ broken' = broken /\ down' = down
          \/ broken' = broken \cup {th} /\ down' = TRUE
      BY <1>5 DEF Fill
    <3> QED
      BY <1>1, <3>1 DEF SharedTypeOK
  <2>7. /\ Proceed(th, "lock", next)
        /\ UNCHANGED <<accessorKind, holder, held, targetUseCount, values, register, expected, reopened>>
    BY <1>5 DEF Fill, locks
  <2>8. "lock" \in Phases /\ next \in Phases
    BY DEF Phases
  <2> HIDE DEF next
  <2>9. /\ phase' \in [Threads -> Phases] /\ at' \in [Threads -> Nat]
        /\ \A x \in Threads \ {th} : phase'[x] = phase[x] /\ at'[x] = at[x]
        /\ at'[th] \in Positions(th)
        /\ \/ phase'[th] = "lock"
           \/ phase'[th] = next /\ at'[th] = 1
    BY <1>1, <2>7, <2>8, ProceedSteps
  <2>10. PhaseInv'
    BY <1>1, <2>9 DEF PhaseInv, Positions
  <2> QED
    BY <1>1, <2>4, <2>5, <2>6, <2>7, <2>9, <2>10 DEF SharedTypeOK, Elements
<1>6. ASSUME NEW th \in Threads, Transfer(th)
      PROVE  SharedTypeOK' /\ PhaseInv'
  <2>1. "unlock" \in Phases
    BY DEF Phases
  <2>2. register' \in [Targets -> [Elements -> {0, 1}]]
    <3>1. \/ register' = register
          \/ register' = [t \in Targets |-> IF t \in Written(th) THEN buffer[t] ELSE register[t]]
      BY <1>6 DEF Transfer
    <3> QED
      BY <1>1, <3>1 DEF SharedTypeOK
  <2>3. expected' \in [Targets -> [Elements -> {0, 1, Unknown}]]
    <3>1. \E v \in {values[th], Unknown} :
            expected' = [t \in Targets |-> [i \in Elements |-> IF i \in OwnElements(th, t) THEN v ELSE expected[t][i]]]
      BY <1>6 DEF Transfer
    <3>2. PICK v \in {values[th], Unknown} :
            expected' = [t \in Targets |-> [i \in Elements |-> IF i \in OwnElements(th, t) THEN v ELSE expected[t][i]]]
      BY <3>1
    <3>3. v \in {0, 1, Unknown}
      BY <1>1, <3>2 DEF SharedTypeOK
    <3>4. \A t \in Targets : \A i \in Elements : expected[t][i] \in {0, 1, Unknown}
      BY <1>1 DEF SharedTypeOK
    <3> QED
      BY <3>2, <3>3, <3>4
  <2>4. broken' \subseteq Threads /\ down' \in BOOLEAN
    <3>1. \/ broken' = broken /\ down' = down
          \/ broken' = broken \cup {th} /\ down' = TRUE
      BY <1>6 DEF Transfer
    <3> QED
      BY <1>1, <3>1 DEF SharedTypeOK
  <2>5. /\ phase' = [phase EXCEPT ![th] = "unlock"] /\ phase[th] = "transfer"
        /\ UNCHANGED <<accessorKind, buffer, remembered, holder, held, targetUseCount, at, values, reopened>>
    BY <1>6 DEF Transfer, locks
  <2>6. PhaseInv'
    BY <1>1, <2>5 DEF PhaseInv, Positions, SharedTypeOK
  <2> QED
    BY <1>1, <2>1, <2>2, <2>3, <2>4, <2>5, <2>6 DEF SharedTypeOK, Elements
<1>7. ASSUME NEW th \in Threads, Unlock(th)
      PROVE  SharedTypeOK' /\ PhaseInv'
  <2> DEFINE t == Target[Accessor(th)]
  <2>1. t \in Targets /\ TargetAt(th, at[th]) = t
    BY <1>1, GroupFacts DEF PhaseInv, TargetAt, Accessor
  <2>2. at[th] \in Locked(th) /\ LockInv
    BY <1>7, UnlockSets DEF SharedInv
  <2>3. targetUseCount[th] \in Nat /\ targetUseCount[th] # 0
    <3>1. IsFiniteSet(Locked(th)) /\ Locked(th) # {} /\ targetUseCount[th] = Cardinality(Locked(th))
      BY <1>1, <2>2, LockedFacts DEF LockInv
    <3> QED
      BY <1>1, <3>1, FS_EmptySet DEF SharedTypeOK
  <2>4. held[t] \in Nat /\ held[t] # 0
    <3>1. holder[t] = th
      BY <2>1, <2>2 DEF LockInv
    <3>2. held[t] > 0 /\ held[t] \in Nat
      BY <1>1, <2>1, <2>2, <3>1 DEF LockInv, SharedTypeOK
    <3> QED
      BY <3>2
  <2>5. targetUseCount' \in [Threads -> Nat]
    <3>1. targetUseCount[th] - 1 \in Nat
      BY <2>3
    <3>2. targetUseCount' = [targetUseCount EXCEPT ![th] = targetUseCount[th] - 1]
      BY <1>7 DEF Unlock
    <3> QED
      BY <1>1, <3>1, <3>2 DEF SharedTypeOK
  <2>6. held' \in [Targets -> Nat]
    <3>1. held[t] - 1 \in Nat
      BY <2>4
    <3>2. held' = [held EXCEPT ![t] = held[t] - 1]
      BY <1>7 DEF Unlock
    <3> QED
      BY <1>1, <3>1, <3>2 DEF SharedTypeOK
  <2>7. holder' \in [Targets -> Threads \cup {NoThread}]
    <3>1. holder' \in {holder, [holder EXCEPT ![t] = NoThread]}
      BY <1>7 DEF Unlock
    <3> QED
      BY <1>1, <3>1 DEF SharedTypeOK
  <2>8. /\ phase' \in [Threads -> Phases] /\ at' \in [Threads -> Nat]
        /\ \A x \in Threads \ {th} : phase'[x] = phase[x] /\ at'[x] = at[x]
        /\ at'[th] \in Positions(th)
        /\ \/ phase'[th] = "unlock"
           \/ phase'[th] = "idle" /\ at'[th] = 1
    <3>1. Proceed(th, "unlock", "idle") /\ "unlock" \in Phases /\ "idle" \in Phases
      BY <1>7 DEF Unlock, Phases
    <3> QED
      BY <1>1, <3>1, ProceedSteps
  <2>9. PhaseInv'
    BY <1>1, <2>8 DEF PhaseInv, Positions
  <2>10. broken' \subseteq Threads
    <3>1. broken' \in {broken, broken \ {th}}
      BY <1>7 DEF Unlock
    <3> QED
      BY <1>1, <3>1 DEF SharedTypeOK
  <2>11. UNCHANGED <<accessorKind, register, buffer, remembered, values, down, expected, reopened>>
    BY <1>7 DEF Unlock
  <2> QED
    BY <1>1, <2>5, <2>6, <2>7, <2>8, <2>9, <2>10, <2>11 DEF SharedTypeOK, Elements
<1>8. ASSUME NEW th \in Threads, NEW t \in Targets, ReadShared(th, t)
      PROVE  SharedTypeOK' /\ PhaseInv'
  <2>1. register[t] \in [Elements -> {0, 1}]
    BY <1>1 DEF SharedTypeOK
  <2>2. buffer' \in [Targets -> [Elements -> {0, 1}]]
    BY <1>1, <1>8, <2>1 DEF ReadShared, SharedTypeOK
  <2>3. remembered' \subseteq Targets
    BY <1>1, <1>8 DEF ReadShared, SharedTypeOK
  <2>4. PhaseInv'
    BY <1>1, <1>8 DEF ReadShared, PhaseInv, Positions
  <2> QED
    BY <1>1, <1>8, <2>2, <2>3, <2>4 DEF ReadShared, SharedTypeOK, Elements, locks
<1> QED
  BY <1>2, <1>3, <1>4, <1>5, <1>6, <1>7, <1>8 DEF SharedNext

LEMMA LocksStay ==
  ASSUME LockInv, UNCHANGED locks, \A x \in Threads : Locked(x)' = Locked(x)
  PROVE  LockInv'
<1>1. \A x \in Threads, t \in Targets : LockedOn(x, t)' = LockedOn(x, t)
  BY DEF LockedOn, TargetAt
<1>2. holder' = holder /\ held' = held /\ targetUseCount' = targetUseCount
  BY DEF locks
<1> QED
  BY <1>1, <1>2 DEF LockInv, TargetAt

LEMMA LockLocks ==
  ASSUME SharedInv, NEW th \in Threads, Lock(th)
  PROVE  LockInv'
<1>1. SharedTypeOK /\ PhaseInv /\ LockInv
  BY DEF SharedInv
<1>2a. PICK n \in Positions(th) : n = at[th]
  BY <1>1 DEF PhaseInv
<1>2b. PICK t \in Targets : t = Target[Accessor(th)]
  BY <1>1, GroupFacts DEF PhaseInv, TargetAt, Accessor
<1>2. t \in Targets /\ TargetAt(th, n) = t
  BY <1>2a, <1>2b DEF TargetAt, Accessor
<1>3. /\ Locked(th)' = Locked(th) \cup {n} /\ n \notin Locked(th)
      /\ \A x \in Threads \ {th} : Locked(x)' = Locked(x)
  BY <1>2a, LockSets
<1>4. /\ holder' = [holder EXCEPT ![t] = th] /\ held' = [held EXCEPT ![t] = held[t] + 1]
      /\ targetUseCount' = [targetUseCount EXCEPT ![th] = targetUseCount[th] + 1]
      /\ holder[t] \in {NoThread, th}
  BY <1>2b DEF Lock
<1>5. /\ LockedOn(th, t)' = LockedOn(th, t) \cup {n} /\ n \notin LockedOn(th, t)
      /\ \A u \in Targets \ {t} : LockedOn(th, u)' = LockedOn(th, u)
      /\ \A x \in Threads \ {th}, u \in Targets : LockedOn(x, u)' = LockedOn(x, u)
  BY <1>2, <1>3 DEF LockedOn, TargetAt
<1>6. NoThread # th /\ NoThread \notin Threads
  BY TargetAssumption
<1>7. Cardinality(LockedOn(th, t)) = held[t]
  <2>1. CASE holder[t] = th
    BY <1>1, <1>2, <2>1 DEF LockInv
  <2>2. CASE holder[t] = NoThread
    <3>1. LockedOn(th, t) = {}
      BY <1>1, <1>6, <2>2 DEF LockInv, LockedOn
    <3> QED
      BY <1>1, <1>2, <2>2, <3>1, FS_EmptySet DEF LockInv
  <2> QED
    BY <1>4, <2>1, <2>2
<1>8. targetUseCount'[th] = Cardinality(Locked(th)')
  <2>1. Cardinality(Locked(th) \cup {n}) = Cardinality(Locked(th)) + 1
    BY <1>1, <1>3, LockedFacts, FS_AddElement
  <2> QED
    BY <1>1, <1>3, <1>4, <2>1 DEF LockInv, SharedTypeOK
<1>9. held'[t] = Cardinality(LockedOn(th, t)') /\ held'[t] > 0
  <2>1. Cardinality(LockedOn(th, t) \cup {n}) = Cardinality(LockedOn(th, t)) + 1
    BY <1>1, <1>5, LockedFacts, FS_AddElement
  <2>2. held'[t] = held[t] + 1 /\ held[t] \in Nat
    BY <1>1, <1>2, <1>4 DEF SharedTypeOK
  <2> QED
    BY <1>5, <1>7, <2>1, <2>2
<1>10. \A x \in Threads : targetUseCount'[x] = Cardinality(Locked(x)')
  <2>1. \A x \in Threads \ {th} : targetUseCount'[x] = targetUseCount[x]
    BY <1>1, <1>4 DEF SharedTypeOK
  <2> QED
    BY <1>1, <1>3, <1>8, <2>1 DEF LockInv
<1>11. holder'[t] = th /\ \A u \in Targets \ {t} : holder'[u] = holder[u] /\ held'[u] = held[u]
  BY <1>1, <1>2, <1>4 DEF SharedTypeOK
<1>12. \A u \in Targets : holder'[u] = NoThread => held'[u] = 0
  BY <1>1, <1>6, <1>11 DEF LockInv
<1>13. \A u \in Targets, x \in Threads : holder'[u] = x => held'[u] = Cardinality(LockedOn(x, u)') /\ held'[u] > 0
  <2> SUFFICES ASSUME NEW u \in Targets, NEW x \in Threads, holder'[u] = x
               PROVE  held'[u] = Cardinality(LockedOn(x, u)') /\ held'[u] > 0
    OBVIOUS
  <2>1. CASE u = t
    BY <1>9, <1>11, <2>1
  <2>2. CASE u # t
    <3>1. holder[u] = x /\ held'[u] = held[u] /\ LockedOn(x, u)' = LockedOn(x, u)
      BY <1>5, <1>11, <2>2
    <3> QED
      BY <1>1, <3>1 DEF LockInv
  <2> QED
    BY <2>1, <2>2
<1>14. \A x \in Threads : \A i \in Locked(x)' : holder'[TargetAt(x, i)] = x
  <2> SUFFICES ASSUME NEW x \in Threads, NEW i \in Locked(x)'
               PROVE  holder'[TargetAt(x, i)] = x
    OBVIOUS
  <2>1. CASE x = th /\ i = n
    BY <1>2, <1>11, <2>1
  <2>2. CASE ~(x = th /\ i = n)
    <3>1. i \in Locked(x)
      BY <1>3, <2>2
    <3>2. holder[TargetAt(x, i)] = x /\ TargetAt(x, i) \in Targets
      BY <1>1, <3>1, LockedFacts, GroupFacts DEF LockInv
    <3> QED
      BY <1>4, <1>6, <1>11, <3>2
  <2> QED
    BY <2>1, <2>2
<1> QED
  BY <1>10, <1>12, <1>13, <1>14 DEF LockInv, TargetAt

LEMMA UnlockLocks ==
  ASSUME SharedInv, NEW th \in Threads, Unlock(th)
  PROVE  LockInv'
<1>1. SharedTypeOK /\ PhaseInv /\ LockInv
  BY DEF SharedInv
<1>2a. PICK n \in Positions(th) : n = at[th]
  BY <1>1 DEF PhaseInv
<1>2b. PICK t \in Targets : t = Target[Accessor(th)]
  BY <1>1, GroupFacts DEF PhaseInv, TargetAt, Accessor
<1>2. t \in Targets /\ TargetAt(th, n) = t
  BY <1>2a, <1>2b DEF TargetAt, Accessor
<1>3. /\ Locked(th)' = Locked(th) \ {n} /\ n \in Locked(th)
      /\ \A x \in Threads \ {th} : Locked(x)' = Locked(x)
  BY <1>2a, UnlockSets
<1>4. /\ held' = [held EXCEPT ![t] = held[t] - 1]
      /\ holder' = IF held'[t] = 0 THEN [holder EXCEPT ![t] = NoThread] ELSE holder
      /\ targetUseCount' = [targetUseCount EXCEPT ![th] = targetUseCount[th] - 1]
  BY <1>2b DEF Unlock
<1>5. /\ LockedOn(th, t)' = LockedOn(th, t) \ {n} /\ n \in LockedOn(th, t)
      /\ \A u \in Targets \ {t} : LockedOn(th, u)' = LockedOn(th, u)
      /\ \A x \in Threads \ {th}, u \in Targets : LockedOn(x, u)' = LockedOn(x, u)
  BY <1>2, <1>3 DEF LockedOn, TargetAt
<1>6. NoThread # th /\ NoThread \notin Threads
  BY TargetAssumption
<1>7. holder[t] = th /\ held[t] = Cardinality(LockedOn(th, t)) /\ held[t] \in Nat
  <2>1. holder[t] = th
    BY <1>1, <1>2, <1>3 DEF LockInv
  <2> QED
    BY <1>1, <1>2, <2>1 DEF LockInv, SharedTypeOK
<1>8. targetUseCount'[th] = Cardinality(Locked(th)')
  <2>1. Cardinality(Locked(th) \ {n}) = Cardinality(Locked(th)) - 1
    BY <1>1, <1>3, LockedFacts, FS_RemoveElement
  <2> QED
    BY <1>1, <1>3, <1>4, <2>1 DEF LockInv, SharedTypeOK
<1>9. held'[t] = Cardinality(LockedOn(th, t)') /\ held'[t] \in Nat
  <2>1. Cardinality(LockedOn(th, t) \ {n}) = Cardinality(LockedOn(th, t)) - 1
    BY <1>1, <1>5, LockedFacts, FS_RemoveElement
  <2>2. held'[t] = held[t] - 1
    BY <1>1, <1>2, <1>4 DEF SharedTypeOK
  <2>3. IsFiniteSet(LockedOn(th, t) \ {n})
    BY <1>1, LockedFacts, FS_Subset
  <2> QED
    BY <1>5, <1>7, <2>1, <2>2, <2>3, FS_CardinalityType
<1>10. \A x \in Threads : targetUseCount'[x] = Cardinality(Locked(x)')
  <2>1. \A x \in Threads \ {th} : targetUseCount'[x] = targetUseCount[x]
    BY <1>1, <1>4 DEF SharedTypeOK
  <2> QED
    BY <1>1, <1>3, <1>8, <2>1 DEF LockInv
<1>11. /\ holder'[t] = IF held'[t] = 0 THEN NoThread ELSE th
       /\ \A u \in Targets \ {t} : holder'[u] = holder[u] /\ held'[u] = held[u]
  BY <1>1, <1>2, <1>4, <1>7 DEF SharedTypeOK
<1>12. \A u \in Targets : holder'[u] = NoThread => held'[u] = 0
  BY <1>1, <1>6, <1>11 DEF LockInv
<1>13. \A u \in Targets, x \in Threads : holder'[u] = x => held'[u] = Cardinality(LockedOn(x, u)') /\ held'[u] > 0
  <2> SUFFICES ASSUME NEW u \in Targets, NEW x \in Threads, holder'[u] = x
               PROVE  held'[u] = Cardinality(LockedOn(x, u)') /\ held'[u] > 0
    OBVIOUS
  <2>1. CASE u = t
    <3>1. x = th /\ held'[t] # 0
      BY <1>6, <1>11, <2>1
    <3> QED
      BY <1>9, <2>1, <3>1
  <2>2. CASE u # t
    <3>1. holder[u] = x /\ held'[u] = held[u] /\ LockedOn(x, u)' = LockedOn(x, u)
      BY <1>5, <1>11, <2>2
    <3> QED
      BY <1>1, <3>1 DEF LockInv
  <2> QED
    BY <2>1, <2>2
<1>14. \A x \in Threads : \A i \in Locked(x)' : holder'[TargetAt(x, i)] = x
  <2> SUFFICES ASSUME NEW x \in Threads, NEW i \in Locked(x)'
               PROVE  holder'[TargetAt(x, i)] = x
    OBVIOUS
  <2>1. i \in Locked(x)
    BY <1>3
  <2>2. holder[TargetAt(x, i)] = x /\ TargetAt(x, i) \in Targets
    BY <1>1, <2>1, LockedFacts, GroupFacts DEF LockInv
  <2>3. CASE TargetAt(x, i) = t
    <3>1. x = th
      BY <1>7, <2>2, <2>3
    <3>2. i \in LockedOn(th, t)'
      BY <2>3, <3>1 DEF LockedOn, TargetAt
    <3>3. IsFiniteSet(LockedOn(th, t)')
      BY <1>1, <1>5, LockedFacts, FS_Subset
    <3>4. held'[t] # 0
      BY <1>9, <3>2, <3>3, FS_EmptySet
    <3> QED
      BY <1>11, <2>3, <3>1, <3>4
  <2>4. CASE TargetAt(x, i) # t
    BY <1>11, <2>2, <2>4
  <2> QED
    BY <2>3, <2>4
<1> QED
  BY <1>10, <1>12, <1>13, <1>14 DEF LockInv, TargetAt

LEMMA LockStep ==
  ASSUME SharedInv, SharedNext
  PROVE  LockInv'
<1>1. LockInv
  BY DEF SharedInv
<1>2. CASE Reopen
  <2>1. \A x \in Threads : Locked(x)' = Locked(x)
    BY <1>2, SetsStay DEF Reopen
  <2> QED
    BY <1>1, <1>2, <2>1, LocksStay DEF Reopen
<1>3. ASSUME NEW th \in Threads, Begin(th)
      PROVE  LockInv'
  BY <1>1, <1>3, BeginSets, LocksStay DEF Begin
<1>4. ASSUME NEW th \in Threads, Fill(th)
      PROVE  LockInv'
  BY <1>1, <1>4, FillSets, LocksStay DEF Fill
<1>5. ASSUME NEW th \in Threads, Transfer(th)
      PROVE  LockInv'
  BY <1>1, <1>5, TransferSets, LocksStay DEF Transfer
<1>6. ASSUME NEW th \in Threads, NEW t \in Targets, ReadShared(th, t)
      PROVE  LockInv'
  <2>1. \A x \in Threads : Locked(x)' = Locked(x)
    BY <1>6, SetsStay DEF ReadShared
  <2> QED
    BY <1>1, <1>6, <2>1, LocksStay DEF ReadShared
<1> QED
  BY <1>2, <1>3, <1>4, <1>5, <1>6, LockLocks, UnlockLocks DEF SharedNext

LEMMA BrokenStep ==
  ASSUME SharedInv, SharedNext
  PROVE  BrokenInv'
<1>1. SharedTypeOK /\ PhaseInv /\ BrokenInv
  BY DEF SharedInv
<1>2. CASE Reopen
  <2>1. broken = {}
    BY <1>1, <1>2 DEF Reopen, BrokenInv, SharedTypeOK
  <2> QED
    BY <1>2, <2>1 DEF Reopen, BrokenInv
<1>3. ASSUME NEW th \in Threads, Begin(th)
      PROVE  BrokenInv'
  BY <1>1, <1>3 DEF Begin, BrokenInv, SharedTypeOK
<1>4. ASSUME NEW th \in Threads, Lock(th)
      PROVE  BrokenInv'
  BY <1>1, <1>4 DEF Lock, BrokenInv, SharedTypeOK
<1>5. ASSUME NEW th \in Threads, Fill(th)
      PROVE  BrokenInv'
  <2> DEFINE next == IF th \in broken' THEN "unlock" ELSE "transfer"
  <2>1. Proceed(th, "lock", next)
    BY <1>5 DEF Fill
  <2>2. "lock" \in Phases /\ next \in Phases
    BY DEF Phases
  <2>3. (\A x \in Threads \ {th} : phase'[x] = phase[x]) /\ phase'[th] \in {"lock", next}
    <3> HIDE DEF next
    <3> QED
      BY <1>1, <2>1, <2>2, ProceedSteps
  <2>4. phase'[th] # "idle"
    BY <2>3
  <2>5. \/ broken' = broken /\ down' = down
        \/ broken' = broken \cup {th} /\ down' = TRUE
    BY <1>5 DEF Fill
  <2> HIDE DEF next
  <2> QED
    BY <1>1, <2>3, <2>4, <2>5 DEF BrokenInv, SharedTypeOK
<1>6. ASSUME NEW th \in Threads, Transfer(th)
      PROVE  BrokenInv'
  <2>1. \/ broken' = broken /\ down' = down
        \/ broken' = broken \cup {th} /\ down' = TRUE
    BY <1>6 DEF Transfer
  <2>2. phase' = [phase EXCEPT ![th] = "unlock"]
    BY <1>6 DEF Transfer
  <2> QED
    BY <1>1, <2>1, <2>2 DEF BrokenInv, SharedTypeOK
<1>7. ASSUME NEW th \in Threads, Unlock(th)
      PROVE  BrokenInv'
  <2>1. Proceed(th, "unlock", "idle") /\ "unlock" \in Phases /\ "idle" \in Phases
    BY <1>7 DEF Unlock, Phases
  <2>2. \A x \in Threads \ {th} : phase'[x] = phase[x]
    BY <1>1, <2>1, ProceedSteps
  <2>3. down' = down /\ broken' = IF phase'[th] = "idle" THEN broken \ {th} ELSE broken
    BY <1>7 DEF Unlock
  <2> QED
    BY <1>1, <2>2, <2>3 DEF BrokenInv, SharedTypeOK
<1>8. ASSUME NEW th \in Threads, NEW t \in Targets, ReadShared(th, t)
      PROVE  BrokenInv'
  BY <1>1, <1>8 DEF ReadShared, BrokenInv
<1> QED
  BY <1>2, <1>3, <1>4, <1>5, <1>6, <1>7, <1>8 DEF SharedNext

\* A register which nobody holds has no elements which are to be written, and
\* one which a thread holds has only those of this thread.
LEMMA OnlyHolderFills ==
  ASSUME SharedInv, NEW x \in Threads, NEW i \in Filled(x)
  PROVE  i \in Positions(x) /\ TargetAt(x, i) \in Targets /\ holder[TargetAt(x, i)] = x /\ holder[TargetAt(x, i)] # NoThread
<1>1. i \in Locked(x) /\ i \in Positions(x)
  BY LockedFacts DEF SharedInv
<1>2. NoThread \notin Threads
  BY TargetAssumption
<1> QED
  BY <1>1, <1>2, GroupFacts DEF SharedInv, LockInv

\* Steps which neither change the data nor who has filled the buffer
LEMMA BufferKept ==
  ASSUME BufferInv, UNCHANGED <<accessorKind, register, buffer, remembered, expected>>,
         \A x \in Threads : Filled(x)' = Filled(x),
         \A x \in Threads : Filled(x) # {} => values'[x] = values[x]
  PROVE  BufferInv'
<1>1. \A x \in Threads, t \in Targets, e \in Elements : FilledIn(x, t, e)' <=> FilledIn(x, t, e)
  BY DEF FilledIn, TargetAt
<1>2. \A t \in Targets : Fresh(t)' <=> Fresh(t)
  BY DEF Fresh, TargetAt
<1>3. \A x \in Threads, t \in Targets, e \in Elements : FilledIn(x, t, e) => values'[x] = values[x]
  BY DEF FilledIn
<1>4. \A x \in Threads : \A i \in Filled(x) : Fresh(TargetAt(x, i))'
  BY DEF BufferInv, Fresh, TargetAt
<1>5. Elements' = Elements
  BY DEF Elements
<1> QED
  BY <1>1, <1>2, <1>3, <1>4, <1>5 DEF BufferInv, TargetAt

LEMMA BeginBuffer ==
  ASSUME SharedInv, BufferInv, NEW th \in Threads, Begin(th)
  PROVE  BufferInv'
<1>1. \A x \in Threads : Filled(x)' = Filled(x)
  BY BeginSets
<1>2. Filled(th) = {}
  <2>1. phase[th] = "idle"
    BY DEF Begin
  <2> QED
    BY <2>1 DEF Filled
<1>3. \A x \in Threads \ {th} : values'[x] = values[x]
  BY DEF Begin, SharedInv, SharedTypeOK
<1> QED
  BY <1>1, <1>2, <1>3, BufferKept DEF Begin

LEMMA ReadBuffer ==
  ASSUME SharedInv, BufferInv, NEW th \in Threads, NEW t \in Targets, ReadShared(th, t)
  PROVE  BufferInv'
<1>1. \A x \in Threads : Filled(x)' = Filled(x)
  BY SetsStay DEF ReadShared
<1>2. /\ holder[t] = NoThread /\ buffer' = [buffer EXCEPT ![t] = register[t]] /\ remembered' = remembered \cup {t}
      /\ UNCHANGED <<accessorKind, register, values, expected>>
  BY DEF ReadShared
<1>3. buffer'[t] = register[t] /\ \A u \in Targets \ {t} : buffer'[u] = buffer[u]
  BY <1>2 DEF SharedInv, SharedTypeOK
<1>4. \A x \in Threads : \A i \in Filled(x) : TargetAt(x, i) # t
  BY <1>2, OnlyHolderFills
<1>5. \A x \in Threads, u \in Targets, e \in Elements :
        /\ FilledIn(x, u, e)' <=> FilledIn(x, u, e)
        /\ FilledIn(x, u, e) => u # t
  BY <1>1, <1>4 DEF FilledIn, TargetAt
<1>6. \A u \in Targets : Fresh(u) => Fresh(u)'
  BY <1>1, <1>2 DEF Fresh, TargetAt
<1>7. \A u \in Targets : Fresh(u)' /\ u # t => Fresh(u)
  BY <1>1, <1>2 DEF Fresh, TargetAt
<1>8. \A x \in Threads : \A i \in Filled(x) : Fresh(TargetAt(x, i))'
  <2>1. \A x \in Threads : \A i \in Filled(x) : TargetAt(x, i) \in Targets /\ Fresh(TargetAt(x, i))
    BY OnlyHolderFills DEF BufferInv
  <2> QED
    BY <1>6, <2>1 DEF TargetAt
<1>9. Elements' = Elements
  BY DEF Elements
<1>10. \A u \in Targets, e \in Elements :
         Fresh(u)' /\ expected[u][e] # Unknown /\ (\A x \in Threads : ~FilledIn(x, u, e)) => buffer'[u][e] = expected[u][e]
  <2> SUFFICES ASSUME NEW u \in Targets, NEW e \in Elements,
                      Fresh(u)', expected[u][e] # Unknown, \A x \in Threads : ~FilledIn(x, u, e)
               PROVE  buffer'[u][e] = expected[u][e]
    OBVIOUS
  <2>1. CASE u = t
    BY <1>3, <2>1 DEF BufferInv
  <2>2. CASE u # t
    BY <1>3, <1>7, <2>2 DEF BufferInv
  <2> QED
    BY <2>1, <2>2
<1>11. \A x \in Threads, u \in Targets, e \in Elements : FilledIn(x, u, e) => buffer'[u][e] = values[x]
  BY <1>3, <1>5 DEF BufferInv
<1>12. \A u \in Targets, e \in Elements : expected[u][e] # Unknown => register[u][e] = expected[u][e]
  BY DEF BufferInv
<1> QED
  BY <1>1, <1>2, <1>5, <1>8, <1>9, <1>10, <1>11, <1>12 DEF BufferInv, TargetAt

LEMMA ReopenBuffer ==
  ASSUME SharedInv, Reopen
  PROVE  BufferInv'
<1>1. \A x \in Threads : Filled(x)' = {}
  BY DEF Reopen, Filled
<1>2. \A x \in Threads, u \in Targets, e \in Elements : ~FilledIn(x, u, e)'
  BY <1>1 DEF FilledIn
<1>3. \A u \in Targets : Fresh(u)' => accessorKind = "bit"
  BY <1>1 DEF Fresh, Reopen
<1>4. expected' = [t \in Targets |-> [i \in Elements |-> IF accessorKind = "bit" THEN Unknown ELSE register'[t][i]]]
  BY DEF Reopen
<1>5. \A u \in Targets, e \in Elements : expected'[u][e] = IF accessorKind = "bit" THEN Unknown ELSE register'[u][e]
  BY <1>4
<1>6. Elements' = Elements
  BY DEF Elements
<1> QED
  BY <1>1, <1>2, <1>3, <1>5, <1>6 DEF BufferInv, TargetAt

LEMMA TransferBuffer ==
  ASSUME SharedInv, BufferInv, NEW th \in Threads, Transfer(th), ~down'
  PROVE  BufferInv'
<1> DEFINE own(t) == OwnElements(th, t)
<1>1. /\ Filled(th) = Positions(th) /\ Filled(th)' = {}
      /\ \A x \in Threads \ {th} : Filled(x)' = Filled(x)
  BY TransferSets
<1>2. /\ register' = [t \in Targets |-> IF t \in Written(th) THEN buffer[t] ELSE register[t]]
      /\ expected' = [t \in Targets |-> [i \in Elements |-> IF i \in own(t) THEN values[th] ELSE expected[t][i]]]
      /\ UNCHANGED <<accessorKind, buffer, remembered, values>>
  BY DEF Transfer
<1>3. \A t, e : e \in own(t) <=> FilledIn(th, t, e)
  <2>1. Range(Group[th]) = {Group[th][i] : i \in Positions(th)}
    BY GroupFacts
  <2> QED
    BY <1>1, <2>1 DEF OwnElements, FilledIn, TargetAt
<1>4. \A t : t \in Written(th) <=> \E i \in Filled(th) : TargetAt(th, i) = t
  <2>1. Range(Group[th]) = {Group[th][i] : i \in Positions(th)}
    BY GroupFacts
  <2> QED
    BY <1>1, <2>1 DEF Written, TargetAt
<1>5. \A t, e : FilledIn(th, t, e) => t \in Written(th)
  BY <1>4 DEF FilledIn
<1>6. \A x \in Threads \ {th}, t \in Targets, e \in Elements : t \in Written(th) => ~FilledIn(x, t, e)
  <2>1. \A t \in Targets : t \in Written(th) => holder[t] = th
    BY <1>4, OnlyHolderFills
  <2>2. \A x \in Threads, t \in Targets, e \in Elements : FilledIn(x, t, e) => holder[t] = x
    BY OnlyHolderFills DEF FilledIn
  <2> QED
    BY <2>1, <2>2
<1>7. \A t \in Targets : t \in Written(th) => Fresh(t)
  BY <1>4 DEF BufferInv
<1>8. \A x \in Threads, t \in Targets, e \in Elements : FilledIn(x, t, e)' <=> x # th /\ FilledIn(x, t, e)
  BY <1>1 DEF FilledIn, TargetAt
<1>9. \A t \in Targets : Fresh(t)' => Fresh(t)
  BY <1>1, <1>2 DEF Fresh, TargetAt
<1>10. /\ \A t \in Targets : register'[t] = IF t \in Written(th) THEN buffer[t] ELSE register[t]
       /\ \A t \in Targets, e \in Elements : expected'[t][e] = IF FilledIn(th, t, e) THEN values[th] ELSE expected[t][e]
  BY <1>2, <1>3
<1> HIDE DEF own
<1>11. \A t \in Targets, e \in Elements : expected'[t][e] # Unknown => register'[t][e] = expected'[t][e]
  <2> SUFFICES ASSUME NEW t \in Targets, NEW e \in Elements, expected'[t][e] # Unknown
               PROVE  register'[t][e] = expected'[t][e]
    OBVIOUS
  <2>1. CASE FilledIn(th, t, e)
    BY <1>5, <1>10, <2>1 DEF BufferInv
  <2>2. CASE ~FilledIn(th, t, e) /\ t \in Written(th)
    <3>1. Fresh(t) /\ expected[t][e] # Unknown /\ \A x \in Threads : ~FilledIn(x, t, e)
      BY <1>6, <1>7, <1>10, <2>2
    <3> QED
      BY <1>10, <2>2, <3>1 DEF BufferInv
  <2>3. CASE t \notin Written(th)
    BY <1>5, <1>10, <2>3 DEF BufferInv
  <2> QED
    BY <2>1, <2>2, <2>3
<1>12. \A t \in Targets, e \in Elements :
         Fresh(t)' /\ expected'[t][e] # Unknown /\ (\A x \in Threads : ~FilledIn(x, t, e)') => buffer[t][e] = expected'[t][e]
  <2> SUFFICES ASSUME NEW t \in Targets, NEW e \in Elements,
                      Fresh(t)', expected'[t][e] # Unknown, \A x \in Threads : ~FilledIn(x, t, e)'
               PROVE  buffer[t][e] = expected'[t][e]
    OBVIOUS
  <2>1. CASE FilledIn(th, t, e)
    BY <1>10, <2>1 DEF BufferInv
  <2>2. CASE ~FilledIn(th, t, e)
    <3>1. \A x \in Threads : ~FilledIn(x, t, e)
      BY <1>8, <2>2
    <3> QED
      BY <1>9, <1>10, <2>2, <3>1 DEF BufferInv
  <2> QED
    BY <2>1, <2>2
<1>13. \A x \in Threads, t \in Targets, e \in Elements : FilledIn(x, t, e)' => buffer[t][e] = values[x]
  BY <1>8 DEF BufferInv
<1>14. \A x \in Threads : \A i \in Filled(x)' : Fresh(TargetAt(x, i))'
  <2> SUFFICES ASSUME NEW x \in Threads, NEW i \in Filled(x)'
               PROVE  Fresh(TargetAt(x, i))'
    OBVIOUS
  <2>1. x # th /\ i \in Filled(x) /\ Fresh(TargetAt(x, i))
    BY <1>1 DEF BufferInv
  <2> QED
    BY <1>2, <2>1 DEF Fresh, TargetAt
<1>15. Elements' = Elements
  BY DEF Elements
<1> QED
  BY <1>2, <1>11, <1>12, <1>13, <1>14, <1>15 DEF BufferInv, TargetAt

\* The register is read before the first element of it is set, and not again.
LEMMA ReadsFirst ==
  ASSUME SharedInv, BufferInv, CountsOneRegister, NEW th \in Threads, phase[th] = "fill", Filled(th) = 1 .. (at[th] - 1),
         Locked(th) = 1 .. at[th], NEW t \in Targets, t = Target[Accessor(th)]
  PROVE  /\ Reads(th, t) => \A e \in Elements : ~FilledIn(th, t, e)
         /\ ~Reads(th, t) => Fresh(t)
<1>1. at[th] \in Positions(th) /\ at[th] \in Nat /\ at[th] >= 1 /\ Len(Group[th]) \in Nat /\ 1 \in Positions(th)
  BY GroupFacts DEF SharedInv, SharedTypeOK, PhaseInv, Positions
<1>2. targetUseCount[th] = at[th]
  <2>1. \A n \in Nat : n >= 1 => Cardinality(1 .. n) = n
    <3>1. \A n \in Nat : n >= 1 => (IF 1 > n THEN 0 ELSE n - 1 + 1) = n
      OBVIOUS
    <3>2. ASSUME NEW n \in Nat
          PROVE  Cardinality(1 .. n) = IF 1 > n THEN 0 ELSE n - 1 + 1
      <4>1. n \in Int /\ 1 \in Int
        OBVIOUS
      <4> QED
        BY <4>1, FS_Interval, Zenon
    <3> QED
      BY <3>1, <3>2
  <2>2. Cardinality(1 .. at[th]) = at[th]
    BY <1>1, <2>1
  <2> QED
    BY <2>2 DEF SharedInv, LockInv
<1>3. accessorKind \in {"bit", "bitRange", "subArray"}
  BY DEF SharedInv, SharedTypeOK
<1>4. CASE accessorKind = "bit"
  BY <1>4 DEF Reads, Fresh
<1>5. CASE accessorKind = "subArray"
  <2>1. Reads(th, t) <=> t \notin remembered
    BY <1>5 DEF Reads
  <2>2. \A u : Fresh(u) => u \in remembered
    BY <1>5 DEF Fresh
  <2>3. \A e \in Elements : FilledIn(th, t, e) => t \in remembered
    BY <2>2 DEF FilledIn, BufferInv
  <2> QED
    BY <1>5, <2>1, <2>3 DEF Fresh
<1>6. CASE accessorKind = "bitRange"
  <2>1. Reads(th, t) <=> ~(Len(Group[th]) > 1) \/ at[th] = 1
    BY <1>2, <1>6 DEF Reads, InGroup
  <2>2. ~(Len(Group[th]) > 1) => at[th] = 1
    BY <1>1 DEF Positions
  <2>3. at[th] = 1 => Filled(th) = {}
    BY <1>1
  <2>4. at[th] # 1 => 1 \in Filled(th)
    BY <1>1
  <2>5. TargetAt(th, 1) = t
    <3>1. \A i, j \in DOMAIN Group[th] : Target[Group[th][i]] = Target[Group[th][j]]
      BY <1>6 DEF CountsOneRegister, OneTargetPerGroup
    <3>2. DOMAIN Group[th] = Positions(th)
      BY TargetAssumption DEF Positions
    <3> QED
      BY <1>1, <3>1, <3>2 DEF TargetAt, Accessor
  <2> QED
    BY <1>6, <2>1, <2>2, <2>3, <2>4, <2>5 DEF FilledIn, Fresh
<1> QED
  BY <1>3, <1>4, <1>5, <1>6

LEMMA FillBuffer ==
  ASSUME SharedInv, BufferInv, CountsOneRegister, NEW th \in Threads, Fill(th), ~down'
  PROVE  BufferInv'
<1>1. SharedTypeOK /\ PhaseInv /\ BrokenInv /\ phase[th] = "fill"
  BY DEF SharedInv, Fill
<1>2. PICK n \in Positions(th) : n = at[th]
  BY <1>1 DEF PhaseInv
<1>3. PICK t \in Targets : t = Target[Accessor(th)]
  BY <1>1, GroupFacts DEF PhaseInv, TargetAt, Accessor
<1>4. PICK own : own = Mask[Accessor(th)]
  OBVIOUS
<1>5. TargetAt(th, n) = t /\ Mask[Group[th][n]] = own
  BY <1>2, <1>3, <1>4 DEF TargetAt, Accessor
<1>6. PICK read : read = IF Reads(th, t) THEN register[t] ELSE buffer[t]
  OBVIOUS
<1>7. /\ buffer' = [buffer EXCEPT ![t] = [i \in Elements |-> IF i \in own THEN values[th] ELSE read[i]]]
      /\ remembered' = IF Reads(th, t) THEN remembered \cup {t} ELSE remembered
      /\ broken' = broken /\ down' = down
      /\ UNCHANGED <<accessorKind, register, values, expected>>
  BY <1>3, <1>4, <1>6 DEF Fill
<1>8. th \notin broken'
  BY <1>7 DEF SharedInv, BrokenInv
<1>9. /\ Filled(th)' = Filled(th) \cup {n}
      /\ \A x \in Threads \ {th} : Filled(x)' = Filled(x)
      /\ Filled(th) = 1 .. (at[th] - 1) /\ Locked(th) = 1 .. at[th]
  BY <1>2, <1>8, FillSets
<1>10. /\ Reads(th, t) => \A e \in Elements : ~FilledIn(th, t, e)
       /\ ~Reads(th, t) => Fresh(t)
  BY <1>1, <1>3, <1>9, ReadsFirst
<1>11. /\ \A e \in Elements : buffer'[t][e] = IF e \in own THEN values[th] ELSE read[e]
       /\ \A u \in Targets \ {t} : buffer'[u] = buffer[u]
  BY <1>1, <1>7 DEF SharedTypeOK
<1>12. holder[t] = th
  <2>1. n \in Locked(th)
    <3>1. \A k \in Nat : k >= 1 => k \in 1 .. k
      OBVIOUS
    <3>2. at[th] \in Nat /\ at[th] >= 1
      BY <1>1, GroupFacts DEF PhaseInv, SharedTypeOK, Positions
    <3> QED
      BY <1>2, <1>9, <3>1, <3>2
  <2> QED
    BY <1>5, <2>1 DEF SharedInv, LockInv
<1>13. \A x \in Threads \ {th}, u \in Targets, e \in Elements : FilledIn(x, u, e) => u # t
  BY <1>12, OnlyHolderFills DEF FilledIn
<1>14. /\ \A x \in Threads \ {th}, u \in Targets, e \in Elements : FilledIn(x, u, e)' <=> FilledIn(x, u, e)
       /\ \A u \in Targets, e \in Elements : FilledIn(th, u, e)' <=> FilledIn(th, u, e) \/ (u = t /\ e \in own)
  BY <1>5, <1>9 DEF FilledIn, TargetAt
<1>15. /\ \A u \in Targets : Fresh(u) => Fresh(u)'
       /\ \A u \in Targets : Fresh(u)' /\ u # t => Fresh(u)
  BY <1>5, <1>7, <1>9 DEF Fresh, TargetAt
<1>16. Fresh(t)'
  <2>1. CASE Reads(th, t) /\ accessorKind # "bitRange"
    BY <1>7, <2>1 DEF Reads, Fresh, SharedInv, SharedTypeOK
  <2>2. CASE accessorKind = "bitRange"
    BY <1>5, <1>7, <1>9, <2>2 DEF Fresh, TargetAt
  <2>3. CASE ~Reads(th, t)
    BY <1>10, <1>15, <2>3
  <2> QED
    BY <2>1, <2>2, <2>3
<1>17. \A u \in Targets, e \in Elements :
         Fresh(u)' /\ expected[u][e] # Unknown /\ (\A x \in Threads : ~FilledIn(x, u, e)') => buffer'[u][e] = expected[u][e]
  <2> SUFFICES ASSUME NEW u \in Targets, NEW e \in Elements,
                      Fresh(u)', expected[u][e] # Unknown, \A x \in Threads : ~FilledIn(x, u, e)'
               PROVE  buffer'[u][e] = expected[u][e]
    OBVIOUS
  <2>1. \A x \in Threads : ~FilledIn(x, u, e)
    BY <1>14
  <2>2. CASE u # t
    BY <1>11, <1>15, <2>1, <2>2 DEF BufferInv
  <2>3. CASE u = t
    <3>1. e \notin own
      BY <1>14, <2>3
    <3>2. buffer'[t][e] = read[e]
      BY <1>11, <3>1
    <3>3. read[e] = expected[t][e]
      <4>1. CASE Reads(th, t)
        BY <1>6, <2>3, <4>1 DEF BufferInv
      <4>2. CASE ~Reads(th, t)
        BY <1>6, <1>10, <2>1, <2>3, <4>2 DEF BufferInv
      <4> QED
        BY <4>1, <4>2
    <3> QED
      BY <2>3, <3>2, <3>3
  <2> QED
    BY <2>2, <2>3
<1>18. \A x \in Threads, u \in Targets, e \in Elements : FilledIn(x, u, e)' => buffer'[u][e] = values[x]
  <2> SUFFICES ASSUME NEW x \in Threads, NEW u \in Targets, NEW e \in Elements, FilledIn(x, u, e)'
               PROVE  buffer'[u][e] = values[x]
    OBVIOUS
  <2>1. CASE x # th
    BY <1>11, <1>13, <1>14, <2>1 DEF BufferInv
  <2>2. CASE x = th /\ u # t
    BY <1>11, <1>14, <2>2 DEF BufferInv
  <2>3. CASE x = th /\ u = t /\ e \in own
    BY <1>11, <2>3
  <2>4. CASE x = th /\ u = t /\ e \notin own
    <3>1. FilledIn(th, t, e)
      BY <1>14, <2>4
    <3>2. read[e] = buffer[t][e]
      BY <1>6, <1>10, <3>1
    <3> QED
      BY <1>11, <2>4, <3>1, <3>2 DEF BufferInv
  <2> QED
    BY <2>1, <2>2, <2>3, <2>4
<1>19. \A x \in Threads : \A i \in Filled(x)' : Fresh(TargetAt(x, i))'
  <2> SUFFICES ASSUME NEW x \in Threads, NEW i \in Filled(x)'
               PROVE  Fresh(TargetAt(x, i))'
    OBVIOUS
  <2>1. CASE i \in Filled(x)
    <3>1. Fresh(TargetAt(x, i)) /\ TargetAt(x, i) \in Targets
      BY <2>1, OnlyHolderFills DEF BufferInv
    <3> QED
      BY <1>15, <3>1 DEF TargetAt
  <2>2. CASE i \notin Filled(x)
    <3>1. TargetAt(x, i) = t
      BY <1>5, <1>9, <2>2
    <3> QED
      BY <1>16, <3>1 DEF TargetAt
  <2> QED
    BY <2>1, <2>2
<1>20. Elements' = Elements
  BY DEF Elements
<1>21. \A u \in Targets, e \in Elements : expected[u][e] # Unknown => register[u][e] = expected[u][e]
  BY DEF BufferInv
<1> QED
  BY <1>7, <1>17, <1>18, <1>19, <1>20, <1>21 DEF BufferInv, TargetAt

LEMMA SharedStep ==
  ASSUME SharedInv, [SharedNext]_sharedVars
  PROVE  SharedInv'
<1>1. CASE SharedNext
  <2>1. SharedTypeOK' /\ PhaseInv' /\ LockInv' /\ BrokenInv'
    BY <1>1, SharedTypeStep, LockStep, BrokenStep
  <2>2. accessorKind' = accessorKind
    BY <1>1 DEF SharedNext, Reopen, Begin, Lock, Fill, Transfer, Unlock, ReadShared
  <2>3. ASSUME CountsOneRegister, ~down'
        PROVE  BufferInv'
    <3>1. CASE Reopen
      BY <3>1, ReopenBuffer
    <3>2. ASSUME NEW th \in Threads, Begin(th)
          PROVE  BufferInv'
      <4>1. ~down
        BY <3>2 DEF Begin
      <4> QED
        BY <2>3, <3>2, <4>1, BeginBuffer DEF SharedInv
    <3>3. ASSUME NEW th \in Threads, Lock(th)
          PROVE  BufferInv'
      <4>1. ~down
        BY <2>3, <3>3 DEF Lock
      <4>2. BufferInv
        BY <2>3, <4>1 DEF SharedInv
      <4> QED
        BY <3>3, <4>2, LockSets, BufferKept DEF Lock
    <3>4. ASSUME NEW th \in Threads, Fill(th)
          PROVE  BufferInv'
      <4>1. ~down
        BY <2>3, <3>4 DEF Fill
      <4> QED
        BY <2>3, <3>4, <4>1, FillBuffer DEF SharedInv
    <3>5. ASSUME NEW th \in Threads, Transfer(th)
          PROVE  BufferInv'
      <4>1. ~down
        BY <2>3, <3>5 DEF Transfer
      <4> QED
        BY <2>3, <3>5, <4>1, TransferBuffer DEF SharedInv
    <3>6. ASSUME NEW th \in Threads, Unlock(th)
          PROVE  BufferInv'
      <4>1. ~down
        BY <2>3, <3>6 DEF Unlock
      <4>2. BufferInv
        BY <2>3, <4>1 DEF SharedInv
      <4> QED
        BY <3>6, <4>2, UnlockSets, BufferKept DEF Unlock
    <3>7. ASSUME NEW th \in Threads, NEW t \in Targets, ReadShared(th, t)
          PROVE  BufferInv'
      <4>1. ~down
        BY <3>7 DEF ReadShared
      <4> QED
        BY <2>3, <3>7, <4>1, ReadBuffer DEF SharedInv
    <3> QED
      BY <1>1, <3>1, <3>2, <3>3, <3>4, <3>5, <3>6, <3>7 DEF SharedNext
  <2>4. CountsOneRegister' => (down' \/ BufferInv')
    BY <2>2, <2>3 DEF CountsOneRegister
  <2> QED
    BY <2>1, <2>4 DEF SharedInv
<1>2. CASE UNCHANGED sharedVars
  <2>1. \A x \in Threads : phase'[x] = phase[x] /\ at'[x] = at[x]
    BY <1>2 DEF sharedVars
  <2>2. \A x \in Threads : Locked(x)' = Locked(x) /\ Filled(x)' = Filled(x)
    BY <2>1, SetsStay
  <2>3. SharedTypeOK' /\ PhaseInv' /\ BrokenInv'
    BY <1>2 DEF sharedVars, SharedInv, SharedTypeOK, PhaseInv, BrokenInv, Elements, Positions
  <2>4. LockInv'
    BY <1>2, <2>2, LocksStay DEF sharedVars, SharedInv, locks
  <2>5. BufferInv => BufferInv'
    BY <1>2, <2>2, BufferKept DEF sharedVars
  <2>6. (CountsOneRegister' <=> CountsOneRegister) /\ (down' <=> down)
    BY <1>2 DEF sharedVars, CountsOneRegister
  <2> QED
    BY <2>3, <2>4, <2>5, <2>6 DEF SharedInv
<1> QED
  BY <1>1, <1>2

LEMMA SharedInvInit == SharedInit => SharedInv
<1> SUFFICES ASSUME SharedInit
             PROVE  SharedInv
  OBVIOUS
<1>1. PICK x \in {0, 1} : register = [t \in Targets |-> [i \in Elements |-> x]]
  BY DEF SharedInit
<1>2. \A th \in Threads : Locked(th) = {} /\ Filled(th) = {}
  BY DEF SharedInit, Locked, Filled
<1>3. SharedTypeOK
  <2>1. expected \in [Targets -> [Elements -> {0, 1, Unknown}]]
    BY <1>1 DEF SharedInit
  <2>2. register \in [Targets -> [Elements -> {0, 1}]]
    BY <1>1
  <2>3. "idle" \in Phases
    BY DEF Phases
  <2> QED
    BY <2>1, <2>2, <2>3 DEF SharedInit, SharedTypeOK
<1>4. PhaseInv
  BY GroupFacts DEF SharedInit, PhaseInv
<1>5. LockInv
  <2>1. Cardinality({}) = 0
    BY FS_EmptySet
  <2>2. \A th \in Threads : targetUseCount[th] = Cardinality(Locked(th))
    BY <1>2, <2>1 DEF SharedInit
  <2>3. \A t \in Targets : holder[t] = NoThread /\ held[t] = 0
    BY DEF SharedInit
  <2> QED
    BY <1>2, <2>2, <2>3, TargetAssumption DEF LockInv
<1>6. BrokenInv
  BY DEF SharedInit, BrokenInv
<1>7. BufferInv
  <2>1. \A t \in Targets, e \in Elements : expected[t][e] = IF accessorKind = "bit" THEN Unknown ELSE register[t][e]
    BY DEF SharedInit
  <2>2. \A t : Fresh(t) => accessorKind = "bit"
    BY <1>2 DEF SharedInit, Fresh
  <2> QED
    BY <1>2, <2>1, <2>2 DEF BufferInv, FilledIn
<1> QED
  BY <1>3, <1>4, <1>5, <1>6, <1>7 DEF SharedInv

LEMMA SharedInvImplies ==
  ASSUME SharedInv
  PROVE  LocksReleased /\ (CountsOneRegister => OthersAreKept)
<1>1. \A th \in Threads : phase[th] = "idle" => Locked(th) = {} /\ \A t : LockedOn(th, t) = {}
  BY DEF Locked, LockedOn
<1>2. Cardinality({}) = 0 /\ ~(0 > 0)
  BY FS_EmptySet
<1>3. LocksReleased
  BY <1>1, <1>2 DEF LocksReleased, SharedInv, LockInv
<1>4. CountsOneRegister => OthersAreKept
  BY DEF OthersAreKept, SharedInv, BufferInv
<1> QED
  BY <1>3, <1>4

(***************************************************************************)
(* Threads which write bits or parts of the same register through a shared *)
(* buffer keep what the others have written, and after errors what the     *)
(* recovery has found; every thread has released all mutexes when its      *)
(* transfer is over.                                                       *)
(***************************************************************************)
THEOREM PartsAreKept ==
  ASSUME OneTargetPerGroup
  PROVE  SharedSpec => [](OthersAreKept /\ LocksReleased)
<1>1. SharedInv => OthersAreKept /\ LocksReleased
  BY SharedInvImplies DEF CountsOneRegister
<1> QED
  BY <1>1, SharedInvInit, SharedStep, PTL DEF SharedSpec

-----------------------------------------------------------------------------
(* The composition                                                          *)

(***************************************************************************)
(* Every behaviour of the composition is one of each of the four modules   *)
(* which keep their variables: it changes them as the module does, or not  *)
(* at all.                                                                 *)
(***************************************************************************)
THEOREM PartsAreTheModules == RegistersSpec => Spec /\ VariableSpec /\ SharedSpec /\ FanOutSpec
<1>1. RegistersInit => Init /\ VariableInit /\ SharedInit /\ FanOutInit
  BY DEF RegistersInit
<1>2. [RegistersNext]_allVars => [Next]_vars
  BY DEF RegistersNext, allVars, ownVars
<1>3. [RegistersNext]_allVars => [VariableNext]_variableVars
  BY DEF RegistersNext, allVars, ownVars
<1>4. [RegistersNext]_allVars => [SharedNext]_sharedVars
  BY DEF RegistersNext, allVars, ownVars
<1>5. [RegistersNext]_allVars => [FanOutNext]_fanOutVars
  BY DEF RegistersNext, allVars, ownVars
<1> QED
  BY <1>1, <1>2, <1>3, <1>4, <1>5, PTL DEF RegistersSpec, Spec, VariableSpec, SharedSpec, FanOutSpec

(***************************************************************************)
(* The realm of the composition gives one version for each key, in the     *)
(* order of the keys.                                                      *)
(***************************************************************************)
THEOREM RealmStaysConsistent ==
  RegistersSpec => [](RealmInv /\ LargerKeyLargerVersion) /\ SameKeySameVersion
BY PartsAreTheModules, RealmInvariant, KeysInOrder, KeysConsistent, PTL

(***************************************************************************)
(* The variables of the composition arrive at all subscribers.             *)
(***************************************************************************)
THEOREM VariablesAlwaysArrive ==
  ASSUME ~WriteWhileActivating
  PROVE  RegistersSpec => []VariablesArrive
<1>1. NewestValueArrives /\ NewestIsFresh => VariablesArrive
  BY DEF VariablesArrive
<1> QED
  BY <1>1, PartsAreTheModules, SubscribersAreCurrent, PTL

(***************************************************************************)
(* The writes of the composition arrive together, and keep the parts of    *)
(* the registers which others have written.                                *)
(***************************************************************************)
THEOREM WritesAlwaysArrive ==
  ASSUME OneTargetPerGroup
  PROVE  RegistersSpec => []WritesArriveTogether
<1>1. OthersAreKept /\ LocksReleased /\ FanOutDelivers => WritesArriveTogether
  BY DEF WritesArriveTogether
<1> QED
  BY <1>1, PartsAreTheModules, PartsAreKept, FanOutIsComplete, PTL

=============================================================================

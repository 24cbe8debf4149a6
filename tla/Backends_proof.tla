--------------------------- MODULE Backends_proof ---------------------------
(***************************************************************************)
(* Proofs about three special backends: about DoubleBuffer for every set   *)
(* of readers, every number of accessors in their groups and every number  *)
(* of frames, about Subdevice for every size of the data register and of   *)
(* the chips and every alignment of the registers, and about SharedDummy   *)
(* for every set of processes which may crash and every set of interrupts; *)
(* and about the Factory of all backends for every dmap file.              *)
(***************************************************************************)
EXTENDS DoubleBuffer, Subdevice, SharedDummy, Factory, FiniteSetTheorems, WellFoundedInduction, TLAPS

-----------------------------------------------------------------------------
(* DoubleBuffer: the inductive invariant *)

Labels == {"idle", "current", "first", "second", "post"}

DoubleBufferType ==
  /\ kind \in {"numeric", "plugin"}
  /\ enabled \in BOOLEAN /\ error \in BOOLEAN
  /\ current \in {0, 1}
  /\ written \in 0 .. 2
  /\ halves \in [{0, 1} -> [{1, 2} -> Nat]]
  /\ frame \in Nat
  /\ pc \in [Readers -> Labels]
  /\ accessor \in [Readers -> Nat]
  /\ \A r \in Readers : accessor[r] \in 1 .. Group[r]
  /\ currentBuffer \in [Readers -> {0, 1}]
  /\ half \in [Readers -> Nat]
  /\ failed \in [Readers -> SUBSET Nat]

\* Accessor i of reader r is between the first part of its doPreRead() and its
\* doPostRead().
Counts(r, i) ==
  \/ pc[r] = "idle" /\ i < accessor[r]
  \/ pc[r] = "current" /\ i <= accessor[r]
  \/ pc[r] \in {"first", "second"}
  \/ pc[r] = "post" /\ i >= accessor[r]
Counted == {p \in Readers \X Nat : p[2] \in 1 .. Group[p[1]] /\ Counts(p[1], p[2])}

\* The counters are the numbers of these accessors, and the mutex has their reader.
CountInv ==
  /\ IsFiniteSet(Counted)
  /\ kind = "plugin" => readerCount = Cardinality(Counted) /\ useCount = 0 /\ owner = NoReader
  /\ kind = "numeric" => /\ useCount = Cardinality(Counted) /\ readerCount = 0
                         /\ owner = NoReader <=> Counted = {}
                         /\ \A p \in Counted : p[1] = owner

\* The firmware does not swap the buffers while a reader relies on it.
Relies(r) ==
  \/ pc[r] \in {"first", "second"}
  \/ failed[r] = {} /\ (pc[r] = "current" \/ (pc[r] = "idle" /\ accessor[r] > 1))
SwapInv == \A r \in Readers : Relies(r) => ~enabled

\* The buffer which is not written to has one frame. A reader reads that one.
FrameInv ==
  /\ written > 0 => halves[current][1] = frame
  /\ written = 2 => halves[current][2] = frame
  /\ halves[1 - current][1] = halves[1 - current][2]
ReaderInv ==
  /\ \A r \in Readers : pc[r] \in {"first", "second"} => currentBuffer[r] = current
  /\ \A r \in Readers : pc[r] = "second" => half[r] = halves[1 - current][1]
  /\ ~torn

DoubleBufferInv == DoubleBufferType /\ CountInv /\ SwapInv /\ FrameInv /\ ReaderInv

-----------------------------------------------------------------------------
(* What the parts of the steps do *)

\* A reader goes to its next accessor, or to its next phase.
LEMMA AdvanceStep ==
  ASSUME DoubleBufferAssumption, DoubleBufferType, NEW r \in Readers,
         NEW again \in Labels, NEW next \in Labels, Advance(r, again, next)
  PROVE  /\ \/ accessor[r] < Group[r] /\ pc'[r] = again /\ accessor'[r] = accessor[r] + 1
            \/ accessor[r] = Group[r] /\ pc'[r] = next /\ accessor'[r] = 1
         /\ \A q \in Readers \ {r} : pc'[q] = pc[q] /\ accessor'[q] = accessor[q]
         /\ pc' \in [Readers -> Labels] /\ accessor' \in [Readers -> Nat]
         /\ \A q \in Readers : accessor'[q] \in 1 .. Group[q]
<1>1. accessor[r] \in 1 .. Group[r] /\ Group[r] \in Nat \ {0}
  BY DEF DoubleBufferType, DoubleBufferAssumption
<1>2. CASE accessor[r] < Group[r]
  <2>1. pc' = [pc EXCEPT ![r] = again] /\ accessor' = [accessor EXCEPT ![r] = accessor[r] + 1]
    BY <1>2 DEF Advance
  <2>2. QED
    BY <1>1, <1>2, <2>1 DEF DoubleBufferType
<1>3. CASE ~(accessor[r] < Group[r])
  <2>1. pc' = [pc EXCEPT ![r] = next] /\ accessor' = [accessor EXCEPT ![r] = 1]
    BY <1>3 DEF Advance
  <2>2. accessor[r] = Group[r]
    BY <1>1, <1>3
  <2>3. QED
    BY <1>1, <2>1, <2>2 DEF DoubleBufferType
<1>4. QED
  BY <1>2, <1>3

\* The steps which concern no counter.
LEMMA CountedUnchanged ==
  ASSUME CountInv, UNCHANGED <<kind, sync>>, Counted' = Counted
  PROVE  CountInv'
BY DEF CountInv, sync

\* Counted depends on the places of the readers only.
LEMMA CountedSame ==
  ASSUME \A r \in Readers, i \in Nat : i \in 1 .. Group[r] => (Counts(r, i)' <=> Counts(r, i))
  PROVE  Counted' = Counted
BY DEF Counted

-----------------------------------------------------------------------------
(* The steps *)

LEMMA InvInit == ASSUME DoubleBufferAssumption, DoubleBufferInit PROVE DoubleBufferInv
<1> USE DEF DoubleBufferInit
<1>1. DoubleBufferType
  <2>1. enabled \in BOOLEAN /\ error \in BOOLEAN
    BY Zenon
  <2>2. kind \in {"numeric", "plugin"} /\ current \in {0, 1} /\ written \in 0 .. 2 /\ frame \in Nat
    OBVIOUS
  <2>3. halves \in [{0, 1} -> [{1, 2} -> Nat]]
    OBVIOUS
  <2>4. pc \in [Readers -> Labels] /\ accessor \in [Readers -> Nat]
    BY DEF Labels
  <2>5. \A r \in Readers : accessor[r] \in 1 .. Group[r]
    BY DEF DoubleBufferAssumption
  <2>6. currentBuffer \in [Readers -> {0, 1}] /\ half \in [Readers -> Nat]
    OBVIOUS
  <2>7. failed \in [Readers -> SUBSET Nat]
    OBVIOUS
  <2>8. QED
    BY <2>1, <2>2, <2>3, <2>4, <2>5, <2>6, <2>7 DEF DoubleBufferType
<1>2. Counted = {}
  BY DEF Counted, Counts
<1>3. CountInv
  BY <1>2, FS_EmptySet DEF CountInv
<1>4. SwapInv /\ FrameInv /\ ReaderInv
  BY DEF SwapInv, Relies, FrameInv, ReaderInv
<1>5. QED
  BY <1>1, <1>3, <1>4 DEF DoubleBufferInv

\* The firmware writes to its buffer, which nobody reads.
LEMMA FirmwareStep ==
  ASSUME DoubleBufferAssumption, DoubleBufferInv, WriteHalf \/ NextFrame
  PROVE  DoubleBufferInv'
<1> DoubleBufferType /\ CountInv /\ SwapInv /\ FrameInv /\ ReaderInv
  BY DEF DoubleBufferInv
<1>1. UNCHANGED <<kind, sync, pc, accessor, failed, enabled, currentBuffer, half, error, torn>>
  BY DEF WriteHalf, NextFrame
<1>2. CountInv' /\ SwapInv'
  <2>1. Counted' = Counted
    BY <1>1 DEF Counted, Counts
  <2>2. QED
    BY <1>1, <2>1, CountedUnchanged DEF SwapInv, Relies
<1>3. CASE WriteHalf
  <2>1. /\ current' = current /\ frame' = frame /\ written' = written + 1 /\ written \in {0, 1}
        /\ halves' = [halves EXCEPT ![current] = [halves[current] EXCEPT ![written + 1] = frame]]
    BY <1>3 DEF WriteHalf, DoubleBufferType
  <2>2. /\ halves'[current] = [halves[current] EXCEPT ![written + 1] = frame]
        /\ halves'[1 - current] = halves[1 - current]
        /\ halves' \in [{0, 1} -> [{1, 2} -> Nat]]
    BY <2>1 DEF DoubleBufferType
  <2>3. DoubleBufferType'
    BY <1>1, <2>1, <2>2 DEF DoubleBufferType
  <2>4. halves'[current][written + 1] = frame /\ (written = 1 => halves'[current][1] = halves[current][1])
    BY <2>1, <2>2 DEF DoubleBufferType
  <2>5. FrameInv'
    BY <2>1, <2>2, <2>4 DEF FrameInv
  <2>6. ReaderInv'
    BY <1>1, <2>1, <2>2 DEF ReaderInv
  <2>7. QED
    BY <1>2, <2>3, <2>5, <2>6 DEF DoubleBufferInv
<1>4. CASE NextFrame
  <2>1. /\ current' = IF enabled THEN 1 - current ELSE current
        /\ frame' = (frame + 1) % Frames /\ written = 2 /\ written' = 0 /\ halves' = halves
    BY <1>4 DEF NextFrame
  <2>2. frame' \in Nat
    BY <2>1 DEF DoubleBufferType, DoubleBufferAssumption
  <2>3. DoubleBufferType'
    BY <1>1, <2>1, <2>2 DEF DoubleBufferType
  <2>4. FrameInv'
    BY <2>1 DEF FrameInv, DoubleBufferType
  <2>5. ReaderInv'
    <3>1. (\E r \in Readers : pc[r] \in {"first", "second"}) => current' = current
      BY <2>1 DEF SwapInv, Relies
    <3>2. QED
      BY <1>1, <2>1, <3>1 DEF ReaderInv
  <2>6. QED
    BY <1>2, <2>3, <2>4, <2>5 DEF DoubleBufferInv
<1>5. QED
  BY <1>3, <1>4

\* Opening the device again concerns neither the readers nor the firmware.
LEMMA RecoverStep ==
  ASSUME DoubleBufferAssumption, DoubleBufferInv, Recover
  PROVE  DoubleBufferInv'
<1> USE DEF Recover, firmware, sync, DoubleBufferInv
<1>1. DoubleBufferType'
  BY DEF DoubleBufferType
<1>2. Counted' = Counted
  BY DEF Counted, Counts
<1>3. QED
  BY <1>1, <1>2, CountedUnchanged DEF SwapInv, Relies, FrameInv, ReaderInv

\* An access to the hardware which leaves the register enableDoubleBuffering.
LEMMA AccessOther ==
  ASSUME DoubleBufferType, NEW r \in Readers, Access(r, UNCHANGED enabled)
  PROVE  /\ enabled' = enabled /\ error' \in BOOLEAN
         /\ failed' \in [Readers -> SUBSET Nat] /\ failed[r] \subseteq failed'[r]
         /\ \A q \in Readers \ {r} : failed'[q] = failed[q]
<1>1. CASE ~error /\ UNCHANGED enabled /\ UNCHANGED <<error, failed>>
  BY <1>1 DEF DoubleBufferType
<1>2. CASE /\ error' = TRUE /\ UNCHANGED enabled
           /\ failed' = [failed EXCEPT ![r] = @ \cup {accessor[r]}]
  BY <1>2 DEF DoubleBufferType
<1>3. QED
  BY <1>1, <1>2 DEF Access

\* Disabling the swapping, which may fail.
LEMMA AccessDisables ==
  ASSUME DoubleBufferType, NEW r \in Readers, Access(r, enabled' = FALSE)
  PROVE  /\ enabled' = FALSE \/ (enabled' = enabled /\ accessor[r] \in failed'[r])
         /\ error' \in BOOLEAN
         /\ failed' \in [Readers -> SUBSET Nat] /\ failed[r] \subseteq failed'[r]
         /\ \A q \in Readers \ {r} : failed'[q] = failed[q]
<1>1. CASE ~error /\ enabled' = FALSE /\ UNCHANGED <<error, failed>>
  BY <1>1 DEF DoubleBufferType
<1>2. CASE /\ error' = TRUE /\ UNCHANGED enabled
           /\ failed' = [failed EXCEPT ![r] = @ \cup {accessor[r]}]
  BY <1>2 DEF DoubleBufferType
<1>3. QED
  BY <1>1, <1>2 DEF Access

\* The first part of doPreRead() counts one more accessor, and swapping is
\* disabled afterwards, or the transfers of the reader are skipped.
LEMMA AcquireStep ==
  ASSUME DoubleBufferAssumption, DoubleBufferInv, NEW r \in Readers, Acquire(r)
  PROVE  DoubleBufferInv'
<1> DoubleBufferType /\ CountInv /\ SwapInv /\ FrameInv /\ ReaderInv
  BY DEF DoubleBufferInv
<1> DEFINE a == accessor[r]
<1>1. /\ pc[r] = "idle" /\ a \in 1 .. Group[r] /\ Group[r] \in Nat \ {0} /\ a \in Nat
      /\ UNCHANGED <<kind, firmware, currentBuffer, half, torn>>
  BY DEF Acquire, DoubleBufferType, DoubleBufferAssumption
<1>2. /\ error' \in BOOLEAN /\ enabled' \in BOOLEAN
      /\ failed' \in [Readers -> SUBSET Nat] /\ failed[r] \subseteq failed'[r]
      /\ \A q \in Readers \ {r} : failed'[q] = failed[q]
      /\ enabled => ~enabled' \/ failed'[r] # {}
      /\ ~enabled => ~enabled'
  <2>1. CASE Access(r, enabled' = FALSE)
    <3>1. /\ enabled' = FALSE \/ (enabled' = enabled /\ a \in failed'[r])
          /\ error' \in BOOLEAN
          /\ failed' \in [Readers -> SUBSET Nat] /\ failed[r] \subseteq failed'[r]
          /\ \A q \in Readers \ {r} : failed'[q] = failed[q]
      BY <2>1, AccessDisables
    <3>2. enabled' \in BOOLEAN /\ (~enabled => ~enabled')
      <4>1. enabled \in BOOLEAN
        BY DEF DoubleBufferType
      <4>2. enabled' = FALSE \/ enabled' = enabled
        BY <3>1
      <4>3. enabled' \in BOOLEAN
        BY <4>1, <4>2
      <4>4. ~enabled => ~enabled'
        <5>1. CASE enabled' = FALSE
          BY <5>1
        <5>2. CASE enabled' = enabled
          BY <5>2
        <5>3. QED
          BY <4>2, <5>1, <5>2
      <4>5. QED
        BY <4>3, <4>4
    <3>3. enabled => ~enabled' \/ failed'[r] # {}
      BY <3>1
    <3>4. QED
      BY <3>1, <3>2, <3>3
  <2>2. CASE kind = "numeric" /\ useCount' # 1 /\ UNCHANGED <<enabled, failed, error>>
    <3>1. useCount' = useCount + 1 /\ owner \in {NoReader, r}
      BY <2>2 DEF Acquire
    <3>2. Counted # {}
      BY <2>2, <3>1, FS_EmptySet DEF CountInv
    <3>3. owner = r
      BY <2>2, <3>1, <3>2 DEF CountInv
    <3>4. PICK p \in Counted : p[1] = r
      BY <2>2, <3>2, <3>3 DEF CountInv
    <3>5. p[2] < a /\ p[2] \in 1 .. Group[r]
      BY <1>1, <3>4 DEF Counted, Counts
    <3>6. a > 1
      BY <1>1, <3>5
    <3>7. ~enabled \/ failed[r] # {}
      BY <1>1, <3>6 DEF SwapInv, Relies
    <3>8. QED
      BY <2>2, <3>7 DEF DoubleBufferType
  <2>3. QED
    BY <2>1, <2>2 DEF Acquire, DoubleBufferType
<1>3. /\ pc'[r] \in {"idle", "current", "post"}
      /\ \A q \in Readers \ {r} : pc'[q] = pc[q] /\ accessor'[q] = accessor[q]
      /\ pc' \in [Readers -> Labels] /\ accessor' \in [Readers -> Nat]
      /\ \A q \in Readers : accessor'[q] \in 1 .. Group[q]
      /\ \A i \in 1 .. Group[r] : Counts(r, i)' <=> Counts(r, i) \/ i = a
  <2>1. CASE a \in failed'[r]
    <3>1. Advance(r, "idle", "post")
      BY <2>1 DEF Acquire, PreReadDone
    <3>2. /\ \/ a < Group[r] /\ pc'[r] = "idle" /\ accessor'[r] = a + 1
             \/ a = Group[r] /\ pc'[r] = "post" /\ accessor'[r] = 1
          /\ \A q \in Readers \ {r} : pc'[q] = pc[q] /\ accessor'[q] = accessor[q]
          /\ pc' \in [Readers -> Labels] /\ accessor' \in [Readers -> Nat]
          /\ \A q \in Readers : accessor'[q] \in 1 .. Group[q]
      BY <3>1, AdvanceStep DEF Labels
    <3>3. QED
      BY <1>1, <3>2 DEF Counts
  <2>2. CASE a \notin failed'[r]
    <3>1. pc' = [pc EXCEPT ![r] = "current"] /\ accessor' = accessor
      BY <2>2 DEF Acquire
    <3>2. QED
      BY <1>1, <3>1 DEF DoubleBufferType, Labels, Counts
  <2>3. QED
    BY <2>1, <2>2
<1>4. DoubleBufferType'
  BY <1>1, <1>2, <1>3 DEF DoubleBufferType, firmware
<1>5. CountInv'
  <2>1. Counted' = Counted \cup {<<r, a>>} /\ <<r, a>> \notin Counted
    <3>1. \A p \in Readers \X Nat : p[1] # r => (Counts(p[1], p[2])' <=> Counts(p[1], p[2]))
      BY <1>3 DEF Counts
    <3>2. \A p \in Readers \X Nat : p[1] = r /\ p[2] = a <=> p = <<r, a>>
      BY <1>1
    <3>3. \A p \in Readers \X Nat : p \in Counted' <=> p \in Counted \/ p = <<r, a>>
      BY <1>1, <1>3, <3>1, <3>2 DEF Counted
    <3>4. <<r, a>> \notin Counted
      BY <1>1 DEF Counted, Counts
    <3>5. Counted \subseteq Readers \X Nat /\ Counted' \subseteq Readers \X Nat /\ <<r, a>> \in Readers \X Nat
      BY <1>1 DEF Counted
    <3>6. QED
      BY <3>3, <3>4, <3>5
  <2>2. IsFiniteSet(Counted') /\ Cardinality(Counted') = Cardinality(Counted) + 1
    BY <2>1, FS_AddElement DEF CountInv
  <2>3. CASE kind = "plugin"
    <3>1. kind' = "plugin" /\ readerCount' = readerCount + 1 /\ UNCHANGED <<owner, useCount>>
      BY <1>1, <2>3 DEF Acquire
    <3>2. QED
      BY <2>2, <2>3, <3>1 DEF CountInv
  <2>4. CASE kind = "numeric"
    <3>1. /\ kind' = "numeric" /\ owner \in {NoReader, r} /\ owner' = r /\ useCount' = useCount + 1
          /\ UNCHANGED readerCount
      BY <1>1, <2>4 DEF Acquire
    <3>2. \A p \in Counted' : p[1] = r
      BY <2>1, <2>4, <3>1 DEF CountInv
    <3>3. r # NoReader
      BY DEF DoubleBufferAssumption
    <3>4. QED
      BY <2>1, <2>2, <2>4, <3>1, <3>2, <3>3 DEF CountInv
  <2>5. QED
    BY <2>3, <2>4 DEF DoubleBufferType
<1>6. SwapInv'
  <2>1. \A q \in Readers \ {r} : Relies(q)' <=> Relies(q)
    BY <1>2, <1>3 DEF Relies
  <2>2. Relies(r)' => failed'[r] = {}
    BY <1>3 DEF Relies
  <2>3. QED
    BY <1>2, <2>1, <2>2 DEF SwapInv, DoubleBufferType
<1>7. FrameInv' /\ ReaderInv'
  BY <1>1, <1>3 DEF FrameInv, ReaderInv, firmware
<1>8. QED
  BY <1>4, <1>5, <1>6, <1>7 DEF DoubleBufferInv

\* The steps between the two parts of the transfer and its end count the same
\* accessors.
LEMMA MiddleStep ==
  ASSUME DoubleBufferAssumption, DoubleBufferInv, NEW r \in Readers, UNCHANGED <<kind, firmware, sync>>,
         enabled' = enabled, error' \in BOOLEAN,
         failed' \in [Readers -> SUBSET Nat], failed[r] \subseteq failed'[r],
         \A q \in Readers \ {r} : failed'[q] = failed[q] /\ pc'[q] = pc[q] /\ accessor'[q] = accessor[q]
                                  /\ currentBuffer'[q] = currentBuffer[q] /\ half'[q] = half[q],
         pc' \in [Readers -> Labels], accessor' \in [Readers -> Nat],
         \A q \in Readers : accessor'[q] \in 1 .. Group[q],
         currentBuffer' \in [Readers -> {0, 1}], half' \in [Readers -> Nat],
         \A i \in 1 .. Group[r] : Counts(r, i)' <=> Counts(r, i),
         Relies(r)' => ~enabled,
         pc'[r] \in {"first", "second"} => currentBuffer'[r] = current,
         pc'[r] = "second" => half'[r] = halves[1 - current][1],
         ~torn'
  PROVE  DoubleBufferInv'
<1> DoubleBufferType /\ CountInv /\ SwapInv /\ FrameInv /\ ReaderInv
  BY DEF DoubleBufferInv
<1>1. DoubleBufferType'
  BY DEF DoubleBufferType, firmware
<1>2. \A q \in Readers, i \in Nat : i \in 1 .. Group[q] => (Counts(q, i)' <=> Counts(q, i))
  BY DEF Counts
<1>3. CountInv'
  BY <1>2, CountedSame, CountedUnchanged
<1>4. SwapInv'
  BY DEF SwapInv, Relies
<1>5. FrameInv' /\ ReaderInv'
  BY DEF FrameInv, ReaderInv, firmware
<1>6. QED
  BY <1>1, <1>3, <1>4, <1>5 DEF DoubleBufferInv

\* The last accessor which reads the number of the buffer in use decides for
\* the reader, while the firmware does not change it.
LEMMA ReadCurrentStep ==
  ASSUME DoubleBufferAssumption, DoubleBufferInv, NEW r \in Readers, ReadCurrent(r)
  PROVE  DoubleBufferInv'
<1> DoubleBufferType /\ CountInv /\ SwapInv /\ FrameInv /\ ReaderInv
  BY DEF DoubleBufferInv
<1> DEFINE a == accessor[r]
           next == IF failed'[r] = {} THEN "first" ELSE "post"
<1>1. /\ pc[r] = "current" /\ a \in 1 .. Group[r] /\ Group[r] \in Nat \ {0}
      /\ UNCHANGED <<kind, firmware, sync, half, torn>>
  BY DEF ReadCurrent, DoubleBufferType, DoubleBufferAssumption
<1>2. /\ enabled' = enabled /\ error' \in BOOLEAN
      /\ failed' \in [Readers -> SUBSET Nat] /\ failed[r] \subseteq failed'[r]
      /\ \A q \in Readers \ {r} : failed'[q] = failed[q]
  BY AccessOther DEF ReadCurrent
<1>3. /\ \/ a < Group[r] /\ pc'[r] = "idle" /\ accessor'[r] = a + 1
         \/ a = Group[r] /\ pc'[r] = next /\ accessor'[r] = 1
      /\ \A q \in Readers \ {r} : pc'[q] = pc[q] /\ accessor'[q] = accessor[q]
      /\ pc' \in [Readers -> Labels] /\ accessor' \in [Readers -> Nat]
      /\ \A q \in Readers : accessor'[q] \in 1 .. Group[q]
  <2>1. Advance(r, "idle", next) /\ next \in Labels /\ "idle" \in Labels
    BY DEF ReadCurrent, PreReadDone, Labels
  <2> HIDE DEF next
  <2>2. QED
    BY <2>1, AdvanceStep
<1>4. \A i \in 1 .. Group[r] : Counts(r, i)' <=> Counts(r, i)
  BY <1>1, <1>3 DEF Counts
<1>5. /\ currentBuffer' \in [Readers -> {0, 1}]
      /\ \A q \in Readers \ {r} : currentBuffer'[q] = currentBuffer[q]
      /\ failed'[r] = {} => currentBuffer'[r] = current
  <2>1. CASE a \in failed'[r]
    BY <2>1 DEF ReadCurrent, DoubleBufferType
  <2>2. CASE a \notin failed'[r]
    <3>1. currentBuffer' = [currentBuffer EXCEPT ![r] = current]
      BY <2>2 DEF ReadCurrent
    <3>2. QED
      BY <3>1 DEF DoubleBufferType
  <2>3. QED
    BY <2>1, <2>2
<1>6. /\ Relies(r)' => failed'[r] = {}
      /\ failed'[r] = {} => ~enabled
      /\ pc'[r] \in {"first", "second"} => failed'[r] = {}
      /\ pc'[r] # "second"
  <2>1. failed'[r] = {} => ~enabled
    BY <1>1, <1>2 DEF SwapInv, Relies
  <2>2. QED
    BY <1>3, <2>1 DEF Relies
<1>7. half' \in [Readers -> Nat] /\ ~torn'
  BY <1>1 DEF DoubleBufferType, ReaderInv
<1>8. QED
  BY <1>1, <1>2, <1>3, <1>4, <1>5, <1>6, <1>7, MiddleStep

\* The buffer of a reader is the other one than that of the firmware.
LEMMA SelectedBuffer ==
  ASSUME DoubleBufferInv, NEW r \in Readers, pc[r] \in {"first", "second"}
  PROVE  Selected(r) = 1 - current /\ ~enabled
BY DEF DoubleBufferInv, DoubleBufferType, ReaderInv, SwapInv, Relies, Selected

\* The first part of the transfer.
LEMMA ReadFirstStep ==
  ASSUME DoubleBufferAssumption, DoubleBufferInv, NEW r \in Readers, ReadFirst(r)
  PROVE  DoubleBufferInv'
<1> DoubleBufferType /\ CountInv /\ SwapInv /\ FrameInv /\ ReaderInv
  BY DEF DoubleBufferInv
<1> DEFINE a == accessor[r]
<1>1. /\ pc[r] = "first" /\ a \in 1 .. Group[r] /\ Group[r] \in Nat \ {0}
      /\ UNCHANGED <<kind, firmware, sync, currentBuffer, torn>>
  BY DEF ReadFirst, DoubleBufferType, DoubleBufferAssumption
<1>2. /\ enabled' = enabled /\ error' \in BOOLEAN
      /\ failed' \in [Readers -> SUBSET Nat] /\ failed[r] \subseteq failed'[r]
      /\ \A q \in Readers \ {r} : failed'[q] = failed[q]
  BY AccessOther DEF ReadFirst
<1>3. Selected(r) = 1 - current /\ ~enabled /\ currentBuffer[r] = current
  BY <1>1, SelectedBuffer DEF ReaderInv
<1>4. /\ \/ pc'[r] = "first"
         \/ pc'[r] = "second" /\ half'[r] = halves[1 - current][1]
         \/ pc'[r] = "post" /\ accessor'[r] = 1
      /\ \A q \in Readers \ {r} : pc'[q] = pc[q] /\ accessor'[q] = accessor[q] /\ half'[q] = half[q]
      /\ pc' \in [Readers -> Labels] /\ accessor' \in [Readers -> Nat] /\ half' \in [Readers -> Nat]
      /\ \A q \in Readers : accessor'[q] \in 1 .. Group[q]
  <2>1. CASE a \in failed'[r]
    <3>1. Advance(r, "first", "post") /\ half' = half
      BY <2>1 DEF ReadFirst
    <3>2. /\ \/ a < Group[r] /\ pc'[r] = "first" /\ accessor'[r] = a + 1
             \/ a = Group[r] /\ pc'[r] = "post" /\ accessor'[r] = 1
          /\ \A q \in Readers \ {r} : pc'[q] = pc[q] /\ accessor'[q] = accessor[q]
          /\ pc' \in [Readers -> Labels] /\ accessor' \in [Readers -> Nat]
          /\ \A q \in Readers : accessor'[q] \in 1 .. Group[q]
      BY <3>1, AdvanceStep DEF Labels
    <3>3. QED
      BY <3>1, <3>2 DEF DoubleBufferType
  <2>2. CASE a \notin failed'[r]
    <3>1. /\ half' = [half EXCEPT ![r] = halves[1 - current][1]]
          /\ pc' = [pc EXCEPT ![r] = "second"] /\ accessor' = accessor
      BY <1>3, <2>2 DEF ReadFirst
    <3>2. halves[1 - current][1] \in Nat
      BY DEF DoubleBufferType
    <3>3. QED
      BY <3>1, <3>2 DEF DoubleBufferType, Labels
  <2>3. QED
    BY <2>1, <2>2
<1>5. \A i \in 1 .. Group[r] : Counts(r, i)' <=> Counts(r, i)
  BY <1>1, <1>4 DEF Counts
<1>6. currentBuffer' \in [Readers -> {0, 1}] /\ ~torn'
  BY <1>1 DEF DoubleBufferType, ReaderInv
<1>7. QED
  BY <1>1, <1>2, <1>3, <1>4, <1>5, <1>6, MiddleStep

\* The second part finds the same frame as the first one.
LEMMA ReadSecondStep ==
  ASSUME DoubleBufferAssumption, DoubleBufferInv, NEW r \in Readers, ReadSecond(r)
  PROVE  DoubleBufferInv'
<1> DoubleBufferType /\ CountInv /\ SwapInv /\ FrameInv /\ ReaderInv
  BY DEF DoubleBufferInv
<1> DEFINE a == accessor[r]
<1>1. /\ pc[r] = "second" /\ a \in 1 .. Group[r] /\ Group[r] \in Nat \ {0}
      /\ UNCHANGED <<kind, firmware, sync, currentBuffer, half>>
  BY DEF ReadSecond, DoubleBufferType, DoubleBufferAssumption
<1>2. /\ enabled' = enabled /\ error' \in BOOLEAN
      /\ failed' \in [Readers -> SUBSET Nat] /\ failed[r] \subseteq failed'[r]
      /\ \A q \in Readers \ {r} : failed'[q] = failed[q]
  BY AccessOther DEF ReadSecond
<1>3. Selected(r) = 1 - current /\ ~enabled /\ currentBuffer[r] = current
  BY <1>1, SelectedBuffer DEF ReaderInv
<1>4. ~torn'
  <2>1. half[r] = halves[Selected(r)][2]
    BY <1>1, <1>3 DEF ReaderInv, FrameInv
  <2>2. QED
    BY <2>1 DEF ReadSecond, ReaderInv
<1>5. /\ \/ a < Group[r] /\ pc'[r] = "first" /\ accessor'[r] = a + 1
         \/ a = Group[r] /\ pc'[r] = "post" /\ accessor'[r] = 1
      /\ \A q \in Readers \ {r} : pc'[q] = pc[q] /\ accessor'[q] = accessor[q]
      /\ pc' \in [Readers -> Labels] /\ accessor' \in [Readers -> Nat]
      /\ \A q \in Readers : accessor'[q] \in 1 .. Group[q]
  <2>1. Advance(r, "first", "post")
    BY DEF ReadSecond
  <2>2. QED
    BY <2>1, AdvanceStep DEF Labels
<1>6. \A i \in 1 .. Group[r] : Counts(r, i)' <=> Counts(r, i)
  BY <1>1, <1>5 DEF Counts
<1>7. currentBuffer' \in [Readers -> {0, 1}] /\ half' \in [Readers -> Nat]
  BY <1>1 DEF DoubleBufferType
<1>8. QED
  BY <1>1, <1>2, <1>3, <1>4, <1>5, <1>6, <1>7, MiddleStep

\* doPostRead() counts one accessor less. Who enables the swapping is the last
\* one, so no other reader relies on it.
LEMMA ReleaseStep ==
  ASSUME DoubleBufferAssumption, DoubleBufferInv, NEW r \in Readers, Release(r)
  PROVE  DoubleBufferInv'
<1> DoubleBufferType /\ CountInv /\ SwapInv /\ FrameInv /\ ReaderInv
  BY DEF DoubleBufferInv
<1> DEFINE a == accessor[r]
<1>1. /\ pc[r] = "post" /\ a \in 1 .. Group[r] /\ Group[r] \in Nat \ {0} /\ a \in Nat
      /\ UNCHANGED <<kind, firmware, currentBuffer, half, torn>>
  BY DEF Release, DoubleBufferType, DoubleBufferAssumption
<1>2. /\ \/ a < Group[r] /\ pc'[r] = "post" /\ accessor'[r] = a + 1
         \/ a = Group[r] /\ pc'[r] = "idle" /\ accessor'[r] = 1
      /\ \A q \in Readers \ {r} : pc'[q] = pc[q] /\ accessor'[q] = accessor[q]
      /\ pc' \in [Readers -> Labels] /\ accessor' \in [Readers -> Nat]
      /\ \A q \in Readers : accessor'[q] \in 1 .. Group[q]
  <2>1. Advance(r, "post", "idle")
    BY DEF Release
  <2>2. QED
    BY <2>1, AdvanceStep DEF Labels
<1>3. /\ failed' \in [Readers -> SUBSET Nat]
      /\ \A q \in Readers \ {r} : failed'[q] = failed[q]
  <2>1. CASE pc'[r] = "idle"
    <3>1. failed' = [failed EXCEPT ![r] = {}]
      BY <2>1 DEF Release
    <3>2. QED
      BY <3>1 DEF DoubleBufferType
  <2>2. CASE pc'[r] # "idle"
    <3>1. failed' = failed
      BY <2>2 DEF Release
    <3>2. QED
      BY <3>1 DEF DoubleBufferType
  <2>3. QED
    BY <2>1, <2>2
<1>4. /\ enabled' \in BOOLEAN /\ error' \in BOOLEAN
      /\ enabled' => enabled \/ Enables(r)
  <2>1. CASE Enables(r)
    BY <2>1 DEF Release, DoubleBufferType
  <2>2. CASE ~Enables(r)
    BY <2>2 DEF Release, DoubleBufferType
  <2>3. QED
    BY <2>1, <2>2
<1>5. DoubleBufferType'
  BY <1>1, <1>2, <1>3, <1>4 DEF DoubleBufferType, firmware
<1>6. Counted' = Counted \ {<<r, a>>} /\ <<r, a>> \in Counted
  <2>1. \A p \in Readers \X Nat : p[1] # r => (Counts(p[1], p[2])' <=> Counts(p[1], p[2]))
    BY <1>2 DEF Counts
  <2>2. \A p \in Readers \X Nat : p[1] = r /\ p[2] = a <=> p = <<r, a>>
    BY <1>1
  <2>3. \A i \in 1 .. Group[r] : Counts(r, i)' <=> Counts(r, i) /\ i # a
    BY <1>1, <1>2 DEF Counts
  <2>4. \A p \in Readers \X Nat : p \in Counted' <=> p \in Counted /\ p # <<r, a>>
    BY <1>1, <2>1, <2>2, <2>3 DEF Counted
  <2>5. <<r, a>> \in Counted
    BY <1>1 DEF Counted, Counts
  <2>6. Counted \subseteq Readers \X Nat /\ Counted' \subseteq Readers \X Nat
    BY DEF Counted
  <2>7. QED
    BY <2>4, <2>5, <2>6
<1>7. IsFiniteSet(Counted') /\ Cardinality(Counted') = Cardinality(Counted) - 1
      /\ Cardinality(Counted') \in Nat
  <2>1. IsFiniteSet(Counted)
    BY DEF CountInv
  <2>2. IsFiniteSet(Counted') /\ Cardinality(Counted') = Cardinality(Counted) - 1
    BY <1>6, <2>1, FS_RemoveElement
  <2>3. QED
    BY <2>2, FS_CardinalityType
<1>8. Cardinality(Counted') = 0 <=> Counted' = {}
  BY <1>7, FS_EmptySet
<1>9. CountInv' /\ (Enables(r) => Counted' = {})
  <2>1. CASE kind = "plugin"
    <3>1. kind' = "plugin" /\ readerCount' = readerCount - 1 /\ UNCHANGED <<owner, useCount>>
      BY <1>1, <2>1 DEF Release, Uncount
    <3>2. QED
      BY <1>7, <1>8, <2>1, <3>1 DEF CountInv, Enables
  <2>2. CASE kind = "numeric"
    <3>1. /\ kind' = "numeric" /\ useCount' = useCount - 1 /\ UNCHANGED readerCount
          /\ owner' = IF useCount' = 0 THEN NoReader ELSE owner
      BY <1>1, <2>2 DEF Release, Uncount
    <3>2. owner # NoReader /\ \A p \in Counted' : p[1] = owner
      BY <1>6, <2>2 DEF CountInv
    <3>3. QED
      BY <1>7, <1>8, <2>2, <3>1, <3>2 DEF CountInv, Enables
  <2>3. QED
    BY <2>1, <2>2 DEF DoubleBufferType
<1>10. SwapInv'
  <2>1. \A q \in Readers : Relies(q)' => Relies(q)
    BY <1>1, <1>2, <1>3 DEF Relies
  <2>2. \A q \in Readers : Relies(q)' => <<q, 1>> \in Counted'
    <3>1. SUFFICES ASSUME NEW q \in Readers, Relies(q)' PROVE <<q, 1>> \in Counted'
      OBVIOUS
    <3>2. 1 \in 1 .. Group[q] /\ accessor'[q] \in 1 .. Group[q]
      BY <1>2 DEF DoubleBufferAssumption
    <3>3. Counts(q, 1)'
      BY <3>1, <3>2 DEF Relies, Counts
    <3>4. QED
      BY <3>2, <3>3 DEF Counted
  <2>3. QED
    BY <1>4, <1>9, <2>1, <2>2 DEF SwapInv
<1>11. FrameInv' /\ ReaderInv'
  BY <1>1, <1>2 DEF FrameInv, ReaderInv, firmware
<1>12. QED
  BY <1>5, <1>9, <1>10, <1>11 DEF DoubleBufferInv

-----------------------------------------------------------------------------
(* The theorems *)

\* Every step keeps the invariant.
LEMMA InvNext ==
  ASSUME DoubleBufferAssumption, DoubleBufferInv, [DoubleBufferNext]_doubleBufferVars
  PROVE  DoubleBufferInv'
<1>1. CASE DoubleBufferNext
  BY <1>1, FirmwareStep, RecoverStep, AcquireStep, ReadCurrentStep, ReadFirstStep, ReadSecondStep,
     ReleaseStep DEF DoubleBufferNext
<1>2. CASE UNCHANGED doubleBufferVars
  BY <1>2 DEF doubleBufferVars, firmware, sync, DoubleBufferInv, DoubleBufferType, CountInv, Counted,
     Counts, SwapInv, Relies, FrameInv, ReaderInv
<1>3. QED
  BY <1>1, <1>2

\* The invariant implies what the runs check.
LEMMA InvImplies ==
  ASSUME DoubleBufferAssumption, DoubleBufferInv
  PROVE  FramesAreWhole
<1> USE DEF DoubleBufferInv
<1>1. NeverTorn
  BY DEF ReaderInv, NeverTorn
<1>2. (\A r \in Readers : ~InTransfer(r)) => Counted = {}
  BY DEF InTransfer, Counted, Counts, DoubleBufferType
<1>3. Counted = {} => Cardinality(Counted) = 0
  BY FS_EmptySet
<1>4. owner # NoReader => InTransfer(owner)
  <2>1. SUFFICES ASSUME owner # NoReader PROVE InTransfer(owner)
    OBVIOUS
  <2>2. kind = "numeric" /\ Counted # {}
    BY <2>1 DEF CountInv, DoubleBufferType
  <2>3. PICK p \in Counted : p[1] = owner
    BY <2>2 DEF CountInv
  <2>4. owner \in Readers /\ p[2] \in Nat \ {0} /\ Counts(owner, p[2])
    BY <2>3 DEF Counted
  <2>5. accessor[owner] \in Nat
    BY <2>4 DEF DoubleBufferType
  <2>6. QED
    BY <2>4, <2>5 DEF Counts, InTransfer
<1>5. CountersMatch
  BY <1>2, <1>3, <1>4 DEF CountInv, CountersMatch
<1>6. QED
  BY <1>1, <1>5 DEF FramesAreWhole

(***************************************************************************)
(* No reader of a double buffer gets parts of two frames, and the counter  *)
(* of readers, or of the recursive mutex, matches those which are between  *)
(* doPreRead() and doPostRead(): with any number of readers and of         *)
(* accessors in their groups, and with failures of every access.           *)
(***************************************************************************)
THEOREM FramesStayWhole ==
  ASSUME DoubleBufferAssumption
  PROVE  DoubleBufferSpec => []FramesAreWhole
<1>1. DoubleBufferInit => DoubleBufferInv
  BY InvInit
<1>2. DoubleBufferInv /\ [DoubleBufferNext]_doubleBufferVars => DoubleBufferInv'
  BY InvNext
<1>3. DoubleBufferInv => FramesAreWhole
  BY InvImplies
<1>4. QED
  BY <1>1, <1>2, <1>3, PTL DEF DoubleBufferSpec

-----------------------------------------------------------------------------
(* Subdevice: first the arithmetic of blocks of words *)

\* Products of larger factors are larger.
LEMMA AtLeastTimes ==
  ASSUME NEW S \in Nat, NEW x \in Int, NEW y \in Int, x <= y
  PROVE  x * S <= y * S
<1>1. (y - x) \in Nat
  OBVIOUS
<1>2. (y - x) * S >= 0
  BY <1>1
<1> QED BY <1>2

LEMMA TimesAtLeast ==
  ASSUME NEW S \in Nat \ {0}, NEW x \in Nat
  PROVE  x * 1 <= x * S
<1>1. x * (S - 1) >= 0
  OBVIOUS
<1> QED BY <1>1

\* Quotient and remainder of a division.
LEMMA DivMod ==
  ASSUME NEW S \in Nat \ {0}, NEW x \in Nat
  PROVE  /\ x % S \in 0 .. (S - 1)
         /\ x \div S \in Int
         /\ x = (x \div S) * S + (x % S)
BY SMT

\* The quotient of a division.
LEMMA Quotient ==
  ASSUME NEW S \in Nat \ {0}, NEW x \in Nat, NEW q \in Nat
  PROVE  /\ x \div S = q <=> q * S <= x /\ x < (q + 1) * S
         /\ x \div S < q <=> x < q * S
         /\ x \div S \in Nat /\ x \div S <= x
<1> DEFINE d == x \div S
<1>1. d \in Int /\ (x % S) \in 0 .. S - 1 /\ x = d * S + (x % S)
  BY DivMod
<1>2. d * S \in Int /\ q * S \in Int /\ (q + 1) * S = q * S + S /\ (d + 1) * S = d * S + S
  BY <1>1
<1> HIDE DEF d
<1>3. d < q => (d + 1) * S <= q * S
  BY <1>1, <1>2, AtLeastTimes
<1>4. q < d => (q + 1) * S <= d * S
  BY <1>1, <1>2, AtLeastTimes
<1>5. d >= 0
  <2>1. SUFFICES ASSUME d + 1 <= 0 PROVE FALSE
    BY <1>1
  <2>2. (d + 1) * S <= 0 * S
    BY <1>1, <2>1, AtLeastTimes
  <2> QED BY <1>1, <1>2, <2>2
<1>6. d <= x
  <2>1. d * 1 <= d * S
    BY <1>1, <1>5, TimesAtLeast
  <2> QED BY <1>1, <1>2, <2>1
<1> QED BY <1>1, <1>2, <1>3, <1>4, <1>5, <1>6 DEF d

\* The words F, ..., F + W - 1 which are in the block q of S words: n of them
\* after the first c, from the position off of the block on.
OneBlockIs(S, F, W, q, c, n, off) ==
  /\ n \in Nat /\ c + n <= W /\ off \in Nat /\ off + n <= S
  /\ F + (c + n) = AtLeast(AtMost((q + 1) * S, F + W), F)
  /\ \A k \in 1 .. W :
       /\ (F + k - 1) \div S = q <=> k \in c + 1 .. c + n
       /\ k \in c + 1 .. c + n => ((F + k - 1) % S) + 1 = off + k - c
       /\ (F + k - 1) \div S < q <=> k <= c

LEMMA OneBlock ==
  ASSUME NEW S \in Nat \ {0}, NEW F \in Nat, NEW W \in Nat, NEW q \in Nat,
         q * S < F + W, F < (q + 1) * S,
         NEW c, F + c = AtLeast(AtMost(q * S, F + W), F), c \in Nat,
         NEW n, n = AtMost((q + 1) * S, F + W) - AtLeast(q * S, F),
         NEW off, off = AtLeast(F - q * S, 0)
  PROVE  OneBlockIs(S, F, W, q, c, n, off)
<1> DEFINE m == q * S
<1>1. m \in Nat /\ (q + 1) * S = m + S
  OBVIOUS
<1> HIDE DEF m
<1>2. m < F + W /\ F < m + S
  BY <1>1 DEF m
<1>3. /\ c = AtLeast(m, F) - F
      /\ n = AtMost(m + S, F + W) - AtLeast(m, F)
      /\ off = AtLeast(F - m, 0)
  BY <1>1, <1>2 DEF m, AtLeast, AtMost
<1>4. /\ n \in Nat /\ c + n <= W /\ off \in Nat /\ off + n <= S
      /\ F + (c + n) = AtLeast(AtMost(m + S, F + W), F)
  BY <1>1, <1>2, <1>3 DEF AtLeast, AtMost
<1>5. ASSUME NEW k \in 1 .. W
      PROVE  /\ (F + k - 1) \div S = q <=> k \in c + 1 .. c + n
             /\ k \in c + 1 .. c + n => ((F + k - 1) % S) + 1 = off + k - c
             /\ (F + k - 1) \div S < q <=> k <= c
  <2> DEFINE x == F + k - 1
             d == x \div S
             e == x % S
  <2>1. x \in Nat
    OBVIOUS
  <2> HIDE DEF x
  <2>2. /\ d = q <=> m <= x /\ x < m + S
        /\ d < q <=> x < m
    <3>1. /\ d = q <=> q * S <= x /\ x < (q + 1) * S
          /\ d < q <=> x < q * S
      BY <2>1, Quotient
    <3> HIDE DEF d, x
    <3> QED BY <1>1, <3>1 DEF m
  <2>3. k \in c + 1 .. c + n <=> m <= x /\ x < m + S
    BY <1>1, <1>2, <1>3 DEF AtLeast, AtMost, x
  <2>4. k <= c <=> x < m
    BY <1>1, <1>2, <1>3 DEF AtLeast, AtMost, x
  <2>5. d = q => x = m + e /\ e \in Int
    <3>1. x = d * S + e /\ e \in Int
      BY <2>1, DivMod
    <3> HIDE DEF d, e, x
    <3> QED BY <3>1 DEF m
  <2>6. k \in c + 1 .. c + n => e + 1 = off + k - c
    <3> HIDE DEF d, e
    <3> QED BY <1>1, <1>2, <1>3, <2>2, <2>3, <2>5 DEF AtLeast, AtMost, x
  <2> QED BY <2>2, <2>3, <2>4, <2>6 DEF x
<1> QED BY <1>1, <1>4, <1>5 DEF m, OneBlockIs

-----------------------------------------------------------------------------
(* The inductive invariant of Subdevice *)

\* All types of subdevices but areaHandshake number the words of a register,
\* which has its first word at First, in blocks of Size from Base on.
Base(r) == IF Type \in {"regWindow", "areaHandshake"} THEN 0 ELSE r.start
First(r) == IF Type \in {"regWindow", "areaHandshake"} THEN r.start ELSE 0
End(r) == First(r) + r.words
Handshake == Type = "areaHandshake"

Ranges == [start : Nat, words : Nat \ {0}]
Contents == [1 .. Size -> Int]
Transactions ==
  [kind : {"write"}, chip : Threads, address : 0 .. MaxAddress, data : Contents]
  \cup [kind : {"read"}, chip : Threads, address : 0 .. MaxAddress, data : {<<>>}]
Jobs ==
  [t : Threads, kind : {"read", "write"}, adr : Nat, copied : Int, retry : Int,
   pc : {"select", "address", "start", "wait", "fetch", "done"}]

SubdeviceTypeOK ==
  /\ range \in [Threads -> Ranges]
  /\ \A t \in Threads : range[t].start + range[t].words <= MaxAddress + 1
  /\ memory \in [Threads -> [0 .. MaxAddress -> Contents]]
  /\ registers \in [chipSelect : Threads \cup {Nothing}, address : Nat, readData : Contents]
  /\ hardware = Nothing \/ hardware \in Transactions
  /\ DOMAIN user = Threads /\ DOMAIN buffer = Threads /\ DOMAIN area = Threads
  /\ \A t \in Threads :
       /\ user[t] \in [1 .. range[t].words -> Int] /\ buffer[t] \in [1 .. range[t].words -> Int]
       /\ area[t] \in [1 .. range[t].words -> Int]
  /\ pending \in [Threads -> {Nothing, "read", "write"}]
  /\ job = Nothing \/ job \in Jobs

\* Only registers of the type regWindow are read, with a transaction for each
\* address; a thread has one transfer, and its words in the buffer to write.
RequestsOk ==
  /\ \A t \in Threads :
       pending[t] # Nothing =>
         /\ pending[t] = "read" => ~Handshake
         /\ pending[t] = "write" => \A k \in 1 .. range[t].words : buffer[t][k] = Word(t, k)
  /\ job # Nothing =>
       /\ pending[job.t] = Nothing
       /\ job.kind = "read" => ~Handshake
       /\ job.kind = "write" => \A k \in 1 .. range[job.t].words : buffer[job.t][k] = Word(job.t, k)
  /\ Handshake /\ hardware # Nothing => hardware.kind = "read"

\* Where the loop of a job is, and that the hardware is free after each turn.
LoopAt(j, r) ==
  /\ StartAddress(r) <= j.adr
  /\ j.pc = "select" => j.adr = StartAddress(r)
  /\ j.pc = "address" => j.adr <= EndAddress(r)
  /\ j.pc \in {"start", "wait", "fetch"} => j.adr < EndAddress(r)
  /\ j.pc = "done" => j.adr = EndAddress(r)
  /\ ~Handshake =>
       First(r) + j.copied = AtLeast(AtMost((j.adr - Base(r)) * Size, End(r)), First(r))
  /\ j.pc \in {"address", "start", "wait", "fetch"} /\ "chipSelectRegister" \in parameters => registers.chipSelect = j.t
  /\ ~Handshake /\ j.pc \in {"start", "wait", "fetch"} => registers.address = j.adr
  /\ j.pc = "fetch" => hardware = Nothing
  /\ ~late /\ j.pc # "wait" /\ j.adr # StartAddress(r) => hardware = Nothing

\* The words which a chip has at the place of a word, and in a block of data.
StoredWord(t, r, k) == memory[t][Place(r, k)[1]][Place(r, k)[2]]
HasWords(data, t, r, adr) ==
  \A k \in 1 .. r.words :
    Place(r, k)[1] = adr => data[Place(r, k)[2]] = Word(t, k)

\* What a job has transferred, and what is under way.
Transferred(j, r) ==
  /\ j.kind = "write" =>
       /\ \A k \in 1 .. r.words : k <= j.copied => StoredWord(j.t, r, k) = Word(j.t, k)
       /\ j.pc \in {"wait", "fetch"} =>
            \/ hardware = Nothing /\ HasWords(memory[j.t][j.adr], j.t, r, j.adr)
            \/ /\ hardware # Nothing /\ hardware.kind = "write" /\ hardware.chip = j.t /\ hardware.address = j.adr
               /\ HasWords(hardware.data, j.t, r, j.adr)
  /\ j.kind = "read" =>
       /\ \A k \in 1 .. r.words : k <= j.copied => buffer[j.t][k] = StoredWord(j.t, r, k)
       /\ j.pc \in {"wait", "fetch"} =>
            \/ hardware = Nothing /\ registers.readData = memory[j.t][j.adr]
            \/ hardware # Nothing /\ hardware.kind = "read" /\ hardware.chip = j.t /\ hardware.address = j.adr

\* The same for areaHandshake, which writes its whole area in each turn.
TransferredByArea(j, r) ==
  LET n == IF j.pc \in {"wait", "fetch"} THEN j.adr + 1 ELSE j.adr
  IN  /\ \A k \in 1 .. r.words : k <= n => area[j.t][k] = Word(j.t, k)
      /\ n > 0 => \A k \in 1 .. r.words : StoredWord(j.t, r, k) = area[j.t][k]

Current(j, r) == job = j /\ j # Nothing /\ range[j.t] = r /\ (j.pc = "done" => outcome = "ok")
LoopOk == \A j \in Jobs, r \in Ranges : Current(j, r) => LoopAt(j, r)
TransferOk ==
  \A j \in Jobs, r \in Ranges : Current(j, r) =>
    IF Handshake THEN TransferredByArea(j, r) ELSE ~late => Transferred(j, r)

SubdeviceInv == SubdeviceTypeOK /\ RequestsOk /\ LoopOk /\ TransferOk

-----------------------------------------------------------------------------
(* Places and turns of the loop *)

\* The place of a word, in one form for all types, and that it is in the chip.
LEMMA PlaceOfWord ==
  ASSUME SubdeviceAssumption,
         NEW r \in [start : Nat, words : Nat \ {0}], r.start + r.words <= MaxAddress + 1,
         NEW k \in 1 .. r.words
  PROVE  /\ Place(r, k)[1] = Base(r) + ((First(r) + k - 1) \div Size)
         /\ Place(r, k)[2] = ((First(r) + k - 1) % Size) + 1
         /\ Place(r, k)[1] \in 0 .. MaxAddress
         /\ Place(r, k)[2] \in 1 .. Size
         /\ Place(r, k) = <<Place(r, k)[1], Place(r, k)[2]>>
<1> DEFINE S == Size
           x == First(r) + k - 1
<1>1. S \in Nat \ {0} /\ MaxAddress \in Nat
  BY DEF SubdeviceAssumption
<1>2. x \in Nat /\ Base(r) \in Nat /\ First(r) \in Nat /\ Base(r) + First(r) = r.start
  BY DEF Base, First
<1>3. x \div S \in Nat /\ x \div S <= x /\ x % S \in 0 .. S - 1
  BY <1>1, <1>2, Quotient, DivMod
<1>4. Place(r, k) = <<Base(r) + (x \div S), (x % S) + 1>>
  BY <1>1, <1>2 DEF Place, Base, First
<1> HIDE DEF S
<1>5. Base(r) + (x \div S) \in 0 .. MaxAddress
  <2>1. Base(r) + x <= MaxAddress
    BY <1>1, <1>2
  <2> HIDE DEF x
  <2> QED BY <1>1, <1>2, <1>3, <2>1
<1>6. (x % S) + 1 \in 1 .. S
  BY <1>1, <1>3
<1> QED BY <1>4, <1>5, <1>6 DEF S

\* No two words have the same place.
LEMMA PlacesDiffer ==
  ASSUME SubdeviceAssumption,
         NEW r \in [start : Nat, words : Nat \ {0}], r.start + r.words <= MaxAddress + 1,
         NEW k \in 1 .. r.words, NEW l \in 1 .. r.words, Place(r, k) = Place(r, l)
  PROVE  k = l
<1> DEFINE S == Size
           x == First(r) + k - 1
           y == First(r) + l - 1
<1>1. S \in Nat \ {0} /\ x \in Nat /\ y \in Nat /\ First(r) \in Nat /\ Base(r) \in Nat
  BY DEF SubdeviceAssumption, First, Base
<1>2. Base(r) + (x \div S) = Base(r) + (y \div S) /\ (x % S) + 1 = (y % S) + 1
  BY PlaceOfWord
<1>3. /\ x = (x \div S) * S + (x % S) /\ x % S \in 0 .. S - 1 /\ x \div S \in Int
      /\ y = (y \div S) * S + (y % S) /\ y % S \in 0 .. S - 1 /\ y \div S \in Int
  BY <1>1, DivMod
<1>4. x = y
  <2> HIDE DEF x, y, S
  <2>1. x \div S = y \div S /\ x % S = y % S
    BY <1>1, <1>2, <1>3
  <2> QED BY <1>3, <2>1
<1> QED BY <1>1, <1>4

\* One turn of the loop: the words which are copied are those with a place at
\* the address.
OneTurnIs(r, adr, c, n, off) ==
  /\ n \in Nat /\ c + n <= r.words /\ off \in Nat /\ off + n <= Size
  /\ First(r) + (c + n) = AtLeast(AtMost(((adr + 1) - Base(r)) * Size, End(r)), First(r))
  /\ adr \in 0 .. MaxAddress
  /\ \A k \in 1 .. r.words :
       /\ Place(r, k)[1] = adr <=> k \in c + 1 .. c + n
       /\ k \in c + 1 .. c + n => Place(r, k)[2] = off + k - c
       /\ k <= c => Place(r, k)[1] # adr

LEMMA OneTurn ==
  ASSUME SubdeviceAssumption,
         NEW r \in [start : Nat, words : Nat \ {0}], r.start + r.words <= MaxAddress + 1,
         ~Handshake, NEW adr \in Nat, StartAddress(r) <= adr, adr < EndAddress(r),
         NEW c \in Nat,
         First(r) + c = AtLeast(AtMost((adr - Base(r)) * Size, End(r)), First(r)),
         NEW n, n = CopyWords(r, adr, c),
         NEW off, off = CopyOffset(r, adr)
  PROVE  OneTurnIs(r, adr, c, n, off)
<1> DEFINE S == Size
           F == First(r)
           W == r.words
           q == adr - Base(r)
           e == F + W + S - 1
<1>1. /\ S \in Nat \ {0} /\ F \in Nat /\ W \in Nat \ {0} /\ Base(r) \in Nat
      /\ Base(r) + F = r.start /\ End(r) = F + W
  BY DEF SubdeviceAssumption, First, Base, End
<1>2. /\ F \div S \in Nat /\ F \div S <= q
      /\ e \in Nat /\ e \div S \in Nat /\ q < e \div S
  <2>1. F \div S \in Nat /\ e \in Nat /\ e \div S \in Nat
    <3>1. e \in Nat
      BY <1>1
    <3> HIDE DEF e, F, S
    <3> QED BY <1>1, <3>1, Quotient
  <2>2. StartAddress(r) = Base(r) + (F \div S)
    <3>1. 0 \div S = 0
      BY <1>1
    <3> QED BY <1>1, <2>1, <3>1 DEF StartAddress, Handshake, First, Base
  <2>3. EndAddress(r) = Base(r) + (e \div S)
    <3>1. CASE Type = "regWindow"
      BY <1>1, <2>1, <3>1 DEF EndAddress, First, Base
    <3>2. CASE Type # "regWindow"
      BY <1>1, <2>1, <3>2 DEF EndAddress, Handshake, First, Base
    <3> QED BY <3>1, <3>2
  <2> HIDE DEF e, F, S
  <2> QED BY <1>1, <2>1, <2>2, <2>3
<1>3. q \in Nat
  BY <1>1, <1>2
<1>4. q * S < F + W /\ F < (q + 1) * S
  <2> HIDE DEF q, F, W, S
  <2>1. ~(e \div S <= q)
    BY <1>2, <1>3
  <2>2. ~(e \div S < q + 1) /\ F \div S < q + 1
    BY <1>2, <1>3
  <2>3. ~(e < (q + 1) * S) /\ F < (q + 1) * S
    <3>1. /\ e \div S < q + 1 <=> e < (q + 1) * S
          /\ F \div S < q + 1 <=> F < (q + 1) * S
      <4> HIDE DEF e
      <4>1. q + 1 \in Nat /\ e \in Nat /\ F \in Nat /\ S \in Nat \ {0}
        BY <1>1, <1>2, <1>3
      <4> DEFINE p == q + 1
      <4> HIDE DEF p
      <4>2. /\ e \div S < p <=> e < p * S
            /\ F \div S < p <=> F < p * S
        BY <4>1, Quotient DEF p
      <4> QED BY <4>2 DEF p
    <3> QED BY <2>2, <3>1
  <2>4. (q + 1) * S = q * S + S /\ q * S \in Nat
    BY <1>1, <1>3
  <2> QED BY <1>1, <2>3, <2>4
<1>5. n = AtMost((q + 1) * S, F + W) - AtLeast(q * S, F)
  <2> DEFINE m == q * S
  <2>1. m \in Nat /\ (q + 1) * S = m + S /\ m < F + W
    BY <1>1, <1>3, <1>4
  <2>2. CASE Type = "regWindow"
    <3>1. q = adr /\ F = r.start
      BY <2>2 DEF Base, First
    <3> QED BY <2>2, <3>1 DEF CopyWords, AtMost, AtLeast, AtLeast, AtMost
  <2>3. CASE Type # "regWindow"
    <3>1. F = 0
      BY <2>3 DEF First, Handshake
    <3> HIDE DEF m
    <3>2. c = AtLeast(AtMost(m, W), 0)
      BY <1>1, <3>1 DEF m, End
    <3>3. n = AtMost(S, W - c)
      BY <2>3 DEF CopyWords, AtMost, AtMost
    <3>4. n = AtMost(m + S, W) - AtLeast(m, 0)
      BY <1>1, <2>1, <3>1, <3>2, <3>3 DEF AtLeast, AtMost
    <3> QED BY <1>1, <2>1, <3>1, <3>4 DEF m
  <2> QED BY <2>2, <2>3
<1>6. off = AtLeast(F - q * S, 0)
  <2>1. CASE Type = "regWindow"
    BY <2>1 DEF Base, First, CopyOffset, AtLeast, AtLeast
  <2>2. CASE Type # "regWindow"
    <3>1. F = 0 /\ off = 0
      BY <2>2 DEF First, Handshake, CopyOffset
    <3>2. q * S \in Nat
      BY <1>1, <1>3
    <3> QED BY <3>1, <3>2 DEF AtLeast
  <2> QED BY <2>1, <2>2
<1>7. F + c = AtLeast(AtMost(q * S, F + W), F)
  BY <1>1
<1>8. OneBlockIs(S, F, W, q, c, n, off)
  <2> HIDE DEF F, W, S, q
  <2> QED BY <1>1, <1>3, <1>4, <1>5, <1>6, <1>7, OneBlock
<1>9. (adr + 1) - Base(r) = q + 1 /\ adr = Base(r) + q
  BY <1>1
<1>10. ASSUME NEW k \in 1 .. r.words
       PROVE  /\ Place(r, k)[1] = Base(r) + ((F + k - 1) \div S)
              /\ Place(r, k)[2] = ((F + k - 1) % S) + 1
              /\ (F + k - 1) \div S \in Int
  <2>1. F + k - 1 \in Nat
    BY <1>1
  <2>2. (F + k - 1) \div S \in Nat
    <3> DEFINE x == F + k - 1
    <3> HIDE DEF x
    <3> QED BY <1>1, <2>1, Quotient DEF x
  <2> QED BY <2>2, PlaceOfWord
<1>11. adr \in 0 .. MaxAddress
  <2>1. q <= F + W - 1
    <3>1. q * 1 <= q * S
      BY <1>1, <1>3, TimesAtLeast
    <3> HIDE DEF F, W, S, q
    <3>2. q * S \in Nat
      BY <1>1, <1>3
    <3> QED BY <1>1, <1>3, <1>4, <3>1, <3>2
  <2>2. MaxAddress \in Nat
    BY DEF SubdeviceAssumption
  <2> HIDE DEF q, F, W, S, e
  <2>3. W = r.words
    BY DEF W
  <2> QED BY <1>1, <1>3, <1>9, <2>1, <2>2, <2>3
<1>12. \A k \in 1 .. r.words :
         /\ Place(r, k)[1] = adr <=> k \in c + 1 .. c + n
         /\ k \in c + 1 .. c + n => Place(r, k)[2] = off + k - c
         /\ k <= c => Place(r, k)[1] # adr
  <2> TAKE k \in 1 .. r.words
  <2> DEFINE d == (F + k - 1) \div S
             i == (F + k - 1) % S
  <2>1. /\ d = q <=> k \in c + 1 .. c + n
        /\ k \in c + 1 .. c + n => i + 1 = off + k - c
        /\ d < q <=> k <= c
    BY <1>8 DEF OneBlockIs
  <2>2. Place(r, k)[1] = Base(r) + d /\ Place(r, k)[2] = i + 1 /\ d \in Int
    BY <1>10
  <2> HIDE DEF d, i, q
  <2> QED BY <1>1, <1>3, <1>9, <2>1, <2>2
<1> QED BY <1>1, <1>8, <1>9, <1>11, <1>12 DEF OneBlockIs, OneTurnIs

\* Where the loop begins and ends.
LEMMA LoopBounds ==
  ASSUME SubdeviceAssumption, NEW r \in [start : Nat, words : Nat \ {0}]
  PROVE  /\ StartAddress(r) \in Nat /\ EndAddress(r) \in Nat
         /\ StartAddress(r) < EndAddress(r)
         /\ Handshake => StartAddress(r) = 0 /\ EndAddress(r) = r.words
         /\ ~Handshake =>
              /\ AtLeast(AtMost((StartAddress(r) - Base(r)) * Size, End(r)), First(r)) = First(r)
              /\ AtLeast(AtMost((EndAddress(r) - Base(r)) * Size, End(r)), First(r)) = End(r)
<1>1. CASE Handshake
  BY <1>1 DEF Handshake, StartAddress, EndAddress
<1>2. CASE ~Handshake
  <2> DEFINE S == Size
             F == First(r)
             e == F + r.words + S - 1
             p == F \div S
             q == e \div S
  <2>1. /\ S \in Nat \ {0} /\ F \in Nat /\ e \in Nat /\ r.words \in Nat \ {0} /\ Base(r) \in Nat
        /\ End(r) = F + r.words
    BY DEF SubdeviceAssumption, First, Base, End
  <2>2. p \in Nat /\ q \in Nat
    <3> HIDE DEF S, F, e
    <3> QED BY <2>1, Quotient
  <2>3. StartAddress(r) = Base(r) + p
    <3>1. 0 \div S = 0
      BY <2>1
    <3> QED BY <1>2, <2>1, <2>2, <3>1 DEF StartAddress, Handshake, First, Base
  <2>4. EndAddress(r) = Base(r) + q
    <3>1. CASE Type = "regWindow"
      BY <2>1, <2>2, <3>1 DEF EndAddress, First, Base
    <3>2. CASE Type # "regWindow"
      BY <1>2, <2>1, <2>2, <3>2 DEF EndAddress, Handshake, First, Base
    <3> QED BY <3>1, <3>2
  <2>5. p * S <= F /\ e < (q + 1) * S /\ p * S \in Nat /\ q * S \in Nat /\ (q + 1) * S = q * S + S
    <3>1. p * S <= F
      <4> HIDE DEF S, F
      <4> QED BY <2>1, <2>2, Quotient
    <3>2. e < (q + 1) * S
      <4> HIDE DEF S, e
      <4> QED BY <2>1, <2>2, Quotient
    <3> QED BY <2>1, <2>2, <3>1, <3>2
  <2>6. F + r.words <= q * S
    <3> HIDE DEF q, S, F
    <3> QED BY <2>1, <2>2, <2>5
  <2>7. p < q
    <3>1. SUFFICES ASSUME q <= p PROVE FALSE
      BY <2>2
    <3>2. q * S <= p * S
      BY <2>1, <2>2, <3>1, AtLeastTimes
    <3> HIDE DEF p, q, S, F
    <3> QED BY <2>1, <2>2, <2>5, <2>6, <3>2
  <2> HIDE DEF p, q, S, F
  <2>8. AtLeast(AtMost(p * S, End(r)), F) = F /\ AtLeast(AtMost(q * S, End(r)), F) = End(r)
    BY <2>1, <2>5, <2>6 DEF AtLeast, AtMost
  <2>9. StartAddress(r) - Base(r) = p /\ EndAddress(r) - Base(r) = q
    BY <2>1, <2>2, <2>3, <2>4
  <2> QED BY <1>2, <2>1, <2>2, <2>3, <2>4, <2>7, <2>8, <2>9 DEF S, F
<1> QED BY <1>1, <1>2

LEMMA SameType ==
  ASSUME parameters' = parameters PROVE Handshake' = Handshake /\ Type' = Type
BY DEF Handshake, Type

LEMMA SamePlaces ==
  ASSUME parameters' = parameters, NEW r \in Ranges, NEW k \in Nat
  PROVE  Place(r, k)' = Place(r, k)
BY SameType DEF Place

LEMMA SameBounds ==
  ASSUME parameters' = parameters, NEW r \in Ranges
  PROVE  /\ Base(r)' = Base(r) /\ First(r)' = First(r) /\ End(r)' = End(r)
         /\ StartAddress(r)' = StartAddress(r)
         /\ EndAddress(r)' = EndAddress(r)
BY SameType DEF Base, First, End, StartAddress, EndAddress

LEMMA SubdeviceInvInit ==
  ASSUME SubdeviceAssumption, SubdeviceInit
  PROVE  SubdeviceInv
<1> USE DEF SubdeviceInit
<1>1. job = Nothing /\ hardware = Nothing /\ pending = [t \in Threads |-> Nothing]
  OBVIOUS
<1>2. PICK info \in Registers, request \in Requests :
        SizeVerified(info, request) /\ range = [t \in Threads |-> AccessorRange(info, request)]
  OBVIOUS
<1>3. /\ AccessorRange(info, request) \in Ranges
      /\ LET r == AccessorRange(info, request) IN r.start + r.words <= MaxAddress + 1
  <2>1. /\ info.address \in Nat /\ info.nElements \in Nat \ {0}
        /\ info.address + info.nElements <= MaxAddress + 1
        /\ request.words \in Nat /\ request.offset \in Nat /\ MaxAddress \in Nat
    BY DEF SubdeviceAssumption
  <2>2. Words(info, request) + request.offset <= info.nElements
    BY <1>2 DEF SizeVerified
  <2> HIDE DEF SubdeviceInit
  <2> QED BY <2>1, <2>2 DEF Words, AccessorRange, Ranges
<1>4. /\ range \in [Threads -> Ranges]
      /\ \A t \in Threads : range[t].start + range[t].words <= MaxAddress + 1
  BY <1>2, <1>3
<1>5. /\ memory \in [Threads -> [0 .. MaxAddress -> Contents]]
      /\ registers \in [chipSelect : Threads \cup {Nothing}, address : Nat, readData : Contents]
  BY DEF SubdeviceAssumption, Contents, Empty
<1>6. /\ DOMAIN user = Threads /\ DOMAIN buffer = Threads /\ DOMAIN area = Threads
      /\ \A t \in Threads :
           /\ user[t] \in [1 .. range[t].words -> Int] /\ buffer[t] \in [1 .. range[t].words -> Int]
           /\ area[t] \in [1 .. range[t].words -> Int]
  BY DEF SubdeviceAssumption, Empty, Word
<1>7. SubdeviceTypeOK
  BY <1>1, <1>4, <1>5, <1>6 DEF SubdeviceTypeOK
<1>8. RequestsOk
  BY <1>1 DEF RequestsOk
<1>9. LoopOk /\ TransferOk
  BY <1>1 DEF LoopOk, TransferOk, Current
<1> QED BY <1>7, <1>8, <1>9 DEF SubdeviceInv

\* A turn of the loop of the job.
LEMMA Turn ==
  ASSUME SubdeviceAssumption,
         SubdeviceTypeOK, LoopOk, NEW j \in Jobs, NEW r \in Ranges, Current(j, r), ~Handshake
  PROVE  /\ j.copied \in Nat
         /\ r.start + r.words <= MaxAddress + 1
         /\ j.adr = StartAddress(r) => j.copied = 0
         /\ j.pc \in {"start", "wait", "fetch"} =>
              OneTurnIs(r, j.adr, j.copied, CopyWords(r, j.adr, j.copied),
                        CopyOffset(r, j.adr))
<1>1. LoopAt(j, r)
  BY DEF LoopOk
<1>2. r.start + r.words <= MaxAddress + 1
  BY DEF Current, SubdeviceTypeOK, Jobs
<1>3. /\ j.copied \in Int /\ j.adr \in Nat /\ First(r) \in Nat /\ End(r) \in Nat
      /\ First(r) + j.copied = AtLeast(AtMost((j.adr - Base(r)) * Size, End(r)), First(r))
  BY <1>1 DEF LoopAt, Jobs, First, End, Ranges
<1>4. j.copied \in Nat
  <2> DEFINE m == (j.adr - Base(r)) * Size
  <2>1. m \in Int
    BY <1>3 DEF SubdeviceAssumption, Base, Ranges
  <2> HIDE DEF m
  <2>2. First(r) + j.copied = AtLeast(AtMost(m, End(r)), First(r))
    BY <1>3 DEF m
  <2> QED BY <1>3, <2>1, <2>2 DEF AtLeast, AtMost
<1>5. ASSUME j.adr = StartAddress(r)
      PROVE  j.copied = 0
  <2>1. First(r) + j.copied = First(r)
    BY <1>3, <1>5, LoopBounds DEF Ranges
  <2> QED BY <1>3, <2>1
<1>6. ASSUME j.pc \in {"start", "wait", "fetch"}
      PROVE  OneTurnIs(r, j.adr, j.copied, CopyWords(r, j.adr, j.copied),
                       CopyOffset(r, j.adr))
  <2>1. StartAddress(r) <= j.adr /\ j.adr < EndAddress(r)
    BY <1>1, <1>6 DEF LoopAt
  <2> QED BY <1>2, <1>3, <1>4, <2>1, OneTurn DEF Ranges
<1> QED BY <1>2, <1>4, <1>5, <1>6

\* What the steps do with the job.
Pcs == {"select", "address", "start", "wait", "fetch", "done"}
IsJob(x, t, what, adr, copied, at) ==
  x \in Jobs /\ x.t = t /\ x.kind = what /\ x.adr = adr /\ x.copied = copied /\ x.pc = at

LEMMA JobChanges ==
  ASSUME NEW j \in Jobs, NEW at \in Pcs, NEW retry \in Int, NEW adr \in Nat, NEW copied \in Int
  PROVE  /\ j.t \in Threads /\ j.kind \in {"read", "write"} /\ j.adr \in Nat
         /\ j.copied \in Int /\ j.retry \in Int /\ j.pc \in Pcs
         /\ IsJob([j EXCEPT !.pc = at], j.t, j.kind, j.adr, j.copied, at)
         /\ IsJob([j EXCEPT !.pc = at, !.retry = retry], j.t, j.kind, j.adr, j.copied, at)
         /\ IsJob([j EXCEPT !.retry = retry], j.t, j.kind, j.adr, j.copied, j.pc)
         /\ IsJob([j EXCEPT !.pc = at, !.adr = adr, !.copied = copied], j.t, j.kind, adr, copied, at)
BY DEF Jobs, Pcs, IsJob

LEMMA JobSteps ==
  ASSUME SubdeviceAssumption, SubdeviceTypeOK, job # Nothing
  PROVE  /\ SelectChip => IsJob(job', job.t, job.kind, job.adr, job.copied, "address")
         /\ WriteAddress =>
              IsJob(job', job.t, job.kind, job.adr, job.copied,
                    IF job.adr < EndAddress(range[job.t]) THEN "start" ELSE "done")
         /\ StartTransfer => IsJob(job', job.t, job.kind, job.adr, job.copied, "wait")
         /\ Wait =>
              \/ hardware = Nothing /\ IsJob(job', job.t, job.kind, job.adr, job.copied, "fetch")
              \/ IsJob(job', job.t, job.kind, job.adr, job.copied, "wait")
              \/ IsJob(job', job.t, job.kind, job.adr, job.copied, "done") /\ outcome' = "runtime_error"
         /\ AccessFails =>
              \/ job' = Nothing
              \/ IsJob(job', job.t, job.kind, job.adr, job.copied, "done") /\ outcome' = "runtime_error"
         /\ Fetch =>
              IsJob(job', job.t, job.kind, job.adr + 1,
                    job.copied + CopyWords(range[job.t], job.adr, job.copied), "address")
<1>1. job \in Jobs /\ range[job.t] \in Ranges
  BY DEF SubdeviceTypeOK, Jobs
<1>2. job.copied \in Int /\ job.adr \in Nat /\ job.retry \in Int
  BY <1>1, JobChanges DEF Jobs
<1>3. /\ \A at \in Pcs : /\ IsJob([job EXCEPT !.pc = at], job.t, job.kind, job.adr, job.copied, at)
                         /\ IsJob([job EXCEPT !.pc = at, !.retry = 0], job.t, job.kind, job.adr, job.copied, at)
      /\ IsJob([job EXCEPT !.retry = job.retry + 1], job.t, job.kind, job.adr, job.copied, job.pc)
  <2>1. ASSUME NEW at \in Pcs
        PROVE  /\ IsJob([job EXCEPT !.pc = at], job.t, job.kind, job.adr, job.copied, at)
               /\ IsJob([job EXCEPT !.pc = at, !.retry = 0], job.t, job.kind, job.adr, job.copied, at)
    <3>1. 0 \in Int
      OBVIOUS
    <3> QED BY <1>1, <1>2, <2>1, <3>1, JobChanges
  <2>2. job.retry + 1 \in Int
    BY <1>2
  <2>3. IsJob([job EXCEPT !.retry = job.retry + 1], job.t, job.kind, job.adr, job.copied, job.pc)
    BY <1>1, <1>2, <2>2, JobChanges DEF Pcs
  <2> QED BY <2>1, <2>3
<1>4. SelectChip => IsJob(job', job.t, job.kind, job.adr, job.copied, "address")
  BY <1>3 DEF SelectChip, Pcs
<1>5. WriteAddress =>
        IsJob(job', job.t, job.kind, job.adr, job.copied,
              IF job.adr < EndAddress(range[job.t]) THEN "start" ELSE "done")
  BY <1>3 DEF WriteAddress, Pcs
<1>6. StartTransfer => IsJob(job', job.t, job.kind, job.adr, job.copied, "wait")
  BY <1>3 DEF StartTransfer, Pcs
<1>7. Wait =>
         \/ hardware = Nothing /\ IsJob(job', job.t, job.kind, job.adr, job.copied, "fetch")
         \/ IsJob(job', job.t, job.kind, job.adr, job.copied, "wait")
         \/ IsJob(job', job.t, job.kind, job.adr, job.copied, "done") /\ outcome' = "runtime_error"
  <2>1. Wait => /\ job.pc = "wait"
                /\ \/ hardware = Nothing /\ job' = [job EXCEPT !.pc = "fetch"]
                   \/ job' = [job EXCEPT !.retry = job.retry + 1]
                   \/ job' = [job EXCEPT !.pc = "done"] /\ outcome' = "runtime_error"
    <3>1. CASE HasBusy
      <4>1. hardware = Nothing \/ job.retry + 1 <= MaxRetry \/ job.retry + 1 > MaxRetry
        BY <1>2 DEF SubdeviceAssumption
      <4> QED BY <3>1, <4>1 DEF Wait, At
    <3>2. CASE ~HasBusy
      BY <3>2 DEF Wait, At
    <3> QED BY <3>1, <3>2
  <2> QED BY <1>3, <2>1 DEF Pcs
<1>8. AccessFails =>
         \/ job' = Nothing
         \/ IsJob(job', job.t, job.kind, job.adr, job.copied, "done") /\ outcome' = "runtime_error"
  BY <1>3 DEF AccessFails, Pcs
<1>9. Fetch =>
         IsJob(job', job.t, job.kind, job.adr + 1,
               job.copied + CopyWords(range[job.t], job.adr, job.copied), "address")
  <2> DEFINE n == CopyWords(range[job.t], job.adr, job.copied)
  <2>1. range[job.t].start \in Int /\ range[job.t].words \in Int
    BY <1>1 DEF Ranges
  <2>2. n \in Int
    <3>1. (job.adr + 1) * Size \in Int /\ job.adr * Size \in Int /\ Size \in Int
      BY <1>2 DEF SubdeviceAssumption
    <3> DEFINE x == (job.adr + 1) * Size
               y == job.adr * Size
    <3>2. n = IF Type = "regWindow" THEN AtMost(x, range[job.t].start + range[job.t].words) - AtLeast(y, range[job.t].start)
              ELSE AtMost(Size, range[job.t].words - job.copied)
      BY DEF CopyWords
    <3> HIDE DEF n, x, y
    <3> QED BY <1>2, <2>1, <3>1, <3>2 DEF AtMost, AtLeast
  <2>3. Fetch => job' = [job EXCEPT !.pc = "address", !.adr = job.adr + 1, !.copied = job.copied + n]
    BY DEF Fetch
  <2> HIDE DEF n
  <2>4. job.adr + 1 \in Nat /\ job.copied + n \in Int /\ "address" \in Pcs
    BY <1>2, <2>2 DEF Pcs
  <2>5. IsJob([job EXCEPT !.pc = "address", !.adr = job.adr + 1, !.copied = job.copied + n],
              job.t, job.kind, job.adr + 1, job.copied + n, "address")
    BY <1>1, <2>4, JobChanges
  <2> QED BY <2>3, <2>5 DEF n
<1> QED BY <1>4, <1>5, <1>6, <1>7, <1>8, <1>9

\* What a job which does not use the handshake gives to the hardware.
LEMMA Started ==
  ASSUME SubdeviceAssumption,
         SubdeviceTypeOK, LoopOk, NEW j \in Jobs, NEW r \in Ranges, Current(j, r), ~Handshake,
         j.pc = "start"
  PROVE  /\ Content(j.t, j.adr, j.copied) \in Contents
         /\ Chip = j.t /\ registers.address = j.adr /\ j.adr \in 0 .. MaxAddress
<1> DEFINE n == CopyWords(r, j.adr, j.copied)
           off == CopyOffset(r, j.adr)
           c == j.copied
           t == j.t
<1>1. job = j /\ j # Nothing /\ range[t] = r /\ t \in Threads
  BY DEF Current, Jobs
<1>2. buffer[t] \in [1 .. r.words -> Int]
  BY <1>1 DEF SubdeviceTypeOK
<1>3. OneTurnIs(r, j.adr, c, n, off) /\ c \in Nat
  BY <1>1, Turn
<1>4. Content(t, j.adr, c) \in Contents
  <2> HIDE DEF n, off, c
  <2>1. \A i \in 1 .. Size : i - off \in 1 .. n => c + (i - off) \in 1 .. r.words
    BY <1>3 DEF OneTurnIs, Ranges
  <2>2. \A i \in 1 .. Size : (IF i - off \in 1 .. n THEN buffer[t][c + (i - off)] ELSE 0) \in Int
    <3> HIDE DEF t
    <3>1. ASSUME NEW i \in 1 .. Size, i - off \in 1 .. n
          PROVE  buffer[t][c + (i - off)] \in Int
      <4>1. c + (i - off) \in 1 .. r.words
        BY <2>1, <3>1
      <4> QED BY <1>2, <4>1
    <3> QED BY <3>1
  <2> QED BY <1>1, <2>2 DEF Content, Contents, n, off, c
<1>5. j.adr \in 0 .. MaxAddress
  BY <1>3 DEF OneTurnIs
<1>6. Chip = t /\ registers.address = j.adr
  <2>1. LoopAt(j, r)
    BY DEF LoopOk
  <2> QED BY <1>1, <2>1 DEF LoopAt, Chip
<1> QED BY <1>4, <1>5, <1>6

-----------------------------------------------------------------------------
(* The steps of Subdevice *)

\* Neither the parameters nor the ranges of the accessors change.
LEMMA SubdeviceConfigured ==
  ASSUME [SubdeviceNext]_subdeviceVars
  PROVE  parameters' = parameters /\ range' = range
BY DEF SubdeviceNext, Transfer, subdeviceVars, Open,
   Close, PreTransfer, Lock, SelectChip, WriteAddress,
   StartTransfer, Wait, Fetch, PostTransfer,
   AccessFails, Complete

\* Each step keeps the types, and what is requested.
LEMMA SubdeviceTypeStep ==
  ASSUME SubdeviceAssumption, SubdeviceInv, [SubdeviceNext]_subdeviceVars
  PROVE  SubdeviceTypeOK'
<1>1. SubdeviceTypeOK /\ LoopOk /\ RequestsOk
  BY DEF SubdeviceInv
<1> USE DEF SubdeviceAssumption
<1>2. parameters' = parameters /\ range' = range
  BY DEF SubdeviceNext, Transfer, subdeviceVars, Open, Close,
     PreTransfer, Lock, SelectChip, WriteAddress,
     StartTransfer, Wait, Fetch, PostTransfer,
     AccessFails, Complete
<1>3. ASSUME job # Nothing
      PROVE  /\ job \in Jobs /\ job.t \in Threads /\ range[job.t] \in Ranges
             /\ job.kind \in {"read", "write"} /\ job.adr \in Nat /\ job.copied \in Int /\ job.retry \in Int
  BY <1>1, <1>3 DEF SubdeviceTypeOK, Jobs
<1> DEFINE RegisterSet == [chipSelect : Threads \cup {Nothing}, address : Nat, readData : Contents]
<1>4. ASSUME NEW t \in Threads, Open(t) \/ Close(t)
      PROVE  SubdeviceTypeOK'
  BY <1>1, <1>4 DEF Open, Close, SubdeviceTypeOK
<1>5. ASSUME NEW t \in Threads, NEW what \in {"read", "write"}, PreTransfer(t, what)
      PROVE  SubdeviceTypeOK'
  <2>1. /\ DOMAIN user' = Threads /\ DOMAIN buffer' = Threads
        /\ \A u \in Threads : /\ user'[u] \in [1 .. range[u].words -> Int]
                              /\ buffer'[u] \in [1 .. range[u].words -> Int]
    <3>1. \A k \in 1 .. range[t].words : Word(t, k) \in Int
      BY <1>1 DEF SubdeviceTypeOK, Word
    <3>2. /\ buffer' = [buffer EXCEPT ![t] = buffer'[t]] /\ user' = [user EXCEPT ![t] = user'[t]]
          /\ buffer'[t] \in [1 .. range[t].words -> Int] /\ user'[t] \in [1 .. range[t].words -> Int]
      <4>1. CASE what = "write"
        BY <1>1, <1>5, <3>1, <4>1 DEF PreTransfer, SubdeviceTypeOK
      <4>2. CASE what = "read"
        BY <1>1, <1>5, <4>2 DEF PreTransfer, SubdeviceTypeOK, Empty
      <4> QED BY <1>5, <4>1, <4>2
    <3> QED BY <1>1, <3>2 DEF SubdeviceTypeOK
  <2>2. pending' \in [Threads -> {Nothing, "read", "write"}]
    BY <1>1, <1>5 DEF PreTransfer, SubdeviceTypeOK
  <2>3. UNCHANGED <<range, memory, registers, hardware, area, job>>
    BY <1>5 DEF PreTransfer
  <2> QED BY <1>1, <2>1, <2>2, <2>3 DEF SubdeviceTypeOK
<1>6. ASSUME NEW t \in Threads, Lock(t)
      PROVE  SubdeviceTypeOK'
  <2>1. StartAddress(range[t]) \in Nat
    BY <1>1, LoopBounds DEF SubdeviceTypeOK, Ranges
  <2>2. job' \in Jobs /\ pending' \in [Threads -> {Nothing, "read", "write"}]
    BY <1>1, <1>6, <2>1 DEF Lock, SubdeviceTypeOK, Jobs
  <2>3. UNCHANGED <<range, memory, registers, hardware, user, buffer, area>>
    BY <1>6 DEF Lock
  <2> QED BY <1>1, <2>2, <2>3 DEF SubdeviceTypeOK
<1>7. CASE AccessFails \/ Wait
  <2>1. job \in Jobs /\ (job' = Nothing \/ job' \in Jobs)
    <3>1. job # Nothing
      BY <1>7 DEF AccessFails, Wait, At
    <3> QED BY <1>1, <1>3, <1>7, <3>1, JobSteps DEF IsJob
  <2>2. UNCHANGED <<range, memory, registers, hardware, user, buffer, area, pending>>
    BY <1>7 DEF AccessFails, Wait
  <2> QED BY <1>1, <2>1, <2>2 DEF SubdeviceTypeOK
<1>8. CASE SelectChip \/ WriteAddress
  <2>1. job' \in Jobs
    <3>1. job # Nothing
      BY <1>8 DEF SelectChip, WriteAddress, At
    <3> QED BY <1>1, <1>8, <3>1, JobSteps DEF IsJob
  <2>2. registers' \in RegisterSet
    <3>1. job.t \in Threads /\ job.adr \in Nat /\ registers \in RegisterSet
      BY <1>1, <1>3, <1>8 DEF SelectChip, WriteAddress, At, SubdeviceTypeOK
    <3>2. [registers EXCEPT !.chipSelect = job.t] \in RegisterSet /\ [registers EXCEPT !.address = job.adr] \in RegisterSet
      BY <3>1
    <3>3. registers' = registers \/ registers' = [registers EXCEPT !.chipSelect = job.t] \/ registers' = [registers EXCEPT !.address = job.adr]
      BY <1>8 DEF SelectChip, WriteAddress
    <3> QED BY <3>1, <3>2, <3>3
  <2>3. UNCHANGED <<range, memory, hardware, user, buffer, area, pending>>
    BY <1>8 DEF SelectChip, WriteAddress
  <2> QED BY <1>1, <2>1, <2>2, <2>3 DEF SubdeviceTypeOK
<1>9. CASE StartTransfer
  <2> DEFINE j == job
             t == j.t
             r == range[t]
  <2>1. /\ j \in Jobs /\ t \in Threads /\ r \in Ranges /\ j.pc = "start" /\ Current(j, r)
        /\ r.start + r.words <= MaxAddress + 1
    BY <1>1, <1>3, <1>9 DEF StartTransfer, At, Current, SubdeviceTypeOK
  <2>2. job' \in Jobs /\ UNCHANGED <<range, registers, user, buffer, pending>>
    <3>1. UNCHANGED <<range, registers, user, buffer, pending>> /\ job # Nothing
      BY <1>9 DEF StartTransfer, At
    <3> QED BY <1>1, <1>9, <3>1, JobSteps DEF IsJob
  <2>3. LoopAt(j, r)
    BY <1>1, <2>1 DEF LoopOk
  <2>4. CASE Handshake
    <3>1. /\ hardware' = hardware \/ hardware' = [kind |-> "read", chip |-> t, address |-> 0, data |-> <<>>]
          /\ area' = [area EXCEPT ![t][j.adr + 1] = buffer[t][j.adr + 1]]
          /\ memory' = [memory EXCEPT ![t] = [a \in 0 .. MaxAddress |->
                      [i \in 1 .. Size |->
                         IF \E k \in 1 .. r.words : Place(r, k) = <<a, i>>
                         THEN area'[t][CHOOSE k \in 1 .. r.words : Place(r, k) = <<a, i>>]
                         ELSE memory[t][a][i]]]]
      BY <1>9, <2>4 DEF StartTransfer, Start, Handshake
    <3>2. j.adr + 1 \in 1 .. r.words
      BY <2>1, <2>3, <2>4, LoopBounds DEF LoopAt, Ranges, Jobs
    <3>3. DOMAIN area' = Threads /\ \A u \in Threads : area'[u] \in [1 .. range[u].words -> Int]
      BY <1>1, <2>1, <3>1, <3>2 DEF SubdeviceTypeOK
    <3>4. memory' \in [Threads -> [0 .. MaxAddress -> Contents]]
      <4>1. ASSUME NEW a \in 0 .. MaxAddress, NEW i \in 1 .. Size
            PROVE  (IF \E k \in 1 .. r.words : Place(r, k) = <<a, i>>
                    THEN area'[t][CHOOSE k \in 1 .. r.words : Place(r, k) = <<a, i>>]
                    ELSE memory[t][a][i]) \in Int
        <5>1. memory[t][a][i] \in Int
          <6>1. memory[t] \in [0 .. MaxAddress -> Contents]
            BY <1>1, <2>1 DEF SubdeviceTypeOK
          <6>2. memory[t][a] \in Contents
            BY <6>1
          <6> QED BY <6>2 DEF Contents
        <5>2. (\E k \in 1 .. r.words : Place(r, k) = <<a, i>>) =>
                (CHOOSE k \in 1 .. r.words : Place(r, k) = <<a, i>>) \in 1 .. r.words
          OBVIOUS
        <5> QED BY <2>1, <3>3, <5>1, <5>2
      <4>2. [a \in 0 .. MaxAddress |->
                      [i \in 1 .. Size |->
                         IF \E k \in 1 .. r.words : Place(r, k) = <<a, i>>
                         THEN area'[t][CHOOSE k \in 1 .. r.words : Place(r, k) = <<a, i>>]
                         ELSE memory[t][a][i]]] \in [0 .. MaxAddress -> Contents]
        BY <4>1 DEF Contents
      <4> QED BY <1>1, <3>1, <4>2 DEF SubdeviceTypeOK
    <3>5. hardware' = Nothing \/ hardware' \in Transactions
      BY <1>1, <2>1, <3>1 DEF SubdeviceTypeOK, Transactions
    <3> QED BY <1>1, <2>2, <3>3, <3>4, <3>5 DEF SubdeviceTypeOK
  <2>5. CASE ~Handshake
    <3>1. /\ UNCHANGED <<memory, area>>
          /\ hardware' = hardware \/ hardware' = [kind |-> j.kind, chip |-> Chip, address |-> registers.address,
                                data |-> IF j.kind = "write" THEN Content(t, j.adr, j.copied)
                                         ELSE <<>>]
      BY <1>9, <2>5 DEF StartTransfer, Start, Handshake
    <3>2. /\ Content(t, j.adr, j.copied) \in Contents
          /\ Chip = t /\ registers.address = j.adr /\ j.adr \in 0 .. MaxAddress
      BY <1>1, <2>1, <2>5, Started
    <3>3. hardware' = Nothing \/ hardware' \in Transactions
      <4>1. j.kind \in {"read", "write"} /\ t \in Threads
        BY <2>1 DEF Jobs
      <4>2. hardware' = hardware \/ hardware' = [kind |-> j.kind, chip |-> t, address |-> j.adr,
                                data |-> IF j.kind = "write" THEN Content(t, j.adr, j.copied)
                                         ELSE <<>>]
        BY <3>1, <3>2
      <4> HIDE DEF t, j
      <4> QED BY <1>1, <3>2, <4>1, <4>2 DEF SubdeviceTypeOK, Transactions
    <3> QED BY <1>1, <2>2, <3>1, <3>3 DEF SubdeviceTypeOK
  <2> QED BY <2>4, <2>5
<1>10. CASE Fetch
  <2> DEFINE j == job
             t == j.t
             r == range[t]
             n == CopyWords(r, j.adr, j.copied)
             off == CopyOffset(r, j.adr)
  <2>1. /\ j \in Jobs /\ t \in Threads /\ r \in Ranges /\ j.pc = "fetch" /\ Current(j, r)
    BY <1>1, <1>3, <1>10 DEF Fetch, At, Current
  <2>2. UNCHANGED <<range, memory, registers, hardware, user, area, pending>>
    BY <1>10 DEF Fetch
  <2>4. job' \in Jobs
    <3>1. job # Nothing
      BY <1>10 DEF Fetch, At
    <3> QED BY <1>1, <1>10, <3>1, JobSteps DEF IsJob
  <2>5. DOMAIN buffer' = Threads /\ \A u \in Threads : buffer'[u] \in [1 .. range[u].words -> Int]
    <3>1. CASE j.kind = "write"
      <4>1. buffer' = buffer /\ range' = range
        BY <1>2, <1>10, <3>1 DEF Fetch
      <4> QED BY <1>1, <4>1 DEF SubdeviceTypeOK
    <3>2. CASE j.kind = "read"
      <4>1. ~Handshake
        BY <1>1, <2>1, <3>2 DEF RequestsOk, Current
      <4>2. OneTurnIs(r, j.adr, j.copied, n, off) /\ j.copied \in Nat
        BY <1>1, <2>1, <4>1, Turn
      <4>3. buffer' = [buffer EXCEPT ![t] = [k \in 1 .. r.words |->
               IF k - j.copied \in 1 .. n THEN registers.readData[off + k - j.copied] ELSE buffer[t][k]]]
        BY <1>10, <3>2 DEF Fetch
      <4>4. /\ buffer[t] \in [1 .. r.words -> Int] /\ registers.readData \in [1 .. Size -> Int]
            /\ \A u \in Threads : buffer[u] \in [1 .. range[u].words -> Int]
            /\ DOMAIN buffer = Threads
        BY <1>1, <2>1 DEF SubdeviceTypeOK, Contents
      <4>5. \A k \in 1 .. r.words : k - j.copied \in 1 .. n => off + k - j.copied \in 1 .. Size
        <5> DEFINE c == j.copied
        <5> HIDE DEF n, off, c
        <5>1. c \in Nat /\ n \in Nat /\ off \in Nat /\ off + n <= Size
          BY <4>2 DEF OneTurnIs, c
        <5>2. \A k \in 1 .. r.words : k - c \in 1 .. n => off + k - c \in 1 .. Size
          <6> HIDE DEF r
          <6> QED BY <5>1
        <5> QED BY <5>2 DEF c
      <4>6. [k \in 1 .. r.words |-> IF k - j.copied \in 1 .. n THEN registers.readData[off + k - j.copied]
                                    ELSE buffer[t][k]] \in [1 .. r.words -> Int]
        <5> HIDE DEF n, off, j
        <5> QED BY <4>4, <4>5
      <4> HIDE DEF n, off, j
      <4> QED BY <4>3, <4>4, <4>6
    <3>3. j.kind \in {"read", "write"}
      BY <2>1 DEF Jobs
    <3> QED BY <3>1, <3>2, <3>3
  <2> QED BY <1>1, <2>2, <2>4, <2>5 DEF SubdeviceTypeOK
<1>11. CASE PostTransfer
  <2>1. job \in Jobs /\ job.t \in Threads /\ job' = Nothing
    BY <1>3, <1>11 DEF PostTransfer, At
  <2>2. /\ DOMAIN user' = Threads /\ DOMAIN buffer' = Threads
        /\ \A u \in Threads : /\ user'[u] \in [1 .. range[u].words -> Int]
                              /\ buffer'[u] \in [1 .. range[u].words -> Int]
    BY <1>1, <1>11, <2>1 DEF PostTransfer, SubdeviceTypeOK
  <2>3. UNCHANGED <<range, memory, registers, hardware, area, pending>>
    BY <1>11 DEF PostTransfer
  <2> QED BY <1>1, <2>1, <2>2, <2>3 DEF SubdeviceTypeOK
<1>12. CASE Complete
  <2>1. /\ hardware \in Transactions /\ hardware' = Nothing /\ UNCHANGED <<range, user, buffer, area, pending, job>>
    BY <1>1, <1>12 DEF Complete, SubdeviceTypeOK
  <2>2. /\ hardware.chip \in Threads /\ hardware.address \in 0 .. MaxAddress
        /\ hardware.kind = "write" => hardware.data \in Contents
    BY <2>1 DEF Transactions
  <2>3. memory' \in [Threads -> [0 .. MaxAddress -> Contents]] /\ registers' \in RegisterSet
    <3>1. memory \in [Threads -> [0 .. MaxAddress -> Contents]] /\ registers \in RegisterSet
      BY <1>1 DEF SubdeviceTypeOK
    <3>2. CASE hardware.kind = "write"
      <4>1. memory[hardware.chip] \in [0 .. MaxAddress -> Contents]
        BY <2>2, <3>1
      <4>2. [memory[hardware.chip] EXCEPT ![hardware.address] = hardware.data] \in [0 .. MaxAddress -> Contents]
        BY <2>2, <3>2, <4>1
      <4>3. registers' = registers /\ memory' = [memory EXCEPT ![hardware.chip] = [memory[hardware.chip] EXCEPT ![hardware.address] = hardware.data]]
        BY <1>12, <3>2 DEF Complete
      <4> QED BY <3>1, <4>2, <4>3
    <3>3. CASE hardware.kind # "write"
      <4>1. memory[hardware.chip][hardware.address] \in Contents
        <5>1. memory[hardware.chip] \in [0 .. MaxAddress -> Contents]
          BY <2>2, <3>1
        <5> QED BY <2>2, <5>1
      <4>2. memory' = memory /\ registers' = [registers EXCEPT !.readData = memory[hardware.chip][hardware.address]]
        BY <1>12, <3>3 DEF Complete
      <4> QED BY <3>1, <4>1, <4>2
    <3> QED BY <3>2, <3>3
  <2> QED BY <1>1, <2>1, <2>3 DEF SubdeviceTypeOK
<1>13. CASE UNCHANGED subdeviceVars
  BY <1>1, <1>13 DEF subdeviceVars, SubdeviceTypeOK
<1> QED
  BY <1>4, <1>5, <1>6, <1>7, <1>8, <1>9, <1>10, <1>11, <1>12, <1>13
     DEF SubdeviceNext, Transfer

\* Each step keeps what RequestsOk says.
LEMMA RequestsStep ==
  ASSUME SubdeviceAssumption, SubdeviceInv, [SubdeviceNext]_subdeviceVars
  PROVE  RequestsOk'
<1> DEFINE HasWritten(t, content) == \A k \in 1 .. range[t].words : content[k] = Word(t, k)
           Hardware == Handshake /\ hardware # Nothing => hardware.kind = "read"
<1>1. SubdeviceTypeOK /\ RequestsOk
  BY DEF SubdeviceInv
<1>2. parameters' = parameters /\ range' = range
  BY SubdeviceConfigured
<1>3. /\ \A t \in Threads :
           pending[t] # Nothing => /\ pending[t] = "read" => ~Handshake
                                   /\ pending[t] = "write" => HasWritten(t, buffer[t])
      /\ job # Nothing => /\ pending[job.t] = Nothing
                          /\ job.kind = "read" => ~Handshake
                          /\ job.kind = "write" => HasWritten(job.t, buffer[job.t])
      /\ Hardware
  BY <1>1 DEF RequestsOk
<1>4. SUFFICES /\ \A t \in Threads :
                    pending'[t] # Nothing => /\ pending'[t] = "read" => ~Handshake
                                             /\ pending'[t] = "write" => HasWritten(t, buffer'[t])
               /\ job' # Nothing => /\ pending'[job'.t] = Nothing
                                    /\ job'.kind = "read" => ~Handshake
                                    /\ job'.kind = "write" => HasWritten(job'.t, buffer'[job'.t])
               /\ Handshake /\ hardware' # Nothing => hardware'.kind = "read"
  BY <1>2, SameType DEF RequestsOk, Word
<1>5. job # Nothing => job \in Jobs /\ job.t \in Threads /\ job.kind \in {"read", "write"}
  BY <1>1 DEF SubdeviceTypeOK, Jobs
<1>6. /\ DOMAIN buffer = Threads /\ pending \in [Threads -> {Nothing, "read", "write"}]
  BY <1>1 DEF SubdeviceTypeOK
<1> HIDE DEF HasWritten, Hardware
<1>7. CASE /\ UNCHANGED <<buffer, pending>> /\ Hardware'
           /\ \/ job' = Nothing \/ job' = job
              \/ job # Nothing /\ job'.t = job.t /\ job'.kind = job.kind
  BY <1>2, <1>3, <1>7, SameType DEF Hardware
<1>8. ASSUME NEW t \in Threads, NEW what \in {"read", "write"}, PreTransfer(t, what)
      PROVE  /\ \A u \in Threads :
                  pending'[u] # Nothing => /\ pending'[u] = "read" => ~Handshake
                                           /\ pending'[u] = "write" => HasWritten(u, buffer'[u])
             /\ job' # Nothing => /\ pending'[job'.t] = Nothing
                                  /\ job'.kind = "read" => ~Handshake
                                  /\ job'.kind = "write" => HasWritten(job'.t, buffer'[job'.t])
             /\ Handshake /\ hardware' # Nothing => hardware'.kind = "read"
  <2>1. /\ pending' = [pending EXCEPT ![t] = what] /\ UNCHANGED <<hardware, job>>
        /\ \A u \in Threads : u # t => buffer'[u] = buffer[u]
        /\ job # Nothing => job.t # t
    BY <1>6, <1>8 DEF PreTransfer, Free
  <2>2. what = "read" => ~Handshake
    BY <1>8 DEF PreTransfer, IsReadable, Handshake
  <2>3. what = "write" => HasWritten(t, buffer'[t])
    BY <1>6, <1>8 DEF PreTransfer, HasWritten
  <2> QED BY <1>3, <1>5, <1>6, <2>1, <2>2, <2>3 DEF Hardware
<1>9. ASSUME NEW t \in Threads, Lock(t)
      PROVE  /\ \A u \in Threads :
                  pending'[u] # Nothing => /\ pending'[u] = "read" => ~Handshake
                                           /\ pending'[u] = "write" => HasWritten(u, buffer'[u])
             /\ job' # Nothing => /\ pending'[job'.t] = Nothing
                                  /\ job'.kind = "read" => ~Handshake
                                  /\ job'.kind = "write" => HasWritten(job'.t, buffer'[job'.t])
             /\ Handshake /\ hardware' # Nothing => hardware'.kind = "read"
  <2>1. /\ pending' = [pending EXCEPT ![t] = Nothing] /\ pending[t] # Nothing /\ UNCHANGED <<hardware, buffer>>
        /\ job'.t = t /\ job'.kind = pending[t]
    BY <1>9 DEF Lock
  <2> QED BY <1>3, <1>6, <2>1 DEF Hardware
<1>10. CASE Fetch \/ PostTransfer
  <2>1. /\ job # Nothing /\ UNCHANGED <<hardware, pending>>
        /\ \A u \in Threads : u # job.t => buffer'[u] = buffer[u]
        /\ \/ job' = Nothing
           \/ job'.t = job.t /\ job'.kind = job.kind /\ (job.kind = "write" => buffer' = buffer)
    <3>1. CASE Fetch
      <4>1. job # Nothing
        BY <3>1 DEF Fetch, At
      <4>2. job'.t = job.t /\ job'.kind = job.kind
        BY <1>1, <3>1, <4>1, JobSteps DEF IsJob
      <4> QED BY <1>6, <3>1, <4>1, <4>2 DEF Fetch
    <3>2. CASE PostTransfer
      BY <1>6, <3>2 DEF PostTransfer, At
    <3> QED BY <1>10, <3>1, <3>2
  <2>2. \A u \in Threads : pending[u] # Nothing => u # job.t
    BY <1>3, <2>1
  <2> QED BY <1>3, <1>5, <2>1, <2>2 DEF Hardware
<1>11. CASE StartTransfer
  <2>1. job # Nothing /\ UNCHANGED <<buffer, pending>>
    BY <1>11 DEF StartTransfer, At
  <2>2. job'.t = job.t /\ job'.kind = job.kind
    BY <1>1, <1>11, <2>1, JobSteps DEF IsJob
  <2>3. Hardware'
    <3>1. CASE Handshake
      BY <1>2, <1>3, <1>11, <3>1 DEF StartTransfer, Start, Hardware, Handshake
    <3>2. CASE ~Handshake
      BY <1>2, <3>2, SameType DEF Hardware
    <3> QED BY <3>1, <3>2
  <2> QED BY <1>7, <2>1, <2>2, <2>3
<1>12. CASE AccessFails \/ Wait \/ SelectChip \/ WriteAddress
  <2>1. job # Nothing /\ UNCHANGED <<hardware, buffer, pending>>
    BY <1>12 DEF AccessFails, Wait, SelectChip, WriteAddress,
       At
  <2>2. job' = Nothing \/ (job'.t = job.t /\ job'.kind = job.kind)
    BY <1>1, <1>12, <2>1, JobSteps DEF IsJob
  <2>3. Hardware'
    BY <1>2, <1>3, <2>1, SameType DEF Hardware
  <2> QED BY <1>7, <2>1, <2>2, <2>3
<1>13. CASE \/ \E t \in Threads : Open(t) \/ Close(t)
            \/ Complete \/ UNCHANGED subdeviceVars
  <2>1. UNCHANGED <<buffer, pending, job>> /\ (hardware' = hardware \/ hardware' = Nothing)
    BY <1>13 DEF Open, Close, Complete, subdeviceVars
  <2>2. Hardware'
    BY <1>2, <1>3, <2>1, SameType DEF Hardware
  <2> QED BY <1>7, <2>1, <2>2
<1> QED
  BY <1>8, <1>9, <1>10, <1>11, <1>12, <1>13 DEF SubdeviceNext, Transfer

\* Each step keeps the loop as it is described by LoopAt.
LEMMA LoopStep ==
  ASSUME SubdeviceAssumption, SubdeviceInv, [SubdeviceNext]_subdeviceVars
  PROVE  LoopOk'
<1>1. SubdeviceTypeOK /\ LoopOk
  BY DEF SubdeviceInv
<1>2. parameters' = parameters /\ range' = range
  BY SubdeviceConfigured
<1>3. SUFFICES ASSUME NEW j \in Jobs, NEW r \in Ranges, Current(j, r)'
               PROVE  LoopAt(j, r)'
  BY DEF LoopOk
<1>4. /\ job' = j /\ job' # Nothing /\ range[j.t] = r /\ j.t \in Threads
      /\ j.pc = "done" => outcome' = "ok"
  BY <1>2, <1>3 DEF Current, Jobs
<1>5. /\ Handshake' = Handshake /\ Base(r)' = Base(r) /\ First(r)' = First(r) /\ End(r)' = End(r)
      /\ StartAddress(r)' = StartAddress(r)
      /\ EndAddress(r)' = EndAddress(r)
  BY <1>2, SameType, SameBounds
<1>6. /\ StartAddress(r) \in Nat /\ EndAddress(r) \in Nat
      /\ StartAddress(r) < EndAddress(r)
  BY LoopBounds DEF Ranges
<1>7. ASSUME job # Nothing, job.pc # "done", job.t = j.t
      PROVE  job \in Jobs /\ Current(job, r) /\ LoopAt(job, r) /\ job.adr \in Nat
  <2>1. job \in Jobs /\ job.adr \in Nat
    BY <1>1, <1>7 DEF SubdeviceTypeOK, Jobs
  <2>2. Current(job, r)
    BY <1>4, <1>7 DEF Current
  <2> QED BY <1>1, <2>1, <2>2 DEF LoopOk
<1>8. CASE /\ UNCHANGED <<job, outcome>> /\ registers'.chipSelect = registers.chipSelect /\ registers'.address = registers.address /\ late' = late
           /\ hardware' = hardware \/ hardware' = Nothing
  <2>1. Current(j, r)
    BY <1>4, <1>8 DEF Current
  <2>2. LoopAt(j, r)
    BY <1>1, <2>1 DEF LoopOk
  <2> QED BY <1>2, <1>5, <1>8, <2>2 DEF LoopAt
<1>9. ASSUME NEW t \in Threads, Lock(t)
      PROVE  LoopAt(j, r)'
  <2>1. j.t = t /\ j.adr = StartAddress(range[t]) /\ j.copied = 0 /\ j.pc = "select"
    BY <1>4, <1>9 DEF Lock
  <2>2. j.adr = StartAddress(r)
    BY <1>4, <2>1
  <2>3. ~Handshake => First(r) + j.copied =
                        AtLeast(AtMost((j.adr - Base(r)) * Size, End(r)), First(r))
    <3>1. First(r) + j.copied = First(r)
      BY <2>1 DEF First, Ranges
    <3> QED BY <2>2, <3>1, LoopBounds DEF Ranges
  <2> QED BY <1>5, <1>6, <2>1, <2>2, <2>3 DEF LoopAt
<1>10. CASE SelectChip
  <2>1. job # Nothing /\ job.pc = "select" /\ UNCHANGED <<hardware, late>>
    BY <1>10 DEF SelectChip, At
  <2>2. IsJob(j, job.t, job.kind, job.adr, job.copied, "address")
    BY <1>1, <1>4, <1>10, <2>1, JobSteps
  <2>3. LoopAt(job, r)
    BY <1>7, <2>1, <2>2 DEF IsJob
  <2>4. "chipSelectRegister" \in parameters => registers'.chipSelect = j.t
    <3>1. registers \in [chipSelect : Threads \cup {Nothing}, address : Nat, readData : Contents]
      BY <1>1 DEF SubdeviceTypeOK
    <3> QED BY <1>10, <2>2, <3>1 DEF SelectChip, IsJob
  <2> QED BY <1>2, <1>5, <1>6, <2>1, <2>2, <2>3, <2>4 DEF LoopAt, IsJob
<1>11. CASE WriteAddress
  <2>1. job # Nothing /\ job.pc = "address" /\ UNCHANGED <<hardware, late>>
    BY <1>11 DEF WriteAddress, At
  <2>2. IsJob(j, job.t, job.kind, job.adr, job.copied,
              IF job.adr < EndAddress(range[job.t]) THEN "start" ELSE "done")
    BY <1>1, <1>4, <1>11, <2>1, JobSteps
  <2>3. LoopAt(job, r) /\ job.adr \in Nat
    BY <1>7, <2>1, <2>2 DEF IsJob
  <2>4. job.adr < EndAddress(r) \/ job.adr = EndAddress(r)
    BY <1>6, <2>1, <2>3 DEF LoopAt
  <2>5. /\ registers'.chipSelect = registers.chipSelect
        /\ ~Handshake /\ job.adr < EndAddress(r) => registers'.address = job.adr
    <3>1. registers \in [chipSelect : Threads \cup {Nothing}, address : Nat, readData : Contents]
      BY <1>1 DEF SubdeviceTypeOK
    <3> QED BY <1>4, <1>11, <2>2, <3>1 DEF WriteAddress, Handshake, IsJob
  <2>6. j.pc = (IF job.adr < EndAddress(r) THEN "start" ELSE "done") /\ j.adr = job.adr
        /\ j.copied = job.copied /\ j.t = job.t
    BY <1>4, <2>2 DEF IsJob
  <2> QED BY <1>2, <1>5, <1>6, <2>1, <2>3, <2>4, <2>5, <2>6 DEF LoopAt
<1>12. CASE StartTransfer
  <2>1. job # Nothing /\ job.pc = "start" /\ registers' = registers
    BY <1>12 DEF StartTransfer, At
  <2>2. IsJob(j, job.t, job.kind, job.adr, job.copied, "wait")
    BY <1>1, <1>4, <1>12, <2>1, JobSteps
  <2>3. LoopAt(job, r)
    BY <1>7, <2>1, <2>2 DEF IsJob
  <2> QED BY <1>2, <1>5, <2>1, <2>2, <2>3 DEF LoopAt, IsJob
<1>13. CASE Wait
  <2>1. job # Nothing /\ job.pc = "wait" /\ UNCHANGED <<registers, hardware, late>>
    BY <1>13 DEF Wait, At
  <2>2. \/ hardware = Nothing /\ IsJob(j, job.t, job.kind, job.adr, job.copied, "fetch")
        \/ IsJob(j, job.t, job.kind, job.adr, job.copied, "wait")
    <3>1. ~(IsJob(j, job.t, job.kind, job.adr, job.copied, "done") /\ outcome' = "runtime_error")
      BY <1>4 DEF IsJob
    <3> QED BY <1>1, <1>4, <1>13, <2>1, <3>1, JobSteps
  <2>3. LoopAt(job, r)
    BY <1>7, <2>1, <2>2 DEF IsJob
  <2> QED BY <1>2, <1>5, <2>1, <2>2, <2>3 DEF LoopAt, IsJob
<1>14. CASE Fetch
  <2> DEFINE n == CopyWords(r, job.adr, job.copied)
             off == CopyOffset(r, job.adr)
             Reached(adr, c) ==
               First(r) + c = AtLeast(AtMost((adr - Base(r)) * Size, End(r)), First(r))
  <2>1. job # Nothing /\ job.pc = "fetch" /\ UNCHANGED <<registers, hardware, late>>
    BY <1>14 DEF Fetch, At
  <2>2. IsJob(j, job.t, job.kind, job.adr + 1,
              job.copied + CopyWords(range[job.t], job.adr, job.copied), "address")
    BY <1>1, <1>4, <1>14, <2>1, JobSteps
  <2>3. job \in Jobs /\ Current(job, r) /\ LoopAt(job, r) /\ job.adr \in Nat
    BY <1>7, <2>1, <2>2 DEF IsJob
  <2>4. IsJob(j, job.t, job.kind, job.adr + 1, job.copied + n, "address")
    BY <1>4, <2>2 DEF IsJob
  <2>5. ~Handshake => Reached(job.adr + 1, job.copied + n)
    <3>1. ~Handshake => OneTurnIs(r, job.adr, job.copied, n, off)
      BY <1>1, <2>1, <2>3, Turn
    <3>2. ~Handshake => First(r) + (job.copied + n) =
                          AtLeast(AtMost(((job.adr + 1) - Base(r)) * Size, End(r)), First(r))
      BY <3>1 DEF OneTurnIs
    <3> HIDE DEF n
    <3> QED BY <3>2
  <2> HIDE DEF n, Reached
  <2>6. /\ StartAddress(r) <= job.adr /\ job.adr < EndAddress(r)
        /\ hardware = Nothing
        /\ "chipSelectRegister" \in parameters => registers.chipSelect = job.t
    BY <2>1, <2>3 DEF LoopAt
  <2>7. /\ StartAddress(r) <= job.adr + 1 /\ job.adr + 1 <= EndAddress(r)
    BY <1>6, <2>3, <2>6
  <2>8. /\ j.adr = job.adr + 1 /\ j.copied = job.copied + n /\ j.pc = "address" /\ j.t = job.t
    BY <2>4 DEF IsJob
  <2>9. ~Handshake => First(r) + j.copied =
                        AtLeast(AtMost((j.adr - Base(r)) * Size, End(r)), First(r))
    <3>1. ~Handshake => Reached(j.adr, j.copied)
      BY <2>5, <2>8
    <3> QED BY <3>1 DEF Reached
  <2> HIDE DEF off
  <2> QED BY <1>2, <1>5, <2>1, <2>6, <2>7, <2>8, <2>9 DEF LoopAt
<1>15. CASE AccessFails \/ PostTransfer
  <2>1. job # Nothing
    BY <1>15 DEF AccessFails, PostTransfer, At
  <2>2. CASE AccessFails
    <3>1. IsJob(j, job.t, job.kind, job.adr, job.copied, "done") /\ outcome' = "runtime_error"
      BY <1>1, <1>4, <2>1, <2>2, JobSteps
    <3> QED BY <1>4, <3>1 DEF IsJob
  <2>3. CASE PostTransfer
    BY <1>4, <2>3 DEF PostTransfer
  <2> QED BY <1>15, <2>2, <2>3
<1>16. CASE \/ \E t \in Threads : \/ Open(t) \/ Close(t)
                                  \/ \E what \in {"read", "write"} : PreTransfer(t, what)
            \/ UNCHANGED subdeviceVars
  BY <1>8, <1>16 DEF Open, Close, PreTransfer, subdeviceVars
<1>17. CASE Complete
  <2>1. registers \in [chipSelect : Threads \cup {Nothing}, address : Nat, readData : Contents]
    BY <1>1 DEF SubdeviceTypeOK
  <2> QED BY <1>8, <1>17, <2>1 DEF Complete
<1> QED
  BY <1>9, <1>10, <1>11, <1>12, <1>13, <1>14, <1>15, <1>16, <1>17
     DEF SubdeviceNext, Transfer

\* Each step keeps what has been transferred.
LEMMA TransferStep ==
  ASSUME SubdeviceAssumption, SubdeviceInv, [SubdeviceNext]_subdeviceVars
  PROVE  TransferOk'
<1>1. SubdeviceTypeOK /\ RequestsOk /\ LoopOk /\ TransferOk
  BY DEF SubdeviceInv
<1>2. parameters' = parameters /\ range' = range
  BY SubdeviceConfigured
<1> DEFINE Goal(j, r) == IF Handshake THEN TransferredByArea(j, r) ELSE ~late => Transferred(j, r)
<1>3. SUFFICES ASSUME NEW j \in Jobs, NEW r \in Ranges, Current(j, r)'
               PROVE  Goal(j, r)'
  BY DEF TransferOk
<1>4. /\ job' = j /\ job' # Nothing /\ range[j.t] = r /\ j.t \in Threads
      /\ j.pc = "done" => outcome' = "ok"
      /\ j.kind \in {"read", "write"} /\ j.adr \in Nat
  BY <1>2, <1>3 DEF Current, Jobs
<1>5. Handshake' = Handshake
  BY <1>2, SameType
<1>6. \A k \in 1 .. r.words :
        /\ StoredWord(j.t, r, k)' = memory'[j.t][Place(r, k)[1]][Place(r, k)[2]]
        /\ Place(r, k)' = Place(r, k)
        /\ Word(j.t, k)' = Word(j.t, k)
  BY <1>2, SamePlaces DEF StoredWord, Word
<1>7. ASSUME job # Nothing, job.pc # "done", job.t = j.t
      PROVE  /\ job \in Jobs /\ Current(job, r) /\ LoopAt(job, r) /\ Goal(job, r)
             /\ job.kind \in {"read", "write"} /\ job.adr \in Nat
  <2>1. job \in Jobs /\ job.kind \in {"read", "write"} /\ job.adr \in Nat
    BY <1>1, <1>7 DEF SubdeviceTypeOK, Jobs
  <2>2. Current(job, r)
    BY <1>4, <1>7 DEF Current
  <2> QED BY <1>1, <2>1, <2>2 DEF LoopOk, TransferOk
<1> USE DEF StoredWord
<1>8. ASSUME job # Nothing, Goal(job, r),
             j.t = job.t, j.kind = job.kind, j.adr = job.adr, j.copied = job.copied,
             j.pc \in {"wait", "fetch"} <=> job.pc \in {"wait", "fetch"},
             UNCHANGED <<memory, hardware, area, late>>, registers'.readData = registers.readData, buffer'[j.t] = buffer[j.t]
      PROVE  Goal(j, r)'
  <2>1. CASE Handshake
    BY <1>2, <1>5, <1>6, <1>8, <2>1 DEF TransferredByArea
  <2>2. CASE ~Handshake
    BY <1>2, <1>5, <1>6, <1>8, <2>2 DEF Transferred, HasWords
  <2> QED BY <2>1, <2>2
<1>9. CASE \/ \E t \in Threads : \/ Open(t) \/ Close(t)
                                 \/ \E what \in {"read", "write"} : PreTransfer(t, what)
           \/ UNCHANGED subdeviceVars
  <2>1. job = j /\ job # Nothing /\ UNCHANGED <<memory, registers, hardware, area, outcome, late>>
    BY <1>4, <1>9 DEF Open, Close, PreTransfer, subdeviceVars
  <2>2. buffer'[j.t] = buffer[j.t]
    <3>1. ASSUME NEW t \in Threads, NEW what \in {"read", "write"}, PreTransfer(t, what)
          PROVE  buffer'[j.t] = buffer[j.t]
      <4>1. t # j.t
        BY <2>1, <3>1 DEF PreTransfer, Free
      <4>2. DOMAIN buffer = Threads
        BY <1>1 DEF SubdeviceTypeOK
      <4> QED BY <1>4, <3>1, <4>1, <4>2 DEF PreTransfer
    <3> QED BY <1>9, <3>1 DEF Open, Close, subdeviceVars
  <2>3. Current(j, r)
    BY <1>4, <2>1 DEF Current
  <2>4. Goal(j, r)
    BY <1>1, <2>3 DEF TransferOk
  <2> QED BY <1>8, <2>1, <2>2, <2>4
<1>10. CASE SelectChip \/ WriteAddress \/ Wait
  <2>1. job # Nothing /\ UNCHANGED <<memory, hardware, buffer, area, late>>
    BY <1>10 DEF SelectChip, WriteAddress, Wait, At
  <2>2. registers'.readData = registers.readData
    <3>1. registers \in [chipSelect : Threads \cup {Nothing}, address : Nat, readData : Contents]
      BY <1>1 DEF SubdeviceTypeOK
    <3> QED BY <1>10, <3>1 DEF SelectChip, WriteAddress, Wait
  <2>3. /\ job.pc # "done" /\ j.t = job.t /\ j.kind = job.kind /\ j.adr = job.adr /\ j.copied = job.copied
        /\ j.pc \in {"wait", "fetch"} <=> job.pc \in {"wait", "fetch"}
    <3>1. CASE SelectChip
      <4>1. job.pc = "select" /\ IsJob(j, job.t, job.kind, job.adr, job.copied, "address")
        BY <1>1, <1>4, <2>1, <3>1, JobSteps DEF SelectChip, At
      <4> QED BY <4>1 DEF IsJob
    <3>2. CASE WriteAddress
      <4>1. job.pc = "address" /\ \E at \in {"start", "done"} : IsJob(j, job.t, job.kind, job.adr, job.copied, at)
        BY <1>1, <1>4, <2>1, <3>2, JobSteps DEF WriteAddress, At
      <4> QED BY <4>1 DEF IsJob
    <3>3. CASE Wait
      <4>1. job.pc = "wait" /\ \E at \in {"wait", "fetch"} : IsJob(j, job.t, job.kind, job.adr, job.copied, at)
        <5>1. ~(IsJob(j, job.t, job.kind, job.adr, job.copied, "done") /\ outcome' = "runtime_error")
          BY <1>4 DEF IsJob
        <5> QED BY <1>1, <1>4, <2>1, <3>3, <5>1, JobSteps DEF Wait, At
      <4> QED BY <4>1 DEF IsJob
    <3> QED BY <1>10, <3>1, <3>2, <3>3
  <2>4. Goal(job, r)
    BY <1>7, <2>1, <2>3
  <2> QED BY <1>8, <2>1, <2>2, <2>3, <2>4
<1>11. ASSUME NEW t \in Threads, Lock(t)
       PROVE  Goal(j, r)'
  <2>1. j.t = t /\ j.adr = StartAddress(r) /\ j.copied = 0 /\ j.pc = "select"
    BY <1>4, <1>11 DEF Lock
  <2>2. \A k \in 1 .. r.words : ~(k <= 0)
    OBVIOUS
  <2>3. CASE Handshake
    <3>1. j.adr = 0
      BY <2>1, <2>3, LoopBounds DEF Ranges
    <3> QED BY <1>5, <2>1, <2>2, <2>3, <3>1 DEF TransferredByArea
  <2>4. CASE ~Handshake
    BY <1>5, <2>1, <2>2, <2>4 DEF Transferred
  <2> QED BY <2>3, <2>4
<1>12. CASE AccessFails \/ PostTransfer
  <2>1. job # Nothing
    BY <1>12 DEF AccessFails, PostTransfer, At
  <2>2. CASE AccessFails
    <3>1. IsJob(j, job.t, job.kind, job.adr, job.copied, "done") /\ outcome' = "runtime_error"
      BY <1>1, <1>4, <2>1, <2>2, JobSteps
    <3> QED BY <1>4, <3>1 DEF IsJob
  <2>3. CASE PostTransfer
    BY <1>4, <2>3 DEF PostTransfer
  <2> QED BY <1>12, <2>2, <2>3
<1>13. CASE Complete
  <2>1. job = j /\ job # Nothing /\ UNCHANGED <<buffer, area, outcome, late>> /\ hardware # Nothing /\ hardware' = Nothing
    BY <1>4, <1>13 DEF Complete
  <2>2. Current(j, r)
    BY <1>4, <2>1 DEF Current
  <2>3. Goal(j, r) /\ LoopAt(j, r)
    BY <1>1, <2>2 DEF TransferOk, LoopOk
  <2>4. CASE Handshake
    <3>1. memory' = memory
      BY <1>1, <1>13, <2>1, <2>4 DEF Complete, RequestsOk
    <3> QED BY <1>5, <1>6, <2>1, <2>3, <2>4, <3>1 DEF TransferredByArea
  <2>5. CASE ~Handshake /\ ~late /\ j.pc # "wait"
    <3>1. j.adr = StartAddress(r) /\ j.pc # "fetch"
      BY <2>1, <2>3, <2>5 DEF LoopAt
    <3>2. j.copied = 0
      BY <1>1, <2>2, <2>5, <3>1, Turn
    <3>3. \A k \in 1 .. r.words : ~(k <= 0)
      OBVIOUS
    <3> QED BY <1>5, <2>5, <3>1, <3>2, <3>3 DEF Transferred
  <2>6. CASE ~Handshake /\ ~late /\ j.pc = "wait" /\ j.kind = "write"
    <3>1. /\ hardware.kind = "write" /\ hardware.chip = j.t /\ hardware.address = j.adr
          /\ HasWords(hardware.data, j.t, r, j.adr)
          /\ \A k \in 1 .. r.words : k <= j.copied => StoredWord(j.t, r, k) = Word(j.t, k)
      BY <2>1, <2>3, <2>6 DEF Transferred
    <3>2. \A k \in 1 .. r.words : k <= j.copied => Place(r, k)[1] # j.adr
      BY <1>1, <2>2, <2>6, Turn DEF OneTurnIs
    <3>3. j.adr \in 0 .. MaxAddress
      BY <1>1, <2>2, <2>6, Turn DEF OneTurnIs
    <3>4. /\ memory'[j.t][j.adr] = hardware.data
          /\ \A a \in 0 .. MaxAddress : a # j.adr => memory'[j.t][a] = memory[j.t][a]
      <4>1. memory' = [memory EXCEPT ![j.t][j.adr] = hardware.data]
        BY <1>13, <3>1 DEF Complete
      <4>2. memory \in [Threads -> [0 .. MaxAddress -> Contents]]
        BY <1>1 DEF SubdeviceTypeOK
      <4>3. memory[j.t] \in [0 .. MaxAddress -> Contents]
        BY <1>4, <4>2
      <4>4. memory'[j.t] = [memory[j.t] EXCEPT ![j.adr] = hardware.data]
        BY <1>4, <4>1, <4>2
      <4> QED BY <3>3, <4>3, <4>4
    <3>5. \A k \in 1 .. r.words : k <= j.copied => StoredWord(j.t, r, k)' = Word(j.t, k)
      <4>1. \A k \in 1 .. r.words : Place(r, k)[1] \in 0 .. MaxAddress
        BY <1>1, <2>2, <2>6, Turn, PlaceOfWord DEF Ranges
      <4> QED BY <1>6, <3>1, <3>2, <3>4, <4>1
    <3>6. HasWords(memory'[j.t][j.adr], j.t, r, j.adr)
      BY <3>1, <3>4
    <3> HIDE DEF StoredWord
    <3> QED BY <1>5, <1>6, <2>1, <2>6, <3>5, <3>6 DEF Transferred, HasWords
  <2>7. CASE ~Handshake /\ ~late /\ j.pc = "wait" /\ j.kind = "read"
    <3>1. hardware.kind = "read" /\ hardware.chip = j.t /\ hardware.address = j.adr
      BY <2>1, <2>3, <2>7 DEF Transferred
    <3>2. memory' = memory /\ registers'.readData = memory[j.t][j.adr]
      <4>1. registers \in [chipSelect : Threads \cup {Nothing}, address : Nat, readData : Contents]
        BY <1>1 DEF SubdeviceTypeOK
      <4> QED BY <1>13, <3>1, <4>1 DEF Complete
    <3> QED BY <1>5, <1>6, <2>1, <2>3, <2>7, <3>2 DEF Transferred
  <2>8. CASE ~Handshake /\ late
    BY <1>5, <2>1, <2>8
  <2> QED BY <1>4, <2>4, <2>5, <2>6, <2>7, <2>8
<1>14. CASE Fetch
  <2> DEFINE n == CopyWords(r, job.adr, job.copied)
             off == CopyOffset(r, job.adr)
  <2>1. job # Nothing /\ job.pc = "fetch" /\ UNCHANGED <<memory, registers, hardware, area, late>>
    BY <1>14 DEF Fetch, At
  <2>2. IsJob(j, job.t, job.kind, job.adr + 1,
              job.copied + CopyWords(range[job.t], job.adr, job.copied), "address")
    BY <1>1, <1>4, <1>14, <2>1, JobSteps
  <2>3. job \in Jobs /\ Current(job, r) /\ LoopAt(job, r) /\ Goal(job, r) /\ job.kind = j.kind /\ job.t = j.t
    BY <1>7, <2>1, <2>2 DEF IsJob
  <2>4. IsJob(j, job.t, job.kind, job.adr + 1, job.copied + n, "address")
    BY <1>4, <2>2 DEF IsJob
  <2>5. CASE Handshake
    BY <1>5, <1>6, <2>1, <2>3, <2>4, <2>5 DEF TransferredByArea, IsJob
  <2>6. ASSUME ~Handshake
        PROVE  /\ job.copied \in Nat /\ n \in Nat /\ off \in Nat /\ off + n <= Size
               /\ \A k \in 1 .. r.words :
                    /\ k <= job.copied \/ k > job.copied + n \/ k \in job.copied + 1 .. job.copied + n
                    /\ k \in job.copied + 1 .. job.copied + n =>
                         /\ Place(r, k)[1] = job.adr
                         /\ Place(r, k)[2] = off + k - job.copied
    <3>1. OneTurnIs(r, job.adr, job.copied, n, off) /\ job.copied \in Nat
      BY <1>1, <2>1, <2>3, <2>6, Turn
    <3> HIDE DEF n, off
    <3> QED BY <3>1 DEF OneTurnIs
  <2>7. j.copied = job.copied + n /\ j.pc = "address"
    BY <2>4 DEF IsJob
  <2>8. hardware = Nothing
    BY <2>1, <2>3 DEF LoopAt
  <2>9. CASE ~Handshake /\ j.kind = "write"
    <3>1. ASSUME ~late, NEW k \in 1 .. r.words, k <= j.copied
          PROVE  StoredWord(j.t, r, k)' = Word(j.t, k)
      <4>1. /\ HasWords(memory[j.t][job.adr], j.t, r, job.adr)
            /\ k <= job.copied => StoredWord(j.t, r, k) = Word(j.t, k)
        BY <2>1, <2>3, <2>8, <2>9, <3>1 DEF Transferred
      <4> HIDE DEF n, off
      <4>2. CASE k <= job.copied
        BY <1>6, <2>1, <4>1, <4>2
      <4>3. CASE k \in job.copied + 1 .. job.copied + n
        <5>1. Place(r, k)[1] = job.adr
          BY <2>6, <2>9, <4>3
        <5>2. memory[j.t][job.adr][Place(r, k)[2]] = Word(j.t, k)
          BY <4>1, <5>1 DEF HasWords
        <5> QED BY <1>6, <2>1, <5>1, <5>2
      <4> QED BY <2>6, <2>7, <2>9, <3>1, <4>2, <4>3
    <3> HIDE DEF StoredWord
    <3> QED BY <1>5, <1>6, <2>1, <2>7, <2>9, <3>1 DEF Transferred
  <2>10. CASE ~Handshake /\ j.kind = "read"
    <3>1. ASSUME ~late, NEW k \in 1 .. r.words, k <= j.copied
          PROVE  buffer'[j.t][k] = StoredWord(j.t, r, k)'
      <4>1. /\ registers.readData = memory[j.t][job.adr]
            /\ k <= job.copied => buffer[j.t][k] = StoredWord(j.t, r, k)
        BY <2>1, <2>3, <2>8, <2>10, <3>1 DEF Transferred
      <4>2. buffer'[j.t][k] = IF k - job.copied \in 1 .. n THEN registers.readData[off + k - job.copied] ELSE buffer[j.t][k]
        <5>1. DOMAIN buffer = Threads
          BY <1>1 DEF SubdeviceTypeOK
        <5> QED BY <1>4, <1>14, <2>3, <2>10, <5>1 DEF Fetch
      <4> HIDE DEF n, off
      <4>3. CASE k <= job.copied
        BY <1>6, <2>1, <2>6, <2>10, <4>1, <4>2, <4>3
      <4>4. CASE k \in job.copied + 1 .. job.copied + n
        <5>1. Place(r, k)[1] = job.adr /\ Place(r, k)[2] = off + k - job.copied
          BY <2>6, <2>10, <4>4
        <5>2. k - job.copied \in 1 .. n
          BY <2>6, <2>10, <4>4
        <5> QED BY <1>6, <2>1, <4>1, <4>2, <5>1, <5>2
      <4> QED BY <2>6, <2>7, <2>10, <3>1, <4>3, <4>4
    <3> HIDE DEF StoredWord
    <3> QED BY <1>5, <2>1, <2>7, <2>10, <3>1 DEF Transferred
  <2> QED BY <1>4, <2>5, <2>9, <2>10
<1>15. CASE StartTransfer
  <2> DEFINE n == CopyWords(r, job.adr, job.copied)
             off == CopyOffset(r, job.adr)
             t == j.t
             adr == j.adr
  <2>1. job # Nothing /\ job.pc = "start" /\ UNCHANGED <<registers, buffer>>
    BY <1>15 DEF StartTransfer, At
  <2>2. IsJob(j, job.t, job.kind, job.adr, job.copied, "wait")
    BY <1>1, <1>4, <1>15, <2>1, JobSteps
  <2>3. /\ job \in Jobs /\ Current(job, r) /\ LoopAt(job, r) /\ Goal(job, r)
        /\ job.kind = j.kind /\ job.t = t /\ job.adr = adr /\ job.copied = j.copied /\ j.pc = "wait"
    BY <1>7, <2>1, <2>2 DEF IsJob
  <2>4. j.kind = "write" => \A k \in 1 .. r.words : buffer[t][k] = Word(t, k)
    BY <1>1, <1>4, <2>1, <2>3 DEF RequestsOk
  <2>5. CASE Handshake
    <3> DEFINE u == job.t
               q == range[u]
    <3>1. /\ area' = [area EXCEPT ![u][job.adr + 1] = buffer[u][job.adr + 1]]
          /\ memory' = [memory EXCEPT ![u] = [a \in 0 .. MaxAddress |->
                      [i \in 1 .. Size |->
                         IF \E k \in 1 .. q.words : Place(q, k) = <<a, i>>
                         THEN area'[u][CHOOSE k \in 1 .. q.words : Place(q, k) = <<a, i>>]
                         ELSE memory[u][a][i]]]]
      BY <1>15, <2>5 DEF StartTransfer, Handshake
    <3>2. u = t /\ q = r
      BY <1>4, <2>3
    <3>3. adr + 1 \in 1 .. r.words /\ adr \in Nat
      BY <1>4, <2>1, <2>3, <2>5, LoopBounds DEF LoopAt, Ranges
    <3>4. j.kind = "write"
      BY <1>1, <1>4, <2>1, <2>3, <2>5 DEF RequestsOk
    <3>5. \A k \in 1 .. r.words : k <= adr + 1 => area'[t][k] = Word(t, k)
      <4>1. DOMAIN area = Threads /\ area[t] \in [1 .. r.words -> Int]
        BY <1>1, <1>4 DEF SubdeviceTypeOK
      <4>2. area'[t] = [area[t] EXCEPT ![adr + 1] = buffer[t][adr + 1]]
        BY <1>4, <2>3, <3>1, <3>2, <4>1
      <4>3. \A k \in 1 .. r.words : k <= adr => area[t][k] = Word(t, k)
        BY <2>1, <2>3, <2>5 DEF TransferredByArea
      <4> TAKE k \in 1 .. r.words
      <4>4. CASE k = adr + 1
        BY <2>4, <3>3, <3>4, <4>1, <4>2, <4>4
      <4>5. CASE k # adr + 1
        <5>1. k <= adr + 1 => k <= adr
          BY <3>3, <4>5
        <5>2. area'[t][k] = area[t][k]
          BY <4>1, <4>2, <4>5
        <5> QED BY <4>3, <5>1, <5>2
      <4> QED BY <4>4, <4>5
    <3>6. ASSUME NEW k \in 1 .. q.words
          PROVE  memory'[u][Place(q, k)[1]][Place(q, k)[2]] = area'[u][k]
      <4> DEFINE a == Place(q, k)[1]
                 i == Place(q, k)[2]
                 l == CHOOSE m \in 1 .. q.words : Place(q, m) = <<a, i>>
      <4>1. q \in Ranges /\ q.start + q.words <= MaxAddress + 1
        BY <1>1, <1>4, <3>2 DEF SubdeviceTypeOK
      <4>2. a \in 0 .. MaxAddress /\ i \in 1 .. Size /\ Place(q, k) = <<a, i>>
        BY <4>1, PlaceOfWord DEF Ranges
      <4>3. l = k
        <5>1. l \in 1 .. q.words /\ Place(q, l) = <<a, i>>
          BY <4>2
        <5> HIDE DEF l, q
        <5> QED BY <4>1, <4>2, <5>1, PlacesDiffer DEF Ranges
      <4>4. DOMAIN memory = Threads /\ u \in Threads
        BY <1>1, <1>4, <3>2 DEF SubdeviceTypeOK
      <4>5. memory'[u][a][i] = IF \E m \in 1 .. q.words : Place(q, m) = <<a, i>>
                               THEN area'[u][l] ELSE memory[u][a][i]
        <5> HIDE DEF a, i
        <5> QED BY <3>1, <4>2, <4>4
      <4> QED BY <4>2, <4>3, <4>5
    <3>7. \A k \in 1 .. r.words : StoredWord(t, r, k)' = area'[t][k]
      BY <1>6, <3>2, <3>6
    <3> HIDE DEF StoredWord
    <3> QED BY <1>5, <1>6, <2>3, <2>5, <3>5, <3>7 DEF TransferredByArea
  <2>6. CASE ~Handshake /\ ~late'
    <3>1. /\ UNCHANGED memory /\ ~late
          /\ hardware' = [kind |-> j.kind, chip |-> Chip, address |-> registers.address,
                    data |-> IF j.kind = "write" THEN Content(t, adr, j.copied) ELSE <<>>]
      BY <1>15, <2>3, <2>6 DEF StartTransfer, Start, Handshake
    <3>2. Chip = t /\ registers.address = adr
      BY <1>1, <2>1, <2>3, <2>6, Started
    <3>3. hardware' # Nothing
      <4>1. /\ Content(t, adr, j.copied) \in Contents
            /\ j.kind \in {"read", "write"} /\ t \in Threads /\ adr \in Nat
        BY <1>1, <1>4, <2>1, <2>3, <2>6, Started
      <4>2. hardware' \in [kind : {"read", "write"}, chip : Threads, address : Nat, data : Contents \cup {<<>>}]
        <5> HIDE DEF t, adr
        <5> QED BY <3>1, <3>2, <4>1
      <4> QED BY <4>2 DEF SubdeviceAssumption, Contents
    <3>4. \A k \in 1 .. r.words : k <= j.copied => StoredWord(t, r, k)' = StoredWord(t, r, k)
      BY <1>6, <3>1
    <3>5. CASE j.kind = "write"
      <4>1. HasWords(hardware'.data, t, r, adr)
        <5>1. OneTurnIs(r, adr, j.copied, n, off) /\ j.copied \in Nat
          BY <1>1, <2>1, <2>3, <2>6, Turn
        <5>2. ASSUME NEW k \in 1 .. r.words, Place(r, k)[1] = adr
              PROVE  hardware'.data[Place(r, k)[2]] = Word(t, k)
          <6> DEFINE c == j.copied
                     i == off + k - c
          <6> HIDE DEF n, off, c
          <6>1. /\ k \in c + 1 .. c + n /\ Place(r, k)[2] = off + k - c
                /\ c \in Nat /\ n \in Nat /\ off \in Nat /\ off + n <= Size
            BY <5>1, <5>2 DEF OneTurnIs, c
          <6>2. i \in 1 .. Size /\ i - off \in 1 .. n /\ c + (i - off) = k
            BY <6>1 DEF SubdeviceAssumption
          <6> HIDE DEF i
          <6>3. hardware'.data[i] = buffer[t][c + (i - off)]
            BY <1>4, <2>3, <3>1, <3>5, <6>2 DEF Content, n, off, c
          <6> QED BY <2>4, <3>5, <6>1, <6>2, <6>3 DEF i
        <5> QED BY <5>2 DEF HasWords
      <4>2. Transferred(job, r)
        BY <2>3, <2>6, <3>1
      <4> HIDE DEF StoredWord
      <4> QED BY <1>5, <1>6, <2>3, <2>6, <3>1, <3>2, <3>3, <3>4, <3>5, <4>1, <4>2 DEF Transferred,
        HasWords
    <3>6. CASE j.kind = "read"
      <4>1. Transferred(job, r)
        BY <2>3, <2>6, <3>1
      <4> HIDE DEF StoredWord
      <4> QED BY <1>5, <2>1, <2>3, <2>6, <3>1, <3>2, <3>3, <3>4, <3>6, <4>1 DEF Transferred
    <3> QED BY <1>4, <3>5, <3>6
  <2>7. CASE ~Handshake /\ late'
    BY <1>5, <2>7
  <2> QED BY <2>5, <2>6, <2>7
<1> QED
  BY <1>9, <1>10, <1>11, <1>12, <1>13, <1>14, <1>15 DEF SubdeviceNext, Transfer

\* What the invariant is needed for.
LEMMA SubdeviceInvImplies ==
  ASSUME SubdeviceAssumption, SubdeviceInv
  PROVE  WriteArrives /\ ReadIsRight
<1>1. SubdeviceTypeOK /\ LoopOk /\ TransferOk /\ RequestsOk
  BY DEF SubdeviceInv
<1>2. SUFFICES ASSUME At("done"), outcome = "ok", ~late
               PROVE  /\ job.kind = "write" =>
                           \A k \in 1 .. range[job.t].words : Stored(job.t, k) = Word(job.t, k)
                      /\ job.kind = "read" =>
                           \A k \in 1 .. range[job.t].words : buffer[job.t][k] = Stored(job.t, k)
  BY DEF WriteArrives, ReadIsRight
<1>3. PICK j \in Jobs : job = j /\ j # Nothing /\ j.pc = "done"
  BY <1>1, <1>2 DEF At, SubdeviceTypeOK
<1>4. PICK r \in Ranges : range[j.t] = r
  BY <1>1 DEF SubdeviceTypeOK, Jobs
<1>5. Current(j, r)
  BY <1>2, <1>3, <1>4 DEF Current
<1>6. LoopAt(j, r) /\ (IF Handshake THEN TransferredByArea(j, r) ELSE Transferred(j, r))
  BY <1>1, <1>2, <1>5 DEF LoopOk, TransferOk
<1>7. \A k \in 1 .. r.words : Stored(j.t, k) = StoredWord(j.t, r, k)
  BY <1>4 DEF Stored, StoredWord
<1>8. CASE Handshake
  <2>1. j.adr = r.words /\ r.words > 0 /\ r.words \in Nat
    BY <1>3, <1>6, <1>8, LoopBounds DEF LoopAt, Ranges
  <2>2. j.kind # "read"
    BY <1>1, <1>3, <1>8 DEF RequestsOk
  <2>3. \A k \in 1 .. r.words : area[j.t][k] = Word(j.t, k) /\ StoredWord(j.t, r, k) = area[j.t][k]
    BY <1>3, <1>6, <1>8, <2>1 DEF TransferredByArea
  <2> QED BY <1>3, <1>4, <1>7, <2>2, <2>3
<1>9. CASE ~Handshake
  <2>1. j.copied = r.words
    <3>1. /\ j.adr = EndAddress(r) /\ j.copied \in Int /\ First(r) \in Int /\ r.words \in Int
          /\ First(r) + j.copied = AtLeast(AtMost((j.adr - Base(r)) * Size, End(r)), First(r))
      BY <1>3, <1>6, <1>9 DEF LoopAt, Jobs, Ranges, First
    <3>2. First(r) + j.copied = End(r)
      BY <1>9, <3>1, LoopBounds DEF Ranges
    <3>3. First(r) + j.copied = First(r) + r.words
      BY <3>2 DEF End
    <3>4. j.copied \in Int /\ First(r) \in Int /\ r.words \in Int
      BY <3>1
    <3> QED BY <3>3, <3>4
  <2>2. \A k \in 1 .. r.words : k <= j.copied
    BY <2>1
  <2>3. /\ j.kind = "write" => \A k \in 1 .. r.words : StoredWord(j.t, r, k) = Word(j.t, k)
        /\ j.kind = "read" => \A k \in 1 .. r.words : buffer[j.t][k] = StoredWord(j.t, r, k)
    BY <1>6, <1>9, <2>2 DEF Transferred
  <2> QED BY <1>3, <1>4, <1>7, <2>3
<1> QED BY <1>8, <1>9

LEMMA SubdeviceInvStep ==
  ASSUME SubdeviceAssumption, SubdeviceInv, [SubdeviceNext]_subdeviceVars
  PROVE  SubdeviceInv'
<1>1. SubdeviceTypeOK' /\ RequestsOk' /\ LoopOk' /\ TransferOk'
  BY SubdeviceTypeStep, RequestsStep, LoopStep, TransferStep
<1> QED BY <1>1 DEF SubdeviceInv

\* The buffer of a write has its words, until it is swapped back.
LEMMA DataGivenBack ==
  ASSUME SubdeviceInv, [SubdeviceNext]_subdeviceVars
  PROVE  GivesDataBack
<1>1. SUFFICES ASSUME At("done"), job.kind = "write", job' = Nothing
               PROVE  user'[job.t] = [k \in 1 .. range[job.t].words |-> Word(job.t, k)]
  BY DEF GivesDataBack
<1>2. /\ job # Nothing /\ job \in Jobs /\ job.t \in Threads /\ job.pc = "done"
      /\ buffer[job.t] \in [1 .. range[job.t].words -> Int] /\ DOMAIN user = Threads
      /\ \A k \in 1 .. range[job.t].words : buffer[job.t][k] = Word(job.t, k)
  BY <1>1 DEF SubdeviceInv, SubdeviceTypeOK, RequestsOk, At, Jobs
<1>3. buffer[job.t] = [k \in 1 .. range[job.t].words |-> Word(job.t, k)]
  BY <1>2
<1>4. PostTransfer
  <2>1. job' # job /\ \A t \in Threads : ~Lock(t)
    BY <1>1, <1>2 DEF Lock
  <2>2. SubdeviceNext
    BY <2>1 DEF subdeviceVars
  <2>3. \A t \in Threads : /\ ~Open(t) /\ ~Close(t)
                           /\ ~PreTransfer(t, "read") /\ ~PreTransfer(t, "write")
    BY <2>1 DEF Open, Close, PreTransfer
  <2>4. ~Complete
    BY <2>1 DEF Complete
  <2>5. ~SelectChip /\ ~WriteAddress /\ ~StartTransfer /\ ~Wait /\ ~Fetch /\ ~AccessFails
    BY <1>2 DEF SelectChip, WriteAddress, StartTransfer, Wait, Fetch, AccessFails, At
  <2> QED BY <2>1, <2>2, <2>3, <2>4, <2>5 DEF SubdeviceNext, Transfer
<1>5. user' = [user EXCEPT ![job.t] = buffer[job.t]]
  BY <1>1, <1>4 DEF PostTransfer
<1> QED BY <1>2, <1>3, <1>5

(***************************************************************************)
(* A write or a read through a subdevice which has succeeded has           *)
(* transferred all its words to or from the place of the register in the   *)
(* chip of its backend: for every type of subdevice, whatever other        *)
(* backends on the same registers do.                                      *)
(***************************************************************************)
THEOREM WordsArrive ==
  ASSUME SubdeviceAssumption
  PROVE  SubdeviceSpec => [](WriteArrives /\ ReadIsRight)
<1>1. SubdeviceInit => SubdeviceInv
  BY SubdeviceInvInit
<1>2. SubdeviceInv /\ [SubdeviceNext]_subdeviceVars => SubdeviceInv'
  BY SubdeviceInvStep
<1>3. SubdeviceInv => WriteArrives /\ ReadIsRight
  BY SubdeviceInvImplies
<1> QED BY <1>1, <1>2, <1>3, PTL DEF SubdeviceSpec

(***************************************************************************)
(* When a write ends with its buffers swapped back, the application has    *)
(* the data it has written, also if the write has failed with a            *)
(* runtime_error.                                                          *)
(***************************************************************************)
THEOREM WrittenDataIsKept ==
  ASSUME SubdeviceAssumption
  PROVE  SubdeviceSpec => WrittenDataKept
<1>1. SubdeviceInit => SubdeviceInv
  BY SubdeviceInvInit
<1>2. SubdeviceInv /\ [SubdeviceNext]_subdeviceVars => SubdeviceInv'
  BY SubdeviceInvStep
<1>3. SubdeviceInv /\ [SubdeviceNext]_subdeviceVars => [GivesDataBack]_subdeviceVars
  BY DataGivenBack
<1> QED BY <1>1, <1>2, <1>3, PTL DEF SubdeviceSpec, WrittenDataKept

-----------------------------------------------------------------------------
(* SharedDummy: the inductive invariant *)

Phases == {"none", "mutex", "lock", "running", "posting", "stop", "join", "leave",
           "remove segment", "remove mutex", "dead"}
Registered(p) == phase[p] \in {"running", "posting", "stop", "join", "leave"}
Removing(p) == phase[p] \in {"remove segment", "remove mutex"}
Waiting(p) == thread[p] \in {"wait", "copy", "handle"}
Numbers == [Interrupts -> Nat]
Posts == [Processes -> Nat]
Names == 0 .. MaxObjects

SharedTypeOK ==
  /\ maxMember \in Nat \ {0}
  /\ named \in [Kinds -> Names]
  /\ stale \subseteq Objects
  /\ pidSet \in [Objects -> SUBSET Processes]
  /\ semaphores \in [Objects -> SUBSET Processes]
  /\ value \in [Objects -> {0, 1}]
  /\ posted \in [Objects -> Posts]
  /\ counter \in [Objects -> Numbers]
  /\ phase \in [Processes -> Phases]
  /\ thread \in [Processes -> {"none", "start", "wait", "copy", "handle", "ended"}]
  /\ segment \in [Processes -> Names]
  /\ mutex \in [Processes -> Names]
  /\ stop \in [Processes -> BOOLEAN]
  /\ posting \in [Processes -> SUBSET Processes]
  /\ known \in [Processes -> Numbers] /\ copy \in [Processes -> Numbers]
  /\ first \in [Processes -> Numbers] /\ calls \in [Processes -> Numbers]


\* The processes which are registered, and the one which is constructed, use
\* the segment which is found by its name. The process IDs in a segment are
\* those of the processes which are registered there, and of dead ones.
Placed(p) ==
  /\ Registered(p) \/ Constructing(p) => segment[p] = named["segment"] /\ segment[p] \in Objects
  /\ Registered(p) => p \in pidSet[segment[p]]
  /\ Registered(p) <=> thread[p] # "none"
  /\ \A s \in Objects : p \in pidSet[s] => phase[p] = "dead" \/ (Registered(p) /\ segment[p] = s)
PlaceInv == \A p \in Processes : Placed(p)

\* Processes are constructed one after the other, and the process which removes
\* the names is alone.
AloneInv ==
  \A p \in Processes :
    /\ Constructing(p) => \A q \in Processes : Constructing(q) => q = p
    /\ Removing(p) => \A q \in Processes : Alive(q) => q = p
    /\ phase[p] = "remove mutex" => named["segment"] = 0

\* What a process finds after the last one has gone gracefully.
NameInv ==
  last = "closed" /\ (\A p \in Processes : ~Alive(p)) => named = [k \in Kinds |-> 0]

\* A process uses the mutex which is found by its name, or is blocked for ever.
MutexInv ==
  \A p \in Processes :
    /\ phase[p] = "lock" => mutex[p] = named["mutex"] /\ mutex[p] \in Objects
    /\ Registered(p) => mutex[p] \in Objects /\ (mutex[p] \in stale \/ mutex[p] = named["mutex"])

\* The entries for the semaphores are enough for the processes which still use
\* one and those which will.
FitInv == \A s \in Objects : Cardinality(semaphores[s] \cup pidSet[s]) <= maxMember

\* Each semaphore is that of a dead process, or of one with a started thread.
OwnerInv ==
  \A p \in Processes, s \in Objects :
    p \in semaphores[s] =>
      \/ phase[p] = "dead"
      \/ phase[p] \in {"running", "posting", "stop", "join"} /\ segment[p] = s /\ thread[p] # "start"

\* The thread has a semaphore, and has been or will be woken up to end.
ThreadAt(p) ==
  /\ Waiting(p) => phase[p] \in {"running", "posting", "stop", "join"} /\ p \in semaphores[segment[p]]
  /\ phase[p] \in {"stop", "join", "leave"} => stop[p]
  /\ phase[p] \in {"join", "leave"} => thread[p] # "start"
  /\ phase[p] = "join" /\ thread[p] = "wait" => posted[segment[p]][p] > 0
  /\ phase[p] \notin {"posting", "dead"} => posting[p] = {}
ThreadInv == \A p \in Processes : ThreadAt(p)

\* A thread will wake up: it is posted, or about to be.
Called(p) == posted[segment[p]][p] > 0 \/ \E q \in Processes : p \in posting[q]

\* What a thread has handled of the interrupts, and which it will still see.
CallsAt(p) ==
  Waiting(p) =>
    \A i \in Interrupts :
      /\ first[p][i] <= known[p][i] /\ known[p][i] <= counter[segment[p]][i]
      /\ first[p][i] > 0 => calls[p][i] = known[p][i] - first[p][i]
      /\ known[p][i] > first[p][i] => calls[p][i] > 0
      /\ thread[p] = "handle" => known[p][i] <= copy[p][i] /\ copy[p][i] <= counter[segment[p]][i]
      /\ thread[p] = "wait" /\ ~Called(p) => known[p][i] = counter[segment[p]][i]
      /\ thread[p] = "handle" /\ ~Called(p) => copy[p][i] = counter[segment[p]][i]
CallInv == \A p \in Processes : CallsAt(p)

SharedInv ==
  /\ SharedTypeOK /\ PlaceInv /\ AloneInv /\ NameInv /\ MutexInv
  /\ FitInv /\ OwnerInv /\ ThreadInv /\ CallInv

(***************************************************************************)
(* A step is one of an action of some process, or changes nothing.         *)
(***************************************************************************)
StepOf(p) ==
  \/ OpenSegment(p) \/ OpenMutex(p) \/ Timeout(p) \/ Register(p)
  \/ StartThread(p) \/ WaitForSem(p) \/ Copy(p) \/ Handle(p)
  \/ Write(p) \/ (\E i \in Interrupts : Trigger(p, i)) \/ Post(p)
  \/ Stop(p) \/ WakeUp(p) \/ RemoveSem(p) \/ Leave(p) \/ RemoveNames(p)
  \/ Crash(p)

\* A step of another component, or none.
Same == UNCHANGED sharedDummyVars

LEMMA SharedSteps ==
  ASSUME [SharedDummyNext]_sharedDummyVars
  PROVE  Same \/ \E p \in Processes : StepOf(p)
BY Zenon DEF SharedDummyNext, StepOf, Same

(***************************************************************************)
(* A new segment is none which is found by its name or used by a process.  *)
(***************************************************************************)
LEMMA UnusedSegment ==
  ASSUME SharedTypeOK, Unused("segment") # {}
  PROVE  LET s == CHOOSE o \in Unused("segment") : TRUE IN
         s \in Objects /\ s # named["segment"] /\ \A q \in Processes : Alive(q) => segment[q] # s
<1> DEFINE s == CHOOSE o \in Unused("segment") : TRUE
<1>1. s \in Unused("segment")
  OBVIOUS
<1> HIDE DEF s
<1>2. s \in Objects /\ s # named["segment"] /\ \A q \in Processes : Alive(q) => segment[q] # s
  BY <1>1 DEF Unused
<1> QED BY <1>2 DEF s

(***************************************************************************)
(* A new mutex is none which is found by its name or used by a process.    *)
(***************************************************************************)
LEMMA UnusedMutex ==
  ASSUME SharedTypeOK, Unused("mutex") # {}
  PROVE  LET m == CHOOSE o \in Unused("mutex") : TRUE IN
         m \in Objects /\ m # named["mutex"] /\ \A q \in Processes : Alive(q) => mutex[q] # m
<1> DEFINE m == CHOOSE o \in Unused("mutex") : TRUE
<1>1. m \in Unused("mutex")
  OBVIOUS
<1> HIDE DEF m
<1>2. m \in Objects /\ m # named["mutex"] /\ \A q \in Processes : Alive(q) => mutex[q] # m
  BY <1>1 DEF Unused
<1> QED BY <1>2 DEF m

(***************************************************************************)
(* The initial values have the right types.                                *)
(***************************************************************************)
LEMMA SharedValues ==
  ASSUME SharedAssumption
  PROVE  /\ NoCounts \in Numbers /\ [i \in Interrupts |-> 0] \in Numbers
         /\ [q \in Processes |-> 0] \in Posts
         /\ 0 \in Names /\ Objects \subseteq Names
BY DEF SharedAssumption, NoCounts, Numbers, Posts, Names, Objects

(***************************************************************************)
(* A semaphore which is posted or waited for.                              *)
(***************************************************************************)
LEMMA Posted ==
  ASSUME posted \in [Objects -> Posts], NEW s \in Objects, NEW p \in Processes
  PROVE  /\ [posted EXCEPT ![s][p] = @ + 1] \in [Objects -> Posts]
         /\ posted[s][p] > 0 => [posted EXCEPT ![s][p] = @ - 1] \in [Objects -> Posts]
BY DEF Posts

(***************************************************************************)
(* An interrupt which is counted.                                          *)
(***************************************************************************)
LEMMA CounterTyped ==
  ASSUME counter \in [Objects -> Numbers], NEW s \in Objects, NEW i \in Interrupts
  PROVE  [counter EXCEPT ![s][i] = @ + 1] \in [Objects -> Numbers]
BY DEF Numbers

(***************************************************************************)
(* The names of objects which exist.                                       *)
(***************************************************************************)
LEMMA Named ==
  ASSUME SharedAssumption, NEW o \in Names, o # 0
  PROVE  o \in Objects
BY DEF SharedAssumption, Names, Objects

(***************************************************************************)
(* A part of a set which fits also fits.                                   *)
(***************************************************************************)
LEMMA Fewer ==
  ASSUME SharedAssumption, NEW A, NEW B \in SUBSET Processes, A \subseteq B, NEW n \in Nat,
         Cardinality(B) <= n
  PROVE  Cardinality(A) <= n
<1>1. IsFiniteSet(B)
  BY FS_Subset DEF SharedAssumption
<1>2. /\ IsFiniteSet(A) /\ Cardinality(A) <= Cardinality(B)
  BY <1>1, FS_Subset
<1>3. Cardinality(A) \in Nat /\ Cardinality(B) \in Nat
  BY <1>1, <1>2, FS_CardinalityType
<1> QED BY <1>2, <1>3

(***************************************************************************)
(* The steps of others which only add to the calls of a thread do not disturb *)
(* what it has counted.                                                    *)
(***************************************************************************)
LEMMA CallsFrame ==
  ASSUME NEW q \in Processes, CallsAt(q), thread'[q] = thread[q],
         Waiting(q) => /\ segment'[q] = segment[q] /\ counter'[segment[q]] = counter[segment[q]]
                       /\ known'[q] = known[q] /\ copy'[q] = copy[q]
                       /\ first'[q] = first[q] /\ calls'[q] = calls[q]
                       /\ Called(q) => Called(q)'
  PROVE  CallsAt(q)'
BY DEF CallsAt, Waiting

(***************************************************************************)
(* Every step keeps the types.                                             *)
(***************************************************************************)
LEMMA SharedTypeStep ==
  ASSUME SharedAssumption, ~Overlap, SharedInv, [SharedDummyNext]_sharedDummyVars
  PROVE  SharedTypeOK'
<1> USE SharedValues DEF SharedInv
<1>0. CASE Same
  BY <1>0 DEF Same, sharedDummyVars, objects, contents, threads, SharedTypeOK, Kinds, Phases, Forget
<1>1. ASSUME NEW p \in Processes, StepOf(p)
      PROVE  SharedTypeOK'
  <2>1. CASE OpenSegment(p)
    <3>1. CASE named["segment"] # 0
      BY <2>1, <3>1 DEF OpenSegment, contents, objects, threads, SharedTypeOK, Kinds, Phases, Forget
    <3>2. CASE named["segment"] = 0
      <4> DEFINE s == CHOOSE o \in Unused("segment") : TRUE
      <4>1. s \in Objects
        BY <2>1, <3>2, UnusedSegment DEF OpenSegment, SharedInv
      <4> HIDE DEF s
      <4>2. /\ named' = [named EXCEPT !["segment"] = s]
            /\ segment' = [segment EXCEPT ![p] = s]
            /\ pidSet' = [pidSet EXCEPT ![s] = {}]
            /\ semaphores' = [semaphores EXCEPT ![s] = {}]
            /\ value' = [value EXCEPT ![s] = 0]
            /\ posted' = [posted EXCEPT ![s] = [q \in Processes |-> 0]]
            /\ counter' = [counter EXCEPT ![s] = [i \in Interrupts |-> 0]]
            /\ phase' = [phase EXCEPT ![p] = "mutex"]
            /\ UNCHANGED <<maxMember, stale, thread, mutex, stop, posting, threads, last>>
        BY <2>1, <3>2 DEF OpenSegment, s
      <4> QED BY <4>1, <4>2 DEF threads, SharedTypeOK, Kinds, Phases, Forget
    <3> QED BY <3>1, <3>2
  <2>2. CASE OpenMutex(p)
    <3> DEFINE m == CHOOSE o \in Unused("mutex") : TRUE
    <3>1. NewMutex(p) => m \in Objects
      BY UnusedMutex DEF NewMutex, SharedInv
    <3> HIDE DEF m
    <3>2. NewMutex(p) => /\ mutex' = [mutex EXCEPT ![p] = m]
                         /\ named' = [named EXCEPT !["mutex"] = m]
                         /\ stale' = stale \ {m}
      BY DEF NewMutex, m
    <3>3. CASE NewMutex(p)
      <4>1. /\ m \in Objects /\ m \in Names
            /\ mutex' = [mutex EXCEPT ![p] = m]
            /\ named' = [named EXCEPT !["mutex"] = m]
            /\ stale' = stale \ {m}
        BY <3>1, <3>2, <3>3
      <4> QED BY <2>2, <4>1 DEF OpenMutex, contents, threads, SharedTypeOK, Kinds, Phases, Forget
    <3>4. CASE ~NewMutex(p)
      BY <2>2, <3>4 DEF OpenMutex, contents, threads, SharedTypeOK, Kinds, Phases, Forget
    <3> QED BY <3>3, <3>4
  <2>3. CASE Timeout(p)
    <3> DEFINE m == CHOOSE o \in Unused("mutex") : TRUE
    <3>1. NewMutex(p) => m \in Objects
      BY UnusedMutex DEF NewMutex, SharedInv
    <3> HIDE DEF m
    <3>2. NewMutex(p) => /\ mutex' = [mutex EXCEPT ![p] = m]
                         /\ named' = [named EXCEPT !["mutex"] = m]
                         /\ stale' = stale \ {m}
      BY DEF NewMutex, m
    <3>3. CASE NewMutex(p)
      <4>1. /\ m \in Objects /\ m \in Names
            /\ mutex' = [mutex EXCEPT ![p] = m]
            /\ named' = [named EXCEPT !["mutex"] = m]
            /\ stale' = stale \ {m}
        BY <3>1, <3>2, <3>3
      <4> QED BY <2>3, <4>1 DEF Timeout, contents, threads, SharedTypeOK, Kinds, Phases, Forget
    <3>4. CASE ~NewMutex(p)
      BY <2>3, <3>4 DEF Timeout, contents, threads, SharedTypeOK, Kinds, Phases, Forget
    <3> QED BY <3>3, <3>4
  <2>4. CASE Register(p)
    <3>1. segment[p] \in Objects /\ segment[p] \in Nat
      BY <2>4 DEF Register, PlaceInv, Placed, Registered, Constructing, SharedTypeOK, Locks, Objects
    <3>2. value' \in [Objects -> {0, 1}]
      BY <2>4, <3>1 DEF Register, SharedTypeOK
    <3>3. pidSet' \in [Objects -> SUBSET Processes]
      BY <2>4, <3>1 DEF Register, SharedTypeOK, Existing
    <3>4. semaphores' \in [Objects -> SUBSET Processes]
      BY <2>4, <3>1 DEF Register, SharedTypeOK, Cleanup
    <3>5. CASE Cardinality(Existing(segment[p])) >= maxMember
      <4>1. /\ phase' = [phase EXCEPT ![p] = "none"] /\ Forget(p)
            /\ UNCHANGED <<semaphores, thread>>
            /\ UNCHANGED <<objects, posted, counter, posting, last>>
        BY <2>4, <3>5 DEF Register
      <4> QED BY <3>2, <3>3, <3>4, <4>1 DEF objects, SharedTypeOK, Kinds, Phases, Forget
    <3>6. CASE ~(Cardinality(Existing(segment[p])) >= maxMember)
      BY <2>4, <3>2, <3>3, <3>4, <3>6 DEF Register, objects, threads, SharedTypeOK, Kinds, Phases,
        Forget
    <3> QED BY <3>5, <3>6
  <2>5. CASE StartThread(p)
    <3>1. segment[p] \in Objects /\ segment[p] \in Nat
      BY <2>5 DEF StartThread, PlaceInv, Placed, Registered, Constructing, SharedTypeOK, Locks, Objects
    <3>2. /\ known' = [known EXCEPT ![p] = counter[segment[p]]]
          /\ first' = [first EXCEPT ![p] = counter[segment[p]]]
          /\ calls' = [calls EXCEPT ![p] = NoCounts]
          /\ semaphores' = [semaphores EXCEPT ![segment[p]] = @ \cup {p}]
          /\ thread' = [thread EXCEPT ![p] = "wait"]
          /\ UNCHANGED <<maxMember, named, stale, pidSet, value, posted, counter, phase, segment, mutex, stop,
                         posting, copy>>
      BY <2>5 DEF StartThread, objects
    <3>3. counter[segment[p]] \in Numbers /\ NoCounts \in Numbers /\ p \in Processes
      BY <3>1 DEF SharedTypeOK, NoCounts, Numbers
    <3>4. SharedTypeOK
      BY DEF SharedInv
    <3> HIDE DEF SharedInv
    <3>5. known' \in [Processes -> Numbers] /\ first' \in [Processes -> Numbers] /\ calls' \in [Processes -> Numbers]
      BY <3>2, <3>3, <3>4 DEF SharedTypeOK
    <3>6. semaphores' \in [Objects -> SUBSET Processes]
      BY <3>1, <3>2, <3>4 DEF SharedTypeOK
    <3>7. thread' \in [Processes -> {"none", "start", "wait", "copy", "handle", "ended"}]
      BY <3>2, <3>4 DEF SharedTypeOK
    <3> QED BY <3>2, <3>4, <3>5, <3>6, <3>7 DEF SharedTypeOK
  <2>6. CASE WaitForSem(p)
    <3>1. segment[p] \in Objects /\ segment[p] \in Nat
      BY <2>6 DEF WaitForSem, PlaceInv, Placed, Registered, Constructing, SharedTypeOK, Locks, Objects
    <3> HIDE DEF SharedInv
    <3> QED BY <2>6, <3>1, Posted, CounterTyped DEF SharedInv, WaitForSem, objects, contents,
      threads, SharedTypeOK, Kinds, Phases, Forget, Existing, ReInitRequired, Cleanup
  <2>7. CASE Copy(p)
    <3>1. segment[p] \in Objects /\ segment[p] \in Nat
      BY <2>7 DEF Copy, PlaceInv, Placed, Registered, Constructing, SharedTypeOK, Locks, Objects
    <3> HIDE DEF SharedInv
    <3> QED BY <2>7, <3>1, Posted, CounterTyped DEF SharedInv, Copy, objects, contents, threads,
      SharedTypeOK, Kinds, Phases, Forget, Existing, ReInitRequired, Cleanup
  <2>8. CASE Handle(p)
    <3>1. ASSUME NEW i \in Interrupts PROVE calls[p][i] + Dispatched(p, i) \in Nat
      <4>1. known[p][i] \in Nat /\ copy[p][i] \in Nat /\ calls[p][i] \in Nat
        BY <3>1 DEF SharedTypeOK, Numbers
      <4>2. known[p][i] <= copy[p][i]
        BY <2>8, <3>1 DEF Handle, CallInv, CallsAt, Waiting
      <4> QED BY <4>1, <4>2 DEF Dispatched
    <3>2. calls' = [calls EXCEPT ![p] = [i \in Interrupts |-> @[i] + Dispatched(p, i)]]
      BY <2>8 DEF Handle
    <3>3. [i \in Interrupts |-> calls[p][i] + Dispatched(p, i)] \in Numbers
      BY <3>1 DEF Numbers
    <3>4. calls' \in [Processes -> Numbers]
      BY <3>2, <3>3 DEF SharedTypeOK
    <3> QED BY <2>8, <3>4 DEF Handle, objects, contents, SharedTypeOK, Kinds, Phases, Forget
  <2>9. CASE Write(p)
    BY <2>9 DEF Write, objects, contents, threads, SharedTypeOK, Kinds, Phases, Forget
  <2>10. CASE \E i \in Interrupts : Trigger(p, i)
    <3>1. segment[p] \in Objects /\ segment[p] \in Nat
      BY <2>10 DEF Trigger, PlaceInv, Placed, Registered, Constructing, SharedTypeOK, Locks, Objects
    <3>2. PICK i \in Interrupts : Trigger(p, i)
      BY <2>10
    <3>3. counter' \in [Objects -> Numbers]
      BY <3>1, <3>2, CounterTyped DEF Trigger, SharedTypeOK
    <3> HIDE DEF SharedInv
    <3> QED BY <3>1, <3>2, <3>3 DEF SharedInv, Trigger, objects, contents, threads, SharedTypeOK,
      Kinds, Phases, Forget, Existing, ReInitRequired, Cleanup
  <2>11. CASE Post(p)
    <3>1. segment[p] \in Objects /\ segment[p] \in Nat
      BY <2>11 DEF Post, PlaceInv, Placed, Registered, Constructing, SharedTypeOK, Locks, Objects
    <3>2. CASE posting[p] = {} /\ phase' = [phase EXCEPT ![p] = "running"] /\ UNCHANGED <<posted, posting>>
      BY <2>11, <3>2 DEF Post, objects, threads, SharedTypeOK, Kinds, Phases, Forget
    <3>3. ASSUME NEW q \in posting[p], posted' = [posted EXCEPT ![segment[p]][q] = @ + 1],
                 posting' = [posting EXCEPT ![p] = @ \ {q}], UNCHANGED phase
          PROVE  SharedTypeOK'
      <4>1. q \in Processes
        BY <3>3 DEF SharedTypeOK
      <4>2. posted' \in [Objects -> Posts]
        BY <3>1, <3>3, <4>1, Posted DEF SharedTypeOK
      <4> QED BY <2>11, <3>3, <4>2 DEF Post, objects, threads, SharedTypeOK, Kinds, Phases, Forget
    <3> QED BY <2>11, <3>2, <3>3 DEF Post
  <2>12. CASE Stop(p)
    BY <2>12 DEF Stop, objects, contents, threads, SharedTypeOK, Kinds, Phases, Forget
  <2>13. CASE WakeUp(p)
    <3>1. segment[p] \in Objects /\ segment[p] \in Nat
      BY <2>13 DEF WakeUp, PlaceInv, Placed, Registered, Constructing, SharedTypeOK, Locks, Objects
    <3> HIDE DEF SharedInv
    <3> QED BY <2>13, <3>1, Posted, CounterTyped DEF SharedInv, WakeUp, objects, contents, threads,
      SharedTypeOK, Kinds, Phases, Forget, Existing, ReInitRequired, Cleanup
  <2>14. CASE RemoveSem(p)
    <3>1. segment[p] \in Objects /\ segment[p] \in Nat
      BY <2>14 DEF RemoveSem, PlaceInv, Placed, Registered, Constructing, SharedTypeOK, Locks, Objects
    <3> HIDE DEF SharedInv
    <3> QED BY <2>14, <3>1, Posted, CounterTyped DEF SharedInv, RemoveSem, objects, contents,
      threads, SharedTypeOK, Kinds, Phases, Forget, Existing, ReInitRequired, Cleanup
  <2>15. CASE Leave(p)
    <3>0. phase[p] = "leave"
      BY <2>15 DEF Leave
    <3>1. segment[p] \in Objects /\ segment[p] \in Nat
      BY <3>0 DEF PlaceInv, Placed, Registered, Constructing, SharedTypeOK, Locks, Objects
    <3> HIDE DEF SharedInv
    <3> QED BY <2>15, <3>1, Posted, CounterTyped DEF SharedInv, Leave, objects, contents, threads,
      SharedTypeOK, Kinds, Phases, Forget, Existing, ReInitRequired, Cleanup
  <2>16. CASE RemoveNames(p)
    <3>1. PICK k \in Kinds, n \in {"remove mutex", "none"} :
            /\ named' = [named EXCEPT ![k] = 0] /\ phase' = [phase EXCEPT ![p] = n]
            /\ UNCHANGED <<maxMember, stale, contents, thread, segment, mutex, stop, posting, threads, last>>
      BY <2>16 DEF RemoveNames, RemoveName, Kinds
    <3> QED BY <3>1 DEF contents, threads, SharedTypeOK, Kinds, Phases, Forget
  <2>17. CASE Crash(p)
    <3>1. mutex[p] # 0 => mutex[p] \in Objects
      BY SharedAssumption DEF SharedTypeOK, Names, Objects, SharedAssumption
    <3>2. stale' \subseteq Objects
      BY <2>17, <3>1 DEF Crash, SharedTypeOK
    <3> QED BY <2>17, <3>2 DEF Crash, contents, SharedTypeOK, Kinds, Phases, Forget
  <2> QED BY <1>1, <2>1, <2>2, <2>3, <2>4, <2>5, <2>6, <2>7, <2>8, <2>9, <2>10, <2>11, <2>12, <2>13,
    <2>14, <2>15, <2>16, <2>17 DEF StepOf
<1> QED BY <1>0, <1>1, SharedSteps

(***************************************************************************)
(* The processes which are registered use the segment which is found by its *)
(* name, their process ID is in it, and they have a thread.                *)
(***************************************************************************)
LEMMA PlaceStep ==
  ASSUME SharedAssumption, ~Overlap, SharedInv, [SharedDummyNext]_sharedDummyVars
  PROVE  PlaceInv'
<1> USE DEF SharedInv
<1>0. CASE Same
  BY <1>0 DEF Same, sharedDummyVars, objects, contents, threads, SharedTypeOK, PlaceInv, Placed,
    Registered, Constructing, Alive, Forget, Existing, Kinds
<1>1. ASSUME NEW p \in Processes, StepOf(p)
      PROVE  PlaceInv'
  <2>1. CASE OpenSegment(p)
    <3>1. CASE named["segment"] # 0
      <4>1. named["segment"] \in Objects
        BY <3>1, Named DEF SharedTypeOK, Kinds
      <4>2. /\ segment' = [segment EXCEPT ![p] = named["segment"]] /\ UNCHANGED <<named, pidSet, thread>>
            /\ phase' = [phase EXCEPT ![p] = "mutex"] /\ phase[p] = "none"
        BY <2>1, <3>1 DEF OpenSegment, contents
      <4> QED BY <4>1, <4>2 DEF SharedTypeOK, PlaceInv, Placed, Registered, Constructing
    <3>2. CASE named["segment"] = 0
      <4> DEFINE s == CHOOSE o \in Unused("segment") : TRUE
      <4>1. s \in Objects /\ \A q \in Processes : Alive(q) => segment[q] # s
        BY <2>1, <3>2, UnusedSegment DEF OpenSegment
      <4> HIDE DEF s
      <4>2. /\ named' = [named EXCEPT !["segment"] = s]
            /\ segment' = [segment EXCEPT ![p] = s]
            /\ pidSet' = [pidSet EXCEPT ![s] = {}]
            /\ phase' = [phase EXCEPT ![p] = "mutex"]
            /\ phase[p] = "none"
            /\ UNCHANGED <<thread>>
            /\ \A q \in Processes : ~Constructing(q) /\ ~Leaving(q)
        BY <2>1, <3>2 DEF OpenSegment, s
      <4>3. \A q \in Processes : ~Registered(q)
        BY <3>2 DEF PlaceInv, Placed, Objects
      <4> QED BY <4>1, <4>2, <4>3 DEF Kinds, Objects, Names, SharedTypeOK, PlaceInv, Placed,
        Registered, Constructing
    <3> QED BY <3>1, <3>2
  <2>2. CASE OpenMutex(p)
    BY <2>2 DEF OpenMutex, NewMutex, objects, contents, threads, SharedTypeOK, PlaceInv, Placed,
      Registered, Constructing, Alive, Forget, Existing, Kinds
  <2>3. CASE Timeout(p)
    BY <2>3 DEF Timeout, NewMutex, objects, contents, threads, SharedTypeOK, PlaceInv, Placed,
      Registered, Constructing, Alive, Forget, Existing, Kinds
  <2>4. CASE Register(p)
    <3>1. segment[p] \in Objects /\ phase[p] = "lock"
      BY <2>4 DEF Register, PlaceInv, Placed, Constructing
    <3>2. \A q \in Processes \ {p} : phase[q] # "dead" => (q \in pidSet'[segment[p]] <=> q \in pidSet[segment[p]])
      BY <2>4, <3>1 DEF Register, Existing, SharedTypeOK
    <3>3. \A s \in Objects : pidSet'[s] \subseteq pidSet[s] \cup {p} /\ (s # segment[p] => pidSet'[s] = pidSet[s])
      BY <2>4, <3>1 DEF Register, Existing, SharedTypeOK
    <3>4. CASE Cardinality(Existing(segment[p])) >= maxMember
      <4>1. /\ phase' = [phase EXCEPT ![p] = "none"] /\ segment' = [segment EXCEPT ![p] = 0]
            /\ UNCHANGED <<thread, named>>
            /\ pidSet' = [pidSet EXCEPT ![segment[p]] = Existing(segment[p])]
        BY <2>4, <3>4 DEF Register, Forget, objects
      <4>2. \A s \in Objects : p \notin pidSet'[s]
        BY <4>1, <3>1, <3>3 DEF Existing, SharedTypeOK, PlaceInv, Placed, Registered, Constructing
      <4> QED BY <3>1, <3>2, <3>3, <4>1, <4>2 DEF SharedTypeOK, PlaceInv, Placed, Registered,
        Constructing
    <3>5. CASE ~(Cardinality(Existing(segment[p])) >= maxMember)
      <4>1. /\ phase' = [phase EXCEPT ![p] = "running"] /\ thread' = [thread EXCEPT ![p] = "start"]
            /\ UNCHANGED <<segment, named>>
            /\ p \in pidSet'[segment[p]]
        BY <2>4, <3>1, <3>5 DEF Register, Forget, objects, SharedTypeOK
      <4> QED BY <3>1, <3>2, <3>3, <4>1 DEF SharedTypeOK, PlaceInv, Placed, Registered, Constructing
    <3> QED BY <3>4, <3>5
  <2>5. CASE StartThread(p)
    BY <2>5 DEF StartThread, objects, contents, threads, SharedTypeOK, PlaceInv, Placed, Registered,
      Constructing, Alive, Forget, Existing, Kinds
  <2>6. CASE WaitForSem(p)
    BY <2>6 DEF WaitForSem, objects, contents, threads, SharedTypeOK, PlaceInv, Placed, Registered,
      Constructing, Alive, Forget, Existing, Kinds
  <2>7. CASE Copy(p)
    BY <2>7 DEF Copy, objects, contents, threads, SharedTypeOK, PlaceInv, Placed, Registered,
      Constructing, Alive, Forget, Existing, Kinds
  <2>8. CASE Handle(p)
    BY <2>8 DEF Handle, objects, contents, threads, SharedTypeOK, PlaceInv, Placed, Registered,
      Constructing, Alive, Forget, Existing, Kinds
  <2>9. CASE Write(p)
    BY <2>9 DEF Write, objects, contents, threads, SharedTypeOK, PlaceInv, Placed, Registered,
      Constructing, Alive, Forget, Existing, Kinds
  <2>10. CASE \E i \in Interrupts : Trigger(p, i)
    BY <2>10 DEF Trigger, objects, contents, threads, SharedTypeOK, PlaceInv, Placed, Registered,
      Constructing, Alive, Forget, Existing, Kinds
  <2>11. CASE Post(p)
    BY <2>11 DEF Post, objects, contents, threads, SharedTypeOK, PlaceInv, Placed, Registered,
      Constructing, Alive, Forget, Existing, Kinds
  <2>12. CASE Stop(p)
    BY <2>12 DEF Stop, objects, contents, threads, SharedTypeOK, PlaceInv, Placed, Registered,
      Constructing, Alive, Forget, Existing, Kinds
  <2>13. CASE WakeUp(p)
    BY <2>13 DEF WakeUp, objects, contents, threads, SharedTypeOK, PlaceInv, Placed, Registered,
      Constructing, Alive, Forget, Existing, Kinds
  <2>14. CASE RemoveSem(p)
    BY <2>14 DEF RemoveSem, objects, contents, threads, SharedTypeOK, PlaceInv, Placed, Registered,
      Constructing, Alive, Forget, Existing, Kinds
  <2>15. CASE Leave(p)
    <3>1. /\ phase[p] = "leave" /\ thread' = [thread EXCEPT ![p] = "none"]
          /\ segment' = [segment EXCEPT ![p] = 0]
          /\ named' = named
          /\ pidSet' = [pidSet EXCEPT ![segment[p]] = Existing(segment[p]) \ {p}]
          /\ phase'[p] \in {"remove segment", "none"}
          /\ phase' = [phase EXCEPT ![p] = phase'[p]]
      BY <2>15 DEF Leave, Forget, objects, SharedTypeOK
    <3>2. segment[p] \in Objects
      BY <3>1 DEF PlaceInv, Placed, Registered
    <3>3. \A q \in Processes \ {p} : phase[q] # "dead" => (q \in pidSet'[segment[p]] <=> q \in pidSet[segment[p]])
      BY <3>1, <3>2 DEF Existing, SharedTypeOK
    <3>4. \A s \in Objects : pidSet'[s] \subseteq pidSet[s]
      BY <3>1, <3>2 DEF Existing, SharedTypeOK
    <3>5. \A s \in Objects : p \notin pidSet'[s]
      BY <3>1, <3>2 DEF Existing, SharedTypeOK, PlaceInv, Placed
    <3>6. ASSUME NEW q \in Processes, q # p
          PROVE  /\ phase'[q] = phase[q] /\ thread'[q] = thread[q] /\ segment'[q] = segment[q]
                 /\ Registered(q) => segment[q] = segment[p]
      BY <3>1, <3>6 DEF SharedTypeOK, PlaceInv, Placed, Registered
    <3>7. /\ phase'[p] \in {"remove segment", "none"} /\ thread'[p] = "none"
      BY <3>1 DEF SharedTypeOK
    <3>8. Placed(p)'
      BY <3>5, <3>7 DEF Placed, Registered, Constructing
    <3>9. ASSUME NEW q \in Processes, q # p PROVE Placed(q)'
      <4>1. Placed(q)
        BY DEF PlaceInv, Placed
      <4> QED BY <3>1, <3>3, <3>4, <3>6, <3>9, <4>1 DEF Placed, Registered, Constructing
    <3> QED BY <3>8, <3>9 DEF PlaceInv, Placed
  <2>16. CASE RemoveNames(p)
    <3>1. /\ \E k \in Kinds : named' = [named EXCEPT ![k] = 0]
          /\ \E n \in {"remove mutex", "none"} : phase' = [phase EXCEPT ![p] = n]
          /\ UNCHANGED <<pidSet, thread, segment>>
          /\ phase[p] \in {"remove segment", "remove mutex"}
      BY <2>16 DEF RemoveNames, RemoveName, contents, Kinds
    <3>2. \A q \in Processes : ~Registered(q) /\ ~Constructing(q)
      BY <3>1 DEF AloneInv, Removing, Alive, Registered, Constructing
    <3>3. \A q \in Processes : ~Registered(q)' /\ ~Constructing(q)'
      BY <3>1, <3>2 DEF SharedTypeOK, Registered, Constructing
    <3>4. \A q \in Processes : phase[q] = "dead" => phase'[q] = "dead"
      BY <3>1 DEF SharedTypeOK
    <3>5. \A q \in Processes : thread[q] = "none" /\ \A s \in Objects : q \in pidSet[s] => phase[q] = "dead"
      BY <3>2 DEF PlaceInv, Placed
    <3> QED BY <3>1, <3>3, <3>4, <3>5 DEF PlaceInv, Placed
  <2>17. CASE Crash(p)
    BY <2>17 DEF Crash, objects, contents, threads, SharedTypeOK, PlaceInv, Placed, Registered,
      Constructing, Alive, Forget, Existing, Kinds
  <2> QED BY <1>1, <2>1, <2>2, <2>3, <2>4, <2>5, <2>6, <2>7, <2>8, <2>9, <2>10, <2>11, <2>12, <2>13,
    <2>14, <2>15, <2>16, <2>17 DEF StepOf
<1> QED BY <1>0, <1>1, SharedSteps

(***************************************************************************)
(* A living process which goes on to run, post or be gone starts no        *)
(* construction and no removal.                                            *)
(***************************************************************************)
LEMMA RunningIsSafe ==
  ASSUME NEW p \in Processes, phase \in [Processes -> Phases], AloneInv, Alive(p), UNCHANGED named,
         phase' = [phase EXCEPT ![p] = phase'[p]], phase'[p] \in {"none", "running", "posting"}
  PROVE  AloneInv'
<1> SUFFICES ASSUME NEW q \in Processes
             PROVE  /\ Constructing(q)' => \A r \in Processes : Constructing(r)' => r = q
                    /\ Removing(q)' => \A r \in Processes : Alive(r)' => r = q
                    /\ phase'[q] = "remove mutex" => named'["segment"] = 0
  BY DEF AloneInv
<1>1. \A r \in Processes : r # p => phase'[r] = phase[r]
  OBVIOUS
<1>2. ~Constructing(p)' /\ ~Removing(p)'
  BY DEF Constructing, Removing
<1>3. \A r \in Processes : Constructing(r)' => Constructing(r)
  BY <1>1, <1>2 DEF Constructing
<1>4. \A r \in Processes : Removing(r)' => Removing(r) /\ r # p
  BY <1>1, <1>2 DEF Removing
<1>5. \A r \in Processes : Alive(r)' => Alive(r)
  BY <1>1 DEF Alive
<1>6. phase'[q] = "remove mutex" => named'["segment"] = 0
  BY <1>1 DEF AloneInv
<1> QED BY <1>3, <1>4, <1>5, <1>6 DEF AloneInv

(***************************************************************************)
(* Processes are constructed one after the other, and the process which    *)
(* removes the names is alone.                                             *)
(***************************************************************************)
LEMMA AloneStep ==
  ASSUME SharedAssumption, ~Overlap, SharedInv, [SharedDummyNext]_sharedDummyVars
  PROVE  AloneInv'
<1> USE DEF SharedInv
<1>0. CASE Same
  BY <1>0 DEF Same, sharedDummyVars, objects, contents, threads, SharedTypeOK, Constructing, Leaving,
    Removing, Alive, AloneInv, Phases, Kinds
<1>1. ASSUME NEW p \in Processes, StepOf(p)
      PROVE  AloneInv'
  <2>1. CASE OpenSegment(p)
    <3>1. /\ phase[p] = "none" /\ phase' = [phase EXCEPT ![p] = "mutex"]
          /\ \A q \in Processes : ~Constructing(q) /\ ~Leaving(q)
      BY <2>1 DEF OpenSegment
    <3> QED BY <3>1 DEF SharedTypeOK, Constructing, Leaving, Removing, Alive, AloneInv
  <2>2. CASE OpenMutex(p)
    <3>1. /\ Constructing(p) /\ phase' = [phase EXCEPT ![p] = "lock"]
          /\ named'["segment"] = named["segment"]
      BY <2>2 DEF OpenMutex, NewMutex, Constructing, SharedTypeOK, Kinds
    <3> QED BY <3>1 DEF SharedTypeOK, Constructing, Removing, Alive, AloneInv
  <2>3. CASE Timeout(p)
    <3>1. /\ Constructing(p) /\ phase' = [phase EXCEPT ![p] = "lock"]
          /\ named'["segment"] = named["segment"]
      BY <2>3 DEF Timeout, NewMutex, Constructing, SharedTypeOK, Kinds
    <3> QED BY <3>1 DEF SharedTypeOK, Constructing, Removing, Alive, AloneInv
  <2>4. CASE Register(p)
    <3>1. /\ Alive(p) /\ UNCHANGED named /\ phase' = [phase EXCEPT ![p] = phase'[p]]
          /\ phase'[p] \in {"none", "running", "posting"}
      BY <2>4 DEF Register, SharedTypeOK, objects, Alive
    <3> QED BY <3>1, RunningIsSafe DEF SharedTypeOK
  <2>5. CASE StartThread(p)
    BY <2>5 DEF StartThread, objects, contents, threads, SharedTypeOK, Constructing, Leaving,
      Removing, Alive, AloneInv, Phases, Kinds
  <2>6. CASE WaitForSem(p)
    BY <2>6 DEF WaitForSem, objects, contents, threads, SharedTypeOK, Constructing, Leaving,
      Removing, Alive, AloneInv, Phases, Kinds
  <2>7. CASE Copy(p)
    BY <2>7 DEF Copy, objects, contents, threads, SharedTypeOK, Constructing, Leaving, Removing,
      Alive, AloneInv, Phases, Kinds
  <2>8. CASE Handle(p)
    BY <2>8 DEF Handle, objects, contents, threads, SharedTypeOK, Constructing, Leaving, Removing,
      Alive, AloneInv, Phases, Kinds
  <2>9. CASE Write(p)
    BY <2>9 DEF Write, objects, contents, threads, SharedTypeOK, Constructing, Leaving, Removing,
      Alive, AloneInv, Phases, Kinds
  <2>10. CASE \E i \in Interrupts : Trigger(p, i)
    <3>1. /\ Alive(p) /\ UNCHANGED named /\ phase' = [phase EXCEPT ![p] = phase'[p]]
          /\ phase'[p] \in {"none", "running", "posting"}
      BY <2>10 DEF Trigger, SharedTypeOK, objects, Alive
    <3> QED BY <3>1, RunningIsSafe DEF SharedTypeOK
  <2>11. CASE Post(p)
    <3>1. /\ Alive(p) /\ UNCHANGED named /\ phase' = [phase EXCEPT ![p] = phase'[p]]
          /\ phase'[p] \in {"none", "running", "posting"}
      BY <2>11 DEF Post, SharedTypeOK, objects, Alive
    <3> QED BY <3>1, RunningIsSafe DEF SharedTypeOK
  <2>12. CASE Stop(p)
    BY <2>12 DEF Stop, objects, contents, threads, SharedTypeOK, Constructing, Leaving, Removing,
      Alive, AloneInv, Phases, Kinds
  <2>13. CASE WakeUp(p)
    BY <2>13 DEF WakeUp, objects, contents, threads, SharedTypeOK, Constructing, Leaving, Removing,
      Alive, AloneInv, Phases, Kinds
  <2>14. CASE RemoveSem(p)
    BY <2>14 DEF RemoveSem, objects, contents, threads, SharedTypeOK, Constructing, Leaving,
      Removing, Alive, AloneInv, Phases, Kinds
  <2>15. CASE Leave(p)
    <3>1. /\ phase[p] = "leave" /\ phase'[p] \in {"remove segment", "none"}
          /\ phase' = [phase EXCEPT ![p] = phase'[p]] /\ UNCHANGED named
          /\ \A q \in Processes : ~Constructing(q)
          /\ phase'[p] = "remove segment" => Existing(segment[p]) \ {p} = {}
      BY <2>15 DEF Leave, SharedTypeOK, objects
    <3>2. ASSUME phase'[p] = "remove segment", NEW q \in Processes, Alive(q) PROVE q = p
      <4>1. Registered(p) /\ segment[p] \in Objects
        BY <3>1 DEF Registered, PlaceInv, Placed
      <4>2. Registered(q)
        BY <3>1, <3>2, <4>1 DEF AloneInv, Alive, Constructing, Registered, Removing, SharedTypeOK,
          Phases
      <4>3. q \in Existing(segment[p])
        BY <4>1, <4>2 DEF PlaceInv, Placed, Existing, Registered
      <4> QED BY <3>1, <3>2, <4>3
    <3>3. \A q \in Processes : Alive(q)' => Alive(q)
      BY <3>1 DEF SharedTypeOK, Alive
    <3>4. \A q \in Processes : Removing(q)' => Removing(q) \/ (q = p /\ phase'[p] = "remove segment")
      BY <3>1 DEF SharedTypeOK, Removing
    <3>5. \A q \in Processes : (phase'[q] = "remove mutex" => phase[q] = "remove mutex") /\ ~Constructing(q)'
      BY <3>1 DEF SharedTypeOK, Constructing
    <3> QED BY <3>1, <3>2, <3>3, <3>4, <3>5 DEF AloneInv
  <2>16. CASE RemoveNames(p)
    <3>1. CASE RemoveName(p, "remove segment", "segment", "remove mutex")
      BY <3>1 DEF RemoveName, SharedTypeOK, Constructing, Leaving, Removing, Alive, AloneInv, Phases, Kinds
    <3>2. CASE RemoveName(p, "remove mutex", "mutex", "none")
      <4>1. /\ named' = [named EXCEPT !["mutex"] = 0] /\ phase' = [phase EXCEPT ![p] = "none"] /\ Removing(p)
        BY <3>2 DEF RemoveName, Removing
      <4>2. named'["segment"] = named["segment"]
        BY <4>1 DEF SharedTypeOK, Kinds
      <4> QED BY <4>1, <4>2 DEF SharedTypeOK, Constructing, Removing, Alive, AloneInv
    <3> QED BY <2>16, <3>1, <3>2 DEF RemoveNames
  <2>17. CASE Crash(p)
    BY <2>17 DEF Crash, objects, contents, threads, SharedTypeOK, Constructing, Leaving, Removing,
      Alive, AloneInv, Phases, Kinds
  <2> QED BY <1>1, <2>1, <2>2, <2>3, <2>4, <2>5, <2>6, <2>7, <2>8, <2>9, <2>10, <2>11, <2>12, <2>13,
    <2>14, <2>15, <2>16, <2>17 DEF StepOf
<1> QED BY <1>0, <1>1, SharedSteps

(***************************************************************************)
(* Nothing is found by its name when the last process has gone gracefully. *)
(***************************************************************************)
LEMMA NameStep ==
  ASSUME SharedAssumption, ~Overlap, SharedInv, [SharedDummyNext]_sharedDummyVars
  PROVE  NameInv'
<1> USE DEF SharedInv
<1>0. CASE Same
  BY <1>0 DEF Same, sharedDummyVars, objects, contents, threads, SharedTypeOK, Alive, NameInv
<1>1. ASSUME NEW p \in Processes, StepOf(p)
      PROVE  NameInv'
  <2>1. CASE OpenSegment(p)
    <3>1. phase'[p] \notin {"none", "dead"}
      BY <2>1 DEF OpenSegment, objects, contents, threads, SharedTypeOK, PlaceInv, Placed, Registered
    <3> QED BY <3>1 DEF NameInv, Alive
  <2>2. CASE OpenMutex(p)
    <3>1. phase'[p] \notin {"none", "dead"}
      BY <2>2 DEF OpenMutex, objects, contents, threads, SharedTypeOK, PlaceInv, Placed, Registered
    <3> QED BY <3>1 DEF NameInv, Alive
  <2>3. CASE Timeout(p)
    <3>1. phase'[p] \notin {"none", "dead"}
      BY <2>3 DEF Timeout, objects, contents, threads, SharedTypeOK, PlaceInv, Placed, Registered
    <3> QED BY <3>1 DEF NameInv, Alive
  <2>4. CASE Register(p)
    <3>1. /\ phase[p] = "lock" /\ phase'[p] \in {"running", "none"}
          /\ phase' = [phase EXCEPT ![p] = phase'[p]]
          /\ phase'[p] = "none" => Cardinality(Existing(segment[p])) >= maxMember
      BY <2>4 DEF Register, SharedTypeOK, objects
    <3>2. segment[p] \in Objects
      BY <3>1 DEF Constructing, PlaceInv, Placed
    <3>3. CASE phase'[p] = "none"
      <4>1. Existing(segment[p]) # {}
        <5> SUFFICES ASSUME Existing(segment[p]) = {} PROVE FALSE
          OBVIOUS
        <5>1. Cardinality(Existing(segment[p])) = 0
          BY FS_EmptySet
        <5> HIDE DEF Existing
        <5> QED BY <5>1, <3>1, <3>3 DEF SharedTypeOK
      <4>2. PICK q \in Existing(segment[p]) : TRUE
        BY <4>1
      <4>3. q \in Processes /\ Registered(q)
        BY <3>2, <4>2 DEF Existing, PlaceInv, Placed, SharedTypeOK
      <4>4. Alive(q)'
        BY <3>1, <4>3 DEF SharedTypeOK, Registered, Alive
      <4> QED BY <4>3, <4>4 DEF NameInv
    <3>4. CASE phase'[p] = "running"
      BY <3>4 DEF NameInv, Alive
    <3> QED BY <3>1, <3>3, <3>4
  <2>5. CASE StartThread(p)
    <3>1. phase'[p] \notin {"none", "dead"}
      BY <2>5 DEF StartThread, objects, contents, threads, SharedTypeOK, PlaceInv, Placed, Registered
    <3> QED BY <3>1 DEF NameInv, Alive
  <2>6. CASE WaitForSem(p)
    <3>1. phase'[p] \notin {"none", "dead"}
      BY <2>6 DEF WaitForSem, objects, contents, threads, SharedTypeOK, PlaceInv, Placed, Registered
    <3> QED BY <3>1 DEF NameInv, Alive
  <2>7. CASE Copy(p)
    <3>1. phase'[p] \notin {"none", "dead"}
      BY <2>7 DEF Copy, objects, contents, threads, SharedTypeOK, PlaceInv, Placed, Registered
    <3> QED BY <3>1 DEF NameInv, Alive
  <2>8. CASE Handle(p)
    <3>1. phase'[p] \notin {"none", "dead"}
      BY <2>8 DEF Handle, objects, contents, threads, SharedTypeOK, PlaceInv, Placed, Registered
    <3> QED BY <3>1 DEF NameInv, Alive
  <2>9. CASE Write(p)
    <3>1. phase'[p] \notin {"none", "dead"}
      BY <2>9 DEF Write, objects, contents, threads, SharedTypeOK, PlaceInv, Placed, Registered
    <3> QED BY <3>1 DEF NameInv, Alive
  <2>10. CASE \E i \in Interrupts : Trigger(p, i)
    <3>1. phase'[p] \notin {"none", "dead"}
      BY <2>10 DEF Trigger, objects, contents, threads, SharedTypeOK, PlaceInv, Placed, Registered
    <3> QED BY <3>1 DEF NameInv, Alive
  <2>11. CASE Post(p)
    <3>1. phase'[p] \notin {"none", "dead"}
      BY <2>11 DEF Post, objects, contents, threads, SharedTypeOK, PlaceInv, Placed, Registered
    <3> QED BY <3>1 DEF NameInv, Alive
  <2>12. CASE Stop(p)
    <3>1. phase'[p] \notin {"none", "dead"}
      BY <2>12 DEF Stop, objects, contents, threads, SharedTypeOK, PlaceInv, Placed, Registered
    <3> QED BY <3>1 DEF NameInv, Alive
  <2>13. CASE WakeUp(p)
    <3>1. phase'[p] \notin {"none", "dead"}
      BY <2>13 DEF WakeUp, objects, contents, threads, SharedTypeOK, PlaceInv, Placed, Registered
    <3> QED BY <3>1 DEF NameInv, Alive
  <2>14. CASE RemoveSem(p)
    <3>1. phase'[p] \notin {"none", "dead"}
      BY <2>14 DEF RemoveSem, objects, contents, threads, SharedTypeOK, PlaceInv, Placed, Registered
    <3> QED BY <3>1 DEF NameInv, Alive
  <2>15. CASE Leave(p)
    <3>1. /\ phase[p] = "leave" /\ phase'[p] \in {"remove segment", "none"}
          /\ phase' = [phase EXCEPT ![p] = phase'[p]]
          /\ phase'[p] = "none" => Existing(segment[p]) \ {p} # {}
      BY <2>15 DEF Leave, SharedTypeOK, objects
    <3>2. segment[p] \in Objects
      BY <3>1 DEF Registered, PlaceInv, Placed
    <3>3. CASE phase'[p] = "none"
      <4>1. PICK q \in Existing(segment[p]) : q # p
        BY <3>1, <3>3
      <4>2. q \in Processes /\ Alive(q)
        BY <3>2, <4>1 DEF Existing, PlaceInv, Placed, Registered, Alive, SharedTypeOK
      <4>3. Alive(q)'
        BY <3>1, <4>1, <4>2 DEF SharedTypeOK, Alive
      <4> QED BY <4>2, <4>3 DEF NameInv
    <3>4. CASE phase'[p] = "remove segment"
      BY <3>4 DEF NameInv, Alive
    <3> QED BY <3>1, <3>3, <3>4
  <2>16. CASE RemoveNames(p)
    <3>1. CASE RemoveName(p, "remove segment", "segment", "remove mutex")
      <4>1. phase'[p] = "remove mutex"
        BY <3>1 DEF RemoveName, SharedTypeOK
      <4> QED BY <4>1 DEF NameInv, Alive
    <3>2. CASE RemoveName(p, "remove mutex", "mutex", "none")
      <4>1. named' = [named EXCEPT !["mutex"] = 0] /\ phase[p] = "remove mutex"
        BY <3>2 DEF RemoveName
      <4>2. named["segment"] = 0
        BY <4>1 DEF AloneInv
      <4>3. named' = [k \in Kinds |-> 0]
        BY <4>1, <4>2 DEF SharedTypeOK, Kinds
      <4> QED BY <4>3 DEF NameInv
    <3> QED BY <2>16, <3>1, <3>2 DEF RemoveNames
  <2>17. CASE Crash(p)
    BY <2>17 DEF Crash, NameInv
  <2> QED BY <1>1, <2>1, <2>2, <2>3, <2>4, <2>5, <2>6, <2>7, <2>8, <2>9, <2>10, <2>11, <2>12, <2>13,
    <2>14, <2>15, <2>16, <2>17 DEF StepOf
<1> QED BY <1>0, <1>1, SharedSteps

(***************************************************************************)
(* A process which does not use the mutex which is found by its name is    *)
(* blocked by a dead one.                                                  *)
(***************************************************************************)
LEMMA MutexStep ==
  ASSUME SharedAssumption, ~Overlap, SharedInv, [SharedDummyNext]_sharedDummyVars
  PROVE  MutexInv'
<1> USE DEF SharedInv
<1>0. CASE Same
  BY <1>0 DEF Same, sharedDummyVars, objects, contents, threads, SharedTypeOK, MutexInv, Registered,
    Constructing, Alive, Forget
<1>1. ASSUME NEW p \in Processes, StepOf(p)
      PROVE  MutexInv'
  <2>1. CASE OpenSegment(p)
    <3>1. /\ phase[p] = "none" /\ phase' = [phase EXCEPT ![p] = "mutex"]
          /\ named'["mutex"] = named["mutex"] /\ UNCHANGED <<mutex, stale>>
      BY <2>1 DEF OpenSegment, SharedTypeOK, Kinds
    <3> QED BY <3>1 DEF SharedTypeOK, MutexInv, Registered
  <2>2. CASE OpenMutex(p)
    <3> DEFINE m == CHOOSE o \in Unused("mutex") : TRUE
    <3>1. NewMutex(p) => m \in Objects /\ \A q \in Processes : Alive(q) => mutex[q] # m
      BY UnusedMutex DEF NewMutex
    <3>2. \A q \in Processes : Constructing(q) <=> q = p
      BY <2>2 DEF OpenMutex, AloneInv, Constructing
    <3>3. /\ phase' = [phase EXCEPT ![p] = "lock"]
      BY <2>2 DEF OpenMutex, SharedTypeOK
    <3> HIDE DEF m
    <3>4. CASE NewMutex(p) /\ (named["mutex"] = 0 \/ (~Locks(p) /\ phase[p] = "lock"))
      <4>1. /\ mutex' = [mutex EXCEPT ![p] = m] /\ stale' = stale \ {m} /\ m \in Objects
            /\ named'["mutex"] = m
        BY <3>1, <3>4 DEF NewMutex, m, SharedTypeOK, Kinds
      <4>2. ASSUME NEW q \in Processes, Registered(q) PROVE mutex[q] \in stale
        BY <3>4, <4>2 DEF Locks, MutexInv, SharedTypeOK, Registered, Objects
      <4>3. /\ mutex'[p] = m
            /\ \A q \in Processes : q # p => mutex'[q] = mutex[q] /\ phase'[q] = phase[q]
        BY <3>3, <4>1 DEF SharedTypeOK
      <4>4. \A q \in Processes : Registered(q) => q # p /\ mutex[q] # m
        BY <3>1, <3>2, <3>4 DEF Registered, Constructing, Alive
      <4>5. \A q \in Processes : (phase'[q] = "lock" => q = p) /\ (Registered(q)' => Registered(q))
        BY <3>2, <3>3 DEF SharedTypeOK, Registered, Constructing
      <4>6. \A q \in Processes : Registered(q) => mutex[q] \in Objects
        BY DEF MutexInv
      <4> QED BY <4>1, <4>2, <4>3, <4>4, <4>5, <4>6 DEF MutexInv
    <3>5. CASE named["mutex"] # 0 /\ mutex' = [mutex EXCEPT ![p] = named["mutex"]] /\ UNCHANGED <<named, stale>>
      <4>1. /\ mutex' = [mutex EXCEPT ![p] = named["mutex"]] /\ UNCHANGED <<stale, named>> /\ named["mutex"] # 0
        BY <3>5
      <4>2. named["mutex"] \in Objects
        BY <4>1, Named DEF SharedTypeOK, Kinds
      <4>3. \A q \in Processes : (phase'[q] = "lock" => q = p) /\ (Registered(q)' => Registered(q) /\ q # p)
        BY <3>2, <3>3 DEF SharedTypeOK, Registered, Constructing
      <4> QED BY <4>1, <4>2, <4>3 DEF MutexInv, SharedTypeOK
    <3> QED BY <2>2, <3>4, <3>5 DEF OpenMutex
  <2>3. CASE Timeout(p)
    <3> DEFINE m == CHOOSE o \in Unused("mutex") : TRUE
    <3>1. NewMutex(p) => m \in Objects /\ \A q \in Processes : Alive(q) => mutex[q] # m
      BY UnusedMutex DEF NewMutex
    <3>2. \A q \in Processes : Constructing(q) <=> q = p
      BY <2>3 DEF Timeout, AloneInv, Constructing
    <3>3. /\ phase' = [phase EXCEPT ![p] = "lock"]
      BY <2>3 DEF Timeout, SharedTypeOK
    <3> HIDE DEF m
    <3>4. CASE NewMutex(p) /\ (named["mutex"] = 0 \/ (~Locks(p) /\ phase[p] = "lock"))
      <4>1. /\ mutex' = [mutex EXCEPT ![p] = m] /\ stale' = stale \ {m} /\ m \in Objects
            /\ named'["mutex"] = m
        BY <3>1, <3>4 DEF NewMutex, m, SharedTypeOK, Kinds
      <4>2. ASSUME NEW q \in Processes, Registered(q) PROVE mutex[q] \in stale
        BY <3>4, <4>2 DEF Locks, MutexInv, SharedTypeOK, Registered, Objects
      <4>3. /\ mutex'[p] = m
            /\ \A q \in Processes : q # p => mutex'[q] = mutex[q] /\ phase'[q] = phase[q]
        BY <3>3, <4>1 DEF SharedTypeOK
      <4>4. \A q \in Processes : Registered(q) => q # p /\ mutex[q] # m
        BY <3>1, <3>2, <3>4 DEF Registered, Constructing, Alive
      <4>5. \A q \in Processes : (phase'[q] = "lock" => q = p) /\ (Registered(q)' => Registered(q))
        BY <3>2, <3>3 DEF SharedTypeOK, Registered, Constructing
      <4>6. \A q \in Processes : Registered(q) => mutex[q] \in Objects
        BY DEF MutexInv
      <4> QED BY <4>1, <4>2, <4>3, <4>4, <4>5, <4>6 DEF MutexInv
    <3>5. CASE named["mutex"] # 0 /\ mutex' = [mutex EXCEPT ![p] = named["mutex"]] /\ UNCHANGED <<named, stale>>
      <4>1. /\ mutex' = [mutex EXCEPT ![p] = named["mutex"]] /\ UNCHANGED <<stale, named>> /\ named["mutex"] # 0
        BY <3>5
      <4>2. named["mutex"] \in Objects
        BY <4>1, Named DEF SharedTypeOK, Kinds
      <4>3. \A q \in Processes : (phase'[q] = "lock" => q = p) /\ (Registered(q)' => Registered(q) /\ q # p)
        BY <3>2, <3>3 DEF SharedTypeOK, Registered, Constructing
      <4> QED BY <4>1, <4>2, <4>3 DEF MutexInv, SharedTypeOK
    <3> QED BY <2>3, <3>4, <3>5 DEF Timeout
  <2>4. CASE Register(p)
    <3>1. /\ phase[p] = "lock" \/ Registered(p)
          /\ phase' = [phase EXCEPT ![p] = phase'[p]]
          /\ \/ phase'[p] \in {"running", "posting"} /\ mutex' = mutex
             \/ phase'[p] = "none" /\ mutex' = [mutex EXCEPT ![p] = 0]
          /\ UNCHANGED <<named, stale>>
      BY <2>4 DEF Register, SharedTypeOK, objects, Forget, Registered
    <3> QED BY <3>1 DEF SharedTypeOK, MutexInv, Registered
  <2>5. CASE StartThread(p)
    BY <2>5 DEF StartThread, objects, contents, threads, SharedTypeOK, MutexInv, Registered,
      Constructing, Alive, Forget
  <2>6. CASE WaitForSem(p)
    BY <2>6 DEF WaitForSem, objects, contents, threads, SharedTypeOK, MutexInv, Registered,
      Constructing, Alive, Forget
  <2>7. CASE Copy(p)
    BY <2>7 DEF Copy, objects, contents, threads, SharedTypeOK, MutexInv, Registered, Constructing,
      Alive, Forget
  <2>8. CASE Handle(p)
    BY <2>8 DEF Handle, objects, contents, threads, SharedTypeOK, MutexInv, Registered, Constructing,
      Alive, Forget
  <2>9. CASE Write(p)
    BY <2>9 DEF Write, objects, contents, threads, SharedTypeOK, MutexInv, Registered, Constructing,
      Alive, Forget
  <2>10. CASE \E i \in Interrupts : Trigger(p, i)
    <3>1. /\ phase[p] = "lock" \/ Registered(p)
          /\ phase' = [phase EXCEPT ![p] = phase'[p]]
          /\ \/ phase'[p] \in {"running", "posting"} /\ mutex' = mutex
             \/ phase'[p] = "none" /\ mutex' = [mutex EXCEPT ![p] = 0]
          /\ UNCHANGED <<named, stale>>
      BY <2>10 DEF Trigger, SharedTypeOK, objects, Forget, Registered
    <3> QED BY <3>1 DEF SharedTypeOK, MutexInv, Registered
  <2>11. CASE Post(p)
    <3>1. /\ phase[p] = "lock" \/ Registered(p)
          /\ phase' = [phase EXCEPT ![p] = phase'[p]]
          /\ \/ phase'[p] \in {"running", "posting"} /\ mutex' = mutex
             \/ phase'[p] = "none" /\ mutex' = [mutex EXCEPT ![p] = 0]
          /\ UNCHANGED <<named, stale>>
      BY <2>11 DEF Post, SharedTypeOK, objects, Forget, Registered
    <3> QED BY <3>1 DEF SharedTypeOK, MutexInv, Registered
  <2>12. CASE Stop(p)
    BY <2>12 DEF Stop, objects, contents, threads, SharedTypeOK, MutexInv, Registered, Constructing,
      Alive, Forget
  <2>13. CASE WakeUp(p)
    BY <2>13 DEF WakeUp, objects, contents, threads, SharedTypeOK, MutexInv, Registered,
      Constructing, Alive, Forget
  <2>14. CASE RemoveSem(p)
    BY <2>14 DEF RemoveSem, objects, contents, threads, SharedTypeOK, MutexInv, Registered,
      Constructing, Alive, Forget
  <2>15. CASE Leave(p)
    BY <2>15 DEF Leave, objects, contents, threads, SharedTypeOK, MutexInv, Registered, Constructing,
      Alive, Forget
  <2>16. CASE RemoveNames(p)
    <3>1. phase'[p] \notin {"lock", "running", "posting", "stop", "join", "leave"} /\ Removing(p)
      BY <2>16 DEF RemoveNames, RemoveName, SharedTypeOK, Removing
    <3>2. \A q \in Processes \ {p} : phase'[q] = phase[q] /\ ~Alive(q)
      BY <2>16, <3>1 DEF RemoveNames, RemoveName, AloneInv, SharedTypeOK
    <3> QED BY <3>1, <3>2 DEF MutexInv, Registered, Alive
  <2>17. CASE Crash(p)
    BY <2>17 DEF Crash, objects, contents, threads, SharedTypeOK, MutexInv, Registered, Constructing,
      Alive, Forget
  <2> QED BY <1>1, <2>1, <2>2, <2>3, <2>4, <2>5, <2>6, <2>7, <2>8, <2>9, <2>10, <2>11, <2>12, <2>13,
    <2>14, <2>15, <2>16, <2>17 DEF StepOf
<1> QED BY <1>0, <1>1, SharedSteps

(***************************************************************************)
(* A segment whose process IDs and semaphores only become fewer still has  *)
(* room for them.                                                          *)
(***************************************************************************)
LEMMA StillFits ==
  ASSUME SharedAssumption, NEW o \in Objects, pidSet[o] \in SUBSET Processes,
         semaphores[o] \in SUBSET Processes, maxMember \in Nat, FitInv,
         semaphores'[o] \cup pidSet'[o] \subseteq semaphores[o] \cup pidSet[o]
  PROVE  Cardinality(semaphores'[o] \cup pidSet'[o]) <= maxMember
<1>1. semaphores[o] \cup pidSet[o] \in SUBSET Processes
  OBVIOUS
<1>2. Cardinality(semaphores[o] \cup pidSet[o]) <= maxMember
  BY DEF FitInv
<1> QED BY <1>1, <1>2, Fewer

(***************************************************************************)
(* There is room for the semaphore of each process.                        *)
(***************************************************************************)
LEMMA FitStep ==
  ASSUME SharedAssumption, ~Overlap, SharedInv, [SharedDummyNext]_sharedDummyVars
  PROVE  FitInv'
<1> USE DEF SharedInv
<1>0. CASE Same
  BY <1>0 DEF Same, sharedDummyVars, objects, contents, threads, FitInv
<1>1. ASSUME NEW p \in Processes, StepOf(p)
      PROVE  FitInv'
  <2>1. CASE OpenSegment(p)
    <3>1. CASE named["segment"] # 0
      BY <2>1, <3>1 DEF OpenSegment, contents, objects, FitInv
    <3>2. CASE named["segment"] = 0
      <4> DEFINE s == CHOOSE o \in Unused("segment") : TRUE
      <4>1. s \in Objects
        BY <2>1, <3>2, UnusedSegment DEF OpenSegment
      <4> HIDE DEF s
      <4>2. /\ pidSet' = [pidSet EXCEPT ![s] = {}] /\ semaphores' = [semaphores EXCEPT ![s] = {}]
            /\ UNCHANGED maxMember
        BY <2>1, <3>2 DEF OpenSegment, s
      <4>3. ASSUME NEW o \in Objects PROVE Cardinality(semaphores'[o] \cup pidSet'[o]) <= maxMember
        <5>1. semaphores'[o] \cup pidSet'[o] \subseteq semaphores[o] \cup pidSet[o]
          BY <4>1, <4>2 DEF SharedTypeOK
        <5> QED BY <5>1, StillFits DEF SharedTypeOK
      <4> QED BY <4>2, <4>3 DEF FitInv
    <3> QED BY <3>1, <3>2
  <2>2. CASE OpenMutex(p)
    BY <2>2 DEF OpenMutex, NewMutex, objects, contents, threads, FitInv
  <2>3. CASE Timeout(p)
    BY <2>3 DEF Timeout, NewMutex, objects, contents, threads, FitInv
  <2>4. CASE Register(p)
    <3>1. UNCHANGED maxMember
      BY <2>4 DEF Register, objects
    <3>2. segment[p] \in Objects
      BY <2>4 DEF Register, PlaceInv, Placed, Constructing
    <3>3. ASSUME NEW o \in Objects PROVE Cardinality(semaphores'[o] \cup pidSet'[o]) <= maxMember
      <4>1. CASE Cardinality(Existing(segment[p])) >= maxMember \/ o # segment[p]
        <5>1. semaphores'[o] \cup pidSet'[o] \subseteq semaphores[o] \cup pidSet[o]
          BY <2>4, <3>2, <4>1 DEF Register, SharedTypeOK, Existing
        <5> QED BY <5>1, StillFits DEF SharedTypeOK
      <4>2. CASE ~(Cardinality(Existing(segment[p])) >= maxMember) /\ o = segment[p]
        <5> DEFINE E == Existing(segment[p])
        <5>1. E \in SUBSET Processes
          BY <3>2 DEF Existing, SharedTypeOK
        <5>2. semaphores'[o] \cup pidSet'[o] \subseteq E \cup {p}
          BY <2>4, <3>2, <4>2 DEF Register, SharedTypeOK, Existing, Cleanup
        <5> HIDE DEF E
        <5>3. IsFiniteSet(E)
          BY <5>1, FS_Subset DEF SharedAssumption
        <5>a. Cardinality(E) \in Nat
          BY <5>3, FS_CardinalityType
        <5>b. Cardinality(E \cup {p}) = IF p \in E THEN Cardinality(E) ELSE Cardinality(E) + 1
          BY <5>3, FS_AddElement
        <5>4. Cardinality(E) \in Nat /\ Cardinality(E \cup {p}) <= Cardinality(E) + 1
          BY <5>a, <5>b
        <5>5. Cardinality(E \cup {p}) \in Nat
          BY <5>3, FS_AddElement, FS_CardinalityType
        <5>6. Cardinality(E \cup {p}) <= maxMember
          BY <4>2, <5>4, <5>5 DEF E, SharedTypeOK
        <5> QED BY <5>1, <5>2, <5>6, Fewer DEF SharedTypeOK
      <4> QED BY <4>1, <4>2
    <3> QED BY <3>1, <3>3 DEF FitInv
  <2>5. CASE StartThread(p)
    <3>1. UNCHANGED maxMember
      BY <2>5 DEF StartThread, objects
    <3>2. ASSUME NEW o \in Objects PROVE Cardinality(semaphores'[o] \cup pidSet'[o]) <= maxMember
      <4>1. segment[p] \in Objects /\ (thread[p] # "none" => p \in pidSet[segment[p]])
        BY <2>5 DEF StartThread, PlaceInv, Placed, Registered, Constructing
      <4>2. semaphores'[o] \cup pidSet'[o] \subseteq semaphores[o] \cup pidSet[o]
        BY <2>5, <4>1 DEF StartThread, SharedTypeOK, Existing
      <4> QED BY <4>2, StillFits DEF SharedTypeOK
    <3> QED BY <3>1, <3>2 DEF FitInv
  <2>6. CASE WaitForSem(p)
    BY <2>6 DEF WaitForSem, objects, contents, threads, FitInv
  <2>7. CASE Copy(p)
    BY <2>7 DEF Copy, objects, contents, threads, FitInv
  <2>8. CASE Handle(p)
    BY <2>8 DEF Handle, objects, contents, threads, FitInv
  <2>9. CASE Write(p)
    BY <2>9 DEF Write, objects, contents, threads, FitInv
  <2>10. CASE \E i \in Interrupts : Trigger(p, i)
    BY <2>10 DEF Trigger, objects, contents, threads, FitInv
  <2>11. CASE Post(p)
    BY <2>11 DEF Post, objects, contents, threads, FitInv
  <2>12. CASE Stop(p)
    BY <2>12 DEF Stop, objects, contents, threads, FitInv
  <2>13. CASE WakeUp(p)
    BY <2>13 DEF WakeUp, objects, contents, threads, FitInv
  <2>14. CASE RemoveSem(p)
    <3>1. UNCHANGED maxMember
      BY <2>14 DEF RemoveSem, objects
    <3>2. ASSUME NEW o \in Objects PROVE Cardinality(semaphores'[o] \cup pidSet'[o]) <= maxMember
      <4>1. segment[p] \in Objects /\ (thread[p] # "none" => p \in pidSet[segment[p]])
        BY <2>14 DEF RemoveSem, PlaceInv, Placed, Registered, Constructing
      <4>2. semaphores'[o] \cup pidSet'[o] \subseteq semaphores[o] \cup pidSet[o]
        BY <2>14, <4>1 DEF RemoveSem, SharedTypeOK, Existing
      <4> QED BY <4>2, StillFits DEF SharedTypeOK
    <3> QED BY <3>1, <3>2 DEF FitInv
  <2>15. CASE Leave(p)
    <3>1. UNCHANGED maxMember
      BY <2>15 DEF Leave, objects
    <3>2. ASSUME NEW o \in Objects PROVE Cardinality(semaphores'[o] \cup pidSet'[o]) <= maxMember
      <4>1. segment[p] \in Objects /\ (thread[p] # "none" => p \in pidSet[segment[p]])
        BY <2>15 DEF Leave, PlaceInv, Placed, Registered, Constructing
      <4>2. semaphores'[o] \cup pidSet'[o] \subseteq semaphores[o] \cup pidSet[o]
        BY <2>15, <4>1 DEF Leave, SharedTypeOK, Existing
      <4> QED BY <4>2, StillFits DEF SharedTypeOK
    <3> QED BY <3>1, <3>2 DEF FitInv
  <2>16. CASE RemoveNames(p)
    BY <2>16 DEF RemoveNames, RemoveName, objects, contents, threads, FitInv
  <2>17. CASE Crash(p)
    BY <2>17 DEF Crash, objects, contents, threads, FitInv
  <2> QED BY <1>1, <2>1, <2>2, <2>3, <2>4, <2>5, <2>6, <2>7, <2>8, <2>9, <2>10, <2>11, <2>12, <2>13,
    <2>14, <2>15, <2>16, <2>17 DEF StepOf
<1> QED BY <1>0, <1>1, SharedSteps

(***************************************************************************)
(* A semaphore is that of a dead process, or of one whose thread has started. *)
(***************************************************************************)
LEMMA OwnerStep ==
  ASSUME SharedAssumption, ~Overlap, SharedInv, [SharedDummyNext]_sharedDummyVars
  PROVE  OwnerInv'
<1> USE DEF SharedInv
<1>0. CASE Same
  BY <1>0 DEF Same, sharedDummyVars, objects, contents, threads, SharedTypeOK, OwnerInv, Registered
<1>1. ASSUME NEW p \in Processes, StepOf(p)
      PROVE  OwnerInv'
  <2>1. CASE OpenSegment(p)
    <3>1. CASE named["segment"] # 0
      <4>1. /\ phase[p] = "none" /\ phase' = [phase EXCEPT ![p] = "mutex"]
            /\ segment' = [segment EXCEPT ![p] = named["segment"]]
            /\ UNCHANGED <<semaphores, thread>>
        BY <2>1, <3>1 DEF OpenSegment, contents
      <4> QED BY <4>1 DEF SharedTypeOK, OwnerInv
    <3>2. CASE named["segment"] = 0
      <4> DEFINE s == CHOOSE o \in Unused("segment") : TRUE
      <4>1. s \in Objects
        BY <2>1, <3>2, UnusedSegment DEF OpenSegment
      <4> HIDE DEF s
      <4>2. /\ semaphores' = [semaphores EXCEPT ![s] = {}]
            /\ phase[p] = "none" /\ phase' = [phase EXCEPT ![p] = "mutex"]
            /\ segment' = [segment EXCEPT ![p] = s]
            /\ UNCHANGED thread
        BY <2>1, <3>2 DEF OpenSegment, s
      <4> QED BY <4>1, <4>2 DEF SharedTypeOK, OwnerInv
    <3> QED BY <3>1, <3>2
  <2>2. CASE OpenMutex(p)
    BY <2>2 DEF OpenMutex, NewMutex, objects, contents, threads, SharedTypeOK, OwnerInv, Registered
  <2>3. CASE Timeout(p)
    BY <2>3 DEF Timeout, NewMutex, objects, contents, threads, SharedTypeOK, OwnerInv, Registered
  <2>4. CASE Register(p)
    <3>1. segment[p] \in Objects /\ phase[p] = "lock"
      BY <2>4 DEF Register, PlaceInv, Placed, Constructing
    <3>2. /\ phase' = [phase EXCEPT ![p] = phase'[p]] /\ thread' = [thread EXCEPT ![p] = thread'[p]]
          /\ segment' = [segment EXCEPT ![p] = segment'[p]]
      BY <2>4 DEF Register, Forget, SharedTypeOK
    <3>3. \A o \in Objects : semaphores'[o] \subseteq semaphores[o]
      BY <2>4, <3>1 DEF Register, Cleanup, SharedTypeOK
    <3>4. \A o \in Objects : p \notin semaphores[o]
      BY <3>1 DEF OwnerInv
    <3> QED BY <3>2, <3>3, <3>4 DEF SharedTypeOK, OwnerInv
  <2>5. CASE StartThread(p)
    <3>1. /\ phase[p] \in {"running", "posting", "stop"} /\ segment[p] \in Objects
      BY <2>5 DEF StartThread, PlaceInv, Placed, Registered, ThreadInv, ThreadAt, Waiting
    <3> QED BY <2>5, <3>1 DEF StartThread, OwnerInv, SharedTypeOK
  <2>6. CASE WaitForSem(p)
    BY <2>6 DEF WaitForSem, objects, contents, threads, SharedTypeOK, OwnerInv, Registered
  <2>7. CASE Copy(p)
    BY <2>7 DEF Copy, objects, contents, threads, SharedTypeOK, OwnerInv, Registered
  <2>8. CASE Handle(p)
    BY <2>8 DEF Handle, objects, contents, threads, SharedTypeOK, OwnerInv, Registered
  <2>9. CASE Write(p)
    BY <2>9 DEF Write, objects, contents, threads, SharedTypeOK, OwnerInv, Registered
  <2>10. CASE \E i \in Interrupts : Trigger(p, i)
    BY <2>10 DEF Trigger, objects, contents, threads, SharedTypeOK, OwnerInv, Registered
  <2>11. CASE Post(p)
    BY <2>11 DEF Post, objects, contents, threads, SharedTypeOK, OwnerInv, Registered
  <2>12. CASE Stop(p)
    BY <2>12 DEF Stop, objects, contents, threads, SharedTypeOK, OwnerInv, Registered
  <2>13. CASE WakeUp(p)
    BY <2>13 DEF WakeUp, objects, contents, threads, SharedTypeOK, OwnerInv, Registered
  <2>14. CASE RemoveSem(p)
    <3>1. segment[p] \in Objects
      BY <2>14 DEF RemoveSem, PlaceInv, Placed, Registered
    <3>2. /\ semaphores' = [semaphores EXCEPT ![segment[p]] = @ \ {p}]
          /\ phase[p] = "join" /\ phase' = [phase EXCEPT ![p] = "leave"]
          /\ UNCHANGED <<thread, segment>>
      BY <2>14 DEF RemoveSem
    <3> QED BY <3>1, <3>2 DEF OwnerInv, SharedTypeOK
  <2>15. CASE Leave(p)
    <3>1. \A o \in Objects : p \notin semaphores[o]
      BY <2>15 DEF Leave, OwnerInv
    <3>2. /\ phase' = [phase EXCEPT ![p] = phase'[p]] /\ thread' = [thread EXCEPT ![p] = thread'[p]]
          /\ segment' = [segment EXCEPT ![p] = segment'[p]]
          /\ UNCHANGED semaphores
      BY <2>15 DEF Leave, Forget, SharedTypeOK
    <3> QED BY <3>1, <3>2 DEF SharedTypeOK, OwnerInv
  <2>16. CASE RemoveNames(p)
    BY <2>16 DEF RemoveNames, RemoveName, objects, contents, threads, SharedTypeOK, OwnerInv, Registered
  <2>17. CASE Crash(p)
    <3>2. /\ phase' = [phase EXCEPT ![p] = "dead"] /\ thread' = [thread EXCEPT ![p] = thread'[p]]
          /\ segment' = [segment EXCEPT ![p] = segment'[p]]
          /\ UNCHANGED semaphores
      BY <2>17 DEF Crash, Forget, SharedTypeOK, contents
    <3> QED BY <3>2 DEF SharedTypeOK, OwnerInv
  <2> QED BY <1>1, <2>1, <2>2, <2>3, <2>4, <2>5, <2>6, <2>7, <2>8, <2>9, <2>10, <2>11, <2>12, <2>13,
    <2>14, <2>15, <2>16, <2>17 DEF StepOf
<1> QED BY <1>0, <1>1, SharedSteps

(***************************************************************************)
(* The thread of a process has registered its semaphore, is stopped with the *)
(* process, and wakes up for it.                                           *)
(***************************************************************************)
LEMMA ThreadStep ==
  ASSUME SharedAssumption, ~Overlap, SharedInv, [SharedDummyNext]_sharedDummyVars
  PROVE  ThreadInv'
<1> USE DEF SharedInv
<1>0. CASE Same
  BY <1>0 DEF Same, sharedDummyVars, objects, contents, threads, SharedTypeOK, ThreadInv, ThreadAt,
    Waiting
<1>1. ASSUME NEW p \in Processes, StepOf(p)
      PROVE  ThreadInv'
  <2>1. CASE OpenSegment(p)
    <3>1. CASE named["segment"] # 0
      <4>1. /\ phase[p] = "none" /\ phase' = [phase EXCEPT ![p] = "mutex"]
            /\ segment' = [segment EXCEPT ![p] = named["segment"]]
            /\ UNCHANGED <<semaphores, posted, thread, stop, posting>>
        BY <2>1, <3>1 DEF OpenSegment, contents
      <4>2. thread[p] = "none"
        BY <4>1 DEF PlaceInv, Placed, Registered
      <4> QED BY <4>1, <4>2 DEF SharedTypeOK, ThreadInv, ThreadAt, Waiting
    <3>2. CASE named["segment"] = 0
      <4> DEFINE s == CHOOSE o \in Unused("segment") : TRUE
      <4>1. s \in Objects /\ \A q \in Processes : Alive(q) => segment[q] # s
        BY <2>1, <3>2, UnusedSegment DEF OpenSegment
      <4> HIDE DEF s
      <4>2. /\ semaphores' = [semaphores EXCEPT ![s] = {}]
            /\ posted' = [posted EXCEPT ![s] = [q \in Processes |-> 0]]
            /\ phase[p] = "none" /\ phase' = [phase EXCEPT ![p] = "mutex"]
            /\ segment' = [segment EXCEPT ![p] = s]
            /\ UNCHANGED <<thread, stop, posting>>
        BY <2>1, <3>2 DEF OpenSegment, s
      <4>3. \A q \in Processes : Registered(q) => segment[q] # s /\ q # p /\ segment'[q] = segment[q] /\ segment[q] \in Objects
        BY <4>1, <4>2 DEF Alive, Registered, SharedTypeOK, PlaceInv, Placed
      <4>4. \A q \in Processes : Registered(q) => semaphores'[segment'[q]] = semaphores[segment[q]] /\ posted'[segment'[q]][q] = posted[segment[q]][q]
        BY <4>2, <4>3 DEF SharedTypeOK
      <4>5. \A q \in Processes : Waiting(q) \/ phase[q] = "join" => Registered(q)
        BY DEF Waiting, Registered, PlaceInv, Placed
      <4> HIDE DEF Registered
      <4> QED BY <4>2, <4>4, <4>5 DEF SharedTypeOK, ThreadInv, ThreadAt, Waiting
    <3> QED BY <3>1, <3>2
  <2>2. CASE OpenMutex(p)
    BY <2>2 DEF OpenMutex, NewMutex, objects, contents, threads, SharedTypeOK, ThreadInv, ThreadAt,
      Waiting
  <2>3. CASE Timeout(p)
    BY <2>3 DEF Timeout, NewMutex, objects, contents, threads, SharedTypeOK, ThreadInv, ThreadAt,
      Waiting
  <2>4. CASE Register(p)
    <3>1. /\ UNCHANGED <<posted, posting>>
          /\ phase' = [phase EXCEPT ![p] = phase'[p]] /\ thread' = [thread EXCEPT ![p] = thread'[p]]
          /\ segment' = [segment EXCEPT ![p] = segment'[p]] /\ stop' = [stop EXCEPT ![p] = stop'[p]]
          /\ posting' = [posting EXCEPT ![p] = posting'[p]]
      BY <2>4 DEF Register, contents, Forget, SharedTypeOK
    <3>2. phase[p] = "lock" /\ phase'[p] \in {"none", "running"} /\ ThreadAt(p) /\ thread'[p] \in {"none", "start"}
      BY <2>4 DEF Register, ThreadInv, SharedTypeOK, PlaceInv, Placed, Registered
    <3>3. segment[p] \in Objects
      BY <3>2 DEF PlaceInv, Placed, Constructing
    <3>9. ThreadAt(p)'
      BY <3>1, <3>2, <3>3 DEF SharedTypeOK, ThreadAt, Waiting
    <3>4. ASSUME NEW q \in Processes, Waiting(q), q \in semaphores[segment[q]] PROVE q \in semaphores'[segment[q]]
      <4>1. q \in pidSet[segment[q]] /\ phase[q] # "dead" /\ segment[q] \in Objects
        BY <3>4 DEF Waiting, PlaceInv, Placed, Registered
      <4>2. CASE Cardinality(Existing(segment[p])) >= maxMember
        BY <2>4, <3>4, <4>2 DEF Register
      <4>3. CASE ~(Cardinality(Existing(segment[p])) >= maxMember)
        BY <2>4, <3>3, <3>4, <4>1, <4>3 DEF Register, Cleanup, Existing, SharedTypeOK
      <4> QED BY <4>2, <4>3
    <3>8. ASSUME NEW q \in Processes, q # p PROVE ThreadAt(q)'
      <4>1. /\ phase'[q] = phase[q] /\ thread'[q] = thread[q] /\ segment'[q] = segment[q]
            /\ stop'[q] = stop[q] /\ posting'[q] = posting[q]
        BY <3>1, <3>8 DEF SharedTypeOK
      <4>2. ThreadAt(q)
        BY DEF ThreadInv
      <4>3. Waiting(q) => q \in semaphores'[segment[q]]
        BY <3>1, <3>8, <4>2, <3>4 DEF ThreadAt
      <4>4. phase[q] = "join" /\ posted[segment[q]][q] > 0 => posted'[segment[q]][q] > 0
        BY <3>1, <3>8
      <4> QED BY <4>1, <4>2, <4>3, <4>4 DEF ThreadAt, Waiting
    <3> QED BY <3>8, <3>9 DEF ThreadInv
  <2>5. CASE StartThread(p)
    <3>1. /\ semaphores' = [semaphores EXCEPT ![segment[p]] = @ \cup {p}]
          /\ UNCHANGED <<posted, phase, segment, stop, posting>>
          /\ phase' = [phase EXCEPT ![p] = phase'[p]] /\ thread' = [thread EXCEPT ![p] = thread'[p]]
          /\ segment' = [segment EXCEPT ![p] = segment'[p]] /\ stop' = [stop EXCEPT ![p] = stop'[p]]
          /\ posting' = [posting EXCEPT ![p] = posting'[p]]
      BY <2>5 DEF StartThread, contents, Forget, SharedTypeOK
    <3>2. thread[p] = "start" /\ thread'[p] = "wait" /\ ThreadAt(p)
      BY <2>5 DEF StartThread, ThreadInv, SharedTypeOK
    <3>3. segment[p] \in Objects /\ phase[p] \in {"running", "posting", "stop"}
      BY <3>2 DEF PlaceInv, Placed, Registered, ThreadAt
    <3>9. ThreadAt(p)'
      BY <3>1, <3>2, <3>3 DEF SharedTypeOK, ThreadAt, Waiting
    <3>8. ASSUME NEW q \in Processes, q # p PROVE ThreadAt(q)'
      <4>1. /\ phase'[q] = phase[q] /\ thread'[q] = thread[q] /\ segment'[q] = segment[q]
            /\ stop'[q] = stop[q] /\ posting'[q] = posting[q]
        BY <3>1, <3>8 DEF SharedTypeOK
      <4>2. ThreadAt(q)
        BY DEF ThreadInv
      <4>3. Waiting(q) => q \in semaphores'[segment[q]]
        BY <3>1, <3>8, <4>2, <3>3 DEF ThreadAt, SharedTypeOK
      <4>4. phase[q] = "join" /\ posted[segment[q]][q] > 0 => posted'[segment[q]][q] > 0
        BY <3>1, <3>8
      <4> QED BY <4>1, <4>2, <4>3, <4>4 DEF ThreadAt, Waiting
    <3> QED BY <3>8, <3>9 DEF ThreadInv
  <2>6. CASE WaitForSem(p)
    BY <2>6 DEF WaitForSem, objects, contents, threads, SharedTypeOK, ThreadInv, ThreadAt, Waiting
  <2>7. CASE Copy(p)
    BY <2>7 DEF Copy, objects, contents, threads, SharedTypeOK, ThreadInv, ThreadAt, Waiting
  <2>8. CASE Handle(p)
    BY <2>8 DEF Handle, objects, contents, threads, SharedTypeOK, ThreadInv, ThreadAt, Waiting
  <2>9. CASE Write(p)
    BY <2>9 DEF Write, objects, contents, threads, SharedTypeOK, ThreadInv, ThreadAt, Waiting
  <2>10. CASE \E i \in Interrupts : Trigger(p, i)
    BY <2>10 DEF Trigger, objects, contents, threads, SharedTypeOK, ThreadInv, ThreadAt, Waiting
  <2>11. CASE Post(p)
    <3>1. /\ UNCHANGED <<semaphores, segment, stop, thread>>
          /\ phase' = [phase EXCEPT ![p] = phase'[p]] /\ thread' = [thread EXCEPT ![p] = thread'[p]]
          /\ segment' = [segment EXCEPT ![p] = segment'[p]] /\ stop' = [stop EXCEPT ![p] = stop'[p]]
          /\ posting' = [posting EXCEPT ![p] = posting'[p]]
      BY <2>11 DEF Post, contents, Forget, SharedTypeOK
    <3>2. phase[p] = "posting" /\ phase'[p] \in {"posting", "running"} /\ ThreadAt(p)
          /\ (phase'[p] = "running" => posting'[p] = {})
      BY <2>11 DEF Post, ThreadInv, SharedTypeOK
    <3>3. segment[p] \in Objects
      BY <3>2 DEF PlaceInv, Placed, Registered
    <3>9. ThreadAt(p)'
      BY <3>1, <3>2 DEF SharedTypeOK, ThreadAt, Waiting
    <3>4. ASSUME NEW q \in Processes, phase[q] = "join", posted[segment[q]][q] > 0 PROVE posted'[segment[q]][q] > 0
      <4>1. CASE UNCHANGED posted
        BY <3>4, <4>1
      <4>2. ASSUME NEW r \in posting[p], posted' = [posted EXCEPT ![segment[p]][r] = @ + 1]
            PROVE  posted'[segment[q]][q] > 0
        <5>1. r \in Processes /\ segment[q] \in Objects
          BY <3>4 DEF PlaceInv, Placed, Registered, SharedTypeOK
        <5> QED BY <3>3, <3>4, <4>2, <5>1 DEF SharedTypeOK, Posts
      <4> QED BY <2>11, <4>1, <4>2 DEF Post
    <3>8. ASSUME NEW q \in Processes, q # p PROVE ThreadAt(q)'
      <4>1. /\ phase'[q] = phase[q] /\ thread'[q] = thread[q] /\ segment'[q] = segment[q]
            /\ stop'[q] = stop[q] /\ posting'[q] = posting[q]
        BY <3>1, <3>8 DEF SharedTypeOK
      <4>2. ThreadAt(q)
        BY DEF ThreadInv
      <4>3. Waiting(q) => q \in semaphores'[segment[q]]
        BY <3>1, <3>8, <4>2 DEF ThreadAt
      <4>4. phase[q] = "join" /\ posted[segment[q]][q] > 0 => posted'[segment[q]][q] > 0
        BY <3>1, <3>8, <3>4
      <4> QED BY <4>1, <4>2, <4>3, <4>4 DEF ThreadAt, Waiting
    <3> QED BY <3>8, <3>9 DEF ThreadInv
  <2>12. CASE Stop(p)
    BY <2>12 DEF Stop, objects, contents, threads, SharedTypeOK, ThreadInv, ThreadAt, Waiting
  <2>13. CASE WakeUp(p)
    <3>1. /\ posted' = [posted EXCEPT ![segment[p]][p] = @ + 1]
          /\ UNCHANGED <<semaphores, segment, stop, posting, thread>>
          /\ phase' = [phase EXCEPT ![p] = phase'[p]] /\ thread' = [thread EXCEPT ![p] = thread'[p]]
          /\ segment' = [segment EXCEPT ![p] = segment'[p]] /\ stop' = [stop EXCEPT ![p] = stop'[p]]
          /\ posting' = [posting EXCEPT ![p] = posting'[p]]
      BY <2>13 DEF WakeUp, contents, Forget, SharedTypeOK
    <3>2. segment[p] \in Objects /\ ThreadAt(p)
      BY <2>13 DEF WakeUp, PlaceInv, Placed, Registered, ThreadInv
    <3>3. posted'[segment[p]][p] > 0
      BY <3>1, <3>2 DEF SharedTypeOK, Posts
    <3>4. phase[p] = "stop" /\ phase'[p] = "join" /\ thread[p] # "start"
      BY <2>13 DEF WakeUp, SharedTypeOK
    <3>9. ThreadAt(p)'
      BY <3>1, <3>2, <3>3, <3>4 DEF SharedTypeOK, ThreadAt, Waiting
    <3>8. ASSUME NEW q \in Processes, q # p PROVE ThreadAt(q)'
      <4>1. /\ phase'[q] = phase[q] /\ thread'[q] = thread[q] /\ segment'[q] = segment[q]
            /\ stop'[q] = stop[q] /\ posting'[q] = posting[q]
        BY <3>1, <3>8 DEF SharedTypeOK
      <4>2. ThreadAt(q)
        BY DEF ThreadInv
      <4>3. Waiting(q) => q \in semaphores'[segment[q]]
        BY <3>1, <3>8, <4>2 DEF ThreadAt
      <4>4. phase[q] = "join" /\ posted[segment[q]][q] > 0 => posted'[segment[q]][q] > 0
        BY <3>1, <3>8, <3>2 DEF SharedTypeOK, Posts
      <4> QED BY <4>1, <4>2, <4>3, <4>4 DEF ThreadAt, Waiting
    <3> QED BY <3>8, <3>9 DEF ThreadInv
  <2>14. CASE RemoveSem(p)
    BY <2>14 DEF RemoveSem, objects, contents, threads, SharedTypeOK, ThreadInv, ThreadAt, Waiting
  <2>15. CASE Leave(p)
    <3>1. /\ UNCHANGED <<semaphores, posted>>
          /\ phase' = [phase EXCEPT ![p] = phase'[p]] /\ thread' = [thread EXCEPT ![p] = thread'[p]]
          /\ segment' = [segment EXCEPT ![p] = segment'[p]] /\ stop' = [stop EXCEPT ![p] = stop'[p]]
          /\ posting' = [posting EXCEPT ![p] = posting'[p]]
      BY <2>15 DEF Leave, contents, Forget, SharedTypeOK
    <3>2. phase'[p] \in {"remove segment", "none"} /\ thread'[p] = "none" /\ posting'[p] = posting[p] /\ posting[p] = {}
      BY <2>15 DEF Leave, SharedTypeOK, ThreadInv, ThreadAt
    <3>9. ThreadAt(p)'
      BY <3>2 DEF ThreadAt, Waiting
    <3>8. ASSUME NEW q \in Processes, q # p PROVE ThreadAt(q)'
      <4>1. /\ phase'[q] = phase[q] /\ thread'[q] = thread[q] /\ segment'[q] = segment[q]
            /\ stop'[q] = stop[q] /\ posting'[q] = posting[q]
        BY <3>1, <3>8 DEF SharedTypeOK
      <4>2. ThreadAt(q)
        BY DEF ThreadInv
      <4>3. Waiting(q) => q \in semaphores'[segment[q]]
        BY <3>1, <3>8, <4>2 DEF ThreadAt
      <4>4. phase[q] = "join" /\ posted[segment[q]][q] > 0 => posted'[segment[q]][q] > 0
        BY <3>1, <3>8
      <4> QED BY <4>1, <4>2, <4>3, <4>4 DEF ThreadAt, Waiting
    <3> QED BY <3>8, <3>9 DEF ThreadInv
  <2>16. CASE RemoveNames(p)
    <3>1. /\ UNCHANGED <<semaphores, posted>>
          /\ phase' = [phase EXCEPT ![p] = phase'[p]] /\ thread' = [thread EXCEPT ![p] = thread'[p]]
          /\ segment' = [segment EXCEPT ![p] = segment'[p]] /\ stop' = [stop EXCEPT ![p] = stop'[p]]
          /\ posting' = [posting EXCEPT ![p] = posting'[p]]
      <4>1. UNCHANGED <<contents, thread, segment, stop, posting>>
        BY <2>16 DEF RemoveNames, RemoveName
      <4>2. phase' = [phase EXCEPT ![p] = phase'[p]]
        BY <2>16 DEF RemoveNames, RemoveName, SharedTypeOK
      <4> QED BY <4>1, <4>2 DEF contents, SharedTypeOK
    <3>2. Removing(p) /\ ThreadAt(p) /\ thread[p] = "none"
      BY <2>16 DEF RemoveNames, RemoveName, Removing, PlaceInv, Placed, Registered, ThreadInv
    <3>3. phase'[p] \in {"remove mutex", "none"} /\ UNCHANGED <<thread, posting>>
      BY <2>16 DEF RemoveNames, RemoveName, SharedTypeOK
    <3>9. ThreadAt(p)'
      BY <3>2, <3>3 DEF SharedTypeOK, ThreadAt, Waiting, Removing
    <3>8. ASSUME NEW q \in Processes, q # p PROVE ThreadAt(q)'
      <4>1. /\ phase'[q] = phase[q] /\ thread'[q] = thread[q] /\ segment'[q] = segment[q]
            /\ stop'[q] = stop[q] /\ posting'[q] = posting[q]
        BY <3>1, <3>8 DEF SharedTypeOK
      <4>2. ThreadAt(q)
        BY DEF ThreadInv
      <4>3. Waiting(q) => q \in semaphores'[segment[q]]
        BY <3>1, <3>8, <4>2 DEF ThreadAt
      <4>4. phase[q] = "join" /\ posted[segment[q]][q] > 0 => posted'[segment[q]][q] > 0
        BY <3>1, <3>8
      <4> QED BY <4>1, <4>2, <4>3, <4>4 DEF ThreadAt, Waiting
    <3> QED BY <3>8, <3>9 DEF ThreadInv
  <2>17. CASE Crash(p)
    <3>1. /\ UNCHANGED <<semaphores, posted>>
          /\ phase' = [phase EXCEPT ![p] = phase'[p]] /\ thread' = [thread EXCEPT ![p] = thread'[p]]
          /\ segment' = [segment EXCEPT ![p] = segment'[p]] /\ stop' = [stop EXCEPT ![p] = stop'[p]]
          /\ posting' = [posting EXCEPT ![p] = posting'[p]]
      BY <2>17 DEF Crash, contents, Forget, SharedTypeOK
    <3>9. ThreadAt(p)'
      BY <2>17 DEF Crash, SharedTypeOK, ThreadAt, Waiting
    <3>8. ASSUME NEW q \in Processes, q # p PROVE ThreadAt(q)'
      <4>1. /\ phase'[q] = phase[q] /\ thread'[q] = thread[q] /\ segment'[q] = segment[q]
            /\ stop'[q] = stop[q] /\ posting'[q] = posting[q]
        BY <3>1, <3>8 DEF SharedTypeOK
      <4>2. ThreadAt(q)
        BY DEF ThreadInv
      <4>3. Waiting(q) => q \in semaphores'[segment[q]]
        BY <3>1, <3>8, <4>2 DEF ThreadAt
      <4>4. phase[q] = "join" /\ posted[segment[q]][q] > 0 => posted'[segment[q]][q] > 0
        BY <3>1, <3>8
      <4> QED BY <4>1, <4>2, <4>3, <4>4 DEF ThreadAt, Waiting
    <3> QED BY <3>8, <3>9 DEF ThreadInv
  <2> QED BY <1>1, <2>1, <2>2, <2>3, <2>4, <2>5, <2>6, <2>7, <2>8, <2>9, <2>10, <2>11, <2>12, <2>13,
    <2>14, <2>15, <2>16, <2>17 DEF StepOf
<1> QED BY <1>0, <1>1, SharedSteps

(***************************************************************************)
(* A thread has handled all interrupts which it has seen, and it is called *)
(* for those which it has not.                                             *)
(***************************************************************************)
LEMMA CallsStep ==
  ASSUME SharedAssumption, ~Overlap, SharedInv, [SharedDummyNext]_sharedDummyVars
  PROVE  CallInv'
<1> USE DEF SharedInv
<1>0. CASE Same
  BY <1>0 DEF Same, sharedDummyVars, objects, contents, threads, CallInv, CallsAt, Waiting, Called
<1>1. ASSUME NEW p \in Processes, StepOf(p)
      PROVE  CallInv'
  <2>1. CASE OpenSegment(p)
    <3>1. ASSUME NEW q \in Processes, Waiting(q) PROVE Registered(q) /\ q # p /\ segment[q] \in Objects
      BY <2>1, <3>1 DEF OpenSegment, Waiting, PlaceInv, Placed, Registered
    <3>2. CASE named["segment"] # 0
      <4>1. ASSUME NEW q \in Processes PROVE CallsAt(q)'
        <5>1. /\ UNCHANGED <<thread, counter, posted, posting, known, copy, first, calls>>
              /\ segment' = [segment EXCEPT ![p] = named["segment"]]
          BY <2>1, <3>2 DEF OpenSegment, contents, threads
        <5>2. Waiting(q) => segment'[q] = segment[q]
          BY <3>1, <5>1 DEF SharedTypeOK
        <5>3. Waiting(q) /\ Called(q) => Called(q)'
          BY <5>1, <5>2 DEF Called
        <5>4. CallsAt(q)
          BY DEF CallInv
        <5> HIDE DEF Called, Waiting, CallsAt
        <5> QED BY <5>1, <5>2, <5>3, <5>4, CallsFrame
      <4> QED BY <4>1 DEF CallInv
    <3>3. CASE named["segment"] = 0
      <4> DEFINE s == CHOOSE o \in Unused("segment") : TRUE
      <4>1. s \in Objects /\ \A q \in Processes : Alive(q) => segment[q] # s
        BY <2>1, <3>3, UnusedSegment DEF OpenSegment
      <4> HIDE DEF s
      <4>2. /\ UNCHANGED <<thread, posting, known, copy, first, calls>>
            /\ posted' = [posted EXCEPT ![s] = [q \in Processes |-> 0]]
            /\ counter' = [counter EXCEPT ![s] = [i \in Interrupts |-> 0]]
            /\ segment' = [segment EXCEPT ![p] = s]
        BY <2>1, <3>3 DEF OpenSegment, s, threads
      <4>3. ASSUME NEW q \in Processes PROVE CallsAt(q)'
        <5>1. Waiting(q) => segment[q] # s
          BY <3>1, <4>1 DEF Alive, Registered
        <5>2. Waiting(q) => segment'[q] = segment[q] /\ counter'[segment[q]] = counter[segment[q]] /\ posted'[segment[q]] = posted[segment[q]]
          BY <3>1, <4>1, <4>2, <5>1 DEF SharedTypeOK
        <5>3. Waiting(q) /\ Called(q) => Called(q)'
          BY <4>2, <5>2 DEF Called
        <5>4. CallsAt(q)
          BY DEF CallInv
        <5> QED BY <4>2, <5>2, <5>3, <5>4, CallsFrame
      <4> QED BY <4>3 DEF CallInv
    <3> QED BY <3>2, <3>3
  <2>2. CASE OpenMutex(p)
    <3>1. ASSUME NEW q \in Processes, TRUE PROVE CallsAt(q)'
      <4>1. /\ thread'[q] = thread[q]
            /\ segment'[q] = segment[q] /\ counter' = counter /\ posted' = posted /\ posting' = posting
            /\ known'[q] = known[q] /\ copy'[q] = copy[q] /\ first'[q] = first[q] /\ calls'[q] = calls[q]
        BY <2>2, <3>1 DEF OpenMutex, contents, threads, Forget, SharedTypeOK
      <4>2. Called(q) => Called(q)'
        BY <4>1 DEF Called
      <4>3. CallsAt(q)
        BY DEF CallInv
      <4> QED BY <4>1, <4>2, <4>3, CallsFrame
    <3> QED BY <3>1 DEF CallInv
  <2>3. CASE Timeout(p)
    <3>1. ASSUME NEW q \in Processes, TRUE PROVE CallsAt(q)'
      <4>1. /\ thread'[q] = thread[q]
            /\ segment'[q] = segment[q] /\ counter' = counter /\ posted' = posted /\ posting' = posting
            /\ known'[q] = known[q] /\ copy'[q] = copy[q] /\ first'[q] = first[q] /\ calls'[q] = calls[q]
        BY <2>3, <3>1 DEF Timeout, contents, threads, Forget, SharedTypeOK
      <4>2. Called(q) => Called(q)'
        BY <4>1 DEF Called
      <4>3. CallsAt(q)
        BY DEF CallInv
      <4> QED BY <4>1, <4>2, <4>3, CallsFrame
    <3> QED BY <3>1 DEF CallInv
  <2>4. CASE Register(p)
    <3>1. ASSUME NEW q \in Processes, q # p PROVE CallsAt(q)'
      <4>1. /\ thread'[q] = thread[q]
            /\ segment'[q] = segment[q] /\ counter' = counter /\ posted' = posted /\ posting' = posting
            /\ known'[q] = known[q] /\ copy'[q] = copy[q] /\ first'[q] = first[q] /\ calls'[q] = calls[q]
        BY <2>4, <3>1 DEF Register, contents, threads, Forget, SharedTypeOK
      <4>2. Called(q) => Called(q)'
        BY <4>1 DEF Called
      <4>3. CallsAt(q)
        BY DEF CallInv
      <4> QED BY <4>1, <4>2, <4>3, CallsFrame
    <3>2. ~Waiting(p)'
      BY <2>4 DEF Register, Waiting, SharedTypeOK, PlaceInv, Placed, Registered
    <3>3. CallsAt(p)'
      BY <3>2 DEF CallsAt
    <3> QED BY <3>1, <3>3 DEF CallInv
  <2>5. CASE StartThread(p)
    <3>0. segment[p] \in Objects
      BY <2>5 DEF StartThread, PlaceInv, Placed, Registered
    <3>1. ASSUME NEW q \in Processes, q # p PROVE CallsAt(q)'
      <4>1. /\ thread'[q] = thread[q] /\ counter' = counter /\ posting' = posting
            /\ segment'[q] = segment[q] /\ posted'[segment[q]][q] = posted[segment[q]][q]
            /\ known'[q] = known[q] /\ copy'[q] = copy[q] /\ first'[q] = first[q] /\ calls'[q] = calls[q]
        BY <2>5, <3>0, <3>1 DEF StartThread, contents, threads, SharedTypeOK, Posts
      <4>2. Called(q) => Called(q)'
        BY <4>1 DEF Called
      <4>3. CallsAt(q)
        BY DEF CallInv
      <4> QED BY <4>1, <4>2, <4>3, CallsFrame
    <3>2. /\ thread'[p] = "wait" /\ first'[p] = counter[segment[p]] /\ known'[p] = counter[segment[p]]
          /\ segment' = segment /\ counter' = counter
      BY <2>5 DEF StartThread, SharedTypeOK
    <3>3. counter[segment[p]] \in Numbers
      BY <3>0 DEF SharedTypeOK
    <3>4. ASSUME NEW i \in Interrupts PROVE counter[segment[p]][i] \in Nat
      BY <3>3 DEF Numbers
    <3>5. ASSUME NEW i \in Interrupts
          PROVE  /\ first'[p][i] = counter'[segment'[p]][i] /\ known'[p][i] = counter'[segment'[p]][i]
                 /\ counter'[segment'[p]][i] \in Nat
      BY <3>2, <3>4
    <3>7. ASSUME NEW i \in Interrupts, calls'[p] = NoCounts PROVE calls'[p][i] = 0
      BY <3>7 DEF NoCounts
    <3>8. calls'[p] = NoCounts
      BY <2>5 DEF StartThread, SharedTypeOK
    <3>6. CallsAt(p)'
      BY <3>2, <3>5, <3>7, <3>8 DEF CallsAt
    <3> QED BY <3>1, <3>6 DEF CallInv
  <2>6. CASE WaitForSem(p)
    <3>0. segment[p] \in Objects
      BY <2>6 DEF WaitForSem, PlaceInv, Placed, Registered
    <3>1. ASSUME NEW q \in Processes, q # p PROVE CallsAt(q)'
      <4>1. /\ thread'[q] = thread[q] /\ counter' = counter /\ posting' = posting
            /\ segment'[q] = segment[q] /\ posted'[segment[q]][q] = posted[segment[q]][q]
            /\ known'[q] = known[q] /\ copy'[q] = copy[q] /\ first'[q] = first[q] /\ calls'[q] = calls[q]
        BY <2>6, <3>0, <3>1 DEF WaitForSem, contents, threads, SharedTypeOK, Posts
      <4>2. Called(q) => Called(q)'
        BY <4>1 DEF Called
      <4>3. CallsAt(q)
        BY DEF CallInv
      <4> QED BY <4>1, <4>2, <4>3, CallsFrame
    <3>2. /\ thread[p] = "wait" /\ thread'[p] = "copy"
          /\ UNCHANGED <<segment, counter, known, copy, first, calls>>
      BY <2>6 DEF WaitForSem, SharedTypeOK, threads
    <3>6. CallsAt(p)'
      BY <3>2 DEF CallsAt, CallInv, Waiting
    <3> QED BY <3>1, <3>6 DEF CallInv
  <2>7. CASE Copy(p)
    <3>0. segment[p] \in Objects
      BY <2>7 DEF Copy, PlaceInv, Placed, Registered
    <3>1. ASSUME NEW q \in Processes, q # p PROVE CallsAt(q)'
      <4>1. /\ thread'[q] = thread[q] /\ counter' = counter /\ posting' = posting
            /\ segment'[q] = segment[q] /\ posted'[segment[q]][q] = posted[segment[q]][q]
            /\ known'[q] = known[q] /\ copy'[q] = copy[q] /\ first'[q] = first[q] /\ calls'[q] = calls[q]
        BY <2>7, <3>0, <3>1 DEF Copy, contents, threads, SharedTypeOK, Posts
      <4>2. Called(q) => Called(q)'
        BY <4>1 DEF Called
      <4>3. CallsAt(q)
        BY DEF CallInv
      <4> QED BY <4>1, <4>2, <4>3, CallsFrame
    <3>2. /\ thread[p] = "copy" /\ thread'[p] = "handle" /\ copy'[p] = counter[segment[p]]
          /\ UNCHANGED <<segment, counter, known, first, calls>>
      BY <2>7 DEF Copy, SharedTypeOK, contents
    <3>3. counter[segment[p]] \in Numbers
      BY <3>0 DEF SharedTypeOK
    <3>4. ASSUME NEW i \in Interrupts PROVE counter[segment[p]][i] \in Nat
      BY <3>3 DEF Numbers
    <3>6. CallsAt(p)'
      BY <3>2, <3>4 DEF CallsAt, CallInv, Waiting
    <3> QED BY <3>1, <3>6 DEF CallInv
  <2>8. CASE Handle(p)
    <3>0. segment[p] \in Objects
      BY <2>8 DEF Handle, PlaceInv, Placed, Registered
    <3>1. ASSUME NEW q \in Processes, q # p PROVE CallsAt(q)'
      <4>1. /\ thread'[q] = thread[q] /\ counter' = counter /\ posting' = posting
            /\ segment'[q] = segment[q] /\ posted'[segment[q]][q] = posted[segment[q]][q]
            /\ known'[q] = known[q] /\ copy'[q] = copy[q] /\ first'[q] = first[q] /\ calls'[q] = calls[q]
        BY <2>8, <3>0, <3>1 DEF Handle, contents, threads, SharedTypeOK, Posts
      <4>2. Called(q) => Called(q)'
        BY <4>1 DEF Called
      <4>3. CallsAt(q)
        BY DEF CallInv
      <4> QED BY <4>1, <4>2, <4>3, CallsFrame
    <3>2. /\ thread[p] = "handle" /\ thread'[p] \in {"ended", "wait"}
          /\ calls'[p] = [i \in Interrupts |-> calls[p][i] + Dispatched(p, i)]
          /\ known'[p] = copy[p] /\ UNCHANGED <<segment, counter, posted, posting, first>>
      BY <2>8 DEF Handle, SharedTypeOK, contents
    <3>3. Called(p)' <=> Called(p)
      BY <3>2 DEF Called
    <3>4. ASSUME NEW i \in Interrupts
          PROVE  /\ first'[p][i] <= known'[p][i] /\ known'[p][i] <= counter'[segment'[p]][i]
                 /\ first'[p][i] > 0 => calls'[p][i] = known'[p][i] - first'[p][i]
                 /\ known'[p][i] > first'[p][i] => calls'[p][i] > 0
                 /\ ~Called(p)' => known'[p][i] = counter'[segment'[p]][i]
      <4>t. /\ first[p][i] \in Nat /\ known[p][i] \in Nat /\ copy[p][i] \in Nat /\ calls[p][i] \in Nat
            /\ counter[segment[p]][i] \in Nat
        BY <3>0, <3>4 DEF SharedTypeOK, Numbers
      <4>1. /\ first[p][i] <= known[p][i]
            /\ first[p][i] > 0 => calls[p][i] = known[p][i] - first[p][i]
            /\ known[p][i] > first[p][i] => calls[p][i] > 0
            /\ known[p][i] <= copy[p][i] /\ copy[p][i] <= counter[segment[p]][i]
            /\ ~Called(p) => copy[p][i] = counter[segment[p]][i]
        BY <3>2, <3>4 DEF CallInv, CallsAt, Waiting
      <4>2. /\ first'[p][i] = first[p][i] /\ known'[p][i] = copy[p][i]
            /\ counter'[segment'[p]][i] = counter[segment[p]][i]
            /\ calls'[p][i] = calls[p][i] + (IF known[p][i] = 0 /\ copy[p][i] > 0 THEN 1 ELSE copy[p][i] - known[p][i])
        BY <3>2, <3>4 DEF Dispatched, NewInterrupt
      <4> QED BY <3>3, <4>t, <4>1, <4>2
    <3>6. CallsAt(p)'
      BY <3>2, <3>4 DEF CallsAt
    <3> QED BY <3>1, <3>6 DEF CallInv
  <2>9. CASE Write(p)
    <3>1. ASSUME NEW q \in Processes, TRUE PROVE CallsAt(q)'
      <4>1. /\ thread'[q] = thread[q]
            /\ segment'[q] = segment[q] /\ counter' = counter /\ posted' = posted /\ posting' = posting
            /\ known'[q] = known[q] /\ copy'[q] = copy[q] /\ first'[q] = first[q] /\ calls'[q] = calls[q]
        BY <2>9, <3>1 DEF Write, contents, threads, Forget, SharedTypeOK
      <4>2. Called(q) => Called(q)'
        BY <4>1 DEF Called
      <4>3. CallsAt(q)
        BY DEF CallInv
      <4> QED BY <4>1, <4>2, <4>3, CallsFrame
    <3> QED BY <3>1 DEF CallInv
  <2>10. CASE \E i \in Interrupts : Trigger(p, i)
    <3> PICK n \in Interrupts : Trigger(p, n)
      BY <2>10
    <3>0. segment[p] \in Objects /\ Registered(p)
      BY DEF Trigger, PlaceInv, Placed, Registered
    <3>1. ASSUME NEW q \in Processes, Waiting(q) PROVE CallsAt(q)'
      <4>1. /\ counter' = [counter EXCEPT ![segment[p]][n] = @ + 1]
            /\ posting' = [posting EXCEPT ![p] = semaphores[segment[p]]]
            /\ UNCHANGED <<thread, segment, posted, known, copy, first, calls>>
        BY DEF Trigger, threads
      <4>2. segment[q] = segment[p] /\ q \in semaphores[segment[q]]
        BY <3>0, <3>1 DEF Waiting, PlaceInv, Placed, Registered, ThreadInv, ThreadAt
      <4>3. Called(q)'
        BY <4>1, <4>2 DEF Called, SharedTypeOK
      <4>4. ASSUME NEW i \in Interrupts
            PROVE  /\ counter'[segment[q]][i] >= counter[segment[q]][i]
                   /\ counter'[segment[q]][i] \in Nat /\ counter[segment[q]][i] \in Nat
        BY <3>0, <4>1, <4>2 DEF SharedTypeOK, Numbers
      <4>5. ASSUME NEW i \in Interrupts PROVE known[q][i] \in Nat /\ copy[q][i] \in Nat
        BY DEF SharedTypeOK, Numbers
      <4>6. CallsAt(q) /\ segment'[q] = segment[q]
        BY <4>1 DEF CallInv
      <4>7. ASSUME NEW i \in Interrupts
            PROVE  /\ known[q][i] <= counter[segment[q]][i] => known[q][i] <= counter'[segment[q]][i]
                   /\ copy[q][i] <= counter[segment[q]][i] => copy[q][i] <= counter'[segment[q]][i]
        BY <4>4, <4>5
      <4> QED BY <3>1, <4>1, <4>3, <4>6, <4>7 DEF CallsAt, Waiting
    <3>2. ASSUME NEW q \in Processes, ~Waiting(q) PROVE CallsAt(q)'
      BY <3>2 DEF Trigger, CallsAt, Waiting
    <3> QED BY <3>1, <3>2 DEF CallInv
  <2>11. CASE Post(p)
    <3>0. segment[p] \in Objects /\ Registered(p)
      BY <2>11 DEF Post, PlaceInv, Placed, Registered
    <3>1. ASSUME NEW q \in Processes PROVE CallsAt(q)'
      <4>1. UNCHANGED <<thread, segment, counter, known, copy, first, calls>>
        BY <2>11 DEF Post, threads
      <4>2. Waiting(q) => segment[q] = segment[p]
        BY <3>0 DEF Waiting, PlaceInv, Placed, Registered
      <4>3. Waiting(q) /\ Called(q) => Called(q)'
        <5>1. CASE UNCHANGED <<posted, posting>>
          BY <4>1, <5>1 DEF Called
        <5>2. ASSUME NEW r \in posting[p], posted' = [posted EXCEPT ![segment[p]][r] = @ + 1],
                     posting' = [posting EXCEPT ![p] = @ \ {r}], Waiting(q), Called(q)
              PROVE  Called(q)'
          <6>1. r \in Processes
            BY <5>2 DEF SharedTypeOK
          <6>2. posted'[segment[p]][q] >= posted[segment[p]][q] /\ posted[segment[p]][q] \in Nat
                /\ posted'[segment[p]][q] \in Nat
            BY <3>0, <5>2, <6>1 DEF SharedTypeOK, Posts
          <6>3. q = r => posted'[segment[p]][q] > 0
            BY <3>0, <5>2, <6>1 DEF SharedTypeOK, Posts
          <6>4. \A o \in Processes : q \in posting[o] /\ q # r => q \in posting'[o]
            BY <5>2 DEF SharedTypeOK
          <6>5. segment'[q] = segment[p]
            BY <4>1, <4>2, <5>2
          <6> QED BY <4>2, <5>2, <6>2, <6>3, <6>4, <6>5 DEF Called
        <5> QED BY <2>11, <5>1, <5>2 DEF Post
      <4>5. CallsAt(q)
        BY DEF CallInv
      <4> QED BY <4>1, <4>3, <4>5, CallsFrame
    <3> QED BY <3>1 DEF CallInv
  <2>12. CASE Stop(p)
    <3>1. ASSUME NEW q \in Processes, TRUE PROVE CallsAt(q)'
      <4>1. /\ thread'[q] = thread[q]
            /\ segment'[q] = segment[q] /\ counter' = counter /\ posted' = posted /\ posting' = posting
            /\ known'[q] = known[q] /\ copy'[q] = copy[q] /\ first'[q] = first[q] /\ calls'[q] = calls[q]
        BY <2>12, <3>1 DEF Stop, contents, threads, Forget, SharedTypeOK
      <4>2. Called(q) => Called(q)'
        BY <4>1 DEF Called
      <4>3. CallsAt(q)
        BY DEF CallInv
      <4> QED BY <4>1, <4>2, <4>3, CallsFrame
    <3> QED BY <3>1 DEF CallInv
  <2>13. CASE WakeUp(p)
    <3>0. segment[p] \in Objects
      BY <2>13 DEF WakeUp, PlaceInv, Placed, Registered
    <3>1. ASSUME NEW q \in Processes PROVE CallsAt(q)'
      <4>1. /\ posted' = [posted EXCEPT ![segment[p]][p] = @ + 1]
            /\ UNCHANGED <<thread, segment, counter, posting, known, copy, first, calls>>
        BY <2>13 DEF WakeUp, threads
      <4>2. Waiting(q) => segment[q] \in Objects
        BY DEF Waiting, PlaceInv, Placed, Registered
      <4>3. Waiting(q) /\ posted[segment[q]][q] > 0 => posted'[segment[q]][q] > 0
        BY <3>0, <4>1, <4>2 DEF SharedTypeOK, Posts
      <4>4. Waiting(q) /\ Called(q) => Called(q)'
        BY <4>1, <4>3 DEF Called
      <4>5. CallsAt(q)
        BY DEF CallInv
      <4> QED BY <4>1, <4>4, <4>5, CallsFrame
    <3> QED BY <3>1 DEF CallInv
  <2>14. CASE RemoveSem(p)
    <3>1. ASSUME NEW q \in Processes, TRUE PROVE CallsAt(q)'
      <4>1. /\ thread'[q] = thread[q]
            /\ segment'[q] = segment[q] /\ counter' = counter /\ posted' = posted /\ posting' = posting
            /\ known'[q] = known[q] /\ copy'[q] = copy[q] /\ first'[q] = first[q] /\ calls'[q] = calls[q]
        BY <2>14, <3>1 DEF RemoveSem, contents, threads, Forget, SharedTypeOK
      <4>2. Called(q) => Called(q)'
        BY <4>1 DEF Called
      <4>3. CallsAt(q)
        BY DEF CallInv
      <4> QED BY <4>1, <4>2, <4>3, CallsFrame
    <3> QED BY <3>1 DEF CallInv
  <2>15. CASE Leave(p)
    <3>1. ASSUME NEW q \in Processes, q # p PROVE CallsAt(q)'
      <4>1. /\ thread'[q] = thread[q]
            /\ segment'[q] = segment[q] /\ counter' = counter /\ posted' = posted /\ posting' = posting
            /\ known'[q] = known[q] /\ copy'[q] = copy[q] /\ first'[q] = first[q] /\ calls'[q] = calls[q]
        BY <2>15, <3>1 DEF Leave, contents, threads, Forget, SharedTypeOK
      <4>2. Called(q) => Called(q)'
        BY <4>1 DEF Called
      <4>3. CallsAt(q)
        BY DEF CallInv
      <4> QED BY <4>1, <4>2, <4>3, CallsFrame
    <3>2. ~Waiting(p)'
      BY <2>15 DEF Leave, Waiting, SharedTypeOK, PlaceInv, Placed, Registered
    <3>3. CallsAt(p)'
      BY <3>2 DEF CallsAt
    <3> QED BY <3>1, <3>3 DEF CallInv
  <2>16. CASE RemoveNames(p)
    <3>1. ASSUME NEW q \in Processes, TRUE PROVE CallsAt(q)'
      <4>1. /\ thread'[q] = thread[q]
            /\ segment'[q] = segment[q] /\ counter' = counter /\ posted' = posted /\ posting' = posting
            /\ known'[q] = known[q] /\ copy'[q] = copy[q] /\ first'[q] = first[q] /\ calls'[q] = calls[q]
        BY <2>16, <3>1 DEF RemoveNames, RemoveName, contents, threads, Forget, SharedTypeOK
      <4>2. Called(q) => Called(q)'
        BY <4>1 DEF Called
      <4>3. CallsAt(q)
        BY DEF CallInv
      <4> QED BY <4>1, <4>2, <4>3, CallsFrame
    <3> QED BY <3>1 DEF CallInv
  <2>17. CASE Crash(p)
    <3>1. ASSUME NEW q \in Processes, q # p PROVE CallsAt(q)'
      <4>1. /\ thread'[q] = thread[q]
            /\ segment'[q] = segment[q] /\ counter' = counter /\ posted' = posted /\ posting' = posting
            /\ known'[q] = known[q] /\ copy'[q] = copy[q] /\ first'[q] = first[q] /\ calls'[q] = calls[q]
        BY <2>17, <3>1 DEF Crash, contents, threads, Forget, SharedTypeOK
      <4>2. Called(q) => Called(q)'
        BY <4>1 DEF Called
      <4>3. CallsAt(q)
        BY DEF CallInv
      <4> QED BY <4>1, <4>2, <4>3, CallsFrame
    <3>2. ~Waiting(p)'
      BY <2>17 DEF Crash, Waiting, SharedTypeOK, PlaceInv, Placed, Registered
    <3>3. CallsAt(p)'
      BY <3>2 DEF CallsAt
    <3> QED BY <3>1, <3>3 DEF CallInv
  <2> QED BY <1>1, <2>1, <2>2, <2>3, <2>4, <2>5, <2>6, <2>7, <2>8, <2>9, <2>10, <2>11, <2>12, <2>13,
    <2>14, <2>15, <2>16, <2>17 DEF StepOf
<1> QED BY <1>0, <1>1, SharedSteps

(***************************************************************************)
(* The inductive invariant holds initially, ...                            *)
(***************************************************************************)
LEMMA SharedInvInit ==
  ASSUME SharedAssumption, SharedDummyInit
  PROVE  SharedInv
<1>1. SharedTypeOK
  <2>1. /\ [s \in Objects |-> {}] \in [Objects -> SUBSET Processes]
        /\ [s \in Objects |-> 0] \in [Objects -> {0, 1}]
        /\ [s \in Objects |-> [p \in Processes |-> 0]] \in [Objects -> Posts]
        /\ [s \in Objects |-> [i \in Interrupts |-> 0]] \in [Objects -> Numbers]
        /\ [p \in Processes |-> [i \in Interrupts |-> 0]] \in [Processes -> Numbers]
        /\ [p \in Processes |-> 0] \in [Processes -> Names]
        /\ [k \in Kinds |-> 0] \in [Kinds -> Names]
        /\ [p \in Processes |-> FALSE] \in [Processes -> BOOLEAN]
        /\ [p \in Processes |-> {}] \in [Processes -> SUBSET Processes]
    BY SharedValues
  <2>2. /\ [p \in Processes |-> "none"] \in [Processes -> Phases]
        /\ [p \in Processes |-> "none"] \in [Processes -> {"none", "start", "wait", "copy", "handle", "ended"}]
    BY DEF Phases
  <2>3. maxMember \in Nat \ {0}
    BY DEF SharedDummyInit, SharedAssumption
  <2>4. /\ named \in [Kinds -> Names] /\ stale \subseteq Objects
        /\ pidSet \in [Objects -> SUBSET Processes] /\ semaphores \in [Objects -> SUBSET Processes]
        /\ value \in [Objects -> {0, 1}]
        /\ posted \in [Objects -> Posts] /\ counter \in [Objects -> Numbers]
    BY <2>1 DEF SharedDummyInit
  <2>5. /\ phase \in [Processes -> Phases]
        /\ thread \in [Processes -> {"none", "start", "wait", "copy", "handle", "ended"}]
        /\ segment \in [Processes -> Names] /\ mutex \in [Processes -> Names]
        /\ stop \in [Processes -> BOOLEAN] /\ posting \in [Processes -> SUBSET Processes]
    BY <2>1, <2>2 DEF SharedDummyInit
  <2>6. /\ known \in [Processes -> Numbers] /\ copy \in [Processes -> Numbers]
        /\ first \in [Processes -> Numbers] /\ calls \in [Processes -> Numbers]
    BY <2>1 DEF SharedDummyInit
  <2> QED BY <2>3, <2>4, <2>5, <2>6 DEF SharedTypeOK
<1>2. PlaceInv /\ AloneInv /\ NameInv /\ MutexInv /\ OwnerInv
  BY DEF SharedDummyInit, PlaceInv, Placed, AloneInv, NameInv, MutexInv, OwnerInv, Registered,
    Constructing,
    Removing, Alive
<1>3. FitInv
  <2>1. ASSUME NEW s \in Objects PROVE semaphores[s] \cup pidSet[s] = {}
    BY DEF SharedDummyInit
  <2>2. Cardinality({}) = 0
    BY FS_EmptySet
  <2>3. ASSUME NEW s \in Objects PROVE Cardinality(semaphores[s] \cup pidSet[s]) <= maxMember
    <3>1. Cardinality(semaphores[s] \cup pidSet[s]) = 0
      BY <2>1, <2>2
    <3> QED BY <1>1, <3>1 DEF SharedTypeOK
  <2> QED BY <2>3 DEF FitInv
<1>4. ThreadInv /\ CallInv
  BY DEF SharedDummyInit, ThreadInv, ThreadAt, CallInv, CallsAt, Waiting
<1> QED BY <1>1, <1>2, <1>3, <1>4 DEF SharedInv

(***************************************************************************)
(* ... is kept by every step, ...                                          *)
(***************************************************************************)
LEMMA SharedInvStep ==
  ASSUME SharedAssumption, ~Overlap, SharedInv, [SharedDummyNext]_sharedDummyVars
  PROVE  SharedInv'
BY SharedTypeStep, PlaceStep, AloneStep, NameStep, MutexStep, FitStep, OwnerStep, ThreadStep, CallsStep
  DEF SharedInv

(***************************************************************************)
(* ... and implies what the processes are promised.                        *)
(***************************************************************************)
LEMMA SharedInvImplies ==
  ASSUME SharedAssumption, SharedInv
  PROVE  /\ RegistersAreShared /\ InterruptsAreDispatched /\ SemaphoresAreFree
         /\ NothingIsLeft /\ StoppedThreadsWakeUp
<1> USE DEF SharedInv
<1>1. RegistersAreShared
  <2>1. ASSUME NEW p \in Processes, Member(p)
        PROVE  /\ segment[p] = named["segment"]
               /\ Locks(p) => mutex[p] = named["mutex"]
    <3>1. segment[p] \in Objects
      BY <2>1, Named DEF Member, SharedTypeOK
    <3>2. Registered(p)
      BY <2>1, <3>1 DEF Member, Alive, PlaceInv, Placed
    <3> QED BY <3>2 DEF PlaceInv, Placed, MutexInv, Locks
  <2> QED BY <2>1 DEF RegistersAreShared
<1>2. InterruptsAreDispatched
  <2>1. ASSUME NEW p \in Processes, AtRest(p), NEW i \in Interrupts
        PROVE  LET triggered == counter[segment[p]][i] - first[p][i] IN
               /\ first[p][i] > 0 => calls[p][i] = triggered
               /\ triggered > 0 => calls[p][i] > 0
    <3>1. Waiting(p) /\ segment[p] \in Objects
      BY <2>1 DEF AtRest, Waiting, PlaceInv, Placed, Registered
    <3>2. ~Called(p)
      BY <2>1, <3>1 DEF AtRest, Called, SharedTypeOK, Posts
    <3>3. /\ first[p][i] <= known[p][i] /\ known[p][i] = counter[segment[p]][i]
          /\ first[p][i] > 0 => calls[p][i] = known[p][i] - first[p][i]
          /\ known[p][i] > first[p][i] => calls[p][i] > 0
      BY <2>1, <3>1, <3>2 DEF CallInv, CallsAt, AtRest
    <3>4. first[p][i] \in Nat /\ known[p][i] \in Nat
      BY DEF SharedTypeOK, Numbers
    <3> QED BY <3>3, <3>4
  <2> QED BY <2>1 DEF InterruptsAreDispatched
<1>3. SemaphoresAreFree
  <2>1. ASSUME NEW p \in Processes, Alive(p), thread[p] = "start"
        PROVE  p \notin semaphores[segment[p]] /\ Cardinality(semaphores[segment[p]]) < maxMember
    <3> DEFINE S == semaphores[segment[p]]
    <3>1. segment[p] \in Objects /\ p \in pidSet[segment[p]]
      BY <2>1 DEF PlaceInv, Placed, Registered
    <3>2. p \notin S
      BY <2>1, <3>1 DEF OwnerInv, Alive
    <3>3. S \cup {p} \subseteq S \cup pidSet[segment[p]] /\ S \cup pidSet[segment[p]] \in SUBSET Processes
      BY <3>1 DEF SharedTypeOK
    <3>4. Cardinality(S \cup pidSet[segment[p]]) <= maxMember /\ maxMember \in Nat
      BY <3>1 DEF FitInv, SharedTypeOK
    <3> HIDE DEF S
    <3>5. Cardinality(S \cup {p}) <= maxMember
      BY <3>3, <3>4, Fewer
    <3>6. IsFiniteSet(S)
      BY <3>3, FS_Subset DEF SharedAssumption
    <3>7. Cardinality(S) \in Nat /\ Cardinality(S \cup {p}) = Cardinality(S) + 1
      BY <3>2, <3>6, FS_AddElement, FS_CardinalityType
    <3>8. Cardinality(S) < maxMember
      BY <3>4, <3>5, <3>7
    <3> QED BY <3>2, <3>8 DEF S
  <2> QED BY <2>1 DEF SemaphoresAreFree
<1>4. NothingIsLeft
  BY DEF NameInv, NothingIsLeft
<1>5. StoppedThreadsWakeUp
  BY DEF ThreadInv, ThreadAt, StoppedThreadsWakeUp
<1> QED BY <1>1, <1>2, <1>3, <1>4, <1>5

(***************************************************************************)
(* The registers are reset only by a process which is alone: a new segment is *)
(* used by nobody, and the memory is initialised again only when all which *)
(* have registered there are dead.                                         *)
(***************************************************************************)
LEMMA RegistersKept ==
  ASSUME SharedAssumption, SharedInv, [SharedDummyNext]_sharedDummyVars
  PROVE  KeepsRegisters
<1> USE DEF SharedInv
<1> SUFFICES ASSUME NEW o \in Objects, value[o] = 1, value'[o] = 0,
                    NEW q \in Processes, Alive(q), q \in pidSet[o]
             PROVE  FALSE
  BY DEF KeepsRegisters
<1>0. Registered(q) /\ segment[q] = o
  BY DEF PlaceInv, Placed, Alive
<1>1. PICK p \in Processes : StepOf(p)
  BY SharedSteps DEF Same, sharedDummyVars, contents
<1>2. OpenSegment(p) \/ Register(p)
  <2>1. value' # value
    OBVIOUS
  <2>2. CASE Write(p)
    <3>1. value' = [value EXCEPT ![segment[p]] = 1]
      BY <2>2 DEF Write
    <3> QED BY <3>1 DEF SharedTypeOK
  <2>3. CASE ~Write(p)
    <3>1. OpenMutex(p) \/ Timeout(p) \/ StartThread(p) \/ WaitForSem(p) \/ Copy(p) \/ Handle(p)
          \/ (\E i \in Interrupts : Trigger(p, i)) \/ Post(p) \/ Stop(p) \/ WakeUp(p) \/ RemoveSem(p)
          \/ Leave(p) \/ RemoveNames(p) \/ Crash(p) => value' = value
      BY DEF OpenMutex, Timeout, StartThread, WaitForSem, Copy, Handle, Trigger, Post, Stop, WakeUp,
        RemoveSem, Leave, RemoveNames, RemoveName, Crash, contents
    <3> QED BY <1>1, <2>1, <2>3, <3>1 DEF StepOf
  <2> QED BY <2>2, <2>3
<1>3. CASE OpenSegment(p)
  <2> DEFINE s == CHOOSE u \in Unused("segment") : TRUE
  <2>1. named["segment"] = 0
    BY <1>3 DEF OpenSegment, contents
  <2>2. s \in Objects /\ \A r \in Processes : Alive(r) => segment[r] # s
    BY <1>3, <2>1, UnusedSegment DEF OpenSegment
  <2>3. value' = [value EXCEPT ![s] = 0]
    BY <1>3, <2>1 DEF OpenSegment
  <2> HIDE DEF s
  <2> QED BY <1>0, <2>2, <2>3 DEF SharedTypeOK
<1>4. CASE Register(p)
  <2>1. segment[p] \in Objects
    BY <1>4 DEF Register, PlaceInv, Placed, Constructing
  <2>2. o = segment[p] /\ ReInitRequired(o)
    BY <1>4, <2>1 DEF Register, SharedTypeOK
  <2>3. phase[q] = "dead"
    BY <2>2 DEF ReInitRequired, Existing
  <2> QED BY <2>3 DEF Alive
<1> QED BY <1>2, <1>3, <1>4

(***************************************************************************)
(* The backends of all processes use the same registers and the same mutex, a *)
(* thread at rest has dispatched the interrupts, addSem() finds a free entry, *)
(* nothing is left behind by the last process, and no destructor waits for a *)
(* thread which sleeps: for every set of processes and of interrupts and every *)
(* number of members and of crashes, provided that constructors do not overlap *)
(* with other constructors and destructors.                                *)
(***************************************************************************)
THEOREM SharedRegisters ==
  ASSUME SharedAssumption, ~Overlap
  PROVE  SharedDummySpec =>
           [](/\ RegistersAreShared /\ InterruptsAreDispatched /\ SemaphoresAreFree
              /\ NothingIsLeft /\ StoppedThreadsWakeUp)
<1>1. SharedDummyInit => SharedInv
  BY SharedInvInit
<1>2. SharedInv /\ [SharedDummyNext]_sharedDummyVars => SharedInv'
  BY SharedInvStep
<1>3. SharedInv => /\ RegistersAreShared /\ InterruptsAreDispatched /\ SemaphoresAreFree
                   /\ NothingIsLeft /\ StoppedThreadsWakeUp
  BY SharedInvImplies
<1> QED BY <1>1, <1>2, <1>3, PTL DEF SharedDummySpec

(***************************************************************************)
(* checkPidSetConsistency() lets a process initialise the registers again only *)
(* when no other one uses them, also when processes crash.                 *)
(***************************************************************************)
THEOREM SharedRegistersAreKept ==
  ASSUME SharedAssumption, ~Overlap
  PROVE  SharedDummySpec => RegistersAreKept
<1>1. SharedDummyInit => SharedInv
  BY SharedInvInit
<1>2. SharedInv /\ [SharedDummyNext]_sharedDummyVars => SharedInv'
  BY SharedInvStep
<1>3. SharedInv /\ [SharedDummyNext]_sharedDummyVars => [KeepsRegisters]_sharedDummyVars
  BY RegistersKept
<1> QED BY <1>1, <1>2, <1>3, PTL DEF SharedDummySpec, RegistersAreKept

-----------------------------------------------------------------------------
(* Factory: what Devices and logical devices hold                           *)

Uris == DOMAIN Descriptor
Types == { Parsed(uri).type : uri \in Uris }
Files == UNION { MapFiles(uri) : uri \in Uris }
Records ==
  [uri : Uris \cup {""}, type : Types \cup {""}, map : Files \cup {""},
   parsed : BOOLEAN, next : Nat, targets : Seq(Nat), gone : BOOLEAN]
\* The three relations between the backends, the weak pointers to them and the
\* Devices hold between the steps and while createBackend() is in a step: all are
\* the backends, found the weak pointers, devices what the Devices hold.
FactoryType(all, found, devices) ==
  /\ all \in Seq(Records) /\ found \in [DOMAIN found -> Nat] /\ devices \in [Handles -> Nat]

\* The backend is the one which the factory finds by its URI.
Living(all, found, b) ==
  /\ b \in DOMAIN all /\ ~all[b].gone
  /\ all[b].uri \in DOMAIN found /\ found[all[b].uri] = b

\* Devices and logical devices hold backends which the factory finds.
HeldInv(all, found, devices) ==
  /\ \A h \in Handles : devices[h] # 0 => Living(all, found, devices[h])
  /\ \A b \in DOMAIN all : \A i \in DOMAIN all[b].targets :
       Living(all, found, all[b].targets[i]) /\ MayUse(all[b].uri, all[all[b].targets[i]].uri)

FoundInv(all, found) ==
  \A uri \in DOMAIN found :
    found[uri] \in DOMAIN all /\ (all[found[uri]].gone \/ all[found[uri]].uri = uri)

\* What a backend was created as, and how far parse() has come.
Created(b) ==
  IF b.gone THEN b.next = 0 /\ b.targets = <<>>
  ELSE /\ b.uri \in Uris /\ b.type = Parsed(b.uri).type /\ b.map \in MapFiles(b.uri)
       /\ IsLogical(b) => b.map # ""
       /\ b.next # 0 => IsLogical(b) /\ b.next \in DOMAIN Targets[b.map]
CreatedInv(all) == \A b \in DOMAIN all : Created(all[b])

Consistent(all, found, devices) ==
  FactoryType(all, found, devices) /\ HeldInv(all, found, devices) /\ FoundInv(all, found) /\ CreatedInv(all)

FactoryInv == Consistent(backends, existing, handle)

\* Whoever is held by anybody is alive and found by the factory.
LEMMA OneIsHeld ==
  ASSUME FactoryInv, NEW b \in Nat \ {0}, Held(b)
  PROVE  Living(backends, existing, b)
<1>1. CASE \E h \in Handles : handle[h] = b BY <1>1 DEF FactoryInv, Consistent, HeldInv
<1>2. CASE \E c \in DOMAIN backends : ~backends[c].gone /\ b \in ToSet(backends[c].targets)
  BY <1>2 DEF FactoryInv, Consistent, HeldInv, ToSet
<1> QED BY <1>1, <1>2 DEF Held

\* Whoever is held is found by its URI, so there are not two of them; and of
\* those which are left one is the target of no other one, so nobody holds it.
LEMMA FactoryInvImplies == FactoryAssumption /\ FactoryInv => OneBackendPerUri /\ NothingIsKept
<1> SUFFICES ASSUME FactoryAssumption, FactoryInv PROVE OneBackendPerUri /\ NothingIsKept
  OBVIOUS
<1>1. OneBackendPerUri
  <2>1. \A b \in DOMAIN backends : b \in Nat \ {0} BY DEF FactoryInv, Consistent, FactoryType
  <2>2. \A b \in DOMAIN backends : Held(b) => Living(backends, existing, b) BY <2>1, OneIsHeld
  <2> QED BY <2>2 DEF OneBackendPerUri, Living
<1>2. NothingIsKept
  <2> SUFFICES ASSUME \A h \in Handles : handle[h] = 0,
                      \A b \in DOMAIN backends : ~Held(b) => backends[b].gone,
                      NEW left \in DOMAIN backends, ~backends[left].gone
               PROVE  FALSE
    BY DEF NothingIsKept
  <2> DEFINE Kept == { b \in DOMAIN backends : ~backends[b].gone }
             S == { backends[b].uri : b \in Kept }
  <2>1. S \in SUBSET Uris /\ S # {} BY DEF FactoryInv, Consistent, CreatedInv, Created
  <2>2. PICK target \in S : \A uri \in S : ~MayUse(uri, target)
    BY <2>1 DEF FactoryAssumption, Uris
  <2>3. PICK b \in Kept : backends[b].uri = target BY <2>2
  <2>4. b \in Nat \ {0} BY DEF FactoryInv, Consistent, FactoryType
  <2>5. PICK c \in DOMAIN backends : ~backends[c].gone /\ b \in ToSet(backends[c].targets)
    BY <2>3, <2>4 DEF Held
  <2>6. MayUse(backends[c].uri, backends[b].uri) BY <2>5 DEF FactoryInv, Consistent, HeldInv, ToSet
  <2> QED BY <2>2, <2>3, <2>5, <2>6
<1> QED BY <1>1, <1>2

\* A set of natural numbers has a least element: the intervals up to its
\* elements are finite, and strict inclusion is well-founded on finite sets.
LEMMA FirstOfAll ==
  ASSUME NEW T, T \subseteq Nat, T # {}
  PROVE  \E m \in T : \A n \in T : m <= n
<1> DEFINE R == StrictSubsetOrdering(Nat)
           Intervals == { 1 .. n : n \in T }
<1>1. IsWellFoundedOn(R, FiniteSubsetsOf(Nat)) BY FS_StrictSubsetOrderingWellFounded
<1>2. Intervals \subseteq FiniteSubsetsOf(Nat) /\ Intervals # {}
  <2>1. \A n \in T : 1 .. n \in SUBSET Nat /\ IsFiniteSet(1 .. n) BY FS_Interval
  <2> QED BY <2>1 DEF FiniteSubsetsOf
<1>3. PICK x \in Intervals : \A y \in Intervals : ~(<<y, x>> \in R)
  <2> HIDE DEF R, Intervals
  <2> QED BY <1>1, <1>2, WFMin
<1>4. PICK m \in T : x = 1 .. m OBVIOUS
<1>5. ASSUME NEW n \in T, n < m PROVE FALSE
  <2>1. 1 .. n \subseteq 1 .. m /\ m \in 1 .. m /\ m \notin 1 .. n BY <1>5
  <2>2. 1 .. n \in SUBSET Nat /\ 1 .. m \in SUBSET Nat OBVIOUS
  <2>3. <<1 .. n, 1 .. m>> \in R BY <2>1, <2>2 DEF StrictSubsetOrdering
  <2> QED BY <1>3, <1>4, <2>3
<1> QED BY <1>5

\* What a name stands for: a line with the alias, or its own URI.
LEMMA NameIsLocated ==
  ASSUME FactoryAssumption, NEW name, LookUp(name) # NoEntry
  PROVE  /\ LookUp(name).uri \in Uris /\ LookUp(name).uri \in Located(name)
         /\ LookUp(name).mapFile \in MapFiles(LookUp(name).uri)
<1>1. CASE name \in Uris /\ Descriptor[name].form \in {"cdd", "sdm"}
  <2>1. LookUp(name) = [uri |-> name, mapFile |-> ""] BY <1>1 DEF LookUp, Uris
  <2>2. "" \in MapFiles(name) /\ name \in Located(name) BY DEF MapFiles, Located
  <2>4. name \in Uris BY <1>1
  <2>5. PICK entry : entry = LookUp(name) OBVIOUS
  <2>6. entry = [uri |-> name, mapFile |-> ""] BY <2>1, <2>5
  <2>7. entry.uri = name /\ entry.mapFile = "" BY <2>6
  <2> QED BY <2>2, <2>4, <2>5, <2>7
<1>2. CASE ~(name \in Uris /\ Descriptor[name].form \in {"cdd", "sdm"})
  <2>1. LookUp(name) = AliasLookUp(name) BY <1>2 DEF LookUp, Uris
  <2>2. CanBeParsed(dMapFile)
    <3>1. ASSUME ~CanBeParsed(dMapFile) PROVE FALSE
      <4>1. { i \in DOMAIN <<>> : <<>>[i].alias = name } = {} OBVIOUS
      <4> QED BY <2>1, <3>1, <4>1 DEF AliasLookUp
    <3> QED BY <3>1
  <2> DEFINE lines == DMap[dMapFile].devices
             found == { i \in DOMAIN lines : lines[i].alias = name }
             least == CHOOSE i \in found : \A k \in found : i <= k
  <2>3. dMapFile \in DOMAIN DMap /\ lines \in Seq(Lines)
    BY <2>2 DEF CanBeParsed, FactoryAssumption, Uris
  <2>4. found # {} /\ LookUp(name) = [uri |-> lines[least].uri, mapFile |-> lines[least].mapFile]
    BY <2>1, <2>2 DEF AliasLookUp
  <2>5. found \subseteq Nat BY <2>3
  <2>6. \E i \in found : \A k \in found : i <= k
    <3> HIDE DEF found
    <3> QED BY <2>4, <2>5, FirstOfAll
  <2>7. least \in found
    <3> HIDE DEF found
    <3> QED BY <2>6
  <2>8. PICK i \in DOMAIN lines :
          lines[i].alias = name /\ LookUp(name) = [uri |-> lines[i].uri, mapFile |-> lines[i].mapFile]
    BY <2>4, <2>7
  <2>9. PICK line : line = lines[i] OBVIOUS
  <2>10. line \in Lines
    <3> HIDE DEF lines
    <3> QED BY <2>3, <2>8, <2>9
  <2>11. line.uri \in Uris BY <2>10 DEF FactoryAssumption, Uris
  <2>12. line.alias = name /\ LookUp(name) = [uri |-> line.uri, mapFile |-> line.mapFile] BY <2>8, <2>9
  <2>13. line.uri \in Located(name) BY <2>10, <2>12 DEF Located
  <2>14. line.mapFile \in MapFiles(line.uri) BY <2>10 DEF MapFiles
  <2>15. LookUp(name).uri = line.uri /\ LookUp(name).mapFile = line.mapFile BY <2>12
  <2> QED BY <2>11, <2>13, <2>14, <2>15
<1> QED BY <1>1, <1>2

\* The backend of an entry: what it is created as.
LEMMA NewBackend ==
  ASSUME FactoryAssumption, NEW entry, entry.uri \in Uris, entry.mapFile \in MapFiles(entry.uri),
         CanBeCreated(entry), Parsed(entry.uri).type \in Types
  PROVE  /\ New(entry) \in Records /\ ~New(entry).gone /\ New(entry).next = 0 /\ New(entry).targets = <<>>
         /\ New(entry).uri = entry.uri /\ New(entry).type = Parsed(entry.uri).type
         /\ New(entry).map \in MapFiles(entry.uri)
         /\ IsLogical(New(entry)) => New(entry).map # ""
<1>1. MapFile(entry) \in MapFiles(entry.uri)
  <2> DEFINE d == Parsed(entry.uri)
             names == creators[d.type].names
             given == { i \in DOMAIN names \cap DOMAIN d.list : names[i] = "map" /\ d.list[i] # "" }
  <2>1. CASE d.form = "cdd" BY <2>1 DEF MapFile, MapFiles
  <2>2. CASE d.form # "cdd" /\ given = {} BY <2>2 DEF MapFile
  <2>3. CASE d.form # "cdd" /\ given # {}
    <3>1. PICK i \in given : MapFile(entry) = d.list[i] BY <2>3 DEF MapFile
    <3> QED BY <3>1 DEF MapFiles, ToSet
  <2> QED BY <2>1, <2>2, <2>3
<1>2. Parsed(entry.uri).type = "logicalNameMap" => MapFile(entry) # "" BY DEF CanBeCreated
<1>3. PICK type, map : type = Parsed(entry.uri).type /\ map = MapFile(entry) OBVIOUS
<1>4. PICK b : b = New(entry) OBVIOUS
<1>5. b = [uri |-> entry.uri, type |-> type, map |-> map, parsed |-> FALSE, next |-> 0, targets |-> <<>>,
           gone |-> FALSE]
  BY <1>3, <1>4 DEF New
<1>6. map \in Files BY <1>1, <1>3 DEF Files
<1>7. b \in Records
  <2>1. <<>> \in Seq(Nat) OBVIOUS
  <2>2. entry.uri \in Uris \cup {""} /\ type \in Types \cup {""} /\ map \in Files \cup {""} BY <1>3, <1>6
  <2> HIDE DEF Uris
  <2> QED BY <1>5, <2>1, <2>2 DEF Records
<1>8. b.uri = entry.uri /\ b.type = type /\ b.map = map /\ ~b.gone /\ b.next = 0 /\ b.targets = <<>> BY <1>5
<1> QED BY <1>1, <1>2, <1>3, <1>4, <1>7, <1>8 DEF IsLogical

\* A sequence with one more element.
LEMMA AppendedLast ==
  ASSUME NEW S, NEW s \in Seq(S), NEW x \in S
  PROVE  /\ Append(s, x) \in Seq(S) /\ DOMAIN Append(s, x) = 1 .. Len(s) + 1 /\ DOMAIN s = 1 .. Len(s)
         /\ Append(s, x)[Len(s) + 1] = x /\ \A i \in DOMAIN s : Append(s, x)[i] = s[i]
OBVIOUS

\* createBackend() for a name: the backend which it returns is found by its URI,
\* and those which are held still are.
LEMMA Returned ==
  ASSUME FactoryAssumption, FactoryInv, NEW name, NEW id \in 1 .. MaxBackends,
         Return(LookUp(name), id), NEW all, all = WithNew(LookUp(name), id)
  PROVE  /\ Consistent(all, existing', handle) /\ Living(all, existing', id)
         /\ all[id].uri \in Uris /\ all[id].uri \in Located(name)
         /\ \A b \in DOMAIN backends : b \in DOMAIN all /\ all[b] = backends[b]
<1> DEFINE entry == LookUp(name)
<1>1. entry # NoEntry BY DEF Return
<1>2. entry.uri \in Uris /\ entry.uri \in Located(name) /\ entry.mapFile \in MapFiles(entry.uri)
  BY <1>1, NameIsLocated
<1>3. Parsed(entry.uri).type \in Types BY <1>2 DEF Types
<1> HIDE DEF entry
<1>4. /\ backends \in Seq(Records) /\ existing \in [DOMAIN existing -> Nat] /\ handle \in [Handles -> Nat]
      /\ HeldInv(backends, existing, handle) /\ FoundInv(backends, existing) /\ CreatedInv(backends)
  BY DEF FactoryInv, Consistent, FactoryType
<1>5. \A b \in Nat \ {0} : Held(b) => Living(backends, existing, b) BY OneIsHeld
<1>8. backends \in Seq(Records) BY <1>4
<1>9. id \in Nat \ {0}
  <2>1. MaxBackends \in Nat BY DEF FactoryAssumption
  <2> QED BY <2>1
<1>6. CASE Exists(entry.uri) /\ id = existing[entry.uri] /\ UNCHANGED existing
  <2>2. Living(backends, existing, id) BY <1>5, <1>6, <1>9 DEF Exists
  <2>3. id <= Len(backends) /\ id \in DOMAIN backends BY <1>4, <2>2 DEF Living
  <2>4. all = backends BY <2>3, <1>4 DEF WithNew, entry
  <2>5. backends[id].uri = entry.uri BY <1>4, <1>6, <2>2 DEF FoundInv, Exists, Living
  <2>6. Consistent(all, existing', handle) BY <1>6, <2>4 DEF FactoryInv
  <2> QED BY <1>2, <1>6, <2>2, <2>4, <2>5, <2>6
<1>7. CASE /\ ~Exists(entry.uri) /\ CanBeCreated(entry)
           /\ id = Len(backends) + 1
           /\ existing' = [u \in DOMAIN existing \cup {entry.uri} |-> IF u = entry.uri THEN id ELSE existing[u]]
  <2>1. PICK new : new = New(entry) OBVIOUS
  <2>2. /\ new \in Records /\ ~new.gone /\ new.uri = entry.uri /\ new.targets = <<>>
        /\ new.next = 0 /\ new.type = Parsed(entry.uri).type /\ new.map \in MapFiles(entry.uri)
        /\ IsLogical(new) => new.map # ""
    BY <1>2, <1>3, <1>7, <2>1, NewBackend
  <2>3. Len(backends) \in Nat /\ id > Len(backends) BY <1>4, <1>7
  <2>4. all = Append(backends, new) BY <2>1, <2>3 DEF WithNew, entry
  <2>5. /\ all \in Seq(Records) /\ DOMAIN all = 1 .. id /\ all[id] = new
        /\ DOMAIN backends = 1 .. (id - 1) /\ \A b \in DOMAIN backends : all[b] = backends[b]
    <3> HIDE DEF Records
    <3>3. PICK s \in Seq(Records), x \in Records : s = backends /\ x = new BY <1>8, <2>2
    <3>4. /\ Append(s, x) \in Seq(Records) /\ DOMAIN Append(s, x) = 1 .. Len(s) + 1 /\ DOMAIN s = 1 .. Len(s)
          /\ Append(s, x)[Len(s) + 1] = x /\ \A i \in DOMAIN s : Append(s, x)[i] = s[i]
      BY AppendedLast
    <3>1. /\ all \in Seq(Records) /\ DOMAIN all = 1 .. Len(backends) + 1 /\ DOMAIN backends = 1 .. Len(backends)
          /\ all[Len(backends) + 1] = new /\ \A b \in DOMAIN backends : all[b] = backends[b]
      BY <2>4, <3>3, <3>4
    <3>2. id = Len(backends) + 1 /\ id - 1 = Len(backends) BY <1>7, <2>3
    <3> QED BY <3>1, <3>2
  <2>12. id \in 1 .. id BY <1>9
  <2>6. /\ existing' \in [DOMAIN existing' -> Nat] /\ existing'[entry.uri] = id /\ entry.uri \in DOMAIN existing'
        /\ \A uri \in DOMAIN existing : uri \in DOMAIN existing' /\ (uri # entry.uri => existing'[uri] = existing[uri])
        /\ \A uri \in DOMAIN existing' : uri # entry.uri => uri \in DOMAIN existing
    BY <1>4, <1>7
  <2>7. ASSUME NEW b \in Nat \ {0}, Held(b) PROVE Living(all, existing', b)
    <3>1. Living(backends, existing, b) BY <1>5, <2>7
    <3>2. backends[b].uri # entry.uri BY <1>7, <2>7, <3>1 DEF Exists, Living
    <3> QED BY <2>5, <2>6, <3>1, <3>2 DEF Living
  <2>8. HeldInv(all, existing', handle)
    <3>1. ASSUME NEW h \in Handles, handle[h] # 0 PROVE Living(all, existing', handle[h])
      <4>1. handle[h] \in Nat \ {0} /\ Held(handle[h]) BY <1>4, <3>1 DEF Held
      <4> QED BY <2>7, <4>1
    <3>2. ASSUME NEW b \in DOMAIN all, NEW i \in DOMAIN all[b].targets
          PROVE  Living(all, existing', all[b].targets[i]) /\ MayUse(all[b].uri, all[all[b].targets[i]].uri)
      <4>1. b \in DOMAIN backends /\ all[b] = backends[b]
        <5>1. DOMAIN <<>> = {} OBVIOUS
        <5>2. b # id BY <2>2, <2>5, <3>2, <5>1
        <5>3. b \in 1 .. (id - 1) BY <1>9, <2>5, <5>2
        <5> QED BY <2>5, <5>3
      <4>2. PICK c : c = all[b].targets[i] OBVIOUS
      <4>3. Living(backends, existing, c) /\ MayUse(backends[b].uri, backends[c].uri)
        BY <1>4, <4>1, <4>2 DEF HeldInv
      <4>4. c \in DOMAIN backends /\ all[c] = backends[c] /\ c \in Nat \ {0} BY <2>5, <4>3 DEF Living
      <4>5. ~backends[b].gone
        <5>1. DOMAIN <<>> = {} OBVIOUS
        <5>2. backends[b].targets # <<>> BY <3>2, <4>1, <5>1
        <5> QED BY <1>4, <4>1, <5>2 DEF CreatedInv, Created
      <4>6. Held(c) BY <4>1, <4>2, <4>5 DEF Held, ToSet
      <4> QED BY <2>7, <4>1, <4>2, <4>3, <4>4, <4>6
    <3> QED BY <3>1, <3>2 DEF HeldInv
  <2>9. FoundInv(all, existing')
    <3> SUFFICES ASSUME NEW uri \in DOMAIN existing'
                 PROVE  existing'[uri] \in DOMAIN all /\ (all[existing'[uri]].gone \/ all[existing'[uri]].uri = uri)
      BY DEF FoundInv
    <3>1. CASE uri = entry.uri
      <4>1. existing'[uri] = id /\ id \in DOMAIN all /\ all[id].uri = uri BY <2>12, <2>2, <2>5, <2>6, <3>1
      <4> QED BY <4>1
    <3>2. CASE uri # entry.uri
      <4>1. uri \in DOMAIN existing /\ existing'[uri] = existing[uri] BY <2>6, <3>2
      <4> QED BY <1>4, <2>5, <4>1 DEF FoundInv
    <3> QED BY <3>1, <3>2
  <2>10. CreatedInv(all)
    <3>1. Created(new) BY <1>2, <2>2 DEF Created
    <3> QED BY <1>4, <2>5, <3>1 DEF CreatedInv
  <2>11. Living(all, existing', id) BY <2>12, <2>2, <2>5, <2>6 DEF Living
  <2>13. Consistent(all, existing', handle)
    BY <1>4, <2>5, <2>6, <2>8, <2>9, <2>10 DEF Consistent, FactoryType
  <2>14. all[id].uri = entry.uri BY <2>2, <2>5
  <2>15. \A b \in DOMAIN backends : b \in DOMAIN all BY <2>13, <1>9, <2>5
  <2> QED BY <1>2, <2>5, <2>11, <2>13, <2>14, <2>15 DEF entry
<1> QED BY <1>6, <1>7 DEF Return, entry

\* There are no backends in the beginning.
LEMMA FactoryInvInit == FactoryInit => FactoryInv
<1> SUFFICES ASSUME FactoryInit PROVE FactoryInv
  OBVIOUS
<1>1. <<>> \in Seq(Records) /\ DOMAIN <<>> = {} OBVIOUS
<1>2. FactoryType(backends, existing, handle)
  <2>2. existing = [x \in {} |-> 0]
    <3>1. [x \in {} |-> 0] = <<>> OBVIOUS
    <3> QED BY <3>1 DEF FactoryInit
  <2>1. existing \in [DOMAIN existing -> Nat] BY <2>2
  <2> QED BY <1>1, <2>1 DEF FactoryInit, FactoryType
<1>3. /\ HeldInv(backends, existing, handle) /\ FoundInv(backends, existing) /\ CreatedInv(backends)
  BY <1>1 DEF FactoryInit, HeldInv, FoundInv, CreatedInv
<1> QED BY <1>2, <1>3 DEF FactoryInv, Consistent

\* A backend goes on with parse(): the relations remain if its targets are found.
LEMMA Changed ==
  ASSUME NEW all, NEW found, NEW devices, Consistent(all, found, devices), NEW b \in DOMAIN all,
         NEW p \in BOOLEAN, NEW n \in Nat, NEW t \in Seq(Nat),
         NEW r, r = [all[b] EXCEPT !.parsed = p, !.next = n, !.targets = t], Created(r),
         \A i \in DOMAIN t : Living(all, found, t[i]) /\ MayUse(all[b].uri, all[t[i]].uri),
         NEW new, new = [all EXCEPT ![b] = r]
  PROVE  Consistent(new, found, devices)
<1>1. all \in Seq(Records) BY DEF Consistent, FactoryType
<1>2. all[b] \in Records
  <2> HIDE DEF Records
  <2> QED BY <1>1
<1>3. r \in Records /\ r.uri = all[b].uri /\ r.gone = all[b].gone /\ r.targets = t BY <1>2 DEF Records
<1>4. /\ new \in Seq(Records) /\ DOMAIN new = DOMAIN all /\ new[b] = r
      /\ \A c \in DOMAIN all : c # b => new[c] = all[c]
  <2> HIDE DEF Records
  <2> QED BY <1>1, <1>3
<1>5. \A c \in DOMAIN all : new[c].uri = all[c].uri /\ new[c].gone = all[c].gone BY <1>3, <1>4
<1>6. \A c : Living(all, found, c) => Living(new, found, c) /\ new[c].uri = all[c].uri
  BY <1>4, <1>5 DEF Living
<1>7. HeldInv(all, found, devices) /\ FoundInv(all, found) /\ CreatedInv(all) BY DEF Consistent
<1>8. HeldInv(new, found, devices)
  <2>1. \A h \in Handles : devices[h] # 0 => Living(new, found, devices[h]) BY <1>6, <1>7 DEF HeldInv
  <2>2. ASSUME NEW c \in DOMAIN new, NEW i \in DOMAIN new[c].targets
        PROVE  Living(new, found, new[c].targets[i]) /\ MayUse(new[c].uri, new[new[c].targets[i]].uri)
    <3>1. CASE c = b
      <4>1. new[c].targets = t BY <1>3, <1>4, <3>1
      <4>2. Living(all, found, t[i]) /\ MayUse(all[b].uri, all[t[i]].uri) BY <2>2, <4>1
      <4>3. Living(new, found, t[i]) /\ new[t[i]].uri = all[t[i]].uri BY <1>6, <4>2
      <4>4. new[b].uri = all[b].uri BY <1>5
      <4> QED BY <3>1, <4>1, <4>2, <4>3, <4>4
    <3>2. CASE c # b
      <4>1. c \in DOMAIN all /\ new[c] = all[c] BY <1>4, <3>2
      <4>2. Living(all, found, all[c].targets[i]) /\ MayUse(all[c].uri, all[all[c].targets[i]].uri)
        BY <1>7, <2>2, <4>1 DEF HeldInv
      <4> QED BY <1>6, <4>1, <4>2
    <3> QED BY <3>1, <3>2
  <2> QED BY <2>1, <2>2 DEF HeldInv
<1>9. FoundInv(new, found) BY <1>4, <1>5, <1>7 DEF FoundInv
<1>10. CreatedInv(new) BY <1>4, <1>7 DEF CreatedInv
<1> QED BY <1>4, <1>8, <1>9, <1>10 DEF Consistent, FactoryType

\* What a step does to the backends, the weak pointers and the Devices: plugins
\* and dmap files leave them alone.
BackendsStep ==
  \/ UNCHANGED <<backends, existing, handle>>
  \/ \E h \in Handles : (\E name \in Aliases : CreateDevice(h, name)) \/ StartParsing(h) \/ ReleaseDevice(h)
  \/ \E b \in DOMAIN backends : CreateTarget(b) \/ Destroy(b)

LEMMA StepOfBackends == ASSUME [FactoryNext]_factoryVars PROVE BackendsStep
<1>1. CASE \E lib \in DOMAIN Library : LoadPluginLibrary(lib) BY <1>1 DEF LoadPluginLibrary, BackendsStep
<1>2. CASE \E file \in DOMAIN DMap \cup {"missing"} : SetDMapFilePath(file)
  BY <1>2 DEF SetDMapFilePath, BackendsStep
<1>3. CASE UNCHANGED factoryVars BY <1>3 DEF factoryVars, BackendsStep
<1> QED BY <1>1, <1>2, <1>3 DEF FactoryNext, BackendsStep

LEMMA FactoryInvStep ==
  ASSUME FactoryAssumption, FactoryInv, BackendsStep
  PROVE  FactoryInv'
<1>1. /\ backends \in Seq(Records) /\ handle \in [Handles -> Nat] /\ Consistent(backends, existing, handle)
      /\ HeldInv(backends, existing, handle) /\ FoundInv(backends, existing) /\ CreatedInv(backends)
  BY DEF FactoryInv, Consistent, FactoryType
<1>2. \A b \in DOMAIN backends : b \in Nat \ {0} /\ backends[b] \in Records
  <2> HIDE DEF Records
  <2> QED BY <1>1
<1>3. ASSUME Consistent(backends', existing', handle') PROVE FactoryInv' BY <1>3 DEF FactoryInv
<1>4. ASSUME UNCHANGED <<backends, existing, handle>> PROVE FactoryInv' BY <1>1, <1>3, <1>4
<1>5. ASSUME NEW h \in Handles, NEW name, CreateDevice(h, name) PROVE FactoryInv'
  <2>1. PICK id \in 1 .. MaxBackends :
          /\ Return(LookUp(name), id)
          /\ backends' = WithNew(LookUp(name), id)
          /\ handle' = [handle EXCEPT ![h] = id]
    BY <1>5 DEF CreateDevice
  <2>2. Consistent(backends', existing', handle) /\ Living(backends', existing', id) BY <2>1, Returned
  <2>3. HeldInv(backends', existing', handle')
    <3>1. \A g \in Handles : handle'[g] = IF g = h THEN id ELSE handle[g] BY <1>1, <2>1
    <3> QED BY <2>2, <3>1 DEF Consistent, HeldInv
  <2>4. handle' \in [Handles -> Nat]
    <3>1. MaxBackends \in Nat BY DEF FactoryAssumption
    <3>2. id \in Nat BY <3>1
    <3> QED BY <1>1, <2>1, <3>2
  <2> QED BY <1>3, <2>2, <2>3, <2>4 DEF Consistent, FactoryType
<1>6. ASSUME NEW h \in Handles, StartParsing(h) PROVE FactoryInv'
  <2>1. PICK b : b = handle[h] OBVIOUS
  <2>2. Living(backends, existing, b) BY <1>1, <1>6, <2>1 DEF StartParsing, HeldInv
  <2>3. PICK n : n = IF Targets[backends[b].map] = <<>> THEN 0 ELSE 1 OBVIOUS
  <2>4. n \in Nat BY <2>3
  <2>5. IsLogical(backends[b]) /\ backends' = [backends EXCEPT ![b].parsed = TRUE, ![b].next = n]
    BY <1>6, <2>1, <2>3 DEF StartParsing
  <2>6. UNCHANGED <<existing, handle>> BY <1>6 DEF StartParsing
  <2>7. b \in DOMAIN backends /\ backends[b] \in Records /\ Created(backends[b]) /\ ~backends[b].gone
    BY <1>1, <1>2, <2>2 DEF Living, CreatedInv
  <2>8. PICK r : r = [backends[b] EXCEPT !.parsed = TRUE, !.next = n, !.targets = backends[b].targets] OBVIOUS
  <2>9. /\ r.uri = backends[b].uri /\ r.type = backends[b].type /\ r.map = backends[b].map /\ r.next = n
        /\ r.gone = backends[b].gone /\ backends[b].targets \in Seq(Nat)
        /\ r = [backends[b] EXCEPT !.parsed = TRUE, !.next = n]
    BY <2>7, <2>8 DEF Records
  <2>10. backends' = [backends EXCEPT ![b] = r] BY <2>5, <2>7, <2>9
  <2>11. Created(r)
    <3>1. n # 0 => n \in DOMAIN Targets[r.map]
      <4>1. r.map \in MapFiles(r.uri) \ {""} /\ IsLogical(Parsed(r.uri)) /\ r.uri \in DOMAIN Descriptor
        BY <2>5, <2>7, <2>9 DEF Created, IsLogical, Uris
      <4>2. Targets[r.map] \in Seq(ToSet(Targets[r.map])) BY <4>1 DEF FactoryAssumption
      <4>3. Targets[r.map] # <<>> => 1 \in DOMAIN Targets[r.map] BY <4>2
      <4> QED BY <2>3, <2>9, <4>3
    <3> QED BY <2>5, <2>7, <2>9, <3>1 DEF Created, IsLogical
  <2>12. \A i \in DOMAIN backends[b].targets :
          Living(backends, existing, backends[b].targets[i])
          /\ MayUse(backends[b].uri, backends[backends[b].targets[i]].uri)
    BY <1>1, <2>7 DEF HeldInv
  <2>13. Consistent(backends', existing, handle)
    BY <1>1, <2>4, <2>7, <2>8, <2>9, <2>10, <2>11, <2>12, Changed
  <2> QED BY <1>3, <2>6, <2>13
<1>7. ASSUME NEW h \in Handles, ReleaseDevice(h) PROVE FactoryInv'
  <2>1. handle' = [handle EXCEPT ![h] = 0] /\ UNCHANGED <<backends, existing>> BY <1>7 DEF ReleaseDevice
  <2>2. handle' \in [Handles -> Nat] /\ \A g \in Handles : handle'[g] # 0 => handle'[g] = handle[g]
    BY <1>1, <2>1
  <2>3. HeldInv(backends, existing, handle') BY <1>1, <2>2 DEF HeldInv
  <2> QED BY <1>1, <1>3, <2>1, <2>2, <2>3 DEF Consistent, FactoryType
<1>8. ASSUME NEW b \in DOMAIN backends, CreateTarget(b) PROVE FactoryInv'
  <2>1. PICK at, map : at = backends[b].next /\ map = backends[b].map OBVIOUS
  <2>2. PICK name : name = Targets[map][at] OBVIOUS
  <2>3. /\ backends[b] \in Records /\ ~backends[b].gone /\ backends[b].uri \in Uris
        /\ IsLogical(Parsed(backends[b].uri)) /\ backends[b].type = Parsed(backends[b].uri).type
        /\ map \in MapFiles(backends[b].uri) \ {""} /\ at \in DOMAIN Targets[map] /\ IsLogical(backends[b])
    <3>1. Created(backends[b]) /\ at # 0 BY <1>1, <1>8, <2>1 DEF CreatedInv, CreateTarget
    <3> QED BY <1>2, <2>1, <3>1 DEF Created, IsLogical
  <2>4. handle' = handle BY <1>8 DEF CreateTarget
  <2>5. Targets[map] \in Seq(ToSet(Targets[map]))
    BY <2>3 DEF FactoryAssumption, Uris
  <2>6. PICK length \in Nat : length = Len(Targets[map]) /\ DOMAIN Targets[map] = 1 .. length BY <2>5
  <2>7. CASE \E id \in 1 .. MaxBackends :
               /\ Return(LookUp(name), id)
               /\ backends' = [WithNew(LookUp(name), id) EXCEPT
                                 ![b].targets = Append(@, id), ![b].next = IF at = length THEN 0 ELSE @ + 1]
    <3>1. PICK id \in 1 .. MaxBackends :
               /\ Return(LookUp(name), id)
               /\ backends' = [WithNew(LookUp(name), id) EXCEPT
                                 ![b].targets = Append(@, id), ![b].next = IF at = length THEN 0 ELSE @ + 1]
      BY <2>7
    <3>2. PICK all : all = WithNew(LookUp(name), id) OBVIOUS
    <3>3. /\ Consistent(all, existing', handle) /\ Living(all, existing', id)
          /\ all[id].uri \in Uris /\ all[id].uri \in Located(name)
          /\ b \in DOMAIN all /\ all[b] = backends[b]
      BY <1>8, <3>1, <3>2, Returned
    <3>4. PICK t, n : t = Append(all[b].targets, id) /\ n = IF at = length THEN 0 ELSE all[b].next + 1 OBVIOUS
    <3>5. backends' = [all EXCEPT ![b].targets = t, ![b].next = n] BY <3>1, <3>2, <3>3, <3>4
    <3>6. PICK r : r = [all[b] EXCEPT !.parsed = all[b].parsed, !.next = n, !.targets = t] OBVIOUS
    <3>7. /\ all[b].targets \in Seq(Nat) /\ all[b].next = at /\ all[b].parsed \in BOOLEAN
          /\ at \in 1 .. length /\ id \in Nat
      <4>1. MaxBackends \in Nat BY DEF FactoryAssumption
      <4>2. id \in Nat BY <4>1
      <4>3. all[b].targets \in Seq(Nat) /\ all[b].parsed \in BOOLEAN BY <2>3, <3>3 DEF Records
      <4> QED BY <2>1, <2>3, <2>6, <3>3, <4>2, <4>3
    <3>8. t \in Seq(Nat) /\ n \in Nat BY <3>4, <3>7
    <3>9. /\ r.uri = backends[b].uri /\ r.type = backends[b].type /\ r.map = map /\ r.next = n
          /\ r.gone = backends[b].gone
          /\ r = [all[b] EXCEPT !.targets = t, !.next = n]
      BY <2>1, <2>3, <3>3, <3>6 DEF Records
    <3>10. backends' = [all EXCEPT ![b] = r] BY <3>3, <3>5, <3>9
    <3>11. Created(r)
      <4>1. n # 0 => n \in DOMAIN Targets[map] BY <2>6, <3>4, <3>7
      <4> QED BY <2>3, <3>9, <4>1 DEF Created, IsLogical
    <3>12. MayUse(all[b].uri, all[id].uri)
      BY <2>2, <2>3, <3>3 DEF MayUse
    <3>13. ASSUME NEW i \in DOMAIN t PROVE Living(all, existing', t[i]) /\ MayUse(all[b].uri, all[t[i]].uri)
      <4>1. (i \in DOMAIN all[b].targets /\ t[i] = all[b].targets[i]) \/ t[i] = id BY <3>4, <3>7
      <4>2. i \in DOMAIN all[b].targets =>
              Living(all, existing', all[b].targets[i]) /\ MayUse(all[b].uri, all[all[b].targets[i]].uri)
        BY <3>3 DEF Consistent, HeldInv
      <4> QED BY <3>3, <3>12, <4>1, <4>2
    <3>14. Consistent(backends', existing', handle)
      BY <3>3, <3>6, <3>7, <3>8, <3>10, <3>11, <3>13, Changed
    <3> QED BY <1>3, <2>4, <3>14
  <2>8. CASE backends' = [backends EXCEPT ![b].next = 0] /\ existing' = existing
    <3>1. PICK r : r = [backends[b] EXCEPT !.parsed = backends[b].parsed, !.next = 0, !.targets = backends[b].targets]
      OBVIOUS
    <3>2. /\ r.uri = backends[b].uri /\ r.type = backends[b].type /\ r.map = map /\ r.next = 0
          /\ r.gone = backends[b].gone /\ backends[b].targets \in Seq(Nat) /\ backends[b].parsed \in BOOLEAN
          /\ r = [backends[b] EXCEPT !.next = 0]
      BY <2>1, <2>3, <3>1 DEF Records
    <3>3. backends' = [backends EXCEPT ![b] = r] BY <2>8, <3>2
    <3>4. Created(r) BY <2>3, <3>2 DEF Created, IsLogical
    <3>5. \A i \in DOMAIN backends[b].targets :
            Living(backends, existing, backends[b].targets[i])
            /\ MayUse(backends[b].uri, backends[backends[b].targets[i]].uri)
      BY <1>1 DEF HeldInv
    <3>6. Consistent(backends', existing, handle)
      <4>1. PICK p \in BOOLEAN, t \in Seq(Nat) : p = backends[b].parsed /\ t = backends[b].targets BY <3>2
      <4>2. r = [backends[b] EXCEPT !.parsed = p, !.next = 0, !.targets = t] BY <3>1, <4>1
      <4>3. \A i \in DOMAIN t : Living(backends, existing, t[i]) /\ MayUse(backends[b].uri, backends[t[i]].uri)
        BY <3>5, <4>1
      <4>4. PICK n \in Nat : n = 0 OBVIOUS
      <4> HIDE DEF Consistent, Created
      <4>5. r = [backends[b] EXCEPT !.parsed = p, !.next = n, !.targets = t] BY <4>2, <4>4
      <4> QED BY <1>1, <3>3, <3>4, <4>3, <4>5, Changed
    <3> QED BY <1>3, <2>4, <2>8, <3>6
  <2> QED BY <1>8, <2>1, <2>2, <2>6, <2>7, <2>8 DEF CreateTarget
<1>9. ASSUME NEW b \in DOMAIN backends, Destroy(b) PROVE FactoryInv'
  <2>1. backends' = [backends EXCEPT ![b] = Gone] /\ UNCHANGED <<existing, handle>> /\ ~Held(b) /\ ~backends[b].gone
    BY <1>9 DEF Destroy
  <2>2. Gone \in Records /\ Gone.gone /\ Gone.targets = <<>> /\ Created(Gone)
    <3>1. <<>> \in Seq(Nat) OBVIOUS
    <3> QED BY <3>1 DEF Gone, Records, Created
  <2>3. /\ backends' \in Seq(Records) /\ DOMAIN backends' = DOMAIN backends /\ backends'[b] = Gone
        /\ \A c \in DOMAIN backends : c # b => backends'[c] = backends[c]
    <3> HIDE DEF Records, Gone
    <3> QED BY <1>1, <2>1, <2>2
  <2>4. \A c : Living(backends, existing, c) /\ c # b => Living(backends', existing, c) BY <2>3 DEF Living
  <2>5. ASSUME NEW h \in Handles, handle[h] # 0 PROVE Living(backends', existing, handle[h])
    <3>1. handle[h] # b BY <2>1 DEF Held
    <3> QED BY <1>1, <2>4, <2>5, <3>1 DEF HeldInv
  <2>6. ASSUME NEW c \in DOMAIN backends', NEW i \in DOMAIN backends'[c].targets
        PROVE  Living(backends', existing, backends'[c].targets[i])
               /\ MayUse(backends'[c].uri, backends'[backends'[c].targets[i]].uri)
    <3>1. DOMAIN <<>> = {} OBVIOUS
    <3>2. c # b /\ c \in DOMAIN backends /\ backends'[c] = backends[c] BY <2>2, <2>3, <2>6, <3>1
    <3>3. PICK d : d = backends[c].targets[i] OBVIOUS
    <3>4. Living(backends, existing, d) /\ MayUse(backends[c].uri, backends[d].uri)
      BY <1>1, <2>6, <3>2, <3>3 DEF HeldInv
    <3>5. ~backends[c].gone BY <1>1, <2>6, <3>1, <3>2 DEF CreatedInv, Created
    <3>6. d # b BY <2>1, <2>6, <3>2, <3>3, <3>5 DEF Held, ToSet
    <3>7. d \in DOMAIN backends /\ backends'[d] = backends[d] BY <2>3, <3>4, <3>6 DEF Living
    <3> QED BY <2>4, <3>2, <3>3, <3>4, <3>6, <3>7
  <2>7. HeldInv(backends', existing, handle) BY <2>5, <2>6 DEF HeldInv
  <2>8. FoundInv(backends', existing)
    <3> SUFFICES ASSUME NEW uri \in DOMAIN existing
                 PROVE  /\ existing[uri] \in DOMAIN backends'
                        /\ (backends'[existing[uri]].gone \/ backends'[existing[uri]].uri = uri)
      BY DEF FoundInv
    <3>1. existing[uri] \in DOMAIN backends /\ (backends[existing[uri]].gone \/ backends[existing[uri]].uri = uri)
      BY <1>1 DEF FoundInv
    <3>2. CASE existing[uri] = b BY <2>2, <2>3, <3>1, <3>2
    <3>3. CASE existing[uri] # b BY <2>3, <3>1, <3>3
    <3> QED BY <3>2, <3>3
  <2>9. CreatedInv(backends') BY <1>1, <2>2, <2>3 DEF CreatedInv
  <2> QED BY <1>1, <1>3, <2>1, <2>3, <2>7, <2>8, <2>9 DEF Consistent, FactoryType
<1> QED BY <1>4, <1>5, <1>6, <1>7, <1>8, <1>9 DEF BackendsStep

(***************************************************************************)
(* For every dmap file, every set of descriptors and plugins and every     *)
(* number of Devices there is one backend per URI which anybody holds,     *)
(* whether a Device or a logical device has created it; and none is left   *)
(* when the application has released its Devices, if no logical device is  *)
(* its own target.                                                         *)
(***************************************************************************)
THEOREM OneBackendIsShared ==
  ASSUME FactoryAssumption
  PROVE  FactorySpec => [](OneBackendPerUri /\ NothingIsKept)
<1>1. FactoryInit => FactoryInv BY FactoryInvInit
<1>2. FactoryInv /\ [FactoryNext]_factoryVars => FactoryInv' BY StepOfBackends, FactoryInvStep
<1>3. FactoryInv => OneBackendPerUri /\ NothingIsKept BY FactoryInvImplies
<1> QED BY <1>1, <1>2, <1>3, PTL DEF FactorySpec

=============================================================================

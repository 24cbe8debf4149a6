--------------------------- MODULE MCBackends_proof ---------------------------
(***************************************************************************)
(* Proofs about the parts of MCBackends: what is proved about a module     *)
(* holds in the composition of the runs, for every value of the constants. *)
(***************************************************************************)
EXTENDS MCBackends, Sequences, TLAPS

-----------------------------------------------------------------------------
(* A behaviour keeps its part, and its steps are those of the part *)

LEMMA PartStays == ASSUME [BackendsNext]_allVars PROVE part' = part
BY DEF BackendsNext, allVars, MuxedStep, ThreadsStep, SubdeviceStep, RebotStep, ExceptionStep,
  SharedStep,
       DoubleBufferStep, MathStep, FactoryStep, ReadAnyStep, PcieStep, UnalignedStep

LEMMA PartSteps ==
  ASSUME [BackendsNext]_allVars
  PROVE  /\ part = "threads" => [EventThreads!InterruptThreadsNext]_(EventThreads!interruptThreadsVars)
         /\ part = "doubleBuffer" => [DoubleBuffers!DoubleBufferNext]_(DoubleBuffers!doubleBufferVars)
         /\ part = "math" => [Maths!MathNext]_(Maths!mathVars)
         /\ part = "pcie" => [Files!PcieNext]_(Files!pcieVars)
         /\ part = "rebot" => [Rebots!RebotNext]_(Rebots!rebotVars)
         /\ part = "subdevice" => [Subdevices!SubdeviceNext]_(Subdevices!subdeviceVars)
         /\ part = "shared" => [Shared!SharedDummyNext]_(Shared!sharedDummyVars)
         /\ part = "exception" => [Exceptions!DummyNext]_(Exceptions!dummyVars)
         /\ part = "readAny" => [AnyGroup!ReadAnyNext]_(AnyGroup!readAnyVars)
         /\ part = "factory" => [Factories!FactoryNext]_(Factories!factoryVars)
<1>1. CASE UNCHANGED allVars
  BY <1>1 DEF allVars, partVars, DoubleBuffers!doubleBufferVars, EventThreads!interruptThreadsVars,
       EventThreads!kernel, EventThreads!backend, Maths!mathVars, Maths!flags, Maths!lock, Maths!mainThread,
       Files!pcieVars, Rebots!rebotVars, Rebots!stream, Rebots!operation, Rebots!thread,
       Subdevices!subdeviceVars, Shared!sharedDummyVars, Shared!objects, Shared!contents, Shared!threads,
       Exceptions!dummyVars, AnyGroup!readAnyVars, Factories!factoryVars
<1>2. CASE BackendsNext
  BY <1>2 DEF BackendsNext, MuxedStep, ThreadsStep, SubdeviceStep, RebotStep, ExceptionStep, SharedStep,
       DoubleBufferStep, MathStep, FactoryStep, ReadAnyStep, PcieStep, UnalignedStep
<1> QED BY <1>1, <1>2

LEMMA PartInit ==
  ASSUME BackendsInit
  PROVE  /\ part = "threads" => EventThreads!InterruptThreadsInit
         /\ part = "doubleBuffer" => DoubleBuffers!DoubleBufferInit
         /\ part = "math" => Maths!MathInit
         /\ part = "pcie" => Files!PcieInit
         /\ part = "rebot" => Rebots!RebotInit
         /\ part = "subdevice" => Subdevices!SubdeviceInit
         /\ part = "shared" => Shared!SharedDummyInit
         /\ part = "exception" => Exceptions!DummyInit
         /\ part = "readAny" => AnyGroup!ReadAnyInit
         /\ part = "factory" => Factories!FactoryInit
BY DEF BackendsInit

-----------------------------------------------------------------------------
(* InterruptThreads: its invariant is one of the composition. (The proofs   *)
(* about ExceptionDummy are in the same module.)                           *)

SourceProofs == INSTANCE AsyncSources_proof WITH
  Modulus <- CounterModulus, FirstCount <- CounterStart, RemoveAnytime <- FALSE,
  MaxData <- MaxInterrupts, MaxErrors <- MaxThreadErrors,
  kind <- s1, present <- s2, data <- s3, counter <- s4, masked <- s5, pending <- s6, unread <- s7,
  lastCount <- s8, pc <- s9, exception <- s10, thread <- s11, stop <- s12, done <- s13, polled <- s14,
  terminated <- s15, errors <- s16,
  Order <- DummyAccessors, InitialValuesFail <- FALSE,
  created <- s1, isActive <- s2, hasException <- s3, pushed <- s4, activateNew <- s5, activeException <- s6,
  throwing <- s7, locked <- s8, calls <- s9

LEMMA SameThreads ==
  /\ EventThreads!InterruptThreadsInit <=> SourceProofs!InterruptThreadsInit
  /\ [EventThreads!InterruptThreadsNext]_(EventThreads!interruptThreadsVars) <=>
       [SourceProofs!InterruptThreadsNext]_(SourceProofs!interruptThreadsVars)
  /\ EventThreads!ThreadsMissNoInterrupt <=> SourceProofs!ThreadsMissNoInterrupt
  /\ EventThreads!CounterAssumption <=> SourceProofs!CounterAssumption
BY Zenon DEF EventThreads!InterruptThreadsInit, SourceProofs!InterruptThreadsInit,
  EventThreads!interruptThreadsVars, SourceProofs!interruptThreadsVars, EventThreads!kernel,
  SourceProofs!kernel, EventThreads!backend, SourceProofs!backend, EventThreads!InterruptThreadsNext,
  SourceProofs!InterruptThreadsNext, EventThreads!FileIsOpen, SourceProofs!FileIsOpen, EventThreads!Notify,
  SourceProofs!Notify, EventThreads!Interrupt, SourceProofs!Interrupt, EventThreads!ClearInterrupts,
  SourceProofs!ClearInterrupts, EventThreads!Remove, SourceProofs!Remove, EventThreads!Insert,
  SourceProofs!Insert, EventThreads!ReadCount, SourceProofs!ReadCount, EventThreads!Open,
  SourceProofs!Open, EventThreads!Activate, SourceProofs!Activate, EventThreads!Poll, SourceProofs!Poll,
  EventThreads!Activated, SourceProofs!Activated, EventThreads!OtherError, SourceProofs!OtherError,
  EventThreads!Close, SourceProofs!Close, EventThreads!Join, SourceProofs!Join, EventThreads!Goto,
  SourceProofs!Goto, EventThreads!SubtractOverflowSafe, SourceProofs!SubtractOverflowSafe,
  EventThreads!Occurred, SourceProofs!Occurred, EventThreads!ReadEvent, SourceProofs!ReadEvent,
  EventThreads!StartUio, SourceProofs!StartUio, EventThreads!StartXdma, SourceProofs!StartXdma,
  EventThreads!Check, SourceProofs!Check, EventThreads!ClearFirst, SourceProofs!ClearFirst,
  EventThreads!WaitForInterrupt, SourceProofs!WaitForInterrupt, EventThreads!Clear, SourceProofs!Clear,
  EventThreads!Distribute, SourceProofs!Distribute, EventThreads!Stopped, SourceProofs!Stopped,
  EventThreads!Fail, SourceProofs!Fail, EventThreads!Report, SourceProofs!Report, EventThreads!Thread,
  SourceProofs!Thread, EventThreads!Healthy, SourceProofs!Healthy, EventThreads!NoInterruptIsLost,
  SourceProofs!NoInterruptIsLost, EventThreads!ActivationIsNotBlocked, SourceProofs!ActivationIsNotBlocked,
  EventThreads!ThreadsMissNoInterrupt, SourceProofs!ThreadsMissNoInterrupt, EventThreads!CounterAssumption,
  SourceProofs!CounterAssumption

(***************************************************************************)
(* A waiting UIO or XDMA interrupt thread of the composition has           *)
(* distributed the newest data and left the interrupt enabled, and         *)
(* activateAsyncRead() waits for no thread which has ended.                *)
(***************************************************************************)
THEOREM InterruptsArrive == BackendsSpec => []ThreadsMissNoInterrupt
<1> DEFINE Inv == part = "threads" => SourceProofs!ThreadsInv
<1>1. BackendsInit => Inv
  BY PartInit, SameThreads, EventThreadsAssumption, SourceProofs!InvInit
<1>2. Inv /\ [BackendsNext]_allVars => Inv'
  BY PartStays, PartSteps, SameThreads, EventThreadsAssumption, SourceProofs!InvNext
<1>3. Inv => ThreadsMissNoInterrupt
  BY SameThreads, SourceProofs!InvImplies DEF ThreadsMissNoInterrupt
<1> QED BY <1>1, <1>2, <1>3, PTL DEF BackendsSpec

-----------------------------------------------------------------------------
(* DoubleBuffer, Subdevice, SharedDummy and Factory, likewise: their proofs  *)
(* are in one module                                                         *)

BackendProofs == INSTANCE Backends_proof WITH
  Readers <- BufferReaders, NoReader <- "nobody", Group <- BufferGroup, Frames <- BufferFrames,
  kind <- s1, enabled <- s2, current <- s3, frame <- s4, halves <- s5, written <- s6, owner <- s7,
  useCount <- s8, readerCount <- s9, pc <- s10, accessor <- s11, currentBuffer <- s12, half <- s13,
  failed <- s14, error <- s15, torn <- s16,
  Threads <- SubdeviceThreads, ParameterSets <- SubdeviceParameters, Registers <- SubdeviceRegisters,
  Requests <- SubdeviceRequests, Size <- SubdeviceSize, MaxRetry <- 1, Closing <- SubdeviceClosing,
  MaxAddress <- SubdeviceAddresses, Nothing <- Absent,
  parameters <- s1, range <- s2, memory <- s3, registers <- s4, hardware <- s5, targetOpen <- s6,
  opened <- s7, exception <- s8, user <- s9, buffer <- s10, area <- s11, pending <- s12, job <- s13,
  outcome <- s14, late <- s15,
  Processes <- SharedProcesses, Interrupts <- SharedInterrupts, Overlap <- FALSE, MaxMember <- SharedMembers,
  MaxCount <- SharedCounts, MaxCrashes <- SharedCrashes, MaxObjects <- SharedObjects,
  maxMember <- s1, named <- s2, stale <- s3, pidSet <- s4, value <- s5, semaphores <- s6, posted <- s7,
  counter <- s8, phase <- s9, thread <- s10, segment <- s11, mutex <- s12, stop <- s13, posting <- s14,
  known <- s15, copy <- s16, first <- s17, calls <- s18, last <- s19,
  Handles <- Devices, Aliases <- DeviceNames, DMap <- DMaps, Descriptor <- Descriptors, Library <- PluginsOf,
  BuiltIn <- BuiltInBackends, Targets <- TargetNames, MaxBackends <- DeviceBackends,
  dMapFile <- s1, creators <- s2, loaded <- s3, terminated <- s4, existing <- s5, backends <- s6,
  handle <- s7, asked <- s8

LEMMA SameDoubleBuffer ==
  /\ DoubleBuffers!DoubleBufferInit <=> BackendProofs!DoubleBufferInit
  /\ [DoubleBuffers!DoubleBufferNext]_(DoubleBuffers!doubleBufferVars) <=>
       [BackendProofs!DoubleBufferNext]_(BackendProofs!doubleBufferVars)
  /\ DoubleBuffers!FramesAreWhole <=> BackendProofs!FramesAreWhole
  /\ DoubleBuffers!DoubleBufferAssumption <=> BackendProofs!DoubleBufferAssumption
BY Zenon DEF DoubleBuffers!DoubleBufferInit, BackendProofs!DoubleBufferInit,
  DoubleBuffers!doubleBufferVars, BackendProofs!doubleBufferVars, DoubleBuffers!firmware,
  BackendProofs!firmware, DoubleBuffers!sync, BackendProofs!sync, DoubleBuffers!WriteHalf,
  BackendProofs!WriteHalf, DoubleBuffers!NextFrame, BackendProofs!NextFrame,
  DoubleBuffers!Access, BackendProofs!Access, DoubleBuffers!Advance, BackendProofs!Advance,
  DoubleBuffers!PreReadDone, BackendProofs!PreReadDone, DoubleBuffers!Acquire,
  BackendProofs!Acquire, DoubleBuffers!ReadCurrent, BackendProofs!ReadCurrent,
  DoubleBuffers!Selected, BackendProofs!Selected, DoubleBuffers!ReadFirst,
  BackendProofs!ReadFirst, DoubleBuffers!ReadSecond, BackendProofs!ReadSecond,
  DoubleBuffers!Uncount, BackendProofs!Uncount, DoubleBuffers!Enables, BackendProofs!Enables,
  DoubleBuffers!Release, BackendProofs!Release, DoubleBuffers!Recover, BackendProofs!Recover,
  DoubleBuffers!DoubleBufferNext, BackendProofs!DoubleBufferNext, DoubleBuffers!InTransfer,
  BackendProofs!InTransfer, DoubleBuffers!NeverTorn, BackendProofs!NeverTorn,
  DoubleBuffers!CountersMatch, BackendProofs!CountersMatch, DoubleBuffers!FramesAreWhole,
  BackendProofs!FramesAreWhole, DoubleBuffers!DoubleBufferAssumption,
  BackendProofs!DoubleBufferAssumption

(***************************************************************************)
(* No reader of a double buffer of the composition gets parts of two       *)
(* frames, and the counters of readers are right.                          *)
(***************************************************************************)
THEOREM FramesArrive == BackendsSpec => []FramesAreWhole
<1> DEFINE Inv == part = "doubleBuffer" => BackendProofs!DoubleBufferInv
<1>1. BackendsInit => Inv
  BY PartInit, SameDoubleBuffer, DoubleBuffersAssumption, BackendProofs!InvInit
<1>2. Inv /\ [BackendsNext]_allVars => Inv'
  BY PartStays, PartSteps, SameDoubleBuffer, DoubleBuffersAssumption, BackendProofs!InvNext
<1>3. Inv => FramesAreWhole
  BY SameDoubleBuffer, DoubleBuffersAssumption, BackendProofs!InvImplies DEF FramesAreWhole
<1> QED BY <1>1, <1>2, <1>3, PTL DEF BackendsSpec


-----------------------------------------------------------------------------
(* UnalignedWrite, whose definitions these are: for every alignment, every  *)
(* set of writers with disjoint registers and every memory, single accessors *)
(* (nobody is in a group) keep the data of their neighbours, and release the *)
(* lock. First the arithmetic of words.                                      *)

\* The start and the end of an element are multiples of the alignment.
\* A multiple of A which is smaller than another one is smaller by A.
LEMMA Multiples ==
  ASSUME NEW A \in Nat \ {0}, NEW x \in Int, NEW y \in Int, x * A < y * A
  PROVE  (x + 1) * A <= y * A
<1>1. x < y
  <2>1. SUFFICES ASSUME x >= y PROVE FALSE
    BY SMT
  <2>2. (x - y) \in Nat
    BY <2>1, SMT
  <2>3. (x - y) * A >= 0
    BY <2>2, SMT
  <2>4. QED
    BY <2>3, SMT
<1>2. (y - (x + 1)) \in Nat
  BY <1>1, SMT
<1>3. (y - (x + 1)) * A >= 0
  BY <1>2, SMT
<1>4. QED
  BY <1>3, SMT

\* Quotient and remainder of a division by the alignment.
LEMMA DivMod ==
  ASSUME NEW A \in Nat \ {0}, NEW x \in Nat
  PROVE  /\ x % A \in 0 .. (A - 1)
         /\ x \div A \in Int
         /\ x = (x \div A) * A + (x % A)
BY SMT

\* An element begins at the word of the first byte of the register and ends
\* after the word of the last one.
WholeWords(e, start, bytes) ==
  \E k, m \in Int :
    /\ e.start = k * Alignment
    /\ e.start + e.bytes = m * Alignment
    /\ start < (k + 1) * Alignment
    /\ (m - 1) * Alignment < start + bytes

\* The padded range of setAddress(): whole words which cover the register.
LEMMA Padding ==
  ASSUME NEW start \in Nat, NEW bytes \in Nat \ {0}
  PROVE  LET e == SetAddress(start, bytes)
         IN  /\ e.start \in Int /\ e.bytes \in Int
             /\ e.start <= start /\ start + bytes <= e.start + e.bytes
             /\ ~e.unaligned => e.start = start /\ e.bytes = bytes
             /\ WholeWords(e, start, bytes)
<1> DEFINE A == Alignment
           p == start % A
           padded == bytes + p
           q == padded % A
           e == SetAddress(start, bytes)
           k == start \div A
           n == padded \div A
           m == IF q = 0 THEN k + n ELSE k + n + 1
<1>1. A \in Nat \ {0}
  BY AlignmentAssumption
<1>2. /\ p \in 0 .. (A - 1) /\ k \in Int
      /\ start = k * A + p
  BY <1>1, DivMod
<1>3. padded \in Nat
  BY <1>2, SMT
<1>4. /\ q \in 0 .. (A - 1) /\ n \in Int
      /\ padded = n * A + q
  BY <1>1, <1>3, DivMod
<1>5. /\ e.start = start - p
      /\ e.bytes = IF q = 0 THEN padded ELSE padded + (A - q)
      /\ e.unaligned <=> (p > 0 \/ q # 0)
  <2> HIDE DEF p, padded, q
  <2>1. q = 0 <=> A - q = A
    BY <1>1, <1>4, SMT
  <2>2. e = [start |-> start - p, bytes |-> IF A - q # A THEN padded + (A - q) ELSE padded,
             unaligned |-> p > 0 \/ A - q # A]
    BY DEF SetAddress, p, padded, q
  <2> HIDE DEF e
  <2>3. e.start = start - p
    BY <2>2
  <2>4. e.bytes = IF A - q # A THEN padded + (A - q) ELSE padded
    BY <2>2
  <2>5. e.unaligned <=> (p > 0 \/ A - q # A)
    BY <2>2, Zenon
  <2>6. QED
    BY <2>1, <2>3, <2>4, <2>5
<1>6. m \in Int
  BY <1>2, <1>4
<1> HIDE DEF p, q, k, n, padded, e, A
<1>7. (k + 1) * A = k * A + A
  BY <1>1, <1>2, SMT
<1>8. q = 0 => m * A = k * A + n * A /\ (m - 1) * A = k * A + n * A - A
  BY <1>1, <1>2, <1>4, SMT
<1>9. q # 0 => m * A = k * A + n * A + A /\ (m - 1) * A = k * A + n * A
  BY <1>1, <1>2, <1>4, SMT
<1> HIDE DEF m
<1>10. padded = bytes + p
  BY DEF padded
<1>11. k * A \in Int /\ n * A \in Int
  BY <1>1, <1>2, <1>4, SMT
<1>12. /\ e.start = k * A
       /\ e.start + e.bytes = m * A
       /\ e.start <= start /\ start < (k + 1) * A
       /\ (m - 1) * A < start + bytes /\ start + bytes <= e.start + e.bytes
  <2>1. CASE q = 0
    BY <2>1, <1>1, <1>2, <1>4, <1>5, <1>7, <1>8, <1>10, <1>11, SMT
  <2>2. CASE q # 0
    BY <2>2, <1>1, <1>2, <1>4, <1>5, <1>7, <1>9, <1>10, <1>11, SMT
  <2>3. QED
    BY <2>1, <2>2
<1>13. e.start \in Int /\ e.bytes \in Int
  BY <1>1, <1>2, <1>3, <1>4, <1>5, SMT
<1>14. ~e.unaligned => e.start = start /\ e.bytes = bytes
  BY <1>2, <1>4, <1>5, <1>10, SMT
<1>15. QED
  BY <1>2, <1>6, <1>12, <1>13, <1>14 DEF e, A, WholeWords

-----------------------------------------------------------------------------
(* Registers and elements of single accessors *)

\* The low-level element of an accessor which is not in a group.
LEMMA ElementOfSingle ==
  ASSUME Grouped = {}, NEW w \in Writers
  PROVE  Element(w) = SetAddress(RegisterOf[w].start, RegisterOf[w].bytes)
BY DEF Element

\* The register is in the element, and an aligned element is the register.
LEMMA ElementCovers ==
  ASSUME Grouped = {}, NEW w \in Writers
  PROVE  /\ Register(w) \subseteq Addresses(Element(w))
         /\ ~Element(w).unaligned => Addresses(Element(w)) = Register(w)
         /\ Addresses(Element(w)) \subseteq Cells
         /\ RegisterOf[w].start \in Register(w)
<1> DEFINE start == RegisterOf[w].start
           bytes == RegisterOf[w].bytes
           e == Element(w)
<1>1. start \in Nat /\ bytes \in Nat \ {0}
  BY WritersAssumption
<1>2. e = SetAddress(start, bytes)
  BY ElementOfSingle
<1>3. Register(w) = start .. (start + bytes - 1)
  BY DEF Register, Addresses
<1>4. Addresses(e) \subseteq Cells
  BY <1>2, WritersAssumption
<1> HIDE DEF start, bytes, e
<1>5. /\ e.start \in Int /\ e.bytes \in Int
      /\ e.start <= start /\ start + bytes <= e.start + e.bytes
      /\ ~e.unaligned => e.start = start /\ e.bytes = bytes
  BY <1>1, <1>2, Padding
<1>6. Addresses(e) = e.start .. (e.start + e.bytes - 1)
  BY DEF Addresses
<1>7. Register(w) \subseteq Addresses(e)
  BY <1>1, <1>5, <1>3, <1>6, SMT
<1>8. ~e.unaligned => Addresses(e) = Register(w)
  BY <1>5, <1>3, <1>6
<1>9. start \in Register(w)
  BY <1>1, <1>3, SMT
<1>10. QED
  BY <1>4, <1>7, <1>8, <1>9 DEF e, start

\* No padding reaches into a register which consists of whole words: a word
\* which has a byte of one register has no byte of such a register.
LEMMA AlignedApart ==
  ASSUME Grouped = {}, NEW u \in Writers, NEW w \in Writers, u # w, ~Element(u).unaligned
  PROVE  Addresses(Element(w)) \cap Register(u) = {}
<1> DEFINE us == RegisterOf[u].start
           ub == RegisterOf[u].bytes
           ws == RegisterOf[w].start
           wb == RegisterOf[w].bytes
           e == Element(w)
           f == Element(u)
           A == Alignment
<1>1. us \in Nat /\ ub \in Nat \ {0} /\ ws \in Nat /\ wb \in Nat \ {0}
  BY WritersAssumption
<1>2. e = SetAddress(ws, wb) /\ f = SetAddress(us, ub)
  BY ElementOfSingle
<1>3. Register(u) \cap Register(w) = {}
  BY WritersAssumption DEF Register
<1>4. /\ Register(u) = us .. (us + ub - 1)
      /\ Register(w) = ws .. (ws + wb - 1)
      /\ Addresses(e) = e.start .. (e.start + e.bytes - 1)
  BY DEF Register, Addresses
<1>5. A \in Nat \ {0}
  BY AlignmentAssumption
<1> HIDE DEF us, ub, ws, wb, e, f
<1>6. PICK k \in Int, m \in Int :
        /\ e.start = k * A
        /\ e.start + e.bytes = m * A
        /\ ws < (k + 1) * A
        /\ (m - 1) * A < ws + wb
  <2>1. WholeWords(e, ws, wb)
    BY <1>1, <1>2, Padding
  <2>2. QED
    BY <2>1 DEF WholeWords
<1>7. PICK a \in Int, b \in Int :
        /\ f.start = a * A
        /\ f.start + f.bytes = b * A
  <2>1. WholeWords(f, us, ub)
    BY <1>1, <1>2, Padding
  <2>2. QED
    BY <2>1 DEF WholeWords
<1>8. f.start = us /\ f.bytes = ub
  <2>1. ~f.unaligned
    BY DEF f
  <2>2. QED
    BY <2>1, <1>1, <1>2, Padding
<1>9. e.start \in Int /\ e.bytes \in Int
  BY <1>1, <1>2, Padding
<1> HIDE DEF A
<1>10. SUFFICES ASSUME NEW c \in Addresses(e), c \in Register(u) PROVE FALSE
  BY DEF e
<1>11. /\ k * A \in Int /\ m * A \in Int /\ a * A \in Int /\ b * A \in Int
       /\ (m - 1) * A \in Int /\ (k + 1) * A \in Int
  <2>1. \A x \in Int : x * A \in Int
    BY <1>5, SMT
  <2>2. m - 1 \in Int /\ k + 1 \in Int
    BY SMT
  <2>3. QED
    BY <2>1, <2>2, Zenon
<1>12. /\ c \in Int
       /\ k * A <= c /\ c < m * A
       /\ a * A <= c /\ c < b * A
  <2>1. c \in Int /\ e.start <= c /\ c < e.start + e.bytes
    BY <1>4, <1>9, <1>10, SMT
  <2>2. us <= c /\ c < us + ub
    BY <1>1, <1>4, <1>10, SMT
  <2>3. QED
    BY <2>1, <2>2, <1>6, <1>7, <1>8
<1>13. (k + 1) * A <= b * A
  <2>1. k * A < b * A
    BY <1>12, <1>11, SMT
  <2>2. QED
    BY <2>1, <1>5, Multiples
<1>14. a * A <= (m - 1) * A
  <2>1. a * A < m * A
    BY <1>12, <1>11, SMT
  <2>2. (a + 1) * A <= m * A
    BY <2>1, <1>5, Multiples
  <2>3. (a + 1) * A = a * A + A /\ (m - 1) * A = m * A - A
    BY <1>5, SMT
  <2>4. QED
    BY <2>2, <2>3, <1>5, <1>11, SMT
<1>15. ws < us + ub
  BY <1>1, <1>6, <1>7, <1>8, <1>11, <1>13, SMT
<1>16. us < ws + wb
  BY <1>1, <1>6, <1>7, <1>8, <1>11, <1>14, SMT
<1>17. CASE ws <= us
  <2>1. us \in Register(u) /\ us \in Register(w)
    BY <1>1, <1>4, <1>16, <1>17, SMT
  <2>2. QED
    BY <2>1, <1>3
<1>18. CASE us < ws
  <2>1. ws \in Register(u) /\ ws \in Register(w)
    BY <1>1, <1>4, <1>15, <1>18, SMT
  <2>2. QED
    BY <2>1, <1>3
<1>19. QED
  BY <1>1, <1>17, <1>18, SMT

-----------------------------------------------------------------------------
(* The lock *)

Contents == Values \cup {Start}

RawTypeOK ==
  /\ DOMAIN raw = Writers
  /\ \A w \in Writers : raw[w] \in [Addresses(Element(w)) -> Contents]

\* Only a device which is open has transactions, and the owner of the lock is
\* in one: postWrite() will be passed on to its low-level element.
LockInv ==
  /\ TypeOK
  /\ RawTypeOK
  /\ \A w \in Writers :
       /\ pc[w] \in {"lock", "read", "transfer", "done"} => rawWip[w]
       /\ rawWip[w] => opened /\ pc[w] \notin {"idle", "pre"}
       /\ lock = w => pc[w] \in {"read", "transfer", "done", "failed"} /\ rawWip[w]
       /\ pc[w] = "read" => lock = w
       /\ pc[w] = "transfer" /\ Element(w).unaligned => lock = w

\* The mutex is free in the beginning.
LEMMA LockInvInit == Grouped = {} /\ Init => LockInv
<1> SUFFICES ASSUME Grouped = {}, Init PROVE LockInv
  OBVIOUS
<1>1. TypeOK
  BY DEF Init, TypeOK
<1>2. RawTypeOK
  BY DEF Init, RawTypeOK, Contents
<1>3. QED
  BY <1>1, <1>2, WritersAssumption DEF Init, LockInv

\* What the steps of the write keep of the buffers and of the memory.
LEMMA TypesKept ==
  ASSUME Grouped = {}, TypeOK, RawTypeOK, [Next]_vars
  PROVE  TypeOK' /\ RawTypeOK'
<1>1. ASSUME NEW w \in Writers, NEW v \in Values, Write(w, v)
      PROVE  TypeOK' /\ RawTypeOK'
  BY <1>1 DEF Write, TypeOK, RawTypeOK, Contents
<1>2. ASSUME NEW w \in Writers, PreWrite(w)
      PROVE  TypeOK' /\ RawTypeOK'
  BY <1>2 DEF PreWrite, TypeOK, RawTypeOK, Contents, WithOwnCells
<1>3. ASSUME NEW w \in Writers, Lock(w)
      PROVE  TypeOK' /\ RawTypeOK'
  BY <1>3 DEF Lock, TypeOK, RawTypeOK, Contents
<1>4. ASSUME NEW w \in Writers, NEW ok \in BOOLEAN, ReadBack(w, ok)
      PROVE  TypeOK' /\ RawTypeOK'
  BY <1>4, ElementCovers DEF ReadBack, TypeOK, RawTypeOK, Contents, WithOwnCells
<1>5. ASSUME NEW w \in Writers, NEW ok \in BOOLEAN, NEW arrived \in BOOLEAN, Transfer(w, ok, arrived)
      PROVE  TypeOK' /\ RawTypeOK'
  BY <1>5 DEF Transfer, TypeOK, RawTypeOK, Contents
<1>6. ASSUME NEW w \in Writers, PostWrite(w)
      PROVE  TypeOK' /\ RawTypeOK'
  BY <1>6 DEF PostWrite, TypeOK, RawTypeOK, Contents
<1>7. ASSUME NEW w \in Writers, Read(w)
      PROVE  TypeOK' /\ RawTypeOK'
  BY <1>7, ElementCovers DEF Read, TypeOK, RawTypeOK, Contents
<1>8. ASSUME Close \/ Open \/ UNCHANGED vars
      PROVE  TypeOK' /\ RawTypeOK'
  BY <1>8 DEF Close, Open, vars, TypeOK, RawTypeOK, Contents
<1>9. QED
  BY <1>1, <1>2, <1>3, <1>4, <1>5, <1>6, <1>7, <1>8 DEF Next, WriteStep

\* Every step keeps LockInv.
LEMMA LockInvStep ==
  ASSUME Grouped = {}, ~CloseAnytime, LockInv, [Next]_vars
  PROVE  LockInv'
<1>0. TypeOK' /\ RawTypeOK'
  BY TypesKept DEF LockInv
<1> USE WritersAssumption DEF LockInv, TypeOK
<1>1. ASSUME NEW w \in Writers, NEW v \in Values, Write(w, v)
      PROVE  LockInv'
  BY <1>0, <1>1 DEF Write
<1>2. ASSUME NEW w \in Writers, PreWrite(w)
      PROVE  LockInv'
  BY <1>0, <1>2 DEF PreWrite
<1>3. ASSUME NEW w \in Writers, Lock(w)
      PROVE  LockInv'
  BY <1>0, <1>3 DEF Lock
<1>4. ASSUME NEW w \in Writers, NEW ok \in BOOLEAN, ReadBack(w, ok)
      PROVE  LockInv'
  BY <1>0, <1>4 DEF ReadBack
<1>5. ASSUME NEW w \in Writers, NEW ok \in BOOLEAN, NEW arrived \in BOOLEAN, Transfer(w, ok, arrived)
      PROVE  LockInv'
  BY <1>0, <1>5 DEF Transfer
<1>6. ASSUME NEW w \in Writers, PostWrite(w)
      PROVE  LockInv'
  BY <1>0, <1>6 DEF PostWrite
<1>7. ASSUME NEW w \in Writers, Read(w)
      PROVE  LockInv'
  BY <1>0, <1>7 DEF Read
<1>8. ASSUME Close
      PROVE  LockInv'
  BY <1>0, <1>8 DEF Close
<1>9. ASSUME Open \/ UNCHANGED vars
      PROVE  LockInv'
  BY <1>0, <1>9 DEF Open, vars
<1>10. QED
  BY <1>1, <1>2, <1>3, <1>4, <1>5, <1>6, <1>7, <1>8, <1>9 DEF Next, WriteStep

(***************************************************************************)
(* _unalignedAccess is only held inside of write(), whatever has failed,   *)
(* for every set of writers, if close() is not called during a write().    *)
(***************************************************************************)
THEOREM LockReleased ==
  ASSUME Grouped = {}, ~CloseAnytime
  PROVE  Spec => []LockIsReleased
<1>1. Init => LockInv
  BY LockInvInit
<1>2. LockInv /\ [Next]_vars => LockInv'
  BY LockInvStep
<1>3. LockInv => LockIsReleased
  BY DEF LockInv, LockIsReleased, TypeOK
<1>4. QED
  BY <1>1, <1>2, <1>3, PTL DEF Spec

-----------------------------------------------------------------------------
(* The data *)

\* Before the transfer the buffer holds the new data in the register and the
\* present content of the memory around it.
DataInv ==
  \A w \in Writers :
    /\ pc[w] = "transfer" =>
         /\ \A c \in Register(w) : raw[w][c] = value[w]
         /\ \A c \in Addresses(Element(w)) \ Register(w) : raw[w][c] = mem[c]
    /\ pc[w] = "done" \/ outcome[w] = "ok" => \A c \in Register(w) : mem[c] = value[w]
    /\ outcome[w] = "ok" => pc[w] = "idle"

\* Nothing is written in the beginning.
LEMMA DataInvInit == Init => DataInv
BY DEF Init, DataInv

\* Two accessors do not transfer the padding of each other: a transfer with
\* padding needs the lock.
LEMMA TransferKeepsOthers ==
  ASSUME Grouped = {}, LockInv, DataInv,
         NEW u \in Writers, NEW ok \in BOOLEAN, NEW arrived \in BOOLEAN, Transfer(u, ok, arrived),
         NEW w \in Writers, w # u
  PROVE  /\ \A c \in Register(w) : mem'[c] = mem[c]
         /\ pc[w] = "transfer" =>
              \A c \in Addresses(Element(w)) \ Register(w) : mem'[c] = mem[c]
<1> USE DEF LockInv, TypeOK, RawTypeOK
<1>1. /\ Addresses(Element(u)) \subseteq Cells
      /\ Register(w) \subseteq Addresses(Element(w))
      /\ Addresses(Element(w)) \subseteq Cells
      /\ ~Element(u).unaligned => Addresses(Element(u)) = Register(u)
      /\ ~Element(w).unaligned => Addresses(Element(w)) = Register(w)
  BY ElementCovers
<1>2. Register(u) \cap Register(w) = {}
  BY WritersAssumption DEF Register
<1>3. DOMAIN raw[u] = Addresses(Element(u))
  OBVIOUS
<1>4. \A c \in Cells : c \notin Addresses(Element(u)) \ Register(u) /\ c \notin Register(u) => mem'[c] = mem[c]
  BY <1>3 DEF Transfer
<1>5. \A c \in Addresses(Element(u)) \ Register(u) : mem'[c] = mem[c]
  BY <1>1, <1>3 DEF Transfer, DataInv
<1>6. \A c \in Register(w) : mem'[c] = mem[c]
  BY <1>1, <1>2, <1>4, <1>5
<1>7. ASSUME pc[w] = "transfer"
      PROVE  \A c \in Addresses(Element(w)) \ Register(w) : mem'[c] = mem[c]
  <2>1. CASE Element(w).unaligned
    <3>1. lock = w
      BY <1>7, <2>1
    <3>2. pc[u] = "transfer"
      BY DEF Transfer
    <3>3. ~Element(u).unaligned
      BY <3>1, <3>2
    <3>4. Addresses(Element(w)) \cap Register(u) = {}
      BY <3>3, AlignedApart
    <3>5. QED
      BY <1>1, <1>4, <1>5, <3>4
  <2>2. CASE ~Element(w).unaligned
    BY <1>1, <2>2
  <2>3. QED
    BY <2>1, <2>2
<1>8. QED
  BY <1>6, <1>7

\* Every step keeps DataInv.
LEMMA DataInvStep ==
  ASSUME Grouped = {}, LockInv, DataInv, [Next]_vars
  PROVE  DataInv'
<1> USE DEF LockInv, TypeOK, RawTypeOK, DataInv
<1>0. \A w \in Writers :
        /\ Register(w) \subseteq Addresses(Element(w))
        /\ Addresses(Element(w)) \subseteq Cells
        /\ ~Element(w).unaligned => Addresses(Element(w)) = Register(w)
        /\ RegisterOf[w].start \in Register(w)
  BY ElementCovers
<1>1. ASSUME NEW w \in Writers, NEW v \in Values, Write(w, v)
      PROVE  DataInv'
  BY <1>1 DEF Write
<1>2. ASSUME NEW w \in Writers, PreWrite(w)
      PROVE  DataInv'
  BY <1>0, <1>2 DEF PreWrite, WithOwnCells
<1>3. ASSUME NEW w \in Writers, Lock(w)
      PROVE  DataInv'
  BY <1>3 DEF Lock
<1>4. ASSUME NEW w \in Writers, NEW ok \in BOOLEAN, ReadBack(w, ok)
      PROVE  DataInv'
  BY <1>0, <1>4 DEF ReadBack, WithOwnCells
<1>5. ASSUME NEW u \in Writers, NEW ok \in BOOLEAN, NEW arrived \in BOOLEAN, Transfer(u, ok, arrived)
      PROVE  DataInv'
  <2>1. ASSUME NEW w \in Writers, w # u
        PROVE  /\ pc'[w] = "transfer" =>
                    /\ \A c \in Register(w) : raw'[w][c] = value'[w]
                    /\ \A c \in Addresses(Element(w)) \ Register(w) : raw'[w][c] = mem'[c]
               /\ pc'[w] = "done" \/ outcome'[w] = "ok" => \A c \in Register(w) : mem'[c] = value'[w]
               /\ outcome'[w] = "ok" => pc'[w] = "idle"
    <3>1. /\ \A c \in Register(w) : mem'[c] = mem[c]
          /\ pc[w] = "transfer" =>
               \A c \in Addresses(Element(w)) \ Register(w) : mem'[c] = mem[c]
      BY <1>5, <2>1, TransferKeepsOthers
    <3>2. pc'[w] = pc[w] /\ UNCHANGED <<raw, value, outcome>>
      BY <1>5, <2>1 DEF Transfer
    <3>3. QED
      BY <3>1, <3>2
  <2>2. /\ pc'[u] \in {"done", "failed"}
        /\ pc'[u] = "done" => \A c \in Register(u) : mem'[c] = value'[u]
        /\ outcome'[u] # "ok"
    BY <1>0, <1>5 DEF Transfer
  <2>3. QED
    BY <2>1, <2>2
<1>6. ASSUME NEW w \in Writers, PostWrite(w)
      PROVE  DataInv'
  BY <1>6 DEF PostWrite
<1>7. ASSUME NEW w \in Writers, Read(w)
      PROVE  DataInv'
  BY <1>0, <1>7 DEF Read
<1>8. ASSUME Close \/ Open \/ UNCHANGED vars
      PROVE  DataInv'
  BY <1>8 DEF Close, Open, vars
<1>9. QED
  BY <1>1, <1>2, <1>3, <1>4, <1>5, <1>6, <1>7, <1>8 DEF Next, WriteStep

(***************************************************************************)
(* Written data stays in the register until it is written again, although  *)
(* other threads read and write back the words it shares with others, for  *)
(* every alignment and every set of accessors with disjoint registers.     *)
(***************************************************************************)
THEOREM WritesAreKept ==
  ASSUME Grouped = {}, ~CloseAnytime
  PROVE  Spec => []WrittenDataIsKept
<1>1. Init => LockInv /\ DataInv
  BY LockInvInit, DataInvInit
<1>2. LockInv /\ DataInv /\ [Next]_vars => LockInv' /\ DataInv'
  BY LockInvStep, DataInvStep
<1>3. DataInv => WrittenDataIsKept
  BY DEF DataInv, WrittenDataIsKept
<1>4. QED
  BY <1>1, <1>2, <1>3, PTL DEF Spec


(***************************************************************************)
(* Each behaviour of the composition is one of UnalignedWrite, whose       *)
(* variables do not change in the other parts: what is proved about it     *)
(* holds in the runs.                                                      *)
(***************************************************************************)
THEOREM UnalignedIsPart == BackendsSpec => Spec
<1>1. BackendsInit => Init
  BY DEF BackendsInit
<1>2. [BackendsNext]_allVars => [Next]_vars
  BY DEF BackendsNext, allVars, MuxedStep, ThreadsStep, SubdeviceStep, RebotStep, ExceptionStep,
    SharedStep,
     DoubleBufferStep, MathStep, FactoryStep, ReadAnyStep, PcieStep, UnalignedStep
<1> QED BY <1>1, <1>2, PTL DEF BackendsSpec, Spec

-----------------------------------------------------------------------------
(* LogicalMath and ReadAnyGroup, like InterruptThreads *)

AccessorProofs == INSTANCE Accessors_proof WITH
  Plugins <- MathPlugins, Push <- MathPush, Group <- MathGroup, Parameters <- MathParameters,
  Main <- "main", Nobody <- "nobody", NoData <- Absent, MaxVersion <- MaxMathVersion,
  mathOpen <- s1, onOpen <- s2, now <- s3, variable <- s4, seen <- s5, mutex <- s6, depth <- s7,
  mainWritten <- s8, allWritten <- s9, lastMain <- s10, skip <- s11, thrown <- s12, counter <- s13,
  result <- s14, target <- s15, mathPc <- s16, position <- s17, mainValue <- s18, updating <- s19,
  PushElements <- AnyPushElements, PollElements <- AnyPollElements, Members <- AnyMembers,
  QueueSize <- AnyQueueSize,
  MaxPushes <- AnyPushes, MaxHeld <- 1, MaxEarly <- 2, Retaining <- {FALSE},
  retains <- s1, opened <- s2, pushed <- s3, queue <- s4, pushElements <- s5, pollElements <- s6,
  linked <- s7, notifications <- s8, lastOperation <- s9, inProgress <- s10, active <- s11,
  buffer <- s12, call <- s13, fetched <- s14, polls <- s15, returned <- s16, held <- s17,
  terminated <- s18, finalisedAt <- s19, taken <- s20

LEMMA SameMath ==
  /\ Maths!MathInit <=> AccessorProofs!MathInit
  /\ [Maths!MathNext]_(Maths!mathVars) <=> [AccessorProofs!MathNext]_(AccessorProofs!mathVars)
  /\ Maths!ResultIsCurrent /\ Maths!MutexIsReleased <=> AccessorProofs!ResultsAreCurrent
  /\ Maths!MathAssumption <=> AccessorProofs!MathAssumption
BY Zenon DEF Maths!MathInit, AccessorProofs!MathInit, Maths!mathVars, AccessorProofs!mathVars, Maths!flags,
  AccessorProofs!flags, Maths!lock, AccessorProofs!lock, Maths!mainThread, AccessorProofs!mainThread,
  Maths!MathNext, AccessorProofs!MathNext, Maths!OpenMath, AccessorProofs!OpenMath, Maths!FailMath,
  AccessorProofs!FailMath, Maths!BeginMain, AccessorProofs!BeginMain, Maths!UpdateParameters,
  AccessorProofs!UpdateParameters, Maths!PreWrite, AccessorProofs!PreWrite, Maths!Transfer,
  AccessorProofs!Transfer,
  Maths!PostWrite, AccessorProofs!PostWrite, Maths!WriteParameter, AccessorProofs!WriteParameter,
  Maths!UpdateResult, AccessorProofs!UpdateResult, Maths!Step, AccessorProofs!Step, Maths!Current,
  AccessorProofs!Current, Maths!AllWritten, AccessorProofs!AllWritten, Maths!Compute, AccessorProofs!Compute,
  Maths!Quiet, AccessorProofs!Quiet, Maths!ResultIsCurrent, AccessorProofs!ResultIsCurrent,
  Maths!MutexIsReleased, AccessorProofs!MutexIsReleased, Maths!MathAssumption, AccessorProofs!MathAssumption,
  AccessorProofs!ResultsAreCurrent

(***************************************************************************)
(* The result in the target of a math plugin of the composition belongs to *)
(* the newest values, and its mutex is released.                           *)
(***************************************************************************)
THEOREM ResultsArrive == BackendsSpec => []ResultsAreCurrent
<1> DEFINE Inv == part = "math" => AccessorProofs!MathInv
<1>1. BackendsInit => Inv
  BY PartInit, SameMath, MathsAssumption, AccessorProofs!MathInvInit
<1>2. Inv /\ [BackendsNext]_allVars => Inv'
  BY PartStays, PartSteps, SameMath, MathsAssumption, AccessorProofs!MathInvStep
<1>3. Inv => ResultsAreCurrent
  BY SameMath, MathsAssumption, AccessorProofs!MathInvImplies DEF ResultsAreCurrent
<1> QED BY <1>1, <1>2, <1>3, PTL DEF BackendsSpec

\* Both instances of ReadAnyGroup say the same.
LEMMA SameAnyGroup ==
  /\ AnyGroup!ReadAnyInit <=> AccessorProofs!ReadAnyInit
  /\ [AnyGroup!ReadAnyNext]_(AnyGroup!readAnyVars) <=>
       [AccessorProofs!ReadAnyNext]_(AccessorProofs!readAnyVars)
  /\ AnyGroup!NotificationPerEntry <=> AccessorProofs!NotificationPerEntry
  /\ AnyGroup!AcceptCompletesRead <=> AccessorProofs!AcceptCompletesRead
  /\ AnyGroup!PolledIsNotOlder <=> AccessorProofs!PolledIsNotOlder
  /\ AnyGroup!GroupAssumption <=> AccessorProofs!GroupAssumption
BY Zenon DEF AnyGroup!GroupAssumption, AccessorProofs!GroupAssumption, AnyGroup!Kinds, AccessorProofs!Kinds,
  AnyGroup!appVars, AccessorProofs!appVars, AnyGroup!elementVars, AccessorProofs!elementVars,
  AnyGroup!groupVars, AccessorProofs!groupVars, AnyGroup!readAnyVars, AccessorProofs!readAnyVars,
  AnyGroup!Elements, AccessorProofs!Elements, AnyGroup!Nothing, AccessorProofs!Nothing, AnyGroup!ReadAnyInit,
  AccessorProofs!ReadAnyInit, AnyGroup!ElementsOf, AccessorProofs!ElementsOf, AnyGroup!InGroup,
  AccessorProofs!InGroup, AnyGroup!Linked, AccessorProofs!Linked, AnyGroup!isFinalised,
  AccessorProofs!isFinalised, AnyGroup!PushUpdate, AccessorProofs!PushUpdate, AnyGroup!OpenOrClose,
  AccessorProofs!OpenOrClose, AnyGroup!PreRead, AccessorProofs!PreRead, AnyGroup!PostRead,
  AccessorProofs!PostRead, AnyGroup!Readable, AccessorProofs!Readable, AnyGroup!PreReadFails,
  AccessorProofs!PreReadFails, AnyGroup!ReadNothing, AccessorProofs!ReadNothing, AnyGroup!ReadEntry,
  AccessorProofs!ReadEntry, AnyGroup!ReadDirectly, AccessorProofs!ReadDirectly, AnyGroup!Add,
  AccessorProofs!Add, AnyGroup!Complete, AccessorProofs!Complete, AnyGroup!Finalise, AccessorProofs!Finalise,
  AnyGroup!NeedPreRead, AccessorProofs!NeedPreRead, AnyGroup!FirstFails, AccessorProofs!FirstFails,
  AnyGroup!PreReadUpTo, AccessorProofs!PreReadUpTo, AnyGroup!HandlePreRead, AccessorProofs!HandlePreRead,
  AnyGroup!MayWait, AccessorProofs!MayWait, AnyGroup!MayRetain, AccessorProofs!MayRetain, AnyGroup!Wait,
  AccessorProofs!Wait, AnyGroup!GetNotification, AccessorProofs!GetNotification, AnyGroup!PopNotification,
  AccessorProofs!PopNotification, AnyGroup!WaitNonBlocking, AccessorProofs!WaitNonBlocking,
  AnyGroup!NonBlocking, AccessorProofs!NonBlocking, AnyGroup!FindNothing, AccessorProofs!FindNothing,
  AnyGroup!FindDiscarded, AccessorProofs!FindDiscarded, AnyGroup!FindUpdate, AccessorProofs!FindUpdate,
  AnyGroup!Accept, AccessorProofs!Accept, AnyGroup!Discards, AccessorProofs!Discards, AnyGroup!Accepting,
  AccessorProofs!Accepting, AnyGroup!ReadAccept, AccessorProofs!ReadAccept, AnyGroup!AcceptHeld,
  AccessorProofs!AcceptHeld, AnyGroup!DropHeld, AccessorProofs!DropHeld, AnyGroup!ProcessPolled,
  AccessorProofs!ProcessPolled, AnyGroup!ProcessPolledFails, AccessorProofs!ProcessPolledFails,
  AnyGroup!Return, AccessorProofs!Return, AnyGroup!Running, AccessorProofs!Running, AnyGroup!Continue,
  AccessorProofs!Continue, AnyGroup!ReadAnyNext, AccessorProofs!ReadAnyNext, AnyGroup!ReadAnyType,
  AccessorProofs!ReadAnyType, AnyGroup!Notified, AccessorProofs!Notified, AnyGroup!NotificationPerEntry,
  AccessorProofs!NotificationPerEntry, AnyGroup!Completed, AccessorProofs!Completed,
  AnyGroup!AcceptCompletesRead, AccessorProofs!AcceptCompletesRead, AnyGroup!PolledIsNotOlder,
  AccessorProofs!PolledIsNotOlder, AnyGroup!PushUnbounded, AccessorProofs!PushUnbounded,
  AnyGroup!PushOverwrite, AccessorProofs!PushOverwrite, AnyGroup!Cardinality, AccessorProofs!Cardinality

(***************************************************************************)
(* A ReadAnyGroup of the composition has a notification for each entry of  *)
(* the queues, has the data of the update which it returned in the         *)
(* application buffer, and has poll-type elements which are at least as    *)
(* new, for every number of elements, length of the queues and number of   *)
(* pushes.                                                                 *)
(***************************************************************************)
THEOREM GroupDataAreKept == BackendsSpec => []GroupKeepsData
<1> DEFINE Inv == part = "readAny" => AccessorProofs!ReadAnyInv
<1>1. BackendsInit => Inv
  BY PartInit, SameAnyGroup, AnyGroupAssumption, AccessorProofs!GroupInvInit
<1>2. Inv /\ [BackendsNext]_allVars => Inv'
  BY PartStays, PartSteps, SameAnyGroup, AnyGroupAssumption, AccessorProofs!GroupInvStep
<1>3. Inv => GroupKeepsData
  BY SameAnyGroup, AnyGroupAssumption, AccessorProofs!GroupInvImplies DEF GroupKeepsData
<1> QED BY <1>1, <1>2, <1>3, PTL DEF BackendsSpec

-----------------------------------------------------------------------------
(* Pcie: files, functions for the driver, and transfers, with the names of *)
(* the variables in the composition: s2 is files, s3 memory, s4 deviceID,  *)
(* s5 access, s6 opened, s7 exception, s8 buffer, and s9 outcome.          *)

FileTables == [FileDescriptors -> [of : {"nobody", "pcie"}, driver : DeviceNodes, alive : BOOLEAN]]

\* Each descriptor has an entry, and each area of the device its words.
FilesTypeOK ==
  /\ s1 \in DeviceNodes /\ s2 \in FileTables
  /\ s3 \in [Files!Areas -> [1 .. FileWords -> Int \cup FileValues]]

FilesInv ==
  FilesTypeOK /\ Files!NoFileIsLeft /\ Files!AccessFitsDriver /\ Files!TransfersAreComplete

\* Nothing is open in the beginning.
LEMMA FilesInvInit ==
  ASSUME Files!PcieInit
  PROVE  FilesInv
<1>1. Files!NoFileIsLeft /\ Files!AccessFitsDriver /\ Files!TransfersAreComplete
  BY DEF Files!PcieInit, Files!NoFileIsLeft, Files!OwnFiles, Files!NoFile, Files!AccessFitsDriver,
     Files!TransfersAreComplete, Files!Ended
<1>2. FilesTypeOK
  BY FilesAssumption DEF Files!PcieInit, FilesTypeOK, FileTables, Files!Fresh, Files!Areas,
    Files!NoFile,
     DeviceNodes
<1> QED BY <1>1, <1>2 DEF FilesInv

\* ::open(), with a table which has no file of the backend: a file which is
\* used later is the new one, and the functions are those of its driver.
LEMMA OpenNodeIsRight ==
  ASSUME NEW table \in FileTables, s1 \in DeviceNodes,
         \A d \in FileDescriptors : table[d].of # "pcie",
         Files!OpenNode(table)
  PROVE  /\ s2' \in FileTables
         /\ Files!NoFileIsLeft' /\ Files!AccessFitsDriver' /\ Files!TransfersAreComplete'
<1> DEFINE d == Files!Opens(table)
<1>1. s4' = d /\ s9'.call = "open"
  BY DEF Files!OpenNode, Files!Ended
<1>2. CASE d # -1 /\ Files!Supported(s1)
  <2>1. /\ s2' = [table EXCEPT ![d] = [of |-> "pcie", driver |-> s1, alive |-> TRUE]]
        /\ s5' = Files!AccessOf(s1) /\ s6' = TRUE
    BY <1>2 DEF Files!OpenNode
  <2>2. /\ s2' \in FileTables
        /\ \A x \in FileDescriptors : x # d => s2'[x].of # "pcie"
        /\ d \in FileDescriptors => s2'[d].driver = s1
    BY <2>1 DEF FileTables
  <2>3. Files!NoFileIsLeft' /\ Files!AccessFitsDriver'
    BY <1>1, <2>1, <2>2 DEF Files!NoFileIsLeft, Files!OwnFiles, Files!AccessFitsDriver, Files!Works
  <2> QED BY <1>1, <2>2, <2>3 DEF Files!TransfersAreComplete
<1>3. CASE ~(d # -1 /\ Files!Supported(s1))
  <2>1. s2' = table
    BY <1>3 DEF Files!OpenNode
  <2>2. Files!NoFileIsLeft' /\ Files!AccessFitsDriver'
    BY <2>1 DEF Files!NoFileIsLeft, Files!OwnFiles, Files!AccessFitsDriver, Files!Works
  <2> QED BY <1>1, <2>1, <2>2 DEF Files!TransfersAreComplete
<1> QED BY <1>2, <1>3

\* The words of a block of the memory which are read are those of the memory.
LEMMA StoredIsThere ==
  ASSUME s3 \in [Files!Areas -> [1 .. FileWords -> Int \cup FileValues]],
         NEW block \in Files!Blocks, block.area = "bar", Files!Fits(block), NEW v \in FileValues,
         NEW n \in 0 .. block.n,
         s3' = Files!Stored(block, [i \in 1 .. block.n |-> v], n)
  PROVE  /\ s3' \in [Files!Areas -> [1 .. FileWords -> Int \cup FileValues]]
         /\ n = block.n => Files!Here(block)' = [i \in 1 .. block.n |-> v]
<1> DEFINE data == [i \in 1 .. block.n |-> v]
           bar == [w \in 1 .. FileWords |->
                     IF w - block.first \in 1 .. n THEN data[w - block.first] ELSE s3["bar"][w]]
<1>1. /\ block.first \in Nat /\ block.n \in Nat /\ block.n # 0 /\ block.first + block.n <= FileWords
      /\ block.area \in Files!Areas
  BY FilesAssumption DEF Files!Blocks, Files!Fits
<1>2. s3' = [s3 EXCEPT !["bar"] = bar]
  BY DEF Files!Stored
<1>3. bar \in [1 .. FileWords -> Int \cup FileValues]
  <2>1. ASSUME NEW w \in 1 .. FileWords, w - block.first \in 1 .. n
        PROVE  data[w - block.first] = v
    BY <1>1, <2>1
  <2> QED BY <2>1 DEF Files!Areas
<1>4. s3' \in [Files!Areas -> [1 .. FileWords -> Int \cup FileValues]] /\ s3'["bar"] = bar
  BY <1>2, <1>3 DEF Files!Areas
<1>5. ASSUME n = block.n
      PROVE  Files!Here(block)' = data
  <2>1. Files!Here(block)' = SubSeq(bar, block.first + 1, block.first + block.n)
    BY <1>4 DEF Files!Here
  <2>2. \A i \in 1 .. block.n : bar[i + block.first] = v
    BY <1>1, <1>5, FilesAssumption
  <2> DEFINE a == block.first
             m == block.n
             S == Int \cup FileValues
  <2>3. a \in Nat /\ m \in Nat /\ a + m <= FileWords /\ \A i \in 1 .. m : bar[i + a] = v
    BY <1>1, <2>2
  <2> HIDE DEF bar, a, m, S
  <2>4. bar \in Seq(S) /\ Len(bar) = FileWords
    BY <1>3, FilesAssumption DEF S
  <2>5. /\ SubSeq(bar, a + 1, a + m) \in Seq(S)
        /\ Len(SubSeq(bar, a + 1, a + m)) = m
        /\ \A i \in 1 .. m : SubSeq(bar, a + 1, a + m)[i] = v
    <3>1. SubSeq(bar, a + 1, a + m) \in Seq(S)
      BY <2>3, <2>4, FilesAssumption
    <3>2. Len(SubSeq(bar, a + 1, a + m)) = m
      BY <2>3, <2>4, FilesAssumption
    <3>3. \A i \in 1 .. m : SubSeq(bar, a + 1, a + m)[i] = bar[i + a]
      BY <2>3, <2>4, FilesAssumption
    <3> QED BY <2>3, <3>1, <3>2, <3>3
  <2>6. SubSeq(bar, a + 1, a + m) = [i \in 1 .. m |-> v]
    BY <2>3, <2>5
  <2> QED BY <2>1, <2>6 DEF a, m
<1> QED BY <1>4, <1>5

\* Every step keeps FilesInv.
LEMMA FilesInvStep ==
  ASSUME FilesInv, [Files!PcieNext]_(Files!pcieVars)
  PROVE  FilesInv'
<1> USE DEF FilesInv, FilesTypeOK
<1>1. CASE Files!Open
  <2>1. CASE Files!ConnectionWorks /\ s9' = Files!Ended("open", TRUE, Files!NoBlock)
              /\ UNCHANGED <<s2, s4, s5, s6, s7>>
    BY <1>1, <2>1 DEF Files!Open, Files!NoFileIsLeft, Files!OwnFiles, Files!AccessFitsDriver,
      Files!Works,
       Files!TransfersAreComplete, Files!Ended
  <2>2. CASE Files!OpenNode(IF s6 THEN Files!Closed(s2, s4) ELSE s2)
    <3> DEFINE table == IF s6 THEN Files!Closed(s2, s4) ELSE s2
    <3>1. table \in FileTables
      BY DEF Files!Closed, Files!NoFile, FileTables, DeviceNodes
    <3>2. \A d \in FileDescriptors : table[d].of # "pcie"
      BY DEF Files!Closed, Files!NoFile, Files!NoFileIsLeft, Files!OwnFiles
    <3>3. s1' = s1 /\ s3' = s3
      BY <1>1 DEF Files!Open
    <3> HIDE DEF table
    <3>4. /\ s2' \in FileTables
          /\ Files!NoFileIsLeft' /\ Files!AccessFitsDriver' /\ Files!TransfersAreComplete'
      BY <2>2, <3>1, <3>2, OpenNodeIsRight DEF table
    <3> QED BY <3>3, <3>4
  <2> QED BY <1>1, <2>1, <2>2 DEF Files!Open
<1>2. CASE Files!CloseDevice
  BY <1>2 DEF Files!CloseDevice, Files!Closed, Files!NoFile, FileTables, DeviceNodes,
    Files!NoFileIsLeft, Files!OwnFiles,
     Files!AccessFitsDriver, Files!Works, Files!TransfersAreComplete, Files!Ended
<1>3. CASE Files!Read
  <2>1. Files!NoFileIsLeft' /\ Files!AccessFitsDriver' /\ FilesTypeOK'
    BY <1>3 DEF Files!Read, Files!NoFileIsLeft, Files!OwnFiles, Files!AccessFitsDriver, Files!Works
  <2>2. UNCHANGED <<s3, s5>>
    BY <1>3 DEF Files!Read
  <2>3. PICK block \in Files!Blocks :
          IF s7 THEN s8' = Files!Untouched(block) /\ Files!Failed("read", block) /\ UNCHANGED s10
          ELSE IF block.area = "bar" THEN Files!ReadBar(block) ELSE Files!ReadDma(block)
    BY <1>3 DEF Files!Read
  <2>4. \/ Files!Failed("read", block)
        \/ Files!Succeeded("read", block) /\ (s8' = Files!Here(block) \/ Files!SmallDma(block))
    BY <2>3 DEF Files!ReadBar, Files!ReadDma, Files!SmallDma, Files!Blocks, Files!Areas
  <2>5. Files!Here(block)' = Files!Here(block) /\ Files!SmallDma(block)' = Files!SmallDma(block)
    BY <2>2 DEF Files!Here, Files!SmallDma, Files!Small
  <2>6. Files!TransfersAreComplete'
    BY <2>4, <2>5 DEF Files!TransfersAreComplete, Files!Failed, Files!Succeeded, Files!Ended
  <2> QED BY <2>1, <2>6
<1>4. CASE Files!Write
  <2>1. Files!NoFileIsLeft' /\ Files!AccessFitsDriver' /\ UNCHANGED <<s1, s2>>
    BY <1>4 DEF Files!Write, Files!NoFileIsLeft, Files!OwnFiles, Files!AccessFitsDriver, Files!Works
  <2>2. PICK block \in Files!Blocks, v \in FileValues :
          /\ block.area = "bar" /\ Files!Fits(block)
          /\ s8' = [i \in 1 .. block.n |-> v]
          /\ \/ Files!Failed("write", block)
                /\ \/ s3' = s3
                   \/ \E n \in 0 .. block.n : s3' = Files!Stored(block, [i \in 1 .. block.n |-> v], n)
             \/ /\ Files!Succeeded("write", block)
                /\ s3' = Files!Stored(block, [i \in 1 .. block.n |-> v], block.n)
    <3>1. PICK block \in Files!Blocks, v \in FileValues :
            LET data == [i \in 1 .. block.n |-> v]
                parts == IF s5.plain = "struct" THEN 0 .. block.n - 1 ELSE {0}
            IN  /\ block.area = "bar" /\ Files!Fits(block)
                /\ s8' = data
                /\ \/ /\ s7
                      /\ Files!Failed("write", block) /\ UNCHANGED <<s3, s10>>
                   \/ /\ ~s7 /\ Files!Works
                      /\ s3' = Files!Stored(block, data, block.n)
                      /\ Files!Succeeded("write", block) /\ UNCHANGED s10
                   \/ /\ ~s7 /\ Files!MayFail /\ Files!FailureCounts
                      /\ \E done \in IF Files!Works THEN parts ELSE {0} : s3' = Files!Stored(block, data, done)
                      /\ Files!Failed("write", block)
      BY <1>4 DEF Files!Write
    <3>2. block.n \in Nat /\ 0 .. block.n - 1 \subseteq 0 .. block.n /\ {0} \subseteq 0 .. block.n
      BY FilesAssumption DEF Files!Blocks
    <3> QED BY <3>1, <3>2
  <2>3. ASSUME NEW n \in 0 .. block.n, s3' = Files!Stored(block, [i \in 1 .. block.n |-> v], n)
        PROVE  /\ s3' \in [Files!Areas -> [1 .. FileWords -> Int \cup FileValues]]
               /\ n = block.n => Files!Here(block)' = [i \in 1 .. block.n |-> v]
    BY <2>2, <2>3, StoredIsThere
  <2>4. block.n \in 0 .. block.n
    BY FilesAssumption DEF Files!Blocks
  <2>5. FilesTypeOK'
    BY <2>1, <2>2, <2>3, <2>4
  <2>6. Files!TransfersAreComplete'
    <3>1. CASE Files!Failed("write", block)
      BY <3>1 DEF Files!TransfersAreComplete, Files!Failed, Files!Ended
    <3>2. CASE Files!Succeeded("write", block) /\ s3' = Files!Stored(block, [i \in 1 .. block.n |-> v], block.n)
      <4>1. s8' = Files!Here(block)'
        BY <2>2, <2>3, <2>4, <3>2
      <4> QED BY <3>2, <4>1 DEF Files!TransfersAreComplete, Files!Succeeded, Files!Ended
    <3> QED BY <2>2, <3>1, <3>2
  <2> QED BY <2>1, <2>5, <2>6
<1>5. CASE Files!ChangeNode
  <2>1. FilesTypeOK'
    <3>1. s1' \in DeviceNodes /\ s3' \in [Files!Areas -> [1 .. FileWords -> Int \cup FileValues]]
      BY <1>5, FilesAssumption DEF Files!ChangeNode, Files!Fresh, Files!Areas
    <3>2. s2' = [d \in FileDescriptors |-> [s2[d] EXCEPT !.alive = FALSE]]
      BY <1>5 DEF Files!ChangeNode
    <3>3. s2' \in FileTables
      BY <3>2 DEF FileTables
    <3> QED BY <3>1, <3>3
  <2>2. /\ \A d \in FileDescriptors : s2'[d].of = s2[d].of /\ s2'[d].alive = FALSE
        /\ UNCHANGED <<s4, s6>> /\ s9'.call = "changed"
    BY <1>5 DEF Files!ChangeNode, Files!Ended, FileTables
  <2>3. Files!NoFileIsLeft' /\ Files!AccessFitsDriver' /\ Files!TransfersAreComplete'
    BY <2>2 DEF Files!NoFileIsLeft, Files!OwnFiles, Files!AccessFitsDriver, Files!Works,
       Files!TransfersAreComplete
  <2> QED BY <2>1, <2>3
<1>6. CASE Files!SetException
  BY <1>6 DEF Files!SetException, Files!NoFileIsLeft, Files!OwnFiles, Files!AccessFitsDriver,
    Files!Works,
     Files!TransfersAreComplete, Files!Ended
<1>7. CASE Files!OtherFile
  BY <1>7 DEF Files!OtherFile
<1>8. CASE UNCHANGED Files!pcieVars
  <2>1. UNCHANGED <<s1, s2, s3, s4, s5, s6, s7, s8, s9>>
    BY <1>8 DEF Files!pcieVars
  <2>2. Files!NoFileIsLeft' /\ Files!AccessFitsDriver' /\ FilesTypeOK'
    BY <2>1 DEF Files!NoFileIsLeft, Files!OwnFiles, Files!AccessFitsDriver, Files!Works
  <2>3. Files!TransfersAreComplete'
    BY <2>1 DEF Files!TransfersAreComplete, Files!Here, Files!SmallDma, Files!Small
  <2> QED BY <2>2, <2>3
<1> QED BY <1>1, <1>2, <1>3, <1>4, <1>5, <1>6, <1>7, <1>8 DEF Files!PcieNext

(***************************************************************************)
(* The PcieBackend leaves no file open but the one it uses, uses it the    *)
(* way its driver wants, and a transfer which returns is complete, for all *)
(* numbers of descriptors, sizes of the area and of the structures.        *)
(***************************************************************************)
THEOREM FilesAreUsed == BackendsSpec => []FilesAreUsedRightly
<1> DEFINE Inv == part = "pcie" => FilesInv
<1>1. BackendsInit => Inv
  BY PartInit, FilesInvInit
<1>2. Inv /\ [BackendsNext]_allVars => Inv'
  BY PartStays, PartSteps, FilesInvStep
<1>3. Inv => FilesAreUsedRightly
  BY DEF FilesInv, FilesAreUsedRightly
<1> QED BY <1>1, <1>2, <1>3, PTL DEF BackendsSpec

-----------------------------------------------------------------------------
(* Rebot: requests and their answers, and the sleep of the heartbeat thread. *)
(* s1 is protocol, s5 implementor, s7 unanswered, s8 answers, s9 request, *)
(* s10 holder, s11 op, s13 wordsLeft, s15 idle, s17 wake, s20 mismatch. *)

AnswerWords == {"unknown", "hello", "magic", "version", "ack", "data", "error"}
Answers == Seq([id : Nat, word : AnswerWords])

\* The holder of the mutex has sent a request which is not answered yet, or
\* reads the words of its answer, unless nothing is on its way.
NothingUnderWay == s7 = <<>> /\ s8 = <<>>
Asked ==
  /\ s10 # "nobody" /\ s8 = <<>> /\ s11 \in {"hello", "heartbeat", "read", "write"}
  /\ s7 = <<[id |-> s9, command |-> IF s11 = "heartbeat" THEN "hello" ELSE s11]>>
  /\ s11 = "heartbeat" => s13 = 3
Answered ==
  /\ s10 # "nobody" /\ s7 = <<>>
  /\ \A i \in 1 .. Len(s8) : s8[i].id = s9
  /\ \/ s11 = "hello" /\ Len(s8) = 1 /\ s8[1].word = "unknown"
     \/ s11 = "hello" /\ Len(s8) = 3 /\ s8[1].word = "hello" /\ s1 = 1
     \/ s11 = "version" /\ Len(s8) = s13 /\ s13 \in 1 .. 2 /\ s1 = 1
     \/ s11 = "heartbeat" /\ Len(s8) = s13 /\ s13 \in 1 .. 3
     \/ s11 = "read" /\ Len(s8) = 2 /\ s8[1].word = "ack" /\ s8[2].word = "data"
     \/ s11 = "read" /\ Len(s8) = 1 /\ s8[1].word \in {"data", "error"}
     \/ s11 = "write" /\ Len(s8) = 1

RebotAnswersInv ==
  /\ s1 \in {0, 1} /\ s8 \in Answers /\ s9 \in Nat /\ s20 = FALSE
  /\ s5 = 1 \/ s11 = "heartbeat" => s1 = 1
  /\ s10 = "nobody" => NothingUnderWay
  /\ NothingUnderWay \/ Asked \/ Answered

\* The heartbeat thread wakes up before half of the timeout of the server has
\* passed since the last command.
RebotSleepInv ==
  /\ s15 \in Nat /\ s17 \in Nat
  /\ s17 > 0 => s15 + s17 <= Rebots!Half + 1

LEMMA RebotInvInit ==
  ASSUME Rebots!RebotInit PROVE RebotAnswersInv /\ RebotSleepInv
BY DEF Rebots!RebotInit, RebotAnswersInv, RebotSleepInv, NothingUnderWay, Answers, Rebots!NoProtocol

LEMMA SendAsks ==
  ASSUME NEW command, NEW words, s9 \in Nat, Rebots!Send(command, words)
  PROVE  s9' \in Nat /\ s7' = <<[id |-> s9', command |-> command]>> /\ s13' = words
BY RebotsAssumption DEF Rebots!Send

\* The server answers the one request.
LEMMA ServerAnswersIt ==
  ASSUME RebotAnswersInv, Rebots!ServerAnswers
  PROVE  RebotAnswersInv'
<1> USE DEF RebotAnswersInv
<1>1. Asked
  BY DEF Rebots!ServerAnswers, NothingUnderWay, Answered
<1>2. s7[1].id = s9 /\ s7[1].command = (IF s11 = "heartbeat" THEN "hello" ELSE s11)
  BY <1>1 DEF Asked
<1>3. PICK a \in Rebots!Answer(s7[1].command) :
        s8' = s8 \o [i \in 1 .. Len(a) |-> [id |-> s7[1].id, word |-> a[i]]]
  BY DEF Rebots!ServerAnswers
<1>4. s7' = <<>> /\ UNCHANGED <<s1, s5, s9, s10, s11, s13, s20>>
  BY DEF Rebots!ServerAnswers, Rebots!operation
<1>5. \/ s11 \in {"hello", "heartbeat"} /\ s1 = 0 /\ a = <<"unknown">>
      \/ s11 \in {"hello", "heartbeat"} /\ s1 = 1 /\ a = <<"hello", "magic", "version">>
      \/ s11 = "read" /\ (a = <<"ack", "data">> \/ a = <<"error">>)
      \/ s11 = "write" /\ (a = <<"ack">> \/ a = <<"error">>)
  BY <1>1, <1>2, <1>3 DEF Asked, Rebots!Answer
<1>6. /\ a \in Seq(AnswerWords)
      /\ \/ s11 = "hello" /\ Len(a) = 1 /\ a[1] = "unknown"
         \/ s11 = "hello" /\ s1 = 1 /\ Len(a) = 3 /\ a[1] = "hello"
         \/ s11 = "heartbeat" /\ s1 = 1 /\ Len(a) = 3
         \/ s11 = "read" /\ Len(a) = 2 /\ a[1] = "ack" /\ a[2] = "data"
         \/ s11 = "read" /\ Len(a) = 1 /\ a[1] = "error"
         \/ s11 = "write" /\ Len(a) = 1
  <2>1. ASSUME NEW x \in AnswerWords, a = <<x>>
        PROVE  a \in Seq(AnswerWords) /\ Len(a) = 1 /\ a[1] = x
    BY <2>1
  <2>2. a = <<"hello", "magic", "version">> => a \in Seq(AnswerWords) /\ Len(a) = 3 /\ a[1] = "hello"
    BY DEF AnswerWords
  <2>3. a = <<"ack", "data">> => a \in Seq(AnswerWords) /\ Len(a) = 2 /\ a[1] = "ack" /\ a[2] = "data"
    BY DEF AnswerWords
  <2>4. {"unknown", "ack", "error"} \subseteq AnswerWords
    BY DEF AnswerWords
  <2> QED BY <1>1, <1>5, <2>1, <2>2, <2>3, <2>4 DEF Asked
<1>7. s8' = [i \in 1 .. Len(a) |-> [id |-> s9, word |-> a[i]]]
  BY <1>1, <1>2, <1>3, <1>6 DEF Asked
<1>8. /\ s8' \in Answers
      /\ Len(s8') = Len(a) /\ \A i \in 1 .. Len(a) : s8'[i].id = s9 /\ s8'[i].word = a[i]
  BY <1>6, <1>7 DEF Answers
<1>9. s11 = "heartbeat" => s13 = 3
  BY <1>1 DEF Asked
<1>10. s10 # "nobody"
  BY <1>1 DEF Asked
<1>11. Answered'
  BY <1>4, <1>6, <1>8, <1>9, <1>10 DEF Answered
<1> QED BY <1>4, <1>8, <1>10, <1>11

\* The holder of the mutex reads the next word.
LEMMA ReceivesIt ==
  ASSUME RebotAnswersInv, NEW t \in Rebots!Threads, Rebots!Receive(t)
  PROVE  RebotAnswersInv'
<1> USE DEF RebotAnswersInv
<1>1. /\ s10 = t /\ s8 # <<>> /\ s8' = Tail(s8) /\ s1' = s1
      /\ s20' = (s20 \/ Head(s8).id # s9) /\ Rebots!AfterWord(t, Head(s8).word)
  BY DEF Rebots!Receive
<1>2. Answered
  BY <1>1 DEF NothingUnderWay, Asked
<1>3. /\ Len(s8) \in Nat \ {0} /\ Head(s8) = s8[1]
      /\ s8' \in Answers /\ Len(s8') = Len(s8) - 1
      /\ \A i \in 1 .. Len(s8) - 1 : s8'[i] = s8[i + 1]
  BY <1>1 DEF Answers
<1>4. Head(s8).id = s9
  BY <1>2, <1>3 DEF Answered
<1>5. s20' = FALSE
  BY <1>1, <1>4, Zenon
<1>6. /\ s9' \in Nat /\ s1' \in {0, 1} /\ s8' \in Answers
      /\ Len(s8) = 1 => s8' = <<>>
  <2>1. s9' \in Nat
    BY <1>1, RebotsAssumption DEF Rebots!AfterWord, Rebots!Throw, Rebots!Send, Rebots!operation
  <2> QED BY <1>1, <1>3, <2>1 DEF Answers
<1> USE DEF NothingUnderWay
<1> DEFINE w == Head(s8).word
<1>7. CASE \/ s11 = "hello" /\ w = "unknown" /\ s5' = 0 /\ Rebots!Release /\ UNCHANGED <<s7, s9>>
           \/ s11 = "version" /\ s13 = 1 /\ s5' = 1 /\ Rebots!Release /\ UNCHANGED <<s7, s9>>
           \/ s11 = "heartbeat" /\ s13 = 1 /\ s5' = s5 /\ Rebots!Release /\ UNCHANGED <<s7, s9>>
           \/ s11 = "read" /\ w = "error" /\ s5' = s5 /\ Rebots!Release /\ UNCHANGED <<s7, s9>>
           \/ s11 = "read" /\ w \notin {"ack", "error"} /\ s5' = s5 /\ Rebots!Release /\ UNCHANGED <<s7, s9>>
           \/ s11 = "write" /\ s5' = s5 /\ Rebots!Release /\ UNCHANGED <<s7, s9>>
  <2>1. s10' = "nobody" /\ s11' = "none" /\ s7' = <<>>
    BY <1>2, <1>7 DEF Rebots!Release, Answered
  <2>2. Len(s8) = 1 /\ (s11 = "version" => s1 = 1)
    BY <1>2, <1>3, <1>7 DEF Answered
  <2> QED
    BY <1>1, <1>3, <1>5, <1>6, <1>7, <2>1, <2>2
<1>8. CASE s11 = "hello" /\ w = "hello" /\ s11' = "version" /\ s13' = 2 /\ UNCHANGED <<s5, s7, s9, s10>>
  BY <1>1, <1>2, <1>3, <1>5, <1>6, <1>8 DEF Answered
<1>9. CASE s11 \in {"version", "heartbeat"} /\ s13 > 1 /\ s13' = s13 - 1 /\ UNCHANGED <<s5, s7, s9, s10, s11>>
  BY <1>1, <1>2, <1>3, <1>5, <1>6, <1>9 DEF Answered
<1>10. CASE s11 = "read" /\ w = "ack" /\ UNCHANGED <<s5, s7, s9, s10, s11>>
  BY <1>1, <1>2, <1>3, <1>5, <1>6, <1>10 DEF Answered
<1>11. CASE /\ s11 = "write" \/ (s11 = "read" /\ w \notin {"ack", "error"})
            /\ Rebots!Send(s11, 1) /\ UNCHANGED <<s5, s10, s11>>
  <2>1. Len(s8) = 1 /\ s10' # "nobody"
    BY <1>1, <1>2, <1>3, <1>11 DEF Answered
  <2>2. s7' = <<[id |-> s9', command |-> s11]>>
    BY <1>11, SendAsks
  <2>3. Asked'
    BY <1>6, <1>11, <2>1, <2>2 DEF Asked
  <2> QED BY <1>1, <1>5, <1>6, <1>11, <2>1, <2>3
<1> HIDE DEF RebotAnswersInv, NothingUnderWay
<1> QED
  <2>1. Rebots!AfterWord(t, w)
    BY <1>1
  <2>2. CASE s11 = "hello"
    BY <1>7, <1>8, <2>1, <2>2 DEF Rebots!AfterWord
  <2>3. CASE s11 \in {"version", "heartbeat"}
    BY <1>7, <1>9, <2>1, <2>3 DEF Rebots!AfterWord
  <2>4. CASE s11 = "read" /\ w = "ack"
    BY <1>10, <2>1, <2>4 DEF Rebots!AfterWord, Rebots!operation
  <2>5. CASE s11 = "read" /\ w = "error"
    BY <1>7, <2>1, <2>5 DEF Rebots!AfterWord, Rebots!Throw
  <2>6. CASE s11 = "write" \/ (s11 = "read" /\ w \notin {"ack", "error"})
    BY <1>7, <1>11, <2>1, <2>6 DEF Rebots!AfterWord
  <2>7. s11 \in {"hello", "version", "heartbeat", "read", "write"}
    BY <1>2 DEF Answered
  <2> QED BY <2>2, <2>3, <2>4, <2>5, <2>6, <2>7

\* Every step keeps RebotAnswersInv.
LEMMA RebotAnswersStep ==
  ASSUME RebotAnswersInv, [Rebots!RebotNext]_(Rebots!rebotVars)
  PROVE  RebotAnswersInv'
<1>1. ASSUME NEW t \in Rebots!Threads, Rebots!Receive(t)
      PROVE  RebotAnswersInv'
  BY <1>1, ReceivesIt
<1>2. CASE Rebots!ServerAnswers
  BY <1>2, ServerAnswersIt
<1> USE DEF RebotAnswersInv, NothingUnderWay
<1>3. ASSUME NEW t \in RebotUsers, Rebots!Open(t)
      PROVE  RebotAnswersInv'
  <2>1. CASE Rebots!Lock(t, "hello", 0) /\ Rebots!Send("hello", 1) /\ s8' = <<>>
    <3>1. s9' \in Nat /\ s7' = <<[id |-> s9', command |-> "hello"]>>
      BY <2>1, SendAsks
    <3>2. s10' # "nobody" /\ s11' = "hello"
      BY <2>1, RebotsAssumption DEF Rebots!Lock
    <3>3. Asked'
      BY <2>1, <3>1, <3>2 DEF Asked
    <3> QED BY <1>3, <2>1, <3>1, <3>2, <3>3 DEF Rebots!Open, Answers
  <2>2. CASE Rebots!CloseConnection /\ UNCHANGED <<Rebots!operation, s9>>
    BY <1>3, <2>2 DEF Rebots!Open, Rebots!CloseConnection, Rebots!operation, Answers
  <2> QED BY <1>3, <2>1, <2>2 DEF Rebots!Open
<1>4. ASSUME NEW t \in RebotUsers, NEW command \in {"read", "write"}, Rebots!Access(t, command)
      PROVE  RebotAnswersInv'
  <2>1. s10 = "nobody" /\ s10' # "nobody" /\ s11' = command /\ UNCHANGED <<s1, s5, s8, s20>>
    BY <1>4, RebotsAssumption DEF Rebots!Access, Rebots!Lock, NothingUnderWay
  <2>2. CASE Rebots!Send(command, 1)
    <3>1. s9' \in Nat /\ s7' = <<[id |-> s9', command |-> command]>>
      BY <2>2, SendAsks
    <3>2. Asked'
      BY <2>1, <3>1 DEF Asked
    <3> QED BY <2>1, <3>1, <3>2
  <2>3. CASE UNCHANGED <<s7, s9>>
    BY <2>1, <2>3
  <2> QED BY <1>4, <2>2, <2>3 DEF Rebots!Access
<1>5. ASSUME NEW t \in RebotUsers, Rebots!Close(t)
      PROVE  RebotAnswersInv'
  BY <1>5 DEF Rebots!Close, Rebots!CloseConnection, Rebots!operation, Rebots!NoProtocol, Answers
<1>6. ASSUME NEW t \in Rebots!Threads, Rebots!Timeout(t) \/ Rebots!SocketError(t)
      PROVE  RebotAnswersInv'
  <2>1. /\ UNCHANGED <<s1, s5, s9, s20>>
        /\ s7' = <<>> /\ s8' = <<>> /\ s10' = "nobody" /\ s11' = "none"
    BY <1>6 DEF Rebots!Timeout, Rebots!SocketError, Rebots!Throw, Rebots!Release, Rebots!CloseConnection
  <2> QED BY <2>1 DEF Answers
<1>7. CASE Rebots!SendHeartbeat
  <2>1. s10 = "nobody" /\ UNCHANGED <<s1, s5, s8, s20>>
    BY <1>7 DEF Rebots!SendHeartbeat, Rebots!Idle
  <2>2. CASE s5 = 1 /\ Rebots!Lock("heartbeat", "heartbeat", 0) /\ Rebots!Send("hello", 3)
    <3>1. s9' \in Nat /\ s7' = <<[id |-> s9', command |-> "hello"]>> /\ s13' = 3
      BY <2>2, SendAsks
    <3>2. s10' # "nobody" /\ s11' = "heartbeat"
      BY <2>2 DEF Rebots!Lock
    <3>3. Asked'
      BY <2>1, <3>1, <3>2 DEF Asked
    <3> QED BY <2>1, <2>2, <3>1, <3>2, <3>3
  <2>3. CASE s5 = 1 /\ Rebots!Lock("heartbeat", "heartbeat", 0) /\ UNCHANGED <<s7, s9>>
    BY <2>1, <2>3 DEF Rebots!Lock
  <2>4. CASE UNCHANGED <<Rebots!operation, s7, s9>>
    BY <2>1, <2>4 DEF Rebots!operation
  <2> QED BY <1>7, <2>2, <2>3, <2>4 DEF Rebots!SendHeartbeat
<1>8. CASE \/ \E t \in Rebots!Threads : Rebots!Report(t)
           \/ Rebots!WakeUp \/ Rebots!Destroy \/ Rebots!Interrupted \/ Rebots!Tick \/ Rebots!NetworkChanges
           \/ UNCHANGED Rebots!rebotVars
  <2>1. UNCHANGED <<s1, s5, s7, s8, s9, s10, s11, s13, s20>>
    BY <1>8 DEF Rebots!Report, Rebots!WakeUp, Rebots!Destroy, Rebots!Interrupted, Rebots!Tick,
       Rebots!NetworkChanges, Rebots!rebotVars, Rebots!stream, Rebots!operation
  <2> QED BY <2>1 DEF Asked, Answered
<1> HIDE DEF RebotAnswersInv, NothingUnderWay
<1> QED
  BY <1>1, <1>2, <1>3, <1>4, <1>5, <1>6, <1>7, <1>8 DEF Rebots!RebotNext

\* The heartbeat thread does not sleep beyond half of the timeout.
LEMMA RebotSleepStep ==
  ASSUME RebotSleepInv, [Rebots!RebotNext]_(Rebots!rebotVars)
  PROVE  RebotSleepInv'
<1> USE DEF RebotSleepInv
<1>1. Rebots!Half \in Nat
  BY RebotsAssumption DEF Rebots!Half
<1>2. ASSUME NEW t, Rebots!Sleep(t), s15' = s15
      PROVE  RebotSleepInv'
  BY <1>1, <1>2 DEF Rebots!Sleep
<1>3. CASE s17' = s17 /\ (s15' = s15 \/ s15' = 0)
  BY <1>1, <1>3
<1>4. CASE s17' = Rebots!Half + 1 /\ s15' = 0
  BY <1>1, <1>4
<1>5. CASE Rebots!Tick
  BY <1>1, <1>5, RebotsAssumption DEF Rebots!Tick
<1> HIDE DEF RebotSleepInv
<1>6. ASSUME NEW t \in Rebots!Threads, Rebots!Receive(t)
      PROVE  RebotSleepInv'
  <2>1. s15' = s15 /\ Rebots!AfterWord(t, Head(s8).word)
    BY <1>6 DEF Rebots!Receive
  <2>2. s17' = s17 \/ Rebots!Sleep(t)
    BY <2>1 DEF Rebots!AfterWord, Rebots!Throw
  <2> QED BY <1>2, <1>3, <2>1, <2>2
<1>7. CASE Rebots!WakeUp
  BY <1>2, <1>7 DEF Rebots!WakeUp
<1>8. CASE Rebots!SendHeartbeat
  BY <1>3, <1>4, <1>8 DEF Rebots!SendHeartbeat
<1>9. ASSUME NEW t \in RebotUsers,
             Rebots!Open(t) \/ Rebots!Close(t) \/ \E c \in {"read", "write"} : Rebots!Access(t, c)
      PROVE  RebotSleepInv'
  BY <1>3, <1>9 DEF Rebots!Open, Rebots!Close, Rebots!Access, Rebots!thread
<1>10. ASSUME NEW t \in Rebots!Threads, Rebots!Timeout(t) \/ Rebots!SocketError(t) \/ Rebots!Report(t)
       PROVE  RebotSleepInv'
  BY <1>3, <1>10 DEF Rebots!Timeout, Rebots!SocketError, Rebots!Report, Rebots!Throw, Rebots!thread
<1>11. CASE \/ Rebots!ServerAnswers \/ Rebots!Destroy \/ Rebots!Interrupted \/ Rebots!NetworkChanges
            \/ UNCHANGED Rebots!rebotVars
  BY <1>3, <1>11 DEF Rebots!ServerAnswers, Rebots!Destroy, Rebots!Interrupted, Rebots!NetworkChanges,
     Rebots!rebotVars, Rebots!thread
<1> QED
  BY <1>5, <1>6, <1>7, <1>8, <1>9, <1>10, <1>11 DEF Rebots!RebotNext

\* What they are needed for.
LEMMA RebotInvImplies ==
  ASSUME RebotAnswersInv, RebotSleepInv
  PROVE  Rebots!AnswersMatch /\ Rebots!ConnectionIsKeptAlive
<1>1. Rebots!AnswersMatch
  BY DEF RebotAnswersInv, Rebots!AnswersMatch
<1>2. Rebots!ConnectionIsKeptAlive
  BY RebotsAssumption DEF RebotSleepInv, Rebots!ConnectionIsKeptAlive, Rebots!Half
<1> QED BY <1>1, <1>2

-----------------------------------------------------------------------------
(* Subdevice *)

LEMMA SameSubdevice ==
  /\ Subdevices!SubdeviceInit <=> BackendProofs!SubdeviceInit
  /\ [Subdevices!SubdeviceNext]_(Subdevices!subdeviceVars) <=>
       [BackendProofs!SubdeviceNext]_(BackendProofs!subdeviceVars)
  /\ Subdevices!WriteArrives <=> BackendProofs!WriteArrives
  /\ Subdevices!ReadIsRight <=> BackendProofs!ReadIsRight
  /\ Subdevices!GivesDataBack <=> BackendProofs!GivesDataBack
  /\ Subdevices!SubdeviceAssumption <=> BackendProofs!SubdeviceAssumption
BY Zenon DEF Subdevices!SubdeviceInit, BackendProofs!SubdeviceInit, Subdevices!subdeviceVars,
  BackendProofs!subdeviceVars, Subdevices!SubdeviceNext, BackendProofs!SubdeviceNext,
  Subdevices!Transfer, BackendProofs!Transfer, Subdevices!Word, BackendProofs!Word, Subdevices!Empty,
  BackendProofs!Empty, Subdevices!Type, BackendProofs!Type, Subdevices!NeedAreaParam,
  BackendProofs!NeedAreaParam, Subdevices!NeedStatusParam, BackendProofs!NeedStatusParam,
  Subdevices!HasBusy, BackendProofs!HasBusy, Subdevices!Accepted, BackendProofs!Accepted,
  Subdevices!IsReadable, BackendProofs!IsReadable, Subdevices!IsWriteable, BackendProofs!IsWriteable,
  Subdevices!Words, BackendProofs!Words, Subdevices!SizeVerified, BackendProofs!SizeVerified,
  Subdevices!AccessorRange, BackendProofs!AccessorRange, Subdevices!StartAddress,
  BackendProofs!StartAddress, Subdevices!EndAddress, BackendProofs!EndAddress, Subdevices!AtLeast,
  BackendProofs!AtLeast, Subdevices!AtMost, BackendProofs!AtMost, Subdevices!CopyOffset,
  BackendProofs!CopyOffset, Subdevices!CopyWords, BackendProofs!CopyWords, Subdevices!Content,
  BackendProofs!Content, Subdevices!Place, BackendProofs!Place, Subdevices!Stored,
  BackendProofs!Stored, Subdevices!Start, BackendProofs!Start, Subdevices!Complete,
  BackendProofs!Complete, Subdevices!Open, BackendProofs!Open, Subdevices!Close, BackendProofs!Close,
  Subdevices!Free, BackendProofs!Free, Subdevices!PreTransfer, BackendProofs!PreTransfer,
  Subdevices!Lock, BackendProofs!Lock, Subdevices!Accessible, BackendProofs!Accessible, Subdevices!At,
  BackendProofs!At, Subdevices!AccessFails, BackendProofs!AccessFails, Subdevices!Chip,
  BackendProofs!Chip, Subdevices!SelectChip, BackendProofs!SelectChip, Subdevices!WriteAddress,
  BackendProofs!WriteAddress, Subdevices!StartTransfer, BackendProofs!StartTransfer, Subdevices!Wait,
  BackendProofs!Wait, Subdevices!Fetch, BackendProofs!Fetch, Subdevices!PostTransfer,
  BackendProofs!PostTransfer, Subdevices!WriteArrives, BackendProofs!WriteArrives,
  Subdevices!ReadIsRight, BackendProofs!ReadIsRight, Subdevices!GivesDataBack,
  BackendProofs!GivesDataBack, Subdevices!SubdeviceAssumption, BackendProofs!SubdeviceAssumption,
  Subdevices!Cardinality, BackendProofs!Cardinality

(***************************************************************************)
(* Transfers through a subdevice of any of the types arrive at their words *)
(* of the right chip, for all sizes of the data register and alignments;   *)
(* a Rebot client takes no answer for that of another request, and its     *)
(* heartbeat is in time, for all timeouts.                                 *)
(***************************************************************************)
THEOREM TransfersArrive == BackendsSpec => []TransfersAreRight
<1> DEFINE Inv == /\ part = "subdevice" => BackendProofs!SubdeviceInv
                  /\ part = "rebot" => RebotAnswersInv /\ RebotSleepInv
<1>1. BackendsInit => Inv
  BY PartInit, SameSubdevice, SubdevicesAssumption, BackendProofs!SubdeviceInvInit, RebotInvInit
<1>2. Inv /\ [BackendsNext]_allVars => Inv'
  <2> SUFFICES ASSUME Inv, [BackendsNext]_allVars PROVE Inv'
    OBVIOUS
  <2>1. CASE part = "subdevice"
    BY <2>1, PartStays, PartSteps, SameSubdevice, SubdevicesAssumption, BackendProofs!SubdeviceInvStep
  <2>2. CASE part = "rebot"
    BY <2>2, PartStays, PartSteps, RebotAnswersStep, RebotSleepStep
  <2> QED BY <2>1, <2>2, PartStays
<1>3. Inv => TransfersAreRight
  BY SameSubdevice, SubdevicesAssumption, BackendProofs!SubdeviceInvImplies, RebotInvImplies
  DEF TransfersAreRight
<1> QED BY <1>1, <1>2, <1>3, PTL DEF BackendsSpec

-----------------------------------------------------------------------------
(* SharedDummy *)

LEMMA SameShared ==
  /\ Shared!SharedDummyInit <=> BackendProofs!SharedDummyInit
  /\ [Shared!SharedDummyNext]_(Shared!sharedDummyVars) <=>
       [BackendProofs!SharedDummyNext]_(BackendProofs!sharedDummyVars)
  /\ Shared!RegistersAreShared <=> BackendProofs!RegistersAreShared
  /\ Shared!InterruptsAreDispatched <=> BackendProofs!InterruptsAreDispatched
  /\ Shared!SemaphoresAreFree <=> BackendProofs!SemaphoresAreFree
  /\ Shared!NothingIsLeft <=> BackendProofs!NothingIsLeft
  /\ Shared!StoppedThreadsWakeUp <=> BackendProofs!StoppedThreadsWakeUp
  /\ Shared!KeepsRegisters <=> BackendProofs!KeepsRegisters
  /\ Shared!SharedAssumption <=> BackendProofs!SharedAssumption
BY Zenon DEF Shared!SharedAssumption, BackendProofs!SharedAssumption, Shared!objects,
  BackendProofs!objects, Shared!contents, BackendProofs!contents, Shared!threads, BackendProofs!threads,
  Shared!sharedDummyVars, BackendProofs!sharedDummyVars, Shared!Kinds, BackendProofs!Kinds, Shared!Objects,
  BackendProofs!Objects, Shared!Alive, BackendProofs!Alive, Shared!Constructing,
  BackendProofs!Constructing, Shared!Leaving, BackendProofs!Leaving, Shared!Locks, BackendProofs!Locks,
  Shared!NewInterrupt, BackendProofs!NewInterrupt, Shared!NoCounts, BackendProofs!NoCounts, Shared!Forget,
  BackendProofs!Forget, Shared!Unused, BackendProofs!Unused, Shared!OpenSegment, BackendProofs!OpenSegment,
  Shared!NewMutex, BackendProofs!NewMutex, Shared!OpenMutex, BackendProofs!OpenMutex, Shared!Timeout,
  BackendProofs!Timeout, Shared!Existing, BackendProofs!Existing, Shared!ReInitRequired,
  BackendProofs!ReInitRequired, Shared!Cleanup, BackendProofs!Cleanup, Shared!Register,
  BackendProofs!Register, Shared!StartThread, BackendProofs!StartThread, Shared!WaitForSem,
  BackendProofs!WaitForSem, Shared!Copy, BackendProofs!Copy, Shared!Dispatched, BackendProofs!Dispatched,
  Shared!Handle, BackendProofs!Handle, Shared!Write, BackendProofs!Write, Shared!Trigger,
  BackendProofs!Trigger, Shared!Post, BackendProofs!Post, Shared!Stop, BackendProofs!Stop, Shared!WakeUp,
  BackendProofs!WakeUp, Shared!RemoveSem, BackendProofs!RemoveSem, Shared!Leave, BackendProofs!Leave,
  Shared!RemoveName, BackendProofs!RemoveName, Shared!RemoveNames, BackendProofs!RemoveNames, Shared!Crash,
  BackendProofs!Crash, Shared!SharedDummyInit, BackendProofs!SharedDummyInit, Shared!SharedDummyNext,
  BackendProofs!SharedDummyNext, Shared!Member, BackendProofs!Member, Shared!RegistersAreShared,
  BackendProofs!RegistersAreShared, Shared!AtRest, BackendProofs!AtRest, Shared!InterruptsAreDispatched,
  BackendProofs!InterruptsAreDispatched, Shared!SemaphoresAreFree, BackendProofs!SemaphoresAreFree,
  Shared!NothingIsLeft, BackendProofs!NothingIsLeft, Shared!KeepsRegisters, BackendProofs!KeepsRegisters,
  Shared!StoppedThreadsWakeUp, BackendProofs!StoppedThreadsWakeUp, Shared!Cardinality,
  BackendProofs!Cardinality, Shared!IsFiniteSet, BackendProofs!IsFiniteSet

(***************************************************************************)
(* The processes of the composition which share a dummy device use the     *)
(* same registers and mutex, dispatch the interrupts, find a free entry    *)
(* for their semaphore, wake up the threads they stop, and leave nothing   *)
(* behind, for every set of processes which may crash.                     *)
(***************************************************************************)
THEOREM ProcessesShare == BackendsSpec => []ProcessesShareRegisters
<1> DEFINE Inv == part = "shared" => BackendProofs!SharedInv
<1>1. BackendsInit => Inv
  BY PartInit, SameShared, SharedsAssumption, BackendProofs!SharedInvInit
<1>2. Inv /\ [BackendsNext]_allVars => Inv'
  BY PartStays, PartSteps, SameShared, SharedsAssumption, BackendProofs!SharedInvStep
<1>3. Inv => ProcessesShareRegisters
  BY SameShared, SharedsAssumption, BackendProofs!SharedInvImplies DEF ProcessesShareRegisters
<1> QED BY <1>1, <1>2, <1>3, PTL DEF BackendsSpec

-----------------------------------------------------------------------------
(* ExceptionDummy *)

LEMMA SameExceptions ==
  /\ Exceptions!DummyInit <=> SourceProofs!DummyInit
  /\ [Exceptions!DummyNext]_(Exceptions!dummyVars) <=> [SourceProofs!DummyNext]_(SourceProofs!dummyVars)
  /\ Exceptions!ExceptionIsPushedOnce <=> SourceProofs!ExceptionIsPushedOnce
  /\ Exceptions!AccessorsAgree <=> SourceProofs!AccessorsAgree
  /\ Exceptions!DummyAssumption <=> SourceProofs!DummyAssumption
BY Zenon DEF Exceptions!Accessors, SourceProofs!Accessors, Exceptions!DummyAssumption,
  SourceProofs!DummyAssumption, Exceptions!dummyVars, SourceProofs!dummyVars, Exceptions!Top,
  SourceProofs!Top, Exceptions!Acc, SourceProofs!Acc, Exceptions!At, SourceProofs!At, Exceptions!GoTo,
  SourceProofs!GoTo, Exceptions!Push, SourceProofs!Push, Exceptions!Call, SourceProofs!Call,
  Exceptions!TriggerPush, SourceProofs!TriggerPush, Exceptions!ActivateDummy, SourceProofs!ActivateDummy,
  Exceptions!SetDummyException, SourceProofs!SetDummyException, Exceptions!GetPushAccessor,
  SourceProofs!GetPushAccessor, Exceptions!OpenDummy, SourceProofs!OpenDummy, Exceptions!SwitchThrowing,
  SourceProofs!SwitchThrowing, Exceptions!Lock, SourceProofs!Lock, Exceptions!Skips, SourceProofs!Skips,
  Exceptions!Turn, SourceProofs!Turn, Exceptions!Enlist, SourceProofs!Enlist, Exceptions!Return,
  SourceProofs!Return, Exceptions!Triggered, SourceProofs!Triggered, Exceptions!Trigger,
  SourceProofs!Trigger, Exceptions!Catch, SourceProofs!Catch, Exceptions!DummyInit, SourceProofs!DummyInit,
  Exceptions!DummyNext, SourceProofs!DummyNext, Exceptions!ExceptionIsPushedOnce,
  SourceProofs!ExceptionIsPushedOnce, Exceptions!AccessorsAgree, SourceProofs!AccessorsAgree

(***************************************************************************)
(* Each accessor of the ExceptionDummy in the composition is told of an    *)
(* exception once, and between the calls all of them are as active as the  *)
(* backend, for every number of accessors.                                 *)
(***************************************************************************)
THEOREM ExceptionsArriveOnce == BackendsSpec => []DummyExceptionsAgree
<1> DEFINE Inv == part = "exception" => SourceProofs!DummyInv
<1>1. BackendsInit => Inv
  BY PartInit, SameExceptions, DummiesAssumption, SourceProofs!DummyInvInit
<1>2. Inv /\ [BackendsNext]_allVars => Inv'
  BY PartStays, PartSteps, SameExceptions, DummiesAssumption, SourceProofs!DummyInvStep
<1>3. Inv => DummyExceptionsAgree
  BY SameExceptions, SourceProofs!DummyInvImplies DEF DummyExceptionsAgree
<1> QED BY <1>1, <1>2, <1>3, PTL DEF BackendsSpec

-----------------------------------------------------------------------------
(* Factory                                                                   *)

LEMMA SameFactories ==
  /\ Factories!FactoryInit <=> BackendProofs!FactoryInit
  /\ Factories!FactoryAssumption <=> BackendProofs!FactoryAssumption
  /\ Factories!OneBackendPerUri <=> BackendProofs!OneBackendPerUri
  /\ Factories!NothingIsKept <=> BackendProofs!NothingIsKept
<1>1. Factories!FactoryInit <=> BackendProofs!FactoryInit
  BY Zenon DEF Factories!FactoryInit, BackendProofs!FactoryInit, Factories!NoEntry, BackendProofs!NoEntry
<1>2. Factories!FactoryAssumption <=> BackendProofs!FactoryAssumption
  BY Zenon DEF Factories!FactoryAssumption, BackendProofs!FactoryAssumption, Factories!Lines,
    BackendProofs!Lines, Factories!ToSet, BackendProofs!ToSet, Factories!IsLogical, BackendProofs!IsLogical,
    Factories!Parsed, BackendProofs!Parsed, Factories!MapFiles, BackendProofs!MapFiles, Factories!MayUse,
    BackendProofs!MayUse, Factories!Located, BackendProofs!Located
<1>3. Factories!OneBackendPerUri <=> BackendProofs!OneBackendPerUri
  BY Zenon DEF Factories!OneBackendPerUri, BackendProofs!OneBackendPerUri, Factories!Held, BackendProofs!Held,
    Factories!ToSet, BackendProofs!ToSet
<1>4. Factories!NothingIsKept <=> BackendProofs!NothingIsKept
  BY Zenon DEF Factories!NothingIsKept, BackendProofs!NothingIsKept, Factories!Held, BackendProofs!Held,
    Factories!ToSet, BackendProofs!ToSet
<1> QED BY <1>1, <1>2, <1>3, <1>4

\* createBackend() finds, creates and returns the same.
LEMMA SameBackends ==
  ASSUME NEW entry, NEW id
  PROVE  /\ Factories!LookUp(entry) = BackendProofs!LookUp(entry)
         /\ Factories!Return(entry, id) <=> BackendProofs!Return(entry, id)
         /\ Factories!Throws(entry) <=> BackendProofs!Throws(entry)
         /\ Factories!WithNew(entry, id) = BackendProofs!WithNew(entry, id)
<1>1. Factories!LookUp(entry) = BackendProofs!LookUp(entry)
  BY Zenon DEF Factories!LookUp, BackendProofs!LookUp, Factories!AliasLookUp, BackendProofs!AliasLookUp,
    Factories!CanBeParsed, BackendProofs!CanBeParsed, Factories!NoEntry, BackendProofs!NoEntry
<1>2. Factories!Return(entry, id) <=> BackendProofs!Return(entry, id)
  BY Zenon DEF Factories!Return, BackendProofs!Return, Factories!NoEntry, BackendProofs!NoEntry,
    Factories!Exists, BackendProofs!Exists, Factories!Held, BackendProofs!Held, Factories!ToSet,
    BackendProofs!ToSet, Factories!CanBeCreated, BackendProofs!CanBeCreated, Factories!Parsed,
    BackendProofs!Parsed, Factories!MapFile, BackendProofs!MapFile
<1>3. Factories!Throws(entry) <=> BackendProofs!Throws(entry)
  BY Zenon DEF Factories!Throws, BackendProofs!Throws, Factories!NoEntry, BackendProofs!NoEntry,
    Factories!Exists, BackendProofs!Exists, Factories!Held, BackendProofs!Held, Factories!ToSet,
    BackendProofs!ToSet, Factories!CanBeCreated, BackendProofs!CanBeCreated, Factories!Parsed,
    BackendProofs!Parsed, Factories!MapFile, BackendProofs!MapFile
<1>4. Factories!WithNew(entry, id) = BackendProofs!WithNew(entry, id)
  BY Zenon DEF Factories!WithNew, BackendProofs!WithNew, Factories!New, BackendProofs!New, Factories!Parsed,
    BackendProofs!Parsed, Factories!MapFile, BackendProofs!MapFile
<1> QED BY <1>1, <1>2, <1>3, <1>4

\* The steps which change what Devices and backends hold are the same.
LEMMA SameFactorySteps ==
  ASSUME [Factories!FactoryNext]_(Factories!factoryVars)
  PROVE  BackendProofs!BackendsStep
<1>1. ASSUME NEW lib, Factories!LoadPluginLibrary(lib) PROVE BackendProofs!BackendsStep
  BY <1>1 DEF Factories!LoadPluginLibrary, BackendProofs!BackendsStep
<1>2. ASSUME NEW file, Factories!SetDMapFilePath(file) PROVE BackendProofs!BackendsStep
  BY <1>2 DEF Factories!SetDMapFilePath, BackendProofs!BackendsStep
<1>3. CASE UNCHANGED Factories!factoryVars
  BY <1>3 DEF Factories!factoryVars, BackendProofs!BackendsStep
<1>4. ASSUME NEW h \in Devices, NEW name, Factories!CreateDevice(h, name)
      PROVE  BackendProofs!CreateDevice(h, name)
  BY <1>4, SameBackends, Zenon DEF Factories!CreateDevice, BackendProofs!CreateDevice
<1>5. ASSUME NEW h \in Devices, Factories!StartParsing(h)
      PROVE  BackendProofs!StartParsing(h)
  BY Zenon, <1>5 DEF Factories!StartParsing, BackendProofs!StartParsing, Factories!IsLogical, BackendProofs!IsLogical
<1>6. ASSUME NEW h \in Devices, Factories!ReleaseDevice(h)
      PROVE  BackendProofs!ReleaseDevice(h)
  BY Zenon, <1>6 DEF Factories!ReleaseDevice, BackendProofs!ReleaseDevice, Factories!NoEntry, BackendProofs!NoEntry
<1>7. ASSUME NEW b, Factories!CreateTarget(b)
      PROVE  BackendProofs!CreateTarget(b)
  BY <1>7, SameBackends, Zenon DEF Factories!CreateTarget, BackendProofs!CreateTarget
<1>8. ASSUME NEW b, Factories!Destroy(b)
      PROVE  BackendProofs!Destroy(b)
  BY Zenon, <1>8 DEF Factories!Destroy, BackendProofs!Destroy, Factories!Gone, BackendProofs!Gone, Factories!Held,
    BackendProofs!Held, Factories!ToSet, BackendProofs!ToSet
<1> QED
  BY <1>1, <1>2, <1>3, <1>4, <1>5, <1>6, <1>7, <1>8 DEF Factories!FactoryNext, BackendProofs!BackendsStep

(***************************************************************************)
(* The factory of the composition has one backend per URI which anybody    *)
(* holds, and none is left when the application has released its Devices,  *)
(* for every dmap file, every set of descriptors and plugins and every     *)
(* number of Devices.                                                      *)
(***************************************************************************)
THEOREM BackendsStayShared == BackendsSpec => []BackendsAreShared
<1> DEFINE Inv == part = "factory" => BackendProofs!FactoryInv
<1>1. BackendsInit => Inv
  BY PartInit, SameFactories, BackendProofs!FactoryInvInit
<1>2. Inv /\ [BackendsNext]_allVars => Inv'
  BY PartStays, PartSteps, SameFactories, SameFactorySteps, FactoriesAssumption, BackendProofs!FactoryInvStep
<1>3. Inv => BackendsAreShared
  BY SameFactories, FactoriesAssumption, BackendProofs!FactoryInvImplies DEF BackendsAreShared
<1> QED BY <1>1, <1>2, <1>3, PTL DEF BackendsSpec

=============================================================================

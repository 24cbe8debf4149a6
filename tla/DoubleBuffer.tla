---------------------------- MODULE DoubleBuffer ----------------------------
(***************************************************************************)
(* The handshake with a firmware which writes to two buffers in turn: the  *)
(* DoubleBufferAccessor of the NumericAddressedBackend, whose accessors    *)
(* share a recursive mutex, and the DoubleBufferPlugin of the logical name *)
(* mapping, whose accessors share a counter of readers. While the register *)
(* enableDoubleBuffering is 0 the firmware does not change the buffer.     *)
(*                                                                         *)
(* A reader reads one accessor, or several of them in a TransferGroup: it  *)
(* calls preRead() of all, transfers all, and calls postRead() of all.     *)
(***************************************************************************)
EXTENDS Naturals, FiniteSets

CONSTANTS
  Readers,
  NoReader,
  Group,        \* Group[r]: number of accessors of reader r
  Frames        \* bound: frames are counted modulo this number

\* A group has at least one accessor.
DoubleBufferAssumption ==
  /\ Group \in [Readers -> Nat \ {0}]
  /\ NoReader \notin Readers
  /\ Frames \in Nat \ {0}

VARIABLES
  kind,             \* "numeric" or "plugin"
  enabled,          \* enableDoubleBuffering
  current,          \* the buffer the firmware writes to
  frame,            \* the frame the firmware writes
  halves,           \* halves[b]: the frames of the halves of the contents of b
  written,          \* halves of the frame which are written
  owner, useCount,  \* CountedRecursiveMutex
  readerCount,      \* DoubleBufferPlugin::_readerCount
  pc, accessor,     \* where reader r is, and with which of its accessors
  currentBuffer,    \* currentBuffer[r]: _currentBuffer of its accessors
  half,             \* half[r]: the frame of the half which it has read first
  failed,           \* failed[r]: its accessors with an exception
  error,            \* the backend has an exception
  torn              \* a reader got halves of different frames

doubleBufferVars == <<kind, enabled, current, frame, halves, written, owner, useCount, readerCount, pc,
                      accessor, currentBuffer, half, failed, error, torn>>

firmware == <<current, frame, halves, written>>
sync == <<owner, useCount, readerCount>>

-----------------------------------------------------------------------------
(* The firmware (external) *)

WriteHalf ==
  /\ written < 2
  /\ halves' = [halves EXCEPT ![current][written + 1] = frame]
  /\ written' = written + 1
  /\ UNCHANGED <<kind, enabled, current, frame, sync, pc, accessor, currentBuffer, half, failed, error, torn>>

NextFrame ==
  /\ written = 2
  /\ current' = IF enabled THEN 1 - current ELSE current
  /\ frame' = (frame + 1) % Frames
  /\ written' = 0
  /\ UNCHANGED <<kind, enabled, halves, sync, pc, accessor, currentBuffer, half, failed, error, torn>>

-----------------------------------------------------------------------------
(* The accessors *)

\* An access to the hardware: it fails if the backend has an error, and may
\* fail otherwise. The exception is stored in the accessor.
Access(r, effect) ==
  \/ ~error /\ effect /\ UNCHANGED <<error, failed>>
  \/ /\ error' = TRUE /\ UNCHANGED enabled
     /\ failed' = [failed EXCEPT ![r] = @ \cup {accessor[r]}]

\* The next accessor of the group, or the next phase.
Advance(r, again, next) ==
  IF accessor[r] < Group[r]
  THEN pc' = [pc EXCEPT ![r] = again] /\ accessor' = [accessor EXCEPT ![r] = @ + 1]
  ELSE pc' = [pc EXCEPT ![r] = next] /\ accessor' = [accessor EXCEPT ![r] = 1]

\* There are no transfers if a preRead() has seen an exception.
PreReadDone(r) == Advance(r, "idle", IF failed'[r] = {} THEN "first" ELSE "post")

\* The first part of doPreRead(). The plugin holds its mutex meanwhile. If the
\* register cannot be written the exception ends doPreRead().
Acquire(r) ==
  /\ pc[r] = "idle"
  /\ IF kind = "plugin"
     THEN /\ readerCount' = readerCount + 1
          /\ Access(r, enabled' = FALSE)
          /\ UNCHANGED <<owner, useCount>>
     ELSE /\ owner \in {NoReader, r}
          /\ owner' = r /\ useCount' = useCount + 1
          /\ IF useCount' = 1 THEN Access(r, enabled' = FALSE) ELSE UNCHANGED <<enabled, failed, error>>
          /\ UNCHANGED readerCount
  /\ IF accessor[r] \in failed'[r] THEN PreReadDone(r)
     ELSE pc' = [pc EXCEPT ![r] = "current"] /\ UNCHANGED accessor
  /\ UNCHANGED <<kind, firmware, currentBuffer, half, torn>>

\* The second part reads the number of the buffer in use.
ReadCurrent(r) ==
  /\ pc[r] = "current"
  /\ Access(r, UNCHANGED enabled)
  /\ currentBuffer' = IF accessor[r] \in failed'[r] THEN currentBuffer ELSE [currentBuffer EXCEPT ![r] = current]
  /\ PreReadDone(r)
  /\ UNCHANGED <<kind, firmware, sync, half, torn>>

\* "if current buffer 1, it means firmware writes now to buffer1, so use
\* target (buffer 0)"
Selected(r) == IF currentBuffer[r] = 1 THEN 0 ELSE 1

\* doReadTransferSynchronously(): the data are transferred in two parts. The
\* other accessors of the group are transferred also if one of them fails.
ReadFirst(r) ==
  /\ pc[r] = "first"
  /\ Access(r, UNCHANGED enabled)
  /\ IF accessor[r] \in failed'[r]
     THEN Advance(r, "first", "post") /\ UNCHANGED half
     ELSE /\ half' = [half EXCEPT ![r] = halves[Selected(r)][1]]
          /\ pc' = [pc EXCEPT ![r] = "second"]
          /\ UNCHANGED accessor
  /\ UNCHANGED <<kind, firmware, sync, currentBuffer, torn>>

ReadSecond(r) ==
  /\ pc[r] = "second"
  /\ Access(r, UNCHANGED enabled)
  /\ torn' = (torn \/ (accessor[r] \notin failed'[r] /\ half[r] # halves[Selected(r)][2]))
  /\ Advance(r, "first", "post")
  /\ UNCHANGED <<kind, firmware, sync, currentBuffer, half>>

\* Mistake: an exception leaves the counters as they are.
UncountUnlessFailed(r) ==
  IF kind = "plugin"
  THEN readerCount' = (IF failed[r] = {} THEN readerCount - 1 ELSE readerCount) /\ UNCHANGED <<owner, useCount>>
  ELSE /\ useCount' = IF failed[r] = {} THEN useCount - 1 ELSE useCount
       /\ owner' = IF useCount' = 0 THEN NoReader ELSE owner
       /\ UNCHANGED readerCount

\* The mutex is released, or the reader is not counted any more.
Uncount(r) ==
  IF kind = "plugin"
  THEN readerCount' = readerCount - 1 /\ UNCHANGED <<owner, useCount>>
  ELSE /\ useCount' = useCount - 1
       /\ owner' = IF useCount' = 0 THEN NoReader ELSE owner
       /\ UNCHANGED readerCount

\* Mistake: each reader enables the swapping again.
EnablesEach(r) == TRUE

\* Mistake: only a reader without an exception enables the swapping again.
EnablesIfOk(r) == (IF kind = "plugin" THEN readerCount' ELSE useCount') = 0 /\ failed[r] = {}

\* The last one enables the swapping.
Enables(r) == (IF kind = "plugin" THEN readerCount' ELSE useCount') = 0

\* doPostRead(): the reader is uncounted, also if the register cannot be written.
Release(r) ==
  /\ pc[r] = "post"
  /\ Uncount(r)
  /\ IF Enables(r)
     THEN \/ ~error /\ enabled' = TRUE /\ UNCHANGED error
          \/ error' = TRUE /\ UNCHANGED enabled
     ELSE UNCHANGED <<enabled, error>>
  /\ Advance(r, "post", "idle")
  /\ failed' = IF pc'[r] = "idle" THEN [failed EXCEPT ![r] = {}] ELSE failed
  /\ UNCHANGED <<kind, firmware, currentBuffer, half, torn>>

\* The application opens the device again.
Recover ==
  /\ error
  /\ error' = FALSE
  /\ UNCHANGED <<kind, enabled, firmware, sync, pc, accessor, currentBuffer, half, failed, torn>>

-----------------------------------------------------------------------------
\* The constructor of the first DoubleBufferAccessor enables the swapping.
DoubleBufferInit ==
  /\ kind \in {"numeric", "plugin"}
  /\ enabled = TRUE
  /\ current = 0 /\ frame = 1 /\ written = 0
  /\ halves = [b \in {0, 1} |-> [i \in {1, 2} |-> 0]]
  /\ owner = NoReader /\ useCount = 0 /\ readerCount = 0
  /\ pc = [r \in Readers |-> "idle"]
  /\ accessor = [r \in Readers |-> 1]
  /\ currentBuffer = [r \in Readers |-> 0]
  /\ half = [r \in Readers |-> 0]
  /\ failed = [r \in Readers |-> {}] /\ error = FALSE /\ torn = FALSE

Step(r) == ReadCurrent(r) \/ ReadFirst(r) \/ ReadSecond(r) \/ Release(r) \/ (accessor[r] > 1 /\ Acquire(r))

DoubleBufferNext ==
  \/ WriteHalf \/ NextFrame \/ Recover
  \/ \E r \in Readers : Acquire(r) \/ ReadCurrent(r) \/ ReadFirst(r) \/ ReadSecond(r) \/ Release(r)

\* A reader which has begun goes on.
DoubleBufferSpec ==
  /\ DoubleBufferInit /\ [][DoubleBufferNext]_doubleBufferVars
  /\ \A r \in Readers : WF_doubleBufferVars(Step(r))

-----------------------------------------------------------------------------
(* Properties *)

InTransfer(r) == pc[r] # "idle" \/ accessor[r] > 1

(***************************************************************************)
(* No reader gets parts of two frames, with several readers, groups,       *)
(* errors and recoveries: the firmware does not change the buffer between  *)
(* doPreRead() and doPostRead() of any of them.                            *)
(***************************************************************************)
NeverTorn == ~torn

(***************************************************************************)
(* The counters are those of the readers which are in a transfer, also     *)
(* after exceptions in doPreRead(), in the transfer and in doPostRead():   *)
(* otherwise the swapping stays disabled or other readers block for ever.  *)
(***************************************************************************)
CountersMatch ==
  /\ kind = "plugin" /\ (\A r \in Readers : ~InTransfer(r)) => readerCount = 0
  /\ kind = "numeric" /\ (\A r \in Readers : ~InTransfer(r)) => useCount = 0 /\ owner = NoReader
  /\ owner # NoReader => InTransfer(owner)

\* What a reader gets, and what it leaves for the others.
FramesAreWhole == NeverTorn /\ CountersMatch

(***************************************************************************)
(* What TransferElement.h says of doPostRead(): "No actual communication   *)
(* may be done. Hence, no runtime_error exception may be thrown by this    *)
(* function." TransferGroup::read() asserts that there was one before.     *)
(***************************************************************************)
PostReadDoesNotFail == [][\A r \in Readers : Release(r) => (error' => error)]_doubleBufferVars

(***************************************************************************)
(* With the mutex the firmware can swap the buffers again after a read: no *)
(* readers can keep it from doing so for ever, unless accesses fail.       *)
(***************************************************************************)
SwappingResumes ==
  (kind = "numeric" /\ ~error /\ owner # NoReader) ~> (enabled \/ error)

=============================================================================

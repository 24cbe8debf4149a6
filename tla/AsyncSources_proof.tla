-------------------------- MODULE AsyncSources_proof --------------------------
(***************************************************************************)
(* Proofs about two sources of asynchronous data: InterruptThreads, for    *)
(* every number of interrupts, removals and errors while the counter of    *)
(* the device does not wrap, and ExceptionDummy, for every number of       *)
(* accessors while no initial value fails.                                 *)
(***************************************************************************)
EXTENDS InterruptThreads, ExceptionDummy, TLAPS

-----------------------------------------------------------------------------
(* The inductive invariant *)

Places == {"none", "start", "check", "clear first", "wait", "clear", "distribute", "report", "ended"}
Calls == {"closed", "counted", "open", "activating", "active", "closing"}

ThreadsType ==
  /\ kind \in {"uio", "xdma"}
  /\ data \in Nat /\ counter \in Nat /\ unread \in Nat /\ lastCount \in Nat /\ polled \in Nat
  /\ pc \in Calls /\ thread \in Places

\* Each interrupt which was reported or is pending was counted, so that an
\* event which the thread has not read yet has a larger count than the last.
CountInv ==
  /\ data <= MaxData
  /\ IF pending THEN counter < FirstCount + data ELSE counter <= FirstCount + data
  /\ lastCount <= counter
  /\ kind = "uio" /\ FileIsOpen /\ unread > 0 => lastCount < counter

\* Only the interrupt of a UIO device is masked and has to be cleared. A thread
\* which is not about to clear it has an event to read if it is masked.
MaskInv ==
  /\ thread \in {"check", "clear first", "clear"} => kind = "uio"
  /\ pending => masked
  /\ masked => kind = "uio"
  /\ masked /\ thread \in {"check", "wait", "distribute"} => unread > 0

\* The promise is kept once the thread has cleared what it found.
PromiseInv ==
  /\ thread \in {"start", "check", "clear first"} => pc = "activating" /\ ~done
  /\ thread # "none" => pc \in {"activating", "active", "closing"}
  /\ thread \notin {"none", "start", "check", "clear first"} => done
  /\ thread = "none" => pc \notin {"activating", "active"}

\* A thread has ended because of an exception, or because it was told to.
EndInv ==
  /\ thread = "report" => ~present
  /\ thread = "ended" => exception \/ stop
  /\ stop => pc \notin {"activating", "active"}

\* Data which were not distributed yet have an event, or the thread has read it.
NewestInv == Healthy /\ polled # data => unread > 0 \/ thread \in {"clear", "distribute"}

ThreadsInv == ThreadsType /\ CountInv /\ MaskInv /\ PromiseInv /\ EndInv /\ NewestInv

-----------------------------------------------------------------------------
(* What the parts of the steps do *)

\* The difference of two counts between which the counter has not wrapped, and
\* what the code returns after it has wrapped once.
LEMMA Differences ==
  ASSUME NEW minuend \in 0 .. Modulus - 1, NEW subtrahend \in 0 .. Modulus - 1, Modulus \in Nat
  PROVE  /\ subtrahend <= minuend => SubtractOverflowSafe(minuend, subtrahend) = minuend - subtrahend
         /\ minuend < subtrahend =>
              SubtractOverflowSafe(minuend, subtrahend) = (minuend + Modulus - subtrahend) - 1
BY DEF SubtractOverflowSafe

\* The kernel counts and reports.
LEMMA NotifyStep ==
  ASSUME CounterAssumption, ThreadsType, Notify, counter + 1 <= FirstCount + MaxData
  PROVE  /\ counter' = counter + 1 /\ unread' \in Nat /\ unread' >= unread
         /\ FileIsOpen \/ kind = "xdma" => unread' > 0
         /\ masked' <=> kind = "uio"
<1>1. (counter + 1) % Modulus = counter + 1
  BY DEF CounterAssumption, ThreadsType
<1>2. counter' = counter + 1
  BY <1>1 DEF Notify
<1>3. unread' \in Nat /\ unread' >= unread /\ (FileIsOpen \/ kind = "xdma" => unread' > 0)
  BY DEF Notify, ThreadsType
<1>4. masked' <=> kind = "uio"
  BY DEF Notify
<1>5. QED
  BY <1>2, <1>3, <1>4

\* An event has a larger count than the last one.
LEMMA EventStep ==
  ASSUME ThreadsInv, FileIsOpen, ReadEvent
  PROVE  /\ unread > 0 /\ unread' = 0 /\ lastCount' = counter
         /\ kind = "uio" => Occurred > 0
         /\ UNCHANGED <<present, data, counter, masked, pending>>
BY DEF ThreadsInv, ThreadsType, CountInv, ReadEvent, Occurred, SubtractOverflowSafe

\* Clearing leaves the interrupt unmasked, or there is a new event.
LEMMA ClearStep ==
  ASSUME CounterAssumption, ThreadsInv, FileIsOpen, kind = "uio", ClearInterrupts
  PROVE  /\ ~pending' /\ UNCHANGED <<present, data>>
         /\ counter' \in Nat /\ counter' >= counter /\ counter' <= FirstCount + data
         /\ unread' \in Nat /\ unread' >= unread
         /\ masked' => unread' > 0
         /\ counter' = counter => unread' = unread
<1>1. CASE pending
  <2>1. counter + 1 <= FirstCount + data /\ counter + 1 <= FirstCount + MaxData
    BY <1>1 DEF ThreadsInv, CountInv, ThreadsType, CounterAssumption
  <2>2. Notify
    BY <1>1 DEF ClearInterrupts
  <2>3. QED
    BY <2>1, <2>2, NotifyStep DEF ClearInterrupts, ThreadsInv, ThreadsType
<1>2. CASE ~pending
  BY <1>2 DEF ClearInterrupts, ThreadsInv, ThreadsType, CountInv
<1>3. QED
  BY <1>1, <1>2

-----------------------------------------------------------------------------
(* The steps *)

LEMMA InvInit == ASSUME CounterAssumption, InterruptThreadsInit PROVE ThreadsInv
<1> USE DEF InterruptThreadsInit
<1>1. ThreadsType
  BY DEF CounterAssumption, ThreadsType, Places, Calls
<1>2. CountInv
  BY DEF CounterAssumption, CountInv, FileIsOpen
<1>3. MaskInv
  BY DEF MaskInv
<1>4. PromiseInv
  BY DEF PromiseInv
<1>5. EndInv
  BY DEF EndInv
<1>6. NewestInv
  BY DEF NewestInv, Healthy
<1>7. QED
  BY <1>1, <1>2, <1>3, <1>4, <1>5, <1>6 DEF ThreadsInv

\* The device.
LEMMA DeviceStep ==
  ASSUME CounterAssumption, ThreadsInv, Interrupt \/ Remove \/ Insert
  PROVE  ThreadsInv'
<1> ThreadsType /\ CountInv /\ MaskInv /\ PromiseInv /\ EndInv /\ NewestInv
  BY DEF ThreadsInv
<1>1. CASE Interrupt
  <2>1. data' = data + 1 /\ data < MaxData
    BY <1>1 DEF Interrupt
  <2>2. UNCHANGED <<kind, present, lastCount, pc, exception, stop, done, polled, thread>>
    BY <1>1 DEF Interrupt, backend
  <2>3. CASE masked
    <3>1. pending' /\ masked' /\ counter' = counter /\ unread' = unread
      BY <1>1, <2>3 DEF Interrupt
    <3>2. ThreadsType' /\ CountInv'
      BY <2>1, <2>2, <3>1 DEF ThreadsType, CountInv, FileIsOpen, CounterAssumption
    <3>3. MaskInv'
      BY <2>2, <2>3, <3>1 DEF MaskInv
    <3>4. PromiseInv' /\ EndInv'
      BY <2>2 DEF PromiseInv, EndInv
    <3>5. NewestInv'
      <4>1. Healthy' => thread \in {"start", "check", "clear first", "wait", "clear", "distribute"}
        BY <2>2 DEF PromiseInv, EndInv, Healthy, ThreadsType, Places
      <4>2. Healthy' => thread \in {"wait", "clear", "distribute"}
        BY <2>2, <4>1 DEF PromiseInv, Healthy
      <4>3. QED
        BY <2>2, <2>3, <3>1, <4>2 DEF MaskInv, NewestInv
    <3>6. QED
      BY <3>2, <3>3, <3>4, <3>5 DEF ThreadsInv
  <2>4. CASE ~masked
    <3>1. ~pending
      BY <2>4 DEF MaskInv
    <3>2. counter + 1 <= FirstCount + MaxData /\ counter + 1 <= FirstCount + data'
      BY <2>1, <3>1 DEF CountInv, ThreadsType, CounterAssumption
    <3>3. Notify /\ ~pending'
      BY <1>1, <2>4, <3>1 DEF Interrupt
    <3>4. /\ counter' = counter + 1 /\ unread' \in Nat /\ unread' >= unread
          /\ FileIsOpen \/ kind = "xdma" => unread' > 0
          /\ masked' <=> kind = "uio"
      BY <3>2, <3>3, NotifyStep
    <3>5. ThreadsType' /\ CountInv'
      <4>1. ThreadsType'
        BY <2>1, <2>2, <3>2, <3>4 DEF ThreadsType
      <4>2. CountInv'
        BY <2>1, <2>2, <3>2, <3>3, <3>4 DEF ThreadsType, CountInv, CounterAssumption
      <4>3. QED
        BY <4>1, <4>2
    <3>6. MaskInv'
      <4>1. thread # "none" => FileIsOpen
        BY DEF PromiseInv, FileIsOpen
      <4>2. QED
        BY <2>2, <3>3, <3>4, <4>1 DEF MaskInv
    <3>7. PromiseInv' /\ EndInv'
      BY <2>2 DEF PromiseInv, EndInv
    <3>8. NewestInv'
      <4>1. Healthy' => FileIsOpen
        BY <2>2 DEF Healthy, FileIsOpen
      <4>2. QED
        BY <3>4, <4>1 DEF NewestInv
    <3>9. QED
      BY <3>5, <3>6, <3>7, <3>8 DEF ThreadsInv
  <2>5. QED
    BY <2>3, <2>4
<1>2. CASE Remove
  <2>1. ThreadsType'
    BY <1>2 DEF Remove, backend, ThreadsType, Calls
  <2>2. CountInv' /\ MaskInv'
    BY <1>2 DEF Remove, backend, ThreadsType, CountInv, FileIsOpen, MaskInv, PromiseInv
  <2>3. PromiseInv' /\ EndInv'
    BY <1>2 DEF Remove, backend, PromiseInv, EndInv
  <2>4. NewestInv'
    BY <1>2 DEF Remove, backend, NewestInv, Healthy, PromiseInv, EndInv
  <2>5. QED
    BY <2>1, <2>2, <2>3, <2>4 DEF ThreadsInv
<1>3. CASE Insert
  <2>1. ThreadsType'
    BY <1>3 DEF Insert, backend, ThreadsType, Calls
  <2>2. CountInv' /\ MaskInv'
    BY <1>3 DEF Insert, backend, ThreadsType, CountInv, FileIsOpen, MaskInv, PromiseInv
  <2>3. PromiseInv' /\ EndInv'
    BY <1>3 DEF Insert, backend, PromiseInv, EndInv
  <2>4. NewestInv'
    BY <1>3 DEF Insert, backend, NewestInv, Healthy, PromiseInv, EndInv
  <2>5. QED
    BY <2>1, <2>2, <2>3, <2>4 DEF ThreadsInv
<1>4. QED
  BY <1>1, <1>2, <1>3

\* What the application does.
LEMMA ApplicationStep ==
  ASSUME CounterAssumption, ThreadsInv,
         ReadCount \/ Open \/ Activate \/ Activated \/ OtherError \/ Close \/ Join
  PROVE  ThreadsInv'
<1> ThreadsType /\ CountInv /\ MaskInv /\ PromiseInv /\ EndInv /\ NewestInv
  BY DEF ThreadsInv
<1>1. CASE ReadCount
  <2>1. ThreadsType'
    BY <1>1 DEF ReadCount, kernel, ThreadsType, Calls
  <2>2. CountInv' /\ MaskInv'
    <3>1. CountInv'
      BY <1>1 DEF ReadCount, kernel, ThreadsType, CountInv, FileIsOpen
    <3>2. MaskInv'
      BY <1>1 DEF ReadCount, kernel, PromiseInv, MaskInv
    <3>3. QED
      BY <3>1, <3>2
  <2>3. PromiseInv' /\ EndInv'
    BY <1>1 DEF ReadCount, kernel, PromiseInv, EndInv
  <2>4. NewestInv'
    BY <1>1 DEF ReadCount, kernel, NewestInv, Healthy, PromiseInv, EndInv
  <2>5. QED
    BY <2>1, <2>2, <2>3, <2>4 DEF ThreadsInv
<1>2. CASE Open
  <2>1. ThreadsType'
    BY <1>2 DEF Open, kernel, ThreadsType, Calls
  <2>2. CountInv' /\ MaskInv'
    <3>1. CountInv'
      BY <1>2 DEF Open, kernel, ThreadsType, CountInv, FileIsOpen
    <3>2. MaskInv'
      BY <1>2 DEF Open, kernel, PromiseInv, MaskInv
    <3>3. QED
      BY <3>1, <3>2
  <2>3. PromiseInv' /\ EndInv'
    BY <1>2 DEF Open, kernel, PromiseInv, EndInv
  <2>4. NewestInv'
    BY <1>2 DEF Open, kernel, NewestInv, Healthy, PromiseInv, EndInv
  <2>5. QED
    BY <2>1, <2>2, <2>3, <2>4 DEF ThreadsInv
<1>3. CASE Activate
  <2>1. ThreadsType'
    BY <1>3 DEF Activate, kernel, ThreadsType, Calls, Places
  <2>2. CountInv' /\ MaskInv'
    BY <1>3 DEF Activate, kernel, ThreadsType, CountInv, FileIsOpen, MaskInv, PromiseInv
  <2>3. PromiseInv' /\ EndInv'
    BY <1>3 DEF Activate, kernel, PromiseInv, EndInv
  <2>4. NewestInv'
    BY <1>3 DEF Activate, kernel, NewestInv, Healthy, PromiseInv, EndInv
  <2>5. QED
    BY <2>1, <2>2, <2>3, <2>4 DEF ThreadsInv
<1>4. CASE Activated
  <2>1. ThreadsType'
    BY <1>4 DEF Activated, kernel, Poll, ThreadsType, Calls
  <2>2. CountInv' /\ MaskInv'
    BY <1>4 DEF Activated, kernel, Poll, ThreadsType, CountInv, FileIsOpen, MaskInv, PromiseInv
  <2>3. PromiseInv' /\ EndInv'
    BY <1>4 DEF Activated, kernel, Poll, PromiseInv, EndInv
  <2>4. NewestInv'
    BY <1>4 DEF Activated, kernel, Poll, NewestInv, Healthy, PromiseInv, EndInv
  <2>5. QED
    BY <2>1, <2>2, <2>3, <2>4 DEF ThreadsInv
<1>5. CASE OtherError
  <2>1. ThreadsType'
    BY <1>5 DEF OtherError, kernel, ThreadsType, Calls
  <2>2. CountInv' /\ MaskInv'
    BY <1>5 DEF OtherError, kernel, ThreadsType, CountInv, FileIsOpen, MaskInv, PromiseInv
  <2>3. PromiseInv' /\ EndInv'
    BY <1>5 DEF OtherError, kernel, PromiseInv, EndInv
  <2>4. NewestInv'
    BY <1>5 DEF OtherError, kernel, NewestInv, Healthy, PromiseInv, EndInv
  <2>5. QED
    BY <2>1, <2>2, <2>3, <2>4 DEF ThreadsInv
<1>6. CASE Close
  <2>1. ThreadsType'
    BY <1>6 DEF Close, kernel, ThreadsType, Calls
  <2>2. CountInv' /\ MaskInv'
    BY <1>6 DEF Close, kernel, ThreadsType, CountInv, FileIsOpen, MaskInv, PromiseInv
  <2>3. PromiseInv' /\ EndInv'
    BY <1>6 DEF Close, kernel, PromiseInv, EndInv
  <2>4. NewestInv'
    BY <1>6 DEF Close, kernel, NewestInv, Healthy, PromiseInv, EndInv
  <2>5. QED
    BY <2>1, <2>2, <2>3, <2>4 DEF ThreadsInv
<1>7. CASE Join
  <2>1. ThreadsType'
    BY <1>7 DEF Join, kernel, ThreadsType, Calls, Places
  <2>2. CountInv' /\ MaskInv'
    BY <1>7 DEF Join, kernel, ThreadsType, CountInv, FileIsOpen, MaskInv, PromiseInv
  <2>3. PromiseInv' /\ EndInv'
    BY <1>7 DEF Join, kernel, PromiseInv, EndInv
  <2>4. NewestInv'
    BY <1>7 DEF Join, kernel, NewestInv, Healthy, PromiseInv, EndInv
  <2>5. QED
    BY <2>1, <2>2, <2>3, <2>4 DEF ThreadsInv
<1>8. QED
  BY <1>1, <1>2, <1>3, <1>4, <1>5, <1>6, <1>7

\* The thread clears the interrupt before it reads the events, and distributes
\* the data after it has cleared them.
LEMMA ThreadStep == ASSUME CounterAssumption, ThreadsInv, Thread PROVE ThreadsInv'
<1> ThreadsType /\ CountInv /\ MaskInv /\ PromiseInv /\ EndInv /\ NewestInv
  BY DEF ThreadsInv
<1>1. FileIsOpen
  <2>1. thread # "none"
    BY DEF Thread, StartUio, StartXdma, Check, ClearFirst, WaitForInterrupt, Clear, Distribute, Stopped,
           Fail, Report, Goto
  <2>2. QED
    BY <2>1 DEF PromiseInv, FileIsOpen
<1>2. CASE StartUio \/ ClearFirst \/ Clear
  <2>1. kind = "uio" /\ ClearInterrupts
    BY <1>2 DEF StartUio, ClearFirst, Clear, Goto, MaskInv
  <2>2. /\ ~pending' /\ UNCHANGED <<present, data>>
        /\ counter' \in Nat /\ counter' >= counter /\ counter' <= FirstCount + data
        /\ unread' \in Nat /\ unread' >= unread
        /\ masked' => unread' > 0
        /\ counter' = counter => unread' = unread
    BY <1>1, <2>1, ClearStep
  <2>3. UNCHANGED <<kind, lastCount, pc, exception, stop, polled>>
    BY <1>2 DEF StartUio, ClearFirst, Clear, backend
  <2>4. thread' \in Places
    BY <1>2 DEF StartUio, ClearFirst, Clear, Goto, Places
  <2>5. ThreadsType'
    BY <2>2, <2>3, <2>4 DEF ThreadsType
  <2>6. CountInv'
    BY <2>2, <2>3 DEF ThreadsType, CountInv, FileIsOpen
  <2>7. MaskInv'
    BY <2>1, <2>2, <2>3 DEF MaskInv
  <2>8. PromiseInv' /\ EndInv'
    <3>1. CASE StartUio
      BY <2>3, <3>1 DEF StartUio, Goto, backend, PromiseInv, EndInv
    <3>2. CASE ClearFirst
      <4>1. thread = "clear first" /\ thread' = "wait" /\ done'
        BY <3>2 DEF ClearFirst, Goto
      <4>2. QED
        BY <2>3, <4>1 DEF PromiseInv, EndInv
    <3>3. CASE Clear
      BY <2>3, <3>3 DEF Clear, backend, PromiseInv, EndInv
    <3>4. QED
      BY <1>2, <3>1, <3>2, <3>3
  <2>9. NewestInv'
    <3>1. Healthy => ~exception /\ pc = "active"
      BY DEF Healthy
    <3>2. Healthy => thread = "clear" /\ thread' = "distribute"
      BY <1>2, <3>1 DEF StartUio, ClearFirst, Clear, Goto, PromiseInv
    <3>3. Healthy' <=> Healthy
      BY <2>2, <2>3 DEF Healthy
    <3>4. QED
      BY <3>2, <3>3 DEF NewestInv
  <2>10. QED
    BY <2>5, <2>6, <2>7, <2>8, <2>9 DEF ThreadsInv
<1>3. CASE ReadEvent /\ (Check \/ WaitForInterrupt)
  <2>1. /\ unread > 0 /\ unread' = 0 /\ lastCount' = counter
        /\ kind = "uio" => Occurred > 0
        /\ UNCHANGED <<present, data, counter, masked, pending>>
    BY <1>1, <1>3, EventStep
  <2>2. UNCHANGED <<kind, pc, exception, stop, polled>>
    BY <1>3 DEF Check, WaitForInterrupt
  <2>3. \/ kind = "uio" /\ thread = "check" /\ thread' = "clear first"
        \/ kind = "uio" /\ thread = "wait" /\ thread' = "clear"
        \/ kind = "xdma" /\ thread = "wait" /\ thread' = "distribute"
    <3>1. CASE Check
      <4>1. kind = "uio" /\ thread = "check"
        BY <3>1 DEF Check, MaskInv
      <4>2. Occurred > 0
        BY <2>1, <4>1
      <4>3. thread' = "clear first"
        <5>1. unread # 0
          BY <2>1
        <5>2. QED
          BY <3>1, <4>2, <5>1 DEF Check
      <4>4. QED
        BY <4>1, <4>3
    <3>2. CASE WaitForInterrupt
      BY <2>1, <3>2 DEF WaitForInterrupt, ThreadsType
    <3>3. QED
      BY <1>3, <3>1, <3>2
  <2>4. UNCHANGED done
    BY <1>3, <2>1, <2>3 DEF Check, WaitForInterrupt
  <2>5. thread' \in Places
    BY <2>3 DEF Places
  <2>6. ThreadsType'
    BY <2>1, <2>2, <2>5 DEF ThreadsType
  <2>7. CountInv'
    BY <2>1, <2>2 DEF ThreadsType, CountInv
  <2>8. MaskInv'
    BY <2>1, <2>2, <2>3 DEF MaskInv
  <2>9. PromiseInv' /\ EndInv'
    BY <2>1, <2>2, <2>3, <2>4 DEF PromiseInv, EndInv
  <2>10. NewestInv'
    <3>1. Healthy' => Healthy /\ pc = "active"
      BY <2>1, <2>2 DEF Healthy
    <3>2. Healthy' => thread' \in {"clear", "distribute"}
      BY <2>3, <3>1 DEF PromiseInv
    <3>3. QED
      BY <3>2 DEF NewestInv
  <2>11. QED
    BY <2>6, <2>7, <2>8, <2>9, <2>10 DEF ThreadsInv
<1>4. CASE StartXdma
  <2>1. ThreadsType'
    BY <1>4 DEF StartXdma, Goto, kernel, backend, ThreadsType, Calls, Places
  <2>2. CountInv' /\ MaskInv'
    BY <1>4 DEF StartXdma, Goto, kernel, backend, ThreadsType, CountInv, FileIsOpen, MaskInv, PromiseInv
  <2>3. PromiseInv' /\ EndInv'
    BY <1>4 DEF StartXdma, Goto, kernel, backend, PromiseInv, EndInv
  <2>4. NewestInv'
    BY <1>4 DEF StartXdma, Goto, kernel, backend, NewestInv, Healthy, PromiseInv, EndInv
  <2>5. QED
    BY <2>1, <2>2, <2>3, <2>4 DEF ThreadsInv
<1>5. CASE Check /\ unread = 0 /\ UNCHANGED <<kernel, lastCount>>
  <2>1. ThreadsType'
    BY <1>5 DEF Check, Goto, kernel, backend, ThreadsType, Calls, Places
  <2>2. CountInv' /\ MaskInv'
    BY <1>5 DEF Check, Goto, kernel, backend, ThreadsType, CountInv, FileIsOpen, MaskInv, PromiseInv
  <2>3. PromiseInv' /\ EndInv'
    BY <1>5 DEF Check, Goto, kernel, backend, PromiseInv, EndInv
  <2>4. NewestInv'
    BY <1>5 DEF Check, Goto, kernel, backend, NewestInv, Healthy, PromiseInv, EndInv
  <2>5. QED
    BY <2>1, <2>2, <2>3, <2>4 DEF ThreadsInv
<1>6. CASE Distribute
  <2>1. ThreadsType'
    BY <1>6 DEF Distribute, Goto, kernel, backend, Poll, ThreadsType, Calls, Places
  <2>2. CountInv' /\ MaskInv'
    BY <1>6 DEF Distribute, Goto, kernel, backend, Poll, ThreadsType, CountInv, FileIsOpen, MaskInv, PromiseInv
  <2>3. PromiseInv' /\ EndInv'
    BY <1>6 DEF Distribute, Goto, kernel, backend, Poll, PromiseInv, EndInv
  <2>4. NewestInv'
    BY <1>6 DEF Distribute, Goto, kernel, backend, Poll, NewestInv, Healthy, PromiseInv, EndInv
  <2>5. QED
    BY <2>1, <2>2, <2>3, <2>4 DEF ThreadsInv
<1>7. CASE Stopped
  <2>1. ThreadsType'
    BY <1>7 DEF Stopped, Goto, kernel, backend, ThreadsType, Calls, Places
  <2>2. CountInv' /\ MaskInv'
    BY <1>7 DEF Stopped, Goto, kernel, backend, ThreadsType, CountInv, FileIsOpen, MaskInv, PromiseInv
  <2>3. PromiseInv' /\ EndInv'
    BY <1>7 DEF Stopped, Goto, kernel, backend, PromiseInv, EndInv
  <2>4. NewestInv'
    BY <1>7 DEF Stopped, Goto, kernel, backend, NewestInv, Healthy, PromiseInv, EndInv
  <2>5. QED
    BY <2>1, <2>2, <2>3, <2>4 DEF ThreadsInv
<1>8. CASE Fail
  <2>1. ThreadsType'
    BY <1>8 DEF Fail, Goto, kernel, backend, ThreadsType, Calls, Places
  <2>2. CountInv' /\ MaskInv'
    BY <1>8 DEF Fail, Goto, kernel, backend, ThreadsType, CountInv, FileIsOpen, MaskInv, PromiseInv
  <2>3. PromiseInv' /\ EndInv'
    BY <1>8 DEF Fail, Goto, kernel, backend, PromiseInv, EndInv
  <2>4. NewestInv'
    BY <1>8 DEF Fail, Goto, kernel, backend, NewestInv, Healthy, PromiseInv, EndInv
  <2>5. QED
    BY <2>1, <2>2, <2>3, <2>4 DEF ThreadsInv
<1>9. CASE Report
  <2>1. ThreadsType'
    BY <1>9 DEF Report, Goto, kernel, backend, ThreadsType, Calls, Places
  <2>2. CountInv' /\ MaskInv'
    BY <1>9 DEF Report, Goto, kernel, backend, ThreadsType, CountInv, FileIsOpen, MaskInv, PromiseInv
  <2>3. PromiseInv' /\ EndInv'
    BY <1>9 DEF Report, Goto, kernel, backend, PromiseInv, EndInv
  <2>4. NewestInv'
    BY <1>9 DEF Report, Goto, kernel, backend, NewestInv, Healthy, PromiseInv, EndInv
  <2>5. QED
    BY <2>1, <2>2, <2>3, <2>4 DEF ThreadsInv
<1>10. Check => ReadEvent \/ (unread = 0 /\ UNCHANGED <<kernel, lastCount>>)
  BY DEF Check
<1>11. WaitForInterrupt => ReadEvent
  BY DEF WaitForInterrupt
<1>12. QED
  BY <1>2, <1>3, <1>4, <1>5, <1>6, <1>7, <1>8, <1>9, <1>10, <1>11 DEF Thread

-----------------------------------------------------------------------------
(* The theorem *)

LEMMA InvNext ==
  ASSUME CounterAssumption, ThreadsInv, [InterruptThreadsNext]_interruptThreadsVars
  PROVE  ThreadsInv'
<1>1. CASE InterruptThreadsNext
  BY <1>1, DeviceStep, ApplicationStep, ThreadStep DEF InterruptThreadsNext
<1>2. CASE UNCHANGED interruptThreadsVars
  BY <1>2 DEF interruptThreadsVars, kernel, backend, ThreadsInv, ThreadsType, CountInv, MaskInv,
     PromiseInv, EndInv, NewestInv, Healthy, FileIsOpen
<1>3. QED
  BY <1>1, <1>2

LEMMA InvImplies == ASSUME ThreadsInv PROVE ThreadsMissNoInterrupt
<1>1. NoInterruptIsLost
  BY DEF ThreadsInv, ThreadsType, MaskInv, NewestInv, Healthy, NoInterruptIsLost
<1>2. ActivationIsNotBlocked
  BY DEF ThreadsInv, PromiseInv, ActivationIsNotBlocked
<1>3. QED
  BY <1>1, <1>2 DEF ThreadsMissNoInterrupt

(***************************************************************************)
(* The interrupt threads of the UIO and XDMA backends lose no interrupt:   *)
(* one which waits for the next event has distributed the newest data and  *)
(* has left the interrupt enabled, whenever interrupts, removals, errors   *)
(* and calls of the application happen. activateAsyncRead() never waits    *)
(* for the promise of a thread which has ended.                            *)
(***************************************************************************)
THEOREM NoInterruptLost ==
  ASSUME CounterAssumption
  PROVE  InterruptThreadsSpec => []ThreadsMissNoInterrupt
<1>1. InterruptThreadsInit => ThreadsInv
  BY InvInit
<1>2. ThreadsInv /\ [InterruptThreadsNext]_interruptThreadsVars => ThreadsInv'
  BY InvNext
<1>3. ThreadsInv => ThreadsMissNoInterrupt
  BY InvImplies
<1>4. QED
  BY <1>1, <1>2, <1>3, PTL DEF InterruptThreadsSpec

-----------------------------------------------------------------------------
(***************************************************************************)
(* ExceptionDummy: the accessors which a call has passed are as it leaves  *)
(* them, the ones which it has still to visit are as it found them.        *)
(***************************************************************************)

Operations == {"triggerPush", "activateAsyncRead", "setExceptionImpl", "getRegisterAccessor"}
CallPlaces == {"lock", "loop", "trigger", "catch", "locking again"}
CallRecords == [op : Operations, todo : Seq(Accessors), at : CallPlaces]
Elements == {"nothing", "value", "exception"}

Members(s) == { s[i] : i \in DOMAIN s }
Distinct(s) == \A i, j \in DOMAIN s : s[i] = s[j] => i = j

DummyType ==
  /\ created \in Seq(Accessors)
  /\ isActive \in [Accessors -> BOOLEAN] /\ hasException \in [Accessors -> BOOLEAN]
  /\ pushed \in [Accessors -> Elements \X Elements]
  /\ activateNew \in BOOLEAN /\ activeException \in BOOLEAN /\ throwing \in BOOLEAN /\ locked \in BOOLEAN
  /\ calls \in Seq(CallRecords)

\* The accessors are created in their order.
CreatedInv ==
  /\ Len(created) <= Len(Order)
  /\ \A i \in DOMAIN created : created[i] = Order[i]

\* An accessor is untouched before it is created, no exception follows another
\* one, and the exception of an active accessor is forgotten.
PushedInv ==
  \A a \in Accessors :
    /\ pushed[a] # <<"exception", "exception">>
    /\ isActive[a] => ~hasException[a]
    /\ a \notin Members(created) => ~isActive[a] /\ ~hasException[a] /\ pushed[a] = <<"nothing", "nothing">>

\* An accessor whose newest element fits to its activity.
Settled(a, active) == (isActive[a] <=> active) /\ (pushed[a][2] = "value" <=> active)

\* What a call leaves.
Result(op) ==
  CASE op = "activateAsyncRead" -> TRUE
    [] op = "setExceptionImpl" -> FALSE
    [] OTHER -> activateNew

\* Whether the call c has started with its first accessor, without having finished.
Busy(c) == c.at \in {"trigger", "catch", "locking again"}

\* The accessor which c is busy with.
Current(c, a) ==
  CASE c.op = "triggerPush" ->
         /\ Settled(a, activateNew)
         /\ c.at = "trigger" => activateNew
         /\ c.at = "catch" => hasException[a] /\ ~activateNew
    [] c.op = "activateAsyncRead" ->
         /\ ~isActive[a] /\ ~activateNew /\ c.at # "catch"
         /\ pushed[a][2] = "value" <=> c.at = "locking again"
    [] c.op = "setExceptionImpl" ->
         IF c.at = "locking again" THEN Settled(a, FALSE) /\ hasException[a]
         ELSE /\ activateNew /\ ~isActive[a] /\ pushed[a][2] = "value"
              /\ c.at = "catch" => ~hasException[a]
    [] c.op = "getRegisterAccessor" ->
         c.at = "trigger" /\ activateNew /\ isActive[a] /\ pushed[a] = <<"nothing", "nothing">>

\* Each accessor during the call c.
Visited(c, a) ==
  IF a \in Members(c.todo)
  THEN IF Busy(c) /\ a = Head(c.todo) THEN Current(c, a) ELSE Settled(a, activateNew)
  ELSE Settled(a, Result(c.op))

\* The mutex and the errors during a call.
CallFits(c) ==
  /\ Busy(c) => c.todo # <<>>
  /\ locked <=> c.at = "loop" \/ (c.op = "getRegisterAccessor" /\ c.at = "trigger")
  /\ IF c.op = "getRegisterAccessor"
     THEN /\ c.at \in {"lock", "loop"} /\ c.todo # <<>> =>
               Len(created) < Len(Order) /\ c.todo = <<Order[Len(created) + 1]>>
          /\ c.at = "lock" => c.todo # <<>>
          /\ Busy(c) => c.at = "trigger" /\ Head(c.todo) \in Members(created)
     ELSE Distinct(c.todo) /\ Members(c.todo) \subseteq Members(created)
  /\ CASE c.op = "triggerPush" -> activateNew => ~activeException
       [] c.op = "getRegisterAccessor" -> activateNew => ~activeException /\ ~throwing
       [] c.op = "activateAsyncRead" -> ~activeException /\ ~throwing
       [] c.op = "setExceptionImpl" -> activeException

\* The call d which triggers accessors has made the call c of setExceptionImpl(),
\* because reading its accessor failed. It knows that c has pushed the exception.
Nested(d, c) ==
  /\ activateNew
  /\ c.op = "setExceptionImpl" /\ d.op = "triggerPush" /\ d.at = "catch"
  /\ d.todo # <<>> /\ Distinct(d.todo) /\ Members(d.todo) \subseteq Members(created)
  /\ Head(d.todo) \notin Members(c.todo) => hasException[Head(d.todo)]

CallsInv ==
  IF calls = <<>>
  THEN /\ ~locked /\ (activateNew => ~activeException)
       /\ \A a \in Members(created) : Settled(a, activateNew)
  ELSE /\ CallFits(Top)
       /\ \A a \in Members(created) : Visited(Top, a)
       /\ Tail(calls) # <<>> => Tail(Tail(calls)) = <<>> /\ Nested(Head(Tail(calls)), Top)

DummyInv == DummyType /\ CreatedInv /\ PushedInv /\ CallsInv

-----------------------------------------------------------------------------
(* Stacks of calls, and the accessors which they have still to visit *)

LEMMA CallOnTop ==
  ASSUME NEW S, NEW x \in S, NEW s \in Seq(S)
  PROVE  /\ <<x>> \o s \in Seq(S) /\ <<x>> \o s # <<>>
         /\ Head(<<x>> \o s) = x /\ Tail(<<x>> \o s) = s
<1>1. /\ <<x>> \in Seq(S) /\ Len(<<x>> \o s) = 1 + Len(s)
      /\ \A i \in 1 .. Len(s) : (<<x>> \o s)[1 + i] = s[i]
      /\ (<<x>> \o s)[1] = x
  OBVIOUS
<1>2. Tail(<<x>> \o s) \in Seq(S) /\ Len(Tail(<<x>> \o s)) = Len(s)
  BY <1>1
<1>3. \A i \in 1 .. Len(s) : Tail(<<x>> \o s)[i] = s[i]
  BY <1>1
<1> QED BY <1>1, <1>2, <1>3

LEMMA RestOfSequence ==
  ASSUME NEW S, NEW s \in Seq(S), s # <<>>
  PROVE  /\ Head(s) \in S /\ Tail(s) \in Seq(S) /\ Head(s) \in Members(s)
         /\ \A e \in Members(s) : e = Head(s) \/ e \in Members(Tail(s))
         /\ Members(Tail(s)) \subseteq Members(s)
         /\ Distinct(s) => Distinct(Tail(s)) /\ Head(s) \notin Members(Tail(s))
<1>1. Len(s) \in Nat \ {0} /\ Head(s) = s[1] /\ Tail(s) \in Seq(S) /\ Len(Tail(s)) = Len(s) - 1
  OBVIOUS
<1>2. \A i \in 1 .. Len(s) - 1 : Tail(s)[i] = s[i + 1]
  OBVIOUS
<1>3. DOMAIN s = 1 .. Len(s) /\ DOMAIN Tail(s) = 1 .. Len(s) - 1
  BY <1>1
<1>4. ASSUME NEW e \in Members(s) PROVE e = Head(s) \/ e \in Members(Tail(s))
  <2>1. PICK i \in 1 .. Len(s) : e = s[i]
    BY <1>3, <1>4 DEF Members
  <2>2. CASE i = 1
    BY <1>1, <2>1, <2>2
  <2>3. CASE i # 1
    <3>1. i - 1 \in 1 .. Len(s) - 1 /\ Tail(s)[i - 1] = s[i]
      BY <1>1, <1>2, <2>1, <2>3
    <3> QED BY <3>1, <2>1, <1>3 DEF Members
  <2> QED BY <2>2, <2>3
<1>5. Members(Tail(s)) \subseteq Members(s)
  BY <1>1, <1>2, <1>3 DEF Members
<1>6. Distinct(s) => Distinct(Tail(s)) /\ Head(s) \notin Members(Tail(s))
  BY <1>1, <1>2, <1>3 DEF Members, Distinct
<1>7. Head(s) \in S /\ Head(s) \in Members(s)
  BY <1>1, <1>3 DEF Members
<1> QED BY <1>1, <1>4, <1>5, <1>6, <1>7

LEMMA AppendedMember ==
  ASSUME NEW S, NEW s \in Seq(S), NEW e \in S
  PROVE  /\ Append(s, e) \in Seq(S) /\ Len(Append(s, e)) = Len(s) + 1
         /\ Members(Append(s, e)) = Members(s) \cup {e}
<1>1. /\ Append(s, e) \in Seq(S) /\ Len(Append(s, e)) = Len(s) + 1
      /\ \A i \in 1 .. Len(s) : Append(s, e)[i] = s[i]
      /\ Append(s, e)[Len(s) + 1] = e
  OBVIOUS
<1>2. DOMAIN s = 1 .. Len(s) /\ DOMAIN Append(s, e) = 1 .. Len(s) + 1 /\ Len(s) \in Nat
  BY <1>1
<1>3. Members(Append(s, e)) \subseteq Members(s) \cup {e}
  BY <1>1, <1>2 DEF Members
<1>4. Members(s) \subseteq Members(Append(s, e))
  BY <1>1, <1>2 DEF Members
<1>5. e \in Members(Append(s, e))
  BY <1>1, <1>2 DEF Members
<1> QED BY <1>1, <1>3, <1>4, <1>5

LEMMA CreatedOnce ==
  ASSUME DummyAssumption, DummyType, CreatedInv
  PROVE  /\ Distinct(created) /\ Members(created) \subseteq Accessors
         /\ Len(created) < Len(Order) =>
              Order[Len(created) + 1] \in Accessors \ Members(created)
<1>1. /\ Len(created) \in Nat /\ Len(Order) \in Nat
      /\ DOMAIN created = 1 .. Len(created) /\ DOMAIN Order = 1 .. Len(Order)
  BY DEF DummyAssumption, DummyType
<1> QED BY <1>1 DEF DummyAssumption, CreatedInv, Distinct, Members, Accessors

LEMMA CallsUnderWay ==
  ASSUME DummyType, calls # <<>>
  PROVE  /\ Top \in CallRecords /\ Tail(calls) \in Seq(CallRecords)
         /\ Top.op \in Operations /\ Top.todo \in Seq(Accessors) /\ Top.at \in CallPlaces
         /\ \A i \in DOMAIN calls : Tail(calls) = <<>> => calls[i] = Top
<1>1. Len(calls) \in Nat \ {0} /\ Top = calls[1] /\ Tail(calls) \in Seq(CallRecords) /\ calls[1] \in CallRecords
  BY DEF DummyType, Top
<1>2. DOMAIN calls = 1 .. Len(calls) /\ Len(Tail(calls)) = Len(calls) - 1 /\ Len(<<>>) = 0
  BY DEF DummyType
<1>3. Tail(calls) = <<>> => Len(calls) = 1
  BY <1>1, <1>2
<1>4. \A i \in DOMAIN calls : Tail(calls) = <<>> => calls[i] = Top
  BY <1>1, <1>2, <1>3
<1> QED BY <1>1, <1>4 DEF CallRecords

\* The call on top goes on.
LEMMA CallGoesOn ==
  ASSUME DummyType, calls # <<>>, NEW c \in CallRecords, calls' = <<c>> \o Tail(calls)
  PROVE  calls' \in Seq(CallRecords) /\ calls' # <<>> /\ Top' = c /\ Tail(calls') = Tail(calls)
BY CallsUnderWay, CallOnTop DEF Top

-----------------------------------------------------------------------------
(* The steps of ExceptionDummy *)

LEMMA CallStarts ==
  ASSUME DummyAssumption, ~InitialValuesFail, DummyInv,
         TriggerPush \/ ActivateDummy \/ SetDummyException \/ GetPushAccessor
  PROVE  DummyInv'
<1> DEFINE next == <<Order[Len(created) + 1]>>
<1>1. calls = <<>> /\ created \in Seq(Accessors)
  BY DEF TriggerPush, ActivateDummy, SetDummyException, GetPushAccessor, DummyInv, DummyType
<1>2. PICK c \in CallRecords :
        /\ calls' = <<c>> /\ c.at = "lock"
        /\ \/ TriggerPush /\ c.op = "triggerPush" /\ c.todo = created
           \/ ActivateDummy /\ c.op = "activateAsyncRead" /\ c.todo = created
           \/ SetDummyException /\ c.op = "setExceptionImpl" /\ c.todo = created
           \/ GetPushAccessor /\ c.op = "getRegisterAccessor" /\ c.todo = next
  <2> DEFINE call(op, todo) == [op |-> op, todo |-> todo, at |-> "lock"]
  <2>1. CASE TriggerPush
    <3>1. call("triggerPush", created) \in CallRecords
      BY <1>1 DEF CallRecords, Operations, CallPlaces
    <3> QED BY <2>1, <3>1 DEF TriggerPush, Call
  <2>2. CASE ActivateDummy
    <3>1. call("activateAsyncRead", created) \in CallRecords
      BY <1>1 DEF CallRecords, Operations, CallPlaces
    <3> QED BY <2>2, <3>1 DEF ActivateDummy, Call
  <2>3. CASE SetDummyException
    <3>1. call("setExceptionImpl", created) \in CallRecords
      BY <1>1 DEF CallRecords, Operations, CallPlaces
    <3> QED BY <2>3, <3>1 DEF SetDummyException, Call
  <2>4. CASE GetPushAccessor
    <3>1. next \in Seq(Accessors)
      BY <2>4, CreatedOnce DEF GetPushAccessor, DummyInv
    <3>2. call("getRegisterAccessor", next) \in CallRecords
      BY <3>1 DEF CallRecords, Operations, CallPlaces
    <3> QED BY <2>4, <3>2 DEF GetPushAccessor, Call
  <2> QED BY <2>1, <2>2, <2>3, <2>4
<1>3. calls' \in Seq(CallRecords) /\ calls' # <<>> /\ Top' = c /\ Tail(calls') = <<>>
  BY <1>2 DEF Top
<1>4. UNCHANGED <<created, isActive, hasException, pushed, activateNew, throwing, locked>>
  BY DEF TriggerPush, ActivateDummy, SetDummyException, GetPushAccessor
<1>5. activeException' \in BOOLEAN
  BY DEF TriggerPush, ActivateDummy, SetDummyException, GetPushAccessor, DummyInv, DummyType
<1>6. DummyType' /\ CreatedInv' /\ PushedInv'
  BY <1>3, <1>4, <1>5 DEF DummyInv, DummyType, CreatedInv, PushedInv
<1>7. CallFits(c)'
  <2>1. next # <<>>
    OBVIOUS
  <2>2. Distinct(created) /\ ~locked /\ (activateNew => ~activeException)
    BY <1>1, CreatedOnce DEF DummyInv, CallsInv
  <2>3. ~Busy(c)
    BY <1>2 DEF Busy
  <2> HIDE DEF next
  <2>4. CASE GetPushAccessor /\ c.op = "getRegisterAccessor" /\ c.todo = next
    BY <2>1, <2>2, <2>3, <2>4, <1>2, <1>4 DEF CallFits, Busy, GetPushAccessor, next
  <2>5. CASE TriggerPush /\ c.op = "triggerPush" /\ c.todo = created
    BY <2>2, <2>3, <2>5, <1>2, <1>4 DEF CallFits, Busy, TriggerPush
  <2>6. CASE ActivateDummy /\ c.op = "activateAsyncRead" /\ c.todo = created
    BY <2>2, <2>3, <2>6, <1>2, <1>4 DEF CallFits, Busy, ActivateDummy
  <2>7. CASE SetDummyException /\ c.op = "setExceptionImpl" /\ c.todo = created
    BY <2>2, <2>3, <2>7, <1>2, <1>4 DEF CallFits, Busy, SetDummyException
  <2> QED BY <2>4, <2>5, <2>6, <2>7, <1>2
<1>8. ASSUME NEW a \in Members(created) PROVE Visited(c, a)'
  <2>1. c.op = "getRegisterAccessor" => a \notin Members(c.todo)
    BY <1>2, CreatedOnce DEF Members, DummyInv, GetPushAccessor
  <2> QED BY <2>1, <1>1, <1>2, <1>4 DEF Visited, Busy, Result, Settled, DummyInv, CallsInv
<1>9. CallsInv'
  BY <1>3, <1>4, <1>7, <1>8 DEF CallsInv
<1> QED BY <1>6, <1>9 DEF DummyInv

LEMMA ErrorsChange ==
  ASSUME DummyAssumption, ~InitialValuesFail, DummyInv, OpenDummy \/ SwitchThrowing
  PROVE  DummyInv'
<1>1. DummyType' /\ CreatedInv' /\ PushedInv'
  BY DEF OpenDummy, SwitchThrowing, DummyInv, DummyType, CreatedInv, PushedInv
<1>2. CASE OpenDummy
  BY <1>1, <1>2 DEF OpenDummy, DummyInv, CallsInv, Settled
<1>3. CASE SwitchThrowing
  <2>1. CASE calls = <<>>
    BY <1>1, <1>3, <2>1 DEF SwitchThrowing, DummyInv, CallsInv, Settled
  <2>2. CASE calls # <<>>
    <3>1. Top.op \in {"triggerPush", "setExceptionImpl"}
      <4>1. CASE Tail(calls) = <<>>
        <5>1. Len(calls) \in DOMAIN calls
          BY <2>2 DEF DummyInv, DummyType
        <5> QED BY <1>3, <2>2, <4>1, <5>1, CallsUnderWay DEF SwitchThrowing, DummyInv
      <4>2. CASE Tail(calls) # <<>>
        BY <2>2, <4>2 DEF DummyInv, CallsInv, Nested
      <4> QED BY <4>1, <4>2
    <3>2. CallFits(Top)'
      BY <1>3, <2>2, <3>1 DEF SwitchThrowing, DummyInv, CallsInv, CallFits, Busy, Top
    <3>3. \A a \in Members(created) : Visited(Top, a)'
      BY <1>3, <2>2 DEF SwitchThrowing, DummyInv, CallsInv, Visited, Busy, Current, Result, Settled, Top
    <3> QED BY <1>1, <1>3, <2>2, <3>2, <3>3 DEF SwitchThrowing, DummyInv, CallsInv, Nested, Top
  <2> QED BY <2>1, <2>2
<1> QED BY <1>2, <1>3

LEMMA LockKeepsInv ==
  ASSUME DummyAssumption, DummyInv, Lock
  PROVE  DummyInv'
<1>1. calls # <<>> /\ DummyType /\ CreatedInv /\ PushedInv /\ CallsInv
  BY DEF Lock, At, DummyInv
<1> PICK rest \in Seq(CallRecords) : rest = Tail(calls)
  BY <1>1, CallsUnderWay
<1>2. /\ Top \in CallRecords /\ Top.todo \in Seq(Accessors)
      /\ CallFits(Top) /\ \A a \in Members(created) : Visited(Top, a)
      /\ rest # <<>> => Tail(rest) = <<>> /\ Nested(Head(rest), Top)
  BY <1>1, CallsUnderWay DEF CallsInv
<1>3. UNCHANGED <<created, pushed, activateNew, activeException, throwing>> /\ locked' = TRUE
  BY DEF Lock
<1>4. CASE At("lock") /\ GoTo("loop") /\ UNCHANGED <<isActive, hasException>>
  <2>1. PICK c \in CallRecords : c = [Top EXCEPT !.at = "loop"]
    BY <1>2 DEF CallRecords, CallPlaces
  <2>2. /\ Top.at = "lock" /\ c.at = "loop" /\ c.op = Top.op /\ c.todo = Top.todo
        /\ calls' = <<c>> \o rest
    BY <1>2, <1>4, <2>1 DEF At, GoTo, CallRecords
  <2>3. calls' \in Seq(CallRecords) /\ calls' # <<>> /\ Top' = c /\ Tail(calls') = rest
    BY <1>1, <2>2, CallGoesOn
  <2>4. DummyType' /\ CreatedInv' /\ PushedInv'
    BY <1>1, <1>3, <1>4, <2>3 DEF DummyType, CreatedInv, PushedInv
  <2>5. CallFits(c)'
    BY <1>2, <1>3, <2>2 DEF CallFits, Busy
  <2>6. ASSUME NEW a \in Members(created) PROVE Visited(c, a)'
    BY <1>2, <1>3, <1>4, <2>2 DEF Visited, Busy, Result, Settled
  <2>7. rest # <<>> => Nested(Head(rest), c)'
    BY <1>2, <1>3, <1>4, <2>2 DEF Nested
  <2>8. CallsInv'
    BY <1>2, <1>3, <2>3, <2>5, <2>6, <2>7 DEF CallsInv
  <2> QED BY <2>4, <2>8 DEF DummyInv
<1>5. CASE At("locking again")
  <2>1. Top.at = "locking again" /\ Top.todo # <<>> /\ Tail(Top.todo) \in Seq(Accessors) /\ Acc \in Accessors
    BY <1>2, <1>5, RestOfSequence DEF At, CallFits, Busy, Acc
  <2>2. PICK c \in CallRecords : c = [Top EXCEPT !.at = "loop", !.todo = Tail(@)]
    BY <1>2, <2>1 DEF CallRecords, CallPlaces
  <2>3. /\ c.at = "loop" /\ c.op = Top.op /\ c.todo = Tail(Top.todo)
        /\ calls' = <<c>> \o rest
    BY <1>2, <1>5, <2>1, <2>2 DEF At, Lock, CallRecords
  <2>4. calls' \in Seq(CallRecords) /\ calls' # <<>> /\ Top' = c /\ Tail(calls') = rest
    BY <1>1, <2>3, CallGoesOn
  <2>5. /\ Top.op # "getRegisterAccessor" /\ Distinct(Top.todo) /\ Acc \in Members(created)
        /\ Members(Top.todo) \subseteq Members(created)
    BY <1>2, <2>1, RestOfSequence DEF CallFits, Busy, Acc
  <2>6. /\ Distinct(Tail(Top.todo)) /\ Acc \notin Members(Tail(Top.todo)) /\ Acc \in Members(Top.todo)
        /\ \A a \in Members(Top.todo) : a = Acc \/ a \in Members(Tail(Top.todo))
        /\ Members(Tail(Top.todo)) \subseteq Members(Top.todo)
    BY <1>2, <2>1, <2>5, RestOfSequence DEF Acc
  <2>7. /\ isActive' = IF Top.op = "activateAsyncRead" THEN [isActive EXCEPT ![Acc] = TRUE] ELSE isActive
        /\ hasException' = IF Top.op = "activateAsyncRead" THEN [hasException EXCEPT ![Acc] = FALSE] ELSE hasException
    BY <1>5, <2>1 DEF Lock, At
  <2>8. DummyType' /\ CreatedInv'
    BY <1>1, <1>3, <2>4, <2>7 DEF DummyType, CreatedInv
  <2>9. PushedInv'
    BY <1>1, <1>3, <2>1, <2>5, <2>7 DEF DummyType, PushedInv
  <2>10. CallFits(c)'
    BY <1>2, <1>3, <2>1, <2>3, <2>5, <2>6 DEF CallFits, Busy
  <2>11. ASSUME NEW a \in Members(created) PROVE Visited(c, a)'
    <3>1. a \in Accessors
      BY <1>1, CreatedOnce
    <3>2. CASE a = Acc
      <4>1. Current(Top, a) /\ a \notin Members(c.todo)
        BY <1>2, <2>1, <2>3, <2>6, <3>2 DEF Visited, Busy, Acc
      <4> QED BY <1>1, <1>2, <1>3, <2>1, <2>3, <2>5, <2>7, <3>1, <3>2, <4>1
              DEF Visited, Current, Result, Settled, DummyType, CallRecords, Operations
    <3>3. CASE a # Acc
      <4>1. isActive'[a] = isActive[a] /\ (a \in Members(c.todo) <=> a \in Members(Top.todo))
        BY <1>1, <2>1, <2>3, <2>6, <2>7, <3>1, <3>3 DEF DummyType
      <4> QED BY <1>2, <1>3, <2>3, <3>3, <4>1 DEF Visited, Busy, Result, Settled, Acc
    <3> QED BY <3>2, <3>3
  <2>12. ASSUME rest # <<>> PROVE Nested(Head(rest), c)'
    <3> DEFINE a == Head(Head(rest).todo)
    <3>1. Nested(Head(rest), Top) /\ Top.op = "setExceptionImpl" /\ hasException' = hasException
      BY <1>2, <2>7, <2>12 DEF Nested
    <3>2. Visited(Top, Acc) /\ (Acc = Head(Top.todo))
      BY <1>2, <2>5 DEF Acc
    <3>3. a = Acc => hasException[a]
      BY <2>1, <2>6, <3>1, <3>2 DEF Visited, Busy, Current
    <3>4. a \notin Members(c.todo) => hasException[a]
      BY <2>3, <2>6, <3>1, <3>3 DEF Nested
    <3> QED BY <1>3, <2>3, <3>1, <3>4 DEF Nested
  <2>13. CallsInv'
    BY <1>2, <1>3, <2>4, <2>10, <2>11, <2>12 DEF CallsInv
  <2> QED BY <2>8, <2>9, <2>13 DEF DummyInv
<1> QED BY <1>4, <1>5 DEF Lock

LEMMA TurnKeepsInv ==
  ASSUME DummyAssumption, DummyInv, Turn
  PROVE  DummyInv'
<1>1. calls # <<>> /\ DummyType /\ CreatedInv /\ PushedInv /\ CallsInv
  BY DEF Turn, At, DummyInv
<1> PICK rest \in Seq(CallRecords) : rest = Tail(calls)
  BY <1>1, CallsUnderWay
<1>2. /\ Top \in CallRecords /\ Top.todo \in Seq(Accessors)
      /\ CallFits(Top) /\ \A a \in Members(created) : Visited(Top, a)
      /\ rest # <<>> => Tail(rest) = <<>> /\ Nested(Head(rest), Top)
  BY <1>1, CallsUnderWay DEF CallsInv
<1>3. /\ UNCHANGED <<created, pushed, activateNew, activeException, throwing>>
      /\ Top.at = "loop" /\ Top.op \in Operations \ {"getRegisterAccessor"} /\ Top.todo # <<>> /\ locked
  BY <1>1, <1>2, CallsUnderWay DEF Turn, At, CallFits
<1>4. /\ Acc \in Accessors /\ Acc \in Members(created) /\ Tail(Top.todo) \in Seq(Accessors)
      /\ Distinct(Top.todo) /\ Members(Top.todo) \subseteq Members(created)
      /\ Distinct(Tail(Top.todo)) /\ Acc \notin Members(Tail(Top.todo)) /\ Acc \in Members(Top.todo)
      /\ \A a \in Members(Top.todo) : a = Acc \/ a \in Members(Tail(Top.todo))
      /\ Members(Tail(Top.todo)) \subseteq Members(Top.todo)
  BY <1>2, <1>3, RestOfSequence DEF CallFits, Acc
<1>5. Settled(Acc, activateNew) /\ ~(isActive[Acc] /\ hasException[Acc])
  BY <1>1, <1>2, <1>3, <1>4 DEF Visited, Busy, PushedInv
<1>6. IF Top.op = "setExceptionImpl"
      THEN /\ isActive' = [isActive EXCEPT ![Acc] = FALSE]
           /\ hasException' = [hasException EXCEPT ![Acc] = @ \/ isActive[Acc]]
      ELSE UNCHANGED <<isActive, hasException>>
  BY DEF Turn
<1>7. CreatedInv' /\ isActive' \in [Accessors -> BOOLEAN] /\ hasException' \in [Accessors -> BOOLEAN]
  BY <1>1, <1>3, <1>4, <1>6 DEF CreatedInv, DummyType
<1>8. PushedInv'
  BY <1>1, <1>3, <1>4, <1>6 DEF PushedInv, DummyType
<1>9. Skips(Top.op) <=> IF Top.op = "activateAsyncRead" THEN isActive[Acc] ELSE ~isActive[Acc]
  BY <1>1, <1>3, <1>4, <1>5 DEF Skips, Operations, DummyType
<1>10. CASE Skips(Top.op)
  <2>1. PICK c \in CallRecords : c = [Top EXCEPT !.todo = Tail(@)]
    BY <1>2, <1>4 DEF CallRecords
  <2>2. /\ c.at = "loop" /\ c.op = Top.op /\ c.todo = Tail(Top.todo)
        /\ calls' = <<c>> \o rest /\ locked' = locked
    BY <1>2, <1>3, <1>10, <2>1 DEF Turn, CallRecords
  <2>3. calls' \in Seq(CallRecords) /\ calls' # <<>> /\ Top' = c /\ Tail(calls') = rest
    BY <1>1, <2>2, CallGoesOn
  <2>4. DummyType'
    BY <1>1, <1>3, <1>7, <2>2, <2>3 DEF DummyType
  <2>5. CallFits(c)'
    BY <1>2, <1>3, <1>4, <2>2 DEF CallFits, Busy
  <2>6. ASSUME NEW a \in Members(created) PROVE Visited(c, a)'
    <3>1. a \in Accessors
      BY <1>1, CreatedOnce
    <3>2. CASE a = Acc
      BY <1>1, <1>3, <1>4, <1>5, <1>6, <1>9, <1>10, <2>2, <3>2 DEF Visited, Busy, Result, Settled, DummyType
    <3>3. CASE a # Acc
      <4>1. isActive'[a] = isActive[a] /\ (a \in Members(c.todo) <=> a \in Members(Top.todo))
        BY <1>1, <1>4, <1>6, <2>2, <3>1, <3>3 DEF DummyType
      <4> QED BY <1>2, <1>3, <2>2, <3>3, <4>1 DEF Visited, Busy, Result, Settled
    <3> QED BY <3>2, <3>3
  <2>7. ASSUME rest # <<>> PROVE FALSE
    BY <1>2, <1>5, <1>9, <1>10, <2>7 DEF Nested, Settled
  <2>8. CallsInv'
    BY <1>3, <2>3, <2>5, <2>6, <2>7 DEF CallsInv
  <2> QED BY <1>7, <1>8, <2>4, <2>8 DEF DummyInv
<1>11. CASE ~Skips(Top.op)
  <2>1. PICK c \in CallRecords : c = [Top EXCEPT !.at = "trigger"]
    BY <1>2 DEF CallRecords, CallPlaces
  <2>2. /\ c.at = "trigger" /\ c.op = Top.op /\ c.todo = Top.todo
        /\ calls' = <<c>> \o rest /\ locked' = FALSE
    BY <1>2, <1>3, <1>11, <2>1 DEF Turn, GoTo, CallRecords
  <2>3. calls' \in Seq(CallRecords) /\ calls' # <<>> /\ Top' = c /\ Tail(calls') = rest
    BY <1>1, <2>2, CallGoesOn
  <2>4. DummyType'
    BY <1>1, <1>3, <1>7, <2>2, <2>3 DEF DummyType
  <2>5. CallFits(c)'
    BY <1>2, <1>3, <1>4, <2>2 DEF CallFits, Busy
  <2>6. ASSUME NEW a \in Members(created) PROVE Visited(c, a)'
    <3>1. a \in Accessors
      BY <1>1, CreatedOnce
    <3>2. CASE a = Acc
      <4>1. Current(c, a)'
        BY <1>1, <1>3, <1>4, <1>5, <1>6, <1>9, <1>11, <2>2, <3>2 DEF Current, Settled, DummyType, Operations
      <4> QED BY <1>4, <2>2, <3>2, <4>1 DEF Visited, Busy, Acc
    <3>3. CASE a # Acc
      <4>1. isActive'[a] = isActive[a]
        BY <1>1, <1>4, <1>6, <3>1, <3>3 DEF DummyType
      <4> QED BY <1>2, <1>3, <2>2, <3>3, <4>1 DEF Visited, Busy, Result, Settled, Acc
    <3> QED BY <3>2, <3>3
  <2>7. ASSUME rest # <<>> PROVE Nested(Head(rest), c)'
    <3>1. Nested(Head(rest), Top) /\ Top.op = "setExceptionImpl"
      BY <1>2, <2>7 DEF Nested
    <3>2. \A a \in Accessors : hasException[a] => hasException'[a]
      BY <1>1, <1>4, <1>6, <3>1 DEF DummyType
    <3>3. Head(rest) \in CallRecords
      BY <2>7, RestOfSequence
    <3>4. Head(rest).todo \in Seq(Accessors) /\ Head(rest).todo # <<>>
      BY <3>1, <3>3 DEF Nested, CallRecords
    <3>5. Head(Head(rest).todo) \in Accessors
      BY <3>4, RestOfSequence
    <3> QED BY <1>3, <2>2, <3>1, <3>2, <3>5 DEF Nested
  <2>8. CallsInv'
    BY <1>2, <1>3, <2>3, <2>5, <2>6, <2>7 DEF CallsInv
  <2> QED BY <1>7, <1>8, <2>4, <2>8 DEF DummyInv
<1> QED BY <1>10, <1>11

LEMMA EnlistKeepsInv ==
  ASSUME DummyAssumption, DummyInv, Enlist
  PROVE  DummyInv'
<1>1. calls # <<>> /\ DummyType /\ CreatedInv /\ PushedInv /\ CallsInv
  BY DEF Enlist, At, DummyInv
<1> PICK rest \in Seq(CallRecords) : rest = Tail(calls)
  BY <1>1, CallsUnderWay
<1>2. /\ Top \in CallRecords /\ Top.todo \in Seq(Accessors) /\ rest = <<>>
      /\ CallFits(Top) /\ \A a \in Members(created) : Visited(Top, a)
      /\ Top.at = "loop" /\ Top.op = "getRegisterAccessor" /\ Top.todo # <<>>
  BY <1>1, CallsUnderWay DEF CallsInv, Enlist, At, Nested
<1>3. /\ UNCHANGED <<hasException, pushed, activateNew, activeException, throwing, locked>>
      /\ created' = Append(created, Acc)
      /\ IF activateNew THEN isActive' = [isActive EXCEPT ![Acc] = TRUE] ELSE UNCHANGED isActive
  BY DEF Enlist
<1>4. /\ Len(created) < Len(Order) /\ Top.todo = <<Order[Len(created) + 1]>>
      /\ Acc = Order[Len(created) + 1] /\ Acc \in Accessors \ Members(created)
      /\ activateNew => ~activeException /\ ~throwing
      /\ locked
  BY <1>1, <1>2, CreatedOnce DEF CallFits, Acc
<1>5. /\ created' \in Seq(Accessors) /\ Len(created') = Len(created) + 1
      /\ Members(created') = Members(created) \cup {Acc}
  BY <1>1, <1>3, <1>4, AppendedMember DEF DummyType
<1>6. CreatedInv'
  <2>1. /\ Len(created) \in Nat /\ Len(Order) \in Nat
        /\ \A i \in 1 .. Len(created) : created'[i] = created[i]
        /\ created'[Len(created) + 1] = Acc
        /\ DOMAIN created = 1 .. Len(created) /\ DOMAIN created' = 1 .. Len(created) + 1
    BY <1>1, <1>3, <1>4, <1>5 DEF DummyType, DummyAssumption
  <2> QED BY <1>1, <1>4, <1>5, <2>1 DEF CreatedInv
<1>7. isActive' \in [Accessors -> BOOLEAN]
  BY <1>1, <1>3 DEF DummyType
<1>8. PushedInv'
  BY <1>1, <1>3, <1>4, <1>5 DEF PushedInv, DummyType
<1>9. \A a \in Members(created) : Settled(a, activateNew)
  BY <1>2, <1>4 DEF Visited, Result, Members, Operations
<1>10. \A a \in Members(created) : Settled(a, activateNew)'
  BY <1>1, <1>3, <1>4, <1>9, CreatedOnce DEF Settled, DummyType
<1>11. pushed[Acc] = <<"nothing", "nothing">> /\ ~isActive[Acc]
  BY <1>1, <1>4 DEF PushedInv
<1>12. CASE activateNew
  <2>1. PICK c \in CallRecords : c = [Top EXCEPT !.at = "trigger"]
    BY <1>2 DEF CallRecords, CallPlaces
  <2>2. /\ c.at = "trigger" /\ c.op = Top.op /\ c.todo = Top.todo
        /\ calls' = <<c>> \o rest
    BY <1>2, <1>12, <2>1 DEF Enlist, GoTo, CallRecords
  <2>3. calls' \in Seq(CallRecords) /\ calls' # <<>> /\ Top' = c /\ Tail(calls') = rest
    BY <1>1, <2>2, CallGoesOn
  <2>4. DummyType'
    BY <1>1, <1>3, <1>5, <1>7, <2>3 DEF DummyType
  <2>5. Head(c.todo) = Acc /\ Members(c.todo) = {Acc}
    BY <1>4, <2>2 DEF Members, Acc
  <2>6. CallFits(c)'
    BY <1>2, <1>3, <1>4, <1>5, <2>2, <2>5 DEF CallFits, Busy
  <2>7. ASSUME NEW a \in Members(created) \cup {Acc} PROVE Visited(c, a)'
    <3>1. CASE a = Acc
      BY <1>1, <1>2, <1>3, <1>4, <1>11, <1>12, <2>2, <2>5, <3>1 DEF Visited, Busy, Current, DummyType
    <3>2. CASE a # Acc
      BY <1>2, <1>3, <1>10, <2>2, <2>5, <2>7, <3>2 DEF Visited, Result, Settled
    <3> QED BY <3>1, <3>2
  <2>8. CallsInv'
    BY <1>2, <1>5, <2>3, <2>6, <2>7 DEF CallsInv
  <2> QED BY <1>6, <1>8, <2>4, <2>8 DEF DummyInv
<1>13. CASE ~activateNew
  <2> <<>> \in Seq(Accessors)
    OBVIOUS
  <2>1. PICK c \in CallRecords : c = [Top EXCEPT !.todo = <<>>]
    BY <1>2 DEF CallRecords
  <2>2. /\ c.at = "loop" /\ c.op = Top.op /\ c.todo = <<>>
        /\ calls' = <<c>> \o rest
    BY <1>2, <1>13, <2>1 DEF Enlist, CallRecords
  <2>3. calls' \in Seq(CallRecords) /\ calls' # <<>> /\ Top' = c /\ Tail(calls') = rest
    BY <1>1, <2>2, CallGoesOn
  <2>4. DummyType'
    BY <1>1, <1>3, <1>5, <1>7, <2>3 DEF DummyType
  <2>5. CallFits(c)'
    BY <1>2, <1>3, <1>4, <1>13, <2>2 DEF CallFits, Busy
  <2>6. ASSUME NEW a \in Members(created) \cup {Acc} PROVE Visited(c, a)'
    <3>1. Members(<<>>) = {}
      BY DEF Members
    <3>2. Settled(a, activateNew)'
      BY <1>3, <1>10, <1>11, <1>13, <2>6 DEF Settled
    <3> QED BY <1>2, <2>2, <3>1, <3>2 DEF Visited, Result, Settled
  <2>7. CallsInv'
    BY <1>2, <1>5, <2>3, <2>5, <2>6 DEF CallsInv
  <2> QED BY <1>6, <1>8, <2>4, <2>7 DEF DummyInv
<1> QED BY <1>12, <1>13

LEMMA ReturnKeepsInv ==
  ASSUME DummyAssumption, DummyInv, Return
  PROVE  DummyInv'
<1>1. calls # <<>> /\ DummyType /\ CreatedInv /\ PushedInv /\ CallsInv
  BY DEF Return, At, DummyInv
<1> PICK rest \in Seq(CallRecords) : rest = Tail(calls)
  BY <1>1, CallsUnderWay
<1>2. /\ Top \in CallRecords /\ Top.todo = <<>> /\ Top.op \in Operations /\ Top.at = "loop"
      /\ CallFits(Top) /\ \A a \in Members(created) : Visited(Top, a)
      /\ rest # <<>> => Tail(rest) = <<>> /\ Nested(Head(rest), Top)
  BY <1>1, CallsUnderWay DEF CallsInv, Return, At
<1>3. /\ UNCHANGED <<created, isActive, hasException, pushed, activeException, throwing>>
      /\ locked' = FALSE /\ calls' = rest /\ activateNew' = Result(Top.op)
  BY <1>2 DEF Return, Result, Operations
<1>4. DummyType' /\ CreatedInv' /\ PushedInv'
  BY <1>1, <1>2, <1>3 DEF DummyType, CreatedInv, PushedInv, Result, Operations
<1>5. Members(<<>>) = {}
  BY DEF Members
<1>6. \A a \in Members(created) : Settled(a, activateNew)'
  BY <1>2, <1>3, <1>5 DEF Visited, Settled
<1>7. CASE rest = <<>>
  <2>1. (activateNew => ~activeException)'
    BY <1>2, <1>3 DEF CallFits, Result, Operations
  <2> QED BY <1>3, <1>4, <1>6, <1>7, <2>1 DEF CallsInv, DummyInv
<1>8. CASE rest # <<>>
  <2> PICK d \in CallRecords : d = Head(rest)
    BY <1>8, RestOfSequence
  <2>1. Nested(d, Top) /\ Tail(rest) = <<>>
    BY <1>2, <1>8
  <2>2. activateNew' = FALSE
    BY <1>3, <2>1 DEF Nested, Result
  <2>3. hasException[Head(d.todo)]
    BY <1>2, <1>5, <2>1 DEF Nested
  <2>4. CallFits(d)'
    BY <1>3, <2>1, <2>2 DEF Nested, CallFits, Busy
  <2>5. ASSUME NEW a \in Members(created) PROVE Visited(d, a)'
    BY <1>3, <1>6, <2>1, <2>2, <2>3 DEF Nested, Visited, Current, Settled, Result, Busy
  <2>6. CallsInv'
    BY <1>3, <1>8, <2>1, <2>4, <2>5 DEF CallsInv, Top
  <2> QED BY <1>4, <2>6 DEF DummyInv
<1> QED BY <1>7, <1>8

LEMMA TriggerKeepsInv ==
  ASSUME DummyAssumption, DummyInv, Trigger
  PROVE  DummyInv'
<1>1. calls # <<>> /\ DummyType /\ CreatedInv /\ PushedInv /\ CallsInv
  BY DEF Trigger, At, DummyInv
<1> PICK rest \in Seq(CallRecords) : rest = Tail(calls)
  BY <1>1, CallsUnderWay
<1>2. /\ Top \in CallRecords /\ Top.todo \in Seq(Accessors) /\ Top.op \in Operations /\ Top.at = "trigger"
      /\ CallFits(Top) /\ \A a \in Members(created) : Visited(Top, a)
      /\ rest # <<>> => Tail(rest) = <<>> /\ Nested(Head(rest), Top)
  BY <1>1, CallsUnderWay DEF CallsInv, Trigger, At
<1>3. /\ UNCHANGED <<created, isActive, activateNew, throwing, locked>>
      /\ hasException' = [hasException EXCEPT ![Acc] = FALSE]
  BY DEF Trigger
<1>4. Top.todo # <<>> /\ Acc \in Accessors /\ Acc \in Members(Top.todo) /\ Acc = Head(Top.todo)
  BY <1>2, RestOfSequence DEF CallFits, Busy, Acc
<1>5. Acc \in Members(created) /\ Current(Top, Acc)
  BY <1>2, <1>4 DEF CallFits, Visited, Busy
<1>6. CreatedInv' /\ hasException' \in [Accessors -> BOOLEAN]
  BY <1>1, <1>3 DEF CreatedInv, DummyType
<1>7. ASSUME NEW a \in Members(created), a # Acc
      PROVE  a \in Accessors /\ hasException'[a] = hasException[a]
  BY <1>1, <1>3, <1>7, CreatedOnce DEF DummyType
<1>8. CASE ~throwing /\ ~activeException
  <2>1. /\ Top.op # "setExceptionImpl" /\ rest = <<>>
        /\ pushed' = [pushed EXCEPT ![Acc] = <<@[2], "value">>] /\ UNCHANGED activeException
    BY <1>2, <1>8 DEF Trigger, Push, CallFits, Nested
  <2>2. pushed' \in [Accessors -> Elements \X Elements]
    BY <1>1, <1>4, <2>1 DEF DummyType, Elements
  <2>3. PushedInv'
    BY <1>1, <1>3, <1>4, <1>5, <2>1 DEF PushedInv, DummyType
  <2>4. <<>> \in Seq(Accessors)
    OBVIOUS
  <2>5. PICK c \in CallRecords : c = IF Top.op = "getRegisterAccessor"
                                     THEN [Top EXCEPT !.todo = <<>>, !.at = "loop"]
                                     ELSE [Top EXCEPT !.at = "locking again"]
    BY <1>2, <2>4 DEF CallRecords, CallPlaces
  <2>6. calls' = <<c>> \o rest
    BY <1>8, <2>5 DEF Trigger, Triggered, GoTo
  <2>7. calls' \in Seq(CallRecords) /\ calls' # <<>> /\ Top' = c /\ Tail(calls') = rest
    BY <1>1, <2>6, CallGoesOn
  <2>8. /\ c.op = Top.op
        /\ Top.op = "getRegisterAccessor" => c.at = "loop" /\ c.todo = <<>>
        /\ Top.op # "getRegisterAccessor" => c.at = "locking again" /\ c.todo = Top.todo
    BY <1>2, <2>5 DEF CallRecords
  <2>9. DummyType'
    BY <1>1, <1>3, <1>6, <2>1, <2>2, <2>7 DEF DummyType
  <2>10. CallFits(c)'
    BY <1>2, <1>3, <1>4, <2>1, <2>8 DEF CallFits, Busy, Operations
  <2>11. ASSUME NEW a \in Members(created) PROVE Visited(c, a)'
    <3>1. Members(<<>>) = {}
      BY DEF Members
    <3>2. CASE a = Acc
      <4>1. pushed'[a] = <<pushed[a][2], "value">> /\ pushed'[a][2] = "value"
        BY <1>1, <1>4, <2>1, <3>2 DEF DummyType
      <4>2. CASE Top.op = "getRegisterAccessor"
        BY <1>2, <1>3, <1>5, <2>8, <3>1, <3>2, <4>1, <4>2 DEF Visited, Current, Result, Settled
      <4>3. CASE Top.op # "getRegisterAccessor"
        BY <1>2, <1>3, <1>4, <1>5, <2>1, <2>8, <3>2, <4>1, <4>3 DEF Visited, Current, Busy, Settled, Operations
      <4> QED BY <4>2, <4>3
    <3>3. CASE a # Acc
      <4>1. pushed'[a] = pushed[a] /\ Visited(Top, a)
        BY <1>1, <1>2, <1>7, <2>1, <3>3 DEF DummyType
      <4>2. Top.op = "getRegisterAccessor" => Settled(a, activateNew)
        BY <1>4, <3>3, <4>1 DEF Visited, Result, Busy
      <4> QED BY <1>2, <1>3, <1>4, <2>8, <3>1, <3>3, <4>1, <4>2 DEF Visited, Result, Busy, Settled
    <3> QED BY <3>2, <3>3
  <2>12. CallsInv'
    BY <1>3, <2>1, <2>7, <2>10, <2>11 DEF CallsInv
  <2> QED BY <1>6, <2>3, <2>9, <2>12 DEF DummyInv
<1>9. CASE throwing \/ activeException
  <2>1. pushed' = pushed /\ activeException' = TRUE /\ Top.op \in {"triggerPush", "setExceptionImpl"}
    BY <1>2, <1>5, <1>9 DEF Trigger, CallFits, Current, Operations
  <2>2. PICK c \in CallRecords : c = [Top EXCEPT !.at = "catch"]
    BY <1>2 DEF CallRecords, CallPlaces
  <2>3. c.at = "catch" /\ c.op = Top.op /\ c.todo = Top.todo
    BY <1>2, <2>2 DEF CallRecords
  <2>4. PushedInv'
    BY <1>1, <1>3, <1>4, <2>1 DEF PushedInv, DummyType
  <2>5. CASE Top.op = "setExceptionImpl"
    <3>1. activeException /\ calls' = <<>> \o <<c>> \o rest
      BY <1>2, <1>9, <2>2, <2>5 DEF CallFits, Trigger
    <3>2. calls' = <<c>> \o rest
      BY <3>1
    <3>3. calls' \in Seq(CallRecords) /\ calls' # <<>> /\ Top' = c /\ Tail(calls') = rest
      BY <1>1, <3>2, CallGoesOn
    <3>4. DummyType'
      BY <1>1, <1>3, <1>6, <2>1, <3>3 DEF DummyType
    <3>5. CallFits(c)'
      BY <1>2, <1>3, <2>1, <2>3, <2>5 DEF CallFits, Busy
    <3>6. ASSUME NEW a \in Members(created) PROVE Visited(c, a)'
      <4>1. CASE a = Acc
        BY <1>1, <1>3, <1>4, <1>5, <1>2, <2>1, <2>3, <2>5, <4>1 DEF Visited, Current, Busy, DummyType
      <4>2. CASE a # Acc
        BY <1>2, <1>3, <1>4, <2>1, <2>3, <4>2 DEF Visited, Result, Busy, Settled
      <4> QED BY <4>1, <4>2
    <3>7. ASSUME rest # <<>> PROVE Nested(Head(rest), c)'
      <4>1. Nested(Head(rest), Top)
        BY <1>2, <3>7
      <4>2. Head(rest) \in CallRecords
        BY <3>7, RestOfSequence
      <4>3. Head(rest).todo \in Seq(Accessors) /\ Head(rest).todo # <<>>
        BY <4>1, <4>2 DEF Nested, CallRecords
      <4>4. Head(Head(rest).todo) \in Accessors
        BY <4>3, RestOfSequence
      <4>5. Head(Head(rest).todo) \notin Members(c.todo) => hasException'[Head(Head(rest).todo)]
        BY <1>1, <1>3, <1>4, <2>3, <4>1, <4>4 DEF Nested, DummyType
      <4> QED BY <1>3, <2>3, <4>1, <4>5 DEF Nested
    <3>8. CallsInv'
      BY <1>2, <1>3, <3>3, <3>5, <3>6, <3>7 DEF CallsInv
    <3> QED BY <1>6, <2>4, <3>4, <3>8 DEF DummyInv
  <2>6. CASE Top.op = "triggerPush"
    <3>1. activateNew /\ ~activeException /\ rest = <<>> /\ Settled(Acc, activateNew)
      BY <1>2, <1>5, <2>6 DEF CallFits, Current, Nested
    <3>2. PICK n \in CallRecords : n = [op |-> "setExceptionImpl", todo |-> created, at |-> "lock"]
      BY <1>1 DEF CallRecords, Operations, CallPlaces, DummyType
    <3>3. calls' = <<n>> \o <<c>> \o rest
      BY <1>9, <2>2, <3>1, <3>2 DEF Trigger
    <3>4. calls' \in Seq(CallRecords) /\ calls' # <<>> /\ Top' = n /\ Tail(calls') = <<c>>
      <4>1. <<n>> \in Seq(CallRecords) /\ <<c>> \in Seq(CallRecords)
        OBVIOUS
      <4>2. <<n>> \o <<c>> \in Seq(CallRecords)
        BY <4>1, CallOnTop
      <4>3. calls' = <<n>> \o <<c>>
        BY <3>1, <3>3, <4>2
      <4> QED BY <4>1, <4>3, CallOnTop DEF Top
    <3>5. DummyType'
      BY <1>1, <1>3, <1>6, <2>1, <3>4 DEF DummyType
    <3>6. n.op = "setExceptionImpl" /\ n.todo = created /\ n.at = "lock"
      BY <3>2
    <3>7. ~locked
      BY <1>2, <2>6 DEF CallFits
    <3>8. CallFits(n)'
      BY <1>1, <1>3, <2>1, <3>6, <3>7, CreatedOnce DEF CallFits, Busy
    <3>9. ASSUME NEW a \in Members(created) PROVE Visited(n, a)'
      <4>1. Settled(a, activateNew)
        BY <1>2, <1>4, <1>5, <2>6, <3>1 DEF Visited, Result, Busy
      <4> QED BY <1>3, <2>1, <3>6, <4>1 DEF Visited, Busy, Settled
    <3>10. Nested(c, n)'
      BY <1>2, <1>3, <1>4, <1>5, <2>3, <2>6, <3>1, <3>6 DEF Nested, CallFits
    <3>11. <<c>> # <<>> /\ Head(<<c>>) = c /\ Tail(<<c>>) = <<>>
      OBVIOUS
    <3>12. CallsInv'
      BY <1>3, <3>4, <3>8, <3>9, <3>10, <3>11 DEF CallsInv
    <3> QED BY <1>6, <2>4, <3>5, <3>12 DEF DummyInv
  <2> QED BY <2>1, <2>5, <2>6
<1> QED BY <1>8, <1>9

LEMMA CatchKeepsInv ==
  ASSUME DummyAssumption, DummyInv, Catch
  PROVE  DummyInv'
<1>1. calls # <<>> /\ DummyType /\ CreatedInv /\ PushedInv /\ CallsInv
  BY DEF Catch, At, DummyInv
<1> PICK rest \in Seq(CallRecords) : rest = Tail(calls)
  BY <1>1, CallsUnderWay
<1>2. /\ Top \in CallRecords /\ Top.todo \in Seq(Accessors) /\ Top.op \in Operations /\ Top.at = "catch"
      /\ CallFits(Top) /\ \A a \in Members(created) : Visited(Top, a)
      /\ rest # <<>> => Tail(rest) = <<>> /\ Nested(Head(rest), Top)
  BY <1>1, CallsUnderWay DEF CallsInv, Catch, At
<1>3. /\ UNCHANGED <<created, activateNew, activeException, throwing, locked>>
      /\ isActive' = [isActive EXCEPT ![Acc] = FALSE] /\ hasException' = [hasException EXCEPT ![Acc] = TRUE]
      /\ IF hasException[Acc] THEN UNCHANGED pushed
         ELSE pushed' = [pushed EXCEPT ![Acc] = <<@[2], "exception">>]
  BY DEF Catch, Push
<1>4. Top.todo # <<>> /\ Acc \in Accessors /\ Acc \in Members(Top.todo) /\ Acc = Head(Top.todo)
  BY <1>2, RestOfSequence DEF CallFits, Busy, Acc
<1>5. Acc \in Members(created) /\ Current(Top, Acc) /\ Top.op \in {"triggerPush", "setExceptionImpl"}
  BY <1>2, <1>4 DEF CallFits, Visited, Busy, Current, Operations
<1>6. PICK c \in CallRecords : c = [Top EXCEPT !.at = "locking again"]
  BY <1>2 DEF CallRecords, CallPlaces
<1>7. c.at = "locking again" /\ c.op = Top.op /\ c.todo = Top.todo /\ calls' = <<c>> \o rest
  BY <1>2, <1>5, <1>6 DEF Catch, Triggered, GoTo, CallRecords
<1>8. calls' \in Seq(CallRecords) /\ calls' # <<>> /\ Top' = c /\ Tail(calls') = rest
  BY <1>1, <1>7, CallGoesOn
<1>9. pushed' \in [Accessors -> Elements \X Elements] /\ isActive' \in [Accessors -> BOOLEAN]
      /\ hasException' \in [Accessors -> BOOLEAN]
  <2>1. pushed[Acc][2] \in Elements /\ "exception" \in Elements
    BY <1>1, <1>4 DEF DummyType, Elements
  <2>2. pushed \in [Accessors -> Elements \X Elements]
    BY <1>1 DEF DummyType
  <2> DEFINE next == <<pushed[Acc][2], "exception">>
  <2>3. next \in Elements \X Elements /\ (pushed' = pushed \/ pushed' = [pushed EXCEPT ![Acc] = next])
    BY <1>3, <2>1
  <2> HIDE DEF next
  <2>4. pushed' \in [Accessors -> Elements \X Elements]
    BY <1>4, <2>2, <2>3
  <2> QED BY <1>1, <1>3, <2>4 DEF DummyType
<1>10. DummyType' /\ CreatedInv'
  BY <1>1, <1>3, <1>8, <1>9 DEF DummyType, CreatedInv
<1>11. ~hasException[Acc] => pushed[Acc][2] = "value"
  BY <1>2, <1>5 DEF Current
<1>12. PushedInv'
  BY <1>1, <1>3, <1>4, <1>5, <1>11 DEF PushedInv, DummyType
<1>13. CallFits(c)'
  BY <1>2, <1>3, <1>4, <1>5, <1>7 DEF CallFits, Busy
<1>14. ASSUME NEW a \in Members(created) PROVE Visited(c, a)'
  <2>1. CASE a = Acc
    <3>1. isActive'[a] = FALSE /\ hasException'[a] = TRUE
      BY <1>1, <1>3, <1>4, <2>1 DEF DummyType
    <3>2. pushed'[a][2] # "value"
      <4>1. CASE hasException[Acc]
        BY <1>2, <1>3, <1>5, <2>1, <4>1 DEF Current, Settled
      <4>2. CASE ~hasException[Acc]
        <5>1. pushed'[a] = <<pushed[a][2], "exception">>
          BY <1>1, <1>3, <1>4, <2>1, <4>2 DEF DummyType
        <5> QED BY <5>1
      <4> QED BY <4>1, <4>2
    <3>3. Top.op = "triggerPush" => ~activateNew
      BY <1>2, <1>5 DEF Current
    <3> QED BY <1>3, <1>4, <1>5, <1>7, <2>1, <3>1, <3>2, <3>3 DEF Visited, Busy, Current, Settled
  <2>2. CASE a # Acc
    <3>1. a \in Accessors /\ isActive'[a] = isActive[a] /\ pushed'[a] = pushed[a]
      BY <1>1, <1>3, <2>2, CreatedOnce DEF DummyType
    <3> QED BY <1>2, <1>3, <1>4, <1>7, <2>2, <3>1 DEF Visited, Result, Busy, Settled
  <2> QED BY <2>1, <2>2
<1>15. ASSUME rest # <<>> PROVE Nested(Head(rest), c)'
  <2>1. Nested(Head(rest), Top)
    BY <1>2, <1>15
  <2>2. \A a \in Accessors : hasException[a] => hasException'[a]
    BY <1>1, <1>3, <1>4 DEF DummyType
  <2>3. Head(rest) \in CallRecords
    BY <1>15, RestOfSequence
  <2>4. Head(rest).todo \in Seq(Accessors) /\ Head(rest).todo # <<>>
    BY <2>1, <2>3 DEF Nested, CallRecords
  <2>5. Head(Head(rest).todo) \in Accessors
    BY <2>4, RestOfSequence
  <2> QED BY <1>3, <1>7, <2>1, <2>2, <2>5 DEF Nested
<1>16. CallsInv'
  BY <1>2, <1>3, <1>8, <1>13, <1>14, <1>15 DEF CallsInv
<1> QED BY <1>10, <1>12, <1>16 DEF DummyInv

-----------------------------------------------------------------------------
(* The theorem *)

LEMMA DummyInvInit ==
  ASSUME DummyAssumption, DummyInit
  PROVE  DummyInv
<1>1. Members(<<>>) = {} /\ <<>> \in Seq(Accessors) /\ <<>> \in Seq(CallRecords) /\ Len(<<>>) = 0 /\ DOMAIN <<>> = {}
  BY DEF Members
<1>2. DummyType
  BY <1>1 DEF DummyInit, DummyType, Elements
<1>3. CreatedInv
  <2>1. Len(Order) >= 0
    BY DEF DummyAssumption
  <2> QED BY <1>1, <2>1 DEF DummyInit, CreatedInv
<1>4. PushedInv /\ CallsInv
  BY <1>1 DEF DummyInit, PushedInv, CallsInv
<1> QED BY <1>2, <1>3, <1>4 DEF DummyInv

LEMMA DummyInvStep ==
  ASSUME DummyAssumption, ~InitialValuesFail, DummyInv, [DummyNext]_dummyVars
  PROVE  DummyInv'
<1>1. CASE UNCHANGED dummyVars
  <2>1. DummyType' /\ CreatedInv' /\ PushedInv'
    BY <1>1 DEF dummyVars, DummyInv, DummyType, CreatedInv, PushedInv
  <2>2. CASE calls = <<>>
    BY <1>1, <2>1, <2>2 DEF dummyVars, DummyInv, CallsInv, Settled
  <2>3. CASE calls # <<>>
    <3>1. CallFits(Top)'
      BY <1>1, <2>3 DEF dummyVars, DummyInv, CallsInv, CallFits, Busy, Top
    <3>2. ASSUME NEW a \in Members(created) PROVE Visited(Top, a)'
      BY <1>1, <2>3 DEF dummyVars, DummyInv, CallsInv, Visited, Busy, Current, Result, Settled, Top
    <3>3. Tail(calls) # <<>> => Tail(Tail(calls)) = <<>> /\ Nested(Head(Tail(calls)), Top)'
      BY <1>1, <2>3 DEF dummyVars, DummyInv, CallsInv, Nested, Top
    <3> QED BY <1>1, <2>1, <2>3, <3>1, <3>2, <3>3 DEF dummyVars, DummyInv, CallsInv
  <2> QED BY <2>2, <2>3
<1>2. CASE DummyNext
  BY <1>2, CallStarts, ErrorsChange, LockKeepsInv, TurnKeepsInv, EnlistKeepsInv, ReturnKeepsInv, TriggerKeepsInv,
     CatchKeepsInv DEF DummyNext
<1> QED BY <1>1, <1>2

LEMMA DummyInvImplies == DummyInv => ExceptionIsPushedOnce /\ AccessorsAgree
<1> SUFFICES ASSUME DummyInv PROVE ExceptionIsPushedOnce /\ AccessorsAgree
  OBVIOUS
<1>1. ExceptionIsPushedOnce
  BY DEF DummyInv, PushedInv, ExceptionIsPushedOnce
<1>2. ASSUME calls = <<>>, NEW i \in DOMAIN created
      PROVE  /\ isActive[created[i]] = activateNew
             /\ pushed[created[i]][2] = "value" <=> activateNew
  <2>1. created[i] \in Accessors /\ created[i] \in Members(created)
    BY DEF Members, DummyInv, DummyType
  <2>2. Settled(created[i], activateNew)
    BY <1>2, <2>1 DEF DummyInv, CallsInv
  <2> QED BY <2>1, <2>2 DEF Settled, DummyInv, DummyType
<1> QED BY <1>1, <1>2 DEF DummyInv, CallsInv, AccessorsAgree

(***************************************************************************)
(* Whenever reading fails, and however setException() was called, each     *)
(* accessor of the ExceptionDummy is told once, all accessors are inactive *)
(* after an exception and active after an activation, and the mutex is     *)
(* free: for every number of accessors, as long as no initial value fails. *)
(***************************************************************************)
THEOREM ExceptionsArrive ==
  ASSUME DummyAssumption, ~InitialValuesFail
  PROVE  DummySpec => []ExceptionIsPushedOnce /\ []AccessorsAgree
<1>1. DummyInit => DummyInv
  BY DummyInvInit
<1>2. DummyInv /\ [DummyNext]_dummyVars => DummyInv'
  BY DummyInvStep
<1>3. DummyInv => ExceptionIsPushedOnce /\ AccessorsAgree
  BY DummyInvImplies
<1> QED BY <1>1, <1>2, <1>3, PTL DEF DummySpec

=============================================================================

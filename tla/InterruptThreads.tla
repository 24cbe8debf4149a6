-------------------------- MODULE InterruptThreads --------------------------
(***************************************************************************)
(* The interrupt threads of the UioBackend and the XdmaBackend, from       *)
(* activateAsyncRead() to the distribution of polled data, with devices    *)
(* which are removed, errors from elsewhere, closing and opening again.    *)
(*                                                                         *)
(* The kernel counts the interrupts. A UIO interrupt is masked until it is *)
(* cleared by writing to the device file; one which is raised meanwhile is *)
(* pending. An XDMA event file returns the number of interrupts since it   *)
(* was read. Data are identified with the number of their interrupt.       *)
(***************************************************************************)
EXTENDS Naturals

CONSTANTS
  Modulus,       \* of the counter: 2^32 in the code
  FirstCount,    \* the counter in the beginning
  RemoveAnytime, \* a device is also removed between open() and activateAsyncRead()
  MaxData,       \* bound: interrupts
  MaxErrors      \* bound: removals and errors from elsewhere

\* The counter does not wrap: subtractUint32OverflowSafe() returns one less
\* than the difference after it has wrapped, so that an interrupt is not seen.
CounterAssumption ==
  /\ FirstCount \in Nat /\ MaxData \in Nat /\ Modulus \in Nat
  /\ FirstCount + MaxData < Modulus

VARIABLES
  kind,          \* "uio" or "xdma"
  present, data, counter, masked, pending,  \* the device and the kernel
  unread,        \* interrupts which the device file has to report
  lastCount,     \* UioAccess::_lastInterruptCount
  pc,            \* what the application does with the backend
  exception,     \* the backend has an active exception
  thread, stop,  \* the interrupt thread
  done,          \* the promise that the subscription is done
  polled,        \* the data of the last distribution
  terminated,    \* an exception has left activateAsyncRead(), which is noexcept
  errors

kernel == <<present, data, counter, masked, pending, unread>>
backend == <<lastCount, pc, exception, stop, done, polled, terminated>>
interruptThreadsVars == <<kind, kernel, backend, thread, errors>>

FileIsOpen == pc \notin {"closed", "counted"}

-----------------------------------------------------------------------------
(* The device and the kernel (external) *)

\* uio_event_notify(): the counter of the device, and the file has an event.
Notify ==
  /\ counter' = (counter + 1) % Modulus
  /\ unread' = IF FileIsOpen \/ kind = "xdma" THEN unread + 1 ELSE unread
  /\ masked' = (kind = "uio")

Interrupt ==
  /\ present /\ data < MaxData
  /\ data' = data + 1
  /\ IF masked THEN pending' = TRUE /\ UNCHANGED <<counter, unread, masked>> ELSE Notify /\ UNCHANGED pending
  /\ UNCHANGED <<kind, present, backend, thread, errors>>

\* clearInterrupts(): a pending interrupt is reported immediately.
ClearInterrupts ==
  /\ pending' = FALSE
  /\ IF pending THEN Notify ELSE masked' = FALSE /\ UNCHANGED <<counter, unread>>
  /\ UNCHANGED <<present, data>>

Remove ==
  /\ present /\ errors < MaxErrors
  /\ RemoveAnytime \/ pc \in {"activating", "active"}
  /\ present' = FALSE /\ errors' = errors + 1
  /\ UNCHANGED <<kind, data, counter, masked, pending, unread, backend, thread>>

\* The device comes back before it is opened again.
Insert ==
  /\ ~present /\ pc = "closed"
  /\ present' = TRUE
  /\ UNCHANGED <<kind, data, counter, masked, pending, unread, backend, thread, errors>>

-----------------------------------------------------------------------------
(* The functions which the application calls *)

\* UioAccess::open() reads the counter before it opens the file.
ReadCount ==
  /\ pc = "closed" /\ present
  /\ lastCount' = counter /\ pc' = "counted"
  /\ UNCHANGED <<kind, kernel, exception, thread, stop, done, polled, terminated, errors>>

Open ==
  /\ pc = "counted"
  /\ IF present
     THEN pc' = "open" /\ exception' = FALSE /\ unread' = (IF kind = "uio" THEN 0 ELSE unread)
     ELSE pc' = "closed" /\ UNCHANGED <<exception, unread>>
  /\ UNCHANGED <<kind, present, data, counter, masked, pending, lastCount, thread, stop, done, polled,
                 terminated, errors>>

\* activateSubscription(): the XDMA event file is opened here. It is not done
\* again while there is a thread.
Activate ==
  /\ pc \in {"open", "active"} /\ ~exception /\ ~terminated
  /\ IF thread # "none"
     THEN done' = TRUE /\ pc' = "activating" /\ UNCHANGED <<thread, stop, terminated>>
     ELSE IF kind = "xdma" /\ ~present
     THEN terminated' = TRUE /\ UNCHANGED <<pc, thread, stop, done>>
     ELSE done' = FALSE /\ stop' = FALSE /\ thread' = "start" /\ pc' = "activating" /\ UNCHANGED terminated
  /\ UNCHANGED <<kind, kernel, lastCount, exception, polled, errors>>

\* Reading the data for a distribution. Nothing is distributed while the
\* backend has an exception. Only CtrlIntf::read() looks whether the device
\* file is still there.
Poll ==
  /\ polled' = IF present /\ ~exception THEN data ELSE polled
  /\ exception' = (exception \/ (kind = "xdma" /\ ~present))

\* activateAsyncRead() waits for the promise and activates the domain.
Activated ==
  /\ pc = "activating" /\ done
  /\ pc' = "active" /\ Poll
  /\ UNCHANGED <<kind, kernel, lastCount, thread, stop, done, terminated, errors>>

\* Another accessor reports an error.
OtherError ==
  /\ pc \in {"open", "active"} /\ ~exception /\ errors < MaxErrors
  /\ exception' = TRUE /\ errors' = errors + 1
  /\ UNCHANGED <<kind, kernel, lastCount, pc, thread, stop, done, polled, terminated>>

\* closeImpl(), called by close(), or by open() if the backend has an error.
Close ==
  /\ pc \in {"open", "active"}
  /\ stop' = TRUE /\ pc' = "closing"
  /\ UNCHANGED <<kind, kernel, lastCount, exception, thread, done, polled, terminated, errors>>

Join ==
  /\ pc = "closing" /\ thread \in {"none", "ended"}
  /\ thread' = "none" /\ pc' = "closed"
  /\ UNCHANGED <<kind, kernel, lastCount, exception, stop, done, polled, terminated, errors>>

-----------------------------------------------------------------------------
(* The thread *)

Goto(from, to) == thread = from /\ thread' = to

\* subtractUint32OverflowSafe()
SubtractOverflowSafe(minuend, subtrahend) ==
  IF subtrahend > minuend THEN minuend + (Modulus - 1 - subtrahend) ELSE minuend - subtrahend

\* waitForInterrupt() with an event: how many interrupts have occurred
Occurred == SubtractOverflowSafe(counter, lastCount)

ReadEvent == unread > 0 /\ unread' = 0 /\ lastCount' = counter /\ UNCHANGED <<present, data, counter, masked, pending>>

\* Mistake: the promise is kept when the thread starts.
StartUioDone ==
  /\ kind = "uio" /\ present /\ Goto("start", "check")
  /\ ClearInterrupts
  /\ done' = TRUE
  /\ UNCHANGED <<kind, lastCount, pc, exception, stop, polled, terminated, errors>>

\* The XDMA thread has nothing to clear.
StartUio ==
  /\ kind = "uio" /\ present /\ Goto("start", "check")
  /\ ClearInterrupts
  /\ UNCHANGED <<kind, backend, errors>>

StartXdma ==
  /\ kind = "xdma" /\ Goto("start", "wait")
  /\ done' = TRUE
  /\ UNCHANGED <<kind, kernel, lastCount, pc, exception, stop, polled, terminated, errors>>

\* waitForInterrupt(0): what was pending is cleared, too.
Check ==
  /\ thread = "check" /\ present
  /\ \/ /\ ReadEvent
        /\ IF Occurred > 0 THEN thread' = "clear first" /\ UNCHANGED done ELSE thread' = "wait" /\ done' = TRUE
     \/ unread = 0 /\ thread' = "wait" /\ done' = TRUE /\ UNCHANGED <<kernel, lastCount>>
  /\ UNCHANGED <<kind, pc, exception, stop, polled, terminated, errors>>

ClearFirst ==
  /\ Goto("clear first", "wait") /\ present
  /\ ClearInterrupts
  /\ done' = TRUE
  /\ UNCHANGED <<kind, lastCount, pc, exception, stop, polled, terminated, errors>>

\* waitForInterrupt(100), or readEvent() and handleEvent()
WaitForInterrupt ==
  /\ thread = "wait" /\ present /\ ~stop
  /\ ReadEvent
  /\ thread' = IF kind = "xdma" THEN "distribute" ELSE IF Occurred > 0 THEN "clear" ELSE "wait"
  /\ UNCHANGED <<kind, pc, exception, stop, done, polled, terminated, errors>>

Clear ==
  /\ thread = "clear" /\ present
  /\ ClearInterrupts
  /\ thread' = IF exception THEN "ended" ELSE "distribute"
  /\ UNCHANGED <<kind, backend, errors>>

\* The domain ignores a distribution before its activation.
Distribute ==
  /\ Goto("distribute", "wait")
  /\ IF pc = "active" THEN Poll ELSE UNCHANGED <<polled, exception>>
  /\ UNCHANGED <<kind, kernel, lastCount, pc, stop, done, terminated, errors>>

Stopped ==
  /\ stop /\ Goto("wait", "ended")
  /\ UNCHANGED <<kind, kernel, backend, errors>>

\* Mistake: the promise is kept only if there is no exception.
FailWithoutPromise ==
  /\ ~present /\ thread \in {"start", "check", "clear first", "wait", "clear"}
  /\ kind = "xdma" => thread = "wait"
  /\ thread' = "report"
  /\ UNCHANGED <<kind, kernel, backend, errors>>

\* Mistake: the XDMA thread has no timer.
FailUio ==
  /\ ~present /\ kind = "uio" /\ thread \in {"start", "check", "clear first", "wait", "clear"}
  /\ thread' = "report" /\ done' = TRUE
  /\ UNCHANGED <<kind, kernel, lastCount, pc, exception, stop, polled, terminated, errors>>

\* An access to the file of a removed device fails, and the timer of the XDMA
\* thread notices the removal. The promise is kept before it is reported.
Fail ==
  /\ ~present /\ thread \in {"start", "check", "clear first", "wait", "clear"}
  /\ kind = "xdma" => thread = "wait"
  /\ thread' = "report" /\ done' = TRUE
  /\ UNCHANGED <<kind, kernel, lastCount, pc, exception, stop, polled, terminated, errors>>

Report ==
  /\ Goto("report", "ended")
  /\ exception' = TRUE
  /\ UNCHANGED <<kind, kernel, lastCount, pc, stop, done, polled, terminated, errors>>

Thread ==
  \/ StartUio \/ StartXdma \/ Check \/ ClearFirst \/ WaitForInterrupt
  \/ Clear \/ Distribute \/ Stopped \/ Fail \/ Report

-----------------------------------------------------------------------------
(* Specification *)

InterruptThreadsInit ==
  /\ kind \in {"uio", "xdma"}
  /\ present = TRUE /\ data = 0 /\ counter = FirstCount
  /\ masked \in (IF kind = "uio" THEN BOOLEAN ELSE {FALSE}) /\ pending = FALSE
  /\ unread = 0 /\ lastCount = 0
  /\ pc = "closed" /\ exception = FALSE /\ thread = "none" /\ stop = FALSE
  /\ done = FALSE /\ polled = 0 /\ terminated = FALSE /\ errors = 0

InterruptThreadsNext ==
  \/ Interrupt \/ Remove \/ Insert
  \/ ReadCount \/ Open \/ Activate \/ Activated \/ OtherError \/ Close \/ Join
  \/ Thread

InterruptThreadsSpec == InterruptThreadsInit /\ [][InterruptThreadsNext]_interruptThreadsVars

\* The thread keeps running, and its timer and its poll() return in the end.
InterruptThreadsFairness == WF_interruptThreadsVars(Thread)
FairSpec == InterruptThreadsSpec /\ InterruptThreadsFairness

-----------------------------------------------------------------------------
(* Properties *)

Healthy == pc = "active" /\ ~exception /\ present

\* A thread which waits has distributed the newest data, and it is able to
\* receive the next interrupt.
NoInterruptIsLost ==
  Healthy /\ thread = "wait" /\ unread = 0 => polled = data /\ ~masked

\* activateAsyncRead() does not wait for a thread which has ended.
ActivationIsNotBlocked == pc = "activating" /\ ~done => thread \notin {"none", "report", "ended"}

\* Neither the device nor the application waits for the other one.
ThreadsMissNoInterrupt == NoInterruptIsLost /\ ActivationIsNotBlocked

\* No exception leaves activateAsyncRead().
ActivationIsNoexcept == ~terminated

\* The removal of a device is reported also if the application does not
\* access it.
Noticed == exception \/ pc # "active"
RemovalIsNoticed == (~Noticed /\ ~present) ~> Noticed
=============================================================================

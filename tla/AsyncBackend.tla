---------------------------- MODULE AsyncBackend ----------------------------
(***************************************************************************)
(* The threads around the asynchronous domains of one backend: how errors  *)
(* are reported (DeviceBackendImpl::setException), distributed by the      *)
(* exception thread (DomainsContainer), and recovered from (open), and how *)
(* asynchronous read is activated and switched off, while accessors are    *)
(* created and interrupts come in.                                         *)
(*                                                                         *)
(* Each access to an atomic member or a mutex is a step of its own. What   *)
(* happens inside one domain is the subject of AsyncDomain; here a domain  *)
(* is inactive or active, and an operation on it takes its lock, may fail  *)
(* to read the device, and then calls setException() with the lock held.   *)
(***************************************************************************)
EXTENDS Integers, FiniteSets

CONSTANTS
  Domains,         \* the domain IDs of the backend
  Reporters,       \* threads which detect errors: transfers of other
                   \* accessors, Device::setException()
  ReadsMayFail,    \* polling in a domain may fail (and report the error)
  Disciplines      \* what applications keep apart, see the variable alone

ASSUME BackendAssumption ==
  /\ ReadsMayFail \in BOOLEAN
  /\ Disciplines \subseteq SUBSET {"open", "activate", "subscribe"}
  /\ {"recovery", "subscriber", "interrupt", "exception", "nobody"} \cap Reporters = {}
  /\ "none" \notin Domains

(***************************************************************************)
(* The thread which opens, activates and closes the device, the thread     *)
(* which creates accessors, and the thread which distributes interrupts.   *)
(***************************************************************************)
Callers == Reporters \cup {"recovery", "subscriber", "interrupt"}
Threads == Callers \cup {"exception"}
Nobody == "nobody"
NoDomain == "none"

QueueSize == 2  \* of _startExceptionDistribution

VARIABLES
  alone,          \* calls which the application does not let overlap with other
                  \* calls and with reports: "open", "activate" (and close),
                  \* "subscribe" (the creation of accessors). Never changes.
  opened,         \* DeviceBackendImpl::_opened
  hasException,   \* DeviceBackendImpl::_hasActiveException
  message,        \* DeviceBackendImpl::_activeExceptionMessage
  asyncActive,    \* NumericAddressedBackend::_asyncIsActive
  isSending,      \* DomainsContainer::_isSendingExceptions
  threadRunning,  \* DomainsContainer::_threadIsRunning
  requests,       \* entries of _startExceptionDistribution
  containerLock,  \* owner of DomainsContainer::_domainsMutex
  domainLock,     \* owner of Domain::_mutex, for each domain
  domain,         \* "absent", "inactive" or "active"
  pc,             \* where a thread is
  exc,            \* where a thread is in setException(), "none" if outside
  todo,           \* domains which the thread has not yet visited in forEach()
  target,         \* the domain the thread works on
  flag,           \* the argument 'activate' of subscribe()
  terminated      \* an exception has left a noexcept function

sharedVars == <<opened, hasException, message, asyncActive>>
containerVars == <<isSending, threadRunning, requests>>
lockVars == <<containerLock, domainLock>>
threadVars == <<pc, exc, todo, target, flag>>
vars == <<alone, opened, hasException, message, asyncActive, isSending, threadRunning, requests,
          containerLock, domainLock, domain, pc, exc, todo, target, flag, terminated>>

Init ==
  /\ alone \in Disciplines
  /\ opened = FALSE
  /\ hasException = FALSE
  /\ message = "none"
  /\ asyncActive = FALSE
  /\ isSending = FALSE
  /\ threadRunning = FALSE
  /\ requests = 0
  /\ containerLock = Nobody
  /\ domainLock = [d \in Domains |-> Nobody]
  /\ domain = [d \in Domains |-> "absent"]
  /\ pc = [t \in Threads |-> "idle"]
  /\ exc = [t \in Threads |-> "none"]
  /\ todo = [t \in Threads |-> {}]
  /\ target = [t \in Threads |-> NoDomain]
  /\ flag = FALSE
  /\ terminated = FALSE

Goto(t, label) == pc' = [pc EXCEPT ![t] = label]

\* The thread runs its own code, not setException().
At(t, label) == pc[t] = label /\ exc[t] = "none"

Existing == {d \in Domains : domain[d] # "absent"}

InOpen == pc["recovery"] \in {"openWait", "openSet", "openClear", "openMessage"}
InActivateOrClose == pc["recovery"] # "idle" /\ ~InOpen
InSubscribe == pc["subscriber"] # "idle"
NobodyReports == \A t \in Threads : exc[t] = "none"

(***************************************************************************)
(* What an application may do: a call which it keeps alone overlaps        *)
(* neither with other calls nor with the reporting of an error. The        *)
(* reporting of an error by the call itself is not affected.               *)
(***************************************************************************)
MayEnter(call) ==
  /\ "open" \in alone => ~InOpen
  /\ "activate" \in alone => ~InActivateOrClose
  /\ "subscribe" \in alone => ~InSubscribe
  /\ call \in alone => NobodyReports /\ pc["recovery"] = "idle" /\ pc["subscriber"] = "idle"
Serialised == {"activate", "subscribe"} \subseteq alone
MayReport(t) ==
  /\ "open" \in alone => ~InOpen
  /\ "activate" \in alone /\ InActivateOrClose => t = "recovery"
  /\ "subscribe" \in alone /\ InSubscribe => t = "subscriber"

-----------------------------------------------------------------------------
(* DeviceBackendImpl::setException(), called by thread t *)

\* exchange(true): only the first report continues.
ReportsException(t) ==
  /\ hasException' = TRUE
  /\ exc' = [exc EXCEPT ![t] = IF hasException THEN "none" ELSE "message"]

\* A transfer outside of the domains fails, or Device::setException().
Report(t) ==
  /\ t \in Reporters
  /\ exc[t] = "none"
  /\ opened
  /\ ~hasException
  /\ MayReport(t)
  /\ ReportsException(t)
  /\ UNCHANGED <<opened, message, asyncActive, containerVars, lockVars, domain, pc, todo,
                 target, flag, terminated>>

\* Mistake: the message of an earlier error is kept.
SetFirstMessage(t) ==
  /\ exc[t] = "message"
  /\ message' = IF message = "none" THEN "error" ELSE message
  /\ exc' = [exc EXCEPT ![t] = "impl"]
  /\ UNCHANGED <<opened, hasException, asyncActive, containerVars, lockVars, domain, pc, todo,
                 target, flag, terminated>>

SetMessage(t) ==
  /\ exc[t] = "message"
  /\ message' = "error"
  /\ exc' = [exc EXCEPT ![t] = "impl"]
  /\ UNCHANGED <<opened, hasException, asyncActive, containerVars, lockVars, domain, pc, todo,
                 target, flag, terminated>>

SetExceptionImpl(t) ==
  /\ exc[t] = "impl"
  /\ asyncActive' = FALSE
  /\ exc' = [exc EXCEPT ![t] = "check"]
  /\ UNCHANGED <<opened, hasException, message, containerVars, lockVars, domain, pc, todo,
                 target, flag, terminated>>

\* DomainsContainer::sendExceptions() throws a logic_error if a distribution
\* is running, and returns if there is no exception thread yet.
CheckSending(t) ==
  /\ exc[t] = "check"
  /\ IF isSending
     THEN terminated' = TRUE /\ UNCHANGED exc
     ELSE /\ exc' = [exc EXCEPT ![t] = IF threadRunning THEN "flag" ELSE "none"]
          /\ UNCHANGED terminated
  /\ UNCHANGED <<sharedVars, containerVars, lockVars, domain, pc, todo, target, flag>>

SetSending(t) ==
  /\ exc[t] = "flag"
  /\ isSending' = TRUE
  /\ exc' = [exc EXCEPT ![t] = "push"]
  /\ UNCHANGED <<sharedVars, threadRunning, requests, lockVars, domain, pc, todo, target,
                 flag, terminated>>

\* Mistake: the request is not pushed.
PushNothing(t) ==
  /\ exc[t] = "push"
  /\ exc' = [exc EXCEPT ![t] = "none"]
  /\ UNCHANGED <<sharedVars, containerVars, lockVars, domain, pc, todo, target, flag, terminated>>

\* push() rejects the entry if the queue is full.
PushRequest(t) ==
  /\ exc[t] = "push"
  /\ requests' = IF requests < QueueSize THEN requests + 1 ELSE requests
  /\ exc' = [exc EXCEPT ![t] = "none"]
  /\ UNCHANGED <<sharedVars, isSending, threadRunning, lockVars, domain, pc, todo, target,
                 flag, terminated>>

SetException(t) ==
  \/ Report(t)
  \/ SetMessage(t)
  \/ SetExceptionImpl(t)
  \/ CheckSending(t)
  \/ SetSending(t)
  \/ PushRequest(t)

-----------------------------------------------------------------------------
(* DomainsContainer::distributeExceptions(), the exception thread *)

\* Mistake: the flag is reset when the distribution starts.
PopRequestResetFlag ==
  /\ At("exception", "idle")
  /\ requests > 0
  /\ requests' = requests - 1
  /\ isSending' = FALSE
  /\ Goto("exception", "lock")
  /\ UNCHANGED <<sharedVars, threadRunning, lockVars, domain, exc, todo, target, flag, terminated>>

PopRequest ==
  /\ At("exception", "idle")
  /\ requests > 0
  /\ requests' = requests - 1
  /\ Goto("exception", "lock")
  /\ UNCHANGED <<sharedVars, isSending, threadRunning, lockVars, domain, exc, todo, target,
                 flag, terminated>>

\* Mistake: the container is not locked.
EnterContainer(t, next) ==
  /\ containerLock' = t
  /\ todo' = [todo EXCEPT ![t] = Existing]
  /\ Goto(t, next)
  /\ UNCHANGED <<sharedVars, containerVars, domainLock, domain, exc, target, flag, terminated>>

LockContainer(t, next) ==
  /\ containerLock = Nobody
  /\ containerLock' = t
  /\ todo' = [todo EXCEPT ![t] = Existing]
  /\ Goto(t, next)
  /\ UNCHANGED <<sharedVars, containerVars, domainLock, domain, exc, target, flag, terminated>>

UnlockContainer(t, next) ==
  /\ todo[t] = {}
  /\ containerLock' = Nobody
  /\ Goto(t, next)
  /\ UNCHANGED <<sharedVars, containerVars, domainLock, domain, exc, todo, target, flag, terminated>>

ExceptionLock == At("exception", "lock") /\ LockContainer("exception", "each")

\* Mistake: the domain is not switched off.
ExceptionEachStayActive(d) ==
  /\ At("exception", "each")
  /\ d \in todo["exception"]
  /\ domainLock[d] = Nobody
  /\ todo' = [todo EXCEPT !["exception"] = @ \ {d}]
  /\ UNCHANGED <<sharedVars, containerVars, lockVars, domain, pc, exc, target, flag, terminated>>

\* DomainImpl::sendException() sets the domain inactive.
ExceptionEach(d) ==
  /\ At("exception", "each")
  /\ d \in todo["exception"]
  /\ domainLock[d] = Nobody
  /\ domain' = [domain EXCEPT ![d] = "inactive"]
  /\ todo' = [todo EXCEPT !["exception"] = @ \ {d}]
  /\ UNCHANGED <<sharedVars, containerVars, lockVars, pc, exc, target, flag, terminated>>

ExceptionUnlock == At("exception", "each") /\ UnlockContainer("exception", "done")

\* Mistake: the flag is not reset.
ExceptionDoneKeepFlag ==
  /\ At("exception", "done")
  /\ Goto("exception", "idle")
  /\ UNCHANGED <<sharedVars, containerVars, lockVars, domain, exc, todo, target, flag, terminated>>

ExceptionDone ==
  /\ At("exception", "done")
  /\ isSending' = FALSE
  /\ Goto("exception", "idle")
  /\ UNCHANGED <<sharedVars, threadRunning, requests, lockVars, domain, exc, todo, target,
                 flag, terminated>>

ExceptionThread ==
  \/ PopRequest
  \/ ExceptionLock
  \/ \E d \in Domains : ExceptionEach(d)
  \/ ExceptionUnlock
  \/ ExceptionDone

-----------------------------------------------------------------------------
(* Polling in a domain, with its lock held by thread t *)

\* Reading the device fails if there is an active exception, and may fail at
\* any time. A failure is reported by the thread which reads.
ReadDevice(t) ==
  \/ /\ ~hasException
     /\ UNCHANGED <<hasException, exc>>
  \/ /\ hasException \/ (ReadsMayFail /\ MayReport(t))
     /\ ReportsException(t)

\* DomainImpl::activate(). An active domain is left alone.
ActivateDomain(t, d) ==
  /\ domainLock[d] = Nobody
  /\ domainLock' = [domainLock EXCEPT ![d] = t]
  /\ target' = [target EXCEPT ![t] = d]
  /\ IF domain[d] = "active"
     THEN UNCHANGED <<domain, hasException, exc>>
     ELSE domain' = [domain EXCEPT ![d] = "active"] /\ ReadDevice(t)

\* The thread leaves the domain.
UnlockDomain(t, next) ==
  /\ domainLock' = [domainLock EXCEPT ![target[t]] = Nobody]
  /\ Goto(t, next)
  /\ UNCHANGED <<sharedVars, containerVars, containerLock, domain, exc, todo, target, flag,
                 terminated>>

-----------------------------------------------------------------------------
(* The thread which opens, activates and closes the device *)

Open ==
  /\ At("recovery", "idle")
  /\ MayEnter("open")
  /\ "open" \in alone => ~opened \/ hasException
  /\ Goto("recovery", "openWait")
  /\ UNCHANGED <<sharedVars, containerVars, lockVars, domain, exc, todo, target, flag, terminated>>

\* Mistake: open() does not wait.
OpenNoWait ==
  /\ At("recovery", "openWait")
  /\ Goto("recovery", "openSet")
  /\ UNCHANGED <<sharedVars, containerVars, lockVars, domain, exc, todo, target, flag, terminated>>

\* setOpenedAndClearException() waits until the exceptions are distributed.
OpenWait ==
  /\ At("recovery", "openWait")
  /\ ~isSending
  /\ Goto("recovery", "openSet")
  /\ UNCHANGED <<sharedVars, containerVars, lockVars, domain, exc, todo, target, flag, terminated>>

OpenSet ==
  /\ At("recovery", "openSet")
  /\ opened' = TRUE
  /\ Goto("recovery", "openClear")
  /\ UNCHANGED <<hasException, message, asyncActive, containerVars, lockVars, domain, exc,
                 todo, target, flag, terminated>>

OpenClear ==
  /\ At("recovery", "openClear")
  /\ hasException' = FALSE
  /\ Goto("recovery", "openMessage")
  /\ UNCHANGED <<opened, message, asyncActive, containerVars, lockVars, domain, exc, todo,
                 target, flag, terminated>>

OpenMessage ==
  /\ At("recovery", "openMessage")
  /\ message' = "cleared"
  /\ Goto("recovery", "idle")
  /\ UNCHANGED <<opened, hasException, asyncActive, containerVars, lockVars, domain, exc, todo,
                 target, flag, terminated>>

\* activateAsyncRead() is called on a device which is functional.
ActivateAsyncRead ==
  /\ At("recovery", "idle")
  /\ MayEnter("activate")
  /\ opened
  /\ ~hasException
  /\ Goto("recovery", "activateFlag")
  /\ UNCHANGED <<sharedVars, containerVars, lockVars, domain, exc, todo, target, flag, terminated>>

ActivateFlag ==
  /\ At("recovery", "activateFlag")
  /\ asyncActive' = TRUE
  /\ Goto("recovery", "activateLock")
  /\ UNCHANGED <<opened, hasException, message, containerVars, lockVars, domain, exc, todo,
                 target, flag, terminated>>

ActivateLock == At("recovery", "activateLock") /\ LockContainer("recovery", "activateEach")

ActivateEach(d) ==
  /\ At("recovery", "activateEach")
  /\ d \in todo["recovery"]
  /\ ActivateDomain("recovery", d)
  /\ todo' = [todo EXCEPT !["recovery"] = @ \ {d}]
  /\ Goto("recovery", "activateNext")
  /\ UNCHANGED <<opened, message, asyncActive, containerVars, containerLock, flag, terminated>>

ActivateNext == At("recovery", "activateNext") /\ UnlockDomain("recovery", "activateEach")

ActivateUnlock == At("recovery", "activateEach") /\ UnlockContainer("recovery", "idle")

Close ==
  /\ At("recovery", "idle")
  /\ MayEnter("activate")
  /\ opened
  /\ asyncActive' = FALSE
  /\ Goto("recovery", "closeLock")
  /\ UNCHANGED <<opened, hasException, message, containerVars, lockVars, domain, exc, todo,
                 target, flag, terminated>>

CloseLock == At("recovery", "closeLock") /\ LockContainer("recovery", "closeEach")

CloseEach(d) ==
  /\ At("recovery", "closeEach")
  /\ d \in todo["recovery"]
  /\ domainLock[d] = Nobody
  /\ domain' = [domain EXCEPT ![d] = "inactive"]
  /\ todo' = [todo EXCEPT !["recovery"] = @ \ {d}]
  /\ UNCHANGED <<sharedVars, containerVars, lockVars, pc, exc, target, flag, terminated>>

CloseUnlock == At("recovery", "closeEach") /\ UnlockContainer("recovery", "closeImpl")

CloseImpl ==
  /\ At("recovery", "closeImpl")
  /\ opened' = FALSE
  /\ Goto("recovery", "idle")
  /\ UNCHANGED <<hasException, message, asyncActive, containerVars, lockVars, domain, exc,
                 todo, target, flag, terminated>>

Recovery ==
  \/ OpenWait \/ OpenSet \/ OpenClear \/ OpenMessage
  \/ ActivateFlag \/ ActivateLock \/ ActivateNext \/ ActivateUnlock
  \/ CloseLock \/ CloseUnlock \/ CloseImpl
  \/ \E d \in Domains : ActivateEach(d) \/ CloseEach(d)

-----------------------------------------------------------------------------
(* The thread which creates accessors *)

\* getRegisterAccessor_impl() evaluates _asyncIsActive for the argument.
Subscribe(d) ==
  /\ At("subscriber", "idle")
  /\ MayEnter("subscribe")
  /\ flag' = asyncActive
  /\ target' = [target EXCEPT !["subscriber"] = d]
  /\ Goto("subscriber", "subscribeLock")
  /\ UNCHANGED <<sharedVars, containerVars, lockVars, domain, exc, todo, terminated>>

\* A missing domain is created, and the exception thread with it.
SubscribeLock ==
  LET d == target["subscriber"]
  IN  /\ At("subscriber", "subscribeLock")
      /\ containerLock = Nobody
      /\ containerLock' = "subscriber"
      /\ IF domain[d] = "absent"
         THEN /\ domain' = [domain EXCEPT ![d] = "inactive"]
              /\ threadRunning' = TRUE
              /\ UNCHANGED flag
         ELSE flag' = FALSE /\ UNCHANGED <<domain, threadRunning>>
      /\ Goto("subscriber", "subscribe")
      /\ UNCHANGED <<sharedVars, isSending, requests, domainLock, exc, todo, target, terminated>>

\* DomainImpl::subscribe() reads the initial value in an active domain.
SubscribeDomain ==
  LET d == target["subscriber"]
  IN  /\ At("subscriber", "subscribe")
      /\ domainLock[d] = Nobody
      /\ domainLock' = [domainLock EXCEPT ![d] = "subscriber"]
      /\ IF domain[d] = "active" THEN ReadDevice("subscriber") ELSE UNCHANGED <<hasException, exc>>
      /\ Goto("subscriber", "subscribed")
      /\ UNCHANGED <<opened, message, asyncActive, containerVars, containerLock, domain, todo,
                     target, flag, terminated>>

\* Mistake: a new domain is not activated.
SubscribeNextInactive == At("subscriber", "subscribed") /\ UnlockDomain("subscriber", "unlock")

SubscribeNext ==
  At("subscriber", "subscribed") /\ UnlockDomain("subscriber", IF flag THEN "activate" ELSE "unlock")

\* A domain which was created is activated if the argument says so.
SubscribeActivate ==
  /\ At("subscriber", "activate")
  /\ ActivateDomain("subscriber", target["subscriber"])
  /\ Goto("subscriber", "activated")
  /\ UNCHANGED <<opened, message, asyncActive, containerVars, containerLock, todo, flag, terminated>>

SubscribeActivated == At("subscriber", "activated") /\ UnlockDomain("subscriber", "unlock")

SubscribeUnlock == At("subscriber", "unlock") /\ UnlockContainer("subscriber", "idle")

Subscriber ==
  \/ SubscribeLock \/ SubscribeDomain \/ SubscribeNext
  \/ SubscribeActivate \/ SubscribeActivated \/ SubscribeUnlock

-----------------------------------------------------------------------------
(* The thread which distributes interrupts *)

\* The thread finds the domain, with a short lock of the container.
Interrupt(d) ==
  /\ At("interrupt", "idle")
  /\ containerLock = Nobody
  /\ domain[d] # "absent"
  /\ target' = [target EXCEPT !["interrupt"] = d]
  /\ Goto("interrupt", "distribute")
  /\ UNCHANGED <<sharedVars, containerVars, lockVars, domain, exc, todo, flag, terminated>>

InterruptDistribute ==
  LET d == target["interrupt"]
  IN  /\ At("interrupt", "distribute")
      /\ domainLock[d] = Nobody
      /\ domainLock' = [domainLock EXCEPT ![d] = "interrupt"]
      /\ IF domain[d] = "active" THEN ReadDevice("interrupt") ELSE UNCHANGED <<hasException, exc>>
      /\ Goto("interrupt", "distributed")
      /\ UNCHANGED <<opened, message, asyncActive, containerVars, containerLock, domain, todo,
                     target, flag, terminated>>

InterruptDone == At("interrupt", "distributed") /\ UnlockDomain("interrupt", "idle")

InterruptThread == InterruptDistribute \/ InterruptDone

-----------------------------------------------------------------------------
Running == ~terminated /\ UNCHANGED alone

Next ==
  /\ Running
  /\ \/ \E t \in Callers : SetException(t)
     \/ ExceptionThread
     \/ Open \/ ActivateAsyncRead \/ Close
     \/ Recovery
     \/ \E d \in Domains : Subscribe(d)
     \/ Subscriber
     \/ \E d \in Domains : Interrupt(d)
     \/ InterruptThread

Spec == Init /\ [][Next]_vars

(***************************************************************************)
(* A call which has been started makes progress, and std::mutex does not   *)
(* starve a thread for ever. No call has to be made.                       *)
(***************************************************************************)
Fairness ==
  /\ \A t \in Callers : WF_vars(Running /\ exc[t] # "none" /\ SetException(t))
  /\ SF_vars(Running /\ ExceptionThread)
  /\ SF_vars(Running /\ Recovery)
  /\ SF_vars(Running /\ Subscriber)
  /\ SF_vars(Running /\ InterruptThread)

FairSpec == Spec /\ Fairness

-----------------------------------------------------------------------------
(* Properties *)

TypeOK ==
  /\ opened \in BOOLEAN /\ hasException \in BOOLEAN /\ asyncActive \in BOOLEAN
  /\ isSending \in BOOLEAN /\ threadRunning \in BOOLEAN
  /\ flag \in BOOLEAN /\ terminated \in BOOLEAN
  /\ message \in {"none", "error", "cleared"}
  /\ requests \in 0 .. QueueSize
  /\ containerLock \in Threads \cup {Nobody}
  /\ domainLock \in [Domains -> Threads \cup {Nobody}]
  /\ domain \in [Domains -> {"absent", "inactive", "active"}]
  /\ exc \in [Threads -> {"none", "message", "impl", "check", "flag", "push"}]
  /\ todo \in [Threads -> SUBSET Domains]
  /\ target \in [Threads -> Domains \cup {NoDomain}]

(***************************************************************************)
(* The container and the domains are only touched by the owner of their    *)
(* locks, and a thread which waits in setException() still owns them.      *)
(***************************************************************************)
HoldsContainer(t) ==
  \/ t = "exception" /\ pc[t] = "each"
  \/ t = "recovery" /\ pc[t] \in {"activateEach", "activateNext", "closeEach"}
  \/ t = "subscriber" /\ pc[t] \notin {"idle", "subscribeLock"}
HoldsDomain(t, d) ==
  pc[t] \in {"activateNext", "subscribed", "activated", "distributed"} /\ target[t] = d
LockOwners ==
  /\ TypeOK
  /\ \A t \in Threads : containerLock = t <=> HoldsContainer(t)
  /\ \A t \in Threads, d \in Domains : domainLock[d] = t <=> HoldsDomain(t, d)

(***************************************************************************)
(* setException() is noexcept: sendExceptions() never finds a previous     *)
(* distribution still running ("called before previous distribution was    *)
(* ready", DomainsContainer.cc), or the program is terminated.             *)
(***************************************************************************)
NeverTerminates == ~terminated

(***************************************************************************)
(* Exceptions are distributed before the device has recovered: "The        *)
(* backend makes sure 9.3.2 is finished for each TransferElement before a  *)
(* call to Device::activateAsyncRead() re-activates its asynchronous       *)
(* transfer again" (spec B.9.3.4). A late exception would switch off a     *)
(* domain which was activated after the recovery.                          *)
(***************************************************************************)
ExceptionsBeforeRecovery ==
  pc["exception"] \in {"lock", "each"} /\ opened => hasException

(***************************************************************************)
(* After an error has been reported and distributed no domain is active:   *)
(* "Each transfer element deactivates asynchronous reads so no further     *)
(* data is pushed ... until open() has been called successfully" (spec     *)
(* B.9.3.1), and activateAsyncRead() has no effect if the device has an    *)
(* error (B.8.5.4.2). A domain which stays active is skipped by the next   *)
(* activation and gets no initial value.                                   *)
(***************************************************************************)
Settled ==
  /\ \A t \in Threads : pc[t] = "idle" /\ exc[t] = "none"
  /\ ~isSending
NoActiveDomainInError ==
  Serialised /\ Settled /\ hasException => \A d \in Domains : domain[d] # "active"

(***************************************************************************)
(* After activateAsyncRead() all domains are active, also the ones which   *)
(* are created meanwhile: "either all or none of the transfer elements are *)
(* receiving asyncronously send data" (spec B.8.5.3).                      *)
(***************************************************************************)
AllDomainsActive ==
  Serialised /\ Settled /\ opened /\ ~hasException /\ asyncActive
    => \A d \in Existing : domain[d] = "active"

(***************************************************************************)
(* "message for the current exception, if _hasActiveException is true"     *)
(* (DeviceBackendImpl.h), which checkActiveException() throws, once the    *)
(* thread which has set the flag has come to set the message: open() does  *)
(* not clear the message of an error which was reported after it.          *)
(***************************************************************************)
MessageIsCurrentOnceSet ==
  hasException /\ (\A t \in Threads : exc[t] # "message") => message = "error"

(***************************************************************************)
(* open() returns: setOpenedAndClearException() does not wait for ever for *)
(* the exception thread, which needs the container and the domain locks    *)
(* that other threads hold while they report the error themselves.         *)
(***************************************************************************)
OpenReturns == InOpen ~> ~InOpen

(***************************************************************************)
(* After an error has been reported all domains are switched off in the    *)
(* end (and their accessors get the exception), also if it was reported    *)
(* from inside of one of them, or the device is recovered or closed.       *)
(***************************************************************************)
ErrorSwitchesOff ==
  (Serialised /\ hasException /\ opened)
    ~> (~hasException \/ ~opened \/ \A d \in Domains : domain[d] # "active")

=============================================================================

---------------------------- MODULE ExceptionDummy ----------------------------
(***************************************************************************)
(* The push-type accessors of the ExceptionDummy, the backend which the    *)
(* tests let fail on request. Values and exceptions are pushed by calls of *)
(* the backend, which hold one mutex (not a recursive one) while they go   *)
(* through the accessors and release it around the reading of the target:  *)
(* a failing read calls setException(), which goes through the accessors   *)
(* again, inside of the first call. The calls do not overlap otherwise.    *)
(***************************************************************************)
EXTENDS Integers, Sequences

CONSTANTS
  Order,              \* push-type accessors, in the order of creation
  InitialValuesFail   \* whether reading can fail while initial values are pushed

Accessors == { Order[i] : i \in DOMAIN Order }

\* No accessor is created twice.
DummyAssumption ==
  /\ Order \in Seq(Accessors)
  /\ \A i, j \in DOMAIN Order : Order[i] = Order[j] => i = j

VARIABLES
  created,          \* the accessors in _pushDecorators, in order
  isActive,         \* _isActive, for each accessor
  hasException,     \* _hasException
  pushed,           \* (history) the last two elements pushed to _myReadQueue
  activateNew,      \* _activateNewPushAccessors
  activeException,  \* _hasActiveException of the backend
  throwing,         \* throwExceptionRead
  locked,           \* _pushDecoratorsMutex
  calls             \* the calls under way, the innermost first: [op, todo, at]

dummyVars == <<created, isActive, hasException, pushed, activateNew, activeException, throwing, locked, calls>>

Top == Head(calls)
Acc == Head(Top.todo)
At(place) == calls # <<>> /\ Top.at = place
GoTo(place) == calls' = <<[Top EXCEPT !.at = place]>> \o Tail(calls)

\* What is pushed to an accessor.
Push(a, what) == pushed' = [pushed EXCEPT ![a] = <<@[2], what>>]

-----------------------------------------------------------------------------
(* Starting calls. A call begins by locking the mutex. *)

Call(op, todo) == calls' = <<[op |-> op, todo |-> todo, at |-> "lock"]>>

TriggerPush ==
  /\ calls = <<>>
  /\ Call("triggerPush", created)
  /\ UNCHANGED <<created, isActive, hasException, pushed, activateNew, activeException, throwing, locked>>

\* activateAsyncRead(), which Device calls for a functional device only.
ActivateDummy ==
  /\ calls = <<>> /\ ~activeException /\ (throwing => InitialValuesFail)
  /\ Call("activateAsyncRead", created)
  /\ UNCHANGED <<created, isActive, hasException, pushed, activateNew, activeException, throwing, locked>>

\* setException(), of an accessor or by closeImpl(): only the first one since
\* the device was opened calls setExceptionImpl().
SetDummyException ==
  /\ calls = <<>> /\ ~activeException
  /\ activeException' = TRUE
  /\ Call("setExceptionImpl", created)
  /\ UNCHANGED <<created, isActive, hasException, pushed, activateNew, throwing, locked>>

\* getRegisterAccessor_impl() with PUSH_READ and wait_for_new_data.
GetPushAccessor ==
  /\ calls = <<>> /\ (throwing => InitialValuesFail \/ ~activateNew)
  /\ Len(created) < Len(Order) /\ Call("getRegisterAccessor", <<Order[Len(created) + 1]>>)
  /\ UNCHANGED <<created, isActive, hasException, pushed, activateNew, activeException, throwing, locked>>

\* open(). (If it throws it calls setException() as well.)
OpenDummy ==
  /\ calls = <<>> /\ ~throwing
  /\ activeException' = FALSE
  /\ UNCHANGED <<created, isActive, hasException, pushed, activateNew, throwing, locked, calls>>

\* A test switches throwExceptionRead, at any time.
SwitchThrowing ==
  /\ (calls # <<>> /\ ~InitialValuesFail => calls[Len(calls)].op \in {"triggerPush", "setExceptionImpl"})
  /\ throwing' = ~throwing
  /\ UNCHANGED <<created, isActive, hasException, pushed, activateNew, activeException, locked, calls>>

-----------------------------------------------------------------------------
(* Going through the accessors *)

\* The mutex is locked, first or after trigger().
Lock ==
  /\ \/ At("lock") /\ GoTo("loop") /\ UNCHANGED <<isActive, hasException>>
     \/ /\ At("locking again")
        /\ calls' = <<[Top EXCEPT !.at = "loop", !.todo = Tail(@)]>> \o Tail(calls)
        /\ isActive' = IF Top.op = "activateAsyncRead" THEN [isActive EXCEPT ![Acc] = TRUE] ELSE isActive
        /\ hasException' = IF Top.op = "activateAsyncRead" THEN [hasException EXCEPT ![Acc] = FALSE] ELSE hasException
  /\ ~locked /\ locked' = TRUE
  /\ UNCHANGED <<created, pushed, activateNew, activeException, throwing>>

\* The accessors which a loop passes by.
Skips(op) ==
  CASE op = "triggerPush" -> ~isActive[Acc]
    [] op = "activateAsyncRead" -> isActive[Acc]
    [] op = "setExceptionImpl" -> ~isActive[Acc] \/ hasException[Acc]

\* One turn of the loop of triggerPush(), activateAsyncRead() or setExceptionImpl().
Turn ==
  /\ At("loop") /\ Top.op # "getRegisterAccessor" /\ Top.todo # <<>>
  /\ IF Top.op = "setExceptionImpl"
     THEN /\ isActive' = [isActive EXCEPT ![Acc] = FALSE]
          /\ hasException' = [hasException EXCEPT ![Acc] = @ \/ isActive[Acc]]
     ELSE UNCHANGED <<isActive, hasException>>
  /\ IF Skips(Top.op)
     THEN calls' = <<[Top EXCEPT !.todo = Tail(@)]>> \o Tail(calls) /\ UNCHANGED locked
     ELSE GoTo("trigger") /\ locked' = FALSE
  /\ UNCHANGED <<created, pushed, activateNew, activeException, throwing>>

\* getRegisterAccessor_impl() keeps the mutex while it reads the initial value.
Enlist ==
  /\ At("loop") /\ Top.op = "getRegisterAccessor" /\ Top.todo # <<>>
  /\ created' = Append(created, Acc)
  /\ IF activateNew
     THEN isActive' = [isActive EXCEPT ![Acc] = TRUE] /\ GoTo("trigger")
     ELSE calls' = <<[Top EXCEPT !.todo = <<>>]>> \o Tail(calls) /\ UNCHANGED isActive
  /\ UNCHANGED <<hasException, pushed, activateNew, activeException, throwing, locked>>

\* The end of a call. The one which it was made by goes on.
Return ==
  /\ At("loop") /\ Top.todo = <<>>
  /\ activateNew' = CASE Top.op = "activateAsyncRead" -> TRUE
                      [] Top.op = "setExceptionImpl" -> FALSE
                      [] OTHER -> activateNew
  /\ locked' = FALSE
  /\ calls' = Tail(calls)
  /\ UNCHANGED <<created, isActive, hasException, pushed, activeException, throwing>>

-----------------------------------------------------------------------------
(* trigger() *)

Triggered == IF Top.op = "getRegisterAccessor"
             THEN calls' = <<[Top EXCEPT !.todo = <<>>, !.at = "loop"]>> \o Tail(calls)
             ELSE GoTo("locking again")

\* Reading the target: a value, or an exception, which is reported to the
\* backend before it is caught.
Trigger ==
  /\ At("trigger")
  /\ hasException' = [hasException EXCEPT ![Acc] = FALSE]
  /\ IF throwing \/ activeException
     THEN /\ activeException' = TRUE
          /\ calls' = (IF activeException THEN <<>>
                       ELSE <<[op |-> "setExceptionImpl", todo |-> created, at |-> "lock"]>>)
                      \o <<[Top EXCEPT !.at = "catch"]>> \o Tail(calls)
          /\ UNCHANGED pushed
     ELSE /\ Push(Acc, "value")
          /\ Triggered
          /\ UNCHANGED activeException
  /\ UNCHANGED <<created, isActive, activateNew, throwing, locked>>

\* Mistake: the exception is pushed although the nested call has done that.
CatchAlways ==
  /\ At("catch")
  /\ isActive' = [isActive EXCEPT ![Acc] = FALSE]
  /\ Push(Acc, "exception")
  /\ hasException' = [hasException EXCEPT ![Acc] = TRUE]
  /\ Triggered
  /\ UNCHANGED <<created, activateNew, activeException, throwing, locked>>

\* The handler of trigger().
Catch ==
  /\ At("catch")
  /\ isActive' = [isActive EXCEPT ![Acc] = FALSE]
  /\ IF hasException[Acc] THEN UNCHANGED pushed ELSE Push(Acc, "exception")
  /\ hasException' = [hasException EXCEPT ![Acc] = TRUE]
  /\ Triggered
  /\ UNCHANGED <<created, activateNew, activeException, throwing, locked>>

DummyInit ==
  /\ created = <<>>
  /\ isActive = [a \in Accessors |-> FALSE] /\ hasException = isActive
  /\ pushed = [a \in Accessors |-> <<"nothing", "nothing">>]
  /\ activateNew = FALSE /\ throwing = FALSE /\ locked = FALSE
  /\ activeException = FALSE   \* open() has succeeded
  /\ calls = <<>>

DummyNext ==
  \/ TriggerPush \/ ActivateDummy \/ SetDummyException \/ GetPushAccessor \/ OpenDummy \/ SwitchThrowing
  \/ Lock \/ Turn \/ Enlist \/ Return \/ Trigger \/ Catch

DummySpec == DummyInit /\ [][DummyNext]_dummyVars

-----------------------------------------------------------------------------
(* Properties *)

(***************************************************************************)
(* Each failure is seen by an accessor once, however setException() was    *)
(* called, and a recovered device sends an initial value before the next   *)
(* one.                                                                    *)
(***************************************************************************)
ExceptionIsPushedOnce == \A a \in Accessors : pushed[a] # <<"exception", "exception">>

(***************************************************************************)
(* Between the calls, the accessors are active if and only if asynchronous *)
(* reading is, which it is not after an exception; the newest element of   *)
(* an active accessor is a value, and no value is the newest one after an  *)
(* exception. The mutex is free, so the next call can go on.               *)
(***************************************************************************)
AccessorsAgree ==
  calls = <<>> =>
    /\ ~locked /\ (activateNew => ~activeException)
    /\ \A i \in DOMAIN created :
         isActive[created[i]] = activateNew /\ (pushed[created[i]][2] = "value" <=> activateNew)

=============================================================================

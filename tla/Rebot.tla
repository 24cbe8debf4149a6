------------------------------- MODULE Rebot -------------------------------
(***************************************************************************)
(* The RebotBackend: application threads and the heartbeat thread share a  *)
(* TCP connection under a mutex. Each command waits for its answer, which  *)
(* may be late: then the connection is closed. A heartbeat is sent if      *)
(* nothing has been sent for half of the timeout of the server.            *)
(*                                                                         *)
(* Time passes in ticks. An answer is a sequence of words; the data of an  *)
(* answer are one word here.                                               *)
(***************************************************************************)
EXTENDS Naturals, Sequences, SequencesExt

CONSTANTS
  Users, Heartbeat, Nobody,
  ServerTimeout,      \* _connectionTimeout: the server closes a silent connection
  ConnectionTimeout,  \* Connection::connectionTimeout_
  MaxBlocks,          \* bound: blocks of READ_BLOCK_SIZE, or single words written
  Requests            \* bound: requests are numbered modulo this number

VARIABLES
  protocol,           \* the version of the server
  serverReachable,
  opened, exception,
  implementor,        \* _protocolImplementor: its version, or NoProtocol
  connected,
  unanswered,         \* the request which the server has to answer, or <<>>
  answers,            \* words which have arrived
  request,            \* the number of the last request
  holder, op,         \* who holds the mutex, and what it does
  blocks,             \* how much of the operation is left
  wordsLeft,          \* words of the answer which are not read yet
  reporting,          \* who has thrown an exception which is not reported yet
  idle, age,          \* the ticks since _lastSendTime, and since the connection's timer was started
  wake,               \* the ticks until the heartbeat thread wakes up
  quitThread, ended,
  mismatch            \* an answer was taken for that of another request

stream == <<connected, unanswered, answers>>
operation == <<holder, op, blocks, wordsLeft>>
thread == <<wake, quitThread, ended>>
rebotVars == <<protocol, serverReachable, opened, exception, implementor, stream, request, operation,
               reporting, idle, age, thread, mismatch>>

Threads == Users \cup {Heartbeat}
NoProtocol == 2
Half == ServerTimeout \div 2
Idle(t) == holder = Nobody /\ t \notin reporting

-----------------------------------------------------------------------------
(* The connection *)

\* Sends a command and starts the timer. A closed socket is an error.
Send(command, words) ==
  /\ request' = (request + 1) % Requests
  /\ unanswered' = <<[id |-> request', command |-> command]>>
  /\ wordsLeft' = words
  /\ age' = 0

\* The answer of a server (external)
Answer(command) ==
  CASE command = "hello" -> IF protocol = 0 THEN {<<"unknown">>} ELSE {<<"hello", "magic", "version">>}
    [] command = "read" -> {<<"ack", "data">>, <<"error">>}
    [] command = "write" -> {<<"ack">>, <<"error">>}

ServerAnswers ==
  /\ connected /\ unanswered # <<>>
  /\ \E a \in Answer(unanswered[1].command) :
       answers' = answers \o [i \in 1 .. Len(a) |-> [id |-> unanswered[1].id, word |-> a[i]]]
  /\ unanswered' = <<>>
  /\ UNCHANGED <<protocol, serverReachable, opened, exception, implementor, connected, request, operation,
                 reporting, idle, age, thread, mismatch>>

\* Everything which is on its way is lost with the connection.
CloseConnection == connected' = FALSE /\ unanswered' = <<>> /\ answers' = <<>>

-----------------------------------------------------------------------------
(* Operations under the mutex *)

Release == holder' = Nobody /\ op' = "none" /\ blocks' = 0 /\ wordsLeft' = 0

\* The thread of the heartbeat sleeps until half of the timeout has passed
\* since the last command; after an exception it goes on at once.
Sleep(t) ==
  wake' = CASE t # Heartbeat -> wake
            [] t = Heartbeat /\ idle > Half -> 0
            [] OTHER -> Half + 1 - idle

\* A runtime_error leaves the function, with the mutex released. It is reported
\* later: by the accessor, or by heartbeatLoop(). Nothing is reported by open().
Throw(t) ==
  /\ reporting' = IF op \in {"hello", "version"} THEN reporting ELSE reporting \cup {t}
  /\ Release
  /\ UNCHANGED <<opened, exception, implementor, wake>>

Lock(t, what, n) ==
  /\ holder = Nobody /\ t \notin reporting
  /\ holder' = t /\ op' = what /\ blocks' = n

\* open(): the socket is closed and connected again.
Open(t) ==
  /\ ~opened \/ exception
  /\ IF serverReachable
     THEN /\ Lock(t, "hello", 0) /\ Send("hello", 1)
          /\ connected' = TRUE /\ answers' = <<>> /\ idle' = 0
     ELSE /\ Idle(t) /\ CloseConnection
          /\ UNCHANGED <<operation, request, idle, age>>
  /\ UNCHANGED <<protocol, serverReachable, opened, exception, implementor, reporting, thread, mismatch>>

\* read() and write(), unless closed or with an exception
Access(t, command) ==
  /\ opened /\ ~exception
  /\ \E n \in 1 .. (IF implementor = 0 THEN MaxBlocks ELSE 1) : Lock(t, command, n)
  /\ idle' = 0
  /\ IF connected
     THEN Send(command, 1) /\ UNCHANGED answers
     ELSE wordsLeft' = 0 /\ age' = 0 /\ UNCHANGED <<request, unanswered, answers>>
  /\ UNCHANGED <<protocol, serverReachable, opened, exception, implementor, connected, reporting, thread, mismatch>>

Close(t) ==
  /\ Idle(t) /\ opened
  /\ opened' = FALSE /\ implementor' = NoProtocol
  /\ CloseConnection
  /\ UNCHANGED <<protocol, serverReachable, exception, request, operation, reporting, idle, age, thread, mismatch>>

\* What the thread does next, when it has read the word w.
AfterWord(t, w) ==
  \/ /\ op = "hello" /\ w = "unknown"
     /\ implementor' = 0 /\ opened' = TRUE /\ exception' = FALSE
     /\ Release /\ UNCHANGED <<request, unanswered, age, reporting, wake>>
  \/ /\ op = "hello" /\ w = "hello"
     /\ op' = "version" /\ wordsLeft' = 2 /\ age' = 0
     /\ UNCHANGED <<implementor, opened, exception, holder, blocks, request, unanswered, reporting, wake>>
  \/ /\ op = "version" /\ wordsLeft = 1
     /\ implementor' = 1 /\ opened' = TRUE /\ exception' = FALSE
     /\ Release /\ UNCHANGED <<request, unanswered, age, reporting, wake>>
  \/ /\ op = "heartbeat" /\ wordsLeft = 1
     /\ Release /\ Sleep(t)
     /\ UNCHANGED <<implementor, opened, exception, request, unanswered, age, reporting>>
  \/ /\ op \in {"version", "heartbeat"} /\ wordsLeft > 1
     /\ wordsLeft' = wordsLeft - 1
     /\ UNCHANGED <<implementor, opened, exception, holder, op, blocks, request, unanswered, age, reporting, wake>>
  \/ /\ op = "read" /\ w = "ack" /\ age' = 0
     /\ UNCHANGED <<implementor, opened, exception, operation, request, unanswered, reporting, wake>>
  \/ /\ op = "read" /\ w = "error"
     /\ Throw(t) /\ UNCHANGED <<request, unanswered, age>>
  \/ /\ (op = "read" /\ w \notin {"ack", "error"}) \/ op = "write"
     /\ IF blocks > 1
        THEN /\ blocks' = blocks - 1 /\ Send(op, 1)
             /\ UNCHANGED <<implementor, opened, exception, holder, op, reporting, wake>>
        ELSE /\ Release
             /\ UNCHANGED <<implementor, opened, exception, request, unanswered, age, reporting, wake>>

Receive(t) ==
  /\ holder = t /\ connected /\ answers # <<>>
  /\ answers' = Tail(answers)
  /\ mismatch' = (mismatch \/ Head(answers).id # request)
  /\ AfterWord(t, Head(answers).word)
  /\ UNCHANGED <<protocol, serverReachable, connected, idle, quitThread, ended>>

\* Mistake: the timeout leaves the connection open.
TimeoutOnly(t) ==
  /\ holder = t /\ age >= ConnectionTimeout
  /\ Throw(t)
  /\ UNCHANGED <<protocol, serverReachable, stream, request, idle, age, quitThread, ended, mismatch>>

\* Mistake: the answer to a heartbeat is read without a timer.
TimeoutUnlessHeartbeat(t) ==
  /\ holder = t /\ age >= ConnectionTimeout /\ op # "heartbeat"
  /\ CloseConnection /\ Throw(t)
  /\ UNCHANGED <<protocol, serverReachable, request, idle, age, quitThread, ended, mismatch>>

\* The timer has expired before the answer.
Timeout(t) ==
  /\ holder = t /\ age >= ConnectionTimeout
  /\ CloseConnection /\ Throw(t)
  /\ UNCHANGED <<protocol, serverReachable, request, idle, age, quitThread, ended, mismatch>>

\* The socket is closed, or it breaks.
SocketError(t) ==
  /\ holder = t
  /\ ~connected \/ ~serverReachable
  /\ CloseConnection /\ Throw(t)
  /\ UNCHANGED <<protocol, serverReachable, request, idle, age, quitThread, ended, mismatch>>

\* setException()
Report(t) ==
  /\ t \in reporting
  /\ reporting' = reporting \ {t} /\ exception' = TRUE
  /\ UNCHANGED <<protocol, serverReachable, opened, implementor, stream, request, operation, idle, age,
                 thread, mismatch>>

-----------------------------------------------------------------------------
(* The heartbeat thread *)

\* Mistake: the next wake-up is computed without looking at what was sent meanwhile.
WakeUpLate ==
  /\ ~ended /\ wake = 0 /\ Idle(Heartbeat) /\ idle <= Half
  /\ wake' = ServerTimeout
  /\ UNCHANGED <<protocol, serverReachable, opened, exception, implementor, stream, request, operation,
                 reporting, idle, age, quitThread, ended, mismatch>>

WakeUp ==
  /\ ~ended /\ wake = 0 /\ Idle(Heartbeat) /\ idle <= Half
  /\ Sleep(Heartbeat)
  /\ UNCHANGED <<protocol, serverReachable, opened, exception, implementor, stream, request, operation,
                 reporting, idle, age, quitThread, ended, mismatch>>

\* The last send time is updated also if nothing is sent.
SendHeartbeat ==
  /\ ~ended /\ ~quitThread /\ wake = 0 /\ Idle(Heartbeat) /\ idle > Half
  /\ idle' = 0
  /\ IF implementor = 1
     THEN /\ Lock(Heartbeat, "heartbeat", 0)
          /\ IF connected
             THEN Send("hello", 3)
             ELSE wordsLeft' = 0 /\ age' = 0 /\ UNCHANGED <<request, unanswered>>
          /\ UNCHANGED wake
     ELSE wake' = Half + 1 /\ UNCHANGED <<operation, request, unanswered, age>>
  /\ UNCHANGED <<protocol, serverReachable, opened, exception, implementor, connected, answers, reporting,
                 quitThread, ended, mismatch>>

\* The destructor interrupts the sleep, and waits.
Destroy ==
  /\ holder = Nobody /\ ~quitThread /\ ~opened /\ reporting \subseteq {Heartbeat}
  /\ quitThread' = TRUE
  /\ UNCHANGED <<protocol, serverReachable, opened, exception, implementor, stream, request, operation,
                 reporting, idle, age, wake, ended, mismatch>>

Interrupted ==
  /\ quitThread /\ ~ended /\ Idle(Heartbeat)
  /\ ended' = TRUE
  /\ UNCHANGED <<protocol, serverReachable, opened, exception, implementor, stream, request, operation,
                 reporting, idle, age, wake, quitThread, mismatch>>

-----------------------------------------------------------------------------
(* Time and the network (external) *)

\* The heartbeat thread gets the mutex within a tick when it is awake and the
\* mutex is free.
Tick ==
  /\ ~(wake = 0 /\ Idle(Heartbeat) /\ ~ended)
  /\ holder # Nobody => age < ConnectionTimeout
  /\ reporting = {}
  /\ idle' = IF idle < ServerTimeout THEN idle + 1 ELSE idle
  /\ age' = IF holder # Nobody THEN age + 1 ELSE 0
  /\ wake' = IF wake > 0 THEN wake - 1 ELSE 0
  /\ UNCHANGED <<protocol, serverReachable, opened, exception, implementor, stream, request, operation,
                 reporting, quitThread, ended, mismatch>>

NetworkChanges ==
  /\ serverReachable' = ~serverReachable
  /\ UNCHANGED <<protocol, opened, exception, implementor, stream, request, operation, reporting, idle, age,
                 thread, mismatch>>

-----------------------------------------------------------------------------
(* Specification *)

RebotInit ==
  /\ protocol \in {0, 1} /\ serverReachable = TRUE
  /\ opened = FALSE /\ exception = FALSE /\ implementor = NoProtocol
  /\ connected = FALSE /\ unanswered = <<>> /\ answers = <<>> /\ request = 0
  /\ holder = Nobody /\ op = "none" /\ blocks = 0 /\ wordsLeft = 0
  /\ reporting = {} /\ idle = 0 /\ age = 0 /\ wake = 0
  /\ quitThread = FALSE /\ ended = FALSE /\ mismatch = FALSE

Finish(t) == Receive(t) \/ Timeout(t) \/ SocketError(t) \/ Report(t)

RebotNext ==
  \/ \E t \in Users : ~quitThread /\ (Open(t) \/ Close(t) \/ \E c \in {"read", "write"} : Access(t, c))
  \/ \E t \in Threads : Receive(t) \/ Timeout(t) \/ SocketError(t) \/ Report(t)
  \/ ServerAnswers \/ WakeUp \/ SendHeartbeat \/ Destroy \/ Interrupted \/ Tick \/ NetworkChanges

RebotSpec == RebotInit /\ [][RebotNext]_rebotVars

\* Threads go on, and time passes.
RebotFairness ==
  /\ WF_rebotVars(Tick)
  /\ WF_rebotVars(\E t \in Threads : Finish(t))
  /\ WF_rebotVars(WakeUp \/ SendHeartbeat \/ Interrupted)

FairSpec == RebotSpec /\ RebotFairness

-----------------------------------------------------------------------------
(* Properties *)

\* Each answer is taken for that of its own request, also after a timeout.
AnswersMatch == ~mismatch

\* While the heartbeat thread sleeps the server does not lose its patience.
ConnectionIsKeptAlive ==
  opened /\ ~exception /\ connected /\ holder = Nobody /\ ~quitThread => idle < ServerTimeout \/ wake = 0

\* Each operation ends, and the mutex is free again.
MutexIsReleased == holder # Nobody ~> holder = Nobody
=============================================================================

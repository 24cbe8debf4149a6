--------------------------- MODULE AccessorStream ---------------------------
(***************************************************************************)
(* What the asynchronous distribution promises to one accessor with        *)
(* AccessMode::wait_for_new_data, whatever threads distribute data, report *)
(* errors, activate, close and subscribe: the accessor is silent until it  *)
(* is started, an exception is the last entry of an active period, and     *)
(* versions never go back. The entries are those of AsyncDomain.           *)
(***************************************************************************)
EXTENDS Integers, Sequences, FutureQueue

CONSTANT QueueSize

VARIABLES
  phase,     \* "none" (not subscribed), "silent" or "on"
  version,   \* version of the last data which was sent to the accessor
  queue,     \* entries which the application has not read yet
  received   \* the last entry which the application has read

vars == <<phase, version, queue, received>>

Newest == queue[Len(queue)]

Fresh ==
  /\ version = 0
  /\ queue = <<>>
  /\ received.kind = "nothing"
  /\ received.version = 0

Init == phase = "none" /\ Fresh

\* The step pushes data, with a version not older than the last one.
PushesData ==
  /\ queue' # <<>>
  /\ queue' = PushOverwrite(queue, Newest', QueueSize)
  /\ Newest'.kind = "data"
  /\ Newest'.version = version'
  /\ version' >= version

\* The step pushes an exception.
PushesException ==
  /\ queue' # <<>>
  /\ queue' = PushOverwrite(queue, Newest', QueueSize)
  /\ Newest'.kind = "exception"
  /\ UNCHANGED version

\* An accessor is created. In an active domain it gets an initial value.
Subscribe ==
  /\ phase = "none"
  /\ \/ phase' = "silent" /\ UNCHANGED <<version, queue, received>>
     \/ phase' = "on" /\ PushesData /\ UNCHANGED received

\* Asynchronous read is activated: an initial value is sent first, unless
\* it could not be read from the device.
Start ==
  /\ phase = "silent"
  /\ phase' = "on"
  /\ PushesData \/ UNCHANGED <<version, queue>>
  /\ UNCHANGED received

Publish ==
  /\ phase = "on"
  /\ PushesData
  /\ UNCHANGED <<phase, received>>

\* An exception is reported. It is the last entry until the next start.
Fail ==
  /\ phase = "on"
  /\ phase' = "silent"
  /\ PushesException
  /\ UNCHANGED received

Stop ==
  /\ phase = "on"
  /\ phase' = "silent"
  /\ UNCHANGED <<version, queue, received>>

Read ==
  /\ phase # "none"
  /\ queue # <<>>
  /\ received' = Head(queue)
  /\ queue' = Tail(queue)
  /\ UNCHANGED <<phase, version>>

\* The accessor is destroyed.
Release == phase # "none" /\ phase' = "none" /\ Fresh'

Next == Subscribe \/ Start \/ Publish \/ Fail \/ Stop \/ Read \/ Release

Spec == Init /\ [][Next]_vars

=============================================================================

----------------------------- MODULE Subdevice -----------------------------
(***************************************************************************)
(* SubdeviceBackend: registers of a subdevice behind an address register,  *)
(* data registers and a busy register of a target device (types regWindow, *)
(* 3regs and 2regs), or behind an area with a handshake (areaHandshake).   *)
(*                                                                         *)
(* Several backends, for instance one per chip, use the same registers and *)
(* share a mutex. Each thread has an accessor of one of them. The content  *)
(* of a data register is a tuple of Size words; the memory of a chip has   *)
(* one such tuple per transfer address. The word k of the buffer of thread *)
(* t is Word(t, k), its padding is 0.                                      *)
(***************************************************************************)
EXTENDS Integers, Sequences, FiniteSets

CONSTANTS
  Threads,         \* positive numbers, also the numbers of the chips
  Nothing,
  ParameterSets,   \* parameters in the device descriptor, sets of names
  Registers,       \* entries of the map file, [address, nElements]
  Requests,        \* requested parts, [words, offset]
  Size,            \* words of the data registers
  MaxRetry,        \* timeout * 1000 / sleep
  Closing,         \* bound: threads which close their backend
  MaxAddress       \* bound: addresses in a chip

\* For the proofs. A transaction is not the value Nothing, and the registers of
\* the map file are in the chip.
SubdeviceAssumption ==
  /\ Threads \subseteq Nat /\ Size \in Nat \ {0} /\ MaxAddress \in Nat /\ MaxRetry \in Nat
  /\ \A info \in Registers :
       /\ info.address \in Nat /\ info.nElements \in Nat \ {0}
       /\ info.address + info.nElements <= MaxAddress + 1
  /\ \A request \in Requests : request.words \in Nat /\ request.offset \in Nat
  /\ Nothing \notin [kind : {"read", "write"}, chip : Threads, address : Nat,
                     data : [1 .. Size -> Int] \cup {<<>>}]

VARIABLES
  parameters,   \* of all backends, their chipIndex is that of the thread
  range,        \* range[t]: _startAddress and _numberOfWords of the accessor
  memory,       \* memory[chip][address]
  registers,    \* chipSelect, address and readData of the target device
  hardware,     \* the transaction the hardware works on, or Nothing
  targetOpen, opened,     \* DeviceBackendImpl::_opened of target and backends
  exception,   \* the target device has an active exception, which
                \* setExceptionImpl() has passed on
  user, buffer, \* buffer_2D and _buffer of the accessors
  area,         \* the buffer of the target accessor of areaHandshake
  pending,      \* pending[t]: transfer which waits for the mutex, or Nothing
  job,          \* transfer of the thread which holds the mutex, or Nothing
  outcome,      \* of the job which holds the mutex, or the last one
  late          \* the hardware was busy when the job has started a transaction

subdeviceVars == <<parameters, range, memory, registers, hardware, targetOpen, opened, exception, user,
                   buffer, area, pending, job, outcome, late>>

Word(t, k) == 10 * t + k
Empty(words) == [k \in 1 .. words |-> 0]

-----------------------------------------------------------------------------
(* Configuration *)

Type == CHOOSE type \in {"area", "areaHandshake", "3regs", "2regs", "regWindow"} : type \in parameters
NeedAreaParam == Type \in {"area", "areaHandshake"}
NeedStatusParam == Type \in {"3regs", "areaHandshake"}
HasBusy == parameters \cap {"busy", "status"} # {}

\* The constructor of SubdeviceBackend does not throw.
Accepted(p) ==
  LET types == p \cap {"area", "areaHandshake", "3regs", "2regs", "regWindow"}
  IN  /\ Cardinality(types) = 1
      /\ {"device", "map"} \subseteq p
      /\ types = {"2regs"} => "sleep" \in p
      /\ types \subseteq {"area", "areaHandshake"} => "areaRegister" \in p
      /\ types \subseteq {"3regs", "2regs"} => "data" \in p
      /\ types \subseteq {"3regs", "2regs", "regWindow"} => "address" \in p
      /\ types = {"regWindow"} => /\ p \cap {"readData", "writeData", "data"} # {}
                                  /\ "readData" \in p <=> "readRequest" \in p
      /\ types \subseteq {"3regs", "areaHandshake"} => "status" \in p

IsReadable == Type = "regWindow" /\ "readRequest" \in parameters
IsWriteable == Type = "regWindow" => parameters \cap {"writeData", "data"} # {}

\* verifyRegisterAccessorSize() of a register with one channel does not throw,
\* and the number of words it computes.
Words(info, request) == IF request.words = 0 THEN info.nElements ELSE request.words
SizeVerified(info, request) ==
  /\ Type \in {"3regs", "2regs"} => request.offset = 0 /\ Words(info, request) = info.nElements
  /\ request.words <= info.nElements
  /\ Words(info, request) + request.offset <= info.nElements

\* All types compute the start as the address of the register and the offset.
AccessorRange(info, request) == [start |-> info.address + request.offset, words |-> Words(info, request)]

-----------------------------------------------------------------------------
(* Transfer addresses and what is copied *)

\* Mistake: the end is rounded down.
EndRoundedDown(r) == IF Type = "regWindow" THEN (r.start + r.words) \div Size
                     ELSE r.start + (r.words + Size - 1) \div Size

StartAddress(r) == IF Type = "regWindow" THEN r.start \div Size
                   ELSE IF Type = "areaHandshake" THEN 0 ELSE r.start
EndAddress(r) ==
  CASE Type = "regWindow" -> (r.start + r.words + Size - 1) \div Size
    [] Type = "areaHandshake" -> r.words
    [] OTHER -> r.start + (r.words + Size - 1) \div Size

AtLeast(i, j) == IF i > j THEN i ELSE j
AtMost(i, j) == IF i < j THEN i ELSE j

\* Mistake: the offset is used in all transfers.
CopyOffsetAlways(r, adr) == IF Type = "regWindow" THEN r.start % Size ELSE 0

\* Where the first word which is copied is in the data register, and how many
\* words are copied.
CopyOffset(r, adr) == IF Type = "regWindow" THEN AtLeast(r.start - adr * Size, 0) ELSE 0
CopyWords(r, adr, copied) ==
  IF Type = "regWindow" THEN AtMost((adr + 1) * Size, r.start + r.words) - AtLeast(adr * Size, r.start)
  ELSE AtMost(Size, r.words - copied)

\* The data register is filled with zeros before and after the words.
Content(t, adr, copied) ==
  [i \in 1 .. Size |->
     LET k == i - CopyOffset(range[t], adr)
     IN  IF k \in 1 .. CopyWords(range[t], adr, copied) THEN buffer[t][copied + k] ELSE 0]

\* Where word k of the accessor is in the chip (reference definition).
Place(r, k) ==
  IF Type \in {"regWindow", "areaHandshake"} THEN <<(r.start + k - 1) \div Size, ((r.start + k - 1) % Size) + 1>>
  ELSE <<r.start + (k - 1) \div Size, ((k - 1) % Size) + 1>>
Stored(t, k) == LET p == Place(range[t], k) IN memory[t][p[1]][p[2]]

-----------------------------------------------------------------------------
(* The hardware (external). It ignores what is written while it is busy.   *)

Start(transaction) ==
  IF hardware = Nothing THEN hardware' = transaction /\ UNCHANGED late
  ELSE late' = TRUE /\ UNCHANGED hardware

Complete ==
  /\ hardware # Nothing
  /\ hardware' = Nothing
  /\ IF hardware.kind = "write"
     THEN memory' = [memory EXCEPT ![hardware.chip][hardware.address] = hardware.data] /\ UNCHANGED registers
     ELSE registers' = [registers EXCEPT !.readData = memory[hardware.chip][hardware.address]] /\ UNCHANGED memory
  /\ UNCHANGED <<parameters, range, targetOpen, opened, exception, user, buffer, area, pending, job,
                 outcome, late>>

-----------------------------------------------------------------------------
(* open() and close(), which also open and close the target device *)

Open(t) ==
  /\ t \notin opened \/ exception
  /\ targetOpen' = TRUE
  /\ opened' = opened \cup {t}
  /\ exception' = FALSE
  /\ UNCHANGED <<parameters, range, memory, registers, hardware, user, buffer, area, pending, job,
                 outcome, late>>

Close(t) ==
  /\ t \in opened \cap Closing
  /\ targetOpen' = FALSE
  /\ opened' = opened \ {t}
  /\ exception' = FALSE
  /\ UNCHANGED <<parameters, range, memory, registers, hardware, user, buffer, area, pending, job,
                 outcome, late>>

-----------------------------------------------------------------------------
(* Transfers *)

Free(t) == pending[t] = Nothing /\ (job # Nothing => job.t # t)

\* doPreRead() and doPreWrite() do not throw. The write swaps the buffers. What
\* the buffers have before a read does not matter any more.
PreTransfer(t, kind) ==
  /\ Free(t)
  /\ t \in opened
  /\ IF kind = "read" THEN IsReadable ELSE IsWriteable
  /\ pending' = [pending EXCEPT ![t] = kind]
  /\ IF kind = "write"
     THEN /\ buffer' = [buffer EXCEPT ![t] = [k \in 1 .. range[t].words |-> Word(t, k)]]
          /\ user' = [user EXCEPT ![t] = buffer[t]]
     ELSE /\ buffer' = [buffer EXCEPT ![t] = Empty(range[t].words)]
          /\ user' = [user EXCEPT ![t] = Empty(range[t].words)]
  /\ UNCHANGED <<parameters, range, memory, registers, hardware, targetOpen, opened, exception, area,
                 job, outcome, late>>

\* std::lock_guard in transferImpl() and doWriteTransfer()
Lock(t) ==
  /\ pending[t] # Nothing
  /\ job = Nothing
  /\ job' = [t |-> t, kind |-> pending[t], adr |-> StartAddress(range[t]), copied |-> 0, retry |-> 0,
             pc |-> "select"]
  /\ pending' = [pending EXCEPT ![t] = Nothing]
  /\ late' = FALSE /\ outcome' = "none"
  /\ UNCHANGED <<parameters, range, memory, registers, hardware, targetOpen, opened, exception, user,
                 buffer, area>>

Accessible == job # Nothing /\ targetOpen /\ ~exception
At(pc) == job # Nothing /\ job.pc = pc

\* An access to the target fails. Without an exception this is a runtime_error;
\* when the target has been closed by another backend it is a logic_error,
\* which leaves write() without doPostWrite().
AccessFails ==
  /\ job # Nothing /\ job.pc # "done"
  /\ IF targetOpen
     THEN /\ exception' = TRUE
          /\ outcome' = "runtime_error"
          /\ job' = [job EXCEPT !.pc = "done"]
     ELSE job' = Nothing /\ UNCHANGED <<outcome, exception>>
  /\ UNCHANGED <<parameters, range, memory, registers, hardware, targetOpen, opened, user, buffer, area,
                 pending, late>>

Chip == IF "chipSelectRegister" \in parameters THEN registers.chipSelect ELSE job.t

SelectChip ==
  /\ At("select") /\ Accessible
  /\ registers' = IF "chipSelectRegister" \in parameters THEN [registers EXCEPT !.chipSelect = job.t] ELSE registers
  /\ job' = [job EXCEPT !.pc = "address"]
  /\ UNCHANGED <<parameters, range, memory, hardware, targetOpen, opened, exception, user, buffer, area,
                 pending, outcome, late>>

\* The loop over the transfer addresses.
WriteAddress ==
  /\ At("address")
  /\ IF job.adr < EndAddress(range[job.t])
     THEN /\ Accessible
          /\ registers' = IF Type = "areaHandshake" THEN registers ELSE [registers EXCEPT !.address = job.adr]
          /\ job' = [job EXCEPT !.pc = "start"]
          /\ UNCHANGED outcome
     ELSE /\ job' = [job EXCEPT !.pc = "done"]
          /\ outcome' = "ok"
          /\ UNCHANGED registers
  /\ UNCHANGED <<parameters, range, memory, hardware, targetOpen, opened, exception, user, buffer, area,
                 pending, late>>

\* areaHandshake: one more word is put into the buffer, and all are written.
StartTransfer ==
  /\ At("start") /\ Accessible
  /\ job' = [job EXCEPT !.pc = "wait", !.retry = 0]
  /\ IF Type = "areaHandshake"
     THEN LET t == job.t
          IN  /\ area' = [area EXCEPT ![t][job.adr + 1] = buffer[t][job.adr + 1]]
              /\ memory' = [memory EXCEPT ![t] = [a \in 0 .. MaxAddress |->
                              [i \in 1 .. Size |->
                                 IF \E k \in 1 .. range[t].words : Place(range[t], k) = <<a, i>>
                                 THEN area'[t][CHOOSE k \in 1 .. range[t].words : Place(range[t], k) = <<a, i>>]
                                 ELSE memory[t][a][i]]]]
              /\ Start([kind |-> "read", chip |-> t, address |-> 0, data |-> <<>>])
     ELSE /\ Start([kind |-> job.kind, chip |-> Chip, address |-> registers.address,
                    data |-> IF job.kind = "write" THEN Content(job.t, job.adr, job.copied) ELSE <<>>])
          /\ UNCHANGED <<memory, area>>
  /\ UNCHANGED <<parameters, range, registers, targetOpen, opened, exception, user, buffer, pending,
                 outcome>>

\* Mistake: the loop goes on without looking at the busy register.
WaitNot ==
  /\ At("wait")
  /\ job' = [job EXCEPT !.pc = "fetch"]
  /\ UNCHANGED <<parameters, range, memory, registers, hardware, targetOpen, opened, exception, user,
                 buffer, area, pending, outcome, late>>

\* The busy register is polled until it is 0 or the timeout has passed. Without
\* it, the sleep is long enough for the hardware.
Wait ==
  /\ At("wait")
  /\ IF HasBusy
     THEN /\ Accessible
          /\ CASE hardware = Nothing ->
                    job' = [job EXCEPT !.pc = "fetch"] /\ UNCHANGED <<exception, outcome>>
               [] hardware # Nothing /\ job.retry + 1 <= MaxRetry ->
                    job' = [job EXCEPT !.retry = @ + 1] /\ UNCHANGED <<exception, outcome>>
               [] hardware # Nothing /\ job.retry + 1 > MaxRetry ->
                    /\ job' = [job EXCEPT !.pc = "done"]
                    /\ exception' = TRUE
                    /\ outcome' = "runtime_error"
     ELSE hardware = Nothing /\ job' = [job EXCEPT !.pc = "fetch"] /\ UNCHANGED <<exception, outcome>>
  /\ UNCHANGED <<parameters, range, memory, registers, hardware, targetOpen, opened, user, buffer, area,
                 pending, late>>

\* The words which were read are copied, and the next address.
Fetch ==
  LET t == job.t
      n == CopyWords(range[t], job.adr, job.copied)
      off == CopyOffset(range[t], job.adr)
  IN  /\ At("fetch")
      /\ job.kind = "read" => Accessible
      /\ buffer' = IF job.kind = "write" THEN buffer
                   ELSE [buffer EXCEPT ![t] = [k \in 1 .. range[t].words |->
                           IF k - job.copied \in 1 .. n THEN registers.readData[off + k - job.copied] ELSE @[k]]]
      /\ job' = [job EXCEPT !.pc = "address", !.adr = @ + 1, !.copied = @ + n]
      /\ UNCHANGED <<parameters, range, memory, registers, hardware, targetOpen, opened, exception, user,
                     area, pending, outcome, late>>

\* Mistake: the buffers are only swapped back after success.
PostTransferIfOk ==
  /\ At("done")
  /\ job' = Nothing /\ outcome' = "none"
  /\ IF outcome = "ok"
     THEN user' = [user EXCEPT ![job.t] = buffer[job.t]] /\ buffer' = [buffer EXCEPT ![job.t] = user[job.t]]
     ELSE UNCHANGED <<user, buffer>>
  /\ UNCHANGED <<parameters, range, memory, registers, hardware, targetOpen, opened, exception, area,
                 pending, late>>

\* The mutex is released; doPostRead() or doPostWrite().
PostTransfer ==
  /\ At("done")
  /\ job' = Nothing /\ outcome' = "none"
  /\ IF job.kind = "write" \/ outcome = "ok"
     THEN user' = [user EXCEPT ![job.t] = buffer[job.t]] /\ buffer' = [buffer EXCEPT ![job.t] = user[job.t]]
     ELSE UNCHANGED <<user, buffer>>
  /\ UNCHANGED <<parameters, range, memory, registers, hardware, targetOpen, opened, exception, area,
                 pending, late>>

-----------------------------------------------------------------------------
SubdeviceInit ==
  /\ parameters \in {p \in ParameterSets : Accepted(p)}
  /\ \E info \in Registers, request \in Requests :
       /\ SizeVerified(info, request)
       /\ range = [t \in Threads |-> AccessorRange(info, request)]
  /\ memory = [t \in Threads |-> [a \in 0 .. MaxAddress |-> [i \in 1 .. Size |-> 100 * t + 10 * a + i]]]
  /\ registers = [chipSelect |-> Nothing, address |-> 0, readData |-> Empty(Size)]
  /\ hardware = Nothing
  /\ targetOpen = TRUE /\ opened = Threads /\ exception = FALSE
  /\ user = [t \in Threads |-> [k \in 1 .. range[t].words |-> Word(t, k)]]
  /\ buffer = [t \in Threads |-> Empty(range[t].words)]
  /\ area = [t \in Threads |-> Empty(range[t].words)]
  /\ pending = [t \in Threads |-> Nothing]
  /\ job = Nothing
  /\ outcome = "none"
  /\ late = FALSE

Transfer == SelectChip \/ WriteAddress \/ StartTransfer \/ Wait \/ Fetch \/ PostTransfer \/ AccessFails

SubdeviceNext ==
  \/ \E t \in Threads : Open(t) \/ Close(t) \/ PreTransfer(t, "read") \/ PreTransfer(t, "write") \/ Lock(t)
  \/ Transfer \/ Complete

SubdeviceSpec == SubdeviceInit /\ [][SubdeviceNext]_subdeviceVars /\ WF_subdeviceVars(Transfer)

-----------------------------------------------------------------------------
(* Properties *)

(***************************************************************************)
(* When a write has succeeded all words are in the chip of its backend, at *)
(* the place of the register, whatever the alignment and the other         *)
(* backends do: transferImpl() and SubdeviceRegisterAccessor. Without a    *)
(* transaction which was given up and was still being worked on.           *)
(***************************************************************************)
WriteArrives ==
  At("done") /\ job.kind = "write" /\ outcome = "ok" /\ ~late =>
    \A k \in 1 .. range[job.t].words : Stored(job.t, k) = Word(job.t, k)

(***************************************************************************)
(* When a read has succeeded the words are those of the register in the    *)
(* chip of its backend.                                                    *)
(***************************************************************************)
ReadIsRight ==
  At("done") /\ job.kind = "read" /\ outcome = "ok" /\ ~late =>
    \A k \in 1 .. range[job.t].words : buffer[job.t][k] = Stored(job.t, k)

(***************************************************************************)
(* After a write the application has its data back, also if it has failed  *)
(* with a runtime_error: the buffers are swapped twice.                    *)
(***************************************************************************)
GivesDataBack ==
  At("done") /\ job.kind = "write" /\ job' = Nothing =>
    user'[job.t] = [k \in 1 .. range[job.t].words |-> Word(job.t, k)]
WrittenDataKept == [][GivesDataBack]_subdeviceVars

(***************************************************************************)
(* The mutex is released at last: a hardware which stays busy is given up  *)
(* after the timeout.                                                      *)
(***************************************************************************)
TransferTerminates == (job # Nothing /\ HasBusy) ~> (job = Nothing)

=============================================================================

-------------------------------- MODULE Pcie --------------------------------
(***************************************************************************)
(* The PcieBackend: a device node of one of three drivers, which are told  *)
(* apart by the ioctl each of them knows, and transfers through the file.  *)
(* The kernel gives the lowest free file descriptor to open(), whoever     *)
(* calls it. The device may be removed, or come back with another driver,  *)
(* at any time: files of it which are open stop to work.                   *)
(***************************************************************************)
EXTENDS Integers, SequencesExt

CONSTANTS
  Descriptors,      \* file descriptors of the process
  Nodes,            \* what is behind the device node: a driver, "unsupported", "absent"
  StructWords,      \* size of the structures which are passed to the drivers
  Words,            \* size of the bar, and of the area for DMA
  Values,
  MaxEvents,        \* bound: changes of the device node and failing transfers
  OthersOpenFiles   \* other parts of the program open files, too

VARIABLES
  node,             \* the present driver of the device
  files,            \* kernel: what each descriptor refers to
  memory,           \* contents of the areas of the device
  deviceID, access, \* _deviceID, and the functions which were configured
  opened, exception,
  buffer,           \* what the last transfer has left in the buffer of the accessor
  outcome,          \* the last call, how it ended, and where it transferred
  events

pcieVars == <<node, files, memory, deviceID, access, opened, exception, buffer, outcome, events>>

NoFile == [of |-> "nobody", driver |-> "absent", alive |-> FALSE]
Old == -1           \* a word of the buffer which was not transferred
Request == -2       \* a word of a request which was put there for the driver
Areas == {"bar", "dma"}
Blocks == { [area |-> a, first |-> f, n |-> n] : a \in Areas, f \in 0 .. Words - 1, n \in 1 .. Words }
Fits(block) == block.first + block.n <= Words
Here(block) == SubSeq(memory[block.area], block.first + 1, block.first + block.n)
Untouched(block) == [i \in 1 .. block.n |-> Old]
Small(block) == block.n < StructWords
Requested(block) == [i \in 1 .. block.n |-> IF ~Small(block) /\ i <= StructWords THEN Request ELSE Old]
Fresh == [a \in Areas |-> [w \in 1 .. Words |-> IF a = "bar" THEN w ELSE Words + w]]

Ended(call, ok, block) == [call |-> call, ok |-> ok, block |-> block]
NoBlock == [area |-> "bar", first |-> 0, n |-> 0]

\* determineDriverAndConfigureIoctl(): how the driver is accessed.
AccessOf(driver) ==
  CASE driver = "pciedev" -> [plain |-> "struct", dma |-> "ioctl"]
    [] driver = "llrf" -> [plain |-> "struct", dma |-> "struct"]
    [] driver = "pcieuni" -> [plain |-> "direct", dma |-> "ioctl"]
    [] OTHER -> [plain |-> "none", dma |-> "none"]
Supported(driver) == AccessOf(driver).plain # "none"

PcieInit ==
  /\ node \in Nodes
  /\ files = [d \in Descriptors |-> NoFile]
  /\ memory = Fresh
  /\ deviceID = 0 /\ access = AccessOf("absent")
  /\ opened = FALSE /\ exception = FALSE
  /\ buffer = <<>> /\ outcome = Ended("none", TRUE, NoBlock) /\ events = 0

-----------------------------------------------------------------------------
(* The kernel *)

\* The file of _deviceID belongs to the device, and works.
Works == deviceID \in Descriptors /\ files[deviceID].of = "pcie" /\ files[deviceID].alive

Closed(table, d) == [x \in Descriptors |-> IF x = d THEN NoFile ELSE table[x]]
Free(table) == { d \in Descriptors : table[d].of = "nobody" }
Lowest(set) == CHOOSE d \in set : \A x \in set : d <= x

-----------------------------------------------------------------------------
(* Opening and closing *)

\* What ::open() of the device node returns with the given table of files.
Opens(table) ==
  IF node # "absent" /\ Free(table) # {} THEN Lowest(Free(table)) ELSE -1

\* open() after the old file, if any, was closed.
OpenNode(table) ==
  LET d == Opens(table)
  IN  /\ deviceID' = d
      /\ IF d # -1 /\ Supported(node)
         THEN /\ files' = [table EXCEPT ![d] = [of |-> "pcie", driver |-> node, alive |-> TRUE]]
              /\ access' = AccessOf(node)
              /\ opened' = TRUE /\ exception' = FALSE
              /\ outcome' = Ended("open", TRUE, NoBlock)
         ELSE /\ files' = table \* no file, or closed as the driver is unknown
              /\ outcome' = Ended("open", FALSE, NoBlock)
              /\ UNCHANGED <<access, opened, exception>>

\* Mistake: open() of an open device forgets the old file.
OpenForgetting ==
  /\ \/ /\ opened /\ Works
        /\ outcome' = Ended("open", TRUE, NoBlock)
        /\ UNCHANGED <<files, deviceID, access, opened, exception>>
     \/ ~(opened /\ Works) /\ OpenNode(files)
  /\ UNCHANGED <<node, memory, buffer, events>>

\* checkConnection() of a file which works may fail like any other transfer.
ConnectionWorks == opened /\ Works /\ UNCHANGED events
ConnectionFails == \/ ~(opened /\ Works) /\ UNCHANGED events
                   \/ opened /\ Works /\ events < MaxEvents /\ events' = events + 1

\* open() of a device which is open and whose connection works does nothing.
Open ==
  /\ \/ /\ ConnectionWorks
        /\ outcome' = Ended("open", TRUE, NoBlock)
        /\ UNCHANGED <<files, deviceID, access, opened, exception>>
     \/ /\ ConnectionFails
        /\ OpenNode(IF opened THEN Closed(files, deviceID) ELSE files)
  /\ UNCHANGED <<node, memory, buffer>>

\* closeImpl()
CloseDevice ==
  /\ files' = IF opened THEN Closed(files, deviceID) ELSE files
  /\ opened' = FALSE
  /\ outcome' = Ended("close", TRUE, NoBlock)
  /\ UNCHANGED <<node, memory, deviceID, access, exception, buffer, events>>

-----------------------------------------------------------------------------
(* Transfers of a low-level element, which checks that the device is open. *)
(* Any runtime_error of them is reported to the backend.                   *)

Failed(call, block) == outcome' = Ended(call, FALSE, block) /\ exception' = TRUE
Succeeded(call, block) == outcome' = Ended(call, TRUE, block) /\ UNCHANGED exception

\* A transfer fails without a working file, and may fail with one.
MayFail == ~Works \/ events < MaxEvents
FailureCounts == events' = IF Works THEN events + 1 ELSE events

\* readWithStruct() has a system call for each word, directRead() only one.
ReadBar(block) ==
  LET parts == IF access.plain = "struct" THEN 0 .. block.n - 1 ELSE {0}
  IN  \/ /\ Works
         /\ buffer' = Here(block) /\ Succeeded("read", block) /\ UNCHANGED events
      \/ /\ MayFail /\ FailureCounts
         /\ \E done \in IF Works THEN parts ELSE {0} :
              buffer' = [i \in 1 .. block.n |-> IF i <= done THEN Here(block)[i] ELSE Old]
         /\ Failed("read", block)

\* readDMAViaStruct() and readDMAViaIoctl(): the request is put into the buffer,
\* where the data replace it. If the buffer is too small both use a structure on
\* the stack; the former copies the data out of it, the latter the buffer into it.
ReadDma(block) ==
  \/ /\ Works
     /\ buffer' = IF Small(block) /\ access.dma = "ioctl" THEN Untouched(block) ELSE Here(block)
     /\ Succeeded("read", block) /\ UNCHANGED events
  \/ /\ MayFail /\ FailureCounts
     /\ buffer' = Requested(block) /\ Failed("read", block)

Read ==
  /\ opened
  /\ \E block \in Blocks :
       /\ Fits(block)
       /\ IF exception THEN buffer' = Untouched(block) /\ Failed("read", block) /\ UNCHANGED events
          ELSE IF block.area = "bar" THEN ReadBar(block) ELSE ReadDma(block)
  /\ UNCHANGED <<node, files, memory, deviceID, access, opened>>

\* The memory after the first n words of data were written.
Stored(block, data, n) ==
  [memory EXCEPT ![block.area] =
     [w \in 1 .. Words |-> IF w - block.first \in 1 .. n THEN data[w - block.first] ELSE @[w]]]

\* writeWithStruct(), directWrite(); there is no DMA for writing.
Write ==
  /\ opened
  /\ \E block \in Blocks, v \in Values :
       LET data == [i \in 1 .. block.n |-> v]
           parts == IF access.plain = "struct" THEN 0 .. block.n - 1 ELSE {0}
       IN  /\ block.area = "bar" /\ Fits(block)
           /\ buffer' = data
           /\ \/ /\ exception
                 /\ Failed("write", block) /\ UNCHANGED <<memory, events>>
              \/ /\ ~exception /\ Works
                 /\ memory' = Stored(block, data, block.n)
                 /\ Succeeded("write", block) /\ UNCHANGED events
              \/ /\ ~exception /\ MayFail /\ FailureCounts
                 /\ \E done \in IF Works THEN parts ELSE {0} : memory' = Stored(block, data, done)
                 /\ Failed("write", block)
  /\ UNCHANGED <<node, files, deviceID, access, opened>>

-----------------------------------------------------------------------------
(* The environment *)

\* The device is removed, exchanged or gets another driver.
ChangeNode ==
  /\ events < MaxEvents /\ events' = events + 1
  /\ \E n \in Nodes \ {node} : node' = n
  /\ files' = [d \in Descriptors |-> [files[d] EXCEPT !.alive = FALSE]]
  /\ memory' = Fresh
  /\ outcome' = Ended("changed", TRUE, NoBlock)
  /\ UNCHANGED <<deviceID, access, opened, exception, buffer>>

\* Device::setException(), e.g. as data make no sense.
SetException ==
  /\ opened /\ exception' = TRUE
  /\ outcome' = Ended("setException", TRUE, NoBlock)
  /\ UNCHANGED <<node, files, memory, deviceID, access, opened, buffer, events>>

OtherFile ==
  /\ OthersOpenFiles
  /\ \E d \in Descriptors :
       \/ /\ Free(files) # {} /\ d = Lowest(Free(files))
          /\ files' = [files EXCEPT ![d] = [NoFile EXCEPT !.of = "other"]]
       \/ /\ files[d].of = "other"
          /\ files' = Closed(files, d)
  /\ outcome' = Ended("other", TRUE, NoBlock)
  /\ UNCHANGED <<node, memory, deviceID, access, opened, exception, buffer, events>>

PcieNext == Open \/ CloseDevice \/ Read \/ Write \/ ChangeNode \/ SetException \/ OtherFile

PcieSpec == PcieInit /\ [][PcieNext]_pcieVars

-----------------------------------------------------------------------------
(* Properties *)

OwnFiles == { d \in Descriptors : files[d].of = "pcie" }

(***************************************************************************)
(* open(), which may fail at any point and may be called again, and        *)
(* close() leave no file behind: a closed device has none, and an open one *)
(* has none but that of _deviceID.                                         *)
(***************************************************************************)
NoFileIsLeft == OwnFiles \subseteq (IF opened THEN {deviceID} ELSE {})

(***************************************************************************)
(* The functions for reading and writing are those of the driver of the    *)
(* file, also if the device has come back with another driver.             *)
(***************************************************************************)
AccessFitsDriver == opened /\ Works => access = AccessOf(files[deviceID].driver)

\* Requests which readDMAViaIoctl() does not deliver.
SmallDma(block) == block.area = "dma" /\ Small(block) /\ access.dma = "ioctl"

(***************************************************************************)
(* A transfer which returns has transferred every word: what was read is   *)
(* what the device has, and what was written is there. One which fails has *)
(* the exception set, however many words it has transferred.               *)
(***************************************************************************)
TransfersAreComplete ==
  outcome.call \in {"read", "write"} =>
    IF outcome.ok THEN SmallDma(outcome.block) \/ buffer = Here(outcome.block)
    ELSE exception

(***************************************************************************)
(* After open() has returned the device is functional:                     *)
(* DeviceBackendImpl::setOpenedAndClearException() ends the recovery.      *)
(* Violated: an open() in an exception state which finds the connection    *)
(* working returns at once, and the exception stays.                       *)
(***************************************************************************)
OpenRecovers == outcome.call = "open" /\ outcome.ok => opened /\ ~exception

(***************************************************************************)
(* Files of other parts of the program stay open. Violated if              *)
(* OthersOpenFiles: after an open() which has failed the descriptor which  *)
(* it has closed is closed once more.                                      *)
(***************************************************************************)
OnlyOwnFilesAreClosed ==
  [][\A d \in Descriptors :
       files[d].of = "other" /\ files'[d].of # "other" => outcome'.call = "other"]_pcieVars

(***************************************************************************)
(* Small requests are delivered, too. Violated: readDMAViaIoctl() copies   *)
(* in the wrong direction.                                                 *)
(***************************************************************************)
SmallDmaIsRead ==
  outcome.call = "read" /\ outcome.ok => buffer = Here(outcome.block)

=============================================================================

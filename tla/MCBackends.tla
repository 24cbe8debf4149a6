----------------------------- MODULE MCBackends -----------------------------
(***************************************************************************)
(* Model checks the modules about single backends. They share no state, so *)
(* each behaviour is one of one of them, the part: this needs no more      *)
(* states than separate runs. The variables s1, s2, ... are those of the   *)
(* part, in the order of its VARIABLES; those which it does not have stay  *)
(* unused. UnalignedWrite keeps its own variables, which only change if it *)
(* is the part.                                                            *)
(***************************************************************************)
EXTENDS MCUnalignedWrite

CONSTANTS
  Parts,              \* the parts, see BackendsInit
  Absent,
  MuxedEvents,        \* bound: events of all sub-interrupts
  AnyPushElements, AnyPollElements, AnyMembers, AnyQueueSize, \* those of ReadAnyGroup
  AnyPushes,          \* bound: updates, errors and values to be discarded
  CounterModulus,     \* of the interrupts of InterruptThreads
  CounterStart,
  MaxInterrupts,      \* bound: interrupts
  MaxThreadErrors,    \* bound: removals and errors
  BufferReaders,      \* the readers of DoubleBuffer
  BufferGroup,        \* numbers of their accessors
  BufferFrames,       \* bound: frames are counted modulo this number
  MathPlugins, MathPush, MathGroup, MathParameters, \* those of LogicalMath
  MaxMathVersion,     \* bound: its version numbers
  FileDescriptors, FileStructWords, FileWords, FileValues, \* those of Pcie
  MaxFileEvents,      \* bound: its events
  RebotUsers,         \* those of Rebot, which counts time in ticks
  RebotTimeout, RebotConnectionTimeout, RebotBlocks, RebotRequests,
  Devices, DeviceNames, DMaps, Descriptors, PluginsOf, BuiltInBackends, TargetNames, DeviceBackends,
                      \* those of Factory
  DummyAccessors,     \* Order of ExceptionDummy
  SharedProcesses, SharedInterrupts, SharedMembers, SharedCounts, SharedCrashes, SharedObjects, \* those of SharedDummy
  MuxedSubInterrupts, MuxedDescriptions,
  SubdeviceParameters, SubdeviceRequests, SubdeviceThreads, SubdeviceRegisters, SubdeviceSize,
  SubdeviceClosing, SubdeviceAddresses, \* those of Subdevice
  Observed            \* writers of UnalignedWrite, one of which has to come back from write()

VARIABLES part, s1, s2, s3, s4, s5, s6, s7, s8, s9, s10, s11, s12, s13, s14, s15, s16, s17, s18, s19, s20

partVars == <<s1, s2, s3, s4, s5, s6, s7, s8, s9, s10, s11, s12, s13, s14, s15, s16, s17, s18, s19, s20>>
allVars == <<part, partVars, vars>>

\* The variables from the given number on, and those a part does not use.
from10 == <<s10, s11, s12, s13, s14, s15>>
from11 == <<s11, s12, s13, s14, s15>>
from16 == <<s16, s17, s18, s19, s20>>
from18 == <<s18, s19, s20>>
NotUsed2 == s2 = "-" /\ s3 = "-" /\ s4 = "-" /\ s5 = "-" /\ s6 = "-" /\ s7 = "-" /\ s8 = "-" /\ s9 = "-"
NotUsed11 == s11 = "-" /\ s12 = "-" /\ s13 = "-" /\ s14 = "-" /\ s15 = "-"
NotUsed10 == s10 = "-" /\ NotUsed11
NotUsed18 == s18 = "-" /\ s19 = "-" /\ s20 = "-"
NotUsed16 == s16 = "-" /\ s17 = "-" /\ NotUsed18

-----------------------------------------------------------------------------
\* Sub-interrupts of a controller, and of one behind the second of them.
TwoAndOneBehind == {<<"A", 0>>, <<"A", 1>>, <<"B", 0>>}
OneAndOneBehind == {<<"A", 1>>, <<"B", 0>>}
MuxedChild == [s \in MuxedSubInterrupts |-> IF s = <<"A", 1>> THEN "B" ELSE "none"]
AllDescriptions == {{}, {"ISR", "IER", "IPR", "SIE", "CIE", "MER"}, {"SIE"}, {"ICR", "IAR"}, {"IMR"}, {"XYZ"}}
FullDescription == {{"ISR", "IER", "IPR", "SIE", "CIE", "MER"}}

Muxed == INSTANCE MuxedInterrupts WITH
  Root <- "A", SubInterrupts <- MuxedSubInterrupts, Child <- MuxedChild, NoController <- "none",
  Descriptions <- MuxedDescriptions, MaxEvents <- MuxedEvents,
  options <- s1, isr <- s2, ier <- s3, mer <- s4, events <- s5, subscribed <- s6, subDomains <- s7,
  activeInterrupts <- s8, isActive <- s9, error <- s10, agenda <- s11, destruction <- s12,
  received <- s13, overtaken <- s14, undisturbed <- s15

ASSUME MuxedAssumption == Muxed!TreeAssumption

EventThreads == INSTANCE InterruptThreads WITH
  Modulus <- CounterModulus, FirstCount <- CounterStart, RemoveAnytime <- FALSE,
  MaxData <- MaxInterrupts, MaxErrors <- MaxThreadErrors,
  kind <- s1, present <- s2, data <- s3, counter <- s4, masked <- s5, pending <- s6, unread <- s7,
  lastCount <- s8, pc <- s9, exception <- s10, thread <- s11, stop <- s12, done <- s13, polled <- s14,
  terminated <- s15, errors <- s16

ASSUME EventThreadsAssumption == EventThreads!CounterAssumption

\* Two chips behind one target, whose second backend may be closed; the three
\* ways to address them, and parameters which are not accepted.
Window == {"map", "device", "regWindow", "address", "chipSelectRegister"}
AllParameters ==
  { Window \cup {"readData", "readRequest", "busy"},
    Window \cup {"writeData"},
    Window \cup {"readData", "busy"},
    {"map", "device", "3regs", "address", "data", "status"},
    {"map", "device", "areaHandshake", "areaRegister", "status"} }
BusyParameters == {Window \cup {"readData", "readRequest", "busy"}, {"map", "device", "3regs", "address", "data", "status"}}
AllRequests == {[words |-> 0, offset |-> 0], [words |-> 2, offset |-> 1], [words |-> 3, offset |-> 1]}
OneRegister == {[address |-> 0, nElements |-> 3]}
UnalignedRequest == {[words |-> 2, offset |-> 1]}

Subdevices == INSTANCE Subdevice WITH
  Threads <- SubdeviceThreads, ParameterSets <- SubdeviceParameters, Registers <- SubdeviceRegisters,
  Requests <- SubdeviceRequests, Size <- SubdeviceSize, MaxRetry <- 1, Closing <- SubdeviceClosing,
  MaxAddress <- SubdeviceAddresses, Nothing <- Absent,
  parameters <- s1, range <- s2, memory <- s3, registers <- s4, hardware <- s5, targetOpen <- s6,
  opened <- s7, exception <- s8, user <- s9, buffer <- s10, area <- s11, pending <- s12, job <- s13,
  outcome <- s14, late <- s15

ASSUME SubdevicesAssumption == Subdevices!SubdeviceAssumption

Rebots == INSTANCE Rebot WITH
  Users <- RebotUsers, Heartbeat <- "heartbeat", Nobody <- "nobody",
  ServerTimeout <- RebotTimeout, ConnectionTimeout <- RebotConnectionTimeout, MaxBlocks <- RebotBlocks,
  Requests <- RebotRequests,
  protocol <- s1, serverReachable <- s2, opened <- s3, exception <- s4, implementor <- s5, connected <- s6,
  unanswered <- s7, answers <- s8, request <- s9, holder <- s10, op <- s11, blocks <- s12, wordsLeft <- s13,
  reporting <- s14, idle <- s15, age <- s16, wake <- s17, quitThread <- s18, ended <- s19, mismatch <- s20

ASSUME RebotsAssumption ==
  /\ RebotUsers \cap {"heartbeat", "nobody"} = {} /\ RebotTimeout \in Nat \ {0}
  /\ RebotConnectionTimeout \in Nat /\ RebotBlocks \in Nat /\ RebotRequests \in Nat \ {0}

\* Three accessors of the ExceptionDummy.
ThreeAccessors == <<"d1", "d2", "d3">>

Exceptions == INSTANCE ExceptionDummy WITH
  Order <- DummyAccessors, InitialValuesFail <- FALSE,
  created <- s1, isActive <- s2, hasException <- s3, pushed <- s4, activateNew <- s5, activeException <- s6,
  throwing <- s7, locked <- s8, calls <- s9

ASSUME DummiesAssumption == Exceptions!DummyAssumption

Shared == INSTANCE SharedDummy WITH
  Processes <- SharedProcesses, Interrupts <- SharedInterrupts, Overlap <- FALSE, MaxMember <- SharedMembers,
  MaxCount <- SharedCounts, MaxCrashes <- SharedCrashes, MaxObjects <- SharedObjects,
  maxMember <- s1, named <- s2, stale <- s3, pidSet <- s4, value <- s5, semaphores <- s6, posted <- s7,
  counter <- s8, phase <- s9, thread <- s10, segment <- s11, mutex <- s12, stop <- s13, posting <- s14,
  known <- s15, copy <- s16, first <- s17, calls <- s18, last <- s19

ASSUME SharedsAssumption == Shared!SharedAssumption

\* Two readers, one of which reads two accessors in a group.
OneAndGroupOfTwo == [r \in {"r1", "r2"} |-> IF r = "r1" THEN 1 ELSE 2]

DoubleBuffers == INSTANCE DoubleBuffer WITH
  Readers <- BufferReaders, NoReader <- "nobody", Group <- BufferGroup, Frames <- BufferFrames,
  kind <- s1, enabled <- s2, current <- s3, frame <- s4, halves <- s5, written <- s6, owner <- s7,
  useCount <- s8, readerCount <- s9, pc <- s10, accessor <- s11, currentBuffer <- s12, half <- s13,
  failed <- s14, error <- s15, torn <- s16

ASSUME DoubleBuffersAssumption == DoubleBuffers!DoubleBufferAssumption

\* Two plugins, of which the first one writes when a parameter is written.
FirstAndSecond == <<"a", "b">>

Maths == INSTANCE LogicalMath WITH
  Plugins <- MathPlugins, Push <- MathPush, Group <- MathGroup, Parameters <- MathParameters,
  Main <- "main", Nobody <- "nobody", NoData <- Absent, MaxVersion <- MaxMathVersion,
  mathOpen <- s1, onOpen <- s2, now <- s3, variable <- s4, seen <- s5, mutex <- s6, depth <- s7,
  mainWritten <- s8, allWritten <- s9, lastMain <- s10, skip <- s11, thrown <- s12, counter <- s13,
  result <- s14, target <- s15, mathPc <- s16, position <- s17, mainValue <- s18, updating <- s19

ASSUME MathsAssumption == Maths!MathAssumption

\* Backends of each kind of description, with a logical one; plugins which
\* work, are missing, or are of another version. In the second dmap file an
\* alias leads elsewhere and a target is missing.
Line(alias, uri, mapFile) == [alias |-> alias, uri |-> uri, mapFile |-> mapFile]
DMapFiles ==
  [file \in {"first.dmap", "second.dmap"} |->
     IF file = "first.dmap"
     THEN [libraries |-> <<"libMissing", "libOther", "libGood">>,
           devices |-> <<Line("A", "cdd", ""), Line("B", "x.map", ""), Line("C", "/dev/x", "m"),
                         Line("L", "logical", ""), Line("P", "plugin", "")>>]
     ELSE [libraries |-> <<"libGood">>,
           devices |-> <<Line("A", "sdm", "m"), Line("C", "/dev/x", "m"), Line("P", "old", "m"),
                         Line("L", "tty", "")>>]]
Description(form, type, mapFile, list) == [form |-> form, type |-> type, map |-> mapFile, list |-> list]
Descriptions ==
  [uri \in {"cdd", "x.map", "/dev/x", "logical", "plugin", "old", "sdm", "tty"} |->
     CASE uri = "cdd" -> Description("cdd", "dummy", "m", <<>>)
       [] uri = "x.map" -> Description("mapFile", "", "", <<>>)
       [] uri = "/dev/x" -> Description("dev", "", "", <<>>)
       [] uri = "logical" -> Description("cdd", "logicalNameMap", "lm", <<>>)
       [] uri = "plugin" -> Description("cdd", "good", "m", <<>>)
       [] uri = "sdm" -> Description("sdm", "rebot", "", <<"ip", "port", "m2">>)
       [] uri = "tty" -> Description("unknown", "", "", <<>>)
       [] uri = "old" -> Description("sdm", "oldType", "", <<>>)]
Plugin(type, names, sameVersion, oldInterface) ==
  [type |-> type, names |-> names, sameVersion |-> sameVersion, oldInterface |-> oldInterface]
PluginLibraries ==
  [lib \in {"libOther", "libGood"} |->
     IF lib = "libOther" THEN <<Plugin("otherVersion", <<>>, FALSE, FALSE)>>
     ELSE <<Plugin("good", <<"map">>, TRUE, FALSE), Plugin("oldType", <<>>, TRUE, TRUE)>>]
BuiltInTypes ==
  [type \in {"dummy", "pci", "rebot", "logicalNameMap"} |->
     IF type = "rebot" THEN <<"ip", "port", "map", "timeout">> ELSE <<"map">>]

TwoTargets == [lmap \in {"lm"} |-> <<"A", "B">>]

Factories == INSTANCE Factory WITH
  Handles <- Devices, Aliases <- DeviceNames, DMap <- DMaps, Descriptor <- Descriptors, Library <- PluginsOf,
  BuiltIn <- BuiltInBackends, Targets <- TargetNames, MaxBackends <- DeviceBackends,
  dMapFile <- s1, creators <- s2, loaded <- s3, terminated <- s4, existing <- s5, backends <- s6,
  handle <- s7, asked <- s8

ASSUME FactoriesAssumption == Factories!FactoryAssumption

\* Two elements which wait for new data, and one which does not.
PollSecond == <<"e1", "p", "e2">>

AnyGroup == INSTANCE ReadAnyGroup WITH
  PushElements <- AnyPushElements, PollElements <- AnyPollElements, Members <- AnyMembers,
  QueueSize <- AnyQueueSize,
  MaxPushes <- AnyPushes, MaxHeld <- 1, MaxEarly <- 2, Retaining <- {FALSE},
  retains <- s1, opened <- s2, pushed <- s3, queue <- s4, pushElements <- s5, pollElements <- s6,
  linked <- s7, notifications <- s8, lastOperation <- s9, inProgress <- s10, active <- s11,
  buffer <- s12, call <- s13, fetched <- s14, polls <- s15, returned <- s16, held <- s17,
  terminated <- s18, finalisedAt <- s19, taken <- s20

ASSUME AnyGroupAssumption == AnyGroup!GroupAssumption

\* Each of the drivers. Nobody else opens files.
DeviceNodes == {"pciedev", "llrf", "pcieuni", "unsupported", "absent"}

Files == INSTANCE Pcie WITH
  Descriptors <- FileDescriptors, Nodes <- DeviceNodes,
  StructWords <- FileStructWords, Words <- FileWords, Values <- FileValues, MaxEvents <- MaxFileEvents,
  OthersOpenFiles <- FALSE,
  node <- s1, files <- s2, memory <- s3, deviceID <- s4, access <- s5, opened <- s6, exception <- s7,
  buffer <- s8, outcome <- s9, events <- s10

ASSUME FilesAssumption == FileWords \in Nat

-----------------------------------------------------------------------------
BackendsInit ==
  /\ Init
  /\ part \in Parts
  /\ \/ part = "muxed" /\ Muxed!Init /\ NotUsed16
     \/ part = "threads" /\ EventThreads!InterruptThreadsInit /\ s17 = "-" /\ NotUsed18
     \/ part = "subdevice" /\ Subdevices!SubdeviceInit /\ NotUsed16
     \/ part = "rebot" /\ Rebots!RebotInit
     \/ part = "exception" /\ Exceptions!DummyInit /\ NotUsed10 /\ NotUsed16
     \/ part = "shared" /\ Shared!SharedDummyInit /\ s20 = "-"
     \/ part = "doubleBuffer" /\ DoubleBuffers!DoubleBufferInit /\ s17 = "-" /\ NotUsed18
     \/ part = "math" /\ Maths!MathInit /\ s20 = "-"
     \/ part = "factory" /\ Factories!FactoryInit /\ s9 = "-" /\ NotUsed10 /\ NotUsed16
     \/ part = "readAny" /\ AnyGroup!ReadAnyInit
     \/ part = "pcie" /\ Files!PcieInit /\ NotUsed11 /\ NotUsed16
     \/ part = "unaligned" /\ s1 \in Observed /\ NotUsed2 /\ NotUsed10 /\ NotUsed16

MuxedStep(A) == part = "muxed" /\ A /\ UNCHANGED <<part, vars, from16>>
ThreadsStep(A) == part = "threads" /\ A /\ UNCHANGED <<part, vars, s17, from18>>
SubdeviceStep(A) == part = "subdevice" /\ A /\ UNCHANGED <<part, vars, from16>>
RebotStep(A) == part = "rebot" /\ A /\ UNCHANGED <<part, vars>>
ExceptionStep(A) == part = "exception" /\ A /\ UNCHANGED <<part, vars, from10, from16>>
SharedStep(A) == part = "shared" /\ A /\ UNCHANGED <<part, vars, s20>>
DoubleBufferStep(A) == part = "doubleBuffer" /\ A /\ UNCHANGED <<part, vars, s17, from18>>
MathStep(A) == part = "math" /\ A /\ UNCHANGED <<part, vars, s20>>
FactoryStep(A) == part = "factory" /\ A /\ UNCHANGED <<part, vars, s9, from10, from16>>
ReadAnyStep(A) == part = "readAny" /\ A /\ UNCHANGED <<part, vars>>
PcieStep(A) == part = "pcie" /\ A /\ UNCHANGED <<part, vars, from11, from16>>
UnalignedStep(A) == part = "unaligned" /\ A /\ UNCHANGED <<part, partVars>>

BackendsNext ==
  \/ MuxedStep(Muxed!Next)
  \/ ThreadsStep(EventThreads!InterruptThreadsNext)
  \/ SubdeviceStep(Subdevices!SubdeviceNext)
  \/ RebotStep(Rebots!RebotNext)
  \/ ExceptionStep(Exceptions!DummyNext)
  \/ SharedStep(Shared!SharedDummyNext)
  \/ DoubleBufferStep(DoubleBuffers!DoubleBufferNext)
  \/ MathStep(Maths!MathNext)
  \/ FactoryStep(Factories!FactoryNext)
  \/ ReadAnyStep(AnyGroup!ReadAnyNext)
  \/ PcieStep(Files!PcieNext)
  \/ UnalignedStep(Next)

BackendsSpec == BackendsInit /\ [][BackendsNext]_allVars

\* The fairness of each module (see there). As a behaviour has one part only,
\* the conditions of the modules can share a formula.
FairBackendsSpec ==
  /\ BackendsSpec
  /\ WF_allVars(\/ MuxedStep(Muxed!Work /\ UNCHANGED s1)
                \/ ThreadsStep(EventThreads!Thread)
                \/ SubdeviceStep(Subdevices!Transfer)
                \/ RebotStep(Rebots!Tick)
                \/ DoubleBufferStep(DoubleBuffers!Step("r1"))
                \/ MathStep(Maths!MainStep)
                \/ ReadAnyStep(AnyGroup!Running /\ AnyGroup!Continue)
                \/ UnalignedStep(WriteStep(w1)))
  /\ WF_allVars(\/ RebotStep(\E t \in Rebots!Threads : Rebots!Finish(t))
                \/ DoubleBufferStep(DoubleBuffers!Step("r2"))
                \/ UnalignedStep(WriteStep(w2)))
  /\ WF_allVars(\/ RebotStep(Rebots!WakeUp \/ Rebots!SendHeartbeat \/ Rebots!Interrupted)
                \/ UnalignedStep(WriteStep(w3)))
  /\ SF_allVars(\/ MuxedStep(Muxed!InterruptLine /\ Muxed!Interrupt /\ UNCHANGED s1)
                \/ MathStep(Maths!UpdateResult("v1", "a"))
                \/ UnalignedStep(Lock(w1)))
  /\ SF_allVars(\/ MathStep(Maths!UpdateResult("v1", "b"))
                \/ UnalignedStep(Lock(w2)))
  /\ SF_allVars(UnalignedStep(Lock(w3)))

-----------------------------------------------------------------------------
(* Properties: those of the modules, while they are the part. Their         *)
(* definitions say more about the code which each of them is about.         *)

(***************************************************************************)
(* Whoever is subscribed to a sub-interrupt has it enabled, at every level *)
(* of controllers, and has the newest value once all interrupts are        *)
(* handled, however GenericMuxedInterruptDistributor acknowledges, masks   *)
(* and enables.                                                            *)
(***************************************************************************)
MuxedInterruptsArrive ==
  part = "muxed" => Muxed!TypeOK /\ Muxed!SubscribedAreEnabled /\ Muxed!NewestValueArrives

(***************************************************************************)
(* The event thread of the XDMA and UIO backends misses no interrupt which *)
(* comes between clearing and polling, and neither activateAsyncRead() nor *)
(* close() waits for a promise which is not kept.                          *)
(***************************************************************************)
ThreadsMissNoInterrupt ==
  part = "threads" => EventThreads!ThreadsMissNoInterrupt

(***************************************************************************)
(* A transfer through a Subdevice, in each of its modes, reads and writes  *)
(* the words which were asked for, of the right chip, or throws. A request *)
(* to a Rebot server gets its own answer, and the heartbeat keeps the      *)
(* connection from timing out.                                             *)
(***************************************************************************)
TransfersAreRight ==
  /\ part = "subdevice" => Subdevices!WriteArrives /\ Subdevices!ReadIsRight
  /\ part = "rebot" => Rebots!AnswersMatch /\ Rebots!ConnectionIsKeptAlive

(***************************************************************************)
(* An exception of the ExceptionDummy reaches each push-type accessor      *)
(* once, however setException() was called, and between the calls all      *)
(* accessors agree on whether asynchronous reading is active.              *)
(***************************************************************************)
DummyExceptionsAgree ==
  part = "exception" => Exceptions!ExceptionIsPushedOnce /\ Exceptions!AccessorsAgree

(***************************************************************************)
(* All processes which use a SharedDummy see the same registers, and an    *)
(* interrupt triggered by one reaches the dispatcher threads of all, even  *)
(* if a process has died with its ID and semaphore in the shared memory;   *)
(* threads which are stopped wake up, and the last process to leave        *)
(* removes the shared memory.                                              *)
(***************************************************************************)
ProcessesShareRegisters ==
  part = "shared" =>
    /\ Shared!RegistersAreShared /\ Shared!InterruptsAreDispatched /\ Shared!SemaphoresAreFree
    /\ Shared!NothingIsLeft /\ Shared!StoppedThreadsWakeUp

(***************************************************************************)
(* A reader of a double buffer gets one frame, never parts of two, and the *)
(* counter of readers matches those which are reading when the firmware is *)
(* told to swap again.                                                     *)
(***************************************************************************)
FramesAreWhole == part = "doubleBuffer" => DoubleBuffers!FramesAreWhole

(***************************************************************************)
(* The result which the math plugin has written to its target belongs to   *)
(* the newest value of the main register and of all parameters, whichever  *)
(* thread computes it, and its mutex is released after every write().      *)
(***************************************************************************)
ResultsAreCurrent == part = "math" => Maths!ResultIsCurrent /\ Maths!MutexIsReleased

(***************************************************************************)
(* The BackendFactory has one backend for a URI, however often and by      *)
(* whichever alias it is created, also while logical devices create their  *)
(* targets; and when the application has released its Devices no backend   *)
(* is left.                                                                *)
(***************************************************************************)
BackendsAreShared == part = "factory" => Factories!OneBackendPerUri /\ Factories!NothingIsKept

(***************************************************************************)
(* A Device gets the type and map file of its line of the dmap file, also  *)
(* of one which was read before; and plugins which fail do not keep others *)
(* from being used.                                                        *)
(***************************************************************************)
DevicesFitDMap == part = "factory" => Factories!BackendIsAsAsked /\ Factories!WorkingPluginsAreUsable

(***************************************************************************)
(* A ReadAnyGroup has a notification for each entry of the queues, has the *)
(* data of accepted notifications in their buffers, and has read its       *)
(* poll-type elements after the update it returns has come.                *)
(***************************************************************************)
GroupKeepsData ==
  part = "readAny" => AnyGroup!NotificationPerEntry /\ AnyGroup!AcceptCompletesRead /\ AnyGroup!PolledIsNotOlder

(***************************************************************************)
(* The PcieBackend leaves no file open but the one it uses, uses it the    *)
(* way its driver wants, however often the device is opened again after    *)
(* failures and with other drivers, and a transfer which returns is        *)
(* complete.                                                               *)
(***************************************************************************)
FilesAreUsedRightly ==
  part = "pcie" => Files!NoFileIsLeft /\ Files!AccessFitsDriver /\ Files!TransfersAreComplete

(***************************************************************************)
(* What no step does: end the handling of an interrupt which is still      *)
(* pending at some level without a new event (handle()), keep the buffer   *)
(* of an application when a write ends (doPostWrite() of a Subdevice),     *)
(* reset registers which another process uses (the constructor of          *)
(* SharedDummy), compute a result from values which were written before    *)
(* the device was opened (the math plugin), take an update before an older *)
(* one of another element (ReadAnyGroup).                                  *)
(***************************************************************************)
BackendStepsAreSafe ==
  [][/\ part = "muxed" => Muxed!ClearsWhatIsHandled
     /\ part = "subdevice" => Subdevices!GivesDataBack
     /\ part = "shared" => Shared!KeepsRegisters
     /\ part = "math" => Maths!WritesNothingOld
     /\ part = "readAny" => AnyGroup!TakenInOrder]_allVars

\* What each part waits for.
Waiting ==
  CASE part = "muxed" -> Muxed!Served
    [] part = "threads" -> ~EventThreads!Noticed /\ s2 = FALSE
    [] part = "subdevice" -> s13 # Absent /\ Subdevices!HasBusy
    [] part = "rebot" -> s10 # "nobody"
    [] part = "doubleBuffer" -> s1 = "numeric" /\ ~s15 /\ s7 # "nobody"
    [] part = "math" -> s19["v1"] # {}
    [] part = "readAny" -> s13 # "idle" /\ AnyGroup!Available
    [] part = "unaligned" -> pc[s1] # "idle"
    [] OTHER -> FALSE

\* And what ends the waiting.
WaitingEnds ==
  CASE part = "muxed" -> ~Muxed!Served
    [] part = "threads" -> EventThreads!Noticed
    [] part = "subdevice" -> s13 = Absent
    [] part = "rebot" -> s10 = "nobody"
    [] part = "doubleBuffer" -> s2 \/ s15
    [] part = "math" -> s19["v1"] = {}
    [] part = "readAny" -> s13 = "idle" \/ ~AnyGroup!Available
    [] part = "unaligned" -> pc[s1] = "idle"
    [] OTHER -> TRUE

(***************************************************************************)
(* Nobody waits for ever: an enabled interrupt of an active controller is  *)
(* handled; the event thread notices that its device is gone; a transfer   *)
(* of a Subdevice which polls a busy flag ends, by its timeout if need be; *)
(* the mutex of a Rebot connection is released; swapping of the double     *)
(* buffer is enabled again after the last reader, if no transfer fails;    *)
(* writing a parameter returns although plugins lock each other's          *)
(* accessors; readAny() and waitAny() return if there is something to      *)
(* receive; and write() of an unaligned register returns.                  *)
(***************************************************************************)
BackendsGoOn == Waiting ~> WaitingEnds

=============================================================================

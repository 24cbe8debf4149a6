CONSTANTS
  Parts = {"muxed", "threads", "subdevice", "rebot", "doubleBuffer", "math", "readAny", "unaligned"}
  AnyPushElements = {"e1", "e2"}
  AnyPollElements = {"p"}
  AnyMembers <- PollSecond
  AnyQueueSize = 2
  AnyPushes = 2
  MuxedEvents = 1
  MuxedSubInterrupts <- OneAndOneBehind
  MuxedDescriptions <- FullDescription
  SubdeviceParameters <- BusyParameters
  SubdeviceRequests <- UnalignedRequest
  SubdeviceThreads = {1, 2}
  SubdeviceRegisters <- OneRegister
  SubdeviceSize = 2
  SubdeviceClosing = {2}
  SubdeviceAddresses = 2
  CounterModulus = 8
  CounterStart = 0
  MaxInterrupts = 4
  MaxThreadErrors = 2
  BufferReaders = {"r1", "r2"}
  BufferGroup <- OneAndGroupOfTwo
  BufferFrames = 2
  MathPlugins = {"a", "b"}
  MathPush = {"a"}
  MathGroup <- FirstAndSecond
  MathParameters = {"v1", "v2"}
  MaxMathVersion = 5
  RebotUsers = {"u", "v"}
  RebotTimeout = 4
  RebotConnectionTimeout = 2
  RebotBlocks = 2
  RebotRequests = 3
  Devices = {"d1", "d2"}
  DeviceNames = {"A", "C", "L", "P", "cdd"}
  DMaps <- DMapFiles
  Descriptors <- Descriptions
  PluginsOf <- PluginLibraries
  BuiltInBackends <- BuiltInTypes
  TargetNames <- TwoTargets
  DeviceBackends = 3
  DummyAccessors <- ThreeAccessors
  SharedProcesses = {"p", "q"}
  SharedInterrupts = {1}
  SharedMembers = 2
  SharedCounts = 2
  SharedCrashes = 1
  SharedObjects = 2
  FileDescriptors = {3, 4}
  FileStructWords = 2
  FileWords = 2
  FileValues = {7, 8}
  MaxFileEvents = 2
  Observed = {w1, w2}
  Absent = Absent
  w1 = w1
  w2 = w2
  w3 = w3
  Alignment = 2
  CanMergeRequests = TRUE
  Writers = {w1, w2, w3}
  RegisterOf <- ThreeInTwoWords
  Cells = {0, 1, 2, 3}
  Grouped = {}
  Values = {1}
  CloseAnytime = FALSE
SPECIFICATION FairBackendsSpec
PROPERTIES BackendsGoOn
CHECK_DEADLOCK FALSE

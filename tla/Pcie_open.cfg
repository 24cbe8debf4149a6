CONSTANTS
  Descriptors = {3, 4}
  Nodes = {"pciedev", "llrf", "pcieuni", "unsupported", "absent"}
  StructWords = 2
  Words = 2
  Values = {7}
  MaxEvents = 0
  OthersOpenFiles = FALSE
SPECIFICATION PcieSpec
INVARIANT OpenRecovers
CHECK_DEADLOCK FALSE

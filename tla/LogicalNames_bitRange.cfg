CONSTANTS
  Maps <- TwoBitRanges
  Devices <- Arrays
  This = "this"
  Words = {0, 1, 2}
  Offsets = {0, 1}
  MaxAccessors = 2
  MaxOpen = 2
SPECIFICATION NamesSpec
INVARIANT BitRangesAreRight
CHECK_DEADLOCK FALSE

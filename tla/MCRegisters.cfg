\* The keys of the realm cover the whole range of the key type, so that the
\* additions wrap.
CONSTANTS
  Parts = {"realm", "pair", "triple", "numeric", "decorator", "merge", "catalogue", "variable", "sharedTarget", "names", "fanOut"}
  Absent = Absent
  Writers = {"w1", "w2"}
  Subscribers = {"s1", "s2"}
  Exception = Absent
  Nothing = Unsubscribed
  WriteWhileActivating = FALSE
  QueueLength = 2
  MaxVariableVersion = 4
  Threads = {"t1", "t2"}
  NoThread = "nobody"
  Group <- TwoAndOne
  Target <- OneRegister
  Targets = {"R"}
  Mask <- OneElementEach
  Width = 4
  Unknown = Absent
  MaxReopen = 1
  Others = 2
  Values = {"x", "y"}
  MaxFanOutVersion = 3
  OldVersions = FALSE
  MaxSizeEventIdMap = 3
  KeyRange = 10
  Keys = {0, 1, 2, 3, 4, 5, 6, 7, 8, 9}
  MaxVersion = 11
SPECIFICATION RegistersSpec
INVARIANTS RealmInv LargerKeyLargerVersion MatchesAreConsistent ConversionsAreNearest MergingIsRight
INVARIANTS CataloguesAreTrue VariablesArrive WritesArriveTogether
PROPERTY SameKeySameVersion
CHECK_DEADLOCK FALSE

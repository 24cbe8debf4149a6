CONSTANTS
  ra = ra
  rb = rb
  Accessors = {1, 2, 4}
  AllCopies = {3}
  TargetOf <- CopyOfSingle
  Raws = {ra, rb}
  RawOf <- MergedAndSingle
  ReadOnly = {}
  WriteOnly = {}
  Applications <- ReaderAndCorrectWriter
  Values = {0, 1}
  MaxVersion = 4
SPECIFICATION Spec
INVARIANT GroupInv
PROPERTIES ReadDelivers FailedReadIsTold WriteIsTold
CHECK_DEADLOCK FALSE

CONSTANTS
  w1 = w1
  w2 = w2
  w3 = w3
  Alignment = 2
  CanMergeRequests = TRUE
  Writers = {w1, w2}
  RegisterOf <- InOneWord
  Cells = {0, 1}
  Grouped = {w1}
  Values = {1, 2}
  CloseAnytime = FALSE
SPECIFICATION Spec
INVARIANT WrittenDataIsKept

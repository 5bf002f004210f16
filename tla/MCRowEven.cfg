SPECIFICATION Spec
CONSTANTS
  NumHarts = 2
  FifoSize = 2
  Filters = 4
  NumWeights = 2
  R = 3
  Rows = 6
  RowLen = 3
  Pooled = 2
  Inputs = 2
  Outputs = 6
  HalfRange = 8
  InitialEven = {FALSE, TRUE}
INVARIANT ResultsGolden
CHECK_DEADLOCK FALSE

SPECIFICATION Spec
CONSTANTS
  NumHarts = 1
  NumInterrupts = 3
  WordBits = 2
  MaxPriority = 1
  Thresholds = {0, 1, 2}
  Handling = {0}
  HandlerLoops = TRUE
INVARIANT CompletionAssert

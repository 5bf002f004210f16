SPECIFICATION FairSpec
CONSTANTS
  NumHarts = 2
  NumInterrupts = 3
  WordBits = 1
  MaxPriority = 2
  Thresholds = {0, 1, 3}
  Handling = {0}
  HandlerLoops = FALSE
INVARIANTS TypeOK CompletionAssert PinsAgree NoLostWakeup ClaimsAboveThreshold
PROPERTIES OnlyConfigurationStrands ForemostServed

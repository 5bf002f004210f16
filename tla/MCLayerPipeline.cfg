SPECIFICATION Spec
CONSTANTS
  Harts <- TwoHarts
  Layers = 3
  Half = 2
  Golden = FALSE
INVARIANTS TypeOK WrongIsReported
PROPERTIES StaleNeedsLead
CHECK_DEADLOCK FALSE

SPECIFICATION Spec
CONSTANTS
  Harts <- TwoHarts
  Layers = 3
  Half = 2
  Golden = TRUE
INVARIANTS PredictsFromFinalScores
CHECK_DEADLOCK FALSE

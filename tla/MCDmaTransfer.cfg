SPECIFICATION FairSpec
CONSTANTS
  Harts = {h1, h2}
  Quanta <- SmallQuanta
  Inputs = 2
  Groups = 2
  Jitter = 2
  None = None
INVARIANTS TypeOK InputsInOrder ReadsOwnResult
PROPERTIES NoLostRequest RegistersStable Finishes
CHECK_DEADLOCK FALSE

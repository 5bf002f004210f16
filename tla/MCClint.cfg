SPECIFICATION FairSpec
CONSTANTS
  NumberOfCores = 2
  Scale = 2
  Quantum = 2
  Access = 0
  HalfSize = 3
  Goals = {0, 2, 7}
  MaxTime = 7
INVARIANTS TypeOK NoTimerForgotten NoStaleTimer
PROPERTIES NoSpuriousTimer SleeperWakes
CHECK_DEADLOCK FALSE

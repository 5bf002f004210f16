SPECIFICATION ProgFairSpec
CONSTANTS
  Harts <- TwoHarts
  Masters <- NoMasters
  Addrs = {sem, exit, reg}
  Values = {0, 1, 2}
  Window = 17
  Debug = FALSE
  Trapping = FALSE
  None = None
  Sem = sem
  Exit = exit
  Reg = reg
  Rounds = 4
INVARIANT
  ForwardProgress
PROPERTY
  Termination
CHECK_DEADLOCK FALSE

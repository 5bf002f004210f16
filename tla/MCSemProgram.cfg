SPECIFICATION ProgSpec
CONSTANTS
  Harts <- TwoHarts
  Masters <- NoMasters
  Addrs = {sem, exit, reg}
  Values = {0, 1, 2}
  Window = 5
  Debug = TRUE
  Trapping = TRUE
  None = None
  Sem = sem
  Exit = exit
  Reg = reg
  Rounds = 2
INVARIANTS
  ProgTypeOK
  SemaphoreExact
  RequestCoherent
  ExitAfterAll
CHECK_DEADLOCK FALSE

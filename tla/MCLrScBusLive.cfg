SPECIFICATION FairSpec
CONSTANTS
  Harts = {h0, h1}
  Masters = {dma}
  Addrs = {x}
  Values = {0}
  Window = 3
  Debug = FALSE
  Trapping = TRUE
  None = None
INVARIANT
  LockHidden
PROPERTY
  LockWaitEnds

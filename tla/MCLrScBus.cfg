SPECIFICATION Spec
CONSTANTS
  Harts = {h0, h1}
  Masters = {dma}
  Addrs = {x, y}
  Values = {0, 1}
  Window = 3
  Debug = TRUE
  Trapping = TRUE
  None = None
INVARIANTS
  TypeOK
  ReservationIntact
  HeldOnlyInWindow
  NoLostWakeup
  SchedulerInv
PROPERTY
  AtomicSpec

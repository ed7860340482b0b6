SPECIFICATION Spec
CHECK_DEADLOCK FALSE
CONSTANTS
  Proc = {p1, p2}
  Intr = Intr
  Block = {0, 1}
  Value = {v1, v2}
  Garbage = Garbage
  None = None
  CardType = "SD_TYPE_2_SC"
  MaxFaults = 1
INVARIANTS
  NoPanic
  QuietWhenIdle
  NoLostPost
PROPERTIES
  DeviceIsAtomic
  QueuedServed

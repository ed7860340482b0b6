SPECIFICATION Spec
CHECK_DEADLOCK FALSE
CONSTANTS
  Cpu = {c1, c2}
  Pages = 2
  Top = 1
  MaxCount = 3
INVARIANT MemoryExclusive

SPECIFICATION Spec
CONSTANTS
  Proc = {root, p1, p2}
  Cpu = {c1, c2}
  Sem = {s1}
  Root = root
  MaxVal = 1
SYMMETRY Symmetry
INVARIANTS
  SemCount
  RunQueueExact
  StackExclusive
  NoLostWakeup
  NoLostKill
  NoPanic

SPECIFICATION FairSpec
CONSTANTS
  Proc = {root, p1}
  Cpu = {c1, c2}
  Sem = {s1}
  Root = root
  MaxVal = 1
PROPERTIES
  WakeupDelivered

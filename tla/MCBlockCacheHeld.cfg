SPECIFICATION Spec
CONSTANTS
  Thread = {t1, t2}
  BlockNo = {n1, n2, n3}
  Buf = {b1, b2, b3}
  EVICTION_THRESHOLD = 2
SYMMETRY Symmetry
INVARIANT HolderHasTheBlock

SPECIFICATION Spec
CONSTANTS
  Thread = {t1, t2}
  Block = {b1, b2, b3}
  Data = {d1, d2}
  NotCached = NotCached
  OP_MAX_NUM_BLOCKS = 2
  LogMax = 4
SYMMETRY Symmetry
INVARIANTS
  TypeOK
  DirtyIsPinned
  CommitIsExclusive
  NoAssertionPanic
  WaitersBlocked
PROPERTIES
  RefinesAtomicDisk

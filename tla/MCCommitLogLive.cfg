SPECIFICATION FairSpec
CONSTANTS
  Thread = {t1, t2, t3}
  Block = {b1, b2}
  Data = {d1}
  NotCached = NotCached
  OP_MAX_NUM_BLOCKS = 1
  LogMax = 2
PROPERTIES
  EndOpReturns
  BeginOpProgress
INVARIANTS
  SpaceReserved
  QuotaPanicJustified

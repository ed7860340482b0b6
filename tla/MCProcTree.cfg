SPECIFICATION FairSpec
CONSTANTS
  Proc = {root, p1, p2, p3}
  Root = root
  NULL = NULL
INVARIANTS
  ParentsAlive
  ExitsCounted
  ReapFindsZombie
PROPERTY ExitCompletes

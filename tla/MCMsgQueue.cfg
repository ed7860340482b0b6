SPECIFICATION Spec
CHECK_DEADLOCK FALSE
CONSTANTS
  Proc = {p1, p2, p3}
  Key = {k0}
  IPC_PRIVATE = k0
  Page = {g1, g2, g3, g4}
  NULL = NULL
  Garbage = Garbage
  Size = 1
  SEQ_MULTIPLIER = 1
  MAX_MSGNUM = 2
  SEQS = 2
  MaxType = 2
  MaxSize = 1
SYMMETRY Symmetry
INVARIANTS
  MessagesOwned
  NoMissedMessage
  SendersWaitForRoom
  CountsExact
  DeliveryFits

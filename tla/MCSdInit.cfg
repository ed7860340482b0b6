SPECIFICATION Spec
CHECK_DEADLOCK FALSE
CONSTANTS
  None = None
  BaseClock = 41666666
  Rca = {1, 2}
INVARIANTS
  BusProtocol
  CardUsable
  NoPanic
PROPERTIES
  Terminates

SPECIFICATION Spec
CONSTANTS
  Conn = {c1, c2}
  NoConn = NoConn
  MaxTurns = 2
  MaxEvents <- Bounds
  MaxLate = 1
  RingSize = 2
  Env = {"leak", "restart"}
INVARIANTS
  ShownExactly
  DoneIsWhole
  HandleOwned
  ListenersExact
PROPERTIES
  WaitingEnds
  ImplementsTurnView

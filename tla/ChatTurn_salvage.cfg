SPECIFICATION Spec
CONSTANTS
  Session = {s1, s2}
  Turn = {t1, t2}
  NoSession = NoSession
  MaxTurns = 2
  MaxCrashes = 0
  Env = {}
SYMMETRY Symmetry
INVARIANTS
  UserCancelNotSalvaged
CHECK_DEADLOCK FALSE

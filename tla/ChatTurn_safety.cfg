SPECIFICATION Spec
CONSTANTS
  Session = {s1, s2}
  Turn = {t1, t2, t3}
  NoSession = NoSession
  MaxTurns = 2
  MaxCrashes = 1
  Env = {"compact_fails", "db_fails", "prep_throws", "quick_restart"}
SYMMETRY Symmetry
INVARIANTS
  TypeOK
  OneHandlerPerSession
  RowsInOrder
  AnswerFollowsQuestion
  AbortStamped
  ReachableAfterRefresh
PROPERTIES
  NoAbortAfterEnd
CHECK_DEADLOCK FALSE

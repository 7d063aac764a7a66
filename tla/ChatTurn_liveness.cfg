SPECIFICATION FairSpec
CONSTANTS
  Session = {s1, s2, s3}
  Turn = {t1, t2}
  NoSession = NoSession
  MaxTurns = 1
  MaxCrashes = 1
  Env = {"cache", "compact_fails", "runner_stuck"}
INVARIANTS
  EndedIffAnswered
  NeverStuck
PROPERTIES
  TurnsEnd
  QuestionsAnswered
  ImplementsConversation
CHECK_DEADLOCK FALSE

SPECIFICATION FairSpec
CONSTANTS
  Workspace = {w1, w2}
  Default = w1
  Playbook = {p1, p2}
  All = All
  Uid = {u1}
  Sweep = {cron, post}
  Cron = {cron}
  NoSweep = NoSweep
  Env = {"meta_fails", "query_fails", "db_fails", "crash"}
INVARIANTS
  SweepsExact
PROPERTIES
  CaseEndsOnEvidence
  MatchedGetsCase

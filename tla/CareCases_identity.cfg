SPECIFICATION Spec
CONSTANTS
  Workspace = {w1}
  Default = w1
  Playbook = {p1}
  All = All
  Uid = {u1}
  Sweep = {cron, post}
  Cron = {cron}
  NoSweep = NoSweep
  Env = {"identity_fails"}
PROPERTIES
  CaseEndsOnEvidence

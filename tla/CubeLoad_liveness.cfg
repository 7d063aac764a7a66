SPECIFICATION FairSpec
CONSTANTS
  Request = {r1, r2, r3}
  NoRequest = NoRequest
  Owner = {o1}
  Scope = {g1}
  Body = {b1, b2}
  Uncacheable = {b2}
  MaxGlobal = 2
  MaxPerOwner = 1
  MaxEntries = 1
  MaxPolls = 2
PROPERTIES
  RequestsAnswered
  ImplementsSharedCalls

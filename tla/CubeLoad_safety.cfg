SPECIFICATION Spec
CONSTANTS
  Request = {r1, r2, r3}
  NoRequest = NoRequest
  Owner = {o1, o2}
  Scope = {g1, g2}
  Body = {b1, b2}
  Uncacheable = {b2}
  MaxGlobal = 2
  MaxPerOwner = 1
  MaxEntries = 1
  MaxPolls = 1
SYMMETRY Symmetry
INVARIANTS
  SlotsExact
  OnePerKey
  RefcountExact
  OwnAnswer
PROPERTIES
  OrphansDoNotPoll

SPECIFICATION Spec
CONSTANTS
  Segment = {s1, s2}
  NoSegment = NoSegment
  Cadence = {s1, s2}
  NoCube = {}
  MaxVersion = 2
  MaxMeta = 2
  MaxCrashes = 1
  Env = {"rehydrate", "members_missing", "unstick", "delete"}
SYMMETRY Symmetry
INVARIANTS
  TypeOK
  FreshMeansCurrent
  QueryMatchesTree
  RefreshingIsBacked

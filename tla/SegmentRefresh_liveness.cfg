SPECIFICATION FairSpec
CONSTANTS
  Segment = {s1, s2}
  NoSegment = NoSegment
  Cadence = {s1, s2}
  NoCube = {}
  MaxVersion = 1
  MaxMeta = 1
  MaxCrashes = 1
  Env = {"refresh_in_flight"}
PROPERTIES
  RefreshingEnds
  StaleIsRetried

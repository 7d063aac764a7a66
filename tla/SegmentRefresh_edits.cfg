SPECIFICATION FairSpec
CONSTANTS
  Segment = {s1}
  NoSegment = NoSegment
  Cadence = {s1}
  NoCube = {}
  MaxVersion = 3
  MaxMeta = 1
  MaxCrashes = 1
  Env = {"edit_in_flight", "refresh_in_flight", "by_hand"}
PROPERTIES
  EditReachesCohort

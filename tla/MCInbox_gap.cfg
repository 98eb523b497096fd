SPECIFICATION FairSpec
CONSTANTS
  Reqs = {1, 2, 3}
  s1 = s1
  Slugs = {s1}
  SlugOf <- MCSlugOf
  Limit = 1
  Cap = 1
  WireLen = 2
  Worlds <- MCGap
PROPERTY Recovered
CHECK_DEADLOCK FALSE

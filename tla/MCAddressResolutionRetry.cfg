SPECIFICATION Spec
CONSTANTS
  c1 = c1
  c2 = c2
  held = held
  absent = absent
  s1 = s1
  None = None
  NULL_BBL = NULL_BBL
  Calls <- MCCalls
  Lots <- MCLots
  Buildings <- MCBuildings
  Streets <- MCStreets
  MAX_CANDIDATES = 2
  MaxSimilar = 3
INVARIANTS CandidatesKept

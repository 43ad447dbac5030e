\* Half seconds, days of one second, two sessions with up to three segments.
SPECIFICATION Spec
CONSTANTS
  Sessions = {s1, s2}
  Projects = {p1, p2}
  Rates = {1}
  Ticks = 2
  DayTicks = 2
  Minute = 2
  Penny = 2
  Periods = {{0}, {0, 2}}
  Zones <- MCZones
  Lengths = {0, 1, 2, 4}
  MaxTime = 7
  MaxSegments = 3
SYMMETRY IdSymmetry
CHECK_DEADLOCK FALSE
INVARIANTS
  ElapsedIsCoveredTime
  ChartsAccountForAll
  ConcurrencyAgrees
  HistoryMatchesInsights

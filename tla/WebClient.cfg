SPECIFICATION FairSpec
CONSTANTS
  Sessions = {s1}
  Keys = {k1}
  Periods = {"week", "year"}
  Lists = {"insights", "history"}
  Unset = Unset
  MaxPolls = 2
  MaxBudget = 3
INVARIANT TypeOK
INVARIANT StartScreenHasAWayOut
INVARIANT UnavailableShowsNoTimers
PROPERTY EndedTimerLeaves
PROPERTY PeriodKept
PROPERTY TimersCatchUp
PROPERTY VisibleListCatchesUp
PROPERTY SettingsSettle

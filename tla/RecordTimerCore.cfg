SPECIFICATION FairSpec
CONSTANTS
  t1 = t1
  t2 = t2
  s1 = s1
  s2 = s2
  None = None
  Timers = {t1, t2}
  Services = {s1, s2}
  Instant = {t2}
  PrepareTime = 1
  FirstBackoff = 1
  MaxBackoff = 2
  MaxWaitTime = 3
  Day = 2
  WrongAhead = 3
  KeepTime = 1
  AutoTime = 2
  Ahead = 1
  Lengths = {1}
  MaxTime = 3
  MaxLate = 0
  Env = {"filename", "prepare", "start", "stopped", "repeated", "aborted", "moveend", "edit", "editinplace", "conflict"}
INVARIANTS
  NoOrphan
  WakesInTime
  ListsAreConsistent
PROPERTIES
  HandlersReturn
  OverdueStops

SPECIFICATION Spec
CONSTANTS
  t1 = t1
  t2 = t2
  s1 = s1
  s2 = s2
  None = None
  Timers = {t1, t2}
  Services = {s1, s2}
  Instant = {}
  PrepareTime = 1
  FirstBackoff = 1
  MaxBackoff = 2
  MaxWaitTime = 3
  Day = 3
  WrongAhead = 3
  KeepTime = 2
  AutoTime = 2
  Ahead = 1
  Lengths = {1}
  MaxTime = 4
  MaxLate = 0
  Env = {"stopcoming", "repeated"}
SYMMETRY Symmetric
INVARIANTS
  RemovedIsStopped

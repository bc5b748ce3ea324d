SPECIFICATION Spec
CONSTANTS
  t1 = t1
  t2 = t2
  s1 = s1
  s2 = s2
  None = None
  Timers = {t1, t2}
  Services = {s1, s2}
  Instant = {}
  PrepareTime = 1
  FirstBackoff = 1
  MaxBackoff = 1
  MaxWaitTime = 2
  Day = 2
  WrongAhead = 1
  KeepTime = 1
  AutoTime = 2
  Ahead = 1
  Lengths = {1}
  MaxTime = 3
  MaxLate = 0
  Env = {"lookup", "record", "repeated", "justplay", "stopcoming", "edit", "editactive", "clockset"}
SYMMETRY Symmetric
INVARIANTS
  OneHome
  NoSharing
  ListsAreConsistent
PROPERTIES
  PunctualActivation

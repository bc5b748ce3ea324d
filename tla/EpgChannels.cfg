\* A channel comes and goes, before or after the thread starts; a store of two ids.
CONSTANTS
  Ids = {1, 2}
  MaxTime = 2
  Durations = {0, 3}
  Sources = {2, 256}
  Channels = {"c1"}
  MaxAdds = 1
SPECIFICATION FairSpec
INVARIANTS ReadsUnderLock MapsAgree
PROPERTIES EntriesLeaveForCause ReleaseReturns ReadingEnds
\* The locks may cross (LocksCrossed), and time and the channels are bounded.
CHECK_DEADLOCK FALSE

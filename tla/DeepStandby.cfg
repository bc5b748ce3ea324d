\* Two recordings; the box goes down and is woken, by itself and by its user.
CONSTANTS
  MaxTimers = 2
  After = {"auto", "deep"}
  MaxTime = 10
  Length = 2
  PrepareTime = 1
  Lead = 2
  Reboot = 1
  Window = 3
  BootTime = 1
  QuitTime = 0
  Env = {}
SPECIFICATION FairSpec
INVARIANT RecordsInTime
PROPERTIES ViewersAreAsked WokenGoesBack

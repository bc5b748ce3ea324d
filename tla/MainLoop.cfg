\* Handlers that drop their own and each other's files, whose descriptors are used again, while
\* other threads send messages, slow handlers let timers pile up, and the reactor waits.
CONSTANTS
  None = None  Forever = Forever
  Notifiers = {pump, a, b}
  Pump = pump
  Fds = {0, 1}
  Timers = {t, u}
  Kinds <- OnceAndRepeated
  Delays = {1, 2}
  Senders = {s1, s2}
  Programs <- AllPrograms
  MaxCalls = 2
  MaxQueue = 2
  Late = 1
SPECIFICATION FairSpec
INVARIANTS NoAbort SleepsInTime
PROPERTIES OwnEvents EventsAreServed

\* The ring fills up and wraps; the main thread polls, is stuck in a handler, switches the
\* spinner, quits; a wait times out at any time, or never.
CONSTANTS
  MaxSize = 3
  Kinds = {"paint", "flush", "notify"}
  MaxOps = 3
  MaxTurns = 1
SPECIFICATION FairSpec
INVARIANTS SpinnerHidden PictureComplete
PROPERTIES ImplementsFifo FlushedIsPainted CallsReturn

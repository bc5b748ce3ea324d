\* A recording that loses its channel, its demux or its disk, and is stopped at any moment.
CONSTANTS
  Buffers = 2
  MaxBlocks = 3
  MaxFiles = 2
  Env = {"notuner", "nodemux", "noopen", "nodevice", "streaming", "refuse", "readerror", "diskfull"}
SPECIFICATION FairSpec
INVARIANTS StoppedIsComplete RecordsAllPids
PROPERTIES FileKept StopReturns

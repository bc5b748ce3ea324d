\* Cascades, rotors and linked tuners; a linked tuner is tuned while no list is executed.
CONSTANTS
  Boxes <- AllBoxes
  StartTime = 2
  RunTime = 2
  Retries = 1
  OkSteps = 0
  Env = {}
SPECIFICATION FairSpec
INVARIANT BusIsReady
PROPERTIES EquipmentIsSet NoDisturb SequenceEnds

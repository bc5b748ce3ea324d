\* Two services of one transponder, each for a module of its own.
CONSTANTS
  m_slots <- TwoSlots
  Tuners = {"t0", "t1"}
  TUNER_A = "t0"
  Handlers = {"h1", "h2"}
  Transponder <- ThreeServices
  Wants <- TwoWatch
  Handles <- OneEach
  Mapped <- NoneMapped
  Multi = {}
  MaxVersion = 1
SPECIFICATION Spec
PROPERTY RunningUndisturbed

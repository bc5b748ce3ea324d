\* Two modules: one service linked through both, two that share one, three handlers.
CONSTANTS
  m_slots <- TwoSlots
  Tuners = {"t0", "t1"}
  TUNER_A = "t0"
  Handlers = {"h1", "h2", "h3"}
  Transponder <- ThreeServices
  Wants <- ThreeWatch
  Handles <- BSharedByTwo
  Mapped <- NoneMapped
  Multi = {"B"}
  MaxVersion = 1
SPECIFICATION Spec
INVARIANTS UsesAreExact RoutesFollowChains NobodyWaits

SPECIFICATION Spec
CONSTANTS
  f1 = f1
  f2 = f2
  i1 = i1
  i2 = i2
  i3 = i3
  None = None
  Channels = {c1, c2, c3, c4}
  Frontends = {f1, f2}
  Ids = {i1, i2, i3}
  StreamIds = {s1}
  Handlers = {h1, h2}
  RawUsers = {r1}
  Tunable <- TunablePairs
  Linked <- LinkedPairs
SYMMETRY Symmetric
INVARIANTS UsesAreCounted CanAllocateIsExact
PROPERTY ImplementsTunerPool

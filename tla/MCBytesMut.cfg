SPECIFICATION Spec
CONSTANTS
  Handles = {h1, h2}
  Bufs = {b1, b2, b3}
  Shareds = {s1}
  Byte = {x, y}
  Uninit = Uninit
  NoBuf = NoBuf
  NoShared = NoShared
  MaxCap = 2
  MaxVecPos = 1
  MinWidth = 1
  MaxWidth = 3
SYMMETRY Symmetry
INVARIANTS
  OneOwner
  RefCountExact
  WithinLiveAllocation
  ExclusiveRegions
PROPERTY ValueSemantics
CHECK_DEADLOCK FALSE

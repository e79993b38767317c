SPECIFICATION Spec
CONSTANTS
  Handles = {h1, h2, h3}
  Bufs = {b1, b2}
  Shareds = {s1, s2}
  Threads = {t1, t2}
  MaxCap = 2
  MaxRefs = 3
  StaticBytes <- MCStatic
  NoBuf = NoBuf
  NoShared = NoShared
SYMMETRY Symmetry
CONSTRAINT OneAllocationLost
INVARIANTS
  LayoutExact
  OnePromotion
  CountsExact
  NoDangling
  ValuesKept
  NoLeak
CHECK_DEADLOCK FALSE

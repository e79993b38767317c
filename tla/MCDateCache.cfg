SPECIFICATION Spec
CONSTANTS
  Cells = {c1, c2, c3}
  Readers = {r1}
  MaxUpdates = 3
INVARIANTS
  NoStaleByte
PROPERTY CacheFills
CHECK_DEADLOCK FALSE

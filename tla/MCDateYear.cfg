SPECIFICATION Spec
CONSTANTS
  Starts <- MCTwoThousand
  Secs <- MCNoonAndEnds
  Span = 400
INVARIANTS
  YearInRange
CHECK_DEADLOCK FALSE

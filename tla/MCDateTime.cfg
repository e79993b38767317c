SPECIFICATION Spec
CONSTANTS
  Starts <- MCStarts
  Secs <- MCNoonAndEnds
  Span = 36600
INVARIANTS
  FieldsAgree
  BackToTime
  ParsersSound
CHECK_DEADLOCK FALSE

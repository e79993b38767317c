SPECIFICATION Spec
CONSTANTS
  Generators = {g1, g2, g3}
  Coroutines = {g1, g2}
  Root = Root
  Nil = Nil
  Signals <- BothSignals
PROPERTIES ParaToOwner FaultEnds
CHECK_DEADLOCK FALSE

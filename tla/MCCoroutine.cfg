SPECIFICATION Spec
CONSTANTS
  Tasks = {c1, c2}
  Impls = {i1}
  Workers = {w1, w2}
  Callers = {u1, u2}
  Spawner = Spawner
  None = None
  MaxCalls = 1
INVARIANTS OneHolder LocalIsOwn PoolIsClean
PROPERTIES UnparkWakes CancelWakes
CHECK_DEADLOCK FALSE

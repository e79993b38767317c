SPECIFICATION Spec
CONSTANTS
  t1 = t1
  t2 = t2
  v1 = v1
  v2 = v2
  Threads = {t1, t2}
  Cells = {c1, c2}
  Locks = {l1}
  LockOf <- OneLock
  Ops = {"load", "store", "add"}
  Half = 2
  Size = 4
  Args = {3}
  Stamps = 8
  Tokens = {v1, v2}
  None = None
  Owner <- Owners
  Layouts <- MCLayouts
  Limit = 3
INVARIANTS
  NoLostUpdate
  OwnedOnce
  OneByOne
PROPERTIES
  OperationsEnd
CHECK_DEADLOCK FALSE

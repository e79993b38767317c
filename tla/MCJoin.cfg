SPECIFICATION Spec
CONSTANTS
  Threads = {t1, t2, t3}
  NoThread = NoThread
INVARIANTS
  NeverEarly
  JoinAnswers
  NoLostWakeup
PROPERTY WaitReturns
CHECK_DEADLOCK FALSE

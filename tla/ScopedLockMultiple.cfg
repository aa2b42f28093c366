SPECIFICATION Spec
CONSTANTS
  Threads = {t1, t2}
  Waiters = {t1}
  Nobody = nobody
INVARIANT AssertionHolds
CHECK_DEADLOCK FALSE

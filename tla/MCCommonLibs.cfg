SPECIFICATION AllSpec
CONSTANTS
  Threads = {t1, t2, t3}
  Waiters = {t1, t2, t3}
  Nobody = nobody
  Holders = {h1, h2}
  Pointers <- TwoEach
  Owner <- OwnerOf
  Objects = {x, y}
  NULL = null
  Processes = {p1, p2}
  NumSignals = 2
  Harmless = {2}
  NoFile = nofile
SYMMETRY ThreadsAreAlike
INVARIANTS LocksAndRestores CountIsHeldAndWaiting NoDeadlock CountedOnce NothingLeft
CHECK_DEADLOCK FALSE

SPECIFICATION Spec
CONSTANTS
  Timers = {t1, t2, t3}
  Shift = 1
  Resolution = 2
  Width = 3
  Msecs = {0, 5}
  MaxShows = 0
  NULL = null
CHECK_DEADLOCK FALSE
SYMMETRY TimersAreAlike
INVARIANT WheelIntact
PROPERTY ImplementsService

SPECIFICATION ShowSpec
CONSTANTS
  Timers = {t1, t2}
  Shift = 1
  Resolution = 2
  Width = 3
  Msecs = {0, 5}
  MaxShows = 1
  NULL = null
INVARIANT ShowForgetsNothing

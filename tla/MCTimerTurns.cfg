\* A table of two slots with one client and the callbacks; a wheel of four
\* slots and two timers.
SPECIFICATION TurnSpec
CONSTANTS
  NumTimers = 2
  Clients = {c1}
  Tick = tick
  Routines = {r1}
  NoRoutine = none
  Resolution = 1000
  ValuesMs <- MCValuesMs
  IntervalsMs <- MCIntervalsMs
  MaxCalls = 0
  Timers = {t1, t2}
  Shift = 2
  PulseMsec = 2
  Width = 4
  Msecs = {3, 7, 8}
  NULL = null
INVARIANTS CallsWhatWasConnected SlotsAccounted
PROPERTIES ImplementServices ArmedIsCalled DueIsCalled
\* A walk sent astray may end the process.
CHECK_DEADLOCK FALSE

\* Two client threads and the callbacks of the timer thread race on two slots.
SPECIFICATION Spec
CONSTANTS
  NumTimers = 2
  Clients = {c1, c2}
  Tick = tick
  Routines = {r1}
  NoRoutine = none
  Resolution = 1000
  ValuesMs <- MCValuesMs
  IntervalsMs <- MCIntervalsMs
  MaxCalls = 6
INVARIANTS TypeOK QuietStays
PROPERTY StoppedNeverCalled
\* A call through a NULL routine ends the process.
CHECK_DEADLOCK FALSE

\* Two processes, a signal that ends one and a signal that does not.
SPECIFICATION TurnsSpec
CONSTANTS
  Processes = {p1, p2}
  NumSignals = 2
  Harmless = {2}
  NoFile = nofile
INVARIANT OnlyOneRuns
CHECK_DEADLOCK FALSE

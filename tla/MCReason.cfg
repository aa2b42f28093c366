SPECIFICATION AllSpec
CONSTANTS
  Workers = {w1, w2}
  ServerThreads = {s1, s2, s3, s4}
  Links = {x, y}
  MaxDepth = 1
  ConnectionLimit = 3
  MaxConnections = 3
  N = 7
  Bytes = {a, b}
  Room = 2
  MaxContent = 4
  MaxChunk = 3
  up = up
  down = down
  Entries = {1, 2, 3, 4}
  Texts <- Attachable
  MaxAttached = 4
INVARIANTS TypesOK InactiveIsDone NobodyIsLeft OneListener TreeIntact ContainersHold
PROPERTIES SetSpec ImplementsFile 
CHECK_DEADLOCK FALSE

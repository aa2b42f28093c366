SPECIFICATION BaseSpec
CONSTANTS
  Number = 4
  MaxLength = 2
  Payloads = {one, two}
  Garbage = garbage
  NULL = null
  NUL = nul
  Bytes = {a, b, percent}
  RingSize = 4
  MaxLen = 3
  LogSize = 8
  MaxLine = 4
  Piece = 3
  Percent = percent
  Converted = converted
  NoLine = none
INVARIANTS TypesOK PoolIntact ShowIsComplete
PROPERTIES ImplementsFifo RingImplementsFifo ForgetsFromTheMiddle

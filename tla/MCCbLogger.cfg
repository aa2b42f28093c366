SPECIFICATION FairSpec
CONSTANTS
  Keys = {"file", "main"}
  FileKey = "file"
  MainKey = "main"
  Values = {"INFO", "DEBUG", "bad", ""}
  Levels = {"INFO", "DEBUG"}
  Empty = ""
  Missing = missing
  NotCached = none
  Databases <- Tables
  Defaults <- Schema
  PurgePeriod = 2
  MaxWrites = 1
  DbFails = FALSE
  Threads = {t1, t2}
  RefreshCount = 1
INVARIANTS FreshEnough OnlyRemovalThrows
PROPERTY LevelsCatchUp

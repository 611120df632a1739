SPECIFICATION HttpSpec
CONSTANTS
  Blocks = 3
  Checked = TRUE
  Replies = {"tail", "full", "error", "complete", "unsatisfiable"}
  MaxAttempts = 2
  MaxStarts = 3
  NoFile = NoFile
CHECK_DEADLOCK FALSE
INVARIANTS
  HttpTypeOK
  FinalIsWhole
PROPERTIES
  GoodPrefixKept
  KeepsPromise

SPECIFICATION FairDownloadSpec
CONSTANTS
  f1 = f1 f2 = f2
  Tasks = {t1, t2}
  Plan <- TwoFiles
  Beginnings <- MCBeginnings
  MaxParallel = 2
  Starters = {app}
  Cancellers = {other}
  NoTask = NoTask
CHECK_DEADLOCK FALSE
INVARIANTS
  DownloadTypeOK
  OneWriterPerFile
PROPERTIES
  KeepsPromise
  TaskStops

SPECIFICATION ServerSpec
CONSTANTS
  Clients = {c1, c2}
  MaxTasks = 2
  MaxBurst = 2
  FirstQuantum = 1
  LaterQuantum = 2
  DefaultBurst = 1
  Fds = {f1, f2}
  PipeSize = 1
  MaxOutput = 1
SYMMETRY Symmetry
INVARIANTS
  FinishedIsDone
CHECK_DEADLOCK FALSE

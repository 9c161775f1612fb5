SPECIFICATION TestSpec
CONSTANTS
  Clients = {1, 2, 3}
  MaxTasks = 3
  MaxBurst = 8
  FirstQuantum = 3
  LaterQuantum = 7
  DefaultBurst = 5
INVARIANTS
  ShellRunsNext NothingLeftUndone
PROPERTIES
  HarnessCompletes
CHECK_DEADLOCK FALSE

SPECIFICATION LiveSpec
CONSTANTS
  Clients = {1, 2}
  MaxTasks = 2
  MaxBurst = 2
  FirstQuantum = 1
  LaterQuantum = 1
  DefaultBurst = 1
  Fds = {4, 5}
  PipeSize = 1
  MaxOutput = 1
PROPERTIES
  ShellAnswered ChildrenOfTheGoneEnd
CHECK_DEADLOCK FALSE

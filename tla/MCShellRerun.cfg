SPECIFICATION ShellFairSpec
CONSTANTS
  Pids = {1, 2, 3}
  Pipes = {1, 2, 3}
  PipeSize = 1
  MaxFailures = 2
  Scripts <- MCScripts
PROPERTIES
  EachLineOnce
CHECK_DEADLOCK FALSE

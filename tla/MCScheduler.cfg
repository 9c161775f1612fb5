SPECIFICATION QueueFairSpec
CONSTANTS
  Clients = {c1, c2}
  MaxTasks = 3
  MaxBurst = 1
  FirstQuantum = 1
  LaterQuantum = 2
  DefaultBurst = 2
INVARIANTS
  TypeOK QueueHoldsWaitingTasks OneTaskRuns SignalsCoverQueue ActiveCountExact
  NeverSleepsOnWork CancelledNeverQueued ShellPreemptsProgram
  ListIsQueue CancelPartitions
PROPERTIES
  ExitDrained ImplementsScheduler ImplementsPool ShellIsDispatched
CHECK_DEADLOCK FALSE

SPECIFICATION TimelineSpec
CONSTANTS
  Clients = {c1, c2}
  MaxTasks = 2
  MaxBurst = 2
  FirstQuantum = 1
  LaterQuantum = 2
  DefaultBurst = 2
  MaxSlices = 2
  MaxClock = 5
SYMMETRY ClientSymmetry
INVARIANTS
  EndsRise TimelineWhole SummaryPrinted
PROPERTIES
  TimelineUsesScheduler
CHECK_DEADLOCK FALSE

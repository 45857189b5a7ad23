SPECIFICATION Spec
CONSTANTS
  t1 = t1
  t2 = t2
  w1 = w1
  w2 = w2
  none = none
  Tasks <- TwoTasks
  Slots <- TwoSlots
  None = none
  MaxClaims = 1
  MaxRepairs = 0
  MaxJobs = 1
  HasWorkspace = TRUE
CHECK_DEADLOCK FALSE
SYMMETRY FullSymmetry
INVARIANTS CancellationReachesJobs
PROPERTIES ImplementsRun

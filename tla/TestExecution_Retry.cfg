SPECIFICATION Spec
CONSTANTS
  t1 = t1
  t2 = t2
  w1 = w1
  w2 = w2
  none = none
  Tasks <- OneTask
  Slots <- TwoSlots
  None = none
  MaxClaims = 1
  MaxRepairs = 1
  MaxJobs = 2
  HasWorkspace = TRUE
CHECK_DEADLOCK FALSE
SYMMETRY SlotSymmetry
INVARIANTS RowsAgree
PROPERTIES AttemptsAreAdmissible ImplementsRun

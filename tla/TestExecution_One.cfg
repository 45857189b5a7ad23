SPECIFICATION FairSpec
CONSTANTS
  t1 = t1
  t2 = t2
  w1 = w1
  w2 = w2
  none = none
  Tasks <- OneTask
  Slots <- TwoSlots
  None = none
  MaxClaims = 2
  MaxRepairs = 1
  MaxJobs = 1
  HasWorkspace = FALSE
CHECK_DEADLOCK FALSE
INVARIANTS RowsAgree OwnersSnapshotIsFresh DiagnosisHasEvidence
PROPERTIES StoppedSlotsStaySilent WorkEnds

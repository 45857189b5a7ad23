SPECIFICATION FairSpec
CONSTANTS
  Runs = {r1}
  Workers = {w1}
  MaxAttempts = 2
  Faults = {"worker_crash", "read_failure"}
  MaxFaults = 2
CHECK_DEADLOCK FALSE
PROPERTIES ReleaseIsImmutable EveryRunFinishes

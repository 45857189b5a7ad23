SPECIFICATION Spec
CONSTANTS
  Runs = {r1}
  Workers = {w1, w2}
  MaxAttempts = 2
  Faults = {"worker_crash", "api_crash", "write_failure"}
  MaxFaults = 2
SYMMETRY Symmetry
CHECK_DEADLOCK FALSE
INVARIANTS ResultsAgree
PROPERTIES StopsAreRespected LateWorkersPublishTheirOwn

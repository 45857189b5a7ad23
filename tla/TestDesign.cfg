SPECIFICATION FairSpec
CONSTANTS
    Workers = {w1, w2}
    Handlers = {h1}
    Nobody = nobody
    MaxAttempts = 2
    MaxRepairs = 1
    MaxGenerations = 2
    MaxRequests = 1
    MaxEdits = 1
    Faults = {"worker_interrupted", "worker_crash", "api_crash", "query_failure"}
    MaxFaults = 1
INVARIANTS CasesAndAuditAgree RunMatchesItsStages
PROPERTIES CancelledStaysCancelled RepairKeepsTheEdits OldGenerationsWriteNothing RunEnds

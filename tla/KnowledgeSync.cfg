SPECIFICATION Spec
CONSTANTS
    a = a
    b = b
    c1 = c1
    c2 = c2
    w1 = w1
    w2 = w2
    None = None
    Documents <- TwoDocuments
    InDirectory <- InTheDirectory
    Contents <- Uploads
    Configs <- TwoConfigs
    Dimension <- OtherDimension
    Workers <- TwoWorkers
    MaxAttempts = 2
    MaxTasks = 2
    MaxRetries = 1
    MaxFaults = 2
SYMMETRY Symmetry
CHECK_DEADLOCK FALSE
INVARIANTS SearchAgreesWithDocuments DeletedStaysDeleted MarksHaveATask
PROPERTIES NewestVersionWins

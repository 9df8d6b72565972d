CONSTANTS
    MaxRuns = 2
    MaxFaults = 1
    Funds = 3
    Price = 2
    AbandonsCalls = FALSE
    Polled = FALSE
SPECIFICATION Spec
INVARIANTS
    RunOrResult
    
PROPERTIES
    RestoredAudited
    RunsEnd
CHECK_DEADLOCK FALSE

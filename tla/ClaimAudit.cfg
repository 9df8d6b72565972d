CONSTANTS
    Models <- MCModels
    Given <- MCGiven
    Readers = {r}
    MaxCrashes = 1
SPECIFICATION Spec
INVARIANTS
    Honest
PROPERTIES
    AuditsEnd
CHECK_DEADLOCK FALSE

\* Two failed probes in a row are an outage, as in the code.
CONSTANTS
    FailuresForOutage = 2
    MaxFlaps = 4
SPECIFICATION FairSpec
INVARIANTS
    OutageHasCause
    OfflineIsTold
PROPERTIES
    DownIsTold
    UpIsTold

\* One incident, two providers, a loss, a death and two changes of mode.
CONSTANTS
    i1 = i1
    p1 = p1
    p2 = p2
    p3 = p3
    None = None
    Incidents = {i1}
    Providers = {p1, p2}
    MaxLosses = 1
    MaxCrashes = 1
    MaxChanges = 1
    Settlements = {"SETTLED"}
SPECIFICATION FairSpec
CHECK_DEADLOCK FALSE
INVARIANTS
    Accounted
    Served
PROPERTIES
    
    RunsEnd

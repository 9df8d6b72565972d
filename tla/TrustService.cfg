\* Two handlers at a time, two vouchers of one incident, lost answers, a crash.
CONSTANTS
    n1 = n1
    n2 = n2
    i1 = i1
    Unknown = Unknown
    Nonces = {n1, n2}
    Incidents = {i1}
    IncidentOf <- OneIncident
    Bytes = {A}
    Penalties = {1, 2}
    Share = 2
    Slots = {s1, s2}
    MaxCalls = 3
    MaxCrashes = 1
    Loses = TRUE
    Archives = TRUE
SPECIFICATION FairSpec
CHECK_DEADLOCK FALSE
INVARIANTS
    
    ClosedOnce
    NetNeverUnderstated
PROPERTIES
    SettledIsAudited

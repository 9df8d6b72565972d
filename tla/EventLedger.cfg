\* The server and the command line tool write at once, and one of them may die.
CONSTANTS
    server = server
    cli = cli
    Server = server
    Unknown = Unknown
    Torn = Torn
    Idle = Idle
    Nonces = {N1}
    Penalties = {1}
    Procs <- TwoProcesses
    EmitTypes <- SomeTypes
    MaxEmits = 3
    MaxCrashes = 2
SPECIFICATION FairSpec
CHECK_DEADLOCK FALSE
INVARIANTS
    LossBounded
    RestartKnowsTheSame
    BroadcastOnce
PROPERTIES
    KnownStaysKnown
    TailAdvances

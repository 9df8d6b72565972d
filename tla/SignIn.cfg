\* Two tabs, two logins, a wallet with one account and a fault.
CONSTANTS
    t1 = t1
    t2 = t2
    a1 = a1
    Tabs = {t1, t2}
    Accounts = {a1}
    Ahead = 0
    Signers = {t1}
    MaxLogins = 2
    LastEpoch = 1
    MaxFaults = 1
SPECIFICATION FairSpec
CHECK_DEADLOCK FALSE
INVARIANTS
    CodeSpentOnce
PROPERTIES
    SignsWhereItSignedIn
    SignInEnds

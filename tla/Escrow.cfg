\* Two nonces, two messages, coins that run dry, a committed_total that overflows.
SPECIFICATION FairSpec
CONSTANTS
    Nonces = {n1, n2}
    Messages = {m1, m2}
    Logs = {log}
    EmptyLog = EmptyLog
    Absent = Absent
    op = op
    buyer = buyer
    prov = prov
    plat = plat
    Accounts <- MCAccounts
    Operator = op
    Buyers = {buyer}
    Providers = {prov}
    Platforms = {plat}
    Amounts = {2, 3}
    Fees = {1}
    Penalties = {0, 1}
    Expiries = {2}
    Limits = {2, 3}
    MaxTime = 2
    MaxU64 = 4
    InitWallets <- MCInitWallets
INVARIANTS
    TypeOK
    LockedIffCommitted
    PayoutExact
    Conservation
    PoolLedger
    
PROPERTIES
    ImplementsCustody
    Finality
    EventuallyClosed
CHECK_DEADLOCK FALSE

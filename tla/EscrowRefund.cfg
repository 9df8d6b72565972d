\* A refund of a commitment that its buyer funded.
SPECIFICATION Spec
CONSTANTS
    Nonces = {n1, n2}
    Messages = {m1, m2}
    Logs = {log}
    EmptyLog = EmptyLog
    Absent = Absent
    op = op
    buyer = buyer
    prov = prov
    plat = plat
    Accounts <- MCAccounts
    Operator = op
    Buyers = {buyer}
    Providers = {prov}
    Platforms = {plat}
    Amounts = {2, 3}
    Fees = {1}
    Penalties = {0, 1}
    Expiries = {2}
    Limits = {2, 3}
    MaxTime = 2
    MaxU64 = 4
    InitWallets <- MCInitWallets
INVARIANT
    RefundRepaysBuyer
CHECK_DEADLOCK FALSE

SPECIFICATION PaymentsSpec
CONSTANTS
    i1 = i1
    i2 = i2
    t1 = t1
    t2 = t2
    t3 = t3
    t4 = t4
    Handler = {h1, h2}
    Invoice = {i1, i2}
    Txn = {t1, t2, t3, t4}
    Webhook <- TwoInvoices
    Free = Free
    Other = Other
    None = None
    MaxCrash = 1
    MaxFailure = 1
    MaxLapse = 1
    Caller = {w1, w2}
    Unheld = Unheld
    Script <- RentalScripts
    MaxLedger = 4
SYMMETRY PaymentsSymmetry
INVARIANTS
    CreditedAtMostOnce
    LedgerAgrees
    KeyCreditsOnce
    BalanceIsSignedLedgerSum
    LedgerChains
    FrozenWithinBalance

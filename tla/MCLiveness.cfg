SPECIFICATION LiveSpec
CHECK_DEADLOCK FALSE
CONSTANTS
    RentalRequest = {r1, r2}
    User = {u1}
    Slot = {s1}
    PowerBank = {b1}
    Rental = {i1}
    None = None
    Free = Free
    Orphan = Orphan
    Deposit = 2
    ChargeAmount = {1}
    InitialBalance = {4}
    TopupAmount = 2
    MaxBalance = 6
    RentalLockTtl = 10
    WalletLockTtl = 5
    CabinetSlotLockTtl = 65
    AckTimeout = 60
    MaxFaults <- OneSilence
    MaxFaultsInAll = 1
    CommandId = {c1, c2}
    MaxOutage = 2
    Fetch = {q1, q2}
    MaxPairs = 3
INVARIANTS
    OkMeansExecuted
PROPERTIES
    EveryRequestIsAnswered
    CommandsEnd
    CallsSettle

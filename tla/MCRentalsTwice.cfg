SPECIFICATION ScheduledSpec
CHECK_DEADLOCK FALSE
CONSTANTS
    r1 = r1
    r2 = r2
    station = station
    redis = redis
    Request = {r1, r2}
    User = {u1, u2}
    Slot = {s1, s2}
    PowerBank = {b1, b2}
    Rental = {i1, i2}
    None = None
    Free = Free
    Orphan = Orphan
    Deposit = 2
    ChargeAmount = {1}
    InitialBalance = {4}
    TopupAmount = 2
    MaxBalance = 0
    RentalLockTtl = 10
    WalletLockTtl = 5
    CabinetSlotLockTtl = 65
    AckTimeout = 60
    MaxFaults <- OneSilence
    MaxFaultsInAll = 1
PROPERTIES
    SettledOnce

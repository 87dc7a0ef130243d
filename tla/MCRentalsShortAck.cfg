SPECIFICATION Spec
CONSTANTS
    Request = {r1, r2}
    User = {u1}
    Slot = {s1, s2}
    PowerBank = {b1, b2}
    Rental = {i1, i2}
    None = None
    Free = Free
    Orphan = Orphan
    Deposit = 2
    ChargeAmount = {3}
    InitialBalance = {2}
    TopupAmount = 2
    MaxBalance = 4
    RentalLockTtl = 10
    WalletLockTtl = 5
    CabinetSlotLockTtl = 65
    AckTimeout = 4
    MaxFaults <- OneReconnect
    MaxFaultsInAll = 1
SYMMETRY RentalSymmetry
INVARIANTS
    TypeOK
    DepositsAreFrozen
    StartsExclude
    WalletLockIsHeld
    DispensedIsRecorded
PROPERTIES
    NoBankIsLost
    ImplementsContract

SPECIFICATION Spec
CONSTANTS
    Request = {r1, r2}
    User = {u1}
    Slot = {s1, s2}
    PowerBank = {b1, b2}
    Rental = {i1, i2}
    None = None
    Free = Free
    Orphan = Orphan
    Deposit = 2
    ChargeAmount = {1}
    InitialBalance = {4}
    TopupAmount = 2
    MaxBalance = 2
    RentalLockTtl = 10
    WalletLockTtl = 5
    CabinetSlotLockTtl = 65
    AckTimeout = 60
    MaxFaults <- AnyFault
    MaxFaultsInAll = 1
SYMMETRY RentalSymmetry
INVARIANTS
    DepositsAreFunded
    Custody
    OneCommandPerSlot

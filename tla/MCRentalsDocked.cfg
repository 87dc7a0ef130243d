SPECIFICATION FairSpec
CONSTANTS
    Request = {r1}
    User = {u1}
    Slot = {s1}
    PowerBank = {b1}
    Rental = {i1}
    None = None
    Free = Free
    Orphan = Orphan
    Deposit = 2
    ChargeAmount = {3}
    InitialBalance = {2}
    TopupAmount = 2
    MaxBalance = 2
    RentalLockTtl = 10
    WalletLockTtl = 5
    CabinetSlotLockTtl = 65
    AckTimeout = 60
    MaxFaults <- NoFaults
    MaxFaultsInAll = 0
PROPERTIES
    DockedRentalIsCompleted

SPECIFICATION Spec
CONSTANTS
    w1 = w1
    w2 = w2
    w3 = w3
    w4 = w4
    NoWork = NoWork
    Work <- TwoWithdrawals
    Amount <- UnitAmounts
    KeyOf <- OwnKeys
    Defect <- NoDefects
    Drivers = {d1}
    Callers = {c1}
    MaxSlot = 3
    MaxOutside = 1
    MaxCrashes = 2
    MaxItems = 2
    Pausable = {}
    Outcomes = {"CONFIRMED", "FAILED", "CANCELLED"}
    CancelInReview = FALSE
    InitialBalance = 4
    Fee = 1
    MaxFee = 1
    MinWithdrawal = 1
SYMMETRY Symmetry
INVARIANTS
    TypeOK
    SignedOwnsSlot
    
    
    ReviewHasItem
    ConsumedIsSpent
PROPERTIES
    NeverReissued
CHECK_DEADLOCK FALSE

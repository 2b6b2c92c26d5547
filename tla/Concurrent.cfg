SPECIFICATION Spec
CONSTANTS
    w1 = w1
    w2 = w2
    w3 = w3
    w4 = w4
    NoWork = NoWork
    Work <- ThreeWithdrawals
    Amount <- UnitAmounts
    KeyOf <- RepeatedKey
    Defect <- NoDefects
    Drivers = {d1, d2}
    Callers = {}
    MaxSlot = 2
    MaxOutside = 0
    MaxCrashes = 0
    MaxItems = 2
    Pausable = {"broadcast"}
    Outcomes = {"CONFIRMED", "FAILED", "CANCELLED"}
    CancelInReview = FALSE
    InitialBalance = 4
    Fee = 1
    MaxFee = 1
    MinWithdrawal = 1
SYMMETRY RepeatedKeySymmetry
INVARIANTS
    NoSharedSequence
    OneSignedTxPerKey

    
CHECK_DEADLOCK FALSE

SPECIFICATION FairSpec
CONSTANTS
    w1 = w1
    w2 = w2
    w3 = w3
    w4 = w4
    NoWork = NoWork
    Work <- TwoWithdrawals
    Amount <- UnitAmounts
    KeyOf <- OwnKeys
    Defect <- BadMessage
    Drivers = {d1}
    Callers = {c1}
    MaxSlot = 2
    MaxOutside = 0
    MaxCrashes = 1
    MaxItems = 2
    Pausable = {}
    Outcomes = {"CANCELLED"}
    CancelInReview = FALSE
    InitialBalance = 4
    Fee = 1
    MaxFee = 1
    MinWithdrawal = 1
PROPERTIES
    SignedSettles
CHECK_DEADLOCK FALSE

SPECIFICATION Spec
CONSTANTS
    k1 = k1
    k2 = k2
    Keys = {k1, k2}
    AddressOf <- OneGoodKey
    MaxUint64 = 15
    MaxSafeInteger = 15
    Jobs = {j1}
    Users = {u1, u2}
    MaxRuns = 2
    MaxRotations = 1
    Hot = "hot"
    Dest = "dest"
    ChainID = "sovren"
    GasUsed = {0, 3, 11, 12}
    StaticGas = 5
    Adjustment <- OnePointThree
    GasPrice <- QuarterUnit
    MaxFee = 2
    None = None
SYMMETRY Symmetry
INVARIANTS
    SignedIsApproved
    StaleOnlyOnce
    SummariesAgree

    
CHECK_DEADLOCK FALSE

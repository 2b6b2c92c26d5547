SPECIFICATION Spec
CONSTANTS
    d1 = d1
    d2 = d2
    d3 = d3
    Deposits <- ThreeDeposits
    Verdict <- OneFailed
    AmountOf <- SmallAndLarge
    Minimums = {0}
    Confirmations = 2
    StartHeight = 0
    RescanBases = {}
    MaxHeight = 3
    RewriteDepth = 1
    MaxRewrites = 1
    MaxCrashes = 1

    
    
PROPERTIES
    GateRespected

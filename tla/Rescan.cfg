SPECIFICATION FairSpec
CONSTANTS
    d1 = d1
    d2 = d2
    d3 = d3
    Deposits <- TwoDeposits
    Verdict <- OneReviewed
    AmountOf <- SmallAndLarge
    Minimums = {0, 2}
    Confirmations = 2
    StartHeight = 0
    RescanBases = {1, 2}
    MaxHeight = 2
    RewriteDepth = 1
    MaxRewrites = 0
    MaxCrashes = 1
INVARIANTS
    TypeOK
    CreditedExactlyOnce
    ReviewItemsMatch
PROPERTIES
    DeepIsCredited

SPECIFICATION Spec
CONSTANTS
    HeightTolerance = 1
    ForkHeight = 2
    Unstable = {1}
    ChangeHeights = {2}
    MaxHeight = 3
    InitialTip <- MCInitialTip
    MaxInterventions = 1
PROPERTIES AutoResolveEarned ForkClosesGate TransientHeals

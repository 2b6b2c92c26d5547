SPECIFICATION Spec
CONSTANTS
    s1 = s1
    d1 = d1
    d2 = d2
    FeeWallet = fw
    DepositAmount = 5
    FeeWalletBalance = 6
    MinSweep = 2
    MaxFeePct = 60
    FeeReserve = 1
    FeeCap = 2
    Window = 2
    Confirmations = 1
    FeeFull = 1
    FeePartial = 2
    MaxGas = 1
    MaxJobs = 2
    MaxSlot = 1
    MaxHeight = 4
    MaxFaults = 2
    Strategies = {"FEE_RESERVE", "FEE_FUND", "THRESHOLD_ONLY", "CUSTODY_ABSTRACTED"}
    NodeAnswers = {"accepted", "rejected", "error"}
    SignerAnswers = {"signed", "unavailable", "refused", "unbuildable"}
    Pausable = {"signing"}
    OperatorRecovers = TRUE
    Sweepers = {p1}
    Credits = {d1, d2}
    Sources = {s1}
    Recipient <- OneRecipient
SYMMETRY CreditSymmetry
INVARIANTS
    SignedKeepsSlot
    SweptIsMoved
    PendingHasSweep
    
PROPERTIES
    PlannedIsExecutable
CHECK_DEADLOCK FALSE

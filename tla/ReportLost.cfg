SPECIFICATION Spec
CONSTANTS
    hot = hot
    cust = cust
    late = late
    feew = feew
    ext = ext
    pool = pool
    memo = memo
    NoAddr = NoAddr
    NoIndex = NoIndex
    RecognizedMemos = {memo}
    Accounts <- Everyone
    Txs <- Catalogue
    BlockEvents <- Payouts
    Genesis <- StartBalances
    Funding <- FundingTx
    AtGenesis <- AtStart
    Late <- Later
    Jobs <- Workflows
    ListOrder <- Order
    MaxHeight = 3
    MaxRescans = 1
    MaxReports = 1
INVARIANTS
    ReportKept
CHECK_DEADLOCK FALSE

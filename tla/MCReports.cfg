CONSTANTS
    Whole = 10
    Unit = 2
    NoRate = NoRate
    NoPrice = NoPrice
    None = None
    b1 = b1
    b2 = b2
    Items = {"tea", "rose", "card", "old"}
    Offer <- MCOffer
    Branches = {b1, b2}
    Customers = {1, 2}
    Buyers = {1}
    Drafts <- MCDrafts
    SoldDrafts <- MCSoldDrafts
    Policy <- MCPolicy
    FeeRate = 5
    Fees = {2}
    Amounts = {2}
    ProviderFees = {0, 1}
    Methods = {"CASH", "ONLINE_GATEWAY"}
    SecondMethod = "BANK_TRANSFER"
    Days = 2
    MaxRows <- MCMaxRows
    PageSize = 1
SPECIFICATION Spec
INVARIANTS
    NoReportRefuses
    ReportsAgree
    CancellationUndoesSale
    TotalsAreExact
SYMMETRY Symmetry
CHECK_DEADLOCK FALSE

CONSTANTS
    Collections <- MCCollections
    Catalogues <- MCCatalogues
    Foreign <- MCForeign
    Period <- MCPeriod
    LlmSample = 1
    Absent = Absent
    NoQuantity = NoQuantity
    SmeThreshold = 60000
SPECIFICATION Spec
CHECK_DEADLOCK FALSE
INVARIANTS LedgerInv EveryInvoiceBalances LiabilityIsBooked ReportsAgree
    RevenueReconciles ResultsAreServable BookedUnlessBeyondSample
    TaxServiceAgrees

CONSTANTS
    Calls = {c1, c2, c3}
    Gets = {g1, g2}
    i1 = i1
    i2 = i2
    Invoices <- MCInvoices
    Issued <- MCIssued
    LastDay <- MCLastDay
    MaxEdits = 1
    MaxFaults = 1
SPECIFICATION Spec
CHECK_DEADLOCK FALSE
SYMMETRY Symmetry
INVARIANTS TaxInv ResultIsCurrent LaterCallWins
PROPERTIES FoundStaysFound

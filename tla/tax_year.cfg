CONSTANTS
    Calls = {c1}
    Gets = {g1}
    i1 = i1
    i2 = i2
    Invoices <- MCInvoices
    Issued <- MCIssued
    LastDay <- MCLastDay
    MaxEdits = 0
    MaxFaults = 0
SPECIFICATION Spec
CHECK_DEADLOCK FALSE
SYMMETRY Symmetry
INVARIANTS YearIsWhole

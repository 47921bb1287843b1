------------------------- MODULE MCAccountingEngine -------------------------
(* AccountingEngine on invoices of every status and shape, two at most.     *)
EXTENDS AccountingEngine

MCPeriod == [first |-> 1, last |-> 2]

MCLine(product, amount, quantity) ==
    [product |-> product, amount |-> amount, quantity |-> quantity]

\* A product of every category, and one with words of two.
MCProducts ==
    [taxi |-> [topics |-> {"transport"}, cost |-> 3000],
     book |-> [topics |-> {"education"}, cost |-> 0],
     bread |-> [topics |-> {"exempt", "tourism"}, cost |-> 9000],
     desk |-> [topics |-> {}, cost |-> 1000]]

MCCatalogues == {<<>>, MCProducts}

MCLines == {Absent,
            <<MCLine("taxi", 4000, 2), MCLine("book", 2000, NoQuantity)>>,
            <<MCLine("desk", 4000, NoQuantity), MCLine("gone", 2000, 1)>>,
            <<MCLine("bread", 6000, 1)>>}

\* An invoice document issued on day 1.
Doc(status, total, paid, tax, lines) ==
    [status |-> status, totalAmount |-> total, total |-> Absent,
     total_amount |-> Absent, paid |-> paid, tax |-> tax,
     lineItems |-> lines, lines |-> Absent, issued |-> 1, created |-> 0]

\* Bills of 6 units that say what their status says of the payment.  The six
\* accrued statuses are treated alike, so one of them stands for all.
MCDocs ==
    {Doc("PAID", 6000, 6000, tax, lines) : tax \in {0, 1000}, lines \in MCLines}
    \cup {Doc("PARTIAL", 6000, paid, tax, lines) :
             paid \in {0, 2000, 6000}, tax \in {0, 1000}, lines \in MCLines}
    \cup {Doc(status, 6000, 0, tax, lines) :
             status \in {"OVERDUE", "DRAFT", "VOIDED", "ARCHIVED", "OTHER"},
             tax \in {0, 1000}, lines \in MCLines}

\* Documents with other spellings, without a total, and of other days.
MCOddDocs ==
    LET d == Doc("OVERDUE", 6000, 0, 0, Absent)
    IN  {[d EXCEPT !.totalAmount = Absent, !.total = 5000, !.total_amount = 4000],
         [d EXCEPT !.totalAmount = Absent, !.total_amount = 4000,
                   !.lines = <<MCLine("desk", 4000, 1)>>],
         [d EXCEPT !.totalAmount = Absent],
         [d EXCEPT !.created = 1],
         [d EXCEPT !.issued = Absent, !.created = 2],
         [d EXCEPT !.issued = 3, !.created = 2],
         [d EXCEPT !.issued = 3, !.created = 0]}

MCCollections ==
    {<<>>} \cup {<<d>> : d \in MCDocs \cup MCOddDocs}
    \cup {<<d, e>> : d \in MCDocs, e \in MCOddDocs}
    \cup {<<d, e>> : d \in MCDocs, e \in {x \in MCDocs : x.tax = 1000}}

\* Journals that do not balance, that have a negative credit, and that take
\* tax back for no invoice.
MCForeign ==
    {<<Entry("Cash/Bank", 6000, 0, 1)>>,
     <<Entry("Revenue", 0, 6000, 1), Entry("Revenue", 0, -1000, 1)>>,
     <<Entry("VAT Payable", 3000, 0, 0)>>}

\* The bills above are of the kind that the theorems about the ledger ask for.
ASSUME BillsAreSane
=============================================================================

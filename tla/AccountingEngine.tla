-------------------------- MODULE AccountingEngine --------------------------
(***************************************************************************)
(* process_period of app/services/accounting_engine.py: one job reads the   *)
(* invoices of its period, writes a journal (by the LLM, or by rules when   *)
(* that fails), computes taxes, appends them to the journal as liabilities, *)
(* and derives the summary and the reports that GET /jobs/{task_id} serves. *)
(*                                                                         *)
(* One action per await or per block that leaves a field of the task behind *)
(* it, so that an exception between two of them finds the task as it was.   *)
(* Amounts are those of TaxService.                                        *)
(***************************************************************************)
EXTENDS TaxService, SequencesExt

CONSTANTS Collections,   \* possible contents of the tenant's `invoices`
          Catalogues,    \* possible contents of the tenant's `products`
          Foreign,       \* journals a language model may make up
          Period,        \* [first, last]: the days of the job, inclusive
          LlmSample,     \* invoices that are put into the prompt: 20 in the code
          Absent         \* the value of a missing field

VARIABLES stage,       \* what process_period does next
          collection,  \* the tenant's invoice documents
          invoices,    \* the normalized invoices of the period
          catalogue,   \* the products, by id
          journal,     \* task.journal_entries, one list object with the local
                       \* journal_entries from which the reports are made
          author,      \* who wrote the journal: "rules", a "model" that errs in
                       \* nothing, "any model", or "none" yet
          taxes,       \* the tax breakdown
          summary,     \* task.financial_summary
          reports      \* task.reports: P&L and balance sheet

vars == <<stage, collection, invoices, catalogue, journal, author, taxes,
          summary, reports>>

\* The elements of a sequence that pass a test, in their order.
Select(s, Test(_)) ==
    FlattenSeq([i \in DOMAIN s |-> IF Test(s[i]) THEN <<s[i]>> ELSE <<>>])

-----------------------------------------------------------------------------
(* What is read and written.                                                *)

Accrued == {"ISSUED", "VIEWED", "OVERDUE", "DISPUTED", "UNPAID", "SENT"}

\* The statuses that the rules book.
Billing == Accrued \cup {"PAID", "PARTIAL"}

\* "OTHER" is a status that the code does not name, or none at all.
Statuses == Billing \cup {"DRAFT", "VOIDED", "ARCHIVED", "OTHER"}

\* A document of the collection, whose fields have several names, and what the
\* engine makes of it.
Document ==
    [status : Statuses, paid : Int, tax : Int,
     totalAmount : {Absent} \cup Int, total : {Absent} \cup Int,
     total_amount : {Absent} \cup Int,
     lineItems : {Absent} \cup Seq(Line), lines : {Absent} \cup Seq(Line),
     issued : {Absent} \cup Int, created : {Absent} \cup Int]

Invoice == [status : Statuses, total : Int, paid : Int, tax : Int, lines : Seq(Line)]

\* The accounts that the rules and the taxes book on; a model may name others.
Ledger == {"Cash/Bank", "Accounts Receivable", "Revenue", "Cost of Goods Sold", "Inventory",
           "VAT Payable", "Withholding Tax Payable", "Corporate Tax Payable"}

\* An entry for the i-th invoice, or for none (0).
JournalEntry == [account : Ledger \cup STRING, debit : Int, credit : Int, invoice : Nat]

ASSUME EngineAssumption ==
    /\ Period \in [first : Int, last : Int]
    /\ LlmSample \in Nat
    /\ SmeThreshold \in Int
    /\ Collections \subseteq Seq(Document)
    /\ \A products \in Catalogues : products \in [DOMAIN products -> Product]
    /\ Foreign \subseteq Seq(JournalEntry)

-----------------------------------------------------------------------------
(* Reading.                                                                 *)

\* The query accepts an invoice that was issued or created in the period.
Matches(doc) ==
    \/ doc.issued # Absent /\ doc.issued \in Period.first..Period.last
    \/ doc.created # Absent /\ doc.created \in Period.first..Period.last

\* The first value of a sequence that is there.
FirstPresent(values, default) ==
    LET present == {k \in DOMAIN values : values[k] # Absent}
    IN  IF present = {} THEN default ELSE values[Min(present)]

\* _normalize_invoice: the total and the lines under whichever of their names
\* has a value; the other fields are read as they are.
Normalize(doc) ==
    [status |-> doc.status,
     total |-> FirstPresent(<<doc.totalAmount, doc.total, doc.total_amount>>, 0),
     paid |-> doc.paid,
     tax |-> doc.tax,
     lines |-> FirstPresent(<<doc.lineItems, doc.lines>>, <<>>)]

-----------------------------------------------------------------------------
(* The journal.                                                             *)

Entry(account, debit, credit, inv) ==
    [account |-> account, debit |-> debit, credit |-> credit, invoice |-> inv]

\* Cost of the goods on an invoice; a line without quantity counts nothing.
Cogs(inv, products) ==
    SumOver(inv.lines, LAMBDA l : IF l.product \in DOMAIN products
                                  THEN products[l.product].cost * Quantity(l, 0) ELSE 0)

\* Mutant: the revenue of a paid invoice is its total, tax included.
PaidEntriesGross(inv, i, cogs) ==
    <<Entry("Cash/Bank", inv.total, 0, i), Entry("Revenue", 0, inv.total, i)>>
    \o (IF inv.tax > 0 THEN <<Entry("VAT Payable", 0, inv.tax, i)>> ELSE <<>>)
    \o (IF cogs > 0 THEN <<Entry("Cost of Goods Sold", cogs, 0, i),
                           Entry("Inventory", 0, cogs, i)>> ELSE <<>>)

\* The entries of a paid invoice: cash against net revenue and VAT, and the
\* goods that left the inventory.
PaidEntries(inv, i, cogs) ==
    <<Entry("Cash/Bank", inv.total, 0, i), Entry("Revenue", 0, inv.total - inv.tax, i)>>
    \o (IF inv.tax > 0 THEN <<Entry("VAT Payable", 0, inv.tax, i)>> ELSE <<>>)
    \o (IF cogs > 0 THEN <<Entry("Cost of Goods Sold", cogs, 0, i),
                           Entry("Inventory", 0, cogs, i)>> ELSE <<>>)

\* Mutant: a partly paid invoice earns what was paid.
PartialEntriesCashBasis(inv, i) ==
    <<Entry("Cash/Bank", inv.paid, 0, i),
      Entry("Accounts Receivable", inv.total - inv.paid, 0, i),
      Entry("Revenue", 0, inv.paid, i)>>

\* Mutant: the operands of the remaining amount are swapped.
PartialEntriesSwapped(inv, i) ==
    <<Entry("Cash/Bank", inv.paid, 0, i),
      Entry("Accounts Receivable", inv.paid - inv.total, 0, i),
      Entry("Revenue", 0, inv.total, i)>>

\* The entries of a partly paid invoice: the rest is receivable.
PartialEntries(inv, i) ==
    <<Entry("Cash/Bank", inv.paid, 0, i),
      Entry("Accounts Receivable", inv.total - inv.paid, 0, i),
      Entry("Revenue", 0, inv.total, i)>>

\* Mutant: a partly paid invoice is booked once it is paid.
InvoiceEntriesWhenPaid(inv, i, products) ==
    CASE inv.status = "PAID" -> PaidEntries(inv, i, Cogs(inv, products))
      [] inv.status \in Accrued ->
            <<Entry("Accounts Receivable", inv.total, 0, i),
              Entry("Revenue", 0, inv.total, i)>>
      [] OTHER -> <<>>

\* The rule-based entries of the i-th invoice.
InvoiceEntries(inv, i, products) ==
    CASE inv.status = "PAID" -> PaidEntries(inv, i, Cogs(inv, products))
      [] inv.status = "PARTIAL" -> PartialEntries(inv, i)
      [] inv.status \in Accrued ->
            <<Entry("Accounts Receivable", inv.total, 0, i),
              Entry("Revenue", 0, inv.total, i)>>
      [] OTHER -> <<>>

RuleJournal(invs, products) ==
    FlattenSeq([i \in DOMAIN invs |-> InvoiceEntries(invs[i], i, products)])

\* An exemplary answer of the model: the right entries of what it was shown.
SampleJournal(invs, products) ==
    RuleJournal(SubSeq(invs, 1, IF Len(invs) < LlmSample THEN Len(invs) ELSE LlmSample),
                products)

-----------------------------------------------------------------------------
(* Taxes.                                                                   *)

\* Mutant: the breakdown of the 7% rate is left out of the list.
TaxCalculationsWithoutSeven(b) ==
    Select(<<[kind |-> "VAT 19", amount |-> b.vat["standard"]],
             [kind |-> "VAT 13", amount |-> b.vat["transport_tourism"]],
             [kind |-> "IS", amount |-> b.corporate],
             [kind |-> "Withholding", amount |-> b.withholding]>>,
           LAMBDA calc : calc.amount > 0)

\* _calculate_taxes lists what is due, and only that.
TaxCalculations(b) ==
    Select(<<[kind |-> "VAT 19", amount |-> b.vat["standard"]],
             [kind |-> "VAT 13", amount |-> b.vat["transport_tourism"]],
             [kind |-> "VAT 7", amount |-> b.vat["medical_education"]],
             [kind |-> "IS", amount |-> b.corporate],
             [kind |-> "Withholding", amount |-> b.withholding]>>,
           LAMBDA calc : calc.amount > 0)

PayableAccount(kind) ==
    CASE kind \in {"VAT 19", "VAT 13", "VAT 7"} -> "VAT Payable"
      [] kind = "Withholding" -> "Withholding Tax Payable"
      [] OTHER -> "Corporate Tax Payable"

\* The liability entries: a credit each, for no invoice (0).
TaxEntries(calcs) ==
    [i \in DOMAIN calcs |-> Entry(PayableAccount(calcs[i].kind), 0, calcs[i].amount, 0)]

-----------------------------------------------------------------------------
(* Summary and reports.                                                     *)

FinancialSummary(invs, entries) ==
    LET revenue == SumOver(entries, LAMBDA e :
                     IF e.account = "Revenue" /\ e.credit > 0 THEN e.credit ELSE 0)
        expenses == SumOver(entries, LAMBDA e :
                     IF e.account = "Cost of Goods Sold" /\ e.debit > 0 THEN e.debit ELSE 0)
        receivable == SumOver(entries, LAMBDA e :
                     IF e.account # "Accounts Receivable" THEN 0
                     ELSE IF e.debit > 0 THEN e.debit
                     ELSE IF e.credit > 0 THEN -e.credit ELSE 0)
        cash == SumOver(invs, LAMBDA inv : IF inv.status = "PAID" THEN inv.total ELSE 0)
    IN  [revenue |-> revenue, expenses |-> expenses, gross |-> revenue - expenses,
         receivable |-> receivable, payable |-> 0, cash |-> cash]

ProfitAndLoss(entries) ==
    LET revenue == SumOver(entries, LAMBDA e : IF e.account = "Revenue" THEN e.credit ELSE 0)
        cogs == SumOver(entries, LAMBDA e :
                  IF e.account = "Cost of Goods Sold" THEN e.debit ELSE 0)
    IN  [revenue |-> revenue, cogs |-> cogs, gross |-> revenue - cogs]

Accounts(entries) == {entries[i].account : i \in DOMAIN entries}

Balance(account, entries) ==
    SumOver(entries, LAMBDA e : IF e.account = account THEN e.debit - e.credit ELSE 0)

BalanceSheet(entries) == [a \in Accounts(entries) |-> Balance(a, entries)]

-----------------------------------------------------------------------------

Unset == Absent

Init ==
    /\ stage = "fetch"
    /\ collection \in Collections
    /\ invoices = <<>>
    /\ catalogue = <<>>
    /\ journal = <<>>
    /\ author = "none"
    /\ taxes = Unset
    /\ summary = Unset
    /\ reports = Unset

\* Mutant: two queries, one for each date, instead of one $or.
FetchInvoicesTwice ==
    /\ stage = "fetch"
    /\ LET dated(day) == Select(collection, LAMBDA doc :
                           day[doc] # Absent /\ day[doc] \in Period.first..Period.last)
           docs == ToSet(collection)
           found == dated([doc \in docs |-> doc.issued])
                    \o dated([doc \in docs |-> doc.created])
       IN  invoices' = [i \in DOMAIN found |-> Normalize(found[i])]
    /\ stage' = "products"
    /\ UNCHANGED <<collection, catalogue, journal, author, taxes, summary, reports>>

\* One query for the invoices of the period, each then normalized.
FetchInvoices ==
    /\ stage = "fetch"
    /\ LET found == Select(collection, Matches)
       IN  invoices' = [i \in DOMAIN found |-> Normalize(found[i])]
    /\ stage' = "products"
    /\ UNCHANGED <<collection, catalogue, journal, author, taxes, summary, reports>>

FetchProducts ==
    /\ stage = "products"
    /\ catalogue' \in Catalogues
    /\ stage' = "journal"
    /\ UNCHANGED <<collection, invoices, journal, author, taxes, summary, reports>>

\* The model answers with at least one well-formed entry: its journal is taken
\* as it is, whether or not it is the right one for the invoices it was shown.
JournalByLlm ==
    /\ stage = "journal"
    /\ \/ journal' = SampleJournal(invoices, catalogue) /\ author' = "model"
       \/ journal' \in Foreign /\ author' = "any model"
    /\ journal' # <<>>
    /\ stage' = "taxes"
    /\ UNCHANGED <<collection, invoices, catalogue, taxes, summary, reports>>

\* No model, or it raised, or nothing in its answer was well-formed.
JournalByRules ==
    /\ stage = "journal"
    /\ journal' = RuleJournal(invoices, catalogue)
    /\ author' = "rules"
    /\ stage' = "taxes"
    /\ UNCHANGED <<collection, invoices, catalogue, taxes, summary, reports>>

\* Mutant: the entries are appended to a copy of the journal.
CalculateTaxesOnCopy ==
    /\ stage = "taxes"
    /\ taxes' = CalculatePeriodTaxes(invoices, catalogue)
    /\ stage' = "summary"
    /\ UNCHANGED <<collection, invoices, catalogue, journal, author, summary, reports>>

\* The taxes, and at once their entries, appended in place.
CalculateTaxes ==
    /\ stage = "taxes"
    /\ taxes' = CalculatePeriodTaxes(invoices, catalogue)
    /\ journal' = journal \o TaxEntries(TaxCalculations(taxes'))
    /\ stage' = "summary"
    /\ UNCHANGED <<collection, invoices, catalogue, author, summary, reports>>

\* _calculate_financial_summary and _generate_reports read the same list; the
\* analysis that follows catches all it raises and touches no amount.
Report ==
    /\ stage = "summary"
    /\ summary' = FinancialSummary(invoices, journal)
    /\ reports' = [pl |-> ProfitAndLoss(journal), bs |-> BalanceSheet(journal)]
    /\ stage' = "completed"
    /\ UNCHANGED <<collection, invoices, catalogue, journal, author, taxes>>

\* A read fails, or an amount is not a number.
Raise ==
    /\ stage \in {"fetch", "products", "journal", "taxes"}
    /\ stage' = "raised"
    /\ UNCHANGED <<collection, invoices, catalogue, journal, author, taxes,
                   summary, reports>>

Next ==
    \/ FetchInvoices
    \/ FetchProducts
    \/ JournalByLlm
    \/ JournalByRules
    \/ CalculateTaxes
    \/ Report
    \/ Raise

Spec == Init /\ [][Next]_vars

-----------------------------------------------------------------------------

TypeOK ==
    /\ stage \in {"fetch", "products", "journal", "taxes", "summary", "completed", "raised"}
    /\ collection \in Seq(Document)
    /\ invoices \in Seq(Invoice)
    /\ catalogue \in Catalogues \cup {<<>>}
    /\ journal \in Seq(JournalEntry)
    /\ author \in {"none", "model", "any model", "rules"}

\* Every document of the period, and no other, is read, and read once, whichever
\* of its two dates is in the period.
InvoicesAreOfPeriod ==
    LET found == {k \in DOMAIN collection : Matches(collection[k])}
    IN  \/ stage \in {"fetch", "raised"} /\ invoices = <<>>
        \/ /\ stage # "fetch"
           /\ ToSet(invoices) = {Normalize(collection[k]) : k \in found}
           /\ Len(invoices) = Cardinality(found)

Taxed == stage \in {"summary", "completed"}

\* The journal is what its author wrote and then, once there are taxes, one entry
\* for each of them.
JournalIsAccounted ==
    LET booked == IF Taxed THEN TaxEntries(TaxCalculations(taxes)) ELSE <<>>
    IN  /\ stage # "raised" =>
              (author = "none" <=> stage \in {"fetch", "products", "journal"})
        /\ author = "none" => journal = <<>>
        /\ author = "rules" => journal = RuleJournal(invoices, catalogue) \o booked
        /\ author = "model" => journal = SampleJournal(invoices, catalogue) \o booked
        /\ author = "any model" => \E made \in Foreign : journal = made \o booked

\* Taxes, summary and reports are there exactly from their stage on, and are those
\* of the invoices and the journal that the job ends with: nothing that goes into
\* one of them changes after it was made.
ResultsAreCurrent ==
    /\ taxes = IF Taxed THEN CalculatePeriodTaxes(invoices, catalogue) ELSE Unset
    /\ summary = IF stage = "completed" THEN FinancialSummary(invoices, journal) ELSE Unset
    /\ reports = IF stage = "completed"
                 THEN [pl |-> ProfitAndLoss(journal), bs |-> BalanceSheet(journal)]
                 ELSE Unset

\* The inductive invariant: where everything a job holds came from.
LedgerInv == TypeOK /\ InvoicesAreOfPeriod /\ JournalIsAccounted /\ ResultsAreCurrent

\* What the engine relies on and does not check: nobody paid more than the total
\* of an invoice, no tax is more than it, and no amount is negative.
SaneInvoice(inv) ==
    /\ 0 <= inv.paid /\ inv.paid <= inv.total
    /\ 0 <= inv.tax /\ inv.tax <= inv.total
    /\ \A l \in DOMAIN inv.lines : inv.lines[l].amount >= 0

BillsAreSane ==
    \A docs \in Collections : \A k \in DOMAIN docs : SaneInvoice(Normalize(docs[k]))

DebitsOf(i) == SumOver(journal, LAMBDA e : IF e.invoice = i THEN e.debit ELSE 0)
CreditsOf(i) == SumOver(journal, LAMBDA e : IF e.invoice = i THEN e.credit ELSE 0)

\* The rule-based entries of every invoice balance, whatever is paid of it and
\* whatever goods it moves: the tax is split off the revenue of a paid invoice,
\* and nothing else is.
EveryInvoiceBalances ==
    author = "rules" => \A i \in DOMAIN invoices : DebitsOf(i) = CreditsOf(i)

\* What the engine lists and books as tax is the liability that the tax service
\* totals, but for the corporate tax of a loss, which lowers the total and is
\* neither listed nor booked.  (A model may invent entries for no invoice.)
LiabilityIsBooked ==
    (Taxed /\ author # "any model") =>
        LET loss == IF taxes.corporate < 0 THEN taxes.corporate ELSE 0
        IN  CreditsOf(0) = taxes.total - loss

\* Summary, P&L and balance sheet of a completed job tell the same story, the
\* balance sheet shows at least the tax liabilities, and only a negative entry,
\* which the rules never write, makes the summary claim more revenue than the
\* P&L.
ReportsAgree ==
    stage = "completed" =>
        LET bs == reports.bs
            shown(a) == IF a \in DOMAIN bs THEN bs[a] ELSE 0
        IN  /\ summary.revenue >= reports.pl.revenue
            /\ author # "any model" =>
                  \A i \in DOMAIN TaxCalculations(taxes) :
                      LET a == PayableAccount(TaxCalculations(taxes)[i].kind)
                      IN  -shown(a) >= TaxCalculations(taxes)[i].amount
            /\ author = "rules" =>
                  /\ summary.revenue = reports.pl.revenue
                  /\ summary.gross = reports.pl.gross
                  /\ -shown("Revenue") = reports.pl.revenue
                  /\ shown("Cost of Goods Sold") = summary.expenses
                  /\ shown("Accounts Receivable") = summary.receivable

\* The ledger's revenue is what the invoices that were issued bill, less the
\* tax of the paid ones; the tax service's revenue has that tax in it, and the
\* invoices that the ledger leaves out: the archived ones, and those whose status
\* is missing or is none that the engine knows.
RevenueReconciles ==
    (stage = "completed" /\ author = "rules") =>
        LET Total(S) == SumOver(invoices, LAMBDA inv :
                          IF inv.status \in S THEN inv.total ELSE 0)
            paidTax == SumOver(invoices, LAMBDA inv :
                          IF inv.status = "PAID" THEN inv.tax ELSE 0)
        IN  /\ summary.revenue =
                  Total(Billing) - paidTax
            /\ TaxableRevenue(invoices) =
                  summary.revenue + paidTax + Total({"ARCHIVED", "OTHER"})

\* A job completed by the rules can be read, if BillsAreSane: the results pass the ge=0
\* constraints of AccountingResultsResponse.  (A job whose results do not can be neither
\* read nor created again: a partly paid invoice with no total, or paid beyond it, gives
\* a negative debit, and nothing in the engine asks for sane bills.)
ResultsAreServable ==
    (stage = "completed" /\ author = "rules") =>
        /\ {summary.revenue, summary.expenses, summary.receivable, summary.payable}
              \subseteq Nat
        /\ \A i \in DOMAIN journal : {journal[i].debit, journal[i].credit} \subseteq Nat

\* Every invoice of the period that was issued, or paid in part or in full, is in a
\* finished journal, unless a model wrote the journal, which may leave out whatever it
\* likes, and a model that errs in nothing those it was not shown.  (What has another
\* status is never booked: a draft, but also an invoice without a status.)
BookedUnlessBeyondSample ==
    (stage = "completed" /\ author # "any model") =>
        \A i \in DOMAIN invoices :
            invoices[i].status \in Billing =>
                \/ \E k \in DOMAIN journal : journal[k].invoice = i
                \/ author = "model" /\ i > LlmSample

\* The rate that a breakdown shows, and that the description of a listed
\* corporate tax names, is the rate that was charged: two pieces of code choose
\* it, and only one of them looks at the revenue of the year.
RateShownIsCharged ==
    Taxed => taxes.corporate = Share(taxes.taxableIncome, taxes.corporateRate)

\* The calendar of filing dates and the due date of a breakdown, two pieces of
\* code, agree in every month, December included.
CalendarAgrees ==
    \A month \in 1..12 :
        stage = "fetch" => TaxCalendar(2024)[month] = DueDate([year |-> 2024, month |-> month])

\* What the tax service works out in two places comes out the same in both: the
\* corporate rate, and the due date of a filing.
TaxServiceAgrees == RateShownIsCharged /\ CalendarAgrees

-----------------------------------------------------------------------------
(* What the documents of the repository say.                                *)

\* "generates double-entry journal entries" (README.md:3): the debits and the
\* credits of a finished journal that the rules wrote are equal.
DoubleEntry ==
    (stage = "completed" /\ author = "rules") =>
        SumOver(journal, LAMBDA e : e.debit) = SumOver(journal, LAMBDA e : e.credit)
=============================================================================

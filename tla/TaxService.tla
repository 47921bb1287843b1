----------------------------- MODULE TaxService -----------------------------
(***************************************************************************)
(* The Tunisian tax calculator of app/services/tax_service.py as operators  *)
(* on the invoices and products of a business.                             *)
(*                                                                         *)
(* The code computes with Decimal, exactly.  Here an amount is an integer   *)
(* number of thousandths, amounts on invoices are whole units (multiples of *)
(* 1000) and rates are in thousandths, so that integer division is exact.   *)
(*                                                                         *)
(*   invoice: [status, total, paid, tax, lines]                             *)
(*   line:    [product, amount, quantity], quantity may be NoQuantity       *)
(*   product: [topics, cost], topics being the keyword groups that its name *)
(*            and description hit; a catalogue maps product ids to products *)
(***************************************************************************)
EXTENDS Integers, Sequences, Functions

CONSTANTS SmeThreshold,  \* annual revenue of an SME: 1 000 000 TND in the code
          NoQuantity     \* the quantity of a line that states none

Topics == {"transport", "tourism", "medical", "education", "exempt"}

\* What invoices and catalogues are made of.
Line == [product : STRING, amount : Int, quantity : Int \cup {NoQuantity}]
Product == [topics : SUBSET Topics, cost : Int]

Categories == {"standard", "transport_tourism", "medical_education", "exempt"}

\* VAT rates, corporate rates and the withholding rate of a B2B payment.
VatRate == [standard |-> 190, transport_tourism |-> 130,
            medical_education |-> 70, exempt |-> 0]
CorporateSmeRate == 150
CorporateStandardRate == 250
WithholdingRate == 15

\* amount * rate
Share(amount, rate) == (amount * rate) \div 1000

\* The sum of Value(s[i]) over a sequence.
SumOver(s, Value(_)) == SumFunction([i \in DOMAIN s |-> Value(s[i])])

\* item.get("quantity", default)
Quantity(line, default) ==
    IF line.quantity = NoQuantity THEN default ELSE line.quantity

-----------------------------------------------------------------------------

\* _categorize_products: exempt words win over medical and educational ones,
\* these over transport and tourism.
Category(product) ==
    CASE "exempt" \in product.topics -> "exempt"
      [] product.topics \cap {"exempt"} = {}
           /\ product.topics \cap {"medical", "education"} # {} -> "medical_education"
      [] product.topics \cap {"exempt", "medical", "education"} = {}
           /\ product.topics \cap {"transport", "tourism"} # {} -> "transport_tourism"
      [] OTHER -> "standard"

\* The category of a line; a product that is not in the catalogue is standard.
LineCategory(line, catalogue) ==
    IF line.product \in DOMAIN catalogue
    THEN Category(catalogue[line.product]) ELSE "standard"

\* calculate_vat: what invoice inv adds to the bucket of a category.  Without
\* lines, or without any product in the catalogue, the total is taxed at 19%.
InvoiceVat(inv, catalogue, category) ==
    IF inv.status \in {"DRAFT", "VOIDED", "ARCHIVED"} THEN 0
    ELSE IF inv.lines # <<>> /\ DOMAIN catalogue # {}
    THEN SumOver(inv.lines,
                 LAMBDA l : IF LineCategory(l, catalogue) = category
                            THEN Share(l.amount, VatRate[category]) ELSE 0)
    ELSE IF category = "standard" THEN Share(inv.total, VatRate[category])
    ELSE 0

CalculateVat(invoices, catalogue) ==
    [category \in Categories |->
        SumOver(invoices, LAMBDA inv : InvoiceVat(inv, catalogue, category))]

\* calculate_corporate_income_tax: nothing keeps it from being negative.
CorporateRate(annualRevenue, isSme) ==
    IF isSme \/ annualRevenue <= SmeThreshold
    THEN CorporateSmeRate ELSE CorporateStandardRate

CalculateCorporateIncomeTax(income, annualRevenue, isSme) ==
    Share(income, CorporateRate(annualRevenue, isSme))

-----------------------------------------------------------------------------

\* Revenue of the period; an archived invoice counts here, and not for VAT.
TaxableRevenue(invoices) ==
    SumOver(invoices,
            LAMBDA inv : IF inv.status \in {"DRAFT", "VOIDED"} THEN 0 ELSE inv.total)

\* Costs of all lines whose product is known, on invoices of any status; a
\* line that states no quantity counts once.
EstimatedCogs(invoices, catalogue) ==
    SumOver(invoices,
            LAMBDA inv : SumOver(inv.lines,
                LAMBDA l : IF l.product \in DOMAIN catalogue
                           THEN catalogue[l.product].cost * Quantity(l, 1) ELSE 0))

\* Mutant: no business is assumed to be small.
IsSmeNever == FALSE

\* "Assume SME for now".
IsSme == TRUE

\* calculate_period_taxes
CalculatePeriodTaxes(invoices, catalogue) ==
    LET vat == CalculateVat(invoices, catalogue)
        vatTotal == vat["standard"] + vat["transport_tourism"] + vat["medical_education"]
        revenue == TaxableRevenue(invoices)
        income == revenue - EstimatedCogs(invoices, catalogue)
        corporate == CalculateCorporateIncomeTax(income, 12 * revenue, IsSme)
        withholding == Share(SumOver(invoices, LAMBDA inv : inv.paid), WithholdingRate)
    IN  [vat |-> vat, vatTotal |-> vatTotal,
         taxableIncome |-> income,
         corporateRate |-> IF IsSme THEN CorporateSmeRate ELSE CorporateStandardRate,
         corporate |-> corporate,
         withholding |-> withholding,
         total |-> vatTotal + corporate + withholding]

-----------------------------------------------------------------------------
(* Filing dates.                                                            *)

\* Mutant: no turn of the year.
DueDateSameYear(end) == [year |-> end.year, month |-> end.month + 1, day |-> 28]

\* The 28th of the month after the one the period ends in.
DueDate(end) ==
    IF end.month = 12
    THEN [year |-> end.year + 1, month |-> 1, day |-> 28]
    ELSE [year |-> end.year, month |-> end.month + 1, day |-> 28]

\* get_tax_calendar: the VAT deadlines of a year by month.
TaxCalendar(year) ==
    [month \in 1..12 |->
        [year |-> IF month < 12 THEN year ELSE year + 1,
         month |-> IF month < 12 THEN month + 1 ELSE 1,
         day |-> 28]]
=============================================================================

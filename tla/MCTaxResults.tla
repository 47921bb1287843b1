---------------------------- MODULE MCTaxResults ----------------------------
(* TaxResults with a few calls and two invoices: one of the first instant   *)
(* of 31 December and one of noon of that day.                             *)
EXTENDS TaxResults, TLC

CONSTANTS i1, i2

MCInvoices == {i1, i2}
MCLastDay == 728
MCIssued == (i1 :> MCLastDay) @@ (i2 :> MCLastDay + 1)

\* No definition tells two calls, or two readers, apart.
Symmetry == Permutations(Calls) \cup Permutations(Gets)
=============================================================================

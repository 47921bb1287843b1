--------------------------- MODULE MCBusinessLookup --------------------------
(* BusinessLookup with three calls and a business that moves twice.          *)
EXTENDS BusinessLookup, TLC

\* No definition tells two calls or two names apart.
Symmetry == Permutations(Calls) \cup Permutations(Names)
=============================================================================

-------------------------- MODULE MCAccountingJobs --------------------------
(* AccountingJobs on small instances: the calls, tasks and workers of a run *)
(* are model values of its cfg.                                             *)
EXTENDS AccountingJobs, TLC

\* No definition tells two calls, two tasks or two workers apart.
Symmetry == Permutations(Calls) \cup Permutations(Tasks) \cup Permutations(Workers)
=============================================================================

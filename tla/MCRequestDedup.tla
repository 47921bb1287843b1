--------------------------- MODULE MCRequestDedup ---------------------------
(* RequestDedup with a few callers.                                         *)
EXTENDS RequestDedup
=============================================================================

---------------------------- MODULE MCJobClients ----------------------------
(* JobClients on a small instance: more clients than the limit admits.      *)
EXTENDS JobClients
=============================================================================

---------------------------- MODULE MCServiceStart ----------------------------
(* ServiceStart with two workers and the numbers of the code.               *)
EXTENDS ServiceStart

\* 22, 46, 74, 110 and 160 seconds, of the 120 that gunicorn waits.
Spent[k \in 0..MaxAttempts] ==
    IF k = 0 THEN 0 ELSE Spent[k - 1] + SelectionTimeout + Wait(k)

ASSUME SlowTriesOfTheCode == SlowTriesOutlast(Spent)
=============================================================================

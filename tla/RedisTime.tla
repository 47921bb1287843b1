------------------------------ MODULE RedisTime ------------------------------
(* What TTL of Redis says of the time a key has left: the nearest number of  *)
(* whole seconds, (milliseconds + 500) / 1000 in integers.  Clocks are       *)
(* counted in ticks here, of which a second has several.                     *)
EXTENDS Integers

CONSTANT Second \* the ticks of a second

ASSUME SecondAssumption == Second \in Nat \ {0}

\* The one answer of TTL, in ticks, for a key with `left` ticks to live: half a second
\* more at the most, and less than half a second less, so 0 for a key near its end.
Told(left) ==
    {told \in 0..(left + Second) :
        /\ told % Second = 0
        /\ 2 * left < 2 * told + Second
        /\ 2 * told <= 2 * left + Second}
=============================================================================

----------------------------- MODULE Durations -----------------------------
(***************************************************************************)
(* time.Duration: nanoseconds in a signed integer that runs from - Half to *)
(* Half - 1 and wraps.                                                     *)
(***************************************************************************)
EXTENDS Integers

CONSTANTS Half, Second   \* 2^63, 10^9

ASSUME DurationAssumption == Half \in Nat \ {0} /\ Second \in Nat \ {0}

Int64 == - Half .. Half - 1
Wrap(n) == ((n + Half) % (2 * Half)) - Half

(* time.Duration(seconds) * time.Second *)
Duration(seconds) == Wrap(seconds * Second)
=============================================================================

--------------------------- MODULE MCTimerListing ---------------------------
(* A small instance of the lab 3 timer with a process that lists the timers. *)
EXTENDS TimerListing

CONSTANTS p1, p2, p3, tea, egg, l1

Set(m) == [command |-> "set", msg |-> m]
Max(n) == [command |-> "max", count |-> n]

SetOrAllowTwo == {Set(tea), Set(egg), Max(2)}
SetOnly == {Set(tea), Set(egg)}
=============================================================================

--------------------------- MODULE TrafficSignal ---------------------------
(***************************************************************************)
(* What the lab 4 traffic light promises somebody standing in the street.  *)
(* The signal shows one phase at a time and moves to another only when the *)
(* clock ticks.  Left alone it runs the pattern                            *)
(*                                                                         *)
(*     green x 3, yellow, red, then red again or, for a pedestrian, walk   *)
(*                                                                         *)
(* or, in the flashing regimes, on and off.  Somebody may call for a       *)
(* crossing or ask for another regime at any moment.  A change of regime   *)
(* shows at one of the following ticks, and the tick that shows it may     *)
(* start a pattern anew; it can never jump into the middle of the normal   *)
(* pattern, so that red is always preceded by yellow.                      *)
(***************************************************************************)
EXTENDS Integers

VARIABLES
    phase,      \* what the lamps show
    count,      \* for how many ticks of this pattern they have shown it
    left,       \* walk ticks still owed to pedestrians
    calling,    \* a crossing has been called for and not granted yet
    asked       \* another regime has been asked for since the last clean tick

vars == <<phase, count, left, calling, asked>>

Flashing == {"flashRed", "flashYellow"}
Phases   == {"dark", "green", "yellow", "red", "walk"} \cup Flashing

GreenTicks == 3
WalkTicks  == 4

TypeOK ==
    /\ phase \in Phases
    /\ count \in 1..GreenTicks
    /\ left \in 0..WalkTicks
    /\ calling \in BOOLEAN
    /\ asked \in BOOLEAN

Init ==
    /\ phase = "dark"
    /\ count = 1
    /\ left = 0
    /\ calling = FALSE
    /\ asked = FALSE

-----------------------------------------------------------------------------
(* What people do. *)

Call ==
    /\ calling' = TRUE
    /\ UNCHANGED <<phase, count, left, asked>>

Ask ==
    /\ asked' = TRUE
    /\ UNCHANGED <<phase, count, left, calling>>

-----------------------------------------------------------------------------
(* What the clock does. *)

Show(p, n) == phase' = p /\ count' = n

\* A call is granted while the signal is yellow, before it turns red.
Grant ==
    /\ phase = "yellow"
    /\ calling
    /\ calling' = FALSE
    /\ left' = WalkTicks
    /\ UNCHANGED <<phase, count, asked>>

\* The next phase of the pattern the signal is in.
Continue ==
    \/ phase = "dark" /\ Show("green", 1) /\ UNCHANGED left
    \/ phase = "green" /\ count < GreenTicks /\ Show("green", count + 1) /\ UNCHANGED left
    \/ phase = "green" /\ count = GreenTicks /\ Show("yellow", 1) /\ UNCHANGED left
    \/ phase = "yellow" /\ Show("red", 1) /\ UNCHANGED left
    \/ phase = "red" /\ count = 1 /\ left = 0 /\ Show("red", 2) /\ UNCHANGED left
    \/ phase = "red" /\ count = 2 /\ Show("green", 1) /\ UNCHANGED left
    \/ phase = "red" /\ count = 1 /\ left > 0 /\ Show("walk", 1) /\ left' = left - 1
    \/ phase = "walk" /\ left > 0 /\ Show("walk", 1) /\ left' = left - 1
    \/ phase = "walk" /\ left = 0 /\ Show("green", 1) /\ UNCHANGED left
    \/ phase \in Flashing /\ Show(phase, 3 - count) /\ UNCHANGED left

\* A pattern started anew.  A walk that is cut short owes its last tick again.
Restart ==
    /\ \/ \E n \in 1..GreenTicks : Show("green", n)
       \/ \E p \in Flashing, n \in 1..2 : Show(p, n)
    /\ left' = IF phase = "walk" THEN left + 1 ELSE left

Tick ==
    /\ UNCHANGED calling
    /\ \/ ~asked /\ Continue /\ UNCHANGED asked
       \/ asked /\ (Continue \/ Restart) /\ asked' \in BOOLEAN

Next == Call \/ Ask \/ Grant \/ Tick

Spec == Init /\ [][Next]_vars

-----------------------------------------------------------------------------
(***************************************************************************)
(* What follows from the promise: the signal turns red only after yellow,  *)
(* and the walk lamps come on only after red.                              *)
(***************************************************************************)
YellowThenRed ==
    [][ /\ phase' = "red"  => phase \in {"yellow", "red"}
        /\ phase' = "walk" => phase \in {"red", "walk"} ]_vars
=============================================================================

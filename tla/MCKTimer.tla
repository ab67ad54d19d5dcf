------------------------------ MODULE MCKTimer ------------------------------
(* Small instances of the lab 3 timer and its programs for TLC. *)
EXTENDS KTimer, TLC

CONSTANTS p1, p2, p3, p4, tea, egg

Set(m) == [command |-> "set", msg |-> m]
Max(n) == [command |-> "max", count |-> n]
RemoveAll == [command |-> "remove"]

AllCommands    == {Set(tea), Set(egg), RemoveAll, Max(0), Max(1), Max(2)}
SerialCommands == {Set(tea), Set(egg), RemoveAll, Max(2)}

Symmetric == Permutations(Clients) \cup Permutations(Messages)
=============================================================================

--------------------------- MODULE ReminderTable ---------------------------
(***************************************************************************)
(* What the timer device of lab 3 promises to people who use it one at a   *)
(* time: a table of reminders, told apart by their messages, that takes a  *)
(* new one only while it holds fewer than the maximum.                     *)
(***************************************************************************)
EXTENDS Integers, FiniteSets

CONSTANTS
    Messages,   \* what reminders may say
    Capacity    \* the largest maximum, a positive number

VARIABLES
    active,     \* the messages of the active reminders
    renewing,   \* messages of reminders whose time somebody is changing
    max         \* how many there may be

tableVars == <<active, renewing, max>>

TableInit == active = {} /\ renewing = {} /\ max = 1

Add(m) ==
    /\ m \notin active
    /\ Cardinality(active) < max
    /\ active' = active \cup {m}
    /\ UNCHANGED <<renewing, max>>

\* A reminder runs out or is removed.
Drop(m) ==
    /\ m \in active
    /\ active' = active \ {m}
    /\ UNCHANGED <<renewing, max>>

\* A reminder that is active is given more time.  Should it run out while
\* that happens, it becomes active again.
AskRenewal(m) ==
    /\ m \in active
    /\ renewing' = renewing \cup {m}
    /\ UNCHANGED <<active, max>>

Renew(m) ==
    /\ m \in renewing
    /\ active' = active \cup {m}
    /\ renewing' = renewing \ {m}
    /\ UNCHANGED max

ChangeMax(n) ==
    /\ max' = n
    /\ UNCHANGED <<active, renewing>>

TableNext ==
    \/ \E m \in Messages : Add(m) \/ Drop(m) \/ AskRenewal(m) \/ Renew(m)
    \/ \E n \in 1..Capacity : ChangeMax(n)

Spec == TableInit /\ [][TableNext]_tableVars
=============================================================================

---------------------------- MODULE TimerListing ----------------------------
(***************************************************************************)
(* The lab 3 timer with processes that list its timers: ktimer -l, which   *)
(* reads the device (mytimer_read), and readers of /proc/mytimer           *)
(* (mytimer_proc_show).  Both walk the slots without a lock while the      *)
(* other processes write.  The times left are not modelled.                *)
(***************************************************************************)
EXTENDS KTimer, Sequences

CONSTANT Listers    \* processes that list the timers

VARIABLES
    listAt,     \* where each lister is
    listSlot,   \* the slot it is at
    lines,      \* the slots it has listed: of message and pid, the device
                \* shows the first and the proc file both
    calm        \* history: the listers during whose walk no slot has changed

listing  == <<listAt, listSlot, lines, calm>>
listVars == <<vars, listing>>

ListTypeOK ==
    /\ TypeOK
    /\ listAt \in [Listers -> {"user", "look", "show", "end"}]
    /\ listSlot \in [Listers -> Slots]
    /\ lines \in [Listers -> Seq([msg : Messages \cup {NoMessage}, pid : Clients \cup {NoClient}])]
    /\ \A l \in Listers : Len(lines[l]) <= MAX_TIMERS
    /\ calm \subseteq Listers

ListInit ==
    /\ Init
    /\ listAt = [l \in Listers |-> "user"]
    /\ listSlot = [l \in Listers |-> 0]
    /\ lines = [l \in Listers |-> <<>>]
    /\ calm = {}

ListStart(l) ==
    /\ listAt[l] = "user"
    /\ listAt' = [listAt EXCEPT ![l] = "look"]
    /\ calm' = calm \cup {l}
    /\ UNCHANGED <<vars, listSlot, lines>>

\* To the next slot, or to the end of the loop.
ListRound(l) ==
    IF listSlot[l] + 1 < MAX_TIMERS
    THEN /\ listSlot' = [listSlot EXCEPT ![l] = @ + 1]
         /\ listAt' = [listAt EXCEPT ![l] = "look"]
    ELSE listAt' = [listAt EXCEPT ![l] = "end"] /\ UNCHANGED listSlot

ListLook(l) ==
    /\ listAt[l] = "look"
    /\ IF pending[listSlot[l]]
       THEN listAt' = [listAt EXCEPT ![l] = "show"] /\ UNCHANGED listSlot
       ELSE ListRound(l)
    /\ UNCHANGED <<vars, lines, calm>>

\* Mutant: the listing ends with the first timer it shows.
ListShow_One(l) ==
    /\ listAt[l] = "show"
    /\ lines' = [lines EXCEPT ![l] = Append(@, [msg |-> msg[listSlot[l]], pid |-> pid[listSlot[l]]])]
    /\ listAt' = [listAt EXCEPT ![l] = "end"]
    /\ UNCHANGED <<vars, listSlot, calm>>

ListShow(l) ==
    /\ listAt[l] = "show"
    /\ lines' = [lines EXCEPT ![l] = Append(@, [msg |-> msg[listSlot[l]], pid |-> pid[listSlot[l]]])]
    /\ ListRound(l)
    /\ UNCHANGED <<vars, calm>>

\* The copy to the process; the next read returns nothing.
ListEnd(l) ==
    /\ listAt[l] = "end"
    /\ listAt' = [listAt EXCEPT ![l] = "user"]
    /\ listSlot' = [listSlot EXCEPT ![l] = 0]
    /\ lines' = [lines EXCEPT ![l] = <<>>]
    /\ calm' = calm \ {l}
    /\ UNCHANGED vars

TimerStep ==
    /\ Next
    /\ calm' = IF <<pending, msg, pid>>' = <<pending, msg, pid>> THEN calm ELSE {}
    /\ UNCHANGED <<listAt, listSlot, lines>>

ListNext ==
    \/ TimerStep
    \/ \E l \in Listers : ListStart(l) \/ ListLook(l) \/ ListShow(l) \/ ListEnd(l)

ListSpec     == ListInit /\ [][ListNext]_listVars
FairListSpec == ListSpec /\ Fairness

-----------------------------------------------------------------------------
Line(s)   == [msg |-> msg[s], pid |-> pid[s]]
LinesUpTo(n) ==
    IF pending[0] /\ n > 0
    THEN IF pending[1] /\ n > 1 THEN <<Line(0), Line(1)>> ELSE <<Line(0)>>
    ELSE IF pending[1] /\ n > 1 THEN <<Line(1)>> ELSE <<>>

(***************************************************************************)
(* A listing during which no slot has changed shows the pending timers,    *)
(* each once and in the order of the slots, up to where it has come.       *)
(***************************************************************************)
CalmListing ==
    \A l \in calm :
        /\ listAt[l] \in {"look", "show"} => lines[l] = LinesUpTo(listSlot[l])
        /\ listAt[l] = "end" => lines[l] = LinesUpTo(MAX_TIMERS)
=============================================================================

----------------------------- MODULE Lab2Timer -----------------------------
(***************************************************************************)
(* The timer device of lab 2, lab2/km/mytimer.c, and the packets that      *)
(* lab2/ul/ktimer.c writes to it.  A process opens the device, writes one  *)
(* packet and closes it; Writers are the processes inside the device at    *)
(* the same time.  They interleave at every access to a slot, because the  *)
(* driver takes no lock, and at every character of a text that is compared *)
(* or copied; a timer that runs out is handled in one step.                *)
(***************************************************************************)
EXTENDS Integers, Sequences, FiniteSets

CONSTANTS
    Writers,    \* processes that are in the device at the same time
    Packets,    \* what they write: a text and a number
    NumSlots    \* 5 in the code

ASSUME NumSlotsAssumption == NumSlots \in Nat \ {0}
ASSUME PacketsAssumption  == Packets \subseteq [text : Seq(STRING), number : Int]

VARIABLES
    pending,            \* timer_pending(&my_timer[i].timer)
    msg,                \* my_timer[i].msg up to its NUL
    max_concurrency,
    at,                 \* where each process is in mytimer_write; "user" outside
    packet,             \* what it writes
    i,                  \* its loop index
    concurrencyCurrent, \* the active timers it has counted
    char,               \* the characters strcmp has compared, or memcpy copied, so far
    \* history: it is never read by a guard
    alone,              \* the processes whose write no other write has overlapped
    sent                \* the text for which such a process has armed each timer that
                        \* is still active; <<>> if there is none

slots   == <<pending, msg, max_concurrency>>
locals  == <<packet, i, concurrencyCurrent, char>>
history == <<alone, sent>>
vars    == <<slots, at, locals, history>>

Slots == 0..(NumSlots - 1)
Texts == {k.text : k \in Packets}
Active == {s \in Slots : pending[s]}

SlotTypeOK ==
    /\ pending \in [Slots -> BOOLEAN]
    /\ msg \in [Slots -> Seq(STRING)]
    /\ max_concurrency \in Int
    /\ sent \in [Slots -> Seq(STRING)]

CallTypeOK ==
    /\ at \in [Writers -> {"user", "max", "scan", "compare", "update", "room", "find", "copy", "arm"}]
    /\ packet \in [Writers -> [text : Seq(STRING), number : Int]]
    /\ i \in [Writers -> Slots]
    /\ concurrencyCurrent \in [Writers -> 0..NumSlots]
    /\ char \in [Writers -> Nat]
    /\ alone \subseteq Writers

TypeOK == SlotTypeOK /\ CallTypeOK

\* The state mytimer_init leaves: kzalloc clears the messages.
Init ==
    /\ pending = [s \in Slots |-> FALSE]
    /\ msg = [s \in Slots |-> <<>>]
    /\ max_concurrency = 1
    /\ at = [w \in Writers |-> "user"]
    /\ packet = [w \in Writers |-> [text |-> <<>>, number |-> 0]]
    /\ i = [w \in Writers |-> 0]
    /\ concurrencyCurrent = [w \in Writers |-> 0]
    /\ char = [w \in Writers |-> 0]
    /\ alone = {}
    /\ sent = [s \in Slots |-> <<>>]

-----------------------------------------------------------------------------
Goto(w, place) == at' = [at EXCEPT ![w] = place]

\* Back to the process; the locals of the call die.
Return(w) ==
    /\ Goto(w, "user")
    /\ packet' = [packet EXCEPT ![w] = [text |-> <<>>, number |-> 0]]
    /\ i' = [i EXCEPT ![w] = 0]
    /\ concurrencyCurrent' = [concurrencyCurrent EXCEPT ![w] = 0]
    /\ char' = [char EXCEPT ![w] = 0]
    /\ alone' = alone \ {w}

\* A packet without a text sets the maximum, whatever option it comes from.
Write(w, k) ==
    /\ at[w] = "user"
    /\ packet' = [packet EXCEPT ![w] = k]
    /\ Goto(w, IF k.text = <<>> THEN "max" ELSE "scan")
    /\ alone' = IF \A v \in Writers : at[v] = "user" THEN {w} ELSE {}
    /\ UNCHANGED <<slots, i, concurrencyCurrent, char, sent>>

\* The number is taken as it is: there may be no timer at all below it.
SetMax(w) ==
    /\ at[w] = "max"
    /\ max_concurrency' = packet[w].number
    /\ Return(w)
    /\ UNCHANGED <<pending, msg, sent>>

-----------------------------------------------------------------------------
(* The first loop counts the active timers and looks for the text. *)

\* Mutant: the loop goes one slot too far.
EndOfRound_OffByOne(w) ==
    /\ IF i[w] + 1 <= NumSlots
       THEN i' = [i EXCEPT ![w] = @ + 1] /\ Goto(w, "scan")
       ELSE i' = [i EXCEPT ![w] = 0] /\ Goto(w, "room")
    /\ char' = [char EXCEPT ![w] = 0]

EndOfRound(w) ==
    /\ IF i[w] + 1 < NumSlots
       THEN i' = [i EXCEPT ![w] = @ + 1] /\ Goto(w, "scan")
       ELSE i' = [i EXCEPT ![w] = 0] /\ Goto(w, "room")
    /\ char' = [char EXCEPT ![w] = 0]

Scan(w) ==
    /\ at[w] = "scan"
    /\ IF pending[i[w]]
       THEN /\ concurrencyCurrent' = [concurrencyCurrent EXCEPT ![w] = @ + 1]
            /\ Goto(w, "compare")
            /\ UNCHANGED <<i, char>>
       ELSE EndOfRound(w) /\ UNCHANGED concurrencyCurrent
    /\ UNCHANGED <<slots, packet, history>>

\* strcmp has come to the NUL of both, or to a character that both have.
BothEnd(w) == char[w] = Len(packet[w].text) /\ char[w] = Len(msg[i[w]])
SameChar(w) ==
    /\ char[w] < Len(packet[w].text)
    /\ char[w] < Len(msg[i[w]])
    /\ packet[w].text[char[w] + 1] = msg[i[w]][char[w] + 1]

Equal(w) ==
    /\ BothEnd(w)
    /\ Goto(w, "update")
    /\ char' = [char EXCEPT ![w] = 0]
    /\ UNCHANGED i

CompareOn(w) ==
    /\ SameChar(w)
    /\ char' = [char EXCEPT ![w] = @ + 1]
    /\ UNCHANGED <<at, i>>

\* Mutant: the loop ends at the first active timer.
Compare_FirstOnly(w) ==
    /\ at[w] = "compare"
    /\ \/ Equal(w)
       \/ CompareOn(w)
       \/ /\ ~BothEnd(w) /\ ~SameChar(w)
          /\ Goto(w, "room")
          /\ i' = [i EXCEPT ![w] = 0]
          /\ char' = [char EXCEPT ![w] = 0]
    /\ UNCHANGED <<slots, packet, concurrencyCurrent, history>>

\* One character of the comparison.
Compare(w) ==
    /\ at[w] = "compare"
    /\ \/ Equal(w)
       \/ CompareOn(w)
       \/ ~BothEnd(w) /\ ~SameChar(w) /\ EndOfRound(w)
    /\ UNCHANGED <<slots, packet, concurrencyCurrent, history>>

\* The timer of slot s is set to run out for the text of w.
ArmFor(w, s) ==
    /\ pending' = [pending EXCEPT ![s] = TRUE]
    /\ sent' = [sent EXCEPT ![s] = IF w \in alone THEN packet[w].text ELSE @]

Update(w) ==
    /\ at[w] = "update"
    /\ ArmFor(w, i[w])
    /\ Return(w)
    /\ UNCHANGED <<msg, max_concurrency>>

\* Mutant: one timer too many is let in.
Room_OffByOne(w) ==
    /\ at[w] = "room"
    /\ IF concurrencyCurrent[w] > max_concurrency
       THEN Return(w)
       ELSE Goto(w, "find") /\ UNCHANGED <<locals, alone>>
    /\ UNCHANGED <<slots, sent>>

Room(w) ==
    /\ at[w] = "room"
    /\ IF concurrencyCurrent[w] >= max_concurrency
       THEN Return(w)
       ELSE Goto(w, "find") /\ UNCHANGED <<locals, alone>>
    /\ UNCHANGED <<slots, sent>>

-----------------------------------------------------------------------------
(* The second loop takes the first slot that is free; if none is, the      *)
(* write ends as if it had succeeded.                                      *)

\* Mutant: the timer is armed before its message is copied.
Find_ArmsFirst(w) ==
    /\ at[w] = "find"
    /\ IF ~pending[i[w]]
       THEN Goto(w, "copy") /\ ArmFor(w, i[w]) /\ UNCHANGED <<locals, alone>>
       ELSE /\ UNCHANGED <<pending, sent>>
            /\ IF i[w] + 1 < NumSlots
               THEN i' = [i EXCEPT ![w] = @ + 1] /\ UNCHANGED <<at, packet, concurrencyCurrent, char, alone>>
               ELSE Return(w)
    /\ UNCHANGED <<msg, max_concurrency>>

Find(w) ==
    /\ at[w] = "find"
    /\ IF ~pending[i[w]]
       THEN Goto(w, "copy") /\ UNCHANGED <<locals, alone>>
       ELSE IF i[w] + 1 < NumSlots
            THEN i' = [i EXCEPT ![w] = @ + 1] /\ UNCHANGED <<at, packet, concurrencyCurrent, char, alone>>
            ELSE Return(w)
    /\ UNCHANGED <<slots, sent>>

\* The message m with c as its character number k.  A message gets longer
\* when its NUL is overwritten: what lies behind has never been written.
PutChar(m, k, c) ==
    [j \in 1..(IF k <= Len(m) THEN Len(m) ELSE k) |-> IF j = k THEN c ELSE m[j]]

\* One character of memcpy, which copies no NUL: what the slot held beyond
\* the new text stays.  Two writers in one slot can mix their texts.
Copy(w) ==
    /\ at[w] = "copy"
    /\ msg' = [msg EXCEPT ![i[w]] = PutChar(@, char[w] + 1, packet[w].text[char[w] + 1])]
    /\ IF char[w] + 1 < Len(packet[w].text)
       THEN char' = [char EXCEPT ![w] = @ + 1] /\ UNCHANGED at
       ELSE char' = [char EXCEPT ![w] = 0] /\ Goto(w, "arm")
    /\ UNCHANGED <<pending, max_concurrency, packet, i, concurrencyCurrent, history>>

Arm(w) ==
    /\ at[w] = "arm"
    /\ ArmFor(w, i[w])
    /\ Return(w)
    /\ UNCHANGED <<msg, max_concurrency>>

WriteStep(w) ==
    \/ SetMax(w) \/ Scan(w) \/ Compare(w) \/ Update(w) \/ Room(w) \/ Find(w) \/ Copy(w) \/ Arm(w)

-----------------------------------------------------------------------------
\* timer_fn: the timer runs out and its message is logged.
Expire(s) ==
    /\ pending[s]
    /\ pending' = [pending EXCEPT ![s] = FALSE]
    /\ sent' = [sent EXCEPT ![s] = <<>>]
    /\ UNCHANGED <<msg, max_concurrency, at, locals, alone>>

Next ==
    \/ \E w \in Writers : (\E k \in Packets : Write(w, k)) \/ WriteStep(w)
    \/ \E s \in Slots : Expire(s)

Spec == Init /\ [][Next]_vars

-----------------------------------------------------------------------------
(***************************************************************************)
(* A write that no other write overlaps arms a free slot, and only below   *)
(* the maximum, though timers run out while it counts and searches.        *)
(***************************************************************************)
AloneAddsBelowMaximum ==
    [][ \A w \in alone :
          Arm(w) => ~pending[i[w]] /\ Cardinality(Active) < max_concurrency ]_vars

(***************************************************************************)
(* Such a write never arms a second timer for a text that is active.       *)
(***************************************************************************)
AloneAddsNewText ==
    [][ \A w \in alone : Arm(w) => \A s \in Active : msg[s] # packet[w].text ]_vars

(***************************************************************************)
(* A timer that such a write has armed, or renewed, carries its text until *)
(* it runs out: the message is in its slot before the timer is armed, and  *)
(* no later write takes the slot, however the later ones overlap.          *)
(***************************************************************************)
LoneTimerSaysItsText ==
    \A s \in Active :
        /\ Len(sent[s]) <= Len(msg[s])
        /\ \A k \in 1..Len(sent[s]) : msg[s][k] = sent[s][k]
=============================================================================

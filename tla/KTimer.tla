------------------------------- MODULE KTimer -------------------------------
(***************************************************************************)
(* The processes that use the timer device of lab 3, lab3/ul/ktimer.c,     *)
(* composed with the device.  Every process runs the program once, with    *)
(* one command line: -s sets a timer and waits for it, -r removes all      *)
(* timers, -m changes the number of timers allowed.                        *)
(***************************************************************************)
EXTENDS MyTimer

CONSTANTS
    Commands,       \* the requests the command lines stand for
    OneAtATime,     \* nobody starts a write while another process is in one
    UserKills       \* users interrupt (Ctrl-C) processes that wait

ASSUME CommandsAssumption == Commands \subseteq Requests
ASSUME FlagsAssumption    == OneAtATime \in BOOLEAN /\ UserKills \in BOOLEAN

VARIABLE run    \* where each process is in main()

vars == <<deviceVars, run>>

TypeOK ==
    /\ SlotTypeOK
    /\ CallTypeOK
    /\ run \in [Clients -> {"start", "write", "register", "registering", "ready",
                            "paused", "print", "exit", "closing", "done"}]

Init ==
    /\ DeviceInit
    /\ run = [p \in Clients |-> "start"]

InWrite(p) == run[p] = "write" /\ at[p] # "user"

-----------------------------------------------------------------------------
Step(p, from, to) == run[p] = from /\ at[p] = "user" /\ run' = [run EXCEPT ![p] = to]

Start(p, r) ==
    /\ Step(p, "start", "write")
    /\ OneAtATime => \A q \in Clients : ~InWrite(q)
    /\ Write(p, r)

\* Mutant: the process waits without registering for the signal.
Written_NoRegister(p) ==
    /\ Step(p, "write", IF req[p].command = "set" /\ ret[p] = "ok" THEN "ready" ELSE "exit")
    /\ UNCHANGED deviceVars

\* A set that was not refused goes on to register; everything else exits.
Written(p) ==
    /\ Step(p, "write", IF req[p].command = "set" /\ ret[p] = "ok" THEN "register" ELSE "exit")
    /\ UNCHANGED deviceVars

Register(p) ==
    /\ Step(p, "register", "registering")
    /\ Fasync(p, "on")

\* The result of fcntl is not looked at.
Registered(p) ==
    /\ Step(p, "registering", "ready")
    /\ UNCHANGED deviceVars

Pause(p) ==
    /\ Step(p, "ready", "paused")
    /\ UNCHANGED deviceVars

Announce(p) ==
    /\ Step(p, "print", "exit")
    /\ UNCHANGED deviceVars

\* Mutant: the release does not take the process off the queue.
Exit_NoRelease(p) ==
    /\ Step(p, "exit", "done")
    /\ UNCHANGED deviceVars

\* close() or the exit of the process releases the file.
Exit(p) ==
    /\ Step(p, "exit", "closing")
    /\ Fasync(p, "off")

Exited(p) ==
    /\ Step(p, "closing", "done")
    /\ UNCHANGED deviceVars

\* The work of the program itself; Start and Kill are up to the user.
ClientStep(p) ==
    \/ Written(p) \/ Register(p) \/ Registered(p) \/ Pause(p) \/ Announce(p) \/ Exit(p) \/ Exited(p)
    \/ CallStep(p) /\ UNCHANGED run

Kill(p) ==
    /\ UserKills
    /\ run[p] \in {"register", "ready", "paused"}
    /\ run' = [run EXCEPT ![p] = "exit"]
    /\ UNCHANGED deviceVars

\* Mutant: the handler of the timer tells nobody.
Ring_Silent(s) ==
    /\ Expire(s)
    /\ UNCHANGED run

\* SIGIO ends a pause.  Its handler does nothing, so that a signal that
\* comes before the pause leaves no trace.
Ring(s) ==
    /\ Expire(s)
    /\ run' = [p \in Clients |-> IF p \in queue[s] /\ run[p] = "paused"
                                 THEN "print" ELSE run[p]]

Next ==
    \/ \E p \in Clients : \/ \E r \in Commands : Start(p, r)
                          \/ ClientStep(p) \/ Kill(p)
    \/ \E s \in Slots : Ring(s)

Spec == Init /\ [][Next]_vars

\* Processes get the processor and timers run out; a timer's time can be
\* put off only by a process that updates it, and each process runs once.
Fairness ==
    /\ \A p \in Clients : WF_vars(ClientStep(p))
    /\ \A s \in Slots : WF_vars(Ring(s))

FairSpec == Spec /\ Fairness

-----------------------------------------------------------------------------
(* What holds however the calls interleave. *)

(***************************************************************************)
(* A process that waits while a slot still carries its pid is on that      *)
(* slot's queue: find_by_pid at fcntl time cannot have missed it.          *)
(***************************************************************************)
OwnerListens ==
    \A p \in Clients, s \in Slots : run[p] = "paused" /\ pid[s] = p => p \in queue[s]

(***************************************************************************)
(* A process that has exited is left on a queue only if another process    *)
(* has taken the slot since, so that release could not find it.            *)
(***************************************************************************)
StaleEntryIsSuperseded ==
    \A p \in Clients, s \in Slots : run[p] = "done" /\ p \in queue[s] => pid[s] # p

(***************************************************************************)
(* A process that waits on the queue of a pending timer is woken, provided *)
(* nobody removes timers.                                                  *)
(***************************************************************************)
ListenersAreWoken ==
    \A p \in Clients :
      (run[p] = "paused" /\ \E s \in Slots : pending[s] /\ p \in queue[s]) ~> (run[p] # "paused")

-----------------------------------------------------------------------------
(* The table of reminders that one call at a time maintains. *)

\* A slot being filled counts as filled once its timer is armed.
Filling(p, s) == at[p] \in {"copy", "pid"} /\ slot[p] = s

MessageOf(s) ==
    IF \E p \in Clients : Filling(p, s)
    THEN req[CHOOSE p \in Clients : Filling(p, s)].msg ELSE msg[s]

Table == INSTANCE ReminderTable WITH
    active <- {MessageOf(s) : s \in {t \in Slots : pending[t]}},
    renewing <- {req[p].msg : p \in {q \in Clients : at[q] = "update"}},
    max <- currentMaxTimers,
    Capacity <- MAX_TIMERS

(***************************************************************************)
(* With one write at a time the device is a table of different messages    *)
(* that grows only below the maximum.                                      *)
(***************************************************************************)
IsReminderTable == Table!Spec
=============================================================================

------------------------------ MODULE MyTimer ------------------------------
(***************************************************************************)
(* The timer device of lab 3, lab3/km/mytimer.c (lab3/lukehmcc_lab3 and    *)
(* HW4/km hold copies of it): two timer slots behind one character device. *)
(*                                                                         *)
(* The actions are the steps of its system calls.  Calls of different      *)
(* processes interleave at every access to a slot: the kernel preempts a   *)
(* process anywhere in the driver, and the driver takes no lock.  A timer  *)
(* that runs out is handled in one step, because no process moves while    *)
(* the kernel's timer thread does.  The module has no specification of its *)
(* own: KTimer says in which order processes make the calls.               *)
(***************************************************************************)
EXTENDS Integers, FiniteSets

CONSTANTS
    Clients,    \* processes, named by their process ids
    Messages,   \* the messages of the timers
    NoClient,   \* the pid of a slot that was never used
    NoMessage   \* its message

ASSUME NoClientAssumption  == NoClient \notin Clients
ASSUME NoMessageAssumption == NoMessage \notin Messages

VARIABLES
    pending,            \* timer_pending(&my_timer[i]->timer)
    msg,                \* my_timer[i]->msg
    pid,                \* my_timer[i]->pid
    queue,              \* the processes on my_timer[i]->async_queue
    currentMaxTimers,
    at,                 \* where each process is in a call; "user" outside
    req,                \* what it has asked for in its write
    i,                  \* its loop index
    currentActive,
    slot,               \* the slot it has found, or NoSlot
    ret                 \* what its last call returned

slots == <<pending, msg, pid, queue, currentMaxTimers>>
calls == <<at, req, i, currentActive, slot, ret>>
deviceVars == <<slots, calls>>

MAX_TIMERS == 2
Slots  == 0..(MAX_TIMERS - 1)
NoSlot == -1

Requests ==      [command : {"set"}, msg : Messages]
            \cup [command : {"remove"}]
            \cup [command : {"max"}, count : 0..3]

CallTypeOK ==
    /\ at \in [Clients -> {"user", "dup", "update", "count", "find", "room", "arm",
                           "copy", "pid", "remove", "max", "on", "join", "off", "leave"}]
    /\ req \in [Clients -> Requests]
    /\ i \in [Clients -> 0..MAX_TIMERS]
    /\ currentActive \in [Clients -> 0..MAX_TIMERS]
    /\ slot \in [Clients -> Slots \cup {NoSlot}]
    /\ ret \in [Clients -> {"ok", "EBUSY", "ENOSPC", "EINVAL", "EPERM"}]

SlotTypeOK ==
    /\ pending \in [Slots -> BOOLEAN]
    /\ msg \in [Slots -> Messages \cup {NoMessage}]
    /\ pid \in [Slots -> Clients \cup {NoClient}]
    /\ queue \in [Slots -> SUBSET Clients]
    /\ currentMaxTimers \in 1..MAX_TIMERS

\* The state mytimer_init leaves.
DeviceInit ==
    /\ pending = [s \in Slots |-> FALSE]
    /\ msg = [s \in Slots |-> NoMessage]
    /\ pid = [s \in Slots |-> NoClient]
    /\ queue = [s \in Slots |-> {}]
    /\ currentMaxTimers = 1
    /\ at = [p \in Clients |-> "user"]
    /\ req = [p \in Clients |-> [command |-> "remove"]]
    /\ i = [p \in Clients |-> 0]
    /\ currentActive = [p \in Clients |-> 0]
    /\ slot = [p \in Clients |-> NoSlot]
    /\ ret = [p \in Clients |-> "ok"]

-----------------------------------------------------------------------------
Goto(p, place) == at' = [at EXCEPT ![p] = place]

\* Back to the process; the call's locals die with it.
Return(p, code) ==
    /\ Goto(p, "user")
    /\ ret' = [ret EXCEPT ![p] = code]
    /\ i' = [i EXCEPT ![p] = 0]
    /\ currentActive' = [currentActive EXCEPT ![p] = 0]
    /\ slot' = [slot EXCEPT ![p] = NoSlot]

\* From one round of a loop to the next, or to the code after the loop.
NextRound(p, loop, after) ==
    IF i[p] + 1 < MAX_TIMERS
    THEN i' = [i EXCEPT ![p] = @ + 1] /\ Goto(p, loop)
    ELSE i' = [i EXCEPT ![p] = 0] /\ Goto(p, after)

-----------------------------------------------------------------------------
(* mytimer_write. *)

Write(p, r) ==
    /\ at[p] = "user"
    /\ req' = [req EXCEPT ![p] = r]
    /\ Goto(p, CASE r.command = "set" -> "dup" [] r.command = "remove" -> "remove"
                 [] r.command = "max" -> "max")
    /\ UNCHANGED <<slots, i, currentActive, slot, ret>>

\* The duplicate check looks at one slot after the other.
Dup(p) ==
    /\ at[p] = "dup"
    /\ IF pending[i[p]] /\ msg[i[p]] = req[p].msg
       THEN Goto(p, "update") /\ UNCHANGED i
       ELSE NextRound(p, "dup", "count")
    /\ UNCHANGED <<slots, req, currentActive, slot, ret>>

Update(p) ==
    /\ at[p] = "update"
    /\ pending' = [pending EXCEPT ![i[p]] = TRUE]
    /\ Return(p, "EBUSY")
    /\ UNCHANGED <<msg, pid, queue, currentMaxTimers, req>>

Count(p) ==
    /\ at[p] = "count"
    /\ currentActive' = [currentActive EXCEPT ![p] = IF pending[i[p]] THEN @ + 1 ELSE @]
    /\ NextRound(p, "count", "find")
    /\ UNCHANGED <<slots, req, slot, ret>>

Find(p) ==
    /\ at[p] = "find"
    /\ IF pending[i[p]]
       THEN NextRound(p, "find", "room") /\ UNCHANGED slot
       ELSE slot' = [slot EXCEPT ![p] = i[p]] /\ Goto(p, "room") /\ UNCHANGED i
    /\ UNCHANGED <<slots, req, currentActive, ret>>

\* Mutant: one timer too many is let in.
Room_OffByOne(p) ==
    /\ at[p] = "room"
    /\ IF currentActive[p] > currentMaxTimers \/ slot[p] = NoSlot
       THEN Return(p, "ENOSPC")
       ELSE Goto(p, "arm") /\ UNCHANGED <<i, currentActive, slot, ret>>
    /\ UNCHANGED <<slots, req>>

Room(p) ==
    /\ at[p] = "room"
    /\ IF currentActive[p] >= currentMaxTimers \/ slot[p] = NoSlot
       THEN Return(p, "ENOSPC")
       ELSE Goto(p, "arm") /\ UNCHANGED <<i, currentActive, slot, ret>>
    /\ UNCHANGED <<slots, req>>

\* The timer is armed before its message and its owner are known.
Arm(p) ==
    /\ at[p] = "arm"
    /\ pending' = [pending EXCEPT ![slot[p]] = TRUE]
    /\ Goto(p, "copy")
    /\ UNCHANGED <<msg, pid, queue, currentMaxTimers, req, i, currentActive, slot, ret>>

Copy(p) ==
    /\ at[p] = "copy"
    /\ msg' = [msg EXCEPT ![slot[p]] = req[p].msg]
    /\ Goto(p, "pid")
    /\ UNCHANGED <<pending, pid, queue, currentMaxTimers, req, i, currentActive, slot, ret>>

Pid(p) ==
    /\ at[p] = "pid"
    /\ pid' = [pid EXCEPT ![slot[p]] = p]
    /\ Return(p, "ok")
    /\ UNCHANGED <<pending, msg, queue, currentMaxTimers, req>>

Remove(p) ==
    /\ at[p] = "remove"
    /\ pending' = [pending EXCEPT ![i[p]] = FALSE]
    /\ IF i[p] + 1 < MAX_TIMERS
       THEN i' = [i EXCEPT ![p] = @ + 1] /\ UNCHANGED <<at, currentActive, slot, ret>>
       ELSE Return(p, "ok")
    /\ UNCHANGED <<msg, pid, queue, currentMaxTimers, req>>

\* Mutant: the range of the new maximum is not checked.
SetMax_Unchecked(p) ==
    /\ at[p] = "max"
    /\ currentMaxTimers' = req[p].count
    /\ Return(p, "ok")
    /\ UNCHANGED <<pending, msg, pid, queue, req>>

SetMax(p) ==
    /\ at[p] = "max"
    /\ IF req[p].count \in 1..MAX_TIMERS
       THEN currentMaxTimers' = req[p].count /\ Return(p, "ok")
       ELSE Return(p, "EINVAL") /\ UNCHANGED currentMaxTimers
    /\ UNCHANGED <<pending, msg, pid, queue, req>>

-----------------------------------------------------------------------------
(* mytimer_fasync, also called by mytimer_release. *)

\* F_SETFL with FASYNC ("on") and the release of the file ("off").
Fasync(p, mode) ==
    /\ at[p] = "user"
    /\ Goto(p, mode)
    /\ UNCHANGED <<slots, req, i, currentActive, slot, ret>>

\* find_by_pid: the first slot with the caller's pid.
FirstSlotOf(p) == CHOOSE s \in Slots : pid[s] = p /\ \A t \in Slots : pid[t] = p => s <= t

FindByPid(p) ==
    /\ at[p] \in {"on", "off"}
    /\ IF \E s \in Slots : pid[s] = p
       THEN /\ slot' = [slot EXCEPT ![p] = FirstSlotOf(p)]
            /\ Goto(p, IF at[p] = "on" THEN "join" ELSE "leave")
            /\ UNCHANGED <<i, currentActive, ret>>
       ELSE Return(p, "EPERM")
    /\ UNCHANGED <<slots, req>>

Join(p) ==
    /\ at[p] = "join"
    /\ queue' = [queue EXCEPT ![slot[p]] = @ \cup {p}]
    /\ Return(p, "ok")
    /\ UNCHANGED <<pending, msg, pid, currentMaxTimers, req>>

Leave(p) ==
    /\ at[p] = "leave"
    /\ queue' = [queue EXCEPT ![slot[p]] = @ \ {p}]
    /\ Return(p, "ok")
    /\ UNCHANGED <<pending, msg, pid, currentMaxTimers, req>>

CallStep(p) ==
    \/ Dup(p) \/ Update(p) \/ Count(p) \/ Find(p) \/ Room(p) \/ Arm(p) \/ Copy(p) \/ Pid(p)
    \/ Remove(p) \/ SetMax(p)
    \/ FindByPid(p) \/ Join(p) \/ Leave(p)

-----------------------------------------------------------------------------
\* A timer runs out: timer_handler sends SIGIO to everybody on its queue.
Expire(s) ==
    /\ pending[s]
    /\ pending' = [pending EXCEPT ![s] = FALSE]
    /\ UNCHANGED <<msg, pid, queue, currentMaxTimers, calls>>
=============================================================================

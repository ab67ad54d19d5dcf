----------------------------- MODULE MyTraffic -----------------------------
(***************************************************************************)
(* The traffic light driver, lab4/km/mytraffic.c, between the end of       *)
(* mytraffic_init and the start of mytraffic_exit.                         *)
(*                                                                         *)
(* Everything runs on the one processor of a BeagleBone Black under the    *)
(* preemptible real-time kernel the labs build for.  The interrupt         *)
(* handlers of the buttons run to their end against everything else.  The  *)
(* kernel's timer thread runs timer_handler, which only the buttons can    *)
(* interrupt: its steps are the points between which a button matters.     *)
(* User processes in mytraffic_write and mytraffic_read move only while    *)
(* the handler is not running, and interleave with each other, with the    *)
(* handler and with the buttons at every access to shared data.            *)
(***************************************************************************)
EXTENDS Integers, FiniteSets

CONSTANTS
    Writers,    \* processes that write to /dev/mytraffic
    Readers,    \* processes that read /dev/mytraffic
    Buttons,    \* the buttons that people press
    Values      \* what the writers write, as kstrtoint understands it

ASSUME ButtonsAssumption == Buttons \subseteq {"btn0", "btn1"}
ASSUME ValuesAssumption  == Values \subseteq {"0", "1", "other", "error"}

VARIABLES
    currentState,           \* the mode: 0 normal, 1 flashing red, 2 flashing yellow
    timerState,             \* my_timer->state
    armed,                  \* my_timer->timer is pending
    lights,                 \* lights[]: the lamps the driver believes lit
    pins,                   \* the lamps whose GPIO is driven high
    pedestrian_requested,
    pedestrian_phase_active,
    pedestrian_cycles,
    pc,                     \* where timer_handler is
    hmode,                  \* its copy of currentState while it runs
    hstate,                 \* its copy of my_timer->state while it runs
    wpc,                    \* where each writer is
    wmode,                  \* each writer's copy of currentState until it stores
    rpc,                    \* where each reader is
    report,                 \* the lamps each reader's buffer says are on
    \* history: it is never read by a guard of the code's actions
    shown,                  \* mode and state of the last pattern drawn
    asked,                  \* mode requests not shown by a clean tick yet:
                            \* "none", "new", "old" (before this tick) or "both"
    owed,                   \* a call was accepted that no walk has answered
    fresh                   \* readers that no tick has overtaken

signal  == <<currentState, timerState, armed>>
lamps   == <<lights, pins>>
ped     == <<pedestrian_requested, pedestrian_phase_active, pedestrian_cycles>>
handler == <<pc, hmode, hstate>>
writers == <<wpc, wmode>>
readers == <<rpc, report, fresh>>
history == <<shown, asked, owed>>
vars    == <<signal, lamps, ped, handler, writers, readers, history>>

Modes  == 0..2
States == -1..5
Lamps  == {"green", "yellow", "red"}

TypeOK ==
    /\ currentState \in Modes
    /\ timerState \in States
    /\ armed \in BOOLEAN
    /\ lights \in SUBSET Lamps
    /\ pins \in SUBSET Lamps
    /\ pedestrian_requested \in BOOLEAN
    /\ pedestrian_phase_active \in BOOLEAN
    /\ pedestrian_cycles \in 0..3
    /\ pc \in {"idle", "mode", "load", "grant", "store", "green", "yellow", "red", "rearm"}
    /\ hmode \in Modes
    /\ hstate \in States
    /\ wpc \in [Writers -> {"idle", "load", "store", "del", "mod", "return"}]
    /\ wmode \in [Writers -> Modes]
    /\ rpc \in [Readers -> {"idle", "green", "yellow", "red", "copy", "eof"}]
    /\ report \in [Readers -> SUBSET Lamps]
    /\ shown \in [mode : Modes, state : States]
    /\ asked \in {"none", "new", "old", "both"}
    /\ owed \in BOOLEAN
    /\ fresh \in SUBSET Readers

\* The state mytraffic_init leaves: the timer armed, nothing drawn yet.
Init ==
    /\ currentState = 0
    /\ timerState = -1
    /\ armed = TRUE
    /\ lights = {} /\ pins = {}
    /\ pedestrian_requested = FALSE
    /\ pedestrian_phase_active = FALSE
    /\ pedestrian_cycles = 0
    /\ pc = "idle" /\ hmode = 0 /\ hstate = -1
    /\ wpc = [w \in Writers |-> "idle"] /\ wmode = [w \in Writers |-> 0]
    /\ rpc = [r \in Readers |-> "idle"] /\ report = [r \in Readers |-> {}]
    /\ shown = [mode |-> 0, state |-> -1]
    /\ asked = "none"
    /\ owed = FALSE
    /\ fresh = {}

-----------------------------------------------------------------------------
(* The buttons.  Their handlers run at any point of everything else. *)

\* Mutant: the mode does not wrap around.
NextMode_NoWrap(m) == m + 1

NextMode(m) == (m + 1) % 3

\* A request that arrives now is still there for the next tick, and it
\* disturbs the tick that is under way.
NoteRequest == asked' = IF asked \in {"none", "new"} THEN "new" ELSE "both"

\* Mutant: a mode change also drops the walk phase.
Btn0_DropsWalk ==
    /\ "btn0" \in Buttons
    /\ currentState' = NextMode(currentState)
    /\ timerState' = -1
    /\ armed' = TRUE
    /\ pedestrian_phase_active' = FALSE
    /\ pedestrian_cycles' = 0
    /\ NoteRequest
    /\ UNCHANGED <<lamps, pedestrian_requested, handler, writers, readers, shown, owed>>

Btn0 ==
    /\ "btn0" \in Buttons
    /\ currentState' = NextMode(currentState)
    /\ timerState' = -1
    /\ armed' = TRUE
    /\ NoteRequest
    /\ UNCHANGED <<lamps, ped, handler, writers, readers, shown, owed>>

\* Mutant: the button starts the walk phase itself.
Btn1_StartsWalk ==
    /\ "btn1" \in Buttons
    /\ currentState = 0
    /\ pedestrian_phase_active' = TRUE
    /\ owed' = TRUE
    /\ UNCHANGED <<signal, lamps, pedestrian_requested, pedestrian_cycles,
                   handler, writers, readers, shown, asked>>

Btn1 ==
    /\ "btn1" \in Buttons
    /\ currentState = 0
    /\ pedestrian_requested' = TRUE
    /\ owed' = TRUE
    /\ UNCHANGED <<signal, lamps, pedestrian_phase_active, pedestrian_cycles,
                   handler, writers, readers, shown, asked>>

-----------------------------------------------------------------------------
(* timer_handler. *)

\* The pattern: which lamps a state lights in a mode.
Aspect(m, s, walk) ==
    CASE m = 0 /\ s \in 0..2       -> {"green"}
      [] m = 0 /\ s = 3            -> {"yellow"}
      [] m = 0 /\ s = 5 /\ walk    -> {"yellow", "red"}
      [] m = 0 /\ s = 5 /\ ~walk   -> {"red"}
      [] m = 0 /\ s = 4            -> {"red"}
      [] m = 1 /\ s = 0            -> {"red"}
      [] m = 2 /\ s = 0            -> {"yellow"}
      [] OTHER                     -> {}

Walking(s) == pedestrian_phase_active /\ s = 5

\* Mutant: the walk lasts a tick too long.
LastWalk_Late == pedestrian_cycles + 1 > 4

LastWalk   == pedestrian_cycles + 1 >= 4

\* Mutant: the normal pattern moves two states at a time.
NextState_Skips(m, s) ==
    IF m # 0      THEN (s + 1) % 2
    ELSE IF Walking(s) THEN IF LastWalk THEN 0 ELSE 5
    ELSE (s + 2) % 6

\* The state after s in mode m; the walk holds state 5 for its cycles.
NextState(m, s) ==
    IF m # 0      THEN (s + 1) % 2
    ELSE IF Walking(s) THEN IF LastWalk THEN 0 ELSE 5
    ELSE (s + 1) % 6

\* The timer has run out: it is no longer pending when its handler starts.
Expire ==
    /\ armed
    /\ pc = "idle"
    /\ armed' = FALSE
    /\ pc' = "mode"
    /\ UNCHANGED <<currentState, timerState, lamps, ped, hmode, hstate,
                   writers, readers, history>>

TickMode ==
    /\ pc = "mode"
    /\ hmode' = currentState
    /\ pc' = "load"
    /\ asked' = IF asked = "new" THEN "old" ELSE asked
    /\ UNCHANGED <<signal, lamps, ped, hstate, writers, readers, shown, owed>>

TickLoad ==
    /\ pc = "load"
    /\ hstate' = timerState
    /\ pc' = IF hmode = 0 /\ timerState = 3 /\ pedestrian_requested
             THEN "grant" ELSE "store"
    /\ UNCHANGED <<signal, lamps, ped, hmode, writers, readers, history>>

\* Mutant: the request is cleared but the walk phase is not started.
TickGrant_Forgets ==
    /\ pc = "grant"
    /\ pedestrian_requested' = FALSE
    /\ pedestrian_cycles' = 0
    /\ pc' = "store"
    /\ UNCHANGED <<signal, lamps, pedestrian_phase_active, hmode, hstate, writers, readers,
                   history>>

TickGrant ==
    /\ pc = "grant"
    /\ pedestrian_phase_active' = TRUE
    /\ pedestrian_requested' = FALSE
    /\ pedestrian_cycles' = 0
    /\ pc' = "store"
    /\ UNCHANGED <<signal, lamps, hmode, hstate, writers, readers, history>>

\* In mode 0 the state is read several times and the compiler may keep the
\* copy in a register or read the field again; in the flashing modes it is
\* read once.  No button handler looks at the walk variables or the lamps,
\* so they change together with the state.
StatesRead == IF hmode = 0 THEN {hstate, timerState} ELSE {hstate}

Advance(s) ==
    LET next == NextState(hmode, s)
        ends == hmode = 0 /\ Walking(s) /\ LastWalk
        walk == pedestrian_phase_active /\ ~ends
    IN /\ timerState' = next
       /\ pedestrian_phase_active' = walk
       /\ pedestrian_cycles' = IF hmode # 0 \/ ~Walking(s) THEN pedestrian_cycles
                               ELSE IF ends THEN 0 ELSE pedestrian_cycles + 1
       /\ lights' = Aspect(hmode, next, walk)
       /\ shown' = [mode |-> hmode, state |-> next]
       /\ owed' = IF hmode = 0 /\ next = 5 /\ walk /\ ~Walking(s)
                  THEN pedestrian_requested ELSE owed

TickStore ==
    /\ pc = "store"
    /\ \E s \in StatesRead : Advance(s)
    /\ asked' = CASE asked = "old" -> "none" [] asked = "both" -> "new" [] OTHER -> asked
    /\ fresh' = {}
    /\ pc' = "green"
    /\ UNCHANGED <<currentState, armed, pins, pedestrian_requested, hmode, hstate,
                   writers, rpc, report>>

\* gpio_set_value of one lamp.
Drive(lamp, at, next) ==
    /\ pc = at
    /\ pins' = IF lamp \in lights THEN pins \cup {lamp} ELSE pins \ {lamp}
    /\ pc' = next
    /\ UNCHANGED <<signal, lights, ped, hmode, hstate, writers, readers, history>>

\* Mutant: the red lamp is not driven.
TickYellow_SkipsRed == Drive("yellow", "yellow", "rearm")

TickGreen  == Drive("green", "green", "yellow")
TickYellow == Drive("yellow", "yellow", "red")
TickRed    == Drive("red", "red", "rearm")

\* Mutant: the handler does not arm the timer again.
TickRearm_Forgets ==
    /\ pc = "rearm"
    /\ pc' = "idle" /\ hmode' = 0 /\ hstate' = -1
    /\ UNCHANGED <<signal, lamps, ped, writers, readers, history>>

TickRearm ==
    /\ pc = "rearm"
    /\ armed' = TRUE
    /\ pc' = "idle" /\ hmode' = 0 /\ hstate' = -1
    /\ UNCHANGED <<currentState, timerState, lamps, ped, writers, readers, history>>

TickStep == \/ TickMode \/ TickLoad \/ TickGrant \/ TickStore
            \/ TickGreen \/ TickYellow \/ TickRed \/ TickRearm

-----------------------------------------------------------------------------
(* mytraffic_write: a process moves only while the handler does not run. *)

\* Only a "0" goes on to touch the driver's state.  "1" and other numbers
\* are accepted without effect; "error" is a failed copy or conversion.
WriteCall(w, v) ==
    /\ pc = "idle"
    /\ wpc[w] = "idle"
    /\ wpc' = [wpc EXCEPT ![w] = IF v = "0" THEN "load" ELSE "return"]
    /\ UNCHANGED <<signal, lamps, ped, handler, wmode, readers, history>>

WriteLoad(w) ==
    /\ pc = "idle"
    /\ wpc[w] = "load"
    /\ wmode' = [wmode EXCEPT ![w] = currentState]
    /\ wpc' = [wpc EXCEPT ![w] = "store"]
    /\ UNCHANGED <<signal, lamps, ped, handler, readers, history>>

WriteStore(w) ==
    /\ pc = "idle"
    /\ wpc[w] = "store"
    /\ currentState' = NextMode(wmode[w])
    /\ wmode' = [wmode EXCEPT ![w] = 0]
    /\ wpc' = [wpc EXCEPT ![w] = "del"]
    /\ NoteRequest
    /\ UNCHANGED <<timerState, armed, lamps, ped, handler, readers, shown, owed>>

\* Mutant: the write returns without arming the timer again.
WriteDel_Returns(w) ==
    /\ pc = "idle"
    /\ wpc[w] = "del"
    /\ armed' = FALSE
    /\ wpc' = [wpc EXCEPT ![w] = "return"]
    /\ UNCHANGED <<currentState, timerState, lamps, ped, handler, wmode, readers, history>>

WriteDel(w) ==
    /\ pc = "idle"
    /\ wpc[w] = "del"
    /\ armed' = FALSE
    /\ wpc' = [wpc EXCEPT ![w] = "mod"]
    /\ UNCHANGED <<currentState, timerState, lamps, ped, handler, wmode, readers, history>>

WriteMod(w) ==
    /\ pc = "idle"
    /\ wpc[w] = "mod"
    /\ armed' = TRUE
    /\ wpc' = [wpc EXCEPT ![w] = "return"]
    /\ UNCHANGED <<currentState, timerState, lamps, ped, handler, wmode, readers, history>>

WriteReturn(w) ==
    /\ pc = "idle"
    /\ wpc[w] = "return"
    /\ wpc' = [wpc EXCEPT ![w] = "idle"]
    /\ UNCHANGED <<signal, lamps, ped, handler, wmode, readers, history>>

WriteStep(w) == \/ WriteLoad(w) \/ WriteStore(w) \/ WriteDel(w) \/ WriteMod(w)
                \/ WriteReturn(w)

-----------------------------------------------------------------------------
(* mytraffic_read: the lamps are looked up one after the other. *)

ReadOpen(r) ==
    /\ pc = "idle"
    /\ rpc[r] = "idle"
    /\ rpc' = [rpc EXCEPT ![r] = "green"]
    /\ report' = [report EXCEPT ![r] = {}]
    /\ fresh' = fresh \cup {r}
    /\ UNCHANGED <<signal, lamps, ped, handler, writers, history>>

ReadLamp(r, lamp, next) ==
    /\ pc = "idle"
    /\ rpc[r] = lamp
    /\ report' = [report EXCEPT ![r] = @ \cup ({lamp} \cap lights)]
    /\ rpc' = [rpc EXCEPT ![r] = next]
    /\ UNCHANGED <<signal, lamps, ped, handler, writers, fresh, history>>

\* Mutant: the report leaves out the red lamp.
ReadYellow_SkipsRed(r) == ReadLamp(r, "yellow", "copy")

ReadGreen(r)  == ReadLamp(r, "green", "yellow")
ReadYellow(r) == ReadLamp(r, "yellow", "red")
ReadRed(r)    == ReadLamp(r, "red", "copy")

\* copy_to_user: the whole report or -EFAULT; then *offset ends the file.
ReadCopy(r) ==
    /\ pc = "idle"
    /\ rpc[r] = "copy"
    /\ rpc' = [rpc EXCEPT ![r] = "eof"]
    /\ report' = [report EXCEPT ![r] = {}]
    /\ UNCHANGED <<signal, lamps, ped, handler, writers, fresh, history>>

ReadEof(r) ==
    /\ pc = "idle"
    /\ rpc[r] = "eof"
    /\ rpc' = [rpc EXCEPT ![r] = "idle"]
    /\ UNCHANGED <<signal, lamps, ped, handler, writers, report, fresh, history>>

ReadStep(r) == ReadGreen(r) \/ ReadYellow(r) \/ ReadRed(r) \/ ReadCopy(r) \/ ReadEof(r)

-----------------------------------------------------------------------------
Next ==
    \/ Btn0 \/ Btn1
    \/ Expire \/ TickStep
    \/ \E w \in Writers : (\E v \in Values : WriteCall(w, v)) \/ WriteStep(w)
    \/ \E r \in Readers : ReadOpen(r) \/ ReadStep(r)

Spec == Init /\ [][Next]_vars

\* The handler runs to its end.  A process inside a write goes on whenever
\* the processor is left to it.  The timer runs out if it is pending again
\* and again: mode requests do not come less than 10 ms apart for ever.
Fairness ==
    /\ WF_vars(TickStep)
    /\ SF_vars(Expire)
    /\ \A w \in Writers : WF_vars(WriteStep(w))

FairSpec == Spec /\ Fairness

-----------------------------------------------------------------------------
(* Safety. *)

(***************************************************************************)
(* The timer is the driver's only motor: it is pending, or its handler is  *)
(* running and will arm it, or a write stands between del_timer and        *)
(* mod_timer.  No press and no overlap of writes loses it.                 *)
(***************************************************************************)
TimerNeverLost ==
    armed \/ pc # "idle" \/ \E w \in Writers : wpc[w] = "mod"

(***************************************************************************)
(* Outside the drawing steps the pins are what lights[] says, whatever     *)
(* interrupts the handler: a reader of the device sees the street.         *)
(***************************************************************************)
PinsFollowLights == pc \notin {"green", "yellow", "red"} => pins = lights

(***************************************************************************)
(* A state past the first two is one the handler has drawn in the normal   *)
(* mode and whose lamps are still lit, so that the pattern goes on from    *)
(* what the street sees, however often the mode has changed in between.    *)
(***************************************************************************)
PatternGoesOnFromLights ==
    timerState \in 2..5 => lights = Aspect(0, timerState, pedestrian_phase_active)

(***************************************************************************)
(* A call that btn1_isr has accepted is remembered, as a request or as a   *)
(* walk phase that is going to be shown, until a walk answers it: mode     *)
(* changes and resets of the pattern may delay it but never drop it.       *)
(***************************************************************************)
CallNotForgotten == owed => pedestrian_requested \/ pedestrian_phase_active

(***************************************************************************)
(* In the normal mode the signal turns red only out of yellow, and shows   *)
(* the walk only out of red, even when modes change during the handler.    *)
(***************************************************************************)
RedAfterYellow ==
    [][ (hmode = 0 /\ lights' # lights) =>
          /\ lights' = {"red"} => lights = {"yellow"}
          /\ lights' = {"yellow", "red"} => lights = {"red"} ]_vars

(***************************************************************************)
(* A report that no tick has overtaken names exactly the lamps that are    *)
(* on, whatever the buttons and other processes did during the read.       *)
(***************************************************************************)
UndisturbedReport ==
    \A r \in fresh : rpc[r] = "copy" => report[r] = lights

-----------------------------------------------------------------------------
(* The promise to the street. *)

\* The phase that the last drawn pattern shows, and for which tick of it.
Phase ==
    IF shown.state = -1 THEN "dark"
    ELSE CASE shown.mode = 1 -> "flashRed"
           [] shown.mode = 2 -> "flashYellow"
           [] shown.mode = 0 -> IF shown.state \in 0..2 THEN "green"
                                ELSE IF shown.state = 3 THEN "yellow"
                                ELSE IF lights = {"yellow", "red"} THEN "walk"
                                ELSE "red"

Count ==
    IF Phase \in {"flashRed", "flashYellow", "green"} THEN shown.state + 1
    ELSE IF Phase = "red" /\ shown.state = 5 THEN 2 ELSE 1

Left ==
    IF ~pedestrian_phase_active THEN 0
    ELSE IF Phase = "walk" THEN 3 - pedestrian_cycles ELSE 4 - pedestrian_cycles

Signal == INSTANCE TrafficSignal WITH
    phase <- Phase, count <- Count, left <- Left,
    calling <- pedestrian_requested, asked <- (asked # "none")

(***************************************************************************)
(* The driver with its interrupts, its writers and its split ticks keeps   *)
(* the promise of TrafficSignal.                                           *)
(***************************************************************************)
KeepsPromise == Signal!Spec

-----------------------------------------------------------------------------
(* Liveness, under FairSpec. *)

(***************************************************************************)
(* The lamps never freeze: the handler draws again and again.              *)
(***************************************************************************)
KeepsTicking == []<>(pc = "green")

(***************************************************************************)
(* A pedestrian's accepted call gets a walk, unless somebody changes the   *)
(* mode first.                                                             *)
(***************************************************************************)
CallAnswered ==
    pedestrian_requested ~> (lights = {"yellow", "red"} \/ currentState # 0)

-----------------------------------------------------------------------------
(* What a comment says of the driver. *)

(***************************************************************************)
(* "reset timer state when changing modes" (mytraffic.c, btn0_isr): the    *)
(* first pattern drawn in another mode is the mode's first one.            *)
(***************************************************************************)
ModeChangeRestartsPattern ==
    [][ (TickStore /\ hmode # shown.mode) => timerState' = 0 ]_vars
=============================================================================

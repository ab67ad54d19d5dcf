-------------------------- MODULE MyTrafficProofs --------------------------
(***************************************************************************)
(* Proofs about the traffic light driver for any number of writers and     *)
(* readers, any buttons and any values written.                            *)
(*                                                                         *)
(* The inductive invariant IInv says, beyond types, how far the handler's  *)
(* private copies can be trusted while a button may interrupt it, and that *)
(* the lamps are those of the last pattern drawn.                          *)
(***************************************************************************)
EXTENDS MyTraffic, TLAPS

InTick     == pc \in {"load", "grant", "store"}
Loaded     == pc \in {"grant", "store"}
Undisturbed == asked \in {"none", "old"}

\* The handler's copies are those of the last request but one, or fresh.
CopyInv ==
    /\ ~InTick => asked \in {"none", "new"}
    /\ asked = "none" => timerState = shown.state /\ currentState = shown.mode
    /\ InTick /\ Undisturbed => hmode = currentState
    /\ Loaded /\ Undisturbed => hstate = timerState
    /\ Loaded => timerState \in {hstate, -1}
    /\ Loaded /\ hstate \in 2..5 => shown = [mode |-> 0, state |-> hstate]
    /\ pc = "grant" => hmode = 0 /\ hstate = 3 /\ pedestrian_requested

ShownInv ==
    /\ timerState \in 2..5 => shown = [mode |-> 0, state |-> timerState]
    /\ shown.mode # 0 => shown.state \in 0..1
    /\ lights = Aspect(shown.mode, shown.state, pedestrian_phase_active)

WalkInv ==
    /\ ~pedestrian_phase_active => pedestrian_cycles = 0
    /\ CallNotForgotten
    /\ owed /\ pedestrian_phase_active /\ shown = [mode |-> 0, state |-> 5]
         => pedestrian_requested

IInv == TypeOK /\ CopyInv /\ ShownInv /\ WalkInv

-----------------------------------------------------------------------------
(* Types. *)

LEMMA InitType == Init => TypeOK
<1> SUFFICES ASSUME Init PROVE TypeOK
  OBVIOUS
<1>1. 0 \in Modes /\ -1 \in States /\ {} \in SUBSET Lamps /\ 0 \in 0..3
  BY DEF Modes, States
<1>2. wmode \in [Writers -> Modes] /\ report \in [Readers -> SUBSET Lamps]
  BY <1>1 DEF Init
<1>3. shown \in [mode : Modes, state : States]
  BY <1>1 DEF Init
<1> QED
  BY <1>1, <1>2, <1>3 DEF Init, TypeOK

\* A pattern goes on to one of its states.
LEMMA NextStateType ==
    ASSUME NEW m \in Modes, NEW s \in States
    PROVE  /\ NextState(m, s) \in 0..5
           /\ m # 0 => NextState(m, s) \in 0..1
BY DEF NextState, Modes, States

LEMMA AspectType ==
    ASSUME NEW m, NEW s, NEW walk
    PROVE  Aspect(m, s, walk) \in SUBSET Lamps
BY DEF Aspect, Lamps

LEMMA NextType == TypeOK /\ [Next]_vars => TypeOK'
<1> SUFFICES ASSUME TypeOK, [Next]_vars PROVE TypeOK'
  OBVIOUS
<1> USE DEF TypeOK, signal, lamps, ped, handler, writers, readers, history
<1>1. CASE Btn0
  BY <1>1 DEF Btn0, NextMode, NoteRequest, Modes, States
<1>2. CASE Btn1
  BY <1>2 DEF Btn1
<1>3. CASE Expire
  BY <1>3 DEF Expire
<1>4. CASE TickMode
  BY <1>4 DEF TickMode
<1>5. CASE TickLoad
  BY <1>5 DEF TickLoad
<1>6. CASE TickGrant
  <2>1. pedestrian_cycles' \in 0..3 /\ pedestrian_phase_active' \in BOOLEAN
    BY <1>6 DEF TickGrant
  <2> QED
    BY <1>6, <2>1 DEF TickGrant
<1>7. CASE TickStore
  <2>1. PICK s \in StatesRead : Advance(s)
    BY <1>7 DEF TickStore
  <2>2. s \in States
    BY DEF StatesRead
  <2>3. NextState(hmode, s) \in 0..5
    BY <2>2, NextStateType
  <2>4. lights' \in SUBSET Lamps
    BY <2>1, AspectType DEF Advance
  <2>5. pedestrian_cycles' \in 0..3
    BY <2>1 DEF Advance, LastWalk
  <2>6. pedestrian_phase_active' \in BOOLEAN
    BY <2>1 DEF Advance, Walking, LastWalk
  <2>7. timerState' \in States /\ shown' \in [mode : Modes, state : States]
    BY <2>1, <2>3 DEF Advance, States
  <2>8. owed' \in BOOLEAN
    BY <2>1 DEF Advance
  <2> QED
    BY <1>7, <2>4, <2>5, <2>6, <2>7, <2>8 DEF TickStore
<1>8. CASE TickGreen \/ TickYellow \/ TickRed
  BY <1>8 DEF TickGreen, TickYellow, TickRed, Drive, Lamps
<1>9. CASE TickRearm
  BY <1>9 DEF TickRearm, Modes, States
<1>10. ASSUME NEW w \in Writers, NEW v \in Values, WriteCall(w, v) PROVE TypeOK'
  BY <1>10 DEF WriteCall
<1>11. ASSUME NEW w \in Writers, WriteStep(w) PROVE TypeOK'
  <2>1. CASE WriteLoad(w)
    BY <2>1 DEF WriteLoad
  <2>2. CASE WriteStore(w)
    <3>1. currentState' \in Modes /\ wmode' \in [Writers -> Modes]
      BY <2>2 DEF WriteStore, NextMode, Modes
    <3> QED
      BY <2>2, <3>1 DEF WriteStore, NoteRequest
  <2>3. CASE WriteDel(w) \/ WriteMod(w) \/ WriteReturn(w)
    BY <2>3 DEF WriteDel, WriteMod, WriteReturn
  <2> QED
    BY <1>11, <2>1, <2>2, <2>3 DEF WriteStep
<1>12. ASSUME NEW r \in Readers, ReadOpen(r) PROVE TypeOK'
  BY <1>12 DEF ReadOpen
<1>13. ASSUME NEW r \in Readers, ReadStep(r) PROVE TypeOK'
  <2>1. CASE ReadGreen(r) \/ ReadYellow(r) \/ ReadRed(r)
    <3>1. rpc' \in [Readers -> {"idle", "green", "yellow", "red", "copy", "eof"}]
      BY <2>1 DEF ReadGreen, ReadYellow, ReadRed, ReadLamp
    <3>2. report' \in [Readers -> SUBSET Lamps]
      BY <2>1 DEF ReadGreen, ReadYellow, ReadRed, ReadLamp, Lamps
    <3> QED
      BY <2>1, <3>1, <3>2 DEF ReadGreen, ReadYellow, ReadRed, ReadLamp
  <2>2. CASE ReadCopy(r) \/ ReadEof(r)
    BY <2>2 DEF ReadCopy, ReadEof
  <2> QED
    BY <1>13, <2>1, <2>2 DEF ReadStep
<1>14. CASE UNCHANGED vars
  BY <1>14 DEF vars
<1> QED
  BY <1>1, <1>2, <1>3, <1>4, <1>5, <1>6, <1>7, <1>8, <1>9, <1>10, <1>11, <1>12,
     <1>13, <1>14 DEF Next, TickStep

(***************************************************************************)
(* The driver's variables keep their types.                                *)
(***************************************************************************)
THEOREM TypeCorrect == Spec => []TypeOK
BY InitType, NextType, PTL DEF Spec

-----------------------------------------------------------------------------
(* The invariant. *)

\* Steps that IInv does not look at.
Elsewhere ==
    /\ UNCHANGED <<currentState, timerState, lights, ped, hmode, hstate, history>>
    /\ \/ UNCHANGED pc
       \/ ~InTick /\ ~InTick'

LEMMA ElsewhereSteps ==
    ASSUME TypeOK, [Next]_vars
    PROVE  \/ Btn0 \/ Btn1 \/ TickMode \/ TickLoad \/ TickGrant \/ TickStore \/ TickRearm
           \/ (\E w \in Writers : WriteStore(w))
           \/ Elsewhere
<1> USE DEF Elsewhere, InTick, signal, lamps, ped, handler, writers, readers, history
<1>1. CASE Expire \/ TickGreen \/ TickYellow \/ TickRed
  BY <1>1 DEF Expire, TickGreen, TickYellow, TickRed, Drive
<1>2. ASSUME NEW w \in Writers, NEW v \in Values, WriteCall(w, v) PROVE Elsewhere
  BY <1>2 DEF WriteCall
<1>3. ASSUME NEW w \in Writers, WriteStep(w) PROVE WriteStore(w) \/ Elsewhere
  BY <1>3 DEF WriteStep, WriteLoad, WriteDel, WriteMod, WriteReturn
<1>4. ASSUME NEW r \in Readers, ReadOpen(r) \/ ReadStep(r) PROVE Elsewhere
  BY <1>4 DEF ReadOpen, ReadStep, ReadGreen, ReadYellow, ReadRed, ReadLamp, ReadCopy, ReadEof
<1>5. CASE UNCHANGED vars
  BY <1>5 DEF vars
<1> QED
  BY <1>1, <1>2, <1>3, <1>4, <1>5 DEF Next, TickStep

LEMMA NextCopy == TypeOK /\ CopyInv /\ ShownInv /\ [Next]_vars => CopyInv'
<1> SUFFICES ASSUME TypeOK, CopyInv, ShownInv, [Next]_vars PROVE CopyInv'
  OBVIOUS
<1> USE DEF CopyInv, InTick, Loaded, Undisturbed, signal, lamps, ped, handler,
            writers, readers, history
<1>1. CASE Btn0
  BY <1>1 DEF Btn0, NoteRequest, TypeOK
<1>2. CASE Btn1
  BY <1>2 DEF Btn1
<1>3. CASE TickMode
  BY <1>3 DEF TickMode
<1>4. CASE TickLoad
  BY <1>4 DEF TickLoad, TypeOK, ShownInv
<1>5. CASE TickGrant
  BY <1>5 DEF TickGrant
<1>6. CASE TickStore
  BY <1>6 DEF TickStore, Advance, TypeOK
<1>7. CASE TickRearm
  BY <1>7 DEF TickRearm
<1>8. ASSUME NEW w \in Writers, WriteStore(w) PROVE CopyInv'
  BY <1>8 DEF WriteStore, NoteRequest, TypeOK
<1>9. CASE Elsewhere
  BY <1>9 DEF Elsewhere
<1> QED
  BY <1>1, <1>2, <1>3, <1>4, <1>5, <1>6, <1>7, <1>8, <1>9, ElsewhereSteps

LEMMA NextShown == TypeOK /\ CopyInv /\ ShownInv /\ [Next]_vars => ShownInv'
<1> SUFFICES ASSUME TypeOK, CopyInv, ShownInv, [Next]_vars PROVE ShownInv'
  OBVIOUS
<1> USE DEF ShownInv, signal, lamps, ped, handler, writers, readers, history
<1>1. CASE Btn0 \/ Btn1 \/ TickMode \/ TickLoad \/ TickRearm
  BY <1>1 DEF Btn0, Btn1, TickMode, TickLoad, TickRearm
<1>2. CASE TickGrant
  \* The walk is granted while state 3 is shown, whose lamps it leaves alone.
  <2>1. shown = [mode |-> 0, state |-> 3]
    BY <1>2 DEF TickGrant, CopyInv, Loaded
  <2>2. shown' = shown /\ lights' = lights /\ timerState' = timerState
    BY <1>2 DEF TickGrant
  <2>3. \A walk : Aspect(0, 3, walk) = {"yellow"}
    BY DEF Aspect
  <2>4. lights' = Aspect(shown'.mode, shown'.state, pedestrian_phase_active')
    BY <2>1, <2>2, <2>3
  <2> QED
    BY <2>1, <2>2, <2>4
<1>3. CASE TickStore
  <2>1. PICK s \in StatesRead : Advance(s)
    BY <1>3 DEF TickStore
  <2>2. s \in States
    BY DEF StatesRead, TypeOK
  <2>3. NextState(hmode, s) \in 0..5 /\ (hmode # 0 => NextState(hmode, s) \in 0..1)
    BY <2>2, NextStateType DEF TypeOK
  <2>4. /\ timerState' = NextState(hmode, s)
        /\ shown' = [mode |-> hmode, state |-> NextState(hmode, s)]
        /\ lights' = Aspect(hmode, NextState(hmode, s), pedestrian_phase_active')
    BY <2>1 DEF Advance
  <2> QED
    BY <2>3, <2>4
<1>4. ASSUME NEW w \in Writers, WriteStore(w) PROVE ShownInv'
  BY <1>4 DEF WriteStore
<1>5. CASE Elsewhere
  BY <1>5 DEF Elsewhere
<1> QED
  BY <1>1, <1>2, <1>3, <1>4, <1>5, ElsewhereSteps

LEMMA NextWalk == TypeOK /\ CopyInv /\ ShownInv /\ WalkInv /\ [Next]_vars => WalkInv'
<1> SUFFICES ASSUME TypeOK, CopyInv, ShownInv, WalkInv, [Next]_vars PROVE WalkInv'
  OBVIOUS
<1> USE DEF WalkInv, CallNotForgotten, signal, lamps, ped, handler, writers, readers, history
<1>1. CASE Btn0 \/ Btn1 \/ TickMode \/ TickLoad \/ TickRearm
  BY <1>1 DEF Btn0, Btn1, TickMode, TickLoad, TickRearm
<1>2. CASE TickGrant
  \* The request is taken when the walk is granted, long before it is shown.
  <2>1. shown' = [mode |-> 0, state |-> 3]
    BY <1>2 DEF TickGrant, CopyInv, Loaded
  <2> QED
    BY <1>2, <2>1 DEF TickGrant
<1>3. CASE TickStore
  <2>1. PICK s \in StatesRead : Advance(s)
    BY <1>3 DEF TickStore
  <2>2. Walking(s) /\ hmode = 0 => shown = [mode |-> 0, state |-> 5]
    BY <1>3 DEF TickStore, StatesRead, Walking, CopyInv, Loaded, ShownInv
  <2>3. pedestrian_requested' = pedestrian_requested
    BY <1>3 DEF TickStore
  <2>4. CASE hmode = 0 /\ Walking(s)
    BY <2>1, <2>2, <2>3, <2>4 DEF Advance, Walking, LastWalk
  <2>5. CASE ~(hmode = 0 /\ Walking(s))
    <3>1. pedestrian_phase_active' = pedestrian_phase_active
          /\ pedestrian_cycles' = pedestrian_cycles
      BY <2>1, <2>5 DEF Advance, TypeOK
    <3>2. CASE hmode = 0 /\ NextState(hmode, s) = 5 /\ pedestrian_phase_active
      BY <2>1, <2>3, <2>5, <3>1, <3>2 DEF Advance
    <3>3. CASE ~(hmode = 0 /\ NextState(hmode, s) = 5 /\ pedestrian_phase_active)
      <4>1. owed' = owed
        BY <2>1, <3>1, <3>3 DEF Advance
      <4>2. ~(pedestrian_phase_active' /\ shown' = [mode |-> 0, state |-> 5])
        BY <2>1, <3>1, <3>3 DEF Advance
      <4> QED
        BY <2>3, <3>1, <4>1, <4>2
    <3> QED
      BY <3>2, <3>3
  <2> QED
    BY <2>4, <2>5
<1>4. ASSUME NEW w \in Writers, WriteStore(w) PROVE WalkInv'
  BY <1>4 DEF WriteStore
<1>5. CASE Elsewhere
  BY <1>5 DEF Elsewhere
<1> QED
  BY <1>1, <1>2, <1>3, <1>4, <1>5, ElsewhereSteps

LEMMA InitIInv == Init => IInv
BY InitType DEF Init, IInv, CopyInv, InTick, Loaded, Undisturbed, ShownInv, WalkInv,
   CallNotForgotten, Aspect

THEOREM Invariance == Spec => []IInv
<1>1. IInv /\ [Next]_vars => IInv'
  BY NextType, NextCopy, NextShown, NextWalk DEF IInv
<1> QED
  BY InitIInv, <1>1, PTL DEF Spec

(***************************************************************************)
(* A call that btn1_isr has accepted is never dropped before a walk has    *)
(* answered it.                                                            *)
(***************************************************************************)
THEOREM CallsAreKept == Spec => []CallNotForgotten
<1>1. IInv => CallNotForgotten
  BY DEF IInv, WalkInv
<1> QED
  BY Invariance, <1>1, PTL

(***************************************************************************)
(* The pattern goes on from the lamps the street sees.                     *)
(***************************************************************************)
THEOREM PatternContinues == Spec => []PatternGoesOnFromLights
<1>1. IInv => PatternGoesOnFromLights
  BY DEF IInv, ShownInv, PatternGoesOnFromLights
<1> QED
  BY Invariance, <1>1, PTL

(***************************************************************************)
(* The timer that drives the lamps is never lost.                          *)
(***************************************************************************)
THEOREM MotorRuns == Spec => []TimerNeverLost
<1> USE DEF TimerNeverLost, signal, lamps, ped, handler, writers, readers, history
<1>1. Init => TimerNeverLost
  BY DEF Init
<1>2. TypeOK /\ TimerNeverLost /\ [Next]_vars => TimerNeverLost'
  <2> SUFFICES ASSUME TypeOK, TimerNeverLost, [Next]_vars PROVE TimerNeverLost'
    OBVIOUS
  <2>1. CASE Btn0 \/ Btn1 \/ Expire
    BY <2>1 DEF Btn0, Btn1, Expire
  <2>2. CASE TickStep
    BY <2>2 DEF TickStep, TickMode, TickLoad, TickGrant, TickStore, TickGreen, TickYellow,
                TickRed, Drive, TickRearm
  <2>3. ASSUME NEW w \in Writers, NEW v \in Values, WriteCall(w, v) PROVE TimerNeverLost'
    BY <2>3 DEF WriteCall, TypeOK
  <2>4. ASSUME NEW w \in Writers, WriteStep(w) PROVE TimerNeverLost'
    BY <2>4 DEF WriteStep, WriteLoad, WriteStore, WriteDel, WriteMod, WriteReturn, TypeOK
  <2>5. ASSUME NEW r \in Readers, ReadOpen(r) \/ ReadStep(r) PROVE TimerNeverLost'
    BY <2>5 DEF ReadOpen, ReadStep, ReadGreen, ReadYellow, ReadRed, ReadLamp, ReadCopy, ReadEof
  <2>6. CASE UNCHANGED vars
    BY <2>6 DEF vars
  <2> QED
    BY <2>1, <2>2, <2>3, <2>4, <2>5, <2>6 DEF Next
<1> QED
  BY <1>1, <1>2, TypeCorrect, PTL DEF Spec

(***************************************************************************)
(* The pins are what lights[] says whenever the handler is not drawing.    *)
(***************************************************************************)
THEOREM StreetIsLit == Spec => []PinsFollowLights
<1> DEFINE Agree(lamp) == lamp \in pins <=> lamp \in lights
           \* The lamps driven since lights[] was written.
           Drawn == /\ PinsFollowLights
                    /\ pc \in {"yellow", "red"} => Agree("green")
                    /\ pc = "red" => Agree("yellow")
<1>1. Init => Drawn
  BY DEF Init, PinsFollowLights
<1>2. TypeOK /\ Drawn /\ [Next]_vars => Drawn'
  <2> SUFFICES ASSUME TypeOK, Drawn, [Next]_vars PROVE Drawn'
    OBVIOUS
  <2> USE DEF PinsFollowLights, signal, lamps, ped, handler, writers, readers, history
  <2>1. CASE Btn0 \/ Btn1 \/ Expire
    BY <2>1 DEF Btn0, Btn1, Expire
  <2>2. CASE TickMode \/ TickLoad \/ TickGrant \/ TickRearm
    BY <2>2 DEF TickMode, TickLoad, TickGrant, TickRearm
  <2>3. CASE TickStore
    BY <2>3 DEF TickStore
  <2>4. CASE TickGreen
    BY <2>4 DEF TickGreen, Drive
  <2>5. CASE TickYellow
    BY <2>5 DEF TickYellow, Drive
  <2>6. CASE TickRed
    <3>1. lights' = lights /\ pc' = "rearm" /\ pins' \in SUBSET Lamps /\ lights \in SUBSET Lamps
      BY <2>6 DEF TickRed, Drive, TypeOK, Lamps
    <3>2. \A lamp \in Lamps : lamp \in pins' <=> lamp \in lights
      BY <2>6 DEF TickRed, Drive, Lamps
    <3> QED
      BY <3>1, <3>2
  <2>7. ASSUME NEW w \in Writers, (\E v \in Values : WriteCall(w, v)) \/ WriteStep(w)
        PROVE  UNCHANGED <<pc, pins, lights>>
    BY <2>7 DEF WriteCall, WriteStep, WriteLoad, WriteStore, WriteDel, WriteMod, WriteReturn
  <2>8. ASSUME NEW r \in Readers, ReadOpen(r) \/ ReadStep(r)
        PROVE  UNCHANGED <<pc, pins, lights>>
    BY <2>8 DEF ReadOpen, ReadStep, ReadGreen, ReadYellow, ReadRed, ReadLamp, ReadCopy, ReadEof
  <2>9. CASE UNCHANGED vars
    BY <2>9 DEF vars
  <2> QED
    BY <2>1, <2>2, <2>3, <2>4, <2>5, <2>6, <2>7, <2>8, <2>9 DEF Next, TickStep
<1>3. Drawn => PinsFollowLights
  OBVIOUS
<1> QED
  BY <1>1, <1>2, <1>3, TypeCorrect, PTL DEF Spec

(***************************************************************************)
(* A report that no tick has overtaken names exactly the lamps that are    *)
(* on.                                                                     *)
(***************************************************************************)
THEOREM ReportsAreTrue == Spec => []UndisturbedReport
<1> DEFINE Seen(r) == /\ rpc[r] = "green" => report[r] = {}
                      /\ rpc[r] = "yellow" => report[r] = lights \cap {"green"}
                      /\ rpc[r] = "red" => report[r] = lights \cap {"green", "yellow"}
                      /\ rpc[r] = "copy" => report[r] = lights
           SeenInv == \A r \in fresh : Seen(r)
<1>1. Init => SeenInv
  BY DEF Init
<1>2. TypeOK /\ SeenInv /\ [Next]_vars => SeenInv'
  <2> SUFFICES ASSUME TypeOK, SeenInv, [Next]_vars PROVE SeenInv'
    OBVIOUS
  <2> USE DEF signal, lamps, ped, handler, writers, readers, history
  <2>1. CASE Btn0 \/ Btn1 \/ Expire \/ (TickStep /\ ~TickStore)
    <3>1. UNCHANGED <<fresh, rpc, report, lights>>
      BY <2>1 DEF Btn0, Btn1, Expire, TickStep, TickMode, TickLoad, TickGrant, TickGreen,
                  TickYellow, TickRed, Drive, TickRearm
    <3> QED
      BY <3>1
  <2>2. CASE TickStore
    BY <2>2 DEF TickStore
  <2>3. ASSUME NEW w \in Writers, (\E v \in Values : WriteCall(w, v)) \/ WriteStep(w)
        PROVE  UNCHANGED <<fresh, rpc, report, lights>>
    BY <2>3 DEF WriteCall, WriteStep, WriteLoad, WriteStore, WriteDel, WriteMod, WriteReturn
  <2>4. ASSUME NEW r \in Readers, ReadOpen(r) \/ ReadStep(r)
        PROVE  SeenInv'
    <3>1. /\ lights' = lights /\ fresh' \subseteq fresh \cup {r}
          /\ \A q \in Readers : q # r => rpc'[q] = rpc[q] /\ report'[q] = report[q]
      BY <2>4 DEF ReadOpen, ReadStep, ReadGreen, ReadYellow, ReadRed, ReadLamp, ReadCopy, ReadEof,
                  TypeOK
    <3>2. \A q \in fresh' : q # r => Seen(q)'
      BY <3>1 DEF TypeOK
    <3>3. lights \subseteq Lamps
      BY DEF TypeOK
    <3>4. r \in fresh' => Seen(r)'
      <4>1. CASE ReadOpen(r)
        BY <4>1 DEF ReadOpen, TypeOK
      <4>2. CASE ReadGreen(r)
        BY <4>2 DEF ReadGreen, ReadLamp, TypeOK
      <4>3. CASE ReadYellow(r)
        BY <4>3 DEF ReadYellow, ReadLamp, TypeOK
      <4>4. CASE ReadRed(r)
        BY <3>3, <4>4 DEF ReadRed, ReadLamp, TypeOK, Lamps
      <4>5. CASE ReadCopy(r) \/ ReadEof(r)
        BY <4>5 DEF ReadCopy, ReadEof, TypeOK
      <4> QED
        BY <2>4, <4>1, <4>2, <4>3, <4>4, <4>5 DEF ReadStep
    <3> QED
      BY <3>2, <3>4
  <2>5. CASE UNCHANGED vars
    BY <2>5 DEF vars
  <2> QED
    BY <2>1, <2>2, <2>3, <2>4, <2>5 DEF Next
<1>3. SeenInv => UndisturbedReport
  BY DEF UndisturbedReport
<1> QED
  BY <1>1, <1>2, <1>3, TypeCorrect, PTL DEF Spec

(***************************************************************************)
(* Red comes only after yellow, and the walk only after red.               *)
(***************************************************************************)
THEOREM YellowFirst == Spec => RedAfterYellow
<1> DEFINE Turn == (hmode = 0 /\ lights' # lights) =>
                     /\ lights' = {"red"} => lights = {"yellow"}
                     /\ lights' = {"yellow", "red"} => lights = {"red"}
<1>1. IInv /\ [Next]_vars => [Turn]_vars
  <2> SUFFICES ASSUME IInv, [Next]_vars, hmode = 0, lights' # lights PROVE Turn
    OBVIOUS
  <2>1. PICK s \in StatesRead : Advance(s) /\ pc = "store"
    <3>1. ~Elsewhere
      BY DEF Elsewhere
    <3> QED
      BY <3>1, ElsewhereSteps
      DEF IInv, Btn0, Btn1, TickMode, TickLoad, TickGrant, TickRearm, WriteStore, TickStore, lamps
  <2>2. s \in States /\ (s \in 2..5 => shown = [mode |-> 0, state |-> s])
    BY <2>1 DEF StatesRead, IInv, TypeOK, CopyInv, Loaded, ShownInv
  <2>3. lights' = Aspect(0, NextState(0, s), pedestrian_phase_active')
    BY <2>1 DEF Advance
  <2>4. s \in 2..5 => lights = Aspect(0, s, pedestrian_phase_active)
    BY <2>2 DEF IInv, ShownInv
  <2>5. CASE s \in -1..2
    BY <2>3, <2>5 DEF NextState, Walking, Aspect
  <2>6. CASE s = 3
    BY <2>3, <2>4, <2>6 DEF NextState, Walking, Aspect
  <2>7. CASE s = 4
    BY <2>3, <2>4, <2>7 DEF NextState, Walking, Aspect
  <2>8. CASE s = 5
    <3>1. CASE Walking(s) /\ ~LastWalk
      <4>1. pedestrian_phase_active /\ pedestrian_phase_active'
        BY <2>1, <3>1 DEF Advance, Walking
      <4>2. lights' = {"yellow", "red"}
        BY <2>3, <2>8, <3>1, <4>1 DEF NextState, Walking, Aspect
      <4>3. lights = {"yellow", "red"}
        BY <2>4, <2>8, <4>1 DEF Aspect
      <4> QED
        BY <4>2, <4>3
    <3>2. CASE ~(Walking(s) /\ ~LastWalk)
      BY <2>3, <2>8, <3>2 DEF NextState, Walking, Aspect
    <3> QED
      BY <3>1, <3>2
  <2> QED
    BY <2>2, <2>5, <2>6, <2>7, <2>8 DEF States
<1> QED
  BY <1>1, Invariance, PTL DEF Spec, RedAfterYellow

-----------------------------------------------------------------------------
(* The refinement of TrafficSignal. *)

LEMMA InitSignal == Init => Signal!Init
BY DEF Init, Signal!Init, Phase, Count, Left

\* Steps that draw nothing and grant nothing do not change what is shown.
LEMMA SameView ==
    ASSUME UNCHANGED <<shown, lights, pedestrian_phase_active, pedestrian_cycles>>
    PROVE  Phase' = Phase /\ Count' = Count /\ Left' = Left
BY DEF Phase, Count, Left

\* What the street sees, case by case of the last pattern drawn.
View ==
    /\ shown.state = -1 => Phase = "dark"
    /\ shown.state \in 0..1 /\ shown.mode = 1 => Phase = "flashRed"
    /\ shown.state \in 0..1 /\ shown.mode = 2 => Phase = "flashYellow"
    /\ shown.mode = 0 /\ shown.state \in 0..2 => Phase = "green"
    /\ shown.mode = 0 /\ shown.state = 3 => Phase = "yellow"
    /\ shown.mode = 0 /\ shown.state = 4 => Phase = "red" /\ Count = 1
    /\ shown.mode = 0 /\ shown.state = 5 /\ pedestrian_phase_active => Phase = "walk"
    /\ shown.mode = 0 /\ shown.state = 5 /\ ~pedestrian_phase_active
         => Phase = "red" /\ Count = 2
    /\ Phase \in {"green", "flashRed", "flashYellow"} => Count = shown.state + 1
    /\ Phase \in {"yellow", "walk"} => Count = 1
    /\ Phase = "walk" => pedestrian_phase_active
    /\ Left = IF ~pedestrian_phase_active THEN 0
              ELSE IF Phase = "walk" THEN 3 - pedestrian_cycles ELSE 4 - pedestrian_cycles

LEMMA ViewIs == IInv => View
<1> SUFFICES ASSUME IInv PROVE View
  OBVIOUS
<1>1. lights = Aspect(shown.mode, shown.state, pedestrian_phase_active)
  BY DEF IInv, ShownInv
<1>2. shown.mode = 0 /\ shown.state = 4 => lights = {"red"}
  BY <1>1 DEF Aspect
<1>3. shown.mode = 0 /\ shown.state = 5 /\ pedestrian_phase_active => lights = {"yellow", "red"}
  BY <1>1 DEF Aspect
<1>4. shown.mode = 0 /\ shown.state = 5 /\ ~pedestrian_phase_active => lights = {"red"}
  BY <1>1 DEF Aspect
<1>5. {"red"} # {"yellow", "red"}
  OBVIOUS
<1>6. shown.mode = 0 /\ shown.state = 4 => Phase = "red" /\ Count = 1
  BY <1>2, <1>5 DEF Phase, Count
<1>7. shown.mode = 0 /\ shown.state = 5 =>
        IF pedestrian_phase_active THEN Phase = "walk" ELSE Phase = "red" /\ Count = 2
  BY <1>3, <1>4, <1>5 DEF Phase, Count
<1>8. /\ shown.state = -1 => Phase = "dark"
      /\ shown.state \in 0..1 /\ shown.mode = 1 => Phase = "flashRed"
      /\ shown.state \in 0..1 /\ shown.mode = 2 => Phase = "flashYellow"
      /\ shown.mode = 0 /\ shown.state \in 0..2 => Phase = "green"
      /\ shown.mode = 0 /\ shown.state = 3 => Phase = "yellow"
  BY DEF Phase
<1>9. /\ Phase \in {"green", "flashRed", "flashYellow"} => Count = shown.state + 1
      /\ Phase \in {"yellow", "walk"} => Count = 1
  BY DEF Count
<1>10. Phase = "walk" => pedestrian_phase_active
  <2>1. Phase = "walk" => shown.mode = 0 /\ shown.state \in 4..5
    BY DEF Phase, IInv, TypeOK, Modes, States
  <2> QED
    BY <2>1, <1>6, <1>7
<1> QED
  BY <1>6, <1>7, <1>8, <1>9, <1>10 DEF View, Left

LEMMA ViewNext == IInv' => View'
BY ViewIs, PTL

LEMMA NextSignal == IInv /\ IInv' /\ [Next]_vars => [Signal!Next]_(Signal!vars)
<1> SUFFICES ASSUME IInv, IInv', [Next]_vars PROVE [Signal!Next]_(Signal!vars)
  OBVIOUS
<1> USE DEF signal, lamps, ped, handler, writers, readers, history
<1> DEFINE Same == Phase' = Phase /\ Count' = Count /\ Left' = Left
<1>1. CASE Btn0 \/ \E w \in Writers : WriteStore(w)
  <2>1. Same
    BY <1>1, SameView DEF Btn0, WriteStore
  <2>2. asked' # "none" /\ pedestrian_requested' = pedestrian_requested
    BY <1>1 DEF Btn0, WriteStore, NoteRequest
  <2> QED
    BY <2>1, <2>2 DEF Signal!Next, Signal!Ask
<1>2. CASE Btn1
  <2>1. Same
    BY <1>2, SameView DEF Btn1
  <2> QED
    BY <1>2, <2>1 DEF Btn1, Signal!Next, Signal!Call
<1>3. CASE TickMode \/ TickLoad \/ TickRearm \/ Elsewhere
  <2>1. Same
    BY <1>3, SameView DEF TickMode, TickLoad, TickRearm, Elsewhere
  <2>2. (asked' # "none") = (asked # "none") /\ pedestrian_requested' = pedestrian_requested
    BY <1>3 DEF TickMode, TickLoad, TickRearm, Elsewhere
  <2> QED
    BY <2>1, <2>2 DEF Signal!vars
<1>4. CASE TickGrant
  <2>1. Phase = "yellow" /\ pedestrian_requested
    BY <1>4, ViewIs DEF View, TickGrant, IInv, CopyInv, Loaded
  <2>2. Phase' = Phase /\ Count' = Count
    BY <1>4 DEF TickGrant, Phase, Count
  <2>3. Left' = 4
    BY <1>4, <2>1, <2>2 DEF TickGrant, Left
  <2> QED
    BY <1>4, <2>1, <2>2, <2>3 DEF TickGrant, Signal!Next, Signal!Grant, Signal!WalkTicks
<1>5. CASE TickStore
  <2>1. PICK s \in StatesRead : Advance(s)
    BY <1>5 DEF TickStore
  <2>2. s \in States /\ hmode \in Modes /\ pedestrian_cycles \in 0..3
    BY DEF StatesRead, IInv, TypeOK
  <2>3. s \in 2..5 => shown = [mode |-> 0, state |-> s]
    BY <1>5 DEF TickStore, StatesRead, IInv, CopyInv, Loaded, ShownInv
  <2>4. asked = "none" => hmode = shown.mode /\ s = shown.state
    BY <1>5 DEF TickStore, StatesRead, IInv, CopyInv, InTick, Loaded, Undisturbed
  <2>5. shown' = [mode |-> hmode, state |-> NextState(hmode, s)]
    BY <2>1 DEF Advance
  <2>6. View /\ View'
    BY ViewIs, ViewNext
  <2>7. SUFFICES Signal!Continue \/ (asked # "none" /\ Signal!Restart)
    <3>1. pedestrian_requested' = pedestrian_requested /\ (asked = "none" => asked' = "none")
      BY <1>5 DEF TickStore
    <3> QED
      BY <2>7, <3>1 DEF Signal!Next, Signal!Tick
  <2>8. CASE ~(hmode = 0 /\ Walking(s))
    <3>1. UNCHANGED <<pedestrian_phase_active, pedestrian_cycles>>
      BY <2>1, <2>8 DEF Advance, IInv, TypeOK
    <3>2. CASE hmode # 0
      \* A flashing pattern: started anew unless it is the one shown before.
      <4>1. NextState(hmode, s) = (s + 1) % 2 /\ NextState(hmode, s) \in 0..1
        BY <2>2, <3>2 DEF NextState, States
      <4>2. /\ Phase' = IF hmode = 1 THEN "flashRed" ELSE "flashYellow"
            /\ Count' = NextState(hmode, s) + 1
        BY <2>2, <2>5, <2>6, <3>2, <4>1 DEF View, Modes
      <4>3. Left' = IF Phase = "walk" THEN Left + 1 ELSE Left
        BY <2>2, <2>6, <3>1, <4>2 DEF View
      <4>4. CASE asked # "none"
        <5>1. \E f \in Signal!Flashing, n \in 1..2 : Signal!Show(f, n)
          BY <4>1, <4>2 DEF Signal!Flashing, Signal!Show
        <5> QED
          BY <4>3, <4>4, <5>1 DEF Signal!Restart
      <4>5. CASE asked = "none"
        <5>1. s \in 0..1 /\ shown.mode = hmode /\ shown.state = s
          BY <2>4, <3>2, <4>5 DEF IInv, ShownInv
        <5>2. Phase = Phase' /\ Phase \in Signal!Flashing /\ Count = s + 1
          BY <2>2, <2>6, <3>2, <4>2, <5>1 DEF View, Modes, Signal!Flashing
        <5>3. Count' = 3 - Count
          BY <4>1, <4>2, <5>1, <5>2
        <5>4. Left' = Left
          BY <4>3, <5>2 DEF Signal!Flashing
        <5> QED
          BY <5>2, <5>3, <5>4 DEF Signal!Continue, Signal!Show
      <4> QED
        BY <4>4, <4>5
    <3>3. CASE hmode = 0 /\ s \in -1..1
      \* The green lamp, from the start or one further.
      <4>1. NextState(hmode, s) = s + 1 /\ s + 1 \in 0..2
        BY <3>3 DEF NextState, Walking
      <4>2. Phase' = "green" /\ Count' = s + 2
        BY <2>5, <2>6, <3>3, <4>1 DEF View
      <4>3. Left' = IF Phase = "walk" THEN Left + 1 ELSE Left
        BY <2>2, <2>6, <3>1, <4>2 DEF View
      <4>4. CASE asked # "none"
        <5>1. \E n \in 1..Signal!GreenTicks : Signal!Show("green", n)
          BY <3>3, <4>2 DEF Signal!Show, Signal!GreenTicks
        <5> QED
          BY <4>3, <4>4, <5>1 DEF Signal!Restart
      <4>5. CASE asked = "none"
        <5>1. shown.mode = 0 /\ shown.state = s
          BY <2>4, <3>3, <4>5
        <5>2. IF s = -1 THEN Phase = "dark" ELSE Phase = "green" /\ Count = s + 1
          BY <2>6, <3>3, <5>1 DEF View
        <5>3. Left' = Left
          BY <4>3, <5>2
        <5> QED
          BY <3>3, <4>2, <5>2, <5>3 DEF Signal!Continue, Signal!Show, Signal!GreenTicks
      <4> QED
        BY <4>4, <4>5
    <3>4. CASE hmode = 0 /\ s \in 2..5
      \* The normal pattern goes on from the state that is shown.
      <4>1. shown.mode = 0 /\ shown.state = s
        BY <2>3, <3>4
      <4>2. NextState(hmode, s) = (s + 1) % 6
        BY <2>8, <3>4 DEF NextState
      <4>3. shown'.mode = 0 /\ shown'.state = (s + 1) % 6
        BY <2>5, <3>4, <4>2
      <4>4. CASE s = 2
        BY <2>6, <3>1, <4>1, <4>3, <4>4 DEF View, Signal!Continue, Signal!Show, Signal!GreenTicks
      <4>5. CASE s = 3
        BY <2>6, <3>1, <4>1, <4>3, <4>5 DEF View, Signal!Continue, Signal!Show
      <4>6. CASE s = 4
        <5>1. Phase = "red" /\ Count = 1 /\ shown'.state = 5
          BY <2>6, <4>1, <4>3, <4>6 DEF View
        <5>2. CASE pedestrian_phase_active
          <6>1. Left = 4 - pedestrian_cycles /\ Left > 0
            BY <2>2, <2>6, <5>1, <5>2 DEF View
          <6>2. Phase' = "walk" /\ Count' = 1 /\ Left' = 3 - pedestrian_cycles
            BY <2>6, <3>1, <4>3, <5>1, <5>2 DEF View
          <6> QED
            BY <2>2, <5>1, <6>1, <6>2 DEF Signal!Continue, Signal!Show
        <5>3. CASE ~pedestrian_phase_active
          BY <2>6, <3>1, <4>3, <5>1, <5>3 DEF View, Signal!Continue, Signal!Show
        <5> QED
          BY <5>2, <5>3
      <4>7. CASE s = 5
        <5>1. ~pedestrian_phase_active
          BY <2>8, <3>4, <4>7 DEF Walking
        <5> QED
          BY <2>6, <3>1, <4>1, <4>3, <4>7, <5>1 DEF View, Signal!Continue, Signal!Show
      <4> QED
        BY <3>4, <4>4, <4>5, <4>6, <4>7
    <3> QED
      BY <2>2, <3>2, <3>3, <3>4 DEF States
  <2>9. CASE hmode = 0 /\ Walking(s)
    \* The walk goes on or ends.
    <3>1. s = 5 /\ pedestrian_phase_active /\ Phase = "walk"
      BY <2>3, <2>6, <2>9 DEF View, Walking
    <3>2. Left = 3 - pedestrian_cycles
      BY <2>6, <3>1 DEF View
    <3>3. CASE LastWalk
      <4>1. ~pedestrian_phase_active' /\ shown'.mode = 0 /\ shown'.state = 0
        BY <2>1, <2>9, <3>3 DEF Advance, NextState
      <4>2. Phase' = "green" /\ Count' = 1 /\ Left' = 0
        BY <2>6, <4>1 DEF View
      <4>3. Left = 0
        BY <2>2, <3>2, <3>3 DEF LastWalk
      <4> QED
        BY <3>1, <4>2, <4>3 DEF Signal!Continue, Signal!Show
    <3>4. CASE ~LastWalk
      <4>1. /\ pedestrian_phase_active' /\ pedestrian_cycles' = pedestrian_cycles + 1
            /\ shown'.mode = 0 /\ shown'.state = 5
        BY <2>1, <2>9, <3>1, <3>4 DEF Advance, NextState
      <4>2. Phase' = "walk" /\ Count' = 1 /\ Left' = Left - 1
        BY <2>2, <2>6, <3>2, <4>1 DEF View
      <4>3. Left > 0
        BY <2>2, <3>2, <3>4 DEF LastWalk
      <4> QED
        BY <3>1, <4>2, <4>3 DEF Signal!Continue, Signal!Show
    <3> QED
      BY <3>3, <3>4
  <2> QED
    BY <2>8, <2>9
<1> QED
  BY <1>1, <1>2, <1>3, <1>4, <1>5, ElsewhereSteps DEF IInv

(***************************************************************************)
(* The driver implements the promise made to the street: every step of a   *)
(* handler, a write or a read is a step of TrafficSignal or no step of it. *)
(***************************************************************************)
THEOREM PromiseKept == Spec => KeepsPromise
BY Invariance, InitSignal, NextSignal, PTL DEF Spec, KeepsPromise, Signal!Spec
=============================================================================

---------------------------- MODULE KTimerProofs ----------------------------
(***************************************************************************)
(* Proofs about the lab 3 timer, its programs and the processes that list  *)
(* its timers, for any sets of processes, listers and messages, with any   *)
(* interleaving of their calls.                                            *)
(***************************************************************************)
EXTENDS TimerListing, FiniteSetTheorems, SequenceTheorems, TLAPS

\* What a process's locals hold at the places that use them.
LocalsInv ==
    \A p \in Clients :
      /\ at[p] = "user" => i[p] = 0 /\ currentActive[p] = 0
      /\ at[p] \in {"dup", "update", "count", "find", "remove"} => i[p] \in Slots
      /\ at[p] = "dup" => currentActive[p] = 0
      /\ at[p] = "count" => currentActive[p] <= i[p]
      /\ at[p] \in {"arm", "copy", "pid", "join", "leave"} => slot[p] \in Slots

\* Where main() stands while the process is in a call.
PlaceInv ==
    \A p \in Clients :
      /\ at[p] \in {"dup", "update", "count", "find", "room", "arm", "copy", "pid",
                    "remove", "max"} => run[p] = "write"
      /\ at[p] \in {"on", "join"} => run[p] = "registering"
      /\ at[p] \in {"off", "leave"} => run[p] = "closing"
      /\ at[p] \in {"dup", "update", "count", "find", "room", "arm", "copy", "pid"}
           => req[p].command = "set"
      /\ at[p] = "max" => req[p].command = "max"

\* Whose pid is in a slot, and whose entry is on its queue.
OwnerInv ==
    \A p \in Clients, s \in Slots : pid[s] = p =>
      /\ run[p] # "start"
      /\ run[p] = "write" => at[p] = "user"
      /\ \A t \in Slots : pid[t] = p => t = s
      /\ at[p] \in {"join", "leave"} => slot[p] = s
      /\ run[p] \in {"ready", "paused"} => p \in queue[s]
      /\ run[p] = "registering" /\ at[p] = "user" => p \in queue[s]
      /\ run[p] = "closing" /\ at[p] = "user" => p \notin queue[s]
      /\ run[p] = "done" => p \notin queue[s]

IInv == TypeOK /\ LocalsInv /\ PlaceInv /\ OwnerInv

-----------------------------------------------------------------------------
(* Initially. *)

LEMMA InitIInv == Init => IInv
<1> SUFFICES ASSUME Init PROVE IInv
  OBVIOUS
<1> USE DEF Init, DeviceInit
<1>1. TypeOK
  <2>1. SlotTypeOK
    BY DEF SlotTypeOK, Slots, MAX_TIMERS
  <2>2. req \in [Clients -> Requests]
    BY DEF Requests
  <2>3. CallTypeOK
    BY <2>2 DEF CallTypeOK, Slots, MAX_TIMERS
  <2> QED
    BY <2>1, <2>3 DEF TypeOK
<1>2. LocalsInv /\ PlaceInv
  BY DEF LocalsInv, PlaceInv
<1>3. OwnerInv
  BY NoClientAssumption DEF OwnerInv
<1> QED
  BY <1>1, <1>2, <1>3 DEF IInv

-----------------------------------------------------------------------------
(* The steps, grouped as the invariant sees them. *)

\* Steps of main() that leave the device alone.
MainStep(p) == Written(p) \/ Registered(p) \/ Pause(p) \/ Announce(p) \/ Exited(p) \/ Kill(p)

LEMMA Steps ==
    ASSUME [Next]_vars
    PROVE  \/ \E p \in Clients, r \in Commands : Start(p, r)
           \/ \E p \in Clients : MainStep(p) \/ Register(p) \/ Exit(p)
           \/ \E p \in Clients : CallStep(p) /\ UNCHANGED run
           \/ \E s \in Slots : Ring(s)
           \/ UNCHANGED vars
BY DEF Next, ClientStep, MainStep

-----------------------------------------------------------------------------
(* Types and locals. *)

\* find_by_pid finds a slot of the caller if there is one.
LEMMA FirstSlotFound ==
    ASSUME NEW p, \E s \in Slots : pid[s] = p
    PROVE  FirstSlotOf(p) \in Slots /\ pid[FirstSlotOf(p)] = p
<1>1. \E s \in Slots : pid[s] = p /\ \A t \in Slots : pid[t] = p => s <= t
  <2>1. CASE pid[0] = p
    BY <2>1 DEF Slots, MAX_TIMERS
  <2>2. CASE pid[0] # p
    BY <2>2 DEF Slots, MAX_TIMERS
  <2> QED
    BY <2>1, <2>2
<1> QED
  BY <1>1 DEF FirstSlotOf

LEMMA CallStepType ==
    ASSUME TypeOK, LocalsInv, PlaceInv, NEW p \in Clients, CallStep(p), UNCHANGED run
    PROVE  TypeOK' /\ LocalsInv'
<1> USE DEF TypeOK, SlotTypeOK, CallTypeOK, LocalsInv, slots, calls, Goto, Return, NextRound,
            Slots, MAX_TIMERS, NoSlot
<1>1. CASE Dup(p)
  BY <1>1 DEF Dup
<1>2. CASE Update(p)
  BY <1>2 DEF Update
<1>3. CASE Count(p)
  BY <1>3 DEF Count
<1>4. CASE Find(p)
  BY <1>4 DEF Find
<1>5. CASE Room(p)
  BY <1>5 DEF Room
<1>6. CASE Arm(p)
  BY <1>6 DEF Arm
<1>7. CASE Copy(p)
  <2>1. req[p].msg \in Messages
    BY <1>7 DEF Copy, PlaceInv, Requests
  <2>2. msg' \in [Slots -> Messages \cup {NoMessage}]
    BY <1>7, <2>1 DEF Copy
  <2> QED
    BY <1>7, <2>2 DEF Copy
<1>8. CASE Pid(p)
  BY <1>8 DEF Pid
<1>9. CASE Remove(p)
  BY <1>9 DEF Remove
<1>10. CASE SetMax(p)
  BY <1>10 DEF SetMax
<1>11. CASE FindByPid(p)
  BY <1>11, FirstSlotFound DEF FindByPid
<1>12. CASE Join(p)
  BY <1>12 DEF Join
<1>13. CASE Leave(p)
  BY <1>13 DEF Leave
<1> QED
  BY <1>1, <1>2, <1>3, <1>4, <1>5, <1>6, <1>7, <1>8, <1>9, <1>10, <1>11, <1>12, <1>13 DEF CallStep

LEMMA NextType == TypeOK /\ LocalsInv /\ PlaceInv /\ [Next]_vars => TypeOK' /\ LocalsInv'
<1> SUFFICES ASSUME TypeOK, LocalsInv, PlaceInv, [Next]_vars PROVE TypeOK' /\ LocalsInv'
  OBVIOUS
<1> USE DEF TypeOK, SlotTypeOK, CallTypeOK, LocalsInv, vars, deviceVars, slots, calls, Step, Goto
<1>1. ASSUME NEW p \in Clients, NEW r \in Commands, Start(p, r) PROVE TypeOK' /\ LocalsInv'
  <2>1. r \in Requests
    BY CommandsAssumption
  <2>2. req' \in [Clients -> Requests]
    BY <1>1, <2>1 DEF Start, Write
  <2>3. \E c \in {"dup", "remove", "max"} : at' = [at EXCEPT ![p] = c]
    BY <1>1, <2>1 DEF Start, Write, Requests
  <2> QED
    <3>1. UNCHANGED <<slots, i, currentActive, slot, ret>>
      BY <1>1 DEF Start, Write
    <3>2. run' \in [Clients -> {"start", "write", "register", "registering", "ready",
                               "paused", "print", "exit", "closing", "done"}]
      BY <1>1 DEF Start
    <3>3. at' \in [Clients -> {"user", "dup", "update", "count", "find", "room", "arm",
                              "copy", "pid", "remove", "max", "on", "join", "off", "leave"}]
      BY <2>3
    <3>4. TypeOK'
      BY <2>2, <3>1, <3>2, <3>3
    <3>5. at[p] = "user"
      BY <1>1 DEF Start
    <3>6. LocalsInv'
      BY <2>3, <3>1, <3>5 DEF Slots, MAX_TIMERS
    <3> QED
      BY <3>4, <3>6
<1>2. ASSUME NEW p \in Clients, MainStep(p) \/ Register(p) \/ Exit(p)
      PROVE  TypeOK' /\ LocalsInv'
  <2>1. CASE Register(p) \/ Exit(p)
    BY <2>1 DEF Register, Exit, Fasync
  <2>2. CASE MainStep(p)
    BY <2>2 DEF MainStep, Written, Registered, Pause, Announce, Exited, Kill
  <2> QED
    BY <1>2, <2>1, <2>2
<1>3. ASSUME NEW p \in Clients, CallStep(p), UNCHANGED run PROVE TypeOK' /\ LocalsInv'
  BY <1>3, CallStepType
<1>4. ASSUME NEW s \in Slots, Ring(s) PROVE TypeOK' /\ LocalsInv'
  BY <1>4 DEF Ring, Expire
<1>5. CASE UNCHANGED vars
  BY <1>5
<1> QED
  BY <1>1, <1>2, <1>3, <1>4, <1>5, Steps

-----------------------------------------------------------------------------
(* Places. *)

LEMMA NextPlace == TypeOK /\ PlaceInv /\ [Next]_vars => PlaceInv'
<1> SUFFICES ASSUME TypeOK, PlaceInv, [Next]_vars PROVE PlaceInv'
  OBVIOUS
<1> USE DEF TypeOK, CallTypeOK, PlaceInv, vars, deviceVars, slots, calls, Step, Goto
<1>1. ASSUME NEW p \in Clients, NEW r \in Commands, Start(p, r) PROVE PlaceInv'
  <2>1. r \in Requests
    BY CommandsAssumption
  <2>2. /\ req' = [req EXCEPT ![p] = r] /\ run' = [run EXCEPT ![p] = "write"]
        /\ \/ r.command = "set" /\ at' = [at EXCEPT ![p] = "dup"]
           \/ r.command = "remove" /\ at' = [at EXCEPT ![p] = "remove"]
           \/ r.command = "max" /\ at' = [at EXCEPT ![p] = "max"]
    BY <1>1, <2>1 DEF Start, Write, Requests
  <2> QED
    BY <2>2
<1>2. ASSUME NEW p \in Clients, MainStep(p) \/ Register(p) \/ Exit(p) PROVE PlaceInv'
  <2>1. CASE Register(p) \/ Exit(p)
    BY <2>1 DEF Register, Exit, Fasync
  <2>2. CASE MainStep(p)
    BY <2>2 DEF MainStep, Written, Registered, Pause, Announce, Exited, Kill
  <2> QED
    BY <1>2, <2>1, <2>2
<1>3. ASSUME NEW p \in Clients, CallStep(p), UNCHANGED run PROVE PlaceInv'
  BY <1>3 DEF CallStep, Dup, Update, Count, Find, Room, Arm, Copy, Pid, Remove, SetMax,
              FindByPid, Join, Leave, Return, NextRound
<1>4. ASSUME NEW s \in Slots, Ring(s) PROVE PlaceInv'
  BY <1>4 DEF Ring, Expire
<1>5. CASE UNCHANGED vars
  BY <1>5
<1> QED
  BY <1>1, <1>2, <1>3, <1>4, <1>5, Steps

(***************************************************************************)
(* The device and its callers keep their types; in particular every slot   *)
(* index that a call uses is one of the slots.                             *)
(***************************************************************************)
THEOREM TypeCorrect == Spec => []TypeOK
<1>1. Init => TypeOK /\ LocalsInv /\ PlaceInv
  BY InitIInv DEF IInv
<1> QED
  BY <1>1, NextType, NextPlace, PTL DEF Spec

-----------------------------------------------------------------------------
(* Owners and listeners. *)

LEMMA NextOwner == TypeOK /\ LocalsInv /\ PlaceInv /\ OwnerInv /\ [Next]_vars => OwnerInv'
<1> SUFFICES ASSUME TypeOK, LocalsInv, PlaceInv, OwnerInv, [Next]_vars PROVE OwnerInv'
  OBVIOUS
<1> USE DEF TypeOK, SlotTypeOK, CallTypeOK, vars, deviceVars, slots, calls, Step, Goto
<1>1. ASSUME NEW p \in Clients, NEW r \in Commands, Start(p, r) PROVE OwnerInv'
  BY <1>1 DEF Start, Write, OwnerInv
<1>2. ASSUME NEW p \in Clients, MainStep(p) \/ Register(p) \/ Exit(p) PROVE OwnerInv'
  <2>1. CASE Register(p) \/ Exit(p)
    BY <2>1 DEF Register, Exit, Fasync, OwnerInv
  <2>2. CASE MainStep(p)
    BY <2>2 DEF MainStep, Written, Registered, Pause, Announce, Exited, Kill, OwnerInv
  <2> QED
    BY <1>2, <2>1, <2>2
<1>3. ASSUME NEW p \in Clients, CallStep(p), UNCHANGED run PROVE OwnerInv'
  <2>1. CASE Dup(p) \/ Update(p) \/ Count(p) \/ Find(p) \/ Room(p) \/ Arm(p) \/ Copy(p)
             \/ Remove(p) \/ SetMax(p)
    <3>1. UNCHANGED <<pid, queue, run>>
      BY <1>3, <2>1 DEF Dup, Update, Count, Find, Room, Arm, Copy, Remove, SetMax
    <3>2. /\ run[p] = "write"
          /\ \A q \in Clients \ {p} : at'[q] = at[q] /\ slot'[q] = slot[q]
      BY <2>1 DEF Dup, Update, Count, Find, Room, Arm, Copy, Remove, SetMax, Return, NextRound,
                  PlaceInv
    <3>3. \A s \in Slots : pid[s] # p
      BY <2>1, <3>2 DEF Dup, Update, Count, Find, Room, Arm, Copy, Remove, SetMax, OwnerInv
    <3> QED
      BY <3>1, <3>2, <3>3 DEF OwnerInv
  <2>2. CASE Pid(p)
    \* The slot changes hands; a process writes its pid only once.
    <3>1. \A s \in Slots : pid[s] # p
      BY <2>2 DEF Pid, OwnerInv, PlaceInv
    <3> QED
      BY <1>3, <2>2, <3>1 DEF Pid, Return, OwnerInv, PlaceInv, LocalsInv
  <2>3. CASE FindByPid(p)
    <3>1. CASE \E s \in Slots : pid[s] = p
      BY <1>3, <2>3, <3>1, FirstSlotFound DEF FindByPid, OwnerInv
    <3>2. CASE ~\E s \in Slots : pid[s] = p
      BY <1>3, <2>3, <3>2 DEF FindByPid, Return, OwnerInv
    <3> QED
      BY <3>1, <3>2
  <2>4. CASE Join(p)
    BY <1>3, <2>4 DEF Join, Return, OwnerInv, PlaceInv
  <2>5. CASE Leave(p)
    BY <1>3, <2>5 DEF Leave, Return, OwnerInv, PlaceInv
  <2> QED
    BY <1>3, <2>1, <2>2, <2>3, <2>4, <2>5 DEF CallStep
<1>4. ASSUME NEW s \in Slots, Ring(s) PROVE OwnerInv'
  <2>1. UNCHANGED <<pid, queue, at, slot>>
    BY <1>4 DEF Ring, Expire
  <2>2. \A p \in Clients : run'[p] = run[p] \/ (run[p] = "paused" /\ run'[p] = "print")
    BY <1>4 DEF Ring
  <2> QED
    BY <2>1, <2>2 DEF OwnerInv
<1>5. CASE UNCHANGED vars
  BY <1>5 DEF OwnerInv
<1> QED
  BY <1>1, <1>2, <1>3, <1>4, <1>5, Steps

THEOREM Invariance == Spec => []IInv
<1>1. IInv /\ [Next]_vars => IInv'
  BY NextType, NextPlace, NextOwner DEF IInv
<1> QED
  BY InitIInv, <1>1, PTL DEF Spec

(***************************************************************************)
(* A process that waits while a slot carries its pid is on its queue.      *)
(***************************************************************************)
THEOREM OwnersListen == Spec => []OwnerListens
<1>1. IInv => OwnerListens
  BY DEF IInv, OwnerInv, OwnerListens
<1> QED
  BY Invariance, <1>1, PTL

(***************************************************************************)
(* An entry outlives its process only on a slot that has changed hands.    *)
(***************************************************************************)
THEOREM StaleEntries == Spec => []StaleEntryIsSuperseded
<1>1. IInv => StaleEntryIsSuperseded
  BY DEF IInv, OwnerInv, StaleEntryIsSuperseded
<1> QED
  BY Invariance, <1>1, PTL

-----------------------------------------------------------------------------
(***************************************************************************)
(* One write at a time: the table of reminders.                            *)
(***************************************************************************)

\* The places of a process in a write.
InCall == {"dup", "update", "count", "find", "room", "arm", "copy", "pid", "remove", "max"}

Serial == \A p, q \in Clients : at[p] \in InCall /\ at[q] \in InCall => p = q

\* What the table says of each slot.
Names    == [s \in Slots |-> MessageOf(s)]
Active   == {Names[s] : s \in {t \in Slots : pending[t]}}
Renewing == {req[p].msg : p \in {q \in Clients : at[q] = "update"}}

DistinctNames ==
    /\ \A s \in Slots : pending[s] => Names[s] \in Messages
    /\ \A s, t \in Slots : pending[s] /\ pending[t] /\ Names[s] = Names[t] => s = t

\* No pending slot has the message of the write.
NewText(p) == \A s \in Slots : pending[s] => msg[s] # req[p].msg

\* The check for duplicates, the count and the search stay true until the
\* timer is armed, since meanwhile timers can only run out.
Searching(p) ==
    /\ at[p] \in {"user", "dup", "update", "count", "find", "remove", "max", "on", "off"}
         => slot[p] = NoSlot
    /\ at[p] = "dup" => \A s \in Slots : s < i[p] /\ pending[s] => msg[s] # req[p].msg
    /\ at[p] = "update" => /\ msg[i[p]] = req[p].msg
                           /\ \A s \in Slots \ {i[p]} : pending[s] => msg[s] # req[p].msg
    /\ at[p] \in {"count", "find", "room", "arm"} => NewText(p)
    /\ at[p] = "count" /\ i[p] = 1 /\ pending[0] => currentActive[p] >= 1
    /\ at[p] \in {"find", "room", "arm"} =>
         /\ pending[0] \/ pending[1] => currentActive[p] >= 1
         /\ pending[0] /\ pending[1] => currentActive[p] >= 2
    /\ at[p] \in {"room", "arm"} /\ slot[p] # NoSlot => ~pending[slot[p]]
    /\ at[p] = "arm" => currentActive[p] < currentMaxTimers
    /\ at[p] = "pid" => msg[slot[p]] = req[p].msg

SearchInv == \A p \in Clients : Searching(p)

TableInv == Serial /\ DistinctNames /\ SearchInv

\* A process that fills a slot gives it its message.
LEMMA NamesAre ==
    ASSUME Serial
    PROVE  /\ \A p \in Clients, s \in Slots : Filling(p, s) => Names[s] = req[p].msg
           /\ \A s \in Slots : (\A p \in Clients : ~Filling(p, s)) => Names[s] = msg[s]
<1>1. ASSUME NEW p \in Clients, NEW s \in Slots, Filling(p, s)
      PROVE  Names[s] = req[p].msg
  <2>1. \A q \in Clients : Filling(q, s) => q = p
    BY <1>1 DEF Filling, Serial, InCall
  <2>2. (CHOOSE q \in Clients : Filling(q, s)) = p
    BY <1>1, <2>1
  <2>3. MessageOf(s) = req[p].msg
    BY <1>1, <2>2 DEF MessageOf
  <2> QED
    BY <2>3 DEF Names
<1>2. ASSUME NEW s \in Slots, \A p \in Clients : ~Filling(p, s)
      PROVE  Names[s] = msg[s]
  BY <1>2 DEF Names, MessageOf
<1> QED
  BY <1>1, <1>2

LEMMA NamesWillBe ==
    ASSUME Serial'
    PROVE  /\ \A p \in Clients, s \in Slots : Filling(p, s)' => Names'[s] = req'[p].msg
           /\ \A s \in Slots : (\A p \in Clients : ~Filling(p, s)') => Names'[s] = msg'[s]
<1>1. ASSUME NEW p \in Clients, NEW s \in Slots, Filling(p, s)'
      PROVE  Names'[s] = req'[p].msg
  <2>1. \A q \in Clients : Filling(q, s)' => q = p
    BY <1>1 DEF Filling, Serial, InCall
  <2>2. (CHOOSE q \in Clients : Filling(q, s)') = p
    BY <1>1, <2>1
  <2>3. MessageOf(s)' = req'[p].msg
    BY <1>1, <2>2 DEF MessageOf
  <2> QED
    BY <2>3 DEF Names
<1>2. ASSUME NEW s \in Slots, \A p \in Clients : ~Filling(p, s)'
      PROVE  Names'[s] = msg'[s]
  BY <1>2 DEF Names, MessageOf
<1> QED
  BY <1>1, <1>2

\* The mapped variables by their short names.
LEMMA Mapped ==
    /\ Table!tableVars = <<Active, Renewing, currentMaxTimers>>
    /\ Table!tableVars' = <<Active', Renewing', currentMaxTimers'>>
<1>1. Active = {MessageOf(s) : s \in {t \in Slots : pending[t]}}
  BY DEF Active, Names
<1>2. Active' = {MessageOf(s)' : s \in {t \in Slots : pending'[t]}}
  BY DEF Active, Names
<1> QED
  BY <1>1, <1>2 DEF Table!tableVars, Renewing

-----------------------------------------------------------------------------
(* Steps of the table. *)

LEMMA StutterIs ==
    ASSUME UNCHANGED <<pending, currentMaxTimers>>, Renewing' = Renewing,
           \A s \in Slots : pending[s] => Names'[s] = Names[s]
    PROVE  UNCHANGED Table!tableVars
<1>1. Active' = Active
  BY DEF Active
<1> QED
  BY <1>1, Mapped

LEMMA DropIs ==
    ASSUME DistinctNames, NEW s \in Slots, pending \in [Slots -> BOOLEAN],
           pending' = [pending EXCEPT ![s] = FALSE], Renewing' = Renewing,
           UNCHANGED currentMaxTimers, \A t \in Slots : Names'[t] = Names[t]
    PROVE  [Table!TableNext]_(Table!tableVars)
<1>1. CASE pending[s]
  <2>1. PICK m \in Messages : m = Names[s]
    BY <1>1 DEF DistinctNames
  <2>2. Active' = Active \ {m} /\ m \in Active
    BY <1>1, <2>1 DEF Active, DistinctNames
  <2>3. Table!Drop(m)
    BY <2>2, Mapped DEF Table!Drop, Table!tableVars
  <2> QED
    BY <2>3 DEF Table!TableNext
<1>2. CASE ~pending[s]
  <2>1. pending' = pending
    BY <1>2
  <2> QED
    BY <2>1, StutterIs
<1> QED
  BY <1>1, <1>2

LEMMA AskIs ==
    ASSUME NEW m \in Messages, m \in Active, Active' = Active,
           Renewing' = Renewing \cup {m}, UNCHANGED currentMaxTimers
    PROVE  [Table!TableNext]_(Table!tableVars)
<1>1. Table!AskRenewal(m)
  BY Mapped DEF Table!AskRenewal, Table!tableVars
<1> QED
  BY <1>1 DEF Table!TableNext

LEMMA RenewIs ==
    ASSUME NEW m \in Messages, m \in Renewing, Active' = Active \cup {m},
           Renewing' = Renewing \ {m}, UNCHANGED currentMaxTimers
    PROVE  [Table!TableNext]_(Table!tableVars)
<1>1. Table!Renew(m)
  BY Mapped DEF Table!Renew, Table!tableVars
<1> QED
  BY <1>1 DEF Table!TableNext

\* The table's instance of the library counts as the library does.
LEMMA SameCardinality == \A S : Table!Cardinality(S) = Cardinality(S)
BY DEF Cardinality, Table!Cardinality

LEMMA AddIs ==
    ASSUME NEW m \in Messages, m \notin Active, Cardinality(Active) < currentMaxTimers,
           Active' = Active \cup {m}, Renewing' = Renewing, UNCHANGED currentMaxTimers
    PROVE  [Table!TableNext]_(Table!tableVars)
<1>1. Active = {MessageOf(s) : s \in {t \in Slots : pending[t]}}
  BY DEF Active, Names
<1>2. Table!Cardinality({MessageOf(s) : s \in {t \in Slots : pending[t]}}) < currentMaxTimers
  BY <1>1, SameCardinality
<1>3. /\ m \notin {MessageOf(s) : s \in {t \in Slots : pending[t]}}
      /\ {MessageOf(s) : s \in {t \in Slots : pending[t]}}'
           = {MessageOf(s) : s \in {t \in Slots : pending[t]}} \cup {m}
      /\ UNCHANGED <<{req[p].msg : p \in {q \in Clients : at[q] = "update"}}, currentMaxTimers>>
  BY <1>1, Mapped DEF Table!tableVars, Renewing
<1>4. Table!Add(m)
  BY <1>2, <1>3 DEF Table!Add
<1> QED
  BY <1>4 DEF Table!TableNext

LEMMA ChangeIs ==
    ASSUME NEW n \in 1..MAX_TIMERS, currentMaxTimers' = n, Active' = Active, Renewing' = Renewing
    PROVE  [Table!TableNext]_(Table!tableVars)
<1>1. Table!ChangeMax(n)
  BY Mapped DEF Table!ChangeMax, Table!tableVars
<1> QED
  BY <1>1 DEF Table!TableNext

-----------------------------------------------------------------------------
(* What a step leaves alone. *)

LEMMA RenewingIs ==
    ASSUME NEW p \in Clients
    PROVE  /\ (\A q \in Clients \ {p} : at[q] # "update")
                => Renewing = IF at[p] = "update" THEN {req[p].msg} ELSE {}
           /\ (\A q \in Clients \ {p} : at'[q] # "update")
                => Renewing' = IF at'[p] = "update" THEN {req'[p].msg} ELSE {}
BY DEF Renewing

\* A step of the one process that writes.
LEMMA OthersKeep ==
    ASSUME TypeOK, Serial, SearchInv, NEW p \in Clients, at[p] \in InCall,
           \A q \in Clients \ {p} : at'[q] = at[q] /\ slot'[q] = slot[q],
           Searching(p)'
    PROVE  /\ Serial' /\ SearchInv'
           /\ \A q \in Clients \ {p} : at[q] \notin InCall /\ at'[q] \notin InCall
<1>1. \A q \in Clients \ {p} : at[q] \notin InCall /\ at'[q] \notin InCall
  BY DEF Serial
<1>2. Serial'
  BY <1>1 DEF Serial
<1>3. ASSUME NEW q \in Clients, q # p PROVE Searching(q)'
  <2>1. at'[q] \notin InCall /\ at'[q] = at[q] /\ slot'[q] = slot[q] /\ Searching(q)
    BY <1>1, <1>3 DEF SearchInv
  <2> QED
    BY <2>1 DEF Searching, InCall
<1> QED
  BY <1>1, <1>2, <1>3 DEF SearchInv

\* While nobody fills a slot the names are the messages.
LEMMA NoFiller ==
    ASSUME Serial, Serial', NEW p \in Clients,
           \A q \in Clients \ {p} : at[q] \notin InCall /\ at'[q] \notin InCall
    PROVE  /\ at[p] \notin {"copy", "pid"} => \A s \in Slots : Names[s] = msg[s]
           /\ at'[p] \notin {"copy", "pid"} => \A s \in Slots : Names'[s] = msg'[s]
<1>1. ASSUME at[p] \notin {"copy", "pid"}, NEW s \in Slots PROVE Names[s] = msg[s]
  <2>1. \A q \in Clients : ~Filling(q, s)
    BY <1>1 DEF Filling, InCall
  <2> QED
    BY <2>1, NamesAre
<1>2. ASSUME at'[p] \notin {"copy", "pid"}, NEW s \in Slots PROVE Names'[s] = msg'[s]
  <2>1. \A q \in Clients : ~Filling(q, s)'
    BY <1>2 DEF Filling, InCall
  <2> QED
    BY <2>1, NamesWillBe
<1> QED
  BY <1>1, <1>2

\* The writer looks at the slots.
LEMMA Looking ==
    ASSUME TypeOK, TableInv, NEW p \in Clients,
           at[p] \in InCall \ {"update", "copy", "pid"}, at'[p] \notin {"update", "copy", "pid"},
           \A q \in Clients \ {p} : at'[q] = at[q] /\ slot'[q] = slot[q],
           UNCHANGED <<pending, msg, currentMaxTimers>>, Searching(p)'
    PROVE  TableInv' /\ UNCHANGED Table!tableVars
<1>1. /\ Serial' /\ SearchInv'
      /\ \A q \in Clients \ {p} : at[q] \notin InCall /\ at'[q] \notin InCall
  BY OthersKeep DEF TableInv
<1>2. \A s \in Slots : Names'[s] = Names[s]
  BY <1>1, NoFiller DEF TableInv
<1>3. Renewing' = Renewing
  BY <1>1, RenewingIs DEF InCall
<1>4. DistinctNames'
  BY <1>2 DEF TableInv, DistinctNames
<1> QED
  BY <1>1, <1>2, <1>3, <1>4, StutterIs DEF TableInv

\* A step of a process that is in no write.
LEMMA Outside ==
    ASSUME TypeOK, TableInv, NEW p \in Clients, at[p] \notin InCall, at'[p] \notin InCall,
           \A q \in Clients \ {p} : /\ at'[q] = at[q] /\ slot'[q] = slot[q] /\ i'[q] = i[q]
                                    /\ currentActive'[q] = currentActive[q],
           at'[p] \in {"user", "on", "off"} => slot'[p] = NoSlot,
           UNCHANGED <<pending, msg, currentMaxTimers, req>>
    PROVE  TableInv' /\ UNCHANGED Table!tableVars
<1>1. Serial'
  BY DEF TableInv, Serial
<1>2. ASSUME NEW q \in Clients PROVE Searching(q)'
  <2>1. CASE q = p
    BY <2>1 DEF Searching, InCall
  <2>2. CASE q # p
    <3>1. Searching(q)
      BY DEF TableInv, SearchInv
    <3> QED
      BY <2>2, <3>1 DEF Searching, NewText
  <2> QED
    BY <2>1, <2>2
<1>3. ASSUME NEW s \in Slots PROVE Names'[s] = Names[s]
  <2>1. \A q \in Clients : Filling(q, s)' <=> Filling(q, s)
    BY DEF Filling, InCall
  <2>2. CASE \E q \in Clients : Filling(q, s)
    BY <1>1, <2>1, <2>2, NamesAre, NamesWillBe DEF TableInv
  <2>3. CASE ~\E q \in Clients : Filling(q, s)
    BY <1>1, <2>1, <2>3, NamesAre, NamesWillBe DEF TableInv
  <2> QED
    BY <2>2, <2>3
<1>4. Renewing' = Renewing
  <2>1. \A q \in Clients : at'[q] = "update" <=> at[q] = "update"
    BY DEF InCall
  <2> QED
    BY <2>1 DEF Renewing
<1>5. DistinctNames'
  BY <1>3 DEF TableInv, DistinctNames
<1> QED
  BY <1>1, <1>2, <1>3, <1>4, <1>5, StutterIs DEF TableInv, SearchInv

LEMMA DeviceUntouched ==
    ASSUME TableInv, UNCHANGED deviceVars
    PROVE  TableInv' /\ UNCHANGED Table!tableVars
<1>1. \A s \in Slots : MessageOf(s)' = MessageOf(s)
  BY DEF deviceVars, slots, calls, MessageOf, Filling
<1>2. Names' = Names /\ Renewing' = Renewing
  BY <1>1 DEF Names, Renewing, deviceVars, calls
<1>3. UNCHANGED <<pending, msg, currentMaxTimers, at, req, i, currentActive, slot>>
  BY DEF deviceVars, slots, calls
<1>4. (Serial /\ DistinctNames)'
  BY <1>2, <1>3 DEF TableInv, Serial, DistinctNames
<1>5. SearchInv'
  BY <1>3 DEF TableInv, SearchInv, Searching, NewText
<1> QED
  BY <1>2, <1>3, <1>4, <1>5, StutterIs DEF TableInv

-----------------------------------------------------------------------------
(* The steps of a call, one after the other. *)

\* What is known of the locals and the types, to be cited by the steps.
CallInv == TypeOK /\ LocalsInv /\ PlaceInv /\ TableInv

TableStep == TableInv' /\ [Table!TableNext]_(Table!tableVars)

LEMMA DupStep ==
    ASSUME CallInv, NEW p \in Clients, Dup(p) PROVE TableStep
<1>0. /\ at[p] = "dup" /\ at[p] \in InCall /\ i[p] \in Slots /\ Searching(p)
      /\ UNCHANGED <<pending, msg, currentMaxTimers, req, currentActive, slot>>
      /\ slot[p] = NoSlot /\ currentActive[p] = 0
  BY DEF Dup, CallInv, LocalsInv, InCall, TableInv, SearchInv, Searching, slots
<1>1. CASE pending[i[p]] /\ msg[i[p]] = req[p].msg
  <2>1. at' = [at EXCEPT ![p] = "update"] /\ i' = i
    BY <1>1 DEF Dup, Goto
  <2>2. \A q \in Clients \ {p} : at[q] \notin InCall
    BY <1>0 DEF CallInv, TableInv, Serial
  <2>3. \A s \in Slots : Names[s] = msg[s]
    BY <1>0, <2>2, NamesAre DEF CallInv, TableInv, Filling, InCall
  <2>4. \A s \in Slots \ {i[p]} : pending[s] => msg[s] # req[p].msg
    BY <1>0, <1>1, <2>3 DEF CallInv, TableInv, DistinctNames
  <2>5. at'[p] = "update" /\ \A q \in Clients \ {p} : at'[q] = at[q]
    BY <2>1 DEF CallInv, TypeOK, CallTypeOK
  <2>6. Searching(p)'
    BY <1>0, <1>1, <2>1, <2>4, <2>5 DEF Searching
  <2>7. /\ Serial' /\ SearchInv'
        /\ \A q \in Clients \ {p} : at[q] \notin InCall /\ at'[q] \notin InCall
    BY <1>0, <2>5, <2>6, OthersKeep DEF CallInv, TableInv
  <2>8. \A s \in Slots : Names'[s] = Names[s]
    BY <1>0, <2>3, <2>5, <2>7, NoFiller DEF CallInv, TableInv
  <2>9. DistinctNames' /\ Active' = Active
    BY <1>0, <2>8 DEF CallInv, TableInv, DistinctNames, Active
  <2>10. PICK m \in Messages : m = req[p].msg
    BY <1>0, <1>1, <2>3 DEF CallInv, TableInv, DistinctNames
  <2>11. m \in Active
    BY <1>0, <1>1, <2>3, <2>10 DEF Active
  <2>12. Renewing = {} /\ Renewing' = {m}
    BY <1>0, <2>5, <2>7, <2>10, RenewingIs DEF InCall
  <2> QED
    BY <1>0, <2>7, <2>9, <2>11, <2>12, AskIs DEF TableStep, TableInv
<1>2. CASE ~(pending[i[p]] /\ msg[i[p]] = req[p].msg)
  <2>1. /\ \/ i[p] = 0 /\ i' = [i EXCEPT ![p] = 1] /\ at' = [at EXCEPT ![p] = "dup"]
           \/ i[p] = 1 /\ i' = [i EXCEPT ![p] = 0] /\ at' = [at EXCEPT ![p] = "count"]
    BY <1>0, <1>2 DEF Dup, NextRound, Goto, Slots, MAX_TIMERS, CallInv, TypeOK, CallTypeOK
  <2>2. /\ \/ i[p] = 0 /\ i'[p] = 1 /\ at'[p] = "dup"
           \/ i[p] = 1 /\ i'[p] = 0 /\ at'[p] = "count"
        /\ \A q \in Clients \ {p} : at'[q] = at[q] /\ slot'[q] = slot[q]
    BY <1>0, <2>1 DEF CallInv, TypeOK, CallTypeOK
  <2>3. Searching(p)'
    BY <1>0, <1>2, <2>2 DEF Searching, NewText, Slots, MAX_TIMERS
  <2> QED
    BY <1>0, <2>2, <2>3, Looking DEF CallInv, TableStep
<1> QED
  BY <1>1, <1>2

LEMMA UpdateStep ==
    ASSUME CallInv, NEW p \in Clients, Update(p) PROVE TableStep
<1>0. /\ at[p] = "update" /\ at[p] \in InCall /\ i[p] \in Slots /\ Searching(p)
      /\ pending' = [pending EXCEPT ![i[p]] = TRUE]
      /\ UNCHANGED <<msg, currentMaxTimers, req>> /\ pending \in [Slots -> BOOLEAN]
      /\ at' = [at EXCEPT ![p] = "user"] /\ slot' = [slot EXCEPT ![p] = NoSlot]
      /\ req[p].command = "set" /\ req[p] \in Requests
  BY DEF Update, Return, Goto, CallInv, LocalsInv, PlaceInv, InCall, TableInv, SearchInv,
         TypeOK, SlotTypeOK, CallTypeOK
<1>1. /\ at'[p] = "user" /\ slot'[p] = NoSlot
      /\ \A q \in Clients \ {p} : at'[q] = at[q] /\ slot'[q] = slot[q]
  BY <1>0 DEF CallInv, TypeOK, CallTypeOK
<1>2. Searching(p)'
  BY <1>1 DEF Searching
<1>3. /\ Serial' /\ SearchInv'
      /\ \A q \in Clients \ {p} : at[q] \notin InCall /\ at'[q] \notin InCall
  BY <1>0, <1>1, <1>2, OthersKeep DEF CallInv, TableInv
<1>4. \A s \in Slots : Names[s] = msg[s] /\ Names'[s] = msg[s]
  BY <1>0, <1>1, <1>3, NoFiller DEF CallInv, TableInv
<1>5. PICK m \in Messages : m = req[p].msg
  BY <1>0 DEF Requests
<1>6. msg[i[p]] = m /\ \A s \in Slots \ {i[p]} : pending[s] => msg[s] # m
  BY <1>0, <1>5 DEF Searching
<1>7. pending'[i[p]] /\ \A s \in Slots \ {i[p]} : pending'[s] = pending[s]
  BY <1>0
<1>8. Active' = Active \cup {m}
  BY <1>0, <1>4, <1>6, <1>7 DEF Active
<1>9. DistinctNames'
  BY <1>0, <1>4, <1>6, <1>7 DEF CallInv, TableInv, DistinctNames
<1>10. Renewing = {m} /\ Renewing' = {}
  BY <1>0, <1>1, <1>3, <1>5, RenewingIs DEF InCall
<1> QED
  BY <1>0, <1>3, <1>8, <1>9, <1>10, RenewIs DEF TableStep, TableInv

LEMMA CountStep ==
    ASSUME CallInv, NEW p \in Clients, Count(p) PROVE TableStep
<1>0. /\ at[p] = "count" /\ at[p] \in InCall /\ i[p] \in Slots /\ Searching(p)
      /\ UNCHANGED <<pending, msg, currentMaxTimers, req, slot>>
      /\ slot[p] = NoSlot /\ currentActive[p] \in Nat
  BY DEF Count, CallInv, LocalsInv, InCall, TableInv, SearchInv, Searching, slots, TypeOK,
         CallTypeOK
<1>1. /\ \/ i[p] = 0 /\ i'[p] = 1 /\ at'[p] = "count"
         \/ i[p] = 1 /\ i'[p] = 0 /\ at'[p] = "find"
      /\ \A q \in Clients \ {p} : at'[q] = at[q] /\ slot'[q] = slot[q]
      /\ currentActive'[p] = IF pending[i[p]] THEN currentActive[p] + 1 ELSE currentActive[p]
  BY <1>0 DEF Count, NextRound, Goto, Slots, MAX_TIMERS, CallInv, TypeOK, CallTypeOK
<1>2. Searching(p)'
  BY <1>0, <1>1 DEF Searching, NewText
<1> QED
  BY <1>0, <1>1, <1>2, Looking DEF CallInv, TableStep

LEMMA FindStep ==
    ASSUME CallInv, NEW p \in Clients, Find(p) PROVE TableStep
<1>0. /\ at[p] = "find" /\ at[p] \in InCall /\ i[p] \in Slots /\ Searching(p)
      /\ UNCHANGED <<pending, msg, currentMaxTimers, req, currentActive>>
      /\ slot[p] = NoSlot
  BY DEF Find, CallInv, LocalsInv, InCall, TableInv, SearchInv, Searching, slots
<1>1. /\ \/ slot'[p] = NoSlot /\ at'[p] \in {"find", "room"}
         \/ slot'[p] = i[p] /\ ~pending[i[p]] /\ at'[p] = "room"
      /\ \A q \in Clients \ {p} : at'[q] = at[q] /\ slot'[q] = slot[q]
  BY <1>0 DEF Find, NextRound, Goto, Slots, MAX_TIMERS, CallInv, TypeOK, CallTypeOK
<1>2. Searching(p)'
  BY <1>0, <1>1 DEF Searching, NewText
<1> QED
  BY <1>0, <1>1, <1>2, Looking DEF CallInv, TableStep

LEMMA RoomStep ==
    ASSUME CallInv, NEW p \in Clients, Room(p) PROVE TableStep
<1>0. /\ at[p] = "room" /\ at[p] \in InCall /\ Searching(p)
      /\ UNCHANGED <<pending, msg, currentMaxTimers, req>>
      /\ currentActive[p] \in Nat /\ currentMaxTimers \in Nat
  BY DEF Room, CallInv, InCall, TableInv, SearchInv, slots, TypeOK, CallTypeOK, SlotTypeOK
<1>1. /\ \/ at'[p] = "user" /\ slot'[p] = NoSlot
         \/ /\ at'[p] = "arm" /\ slot' = slot /\ currentActive' = currentActive
            /\ currentActive[p] < currentMaxTimers
      /\ \A q \in Clients \ {p} : at'[q] = at[q] /\ slot'[q] = slot[q]
  BY <1>0 DEF Room, Return, Goto, CallInv, TypeOK, CallTypeOK
<1>2. Searching(p)'
  BY <1>0, <1>1 DEF Searching, NewText
<1> QED
  BY <1>0, <1>1, <1>2, Looking DEF CallInv, TableStep

\* The slot that is being filled has the name of the write, before and after.
LEMMA FillerNames ==
    ASSUME Serial, Serial', NEW p \in Clients, NEW f \in Slots,
           \A q \in Clients \ {p} : at[q] \notin InCall /\ at'[q] \notin InCall
    PROVE  /\ Filling(p, f) => Names[f] = req[p].msg /\ \A s \in Slots \ {f} : Names[s] = msg[s]
           /\ Filling(p, f)' => Names'[f] = req'[p].msg /\ \A s \in Slots \ {f} : Names'[s] = msg'[s]
<1>1. ASSUME Filling(p, f)
      PROVE  Names[f] = req[p].msg /\ \A s \in Slots \ {f} : Names[s] = msg[s]
  <2>1. \A s \in Slots \ {f}, q \in Clients : ~Filling(q, s)
    BY <1>1 DEF Filling, InCall
  <2> QED
    BY <1>1, <2>1, NamesAre
<1>2. ASSUME Filling(p, f)'
      PROVE  Names'[f] = req'[p].msg /\ \A s \in Slots \ {f} : Names'[s] = msg'[s]
  <2>1. \A s \in Slots \ {f}, q \in Clients : ~Filling(q, s)'
    BY <1>2 DEF Filling, InCall
  <2> QED
    BY <1>2, <2>1, NamesWillBe
<1> QED
  BY <1>1, <1>2

\* There is room: the slots counted are at least those that are pending.
LEMMA RoomLeft ==
    ASSUME TypeOK, NEW p \in Clients, at[p] = "arm", Searching(p), slot[p] \in Slots
    PROVE  Cardinality(Active) < currentMaxTimers
<1>1. /\ ~pending[slot[p]] /\ currentActive[p] < currentMaxTimers /\ currentActive[p] \in Nat
      /\ pending[0] \/ pending[1] => currentActive[p] >= 1
      /\ currentMaxTimers \in Nat
  BY DEF Searching, NoSlot, Slots, TypeOK, CallTypeOK, SlotTypeOK
<1>2. CASE ~pending[0] /\ ~pending[1]
  <2>1. Active = {}
    BY <1>2 DEF Active, Slots, MAX_TIMERS
  <2> QED
    BY <1>1, <2>1, FS_EmptySet
<1>3. CASE pending[0] \/ pending[1]
  <2>1. PICK s \in Slots : pending[s] /\ \A t \in Slots : pending[t] => t = s
    BY <1>1, <1>3 DEF Slots, MAX_TIMERS
  <2>2. Active = {Names[s]}
    BY <2>1 DEF Active
  <2>3. Cardinality(Active) = 1
    BY <2>2, FS_Singleton
  <2> QED
    BY <1>1, <1>3, <2>3
<1> QED
  BY <1>2, <1>3

LEMMA ArmStep ==
    ASSUME CallInv, NEW p \in Clients, Arm(p) PROVE TableStep
<1>0. /\ at[p] = "arm" /\ at[p] \in InCall /\ slot[p] \in Slots /\ Searching(p)
      /\ pending' = [pending EXCEPT ![slot[p]] = TRUE] /\ pending \in [Slots -> BOOLEAN]
      /\ UNCHANGED <<msg, currentMaxTimers, req, slot>>
      /\ at' = [at EXCEPT ![p] = "copy"]
      /\ req[p].command = "set" /\ req[p] \in Requests
  BY DEF Arm, Goto, CallInv, LocalsInv, PlaceInv, InCall, TableInv, SearchInv,
         TypeOK, SlotTypeOK, CallTypeOK
<1>1. at'[p] = "copy" /\ \A q \in Clients \ {p} : at'[q] = at[q] /\ slot'[q] = slot[q]
  BY <1>0 DEF CallInv, TypeOK, CallTypeOK
<1>2. Searching(p)'
  BY <1>1 DEF Searching
<1>3. /\ Serial /\ Serial' /\ SearchInv'
      /\ \A q \in Clients \ {p} : at[q] \notin InCall /\ at'[q] \notin InCall
  BY <1>0, <1>1, <1>2, OthersKeep DEF CallInv, TableInv
<1> DEFINE f == slot[p]
<1>4. \A s \in Slots : Names[s] = msg[s]
  BY <1>0, <1>3, NoFiller
<1>5. Names'[f] = req[p].msg /\ \A s \in Slots \ {f} : Names'[s] = msg[s]
  <2>1. Filling(p, f)'
    BY <1>0, <1>1 DEF Filling
  <2> QED
    BY <1>0, <1>3, <2>1, FillerNames
<1>6. PICK m \in Messages : m = req[p].msg
  BY <1>0 DEF Requests
<1>7. /\ ~pending[f] /\ pending'[f] /\ \A s \in Slots \ {f} : pending'[s] = pending[s]
      /\ \A s \in Slots : pending[s] => msg[s] # m
  <2>1. f # NoSlot
    BY <1>0 DEF NoSlot, Slots, MAX_TIMERS
  <2>2. ~pending[f] /\ \A s \in Slots : pending[s] => msg[s] # m
    BY <1>0, <1>6, <2>1 DEF Searching, NewText
  <2>3. pending'[f] /\ \A s \in Slots \ {f} : pending'[s] = pending[s]
    BY <1>0
  <2> QED
    BY <2>2, <2>3
<1>8. m \notin Active /\ Active' = Active \cup {m}
  BY <1>0, <1>4, <1>5, <1>6, <1>7 DEF Active
<1>9. DistinctNames'
  BY <1>0, <1>4, <1>5, <1>6, <1>7 DEF CallInv, TableInv, DistinctNames
<1>10. Renewing' = Renewing
  BY <1>0, <1>1, <1>3, RenewingIs DEF InCall
<1>11. Cardinality(Active) < currentMaxTimers
  BY <1>0, RoomLeft DEF CallInv
<1> QED
  BY <1>0, <1>3, <1>8, <1>9, <1>10, <1>11, AddIs DEF TableStep, TableInv

LEMMA CopyStep ==
    ASSUME CallInv, NEW p \in Clients, Copy(p) PROVE TableStep
<1>0. /\ at[p] = "copy" /\ at[p] \in InCall /\ slot[p] \in Slots
      /\ msg' = [msg EXCEPT ![slot[p]] = req[p].msg]
      /\ UNCHANGED <<pending, currentMaxTimers, req, slot>>
      /\ at' = [at EXCEPT ![p] = "pid"] /\ DOMAIN msg = Slots
  BY DEF Copy, Goto, CallInv, LocalsInv, InCall, TypeOK, SlotTypeOK
<1>1. at'[p] = "pid" /\ \A q \in Clients \ {p} : at'[q] = at[q] /\ slot'[q] = slot[q]
  BY <1>0 DEF CallInv, TypeOK, CallTypeOK
<1>2. msg'[slot[p]] = req[p].msg /\ \A s \in Slots \ {slot[p]} : msg'[s] = msg[s]
  BY <1>0
<1>3. Searching(p)'
  BY <1>0, <1>1, <1>2 DEF Searching
<1>4. /\ Serial /\ Serial' /\ SearchInv'
      /\ \A q \in Clients \ {p} : at[q] \notin InCall /\ at'[q] \notin InCall
  BY <1>0, <1>1, <1>3, OthersKeep DEF CallInv, TableInv
<1>5. Filling(p, slot[p]) /\ Filling(p, slot[p])'
  BY <1>0, <1>1 DEF Filling
<1>6. \A s \in Slots : Names'[s] = Names[s]
  <2> DEFINE f == slot[p]
  <2>1. f \in Slots /\ Filling(p, f)
    BY <1>0, <1>5
  <2>2. Filling(p, slot[p])' => Names'[slot[p]] = req'[p].msg
    BY <1>0, <1>4, NamesWillBe
  <2>3. Names[f] = req[p].msg /\ \A s \in Slots \ {f} : Names[s] = msg[s]
    BY <1>4, <2>1, FillerNames
  <2>4. \A s \in Slots \ {slot[p]} : Names'[s] = msg'[s]
    <3>1. \A s \in Slots \ {slot[p]}, q \in Clients : ~Filling(q, s)'
      BY <1>0, <1>4 DEF Filling, InCall
    <3> QED
      BY <1>4, <3>1, NamesWillBe
  <2> QED
    BY <1>0, <1>2, <1>5, <2>2, <2>3, <2>4
<1>7. Renewing' = Renewing
  BY <1>0, <1>1, <1>4, RenewingIs DEF InCall
<1>8. DistinctNames'
  BY <1>0, <1>6 DEF CallInv, TableInv, DistinctNames
<1> QED
  BY <1>0, <1>4, <1>6, <1>7, <1>8, StutterIs DEF TableStep, TableInv

LEMMA PidStep ==
    ASSUME CallInv, NEW p \in Clients, Pid(p) PROVE TableStep
<1>0. /\ at[p] = "pid" /\ at[p] \in InCall /\ slot[p] \in Slots
      /\ UNCHANGED <<pending, msg, currentMaxTimers, req>>
      /\ at' = [at EXCEPT ![p] = "user"] /\ slot' = [slot EXCEPT ![p] = NoSlot]
      /\ msg[slot[p]] = req[p].msg
  BY DEF Pid, Return, Goto, CallInv, LocalsInv, InCall, TableInv, SearchInv, Searching
<1>1. /\ at'[p] = "user" /\ slot'[p] = NoSlot
      /\ \A q \in Clients \ {p} : at'[q] = at[q] /\ slot'[q] = slot[q]
  BY <1>0 DEF CallInv, TypeOK, CallTypeOK
<1>2. Searching(p)'
  BY <1>1 DEF Searching
<1>3. /\ Serial /\ Serial' /\ SearchInv'
      /\ \A q \in Clients \ {p} : at[q] \notin InCall /\ at'[q] \notin InCall
  BY <1>0, <1>1, <1>2, OthersKeep DEF CallInv, TableInv
<1>4. Filling(p, slot[p])
  BY <1>0 DEF Filling
<1>5. Names[slot[p]] = req[p].msg /\ \A s \in Slots \ {slot[p]} : Names[s] = msg[s]
  <2> DEFINE f == slot[p]
  <2>1. f \in Slots /\ Filling(p, f)
    BY <1>0, <1>4
  <2> QED
    BY <1>3, <2>1, FillerNames
<1>6. \A s \in Slots : Names'[s] = Names[s]
  BY <1>0, <1>1, <1>3, <1>5, NoFiller
<1>7. Renewing' = Renewing
  BY <1>0, <1>1, <1>3, RenewingIs DEF InCall
<1>8. DistinctNames'
  BY <1>0, <1>6 DEF CallInv, TableInv, DistinctNames
<1> QED
  BY <1>0, <1>3, <1>6, <1>7, <1>8, StutterIs DEF TableStep, TableInv

LEMMA RemoveStep ==
    ASSUME CallInv, NEW p \in Clients, Remove(p) PROVE TableStep
<1>0. /\ at[p] = "remove" /\ at[p] \in InCall /\ i[p] \in Slots /\ slot[p] = NoSlot
      /\ pending' = [pending EXCEPT ![i[p]] = FALSE] /\ pending \in [Slots -> BOOLEAN]
      /\ UNCHANGED <<msg, currentMaxTimers, req>>
  BY DEF Remove, CallInv, LocalsInv, InCall, TableInv, SearchInv, Searching, TypeOK, SlotTypeOK
<1>1. /\ at'[p] \in {"remove", "user"} /\ slot'[p] = NoSlot
      /\ \A q \in Clients \ {p} : at'[q] = at[q] /\ slot'[q] = slot[q]
  BY <1>0 DEF Remove, Return, Goto, CallInv, TypeOK, CallTypeOK
<1>2. Searching(p)'
  BY <1>1 DEF Searching
<1>3. /\ Serial /\ Serial' /\ SearchInv'
      /\ \A q \in Clients \ {p} : at[q] \notin InCall /\ at'[q] \notin InCall
  BY <1>0, <1>1, <1>2, OthersKeep DEF CallInv, TableInv
<1>4. \A s \in Slots : Names'[s] = Names[s]
  BY <1>0, <1>1, <1>3, NoFiller
<1>5. Renewing' = Renewing
  BY <1>0, <1>1, <1>3, RenewingIs DEF InCall
<1>6. DistinctNames'
  BY <1>0, <1>4 DEF CallInv, TableInv, DistinctNames
<1>7. [Table!TableNext]_(Table!tableVars)
  <2>1. PICK s \in Slots : s = i[p]
    BY <1>0
  <2> QED
    BY <1>0, <1>4, <1>5, <2>1, DropIs DEF CallInv, TableInv
<1> QED
  BY <1>3, <1>6, <1>7 DEF TableStep, TableInv

LEMMA SetMaxStep ==
    ASSUME CallInv, NEW p \in Clients, SetMax(p) PROVE TableStep
<1>0. /\ at[p] = "max" /\ at[p] \in InCall /\ UNCHANGED <<pending, msg, req>>
  BY DEF SetMax, InCall
<1>1. /\ at'[p] = "user" /\ slot'[p] = NoSlot
      /\ \A q \in Clients \ {p} : at'[q] = at[q] /\ slot'[q] = slot[q]
  BY <1>0 DEF SetMax, Return, Goto, CallInv, TypeOK, CallTypeOK
<1>2. Searching(p)'
  BY <1>1 DEF Searching
<1>3. /\ Serial /\ Serial' /\ SearchInv'
      /\ \A q \in Clients \ {p} : at[q] \notin InCall /\ at'[q] \notin InCall
  BY <1>0, <1>1, <1>2, OthersKeep DEF CallInv, TableInv
<1>4. \A s \in Slots : Names'[s] = Names[s]
  BY <1>0, <1>1, <1>3, NoFiller
<1>5. Renewing' = Renewing
  BY <1>0, <1>1, <1>3, RenewingIs DEF InCall
<1>6. DistinctNames' /\ Active' = Active
  BY <1>0, <1>4 DEF CallInv, TableInv, DistinctNames, Active
<1>7. currentMaxTimers' = currentMaxTimers \/ currentMaxTimers' \in 1..MAX_TIMERS
  BY DEF SetMax
<1>8. currentMaxTimers \in 1..MAX_TIMERS
  BY DEF CallInv, TypeOK, SlotTypeOK
<1>9. PICK n \in 1..MAX_TIMERS : currentMaxTimers' = n
  BY <1>7, <1>8
<1> QED
  BY <1>3, <1>5, <1>6, <1>9, ChangeIs DEF TableStep, TableInv

\* fasync touches neither timers nor writes.
LEMMA FasyncStep ==
    ASSUME CallInv, NEW p \in Clients, FindByPid(p) \/ Join(p) \/ Leave(p) PROVE TableStep
<1>1. /\ at[p] \notin InCall /\ at'[p] \in {"user", "join", "leave"}
      /\ at'[p] = "user" => slot'[p] = NoSlot
      /\ UNCHANGED <<pending, msg, currentMaxTimers, req>>
      /\ \A q \in Clients \ {p} : /\ at'[q] = at[q] /\ slot'[q] = slot[q] /\ i'[q] = i[q]
                                  /\ currentActive'[q] = currentActive[q]
  BY DEF FindByPid, Join, Leave, Return, Goto, InCall, slots, CallInv, TypeOK, CallTypeOK
<1> QED
  BY <1>1, Outside DEF CallInv, InCall, TableStep

LEMMA CallTable ==
    ASSUME CallInv, NEW p \in Clients, CallStep(p) PROVE TableStep
BY DupStep, UpdateStep, CountStep, FindStep, RoomStep, ArmStep, CopyStep, PidStep, RemoveStep,
   SetMaxStep, FasyncStep DEF CallStep

LEMMA StartTable ==
    ASSUME CallInv, OneAtATime, NEW p \in Clients, NEW r \in Commands, Start(p, r)
    PROVE  TableStep
<1>1. \A q \in Clients : at[q] \notin InCall
  <2>1. \A q \in Clients : ~InWrite(q)
    BY DEF Start
  <2> QED
    BY <2>1 DEF InWrite, CallInv, PlaceInv, InCall
<1>2. r \in Requests
  BY CommandsAssumption
<1>3. /\ at[p] = "user" /\ i[p] = 0 /\ slot[p] = NoSlot
      /\ UNCHANGED <<pending, msg, currentMaxTimers, i, currentActive, slot>>
  BY <1>1 DEF Start, Write, Step, slots, CallInv, LocalsInv, TableInv, SearchInv, Searching
<1>4. \E c \in {"dup", "remove", "max"} : at' = [at EXCEPT ![p] = c]
  BY <1>2 DEF Start, Write, Goto, Requests
<1>5. at'[p] \in {"dup", "remove", "max"} /\ \A q \in Clients \ {p} : at'[q] = at[q]
  BY <1>4 DEF CallInv, TypeOK, CallTypeOK
<1>6. Serial'
  BY <1>1, <1>5 DEF Serial
<1>7. ASSUME NEW q \in Clients PROVE Searching(q)'
  <2>1. CASE q = p
    <3>1. \A s \in Slots : ~(s < i'[p])
      BY <1>3 DEF Slots, MAX_TIMERS
    <3> QED
      BY <1>3, <1>5, <2>1, <3>1 DEF Searching
  <2>2. CASE q # p
    <3>1. Searching(q) /\ at'[q] \notin InCall /\ at'[q] = at[q] /\ slot'[q] = slot[q]
      BY <1>1, <1>3, <1>5, <2>2 DEF CallInv, TableInv, SearchInv
    <3> QED
      BY <3>1 DEF Searching, InCall
  <2> QED
    BY <2>1, <2>2
<1>8. \A s \in Slots : Names'[s] = Names[s]
  <2>1. \A q \in Clients \ {p} : at[q] \notin InCall /\ at'[q] \notin InCall
    BY <1>1, <1>5
  <2> QED
    BY <1>3, <1>5, <1>6, <2>1, NoFiller DEF CallInv, TableInv
<1>9. Renewing' = Renewing
  <2>1. \A q \in Clients : at[q] # "update" /\ at'[q] # "update"
    BY <1>1, <1>5 DEF InCall
  <2> QED
    BY <2>1 DEF Renewing
<1>10. DistinctNames'
  BY <1>3, <1>8 DEF CallInv, TableInv, DistinctNames
<1> QED
  BY <1>3, <1>6, <1>7, <1>8, <1>9, <1>10, StutterIs DEF TableStep, TableInv, SearchInv

\* A timer may run out at any moment of a write.
LEMMA RingTable ==
    ASSUME CallInv, NEW s \in Slots, Ring(s) PROVE TableStep
<1>1. /\ pending' = [pending EXCEPT ![s] = FALSE] /\ pending \in [Slots -> BOOLEAN]
      /\ UNCHANGED <<msg, currentMaxTimers, at, req, i, currentActive, slot>>
  BY DEF Ring, Expire, calls, CallInv, TypeOK, SlotTypeOK
<1>2. \A t \in Slots : pending'[t] => pending[t]
  BY <1>1
<1>3. \A t \in Slots : MessageOf(t)' = MessageOf(t)
  BY <1>1 DEF MessageOf, Filling
<1>4. Names' = Names /\ Renewing' = Renewing
  BY <1>1, <1>3 DEF Names, Renewing
<1>5. (Serial /\ DistinctNames)'
  BY <1>1, <1>2, <1>4 DEF CallInv, TableInv, Serial, DistinctNames
<1>6. ASSUME NEW p \in Clients PROVE Searching(p)'
  <2>1. Searching(p) /\ slot[p] \in Slots \cup {NoSlot}
    BY DEF CallInv, TableInv, SearchInv, TypeOK, CallTypeOK
  <2>2. 0 \in Slots /\ 1 \in Slots
    BY DEF Slots, MAX_TIMERS
  <2> QED
    BY <1>1, <1>2, <2>1, <2>2 DEF Searching, NewText
<1>7. [Table!TableNext]_(Table!tableVars)
  BY <1>1, <1>4, DropIs DEF CallInv, TableInv
<1> QED
  BY <1>5, <1>6, <1>7 DEF TableStep, TableInv, SearchInv

LEMMA NextTable ==
    ASSUME OneAtATime PROVE CallInv /\ [Next]_vars => TableStep
<1> SUFFICES ASSUME CallInv, [Next]_vars PROVE TableStep
  OBVIOUS
<1>1. ASSUME NEW p \in Clients, Register(p) \/ Exit(p) PROVE TableStep
  <2>1. /\ at[p] = "user" /\ at'[p] \in {"on", "off"} /\ slot' = slot
        /\ UNCHANGED <<pending, msg, currentMaxTimers, req, i, currentActive>>
        /\ \A q \in Clients \ {p} : at'[q] = at[q]
    BY <1>1 DEF Register, Exit, Fasync, Goto, slots, CallInv, TypeOK, CallTypeOK
  <2>2. slot'[p] = NoSlot
    BY <2>1 DEF CallInv, TableInv, SearchInv, Searching
  <2> QED
    BY <2>1, <2>2, Outside DEF CallInv, InCall, TableStep
<1>2. ASSUME NEW p \in Clients, MainStep(p) PROVE TableStep
  <2>1. UNCHANGED deviceVars
    BY <1>2 DEF MainStep, Written, Registered, Pause, Announce, Exited, Kill
  <2> QED
    BY <2>1, DeviceUntouched DEF CallInv, TableStep
<1>3. CASE UNCHANGED vars
  BY <1>3, DeviceUntouched DEF vars, CallInv, TableStep
<1> QED
  BY <1>1, <1>2, <1>3, Steps, StartTable, CallTable, RingTable

LEMMA InitTable == Init => TableInv /\ Table!TableInit
<1> SUFFICES ASSUME Init PROVE TableInv /\ Table!TableInit
  OBVIOUS
<1>1. /\ \A p \in Clients : at[p] = "user" /\ slot[p] = NoSlot
      /\ \A s \in Slots : ~pending[s]
      /\ currentMaxTimers = 1
  BY DEF Init, DeviceInit
<1>2. Serial /\ DistinctNames
  BY <1>1 DEF Serial, InCall, DistinctNames
<1>3. SearchInv
  BY <1>1 DEF SearchInv, Searching
<1>4. Active = {} /\ Renewing = {}
  BY <1>1 DEF Active, Renewing
<1> QED
  BY <1>1, <1>2, <1>3, <1>4, Mapped DEF TableInv, Table!TableInit, Table!tableVars

(***************************************************************************)
(* With one write at a time the device implements the table of reminders,  *)
(* for any processes, messages and commands, whatever the timers do        *)
(* meanwhile: no duplicate gets in between the check and the arming, the   *)
(* number stays below the maximum when a timer is added, and an update     *)
(* revives the reminder it was meant for.                                  *)
(***************************************************************************)
THEOREM TableImplemented == ASSUME OneAtATime PROVE Spec => IsReminderTable
<1>1. Init => CallInv /\ Table!TableInit
  BY InitIInv, InitTable DEF CallInv, IInv
<1>2. CallInv /\ [Next]_vars => CallInv' /\ [Table!TableNext]_(Table!tableVars)
  BY NextType, NextPlace, NextTable DEF CallInv, TableStep
<1> QED
  BY <1>1, <1>2, PTL DEF Spec, IsReminderTable, Table!Spec

-----------------------------------------------------------------------------
(* Listing changes nothing that the other processes see. *)

\* What a lister does is a stuttering step of the timer.
LEMMA ListStepIsTimerStep == [ListNext]_listVars => [Next]_vars
<1> SUFFICES ASSUME [ListNext]_listVars PROVE [Next]_vars
  OBVIOUS
<1>1. CASE TimerStep
  BY <1>1 DEF TimerStep
<1>2. ASSUME NEW l \in Listers, ListStart(l) \/ ListLook(l) \/ ListShow(l) \/ ListEnd(l)
      PROVE  UNCHANGED vars
  BY <1>2 DEF ListStart, ListLook, ListShow, ListEnd
<1>3. CASE UNCHANGED listVars
  BY <1>3 DEF listVars
<1> QED
  BY <1>1, <1>2, <1>3 DEF ListNext

(***************************************************************************)
(* The timer with listers implements the timer without: whatever is proved *)
(* of KTimer (types, who is on which queue) holds while its slots are      *)
(* being listed.                                                           *)
(***************************************************************************)
THEOREM ListingIsInvisible == ListSpec => Spec
<1>1. ListInit => Init
  BY DEF ListInit
<1> QED
  BY <1>1, ListStepIsTimerStep, PTL DEF ListSpec, Spec

-----------------------------------------------------------------------------
(* The listers. *)

Rows == [msg : Messages \cup {NoMessage}, pid : Clients \cup {NoClient}]

\* ListTypeOK without the timer's part; a lister has at most one line for
\* each slot it has left behind.
ListerInv ==
    /\ listAt \in [Listers -> {"user", "look", "show", "end"}]
    /\ listSlot \in [Listers -> Slots]
    /\ lines \in [Listers -> Seq(Rows)]
    /\ calm \subseteq Listers
    /\ \A l \in Listers :
         /\ listAt[l] = "user" => listSlot[l] = 0 /\ lines[l] = <<>>
         /\ listAt[l] \in {"look", "show"} => Len(lines[l]) <= listSlot[l]
         /\ listAt[l] = "end" => Len(lines[l]) <= MAX_TIMERS

\* A timer that a lister has seen pending still is if nothing has changed,
\* and a lister that has started is at its first line or further.
CalmInv ==
    /\ CalmListing
    /\ \A l \in calm : listAt[l] # "user" /\ (listAt[l] = "show" => pending[listSlot[l]])

ListIInv == TypeOK /\ ListerInv /\ CalmInv

\* A second line behind a first one.
LEMMA TwoLines ==
    ASSUME NEW a, NEW b
    PROVE  Append(<<a>>, b) = <<a, b>>
<1> DEFINE S == {a, b}
<1>1. <<a>> \in Seq(S) /\ <<a, b>> \in Seq(S) /\ Len(<<a>>) = 1 /\ Len(<<a, b>>) = 2
  OBVIOUS
<1>2. /\ Append(<<a>>, b) \in Seq(S) /\ Len(Append(<<a>>, b)) = 2
      /\ Append(<<a>>, b)[1] = a /\ Append(<<a>>, b)[2] = b
  BY <1>1, AppendProperties
<1>3. \A k \in 1..2 : Append(<<a>>, b)[k] = <<a, b>>[k]
  BY <1>2
<1> HIDE DEF S
<1> QED
  BY <1>1, <1>2, <1>3, SeqEqual

\* One line more for a pending timer, none for another.
LEMMA NextLine ==
    ASSUME NEW s \in Slots, pending \in [Slots -> BOOLEAN]
    PROVE  LinesUpTo(s + 1) = IF pending[s] THEN Append(LinesUpTo(s), Line(s)) ELSE LinesUpTo(s)
<1>1. CASE s = 0
  BY <1>1 DEF LinesUpTo
<1>2. CASE s = 1
  <2>1. pending[0] \in BOOLEAN /\ pending[1] \in BOOLEAN
    BY DEF Slots, MAX_TIMERS
  <2>2. LinesUpTo(1) = IF pending[0] THEN <<Line(0)>> ELSE <<>>
    BY DEF LinesUpTo
  <2>3. LinesUpTo(2) = IF pending[0]
                       THEN IF pending[1] THEN <<Line(0), Line(1)>> ELSE <<Line(0)>>
                       ELSE IF pending[1] THEN <<Line(1)>> ELSE <<>>
    BY DEF LinesUpTo
  <2>4. Append(<<>>, Line(1)) = <<Line(1)>>
    OBVIOUS
  <2>5. Append(<<Line(0)>>, Line(1)) = <<Line(0), Line(1)>>
    BY TwoLines
  <2>6. LinesUpTo(2) = IF pending[1] THEN Append(LinesUpTo(1), Line(1)) ELSE LinesUpTo(1)
    BY <2>1, <2>2, <2>3, <2>4, <2>5, Zenon
  <2>7. s + 1 = 2
    BY <1>2
  <2> QED
    BY <1>2, <2>6, <2>7, Zenon
<1> QED
  BY <1>1, <1>2 DEF Slots, MAX_TIMERS

LEMMA NoLine == LinesUpTo(0) = <<>>
BY DEF LinesUpTo

LEMMA ListInitIInv == ListInit => ListIInv
<1> SUFFICES ASSUME ListInit PROVE ListIInv
  OBVIOUS
<1>1. TypeOK
  BY InitIInv DEF ListInit, IInv
<1>2. ListerInv
  BY DEF ListInit, ListerInv, Slots, MAX_TIMERS
<1>3. CalmInv
  BY DEF ListInit, CalmInv, CalmListing
<1> QED
  BY <1>1, <1>2, <1>3 DEF ListIInv

\* The walk of a lister, with TypeOK from the timer.
LEMMA ListerStep == TypeOK /\ ListerInv /\ [ListNext]_listVars => ListerInv'
<1> SUFFICES ASSUME TypeOK, ListerInv, [ListNext]_listVars PROVE ListerInv'
  OBVIOUS
<1> USE DEF Slots, MAX_TIMERS
<1>0. \A k \in Listers : Len(lines[k]) \in Nat /\ listSlot[k] \in 0..1
  BY DEF ListerInv
<1>1. CASE TimerStep
  BY <1>1 DEF TimerStep, ListerInv
<1>2. ASSUME NEW l \in Listers, ListStart(l) PROVE ListerInv'
  BY <1>2 DEF ListStart, ListerInv
<1>3. ASSUME NEW l \in Listers, ListLook(l) PROVE ListerInv'
  <2>1. CASE pending[listSlot[l]]
    BY <1>3, <2>1 DEF ListLook, ListerInv
  <2>2. CASE ~pending[listSlot[l]]
    <3>1. CASE listSlot[l] = 0
      BY <1>0, <1>3, <2>2, <3>1 DEF ListLook, ListRound, ListerInv
    <3>2. CASE listSlot[l] = 1
      <4>1. listAt[l] = "look" /\ listAt' = [listAt EXCEPT ![l] = "end"]
        BY <1>3, <2>2, <3>2 DEF ListLook, ListRound
      <4>2. UNCHANGED <<listSlot, lines, calm>>
        BY <1>3, <2>2, <3>2 DEF ListLook, ListRound
      <4> QED
        BY <1>0, <3>2, <4>1, <4>2 DEF ListerInv
    <3> QED
      BY <1>0, <3>1, <3>2
  <2> QED
    BY <2>1, <2>2
<1>4. ASSUME NEW l \in Listers, ListShow(l) PROVE ListerInv'
  <2>1. Line(listSlot[l]) \in Rows
    BY DEF TypeOK, SlotTypeOK, ListerInv, Rows, Line
  <2>2. /\ Append(lines[l], Line(listSlot[l])) \in Seq(Rows)
        /\ Len(Append(lines[l], Line(listSlot[l]))) = Len(lines[l]) + 1
    BY <2>1 DEF ListerInv
  <2>3. lines' = [lines EXCEPT ![l] = Append(lines[l], Line(listSlot[l]))]
    BY <1>4 DEF ListShow, Line
  <2>4. listAt[l] = "show" /\ UNCHANGED <<vars, calm>>
    BY <1>4 DEF ListShow
  <2>5. CASE listSlot[l] = 0
    <3>1. listAt' = [listAt EXCEPT ![l] = "look"] /\ listSlot' = [listSlot EXCEPT ![l] = 1]
      BY <1>4, <2>5 DEF ListShow, ListRound
    <3> QED
      BY <1>0, <2>2, <2>3, <2>4, <2>5, <3>1 DEF ListerInv
  <2>6. CASE listSlot[l] = 1
    <3>1. listAt' = [listAt EXCEPT ![l] = "end"] /\ UNCHANGED listSlot
      BY <1>4, <2>6 DEF ListShow, ListRound
    <3> QED
      BY <1>0, <2>2, <2>3, <2>4, <2>6, <3>1 DEF ListerInv
  <2> QED
    BY <1>0, <2>5, <2>6
<1>5. ASSUME NEW l \in Listers, ListEnd(l) PROVE ListerInv'
  BY <1>5 DEF ListEnd, ListerInv
<1>6. CASE UNCHANGED listVars
  BY <1>6 DEF listVars, listing, ListerInv
<1> QED
  BY <1>1, <1>2, <1>3, <1>4, <1>5, <1>6 DEF ListNext

\* What the lines of a calm lister say: a step that changes a slot leaves
\* nobody calm, and a step of the lister adds the line of its slot.
LEMMA CalmStep == TypeOK /\ ListerInv /\ CalmInv /\ [ListNext]_listVars => CalmInv'
<1> SUFFICES ASSUME TypeOK, ListerInv, CalmInv, [ListNext]_listVars PROVE CalmInv'
  OBVIOUS
<1>0. pending \in [Slots -> BOOLEAN]
  BY DEF TypeOK, SlotTypeOK
<1>1. CASE TimerStep
  <2>1. CASE UNCHANGED <<pending, msg, pid>>
    BY <1>1, <2>1 DEF TimerStep, CalmInv, CalmListing, LinesUpTo, Line
  <2>2. CASE ~UNCHANGED <<pending, msg, pid>>
    BY <1>1, <2>2 DEF TimerStep, CalmInv, CalmListing
  <2> QED
    BY <2>1, <2>2
<1>2. ASSUME NEW l \in Listers,
             ListStart(l) \/ ListLook(l) \/ ListShow(l) \/ ListEnd(l)
      PROVE  CalmInv'
  <2>0. /\ UNCHANGED <<pending, msg, pid>>
        /\ \A n : LinesUpTo(n)' = LinesUpTo(n)
    BY <1>2 DEF ListStart, ListLook, ListShow, ListEnd, vars, deviceVars, slots, LinesUpTo, Line
  <2>1. \A k \in Listers \ {l} : /\ listAt'[k] = listAt[k] /\ listSlot'[k] = listSlot[k]
                                 /\ lines'[k] = lines[k] /\ (k \in calm' <=> k \in calm)
    BY <1>2 DEF ListStart, ListLook, ListShow, ListEnd, ListRound, ListerInv
  <2>2. ASSUME l \in calm'
        PROVE  /\ listAt'[l] \in {"look", "show"} => lines'[l] = LinesUpTo(listSlot'[l])
               /\ listAt'[l] = "end" => lines'[l] = LinesUpTo(MAX_TIMERS)
               /\ listAt'[l] # "user" /\ (listAt'[l] = "show" => pending[listSlot'[l]])
    <3>1. CASE ListStart(l)
      BY <3>1, NoLine DEF ListStart, ListerInv
    <3>2. CASE ListLook(l)
      <4>1. l \in calm /\ lines'[l] = lines[l] /\ lines[l] = LinesUpTo(listSlot[l])
        BY <2>2, <3>2 DEF ListLook, CalmInv, CalmListing
      <4>2. CASE pending[listSlot[l]]
        BY <3>2, <4>1, <4>2 DEF ListLook, ListerInv
      <4>3. CASE ~pending[listSlot[l]]
        <5>1. lines[l] = LinesUpTo(listSlot[l] + 1)
          BY <1>0, <4>1, <4>3, NextLine DEF ListerInv
        <5> QED
          BY <3>2, <4>1, <4>3, <5>1 DEF ListLook, ListRound, ListerInv, Slots, MAX_TIMERS
      <4> QED
        BY <4>2, <4>3
    <3>3. CASE ListShow(l)
      <4>1. /\ l \in calm /\ lines[l] = LinesUpTo(listSlot[l]) /\ pending[listSlot[l]]
            /\ lines'[l] = Append(lines[l], Line(listSlot[l]))
        BY <2>2, <3>3 DEF ListShow, CalmInv, CalmListing, ListerInv, Line
      <4>2. lines'[l] = LinesUpTo(listSlot[l] + 1)
        BY <1>0, <4>1, NextLine DEF ListerInv
      <4>3. CASE listSlot[l] = 0
        <5>1. listAt'[l] = "look" /\ listSlot'[l] = 1
          BY <3>3, <4>3 DEF ListShow, ListRound, ListerInv, Slots, MAX_TIMERS
        <5> QED
          BY <4>2, <4>3, <5>1
      <4>4. CASE listSlot[l] = 1
        <5>1. listAt'[l] = "end"
          BY <3>3, <4>4 DEF ListShow, ListRound, ListerInv, MAX_TIMERS
        <5> QED
          BY <4>2, <4>4, <5>1 DEF MAX_TIMERS
      <4> QED
        BY <4>3, <4>4 DEF ListerInv, Slots, MAX_TIMERS
    <3>4. CASE ListEnd(l)
      BY <2>2, <3>4 DEF ListEnd
    <3> QED
      BY <1>2, <3>1, <3>2, <3>3, <3>4
  <2> SUFFICES ASSUME NEW k \in calm'
               PROVE  /\ listAt'[k] \in {"look", "show"} => lines'[k] = LinesUpTo(listSlot'[k])
                      /\ listAt'[k] = "end" => lines'[k] = LinesUpTo(MAX_TIMERS)
                      /\ listAt'[k] # "user" /\ (listAt'[k] = "show" => pending[listSlot'[k]])
    BY <2>0 DEF CalmInv, CalmListing
  <2>3. k \in Listers
    BY ListerStep DEF ListerInv
  <2> QED
    BY <2>1, <2>2, <2>3 DEF CalmInv, CalmListing
<1>3. CASE UNCHANGED listVars
  BY <1>3 DEF listVars, listing, vars, deviceVars, slots, CalmInv, CalmListing, LinesUpTo, Line
<1> QED
  BY <1>1, <1>2, <1>3 DEF ListNext

\* The inductive invariant; the timer keeps its types whoever lists it.
THEOREM ListInvariance == ListSpec => []ListIInv
<1>1. ListIInv /\ TypeOK' /\ [ListNext]_listVars => ListIInv'
  BY ListerStep, CalmStep DEF ListIInv
<1> QED
  BY ListInitIInv, <1>1, ListingIsInvisible, TypeCorrect, PTL DEF ListSpec

\* Types, and no lister has more lines than there are slots.
THEOREM ListTypeCorrect == ListSpec => []ListTypeOK
<1>1. ListIInv => ListTypeOK
  <2> SUFFICES ASSUME ListIInv PROVE ListTypeOK
    OBVIOUS
  <2>1. \A l \in Listers : Len(lines[l]) <= MAX_TIMERS
    <3> SUFFICES ASSUME NEW l \in Listers PROVE Len(lines[l]) <= MAX_TIMERS
      OBVIOUS
    <3>1. Len(lines[l]) \in Nat /\ listSlot[l] \in 0..1
      BY DEF ListIInv, ListerInv, Slots, MAX_TIMERS
    <3>2. CASE listAt[l] = "user"
      BY <3>2 DEF ListIInv, ListerInv, MAX_TIMERS
    <3>3. CASE listAt[l] # "user"
      BY <3>1, <3>3 DEF ListIInv, ListerInv, MAX_TIMERS
    <3> QED
      BY <3>2, <3>3
  <2> QED
    BY <2>1 DEF ListIInv, ListerInv, ListTypeOK, Rows
<1> QED
  BY <1>1, ListInvariance, PTL

(***************************************************************************)
(* A listing during which no slot changes shows the pending timers, each   *)
(* once and in the order of the slots.                                     *)
(***************************************************************************)
THEOREM CalmListingsAreTrue == ListSpec => []CalmListing
<1>1. ListIInv => CalmListing
  BY DEF ListIInv, CalmInv
<1> QED
  BY <1>1, ListInvariance, PTL

(***************************************************************************)
(* Listing does not disturb who listens where.                             *)
(***************************************************************************)
THEOREM OwnersListenWhileListed == ListSpec => [](OwnerListens /\ StaleEntryIsSuperseded)
BY ListingIsInvisible, OwnersListen, StaleEntries, PTL
=============================================================================

----------------------------- MODULE DriverLife -----------------------------
(***************************************************************************)
(* How the drivers of the repository are loaded and unloaded.              *)
(*                                                                         *)
(* A driver is a table: what its init function takes, in which order, and  *)
(* what it gives back when a step fails; what its exit function gives      *)
(* back; and what memory its entry points touch.  The kernel enters the    *)
(* driver through whatever is registered at that moment: a press of a      *)
(* button, a call on an open file, a read of a /proc file, a timer.  An    *)
(* entry that touches memory the driver does not have, or whose driver is  *)
(* gone, crashes the kernel.                                               *)
(***************************************************************************)
EXTENDS Integers, Sequences

CONSTANT Drivers    \* the drivers that are tried, one in each behavior

VARIABLES
    driver,
    phase,      \* "out", "loading", "in", "unloading" or "crashed"
    step,       \* the step of init or exit that comes next
    held,       \* what the driver has taken
    orphans,    \* what still leads into a driver that is gone
    opened,     \* a file of its device is open
    causes      \* history: what has happened since nothing led into it

vars == <<driver, phase, step, held, orphans, opened, causes>>

Take(r, undo) == [take |-> {r}, undo |-> undo]

-----------------------------------------------------------------------------
(* What the drivers' init functions take and their exit functions give     *)
(* back, in this order.                                                    *)

\* GPIOs and interrupts are given back on no error, nor is the timer
\* stopped, which is armed before anything else is there.
mytraffic_init ==
    << Take("my_timer", {}), Take("timer", {}), Take("green", {}), Take("yellow", {}),
       Take("red", {}), Take("btn0", {}), Take("btn1", {}), Take("irq0", {}),
       Take("irq1", {}), Take("chrdev", {}) >>

\* Mutant: the timer is not deleted before its memory is freed.
mytraffic_exit_NoDel ==
    << "my_timer", "timer", "irq0", "irq1", "red", "yellow", "green", "btn0", "btn1", "chrdev" >>

mytraffic_exit ==
    << "timer", "my_timer", "irq0", "irq1", "red", "yellow", "green", "btn0", "btn1", "chrdev" >>

lab3_init ==
    << Take("list_pot", {}),
       [take |-> {"slot0", "ptr0"}, undo |-> {"list_pot"}],
       [take |-> {"slot1", "ptr1"}, undo |-> {"list_pot", "slot0"}],
       Take("chrdev", {}), Take("proc", {"list_pot"}) >>

\* A slot is freed in two steps, so that its pointer dangles in between.
lab3_exit == << "chrdev", "slot0", "ptr0", "slot1", "ptr1", "proc", "list_pot" >>

\* The results of class_create and device_create are not looked at.
lab2_init == << Take("chrdev", {}), Take("device", {}), Take("slots", {}) >>

\* The slots are never freed.
lab2_exit == << "device", "chrdev" >>

\* On an error init calls the exit function.
nibbler_init == << Take("chrdev", {}), Take("buffer", {"chrdev"}) >>
nibbler_exit == << "chrdev", "buffer" >>

\* Mutant: the error path does not call the exit function.
memory_init_NoUndo == << Take("chrdev", {}), Take("buffer", {}) >>

memory_init == << Take("chrdev", {}), Take("buffer", {"chrdev"}) >>
memory_exit == << "chrdev", "buffer" >>

fortune_init == << Take("cookie_pot", {}), Take("proc", {"cookie_pot"}) >>
fortune_exit == << "proc", "cookie_pot" >>

\* Mutant: the interrupt that is taken is not the one that is given back.
int_mod_init_OtherIrq == << Take("irq2", {}) >>

int_mod_init == << Take("irq0", {}) >>
int_mod_exit == << "irq0" >>

-----------------------------------------------------------------------------
(* The drivers: whether they say who their files belong to, what memory    *)
(* their entry points touch, and which of these arm the timer.             *)

MyTraffic ==
    [ load |-> mytraffic_init, unload |-> mytraffic_exit, owner |-> FALSE,
      press |-> {"my_timer"}, call |-> {"my_timer"}, tick |-> {"my_timer"}, show |-> {},
      arms |-> {"timer"}, rearms |-> {"timer"} ]

Lab3Timer ==
    [ load |-> lab3_init, unload |-> lab3_exit, owner |-> FALSE,
      press |-> {}, call |-> {"slot0", "slot1"}, tick |-> {"slot0", "slot1"}, show |-> {},
      arms |-> {"timer"}, rearms |-> {} ]

Lab2Timer ==
    [ load |-> lab2_init, unload |-> lab2_exit, owner |-> TRUE,
      press |-> {}, call |-> {"slots"}, tick |-> {"slots"}, show |-> {},
      arms |-> {"timer"}, rearms |-> {} ]

Quiet(init, exit, owner, call, show) ==
    [ load |-> init, unload |-> exit, owner |-> owner,
      press |-> {}, call |-> call, tick |-> {}, show |-> show, arms |-> {}, rearms |-> {} ]

Nibbler      == Quiet(nibbler_init, nibbler_exit, FALSE, {"buffer"}, {})
MemoryDriver == Quiet(memory_init, memory_exit, FALSE, {"buffer"}, {})
Fortune      == Quiet(fortune_init, fortune_exit, TRUE, {}, {"cookie_pot"})
IntMod       == Quiet(int_mod_init, int_mod_exit, TRUE, {}, {})

Table ==
    [ mytraffic |-> MyTraffic, lab3timer |-> Lab3Timer, lab2timer |-> Lab2Timer,
      nibbler |-> Nibbler, memory |-> MemoryDriver, fortune |-> Fortune, int_mod |-> IntMod ]

ASSUME DriversAssumption == Drivers \subseteq DOMAIN Table

D == Table[driver]

-----------------------------------------------------------------------------
\* What has one name in the whole kernel: a second driver cannot take it.
Names    == {"green", "yellow", "red", "btn0", "btn1", "irq0", "irq1", "chrdev", "proc", "device"}
Memory   == {"my_timer", "list_pot", "slot0", "slot1", "slots", "buffer", "cookie_pot"}
Pointers == {"ptr0", "ptr1"}
Entries  == {"irq0", "irq1", "chrdev", "proc", "timer", "file"}

TypeOK ==
    /\ driver \in Drivers
    /\ phase \in {"out", "loading", "in", "unloading", "crashed"}
    /\ step \in 1..10
    /\ held \subseteq Names \cup Memory \cup Pointers \cup {"timer"}
    /\ orphans \subseteq Names \cup {"timer", "file"}
    /\ opened \in BOOLEAN
    /\ causes \subseteq {"failed", "early", "late", "open", "pending"}

Init ==
    /\ driver \in Drivers
    /\ phase = "out" /\ step = 1
    /\ held = {} /\ orphans = {} /\ opened = FALSE /\ causes = {}

\* The driver's memory is given up with what rest holds: its registrations
\* and its open file stay, and lead nowhere.
Leave(rest, cause) ==
    /\ phase' = "out" /\ step' = 1
    /\ held' = rest \ (Names \cup {"timer"})
    /\ orphans' = orphans \cup (rest \cap (Names \cup {"timer"}))
                          \cup (IF opened THEN {"file"} ELSE {})
    /\ opened' = FALSE
    /\ causes' = IF orphans' = {} THEN {} ELSE causes \cup cause

-----------------------------------------------------------------------------
(* Loading and unloading. *)

Load ==
    /\ phase = "out"
    /\ phase' = "loading"
    /\ held' = {}
    /\ UNCHANGED <<driver, step, orphans, opened, causes>>

LoadStep ==
    /\ phase = "loading"
    /\ D.load[step].take \cap orphans \cap Names = {}
    /\ held' = held \cup D.load[step].take
    /\ IF step = Len(D.load) THEN phase' = "in" /\ step' = 1
                             ELSE phase' = phase /\ step' = step + 1
    /\ UNCHANGED <<driver, orphans, opened, causes>>

\* There is no memory, or the name is taken.
LoadFails ==
    /\ phase = "loading"
    /\ D.load[step].take \cap {"timer", "device"} = {}
    /\ LET rest == held \ D.load[step].undo
       IN Leave(rest, IF rest \cap (Names \cup {"timer"}) # {} THEN {"failed"} ELSE {})
    /\ UNCHANGED driver

\* An open file keeps a driver in that says who it belongs to.
Unload ==
    /\ phase = "in"
    /\ ~(D.owner /\ opened)
    /\ phase' = "unloading"
    /\ causes' = causes \cup (IF opened THEN {"open"} ELSE {})
                        \cup (IF "timer" \in held THEN {"pending"} ELSE {})
    /\ UNCHANGED <<driver, step, held, orphans, opened>>

UnloadStep ==
    /\ phase = "unloading"
    /\ LET rest == held \ {D.unload[step]}
       IN IF step = Len(D.unload)
          THEN Leave(rest, {})
          ELSE held' = rest /\ step' = step + 1 /\ UNCHANGED <<phase, orphans, opened, causes>>
    /\ UNCHANGED driver

-----------------------------------------------------------------------------
(* The ways into the driver. *)

Crash ==
    /\ phase' = "crashed" /\ step' = 1
    /\ UNCHANGED <<driver, held, orphans, opened, causes>>

\* An entry that touches memory and leaves the driver holding after.
Enter(touched, after, cause) ==
    /\ causes' = causes \cup (IF phase = "loading" THEN {"early"}
                              ELSE IF phase = "unloading" THEN cause ELSE {})
    /\ IF touched \subseteq held
       THEN held' = after /\ UNCHANGED <<phase, step>>
       ELSE phase' = "crashed" /\ step' = 1 /\ UNCHANGED held
    /\ UNCHANGED <<driver, orphans>>

Here == phase \in {"loading", "in", "unloading"}

Press ==
    /\ Here
    /\ \/ "irq0" \in held /\ Enter(D.press, held \cup D.arms, {"late"})
       \/ "irq1" \in held /\ Enter({}, held, {"late"})
    /\ UNCHANGED opened

\* A driver that is going gets no new files if it says who it belongs to.
Open ==
    /\ Here
    /\ "chrdev" \in held
    /\ ~(D.owner /\ phase = "unloading")
    /\ Enter({}, held, {"open"})
    /\ opened' = TRUE

Call ==
    /\ Here
    /\ opened
    /\ Enter(D.call, held \cup D.arms, {"open"})
    /\ UNCHANGED opened

\* Lab 3's release looks for the process in the slots it has pointers to.
Dangling == {r \in {"slot0", "slot1"} : r \notin held /\ ((r = "slot0" /\ "ptr0" \in held)
                                                       \/ (r = "slot1" /\ "ptr1" \in held))}

Close ==
    /\ Here
    /\ opened
    /\ Enter(Dangling, held, {"open"})
    /\ opened' = FALSE

Show ==
    /\ Here
    /\ "proc" \in held
    /\ Enter(D.show \cup Dangling, held, {"late"})
    /\ UNCHANGED opened

\* The timer is no longer pending when its handler runs.
Tick ==
    /\ Here
    /\ "timer" \in held
    /\ Enter(D.tick, (held \ {"timer"}) \cup D.rearms, {})
    /\ UNCHANGED opened

\* The kernel follows something into a driver that is gone.
EnterOrphan ==
    /\ phase # "crashed"
    /\ orphans \cap Entries # {}
    /\ Crash

Reboot ==
    /\ phase = "crashed"
    /\ phase' = "out" /\ step' = 1
    /\ held' = {} /\ orphans' = {} /\ opened' = FALSE /\ causes' = {}
    /\ UNCHANGED driver

Next ==
    \/ Load \/ LoadStep \/ LoadFails \/ Unload \/ UnloadStep
    \/ Press \/ Open \/ Call \/ Close \/ Show \/ Tick
    \/ EnterOrphan \/ Reboot

Spec == Init /\ [][Next]_vars

-----------------------------------------------------------------------------
\* What can bring each driver down.
Exposed ==
    [ mytraffic |-> {"failed", "late", "open"},
      lab3timer |-> {"failed", "late", "open", "pending"},
      lab2timer |-> {"failed", "early", "pending"},
      nibbler   |-> {"early", "open"},
      memory    |-> {"early", "open"},
      fortune   |-> {},
      int_mod   |-> {} ]

(***************************************************************************)
(* A crash has one of the causes its driver is exposed to: a load that     *)
(* failed halfway, an entry while init or exit runs, a file or a timer     *)
(* that outlives the driver.  The pending timer never brings mytraffic     *)
(* down (del_timer_sync comes first), nor an early call lab 3's timer      *)
(* (the device comes after the slots); fortune and int_mod cannot crash.   *)
(***************************************************************************)
CrashHasCause == phase = "crashed" => causes \cap Exposed[driver] # {}

(***************************************************************************)
(* A driver that goes leaves nothing behind, with three exceptions.  Only  *)
(* a failed load keeps a name, so that the driver cannot be loaded again,  *)
(* and only in the drivers of the labs: the examples undo what init has    *)
(* done.  Lab 2's timer loses its slots whenever it goes.  Otherwise       *)
(* memory is lost only where something else than memory was refused.       *)
(***************************************************************************)
NothingLeftBehind ==
    [][ (phase \in {"loading", "unloading"} /\ phase' = "out") =>
          /\ ~(orphans' \cap Names \subseteq orphans) =>
                phase = "loading" /\ driver \in {"mytraffic", "lab3timer", "lab2timer"}
          /\ held' \cap Memory # {} =>
                \/ driver = "lab2timer"
                \/ phase = "loading" /\ D.load[step].take \cap Memory = {} ]_vars
=============================================================================

-------------------------- MODULE DriverLifeProofs --------------------------
(***************************************************************************)
(* Proofs about loading and unloading, for each of the seven drivers and   *)
(* any of them in turn.  The tables are looked at once, one by one: what   *)
(* all of them have in common (Fits) is all that the steps need.           *)
(***************************************************************************)
EXTENDS DriverLife, TLAPS

-----------------------------------------------------------------------------
(* What a driver's table has taken, and given back, before a step.         *)

Things == Names \cup Memory \cup Pointers \cup {"timer"}

TakenBefore(T, k) == {r \in Things : \E i \in 1..(k - 1) : r \in T.load[i].take}
GivenBefore(T, k) == {r \in Things : \E i \in 1..(k - 1) : r = T.unload[i]}

AllTaken(T) == TakenBefore(T, Len(T.load) + 1)
AllGiven(T) == GivenBefore(T, Len(T.unload) + 1)

Labs == {"mytraffic", "lab3timer", "lab2timer"}

-----------------------------------------------------------------------------
(***************************************************************************)
(* What is true of the seven tables.  T is a driver's table, E what it is  *)
(* exposed to.                                                             *)
(***************************************************************************)

Sizes(T) ==
    /\ Len(T.load) \in 1..10 /\ Len(T.unload) \in 1..10
    /\ \A k \in 1..Len(T.load) : T.load[k].take \subseteq Things
    /\ T.arms \subseteq {"timer"} /\ T.rearms \subseteq {"timer"}

\* What is touched by the ways into a driver that is there has been taken.
Complete(T) ==
    /\ T.press \cup T.call \cup T.tick \cup T.show \subseteq AllTaken(T) \ {"timer"}
    /\ \A k \in 1..(Len(T.load) + 1) :
         /\ "ptr0" \in TakenBefore(T, k) => "slot0" \in TakenBefore(T, k)
         /\ "ptr1" \in TakenBefore(T, k) => "slot1" \in TakenBefore(T, k)

\* Nothing leads into it before that, or it is exposed to an early entry.
InOrder(T, E) ==
    /\ "early" \notin E =>
         \A k \in 1..Len(T.load) :
           /\ "irq0" \in TakenBefore(T, k) => T.press \subseteq TakenBefore(T, k)
           /\ "chrdev" \in TakenBefore(T, k) => T.call \subseteq TakenBefore(T, k)
           /\ "proc" \in TakenBefore(T, k) => T.show \subseteq TakenBefore(T, k)
    /\ \A k \in 1..Len(T.load) :
         "timer" \in T.load[k].take => T.tick \subseteq TakenBefore(T, k)
    /\ T.arms # {} =>
         T.tick \subseteq T.call /\ ("irq0" \in AllTaken(T) => T.tick \subseteq T.press)

\* Nothing leads into it once exit gives back what is touched, or it is
\* exposed to a late entry, an open file or a pending timer.
OutOrder(T, E) ==
    /\ "late" \notin E =>
         /\ "irq0" \in AllTaken(T) => T.press = {} /\ T.arms = {}
         /\ "ptr0" \notin AllTaken(T) /\ "ptr1" \notin AllTaken(T)
         /\ \A k \in 1..Len(T.unload) :
              "proc" \in AllTaken(T) /\ "proc" \notin GivenBefore(T, k)
                => T.show \cap GivenBefore(T, k) = {}
    /\ ~T.owner => "open" \in E
    /\ T.arms # {} \/ "timer" \in AllTaken(T) =>
         "failed" \in E /\ ("pending" \in E \/ T.unload[1] = "timer")

\* Exit gives back what init has taken; so does init when it fails, or the
\* driver is exposed to that.
Tidy(T, E, d) ==
    /\ AllTaken(T) \cap Names \subseteq AllGiven(T)
    /\ d # "lab2timer" => AllTaken(T) \cap Memory \subseteq AllGiven(T)
    /\ "failed" \in E => d \in Labs
    /\ \A k \in 1..Len(T.load) :
         /\ "failed" \notin E => TakenBefore(T, k) \cap Names \subseteq T.load[k].undo
         /\ "chrdev" \in TakenBefore(T, k) =>
              "early" \in E \/ ("failed" \in E /\ "chrdev" \notin T.load[k].undo)
         /\ d # "lab2timer" /\ T.load[k].take \cap Memory # {} =>
              TakenBefore(T, k) \cap Memory \subseteq T.load[k].undo

Fits(T, E, d) ==
    /\ Sizes(T) /\ Complete(T) /\ InOrder(T, E) /\ OutOrder(T, E) /\ Tidy(T, E, d)

-----------------------------------------------------------------------------
(***************************************************************************)
(* The inductive invariant.                                                *)
(***************************************************************************)
E == Exposed[driver]

Places ==
    /\ phase = "loading" => step \in 1..Len(D.load)
    /\ phase = "unloading" => step \in 1..Len(D.unload)
    /\ phase \in {"out", "in", "crashed"} => step = 1

\* But for the timer, a driver holds what the steps so far have left it.
HeldInv ==
    /\ phase = "loading" => held \ {"timer"} = TakenBefore(D, step) \ {"timer"}
    /\ phase = "in" => held \ {"timer"} = AllTaken(D) \ {"timer"}
    /\ phase = "unloading" =>
         held \ {"timer"} = (AllTaken(D) \ {"timer"}) \ GivenBefore(D, step)

\* A timer that is pending finds what it touches, or there is a cause.
TimerInv ==
    /\ "timer" \in held => D.arms # {} \/ "timer" \in AllTaken(D)
    /\ phase = "loading" /\ "timer" \in held => D.tick \subseteq held
    /\ phase = "unloading" /\ "timer" \in held =>
         causes \cap E # {} \/ (step = 1 /\ D.unload[1] = "timer")

\* A file that is open while init or exit runs is a cause.
OpenInv ==
    /\ phase = "out" => ~opened
    /\ phase = "loading" /\ opened => "chrdev" \in held /\ "early" \in causes
    /\ phase = "unloading" /\ opened => ~D.owner /\ "open" \in causes

OrphanInv == orphans \cap Entries # {} => causes \cap E # {}

IInv == TypeOK /\ Places /\ HeldInv /\ TimerInv /\ OpenInv /\ OrphanInv /\ CrashHasCause

-----------------------------------------------------------------------------
(* The seven tables. *)

LEMMA TakenSteps ==
    ASSUME NEW T
    PROVE  /\ TakenBefore(T, 1) = {}
           /\ \A k \in 2..11 :
                T.load[k - 1].take \subseteq Things =>
                  TakenBefore(T, k) = TakenBefore(T, k - 1) \cup T.load[k - 1].take
<1>1. TakenBefore(T, 1) = {}
  BY DEF TakenBefore
<1>2. ASSUME NEW k \in 2..11, T.load[k - 1].take \subseteq Things
      PROVE  TakenBefore(T, k) = TakenBefore(T, k - 1) \cup T.load[k - 1].take
  <2>1. \A i : i \in 1..(k - 1) <=> i \in 1..((k - 1) - 1) \/ i = k - 1
    OBVIOUS
  <2> QED
    BY <1>2, <2>1 DEF TakenBefore
<1> QED
  BY <1>1, <1>2

LEMMA GivenSteps ==
    ASSUME NEW T
    PROVE  /\ GivenBefore(T, 1) = {}
           /\ \A k \in 2..11 :
                T.unload[k - 1] \in Things =>
                  GivenBefore(T, k) = GivenBefore(T, k - 1) \cup {T.unload[k - 1]}
<1>1. GivenBefore(T, 1) = {}
  BY DEF GivenBefore
<1>2. ASSUME NEW k \in 2..11, T.unload[k - 1] \in Things
      PROVE  GivenBefore(T, k) = GivenBefore(T, k - 1) \cup {T.unload[k - 1]}
  <2>1. \A i : i \in 1..(k - 1) <=> i \in 1..((k - 1) - 1) \/ i = k - 1
    OBVIOUS
  <2> QED
    BY <1>2, <2>1 DEF GivenBefore
<1> QED
  BY <1>1, <1>2

LEMMA ThingsAre ==
    Things = {"green", "yellow", "red", "btn0", "btn1", "irq0", "irq1", "chrdev", "proc",
              "device", "my_timer", "list_pot", "slot0", "slot1", "slots", "buffer",
              "cookie_pot", "ptr0", "ptr1", "timer"}
BY DEF Things, Names, Memory, Pointers

LEMMA MyTrafficFits == Fits(MyTraffic, Exposed["mytraffic"], "mytraffic")
<1> DEFINE T == MyTraffic
           X == Exposed["mytraffic"]
<1>1. /\ Len(T.load) = 10 /\ T.load[1].take = {"my_timer"} /\ T.load[2].take = {"timer"}
      /\ T.load[3].take = {"green"} /\ T.load[4].take = {"yellow"} /\ T.load[5].take = {"red"}
      /\ T.load[6].take = {"btn0"} /\ T.load[7].take = {"btn1"} /\ T.load[8].take = {"irq0"}
      /\ T.load[9].take = {"irq1"} /\ T.load[10].take = {"chrdev"} /\ T.load[1].undo = {}
      /\ T.load[2].undo = {} /\ T.load[3].undo = {} /\ T.load[4].undo = {} /\ T.load[5].undo = {}
      /\ T.load[6].undo = {} /\ T.load[7].undo = {} /\ T.load[8].undo = {} /\ T.load[9].undo = {}
      /\ T.load[10].undo = {}
  BY DEF MyTraffic, mytraffic_init, mytraffic_exit, Take
<1>2. /\ Len(T.unload) = 10 /\ T.unload[1] = "timer" /\ T.unload[2] = "my_timer"
      /\ T.unload[3] = "irq0" /\ T.unload[4] = "irq1" /\ T.unload[5] = "red"
      /\ T.unload[6] = "yellow" /\ T.unload[7] = "green" /\ T.unload[8] = "btn0"
      /\ T.unload[9] = "btn1" /\ T.unload[10] = "chrdev"
  BY DEF MyTraffic, mytraffic_init, mytraffic_exit, Take
<1>3. /\ T.press = {"my_timer"} /\ T.call = {"my_timer"} /\ T.tick = {"my_timer"} /\ T.show = {}
      /\ T.arms = {"timer"} /\ T.rearms = {"timer"} /\ ~T.owner /\ X = {"failed", "late", "open"}
  BY DEF MyTraffic, mytraffic_init, mytraffic_exit, Take, Exposed
<1> HIDE DEF T, X
<1>4. \A k \in 1..10 : \/ k = 1 \/ k = 2 \/ k = 3 \/ k = 4 \/ k = 5
                       \/ k = 6 \/ k = 7 \/ k = 8 \/ k = 9 \/ k = 10
  OBVIOUS
<1>5. TakenBefore(T, 1) = {}
  BY TakenSteps
<1>6. TakenBefore(T, 2) = {"my_timer"}
  BY <1>1, <1>5, TakenSteps, ThingsAre
<1>7. TakenBefore(T, 3) = {"my_timer", "timer"}
  BY <1>1, <1>6, TakenSteps, ThingsAre
<1>8. TakenBefore(T, 4) = {"my_timer", "timer", "green"}
  BY <1>1, <1>7, TakenSteps, ThingsAre
<1>9. TakenBefore(T, 5) = {"my_timer", "timer", "green", "yellow"}
  BY <1>1, <1>8, TakenSteps, ThingsAre
<1>10. TakenBefore(T, 6) = {"my_timer", "timer", "green", "yellow", "red"}
  BY <1>1, <1>9, TakenSteps, ThingsAre
<1>11. TakenBefore(T, 7) = {"my_timer", "timer", "green", "yellow", "red", "btn0"}
  BY <1>1, <1>10, TakenSteps, ThingsAre
<1>12. TakenBefore(T, 8) = {"my_timer", "timer", "green", "yellow", "red", "btn0", "btn1"}
  BY <1>1, <1>11, TakenSteps, ThingsAre
<1>13. TakenBefore(T, 9) = {"my_timer", "timer", "green", "yellow", "red", "btn0", "btn1",
                            "irq0"}
  BY <1>1, <1>12, TakenSteps, ThingsAre
<1>14. TakenBefore(T, 10) = {"my_timer", "timer", "green", "yellow", "red", "btn0", "btn1",
                             "irq0", "irq1"}
  BY <1>1, <1>13, TakenSteps, ThingsAre
<1>15. TakenBefore(T, 11) = {"my_timer", "timer", "green", "yellow", "red", "btn0", "btn1",
                             "irq0", "irq1", "chrdev"}
  BY <1>1, <1>14, TakenSteps, ThingsAre
<1>16. AllTaken(T) = {"my_timer", "timer", "green", "yellow", "red", "btn0", "btn1", "irq0",
                      "irq1", "chrdev"}
  BY <1>1, <1>15 DEF AllTaken
<1>17. AllGiven(T) = {"timer", "my_timer", "irq0", "irq1", "red", "yellow", "green", "btn0",
                      "btn1", "chrdev"}
  BY <1>2, GivenSteps, ThingsAre DEF AllGiven
<1>18. Sizes(T)
  <2>1. \A k \in 1..10 : T.load[k].take \subseteq Things
    BY <1>1, <1>4, ThingsAre
  <2> QED
    BY <1>1, <1>2, <1>3, <2>1 DEF Sizes
<1>19. Complete(T)
  <2>1. \A k \in 1..11 : k \in 1..10 \/ k = 11
    OBVIOUS
  <2> QED
    BY <1>1, <1>3, <1>4, <2>1, <1>5, <1>6, <1>7, <1>8, <1>9, <1>10, <1>11, <1>12, <1>13,
       <1>14, <1>15, <1>16 DEF Complete
<1>20. InOrder(T, X)
  BY <1>1, <1>3, <1>4, <1>5, <1>6, <1>7, <1>8, <1>9, <1>10, <1>11, <1>12, <1>13, <1>14,
     <1>15, <1>16 DEF InOrder
<1>21. OutOrder(T, X)
  BY <1>2, <1>3, <1>16 DEF OutOrder
<1>22. Tidy(T, X, "mytraffic")
  BY <1>1, <1>3, <1>4, <1>5, <1>6, <1>7, <1>8, <1>9, <1>10, <1>11, <1>12, <1>13, <1>14,
     <1>15, <1>16, <1>17 DEF Tidy, Labs, Names, Memory
<1> QED
  BY <1>18, <1>19, <1>20, <1>21, <1>22 DEF Fits, T, X

LEMMA Lab3TimerFits == Fits(Lab3Timer, Exposed["lab3timer"], "lab3timer")
<1> DEFINE T == Lab3Timer
           X == Exposed["lab3timer"]
<1>1. /\ Len(T.load) = 5 /\ T.load[1].take = {"list_pot"} /\ T.load[2].take = {"slot0", "ptr0"}
      /\ T.load[3].take = {"slot1", "ptr1"} /\ T.load[4].take = {"chrdev"}
      /\ T.load[5].take = {"proc"} /\ T.load[1].undo = {} /\ T.load[2].undo = {"list_pot"}
      /\ T.load[3].undo = {"list_pot", "slot0"} /\ T.load[4].undo = {}
      /\ T.load[5].undo = {"list_pot"}
  BY DEF Lab3Timer, lab3_init, lab3_exit, Take
<1>2. /\ Len(T.unload) = 7 /\ T.unload[1] = "chrdev" /\ T.unload[2] = "slot0"
      /\ T.unload[3] = "ptr0" /\ T.unload[4] = "slot1" /\ T.unload[5] = "ptr1"
      /\ T.unload[6] = "proc" /\ T.unload[7] = "list_pot"
  BY DEF Lab3Timer, lab3_init, lab3_exit, Take
<1>3. /\ T.press = {} /\ T.call = {"slot0", "slot1"} /\ T.tick = {"slot0", "slot1"} /\ T.show = {}
      /\ T.arms = {"timer"} /\ T.rearms = {} /\ ~T.owner
      /\ X = {"failed", "late", "open", "pending"}
  BY DEF Lab3Timer, lab3_init, lab3_exit, Take, Exposed
<1> HIDE DEF T, X
<1>4. \A k \in 1..5 : k = 1 \/ k = 2 \/ k = 3 \/ k = 4 \/ k = 5
  OBVIOUS
<1>5. TakenBefore(T, 1) = {}
  BY TakenSteps
<1>6. TakenBefore(T, 2) = {"list_pot"}
  BY <1>1, <1>5, TakenSteps, ThingsAre
<1>7. TakenBefore(T, 3) = {"list_pot", "slot0", "ptr0"}
  BY <1>1, <1>6, TakenSteps, ThingsAre
<1>8. TakenBefore(T, 4) = {"list_pot", "slot0", "ptr0", "slot1", "ptr1"}
  BY <1>1, <1>7, TakenSteps, ThingsAre
<1>9. TakenBefore(T, 5) = {"list_pot", "slot0", "ptr0", "slot1", "ptr1", "chrdev"}
  BY <1>1, <1>8, TakenSteps, ThingsAre
<1>10. TakenBefore(T, 6) = {"list_pot", "slot0", "ptr0", "slot1", "ptr1", "chrdev", "proc"}
  BY <1>1, <1>9, TakenSteps, ThingsAre
<1>11. AllTaken(T) = {"list_pot", "slot0", "ptr0", "slot1", "ptr1", "chrdev", "proc"}
  BY <1>1, <1>10 DEF AllTaken
<1>12. AllGiven(T) = {"chrdev", "slot0", "ptr0", "slot1", "ptr1", "proc", "list_pot"}
  BY <1>2, GivenSteps, ThingsAre DEF AllGiven
<1>13. Sizes(T)
  <2>1. \A k \in 1..5 : T.load[k].take \subseteq Things
    BY <1>1, <1>4, ThingsAre
  <2> QED
    BY <1>1, <1>2, <1>3, <2>1 DEF Sizes
<1>14. Complete(T)
  <2>1. \A k \in 1..6 : k \in 1..5 \/ k = 6
    OBVIOUS
  <2> QED
    BY <1>1, <1>3, <1>4, <2>1, <1>5, <1>6, <1>7, <1>8, <1>9, <1>10, <1>11 DEF Complete
<1>15. InOrder(T, X)
  BY <1>1, <1>3, <1>4, <1>5, <1>6, <1>7, <1>8, <1>9, <1>10, <1>11 DEF InOrder
<1>16. OutOrder(T, X)
  BY <1>2, <1>3, <1>11 DEF OutOrder
<1>17. Tidy(T, X, "lab3timer")
  BY <1>1, <1>3, <1>4, <1>5, <1>6, <1>7, <1>8, <1>9, <1>10, <1>11, <1>12
  DEF Tidy, Labs, Names, Memory
<1> QED
  BY <1>13, <1>14, <1>15, <1>16, <1>17 DEF Fits, T, X

LEMMA Lab2TimerFits == Fits(Lab2Timer, Exposed["lab2timer"], "lab2timer")
<1> DEFINE T == Lab2Timer
           X == Exposed["lab2timer"]
<1>1. /\ Len(T.load) = 3 /\ T.load[1].take = {"chrdev"} /\ T.load[2].take = {"device"}
      /\ T.load[3].take = {"slots"} /\ T.load[1].undo = {} /\ T.load[2].undo = {}
      /\ T.load[3].undo = {}
  BY DEF Lab2Timer, lab2_init, lab2_exit, Take
<1>2. /\ Len(T.unload) = 2 /\ T.unload[1] = "device" /\ T.unload[2] = "chrdev"
  BY DEF Lab2Timer, lab2_init, lab2_exit, Take
<1>3. /\ T.press = {} /\ T.call = {"slots"} /\ T.tick = {"slots"} /\ T.show = {}
      /\ T.arms = {"timer"} /\ T.rearms = {} /\ T.owner /\ X = {"failed", "early", "pending"}
  BY DEF Lab2Timer, lab2_init, lab2_exit, Take, Exposed
<1> HIDE DEF T, X
<1>4. \A k \in 1..3 : k = 1 \/ k = 2 \/ k = 3
  OBVIOUS
<1>5. TakenBefore(T, 1) = {}
  BY TakenSteps
<1>6. TakenBefore(T, 2) = {"chrdev"}
  BY <1>1, <1>5, TakenSteps, ThingsAre
<1>7. TakenBefore(T, 3) = {"chrdev", "device"}
  BY <1>1, <1>6, TakenSteps, ThingsAre
<1>8. TakenBefore(T, 4) = {"chrdev", "device", "slots"}
  BY <1>1, <1>7, TakenSteps, ThingsAre
<1>9. AllTaken(T) = {"chrdev", "device", "slots"}
  BY <1>1, <1>8 DEF AllTaken
<1>10. AllGiven(T) = {"device", "chrdev"}
  BY <1>2, GivenSteps, ThingsAre DEF AllGiven
<1>11. Sizes(T)
  <2>1. \A k \in 1..3 : T.load[k].take \subseteq Things
    BY <1>1, <1>4, ThingsAre
  <2> QED
    BY <1>1, <1>2, <1>3, <2>1 DEF Sizes
<1>12. Complete(T)
  <2>1. \A k \in 1..4 : k \in 1..3 \/ k = 4
    OBVIOUS
  <2> QED
    BY <1>1, <1>3, <1>4, <2>1, <1>5, <1>6, <1>7, <1>8, <1>9 DEF Complete
<1>13. InOrder(T, X)
  BY <1>1, <1>3, <1>4, <1>5, <1>6, <1>7, <1>8, <1>9 DEF InOrder
<1>14. OutOrder(T, X)
  BY <1>2, <1>3, <1>9 DEF OutOrder
<1>15. Tidy(T, X, "lab2timer")
  BY <1>1, <1>3, <1>4, <1>5, <1>6, <1>7, <1>8, <1>9, <1>10 DEF Tidy, Labs, Names, Memory
<1> QED
  BY <1>11, <1>12, <1>13, <1>14, <1>15 DEF Fits, T, X

LEMMA NibblerFits == Fits(Nibbler, Exposed["nibbler"], "nibbler")
<1> DEFINE T == Nibbler
           X == Exposed["nibbler"]
<1>1. /\ Len(T.load) = 2 /\ T.load[1].take = {"chrdev"} /\ T.load[2].take = {"buffer"}
      /\ T.load[1].undo = {} /\ T.load[2].undo = {"chrdev"}
  BY DEF Nibbler, Quiet, nibbler_init, nibbler_exit, Take
<1>2. /\ Len(T.unload) = 2 /\ T.unload[1] = "chrdev" /\ T.unload[2] = "buffer"
  BY DEF Nibbler, Quiet, nibbler_init, nibbler_exit, Take
<1>3. /\ T.press = {} /\ T.call = {"buffer"} /\ T.tick = {} /\ T.show = {} /\ T.arms = {}
      /\ T.rearms = {} /\ ~T.owner /\ X = {"early", "open"}
  BY DEF Nibbler, Quiet, nibbler_init, nibbler_exit, Take, Exposed
<1> HIDE DEF T, X
<1>4. \A k \in 1..2 : k = 1 \/ k = 2
  OBVIOUS
<1>5. TakenBefore(T, 1) = {}
  BY TakenSteps
<1>6. TakenBefore(T, 2) = {"chrdev"}
  BY <1>1, <1>5, TakenSteps, ThingsAre
<1>7. TakenBefore(T, 3) = {"chrdev", "buffer"}
  BY <1>1, <1>6, TakenSteps, ThingsAre
<1>8. AllTaken(T) = {"chrdev", "buffer"}
  BY <1>1, <1>7 DEF AllTaken
<1>9. AllGiven(T) = {"chrdev", "buffer"}
  BY <1>2, GivenSteps, ThingsAre DEF AllGiven
<1>10. Sizes(T)
  <2>1. \A k \in 1..2 : T.load[k].take \subseteq Things
    BY <1>1, <1>4, ThingsAre
  <2> QED
    BY <1>1, <1>2, <1>3, <2>1 DEF Sizes
<1>11. Complete(T)
  <2>1. \A k \in 1..3 : k \in 1..2 \/ k = 3
    OBVIOUS
  <2> QED
    BY <1>1, <1>3, <1>4, <2>1, <1>5, <1>6, <1>7, <1>8 DEF Complete
<1>12. InOrder(T, X)
  BY <1>1, <1>3, <1>4, <1>5, <1>6, <1>7, <1>8 DEF InOrder
<1>13. OutOrder(T, X)
  BY <1>2, <1>3, <1>8 DEF OutOrder
<1>14. Tidy(T, X, "nibbler")
  BY <1>1, <1>3, <1>4, <1>5, <1>6, <1>7, <1>8, <1>9 DEF Tidy, Labs, Names, Memory
<1> QED
  BY <1>10, <1>11, <1>12, <1>13, <1>14 DEF Fits, T, X

LEMMA MemoryDriverFits == Fits(MemoryDriver, Exposed["memory"], "memory")
<1> DEFINE T == MemoryDriver
           X == Exposed["memory"]
<1>1. /\ Len(T.load) = 2 /\ T.load[1].take = {"chrdev"} /\ T.load[2].take = {"buffer"}
      /\ T.load[1].undo = {} /\ T.load[2].undo = {"chrdev"}
  BY DEF MemoryDriver, Quiet, memory_init, memory_exit, Take
<1>2. /\ Len(T.unload) = 2 /\ T.unload[1] = "chrdev" /\ T.unload[2] = "buffer"
  BY DEF MemoryDriver, Quiet, memory_init, memory_exit, Take
<1>3. /\ T.press = {} /\ T.call = {"buffer"} /\ T.tick = {} /\ T.show = {} /\ T.arms = {}
      /\ T.rearms = {} /\ ~T.owner /\ X = {"early", "open"}
  BY DEF MemoryDriver, Quiet, memory_init, memory_exit, Take, Exposed
<1> HIDE DEF T, X
<1>4. \A k \in 1..2 : k = 1 \/ k = 2
  OBVIOUS
<1>5. TakenBefore(T, 1) = {}
  BY TakenSteps
<1>6. TakenBefore(T, 2) = {"chrdev"}
  BY <1>1, <1>5, TakenSteps, ThingsAre
<1>7. TakenBefore(T, 3) = {"chrdev", "buffer"}
  BY <1>1, <1>6, TakenSteps, ThingsAre
<1>8. AllTaken(T) = {"chrdev", "buffer"}
  BY <1>1, <1>7 DEF AllTaken
<1>9. AllGiven(T) = {"chrdev", "buffer"}
  BY <1>2, GivenSteps, ThingsAre DEF AllGiven
<1>10. Sizes(T)
  <2>1. \A k \in 1..2 : T.load[k].take \subseteq Things
    BY <1>1, <1>4, ThingsAre
  <2> QED
    BY <1>1, <1>2, <1>3, <2>1 DEF Sizes
<1>11. Complete(T)
  <2>1. \A k \in 1..3 : k \in 1..2 \/ k = 3
    OBVIOUS
  <2> QED
    BY <1>1, <1>3, <1>4, <2>1, <1>5, <1>6, <1>7, <1>8 DEF Complete
<1>12. InOrder(T, X)
  BY <1>1, <1>3, <1>4, <1>5, <1>6, <1>7, <1>8 DEF InOrder
<1>13. OutOrder(T, X)
  BY <1>2, <1>3, <1>8 DEF OutOrder
<1>14. Tidy(T, X, "memory")
  BY <1>1, <1>3, <1>4, <1>5, <1>6, <1>7, <1>8, <1>9 DEF Tidy, Labs, Names, Memory
<1> QED
  BY <1>10, <1>11, <1>12, <1>13, <1>14 DEF Fits, T, X

LEMMA FortuneFits == Fits(Fortune, Exposed["fortune"], "fortune")
<1> DEFINE T == Fortune
           X == Exposed["fortune"]
<1>1. /\ Len(T.load) = 2 /\ T.load[1].take = {"cookie_pot"} /\ T.load[2].take = {"proc"}
      /\ T.load[1].undo = {} /\ T.load[2].undo = {"cookie_pot"}
  BY DEF Fortune, Quiet, fortune_init, fortune_exit, Take
<1>2. /\ Len(T.unload) = 2 /\ T.unload[1] = "proc" /\ T.unload[2] = "cookie_pot"
  BY DEF Fortune, Quiet, fortune_init, fortune_exit, Take
<1>3. /\ T.press = {} /\ T.call = {} /\ T.tick = {} /\ T.show = {"cookie_pot"} /\ T.arms = {}
      /\ T.rearms = {} /\ T.owner /\ X = {}
  BY DEF Fortune, Quiet, fortune_init, fortune_exit, Take, Exposed
<1> HIDE DEF T, X
<1>4. \A k \in 1..2 : k = 1 \/ k = 2
  OBVIOUS
<1>5. TakenBefore(T, 1) = {}
  BY TakenSteps
<1>6. TakenBefore(T, 2) = {"cookie_pot"}
  BY <1>1, <1>5, TakenSteps, ThingsAre
<1>7. TakenBefore(T, 3) = {"cookie_pot", "proc"}
  BY <1>1, <1>6, TakenSteps, ThingsAre
<1>8. AllTaken(T) = {"cookie_pot", "proc"}
  BY <1>1, <1>7 DEF AllTaken
<1>9. GivenBefore(T, 1) = {} /\ GivenBefore(T, 2) = {"proc"}
  BY <1>2, GivenSteps, ThingsAre
<1>10. AllGiven(T) = {"proc", "cookie_pot"}
  BY <1>2, GivenSteps, ThingsAre DEF AllGiven
<1>11. Sizes(T)
  <2>1. \A k \in 1..2 : T.load[k].take \subseteq Things
    BY <1>1, <1>4, ThingsAre
  <2> QED
    BY <1>1, <1>2, <1>3, <2>1 DEF Sizes
<1>12. Complete(T)
  <2>1. \A k \in 1..3 : k \in 1..2 \/ k = 3
    OBVIOUS
  <2> QED
    BY <1>1, <1>3, <1>4, <2>1, <1>5, <1>6, <1>7, <1>8 DEF Complete
<1>13. InOrder(T, X)
  BY <1>1, <1>3, <1>4, <1>5, <1>6, <1>7, <1>8 DEF InOrder
<1>14. OutOrder(T, X)
  <2>1. \A k \in 1..2 : k = 1 \/ k = 2
    OBVIOUS
  <2> QED
    BY <1>2, <1>3, <1>8, <1>9, <2>1 DEF OutOrder
<1>15. Tidy(T, X, "fortune")
  BY <1>1, <1>3, <1>4, <1>5, <1>6, <1>7, <1>8, <1>10 DEF Tidy, Labs, Names, Memory
<1> QED
  BY <1>11, <1>12, <1>13, <1>14, <1>15 DEF Fits, T, X

LEMMA IntModFits == Fits(IntMod, Exposed["int_mod"], "int_mod")
<1> DEFINE T == IntMod
           X == Exposed["int_mod"]
<1>1. /\ Len(T.load) = 1 /\ T.load[1].take = {"irq0"} /\ T.load[1].undo = {}
  BY DEF IntMod, Quiet, int_mod_init, int_mod_exit, Take
<1>2. /\ Len(T.unload) = 1 /\ T.unload[1] = "irq0"
  BY DEF IntMod, Quiet, int_mod_init, int_mod_exit, Take
<1>3. /\ T.press = {} /\ T.call = {} /\ T.tick = {} /\ T.show = {} /\ T.arms = {} /\ T.rearms = {}
      /\ T.owner /\ X = {}
  BY DEF IntMod, Quiet, int_mod_init, int_mod_exit, Take, Exposed
<1> HIDE DEF T, X
<1>4. \A k \in 1..1 : k = 1
  OBVIOUS
<1>5. TakenBefore(T, 1) = {}
  BY TakenSteps
<1>6. TakenBefore(T, 2) = {"irq0"}
  BY <1>1, <1>5, TakenSteps, ThingsAre
<1>7. AllTaken(T) = {"irq0"}
  BY <1>1, <1>6 DEF AllTaken
<1>8. AllGiven(T) = {"irq0"}
  BY <1>2, GivenSteps, ThingsAre DEF AllGiven
<1>9. Sizes(T)
  <2>1. \A k \in 1..1 : T.load[k].take \subseteq Things
    BY <1>1, <1>4, ThingsAre
  <2> QED
    BY <1>1, <1>2, <1>3, <2>1 DEF Sizes
<1>10. Complete(T)
  <2>1. \A k \in 1..2 : k \in 1..1 \/ k = 2
    OBVIOUS
  <2> QED
    BY <1>1, <1>3, <1>4, <2>1, <1>5, <1>6, <1>7 DEF Complete
<1>11. InOrder(T, X)
  BY <1>1, <1>3, <1>4, <1>5, <1>6, <1>7 DEF InOrder
<1>12. OutOrder(T, X)
  BY <1>2, <1>3, <1>7 DEF OutOrder
<1>13. Tidy(T, X, "int_mod")
  BY <1>1, <1>3, <1>4, <1>5, <1>6, <1>7, <1>8 DEF Tidy, Labs, Names, Memory
<1> QED
  BY <1>9, <1>10, <1>11, <1>12, <1>13 DEF Fits, T, X

-----------------------------------------------------------------------------
(* The driver that is tried. *)

LEMMA TableFits == TypeOK => Fits(D, E, driver)
<1> SUFFICES ASSUME TypeOK PROVE Fits(D, E, driver)
  OBVIOUS
<1>1. driver \in {"mytraffic", "lab3timer", "lab2timer", "nibbler", "memory", "fortune", "int_mod"}
  BY DriversAssumption DEF TypeOK, Table
<1>2. CASE driver = "mytraffic"
  <2>1. D = MyTraffic /\ E = Exposed["mytraffic"]
    BY <1>2 DEF D, Table, E
  <2> QED
    BY <1>2, <2>1, MyTrafficFits
<1>3. CASE driver = "lab3timer"
  <2>1. D = Lab3Timer /\ E = Exposed["lab3timer"]
    BY <1>3 DEF D, Table, E
  <2> QED
    BY <1>3, <2>1, Lab3TimerFits
<1>4. CASE driver = "lab2timer"
  <2>1. D = Lab2Timer /\ E = Exposed["lab2timer"]
    BY <1>4 DEF D, Table, E
  <2> QED
    BY <1>4, <2>1, Lab2TimerFits
<1>5. CASE driver = "nibbler"
  <2>1. D = Nibbler /\ E = Exposed["nibbler"]
    BY <1>5 DEF D, Table, E
  <2> QED
    BY <1>5, <2>1, NibblerFits
<1>6. CASE driver = "memory"
  <2>1. D = MemoryDriver /\ E = Exposed["memory"]
    BY <1>6 DEF D, Table, E
  <2> QED
    BY <1>6, <2>1, MemoryDriverFits
<1>7. CASE driver = "fortune"
  <2>1. D = Fortune /\ E = Exposed["fortune"]
    BY <1>7 DEF D, Table, E
  <2> QED
    BY <1>7, <2>1, FortuneFits
<1>8. CASE driver = "int_mod"
  <2>1. D = IntMod /\ E = Exposed["int_mod"]
    BY <1>8 DEF D, Table, E
  <2> QED
    BY <1>8, <2>1, IntModFits
<1> QED
  BY <1>1, <1>2, <1>3, <1>4, <1>5, <1>6, <1>7, <1>8

LEMMA SameDriver == driver' = driver => D' = D /\ E' = E
BY DEF D, E

\* A place in a short list, the first place, and the next one.
LEMMA Place ==
    ASSUME NEW n \in 1..10, NEW k \in 1..n
    PROVE  /\ n \in Nat /\ k \in Nat /\ k \in 1..10
           /\ k + 1 \in 2..11 /\ (k + 1) - 1 = k
           /\ k # n => k + 1 \in 1..n /\ k + 1 \in 1..10
OBVIOUS

LEMMA FirstPlace == \A n \in 1..10 : 1 \in 1..n
OBVIOUS

LEMMA TakenIs ==
    ASSUME NEW T, Sizes(T), NEW k \in 1..Len(T.load)
    PROVE  /\ TakenBefore(T, k + 1) = TakenBefore(T, k) \cup T.load[k].take
           /\ TakenBefore(T, k) \subseteq AllTaken(T)
           /\ T.load[k].take \subseteq AllTaken(T)
<1>0. Len(T.load) \in 1..10
  BY DEF Sizes
<1>1. Len(T.load) \in Nat /\ k \in Nat /\ k + 1 \in 2..11 /\ (k + 1) - 1 = k
  BY <1>0, Place
<1>2. TakenBefore(T, k + 1) = TakenBefore(T, k) \cup T.load[k].take
  BY <1>1, TakenSteps DEF Sizes
<1>3. TakenBefore(T, k) \subseteq AllTaken(T)
  <2>1. 1..(k - 1) \subseteq 1..((Len(T.load) + 1) - 1)
    BY <1>1
  <2> QED
    BY <2>1 DEF TakenBefore, AllTaken
<1>4. T.load[k].take \subseteq AllTaken(T)
  <2>1. k \in 1..((Len(T.load) + 1) - 1)
    BY <1>1
  <2> QED
    BY <2>1 DEF TakenBefore, AllTaken, Sizes
<1> QED
  BY <1>2, <1>3, <1>4

LEMMA GivenIs ==
    ASSUME NEW T, Sizes(T), NEW k \in 1..Len(T.unload), NEW r \in Things
    PROVE  r \in GivenBefore(T, k + 1) <=> r \in GivenBefore(T, k) \/ r = T.unload[k]
<1>1. Len(T.unload) \in Nat /\ k \in Nat
  BY Place DEF Sizes
<1>2. \A i : i \in 1..((k + 1) - 1) <=> i \in 1..(k - 1) \/ i = k
  BY <1>1
<1> QED
  BY <1>2 DEF GivenBefore

LEMMA ThingSets ==
    /\ Things = Names \cup Memory \cup Pointers \cup {"timer"}
    /\ Names \subseteq Things /\ Memory \subseteq Things
    /\ "timer" \notin Names /\ "file" \notin Names /\ "timer" \notin Memory
    /\ "chrdev" \in Names /\ "irq0" \in Names /\ "proc" \in Names
    /\ Memory \cap Names = {} /\ {"slot0", "slot1"} \subseteq Memory
    /\ Entries \subseteq Names \cup {"timer", "file"} /\ {"timer", "file"} \subseteq Entries
BY DEF Things, Names, Memory, Pointers, Entries

-----------------------------------------------------------------------------
(* Loading and unloading. *)

LEMMA InitDriver == Init => IInv
<1> SUFFICES ASSUME Init PROVE IInv
  OBVIOUS
<1>1. TypeOK
  <2>1. step \in 1..10
    BY DEF Init
  <2>2. opened \in BOOLEAN
    BY DEF Init
  <2> QED
    BY <2>1, <2>2 DEF Init, TypeOK
<1> QED
  BY <1>1 DEF Init, IInv, Places, HeldInv, TimerInv, OpenInv, OrphanInv, CrashHasCause

LEMMA LoadInv == IInv /\ Load => IInv'
<1> SUFFICES ASSUME IInv, Load PROVE IInv'
  OBVIOUS
<1>1. D' = D /\ E' = E
  BY SameDriver DEF Load
<1>2. Sizes(D)
  BY TableFits DEF IInv, Fits
<1>3. TypeOK'
  BY DEF IInv, TypeOK, Load
<1>4. Places'
  <2>1. step' = 1 /\ phase' = "loading" /\ Len(D.load) \in 1..10
    BY <1>2 DEF IInv, Places, Load, Sizes
  <2>2. 1 \in 1..Len(D.load)
    BY <2>1, FirstPlace
  <2> QED
    BY <1>1, <2>1, <2>2 DEF Places
<1>5. HeldInv'
  BY <1>1, TakenSteps DEF IInv, Places, HeldInv, Load
<1>6. TimerInv' /\ OpenInv'
  BY <1>1 DEF IInv, TimerInv, OpenInv, Load
<1>7. OrphanInv' /\ CrashHasCause'
  BY <1>1 DEF IInv, OrphanInv, CrashHasCause, Load
<1> QED
  BY <1>3, <1>4, <1>5, <1>6, <1>7 DEF IInv

LEMMA LoadStepInv == IInv /\ LoadStep => IInv'
<1> SUFFICES ASSUME IInv, LoadStep PROVE IInv'
  OBVIOUS
<1>1. D' = D /\ E' = E
  BY SameDriver DEF LoadStep
<1>2. Fits(D, E, driver)
  BY TableFits DEF IInv
<1>3. phase = "loading" /\ step \in 1..Len(D.load) /\ Len(D.load) \in 1..10
  BY <1>2 DEF IInv, Places, LoadStep, Fits, Sizes
<1>4. /\ TakenBefore(D, step + 1) = TakenBefore(D, step) \cup D.load[step].take
      /\ D.load[step].take \subseteq AllTaken(D) /\ D.load[step].take \subseteq Things
  BY <1>2, <1>3, TakenIs DEF Fits, Sizes
<1>5. TypeOK'
  <2>1. step' \in 1..10
    <3>1. step' = 1 \/ (step' = step + 1 /\ step # Len(D.load))
      BY DEF LoadStep
    <3>2. step # Len(D.load) => step + 1 \in 1..10
      BY <1>3, Place
    <3>3. step' = 1 \/ step' \in 1..10
      BY <3>1, <3>2
    <3> QED
      BY <3>3
  <2>2. held' \subseteq Things
    BY <1>4 DEF LoadStep, IInv, TypeOK, Things
  <2> QED
    BY <2>1, <2>2, <1>3 DEF LoadStep, IInv, TypeOK, Things
<1>6. Places'
  BY <1>1, <1>3 DEF Places, LoadStep
<1>7. HeldInv'
  BY <1>1, <1>3, <1>4 DEF IInv, HeldInv, LoadStep, AllTaken
<1>8. TimerInv'
  <2>1. "timer" \in held' => D.arms # {} \/ "timer" \in AllTaken(D)
    BY <1>4 DEF IInv, TimerInv, LoadStep
  <2>2. ASSUME "timer" \in held' PROVE D.tick \subseteq held'
    <3>1. CASE "timer" \in held
      BY <3>1, <1>3 DEF IInv, TimerInv, LoadStep
    <3>2. CASE "timer" \in D.load[step].take
      <4>1. D.tick \subseteq TakenBefore(D, step) /\ "timer" \notin D.tick
        BY <3>2, <1>2, <1>3 DEF Fits, InOrder, Complete
      <4> QED
        BY <4>1, <1>3 DEF IInv, HeldInv, LoadStep
    <3> QED
      BY <2>2, <3>1, <3>2 DEF LoadStep
  <2> QED
    BY <1>1, <1>3, <2>1, <2>2 DEF TimerInv, LoadStep
<1>9. OpenInv' /\ OrphanInv' /\ CrashHasCause'
  BY <1>1, <1>3 DEF IInv, OpenInv, OrphanInv, CrashHasCause, LoadStep
<1> QED
  BY <1>5, <1>6, <1>7, <1>8, <1>9 DEF IInv

\* A driver that is gone, with a cause for whatever still leads into it.
LEMMA LeaveInv ==
    ASSUME IInv, NEW rest, NEW cause, Leave(rest, cause), UNCHANGED driver,
           rest \subseteq Things, cause \subseteq {"failed"},
           (rest \cap (Names \cup {"timer"}) # {} \/ opened) => (causes \cup cause) \cap E # {}
    PROVE  IInv'
<1>1. D' = D /\ E' = E
  BY SameDriver
<1>2. TypeOK'
  <2>1. step' \in 1..10
    BY DEF Leave
  <2>6. opened' \in BOOLEAN
    BY DEF Leave
  <2>2. orphans' \subseteq Names \cup {"timer", "file"}
    BY DEF Leave, IInv, TypeOK
  <2>3. held' \subseteq Things
    BY DEF Leave
  <2>4. causes' \subseteq {"failed", "early", "late", "open", "pending"}
    BY DEF Leave, IInv, TypeOK
  <2>5. phase' \in {"out", "loading", "in", "unloading", "crashed"} /\ driver' \in Drivers
    BY DEF Leave, IInv, TypeOK
  <2> QED
    BY <2>1, <2>2, <2>3, <2>4, <2>5, <2>6 DEF TypeOK, Things
<1>3. OrphanInv'
  <2>1. ASSUME orphans' # {}, orphans' \cap Entries # {}
        PROVE  causes' \cap E # {}
    <3>1. causes' = causes \cup cause
      BY <2>1 DEF Leave
    <3>2. PICK r : r \in orphans' \cap Entries
      BY <2>1
    <3>3. CASE r \in orphans
      BY <3>1, <3>2, <3>3 DEF IInv, OrphanInv
    <3>4. CASE r \in rest \cap (Names \cup {"timer"})
      BY <3>1, <3>4
    <3>5. CASE opened
      BY <3>1, <3>5
    <3> QED
      BY <3>2, <3>3, <3>4, <3>5 DEF Leave
  <2> QED
    BY <1>1, <2>1 DEF OrphanInv
<1> QED
  BY <1>2, <1>3 DEF Leave, IInv, Places, HeldInv, TimerInv, OpenInv, CrashHasCause, Names

LEMMA LoadFailsInv == IInv /\ LoadFails => IInv'
<1> SUFFICES ASSUME IInv, LoadFails PROVE IInv'
  OBVIOUS
<1> DEFINE rest == held \ D.load[step].undo
           cause == IF rest \cap (Names \cup {"timer"}) # {} THEN {"failed"} ELSE {}
<1>1. Fits(D, E, driver) /\ phase = "loading" /\ step \in 1..Len(D.load)
  BY TableFits DEF IInv, Places, LoadFails
<1>2. Leave(rest, cause) /\ UNCHANGED driver
  BY DEF LoadFails
<1>3. rest \subseteq Things /\ cause \subseteq {"failed"}
  BY DEF IInv, TypeOK, Things
<1>4. held \ {"timer"} = TakenBefore(D, step) \ {"timer"}
  BY <1>1 DEF IInv, HeldInv
<1>5. ASSUME rest \cap (Names \cup {"timer"}) # {}
      PROVE  "failed" \in E
  <2>1. PICK r : r \in rest /\ r \in Names \cup {"timer"}
    BY <1>5
  <2>2. CASE r = "timer"
    BY <2>1, <2>2, <1>1 DEF IInv, TimerInv, Fits, OutOrder
  <2>3. CASE r \in Names
    BY <2>1, <2>3, <1>1, <1>4, ThingSets DEF Fits, Tidy
  <2> QED
    BY <2>1, <2>2, <2>3
<1>6. ASSUME opened, "early" \notin E
      PROVE  rest \cap (Names \cup {"timer"}) # {}
  <2>1. "chrdev" \in held /\ "chrdev" \in TakenBefore(D, step)
    BY <1>1, <1>4, <1>6 DEF IInv, OpenInv
  <2> QED
    BY <1>1, <1>6, <2>1, ThingSets DEF Fits, Tidy
<1>7. opened => "early" \in causes
  BY <1>1 DEF IInv, OpenInv
<1>8. (rest \cap (Names \cup {"timer"}) # {} \/ opened) => (causes \cup cause) \cap E # {}
  BY <1>5, <1>6, <1>7
<1> QED
  BY <1>2, <1>3, <1>8, LeaveInv

LEMMA UnloadInv == IInv /\ Unload => IInv'
<1> SUFFICES ASSUME IInv, Unload PROVE IInv'
  OBVIOUS
<1>1. D' = D /\ E' = E
  BY SameDriver DEF Unload
<1>2. Fits(D, E, driver) /\ phase = "in" /\ step = 1
  BY TableFits DEF IInv, Places, Unload
<1>3. TypeOK'
  BY DEF Unload, IInv, TypeOK
<1>4. Places'
  <2>1. step' = 1 /\ phase' = "unloading" /\ Len(D.unload) \in 1..10
    BY <1>2 DEF Unload, Fits, Sizes
  <2>2. 1 \in 1..Len(D.unload)
    BY <2>1, FirstPlace
  <2> QED
    BY <1>1, <2>1, <2>2 DEF Places
<1>5. HeldInv'
  BY <1>1, <1>2, GivenSteps DEF IInv, HeldInv, Unload
<1>6. TimerInv'
  <2>1. "timer" \in held => "pending" \in E \/ D.unload[1] = "timer"
    BY <1>2 DEF IInv, TimerInv, Fits, OutOrder
  <2> QED
    BY <1>1, <1>2, <2>1 DEF IInv, TimerInv, Unload
<1>7. OpenInv'
  BY <1>1, <1>2 DEF OpenInv, Unload
<1>8. OrphanInv' /\ CrashHasCause'
  BY <1>1 DEF IInv, OrphanInv, CrashHasCause, Unload
<1> QED
  BY <1>3, <1>4, <1>5, <1>6, <1>7, <1>8 DEF IInv

LEMMA UnloadStepInv == IInv /\ UnloadStep => IInv'
<1> SUFFICES ASSUME IInv, UnloadStep PROVE IInv'
  OBVIOUS
<1> DEFINE rest == held \ {D.unload[step]}
<1>1. D' = D /\ E' = E
  BY SameDriver DEF UnloadStep
<1>2. Fits(D, E, driver) /\ phase = "unloading" /\ step \in 1..Len(D.unload)
      /\ Len(D.unload) \in 1..10
  BY TableFits DEF IInv, Places, UnloadStep, Fits, Sizes
<1>3. rest \subseteq Things
  BY DEF IInv, TypeOK, Things
<1>4. \A r \in Things \ {"timer"} :
        r \in rest <=> r \in AllTaken(D) /\ r \notin GivenBefore(D, step + 1)
  BY <1>2, GivenIs DEF IInv, HeldInv, Fits
<1>5. "timer" \in rest => causes \cap E # {}
  BY <1>2 DEF IInv, TimerInv
<1>6. CASE step = Len(D.unload)
  <2>1. Leave(rest, {}) /\ UNCHANGED driver
    BY <1>6 DEF UnloadStep
  <2>2. rest \cap Names = {}
    BY <1>2, <1>4, <1>6, ThingSets DEF Fits, Tidy, AllGiven
  <2>3. opened => causes \cap E # {}
    BY <1>2 DEF IInv, OpenInv, Fits, OutOrder
  <2> QED
    BY <2>1, <2>2, <2>3, <1>3, <1>5, LeaveInv
<1>7. CASE step # Len(D.unload)
  <2>1. held' = rest /\ step' = step + 1 /\ UNCHANGED <<driver, phase, orphans, opened, causes>>
    BY <1>7 DEF UnloadStep
  <2>2. TypeOK'
    <3>1. step' \in 1..10
      BY <2>1, <1>2, <1>7, Place
    <3> QED
      BY <2>1, <3>1, <1>3 DEF IInv, TypeOK, Things
  <2>3. Places'
    BY <2>1, <1>1, <1>2, <1>7 DEF Places
  <2>4. HeldInv'
    <3>1. AllTaken(D) \subseteq Things
      BY DEF AllTaken, TakenBefore
    <3> QED
      BY <2>1, <3>1, <1>1, <1>2, <1>3, <1>4 DEF HeldInv
  <2>5. TimerInv'
    BY <2>1, <1>1, <1>2, <1>5 DEF IInv, TimerInv
  <2>6. OpenInv'
    BY <2>1, <1>1, <1>2 DEF IInv, OpenInv
  <2>7. OrphanInv' /\ CrashHasCause'
    BY <2>1, <1>1, <1>2 DEF IInv, OrphanInv, CrashHasCause
  <2> QED
    BY <2>2, <2>3, <2>4, <2>5, <2>6, <2>7 DEF IInv
<1> QED
  BY <1>6, <1>7

-----------------------------------------------------------------------------
(* The ways into the driver. *)

\* What an entry has to respect, with its cause added to those so far.
Respects(touched, after, now) ==
    /\ ~(touched \subseteq held) => now \cap E # {}
    /\ after \subseteq Things /\ after \ {"timer"} = held \ {"timer"}
    /\ touched \subseteq held /\ "timer" \in after =>
         /\ D.arms # {} \/ "timer" \in AllTaken(D)
         /\ phase = "loading" => D.tick \subseteq held
         /\ phase = "unloading" /\ "timer" \notin held => now \cap E # {}

\* What an entry adds to the causes.
Added(cause) ==
    IF phase = "loading" THEN {"early"} ELSE IF phase = "unloading" THEN cause ELSE {}

\* An entry that respects this keeps the invariant, whatever it leaves.
LEMMA EnterInv ==
    ASSUME IInv, Here, NEW touched, NEW after, NEW cause, cause \subseteq {"late", "open"},
           Enter(touched, after, cause), opened' \in BOOLEAN,
           Respects(touched, after, causes \cup Added(cause)),
           phase = "loading" /\ opened' => "chrdev" \in held,
           phase = "unloading" /\ opened' => ~D.owner /\ "open" \in causes \cup cause
    PROVE  IInv'
<1>1. D' = D /\ E' = E
  BY SameDriver DEF Enter
<1>2. causes' = causes \cup Added(cause)
  BY DEF Enter, Added
<1>3. orphans' = orphans /\ driver' = driver
  BY DEF Enter
<1>4. /\ causes \subseteq causes'
      /\ causes' \subseteq {"failed", "early", "late", "open", "pending"}
  BY <1>2 DEF Added, IInv, TypeOK
<1>5. OrphanInv'
  BY <1>1, <1>3, <1>4 DEF IInv, OrphanInv
<1>6. CASE ~(touched \subseteq held)
  <2>1. phase' = "crashed" /\ step' = 1 /\ held' = held
    BY <1>6 DEF Enter
  <2>2. causes' \cap E # {}
    BY <1>2, <1>6 DEF Respects
  <2>3. TypeOK'
    <3>1. step' \in 1..10
      BY <2>1
    <3> QED
      BY <1>3, <1>4, <2>1, <3>1 DEF IInv, TypeOK
  <2>4. Places' /\ HeldInv' /\ OpenInv'
    BY <2>1 DEF Places, HeldInv, OpenInv
  <2>5. TimerInv'
    BY <1>1, <2>1 DEF IInv, TimerInv
  <2>6. CrashHasCause'
    BY <1>3, <2>2 DEF CrashHasCause, E
  <2> QED
    BY <1>5, <2>3, <2>4, <2>5, <2>6 DEF IInv
<1>7. CASE touched \subseteq held
  <2>1. held' = after /\ phase' = phase /\ step' = step
    BY <1>7 DEF Enter
  <2>2. /\ after \subseteq Things /\ after \ {"timer"} = held \ {"timer"}
        /\ "timer" \in after =>
             /\ D.arms # {} \/ "timer" \in AllTaken(D)
             /\ phase = "loading" => D.tick \subseteq held
             /\ phase = "unloading" /\ "timer" \notin held => causes' \cap E # {}
    BY <1>2, <1>7 DEF Respects
  <2>3. TypeOK'
    BY <1>3, <1>4, <2>1, <2>2 DEF IInv, TypeOK, Things
  <2>4. Places' /\ HeldInv'
    BY <1>1, <2>1, <2>2 DEF IInv, Places, HeldInv
  <2>5. TimerInv'
    <3>1. "timer" \notin D.tick
      BY TableFits DEF IInv, Fits, Complete
    <3>2. D.tick \subseteq held => D.tick \subseteq after
      BY <2>2, <3>1
    <3> QED
      BY <1>1, <1>4, <2>1, <2>2, <3>2 DEF IInv, TimerInv
  <2>6. OpenInv'
    <3>1. "chrdev" \in held => "chrdev" \in held'
      BY <2>1, <2>2
    <3>2. phase = "loading" => "early" \in causes'
      BY <1>2 DEF Added
    <3>3. phase = "unloading" /\ opened' => ~D.owner /\ "open" \in causes'
      BY <1>2 DEF Added
    <3> QED
      BY <1>1, <2>1, <3>1, <3>2, <3>3 DEF Here, OpenInv
  <2>7. CrashHasCause'
    BY <2>1 DEF Here, CrashHasCause
  <2> QED
    BY <1>5, <2>3, <2>4, <2>5, <2>6, <2>7 DEF IInv
<1> QED
  BY <1>6, <1>7

\* While init and exit run, a file that is open keeps being a cause.
LEMMA OpenStays ==
    ASSUME IInv, Here, NEW cause
    PROVE  /\ phase = "loading" /\ opened => "chrdev" \in held /\ "early" \in causes
           /\ phase = "unloading" /\ opened => ~D.owner /\ "open" \in causes \cup cause
           /\ opened \in BOOLEAN
BY DEF IInv, OpenInv, TypeOK

\* What a driver holds, in each phase.
LEMMA Holds ==
    ASSUME IInv
    PROVE  /\ Fits(D, E, driver) /\ held \subseteq Things
           /\ phase = "loading" =>
                /\ step \in 1..Len(D.load) /\ TakenBefore(D, step) \subseteq AllTaken(D)
                /\ \A r \in Things \ {"timer"} : r \in held <=> r \in TakenBefore(D, step)
           /\ phase = "in" => \A r \in Things \ {"timer"} : r \in held <=> r \in AllTaken(D)
           /\ phase = "unloading" =>
                \A r \in Things \ {"timer"} :
                   r \in held <=> r \in AllTaken(D) /\ r \notin GivenBefore(D, step)
           /\ D.press \cup D.call \cup D.tick \cup D.show \subseteq Things \ {"timer"}
<1>1. Fits(D, E, driver)
  BY TableFits DEF IInv
<1>2. held \subseteq Things
  BY DEF IInv, TypeOK, Things
<1>3. phase = "loading" => step \in 1..Len(D.load) /\ TakenBefore(D, step) \subseteq AllTaken(D)
  BY <1>1, TakenIs DEF IInv, Places, Fits
<1>4. AllTaken(D) \subseteq Things
  BY DEF AllTaken, TakenBefore
<1>5. D.press \cup D.call \cup D.tick \cup D.show \subseteq Things \ {"timer"}
  BY <1>1, <1>4 DEF Fits, Complete
<1> QED
  BY <1>1, <1>2, <1>3, <1>5 DEF IInv, HeldInv

LEMMA PressInv == IInv /\ Press => IInv'
<1> SUFFICES ASSUME IInv, Press PROVE IInv'
  OBVIOUS
<1>1. Here /\ opened' = opened
  BY DEF Press
<1>2. Fits(D, E, driver) /\ "timer" \in Things /\ "irq0" \in Things \ {"timer"}
  BY TableFits, ThingSets DEF IInv
<1>3. CASE "irq0" \in held /\ Enter(D.press, held \cup D.arms, {"late"})
  <2> DEFINE now == causes \cup Added({"late"})
  <2>1. phase \in {"loading", "unloading"} /\ "irq0" \in held => "irq0" \in AllTaken(D)
    BY <1>2, Holds
  <2>2. ~(D.press \subseteq held) => now \cap E # {}
    <3>1. CASE phase = "loading"
      <4>1. "irq0" \in TakenBefore(D, step)
        BY <1>2, <1>3, <3>1, Holds
      <4>2. "early" \notin E => D.press \subseteq TakenBefore(D, step)
        BY <3>1, <4>1, Holds DEF Fits, InOrder
      <4> QED
        BY <3>1, <4>2, Holds DEF Added
    <3>2. CASE phase = "in"
      BY <1>2, <3>2, Holds DEF Fits, Complete
    <3>3. CASE phase = "unloading"
      BY <1>2, <1>3, <2>1, <3>3 DEF Added, Fits, OutOrder
    <3> QED
      BY <1>1, <3>1, <3>2, <3>3 DEF Here
  <2>3. held \cup D.arms \subseteq Things /\ (held \cup D.arms) \ {"timer"} = held \ {"timer"}
    BY <1>2, Holds DEF Fits, Sizes
  <2>4. ASSUME D.press \subseteq held, "timer" \in held \cup D.arms
        PROVE  /\ D.arms # {} \/ "timer" \in AllTaken(D)
               /\ phase = "loading" => D.tick \subseteq held
               /\ phase = "unloading" /\ "timer" \notin held => now \cap E # {}
    <3>1. CASE "timer" \in held
      BY <3>1 DEF IInv, TimerInv
    <3>2. CASE "timer" \in D.arms
      <4>1. phase = "loading" => D.tick \subseteq D.press
        BY <1>2, <1>3, <2>1, <3>2 DEF Fits, InOrder
      <4>2. phase = "unloading" => now \cap E # {}
        BY <1>2, <1>3, <2>1, <3>2 DEF Added, Fits, OutOrder
      <4> QED
        BY <2>4, <3>2, <4>1, <4>2
    <3> QED
      BY <2>4, <3>1, <3>2
  <2>5. Respects(D.press, held \cup D.arms, now)
    BY <2>2, <2>3, <2>4 DEF Respects
  <2> QED
    BY <1>1, <1>3, <2>5, EnterInv, OpenStays
<1>4. CASE "irq1" \in held /\ Enter({}, held, {"late"})
  <2>1. Respects({}, held, causes \cup Added({"late"}))
    BY Holds DEF IInv, TimerInv, Respects
  <2> QED
    BY <1>1, <1>4, <2>1, EnterInv, OpenStays
<1> QED
  BY <1>3, <1>4 DEF Press

LEMMA OpenFileInv == IInv /\ Open => IInv'
<1> SUFFICES ASSUME IInv, Open PROVE IInv'
  OBVIOUS
<1>1. Respects({}, held, causes \cup Added({"open"}))
  BY Holds DEF IInv, TimerInv, Respects
<1>2. opened' \in BOOLEAN
  BY DEF Open
<1>3. phase = "unloading" => ~D.owner
  BY DEF Open
<1> QED
  BY <1>1, <1>2, <1>3, EnterInv DEF Open

LEMMA CallInv == IInv /\ Call => IInv'
<1> SUFFICES ASSUME IInv, Call PROVE IInv'
  OBVIOUS
<1> DEFINE now == causes \cup Added({"open"})
<1>1. Here /\ opened /\ opened' = opened /\ Enter(D.call, held \cup D.arms, {"open"})
  BY DEF Call
<1>2. Fits(D, E, driver) /\ "timer" \in Things /\ "chrdev" \in Things \ {"timer"}
  BY TableFits, ThingSets DEF IInv
<1>3. phase = "unloading" => "open" \in E
  BY <1>1, <1>2, OpenStays DEF Fits, OutOrder
<1>4. ~(D.call \subseteq held) => now \cap E # {}
  <2>1. CASE phase = "loading"
    <3>1. "chrdev" \in TakenBefore(D, step)
      BY <1>1, <1>2, <2>1, Holds, OpenStays
    <3>2. "early" \notin E => D.call \subseteq TakenBefore(D, step)
      BY <2>1, <3>1, Holds DEF Fits, InOrder
    <3> QED
      BY <2>1, <3>2, Holds DEF Added
  <2>2. CASE phase = "in"
    BY <1>2, <2>2, Holds DEF Fits, Complete
  <2>3. CASE phase = "unloading"
    BY <1>3, <2>3 DEF Added
  <2> QED
    BY <1>1, <2>1, <2>2, <2>3 DEF Here
<1>5. held \cup D.arms \subseteq Things /\ (held \cup D.arms) \ {"timer"} = held \ {"timer"}
  BY <1>2, Holds DEF Fits, Sizes
<1>6. ASSUME D.call \subseteq held, "timer" \in held \cup D.arms
      PROVE  /\ D.arms # {} \/ "timer" \in AllTaken(D)
             /\ phase = "loading" => D.tick \subseteq held
             /\ phase = "unloading" /\ "timer" \notin held => now \cap E # {}
  <2>1. CASE "timer" \in held
    BY <2>1 DEF IInv, TimerInv
  <2>2. CASE "timer" \in D.arms
    <3>1. D.tick \subseteq D.call
      BY <1>2, <2>2 DEF Fits, InOrder
    <3>2. phase = "unloading" => now \cap E # {}
      BY <1>3 DEF Added
    <3> QED
      BY <1>6, <2>2, <3>1, <3>2
  <2> QED
    BY <1>6, <2>1, <2>2
<1>7. Respects(D.call, held \cup D.arms, now)
  BY <1>4, <1>5, <1>6 DEF Respects
<1> QED
  BY <1>1, <1>7, EnterInv, OpenStays

LEMMA TickInv == IInv /\ Tick => IInv'
<1> SUFFICES ASSUME IInv, Tick PROVE IInv'
  OBVIOUS
<1> DEFINE now == causes \cup Added({})
           after == (held \ {"timer"}) \cup D.rearms
<1>1. Here /\ "timer" \in held /\ opened' = opened /\ Enter(D.tick, after, {})
  BY DEF Tick
<1>2. Fits(D, E, driver) /\ "timer" \in Things
  BY TableFits, ThingSets DEF IInv
<1>3. ~(D.tick \subseteq held) => now \cap E # {}
  <2>1. CASE phase = "loading"
    BY <1>1, <2>1 DEF IInv, TimerInv
  <2>2. CASE phase = "in"
    BY <1>2, <2>2, Holds DEF Fits, Complete
  <2>3. CASE phase = "unloading" /\ causes \cap E # {}
    BY <2>3
  <2>4. CASE phase = "unloading" /\ step = 1
    <3>1. GivenBefore(D, step) = {}
      BY <2>4, GivenSteps
    <3> QED
      BY <1>2, <2>4, <3>1, Holds DEF Fits, Complete
  <2> QED
    BY <1>1, <2>1, <2>2, <2>3, <2>4 DEF Here, IInv, TimerInv
<1>4. after \subseteq Things /\ after \ {"timer"} = held \ {"timer"}
  BY <1>2, Holds DEF Fits, Sizes
<1>5. Respects(D.tick, after, now)
  BY <1>1, <1>3, <1>4 DEF IInv, TimerInv, Respects
<1> QED
  BY <1>1, <1>5, EnterInv, OpenStays

\* A pointer dangles only while exit runs, in a driver exposed to that.
LEMMA DanglingIs ==
    ASSUME IInv, Here
    PROVE  Dangling # {} => phase = "unloading" /\ "late" \in E
<1>1. Fits(D, E, driver)
      /\ {"slot0", "slot1", "ptr0", "ptr1"} \subseteq Things \ {"timer"}
  BY TableFits, ThingsAre DEF IInv
<1>2. CASE phase = "loading"
  <2>1. /\ "ptr0" \in TakenBefore(D, step) => "slot0" \in TakenBefore(D, step)
        /\ "ptr1" \in TakenBefore(D, step) => "slot1" \in TakenBefore(D, step)
    <3>1. step \in 1..Len(D.load) /\ Len(D.load) \in 1..10
      BY <1>1, <1>2, Holds DEF Fits, Sizes
    <3>2. step \in 1..(Len(D.load) + 1)
      BY <3>1, Place
    <3> QED
      BY <1>1, <3>2 DEF Fits, Complete
  <2> QED
    BY <1>1, <1>2, <2>1, Holds DEF Dangling
<1>3. CASE phase = "in"
  <2>1. /\ "ptr0" \in AllTaken(D) => "slot0" \in AllTaken(D)
        /\ "ptr1" \in AllTaken(D) => "slot1" \in AllTaken(D)
    <3>1. Len(D.load) \in 1..10
      BY <1>1 DEF Fits, Sizes
    <3>2. Len(D.load) + 1 \in 1..(Len(D.load) + 1)
      BY <3>1
    <3> QED
      BY <1>1, <3>2 DEF Fits, Complete, AllTaken
  <2> QED
    BY <1>1, <1>3, <2>1, Holds DEF Dangling
<1>4. CASE phase = "unloading"
  <2>1. "late" \notin E => "ptr0" \notin AllTaken(D) /\ "ptr1" \notin AllTaken(D)
    BY <1>1 DEF Fits, OutOrder
  <2> QED
    BY <1>1, <1>4, <2>1, Holds DEF Dangling
<1> QED
  BY <1>2, <1>3, <1>4 DEF Here

LEMMA CloseInv == IInv /\ Close => IInv'
<1> SUFFICES ASSUME IInv, Close PROVE IInv'
  OBVIOUS
<1> DEFINE now == causes \cup Added({"open"})
<1>1. Here /\ opened /\ opened' = FALSE /\ Enter(Dangling, held, {"open"})
  BY DEF Close
<1>2. ~(Dangling \subseteq held) => now \cap E # {}
  <2>1. phase = "unloading" => "open" \in E
    BY <1>1, TableFits, OpenStays DEF IInv, Fits, OutOrder
  <2> QED
    BY <1>1, <2>1, DanglingIs DEF Added
<1>3. Respects(Dangling, held, now)
  BY <1>2, Holds DEF IInv, TimerInv, Respects
<1>4. opened' \in BOOLEAN
  BY <1>1
<1> QED
  BY <1>1, <1>3, <1>4, EnterInv

LEMMA ShowInv == IInv /\ Show => IInv'
<1> SUFFICES ASSUME IInv, Show PROVE IInv'
  OBVIOUS
<1> DEFINE now == causes \cup Added({"late"})
<1>1. Here /\ "proc" \in held /\ opened' = opened /\ Enter(D.show \cup Dangling, held, {"late"})
  BY DEF Show
<1>2. Fits(D, E, driver) /\ "proc" \in Things \ {"timer"}
  BY TableFits, ThingSets DEF IInv
<1>3. ~(D.show \cup Dangling \subseteq held) => now \cap E # {}
  <2>1. CASE phase = "loading"
    <3>1. Dangling = {}
      BY <1>1, <2>1, DanglingIs
    <3>2. "early" \notin E => D.show \subseteq TakenBefore(D, step)
      BY <1>1, <1>2, <2>1, Holds DEF Fits, InOrder
    <3> QED
      BY <2>1, <3>1, <3>2, Holds DEF Added
  <2>2. CASE phase = "in"
    <3>1. Dangling = {}
      BY <1>1, <2>2, DanglingIs
    <3> QED
      BY <1>2, <2>2, <3>1, Holds DEF Fits, Complete
  <2>3. CASE phase = "unloading"
    <3>1. CASE "late" \in E
      BY <2>3, <3>1 DEF Added
    <3>2. CASE "late" \notin E
      <4>1. Dangling = {}
        BY <1>1, <3>2, DanglingIs
      <4>2. step \in 1..Len(D.unload)
        BY <2>3 DEF IInv, Places
      <4>3. D.show \cap GivenBefore(D, step) = {} /\ D.show \subseteq AllTaken(D)
        BY <1>1, <1>2, <2>3, <3>2, <4>2, Holds DEF Fits, OutOrder, Complete
      <4> QED
        BY <2>3, <4>1, <4>3, Holds
    <3> QED
      BY <3>1, <3>2
  <2> QED
    BY <1>1, <2>1, <2>2, <2>3 DEF Here
<1>4. Respects(D.show \cup Dangling, held, now)
  BY <1>3, Holds DEF IInv, TimerInv, Respects
<1> QED
  BY <1>1, <1>4, EnterInv, OpenStays

LEMMA EnterOrphanInv == IInv /\ EnterOrphan => IInv'
<1> SUFFICES ASSUME IInv, EnterOrphan PROVE IInv'
  OBVIOUS
<1>1. D' = D /\ E' = E
  BY SameDriver DEF EnterOrphan, Crash
<1>2. TypeOK'
  <2>1. step' \in 1..10
    BY DEF EnterOrphan, Crash
  <2> QED
    BY <2>1 DEF EnterOrphan, Crash, IInv, TypeOK
<1>3. Places' /\ HeldInv' /\ OpenInv'
  BY DEF EnterOrphan, Crash, Places, HeldInv, OpenInv
<1>4. TimerInv'
  BY <1>1 DEF EnterOrphan, Crash, IInv, TimerInv
<1>5. causes' \cap E # {} /\ driver' = driver
  BY DEF EnterOrphan, Crash, IInv, OrphanInv
<1>6. OrphanInv' /\ CrashHasCause'
  BY <1>5, <1>1 DEF OrphanInv, CrashHasCause, E
<1> QED
  BY <1>2, <1>3, <1>4, <1>6 DEF IInv

LEMMA RebootInv == IInv /\ Reboot => IInv'
<1> SUFFICES ASSUME IInv, Reboot PROVE IInv'
  OBVIOUS
<1>1. TypeOK'
  <2>1. step' \in 1..10
    BY DEF Reboot
  <2>2. opened' \in BOOLEAN
    BY DEF Reboot
  <2> QED
    BY <2>1, <2>2 DEF Reboot, IInv, TypeOK
<1> QED
  BY <1>1 DEF Reboot, IInv, Places, HeldInv, TimerInv, OpenInv, OrphanInv, CrashHasCause

LEMMA StutterInv == IInv /\ UNCHANGED vars => IInv'
<1> SUFFICES ASSUME IInv, UNCHANGED vars PROVE IInv'
  OBVIOUS
<1>1. D' = D /\ E' = E
  BY SameDriver DEF vars
<1> QED
  BY <1>1
  DEF vars, IInv, TypeOK, Places, HeldInv, TimerInv, OpenInv, OrphanInv, CrashHasCause

LEMMA NextDriver == IInv /\ [Next]_vars => IInv'
BY LoadInv, LoadStepInv, LoadFailsInv, UnloadInv, UnloadStepInv, PressInv, OpenFileInv,
   CallInv, CloseInv, ShowInv, TickInv, EnterOrphanInv, RebootInv, StutterInv
DEF Next

-----------------------------------------------------------------------------
(* The theorems. *)

(***************************************************************************)
(* In every phase each of the seven drivers holds what its init and exit   *)
(* have left it, and there is a cause for what else leads into it.         *)
(***************************************************************************)
THEOREM IInvHolds == Spec => []IInv
BY InitDriver, NextDriver, PTL DEF Spec

(***************************************************************************)
(* The steps of init and exit stay within the drivers' tables, and nothing *)
(* is held that no init function takes.                                    *)
(***************************************************************************)
THEOREM TypesHold == Spec => []TypeOK
<1>1. IInv => TypeOK
  BY DEF IInv
<1> QED
  BY <1>1, IInvHolds, PTL

(***************************************************************************)
(* Entered in whatever order while it is loaded, used and unloaded, a      *)
(* driver crashes the kernel only after one of the causes that the order   *)
(* of its init and exit steps exposes it to, and fortune and int_mod       *)
(* never.                                                                  *)
(***************************************************************************)
THEOREM CrashesHaveCauses == Spec => []CrashHasCause
<1>1. IInv => CrashHasCause
  BY DEF IInv
<1> QED
  BY <1>1, IInvHolds, PTL

\* A driver that goes has given back what it should.
LEMMA LeavesNothing ==
    ASSUME IInv, [Next]_vars, phase \in {"loading", "unloading"}, phase' = "out"
    PROVE  /\ ~(orphans' \cap Names \subseteq orphans) =>
                phase = "loading" /\ driver \in {"mytraffic", "lab3timer", "lab2timer"}
           /\ held' \cap Memory # {} =>
                \/ driver = "lab2timer"
                \/ phase = "loading" /\ D.load[step].take \cap Memory = {}
<1>1. Fits(D, E, driver) /\ AllTaken(D) \subseteq Things
  BY TableFits DEF IInv, AllTaken, TakenBefore
<1>2. CASE LoadFails
  <2> DEFINE rest == held \ D.load[step].undo
             cause == IF rest \cap (Names \cup {"timer"}) # {} THEN {"failed"} ELSE {}
  <2>1. phase = "loading" /\ step \in 1..Len(D.load) /\ Leave(rest, cause)
    BY <1>2 DEF LoadFails, IInv, Places
  <2>2. /\ ~(orphans' \cap Names \subseteq orphans) => rest \cap Names # {}
        /\ held' \cap Memory # {} => rest \cap Memory # {}
    BY <2>1, ThingSets DEF Leave
  <2>3. /\ rest \cap Names # {} => ~(TakenBefore(D, step) \cap Names \subseteq D.load[step].undo)
        /\ rest \cap Memory # {} => ~(TakenBefore(D, step) \cap Memory \subseteq D.load[step].undo)
    BY <2>1, Holds, ThingSets
  <2>4. rest \cap Names # {} => driver \in Labs
    BY <1>1, <2>1, <2>3 DEF Fits, Tidy
  <2>5. rest \cap Memory # {} => driver = "lab2timer" \/ D.load[step].take \cap Memory = {}
    BY <1>1, <2>1, <2>3 DEF Fits, Tidy
  <2> QED
    BY <2>1, <2>2, <2>4, <2>5 DEF Labs
<1>3. CASE UnloadStep
  <2> DEFINE rest == held \ {D.unload[step]}
  <2>1. /\ phase = "unloading" /\ step \in 1..Len(D.unload) /\ step = Len(D.unload)
        /\ Leave(rest, {})
    BY <1>3 DEF UnloadStep, IInv, Places
  <2>2. /\ ~(orphans' \cap Names \subseteq orphans) => rest \cap Names # {}
        /\ held' \cap Memory # {} => rest \cap Memory # {}
    BY <2>1, ThingSets DEF Leave
  <2>3. \A r \in Things \ {"timer"} : r \in rest <=> r \in AllTaken(D) /\ r \notin AllGiven(D)
    BY <1>1, <2>1, Holds, GivenIs DEF Fits, AllGiven
  <2>4. rest \cap Names = {} /\ (driver # "lab2timer" => rest \cap Memory = {})
    BY <1>1, <2>3, ThingSets DEF Fits, Tidy
  <2> QED
    BY <2>2, <2>4
<1>4. CASE Load \/ LoadStep \/ Unload \/ EnterOrphan \/ Reboot
  BY <1>4 DEF Load, LoadStep, Unload, EnterOrphan, Crash, Reboot
<1>5. CASE Press \/ Open \/ Call \/ Close \/ Show \/ Tick
  BY <1>5 DEF Press, Open, Call, Close, Show, Tick, Enter
<1>6. CASE UNCHANGED vars
  BY <1>6 DEF vars
<1> QED
  BY <1>2, <1>3, <1>4, <1>5, <1>6 DEF Next

(***************************************************************************)
(* However often a driver is loaded and unloaded, its exit gives back      *)
(* every name and, lab 2's timer apart, all memory; a load that fails      *)
(* keeps a name only in the drivers of the labs, and loses memory only     *)
(* where no memory was asked for.                                          *)
(***************************************************************************)
THEOREM LeavesNothingBehind == Spec => NothingLeftBehind
<1>1. IInv /\ [Next]_vars =>
        [ (phase \in {"loading", "unloading"} /\ phase' = "out") =>
          /\ ~(orphans' \cap Names \subseteq orphans) =>
                phase = "loading" /\ driver \in {"mytraffic", "lab3timer", "lab2timer"}
          /\ held' \cap Memory # {} =>
                \/ driver = "lab2timer"
                \/ phase = "loading" /\ D.load[step].take \cap Memory = {} ]_vars
  BY LeavesNothing
<1> QED
  BY <1>1, IInvHolds, PTL DEF Spec, NothingLeftBehind
=============================================================================

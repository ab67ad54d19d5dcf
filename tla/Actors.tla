------------------------------- MODULE Actors -------------------------------
(***************************************************************************)
(* The actors of class16/actors.c and the program class16/main.c that      *)
(* calls them round after round.  Four ring buffers join them, of which    *)
(* main forgets to initialise output2: its pointers are what the stack     *)
(* held.  (Pointers outside of the buffer are left out, since the first    *)
(* access through them is undefined.)                                      *)
(***************************************************************************)
EXTENDS Fifo

CONSTANTS
    Rounds,     \* 10 in the code
    Garbage     \* what the cells of the stack hold

ASSUME RoundsAssumption  == Rounds \in Nat
ASSUME GarbageAssumption == Garbage \in Int

VARIABLES
    at,         \* the actor main calls next, "done" or, after an assertion, "abort"
    round,
    fifo,       \* the four buffers
    printed,    \* what actor_print has printed
    clean       \* history: output2 was empty at the start

vars == <<at, round, fifo, printed, clean>>

Channels == {"input1", "input2", "output1", "output2"}

TypeOK ==
    /\ at \in {"inc", "fork", "mul", "print", "done", "abort"}
    /\ round \in 0..Rounds
    /\ fifo \in [Channels -> Fifos]
    /\ printed \in Seq(Int)
    /\ clean \in BOOLEAN

Stack == [c \in Cells |-> Garbage]

Init ==
    /\ at = IF Rounds = 0 THEN "done" ELSE "inc"
    /\ round = 0
    /\ \E w \in Cells, r \in Cells :
         /\ fifo = [c \in Channels |->
              CASE c = "input1"  -> put_fifo(InitFifo(Stack), 0)
                [] c = "input2"  -> put_fifo(InitFifo(Stack), 24)
                [] c = "output1" -> InitFifo(Stack)
                [] c = "output2" -> [data |-> Stack, wptr |-> w, rptr |-> r]]
         /\ clean = (w = r)
    /\ printed = <<>>

HasToken(c) == fifo_size(fifo[c]) > 0

\* The firing rule does not hold: main goes on to the next actor.
Skip(next) == at' = next /\ UNCHANGED fifo

\* The puts of the actor, or the failure of one of their assertions.
Deliver(next, ok, after) ==
    IF ok THEN at' = next /\ fifo' = after
          ELSE at' = "abort" /\ UNCHANGED fifo

\* Mutant: the token is sent on as it was.
actor_inc_Same ==
    /\ at = "inc"
    /\ IF HasToken("input1")
       THEN LET d == Oldest(fifo["input1"])
            IN Deliver("fork", Asserted(fifo["output1"], d),
                 [fifo EXCEPT !["input1"] = Rest(@), !["output1"] = put_fifo(@, d)])
       ELSE Skip("fork")
    /\ UNCHANGED <<round, printed, clean>>

actor_inc ==
    /\ at = "inc"
    /\ IF HasToken("input1")
       THEN LET d == Oldest(fifo["input1"]) + 1
            IN Deliver("fork", Asserted(fifo["output1"], d),
                 [fifo EXCEPT !["input1"] = Rest(@), !["output1"] = put_fifo(@, d)])
       ELSE Skip("fork")
    /\ UNCHANGED <<round, printed, clean>>

actor_fork ==
    /\ at = "fork"
    /\ IF HasToken("output1")
       THEN LET d == Oldest(fifo["output1"])
            IN Deliver("mul", Asserted(fifo["input1"], d) /\ Asserted(fifo["output2"], d),
                 [fifo EXCEPT !["output1"] = Rest(@), !["input1"] = put_fifo(@, d),
                              !["output2"] = put_fifo(@, d)])
       ELSE Skip("mul")
    /\ UNCHANGED <<round, printed, clean>>

actor_mul ==
    /\ at = "mul"
    /\ IF HasToken("output2") /\ HasToken("input2")
       THEN LET d == Oldest(fifo["output2"]) * Oldest(fifo["input2"])
            IN Deliver("print", Asserted(fifo["output1"], d),
                 [fifo EXCEPT !["output2"] = Rest(@), !["input2"] = Rest(@),
                              !["output1"] = put_fifo(@, d)])
       ELSE Skip("print")
    /\ UNCHANGED <<round, printed, clean>>

\* The last actor of a round.
actor_print ==
    /\ at = "print"
    /\ IF HasToken("output1")
       THEN /\ printed' = Append(printed, Oldest(fifo["output1"]))
            /\ fifo' = [fifo EXCEPT !["output1"] = Rest(@)]
       ELSE UNCHANGED <<printed, fifo>>
    /\ round' = round + 1
    /\ at' = IF round + 1 < Rounds THEN "inc" ELSE "done"
    /\ UNCHANGED clean

Next == actor_inc \/ actor_fork \/ actor_mul \/ actor_print

Spec == Init /\ [][Next]_vars

-----------------------------------------------------------------------------
(***************************************************************************)
(* put_fifo's assertion that no buffer holds more than ten tokens fails    *)
(* only if the stack has left tokens in output2: from an empty one, at     *)
(* whatever place, the nine tokens that pile up there pass it even where   *)
(* fifo_size counts one too many.                                          *)
(***************************************************************************)
AssertionNeedsGarbage == at = "abort" => ~clean

Queues == [input1  |-> Tokens(fifo["input1"]),  input2  |-> Tokens(fifo["input2"]),
           output1 |-> Tokens(fifo["output1"]), output2 |-> Tokens(fifo["output2"])]

Network == INSTANCE Dataflow WITH queue <- Queues, Capacity <- MAXFIFO - 1

(***************************************************************************)
(* The fixed schedule, on rings that wrap around and that may start with   *)
(* garbage, does nothing that the network of actors and queues cannot do.  *)
(***************************************************************************)
MainIsDataflow == Network!Spec
=============================================================================

------------------------------ MODULE Dataflow ------------------------------
(***************************************************************************)
(* What the actors of class16 stand for: a network of actors joined by     *)
(* bounded queues, each of which fires in one step, whenever it likes and  *)
(* its inputs have tokens.                                                 *)
(***************************************************************************)
EXTENDS Integers, Sequences

CONSTANT Capacity   \* of every queue

VARIABLES queue, printed

Init ==
    /\ queue.input1 = <<0>> /\ queue.input2 = <<24>> /\ queue.output1 = <<>>
    /\ queue.output2 \in Seq(Int)
    /\ printed = <<>>

\* A full queue loses the token.
Add(q, d) == IF Len(q) >= Capacity THEN q ELSE Append(q, d)

Inc ==
    /\ queue.input1 # <<>>
    /\ queue' = [queue EXCEPT !.input1 = Tail(queue.input1),
                              !.output1 = Add(queue.output1, Head(queue.input1) + 1)]
    /\ UNCHANGED printed

Fork ==
    /\ queue.output1 # <<>>
    /\ queue' = [queue EXCEPT !.output1 = Tail(queue.output1),
                              !.input1 = Add(queue.input1, Head(queue.output1)),
                              !.output2 = Add(queue.output2, Head(queue.output1))]
    /\ UNCHANGED printed

Mul ==
    /\ queue.output2 # <<>> /\ queue.input2 # <<>>
    /\ queue' = [queue EXCEPT !.output2 = Tail(queue.output2),
                              !.input2 = Tail(queue.input2),
                              !.output1 = Add(queue.output1,
                                              Head(queue.output2) * Head(queue.input2))]
    /\ UNCHANGED printed

Show ==
    /\ queue.output1 # <<>>
    /\ queue' = [queue EXCEPT !.output1 = Tail(queue.output1)]
    /\ printed' = Append(printed, Head(queue.output1))

Next == Inc \/ Fork \/ Mul \/ Show

Spec == Init /\ [][Next]_<<queue, printed>>
=============================================================================

-------------------------------- MODULE Fifo --------------------------------
(***************************************************************************)
(* The ring buffer of class16/fifo.c as operators on its record: MAXFIFO   *)
(* cells of which one always stays free.                                   *)
(***************************************************************************)
EXTENDS Integers, Sequences

CONSTANT MAXFIFO    \* 1024 in the code

ASSUME MaxFifoAssumption == MAXFIFO \in Nat /\ MAXFIFO > 1

Cells == 0..(MAXFIFO - 1)
Fifos == [data : [Cells -> Int], wptr : Cells, rptr : Cells]

\* init_fifo of a buffer that holds what the stack held.
InitFifo(data) == [data |-> data, wptr |-> 0, rptr |-> 0]

\* Mutant: the size of a buffer that has wrapped around is two too large.
fifo_size_Two(F) == IF F.wptr >= F.rptr THEN F.wptr - F.rptr
                                        ELSE MAXFIFO - (F.rptr - F.wptr) + 2

\* When the write pointer has wrapped around, one more than the tokens.
fifo_size(F) == IF F.wptr >= F.rptr THEN F.wptr - F.rptr
                                    ELSE MAXFIFO - (F.rptr - F.wptr) + 1

Full(F) == (F.wptr + 1) % MAXFIFO = F.rptr

\* Mutant: the write pointer does not wrap around.
put_fifo_NoWrap(F, d) ==
    IF Full(F) THEN F
    ELSE [data |-> [F.data EXCEPT ![F.wptr] = d], wptr |-> F.wptr + 1, rptr |-> F.rptr]

\* A token for a full buffer is dropped.
put_fifo(F, d) ==
    IF Full(F) THEN F
    ELSE [data |-> [F.data EXCEPT ![F.wptr] = d],
          wptr |-> (F.wptr + 1) % MAXFIFO,
          rptr |-> F.rptr]

\* The assertion behind a put that has stored its token.
Asserted(F, d) == Full(F) \/ fifo_size(put_fifo(F, d)) <= 10

\* get_fifo: the oldest token, and the buffer without it.
Oldest(F) == IF F.rptr = F.wptr THEN -1 ELSE F.data[F.rptr]

Rest(F) ==
    IF F.rptr = F.wptr THEN F
    ELSE [data |-> F.data, wptr |-> F.wptr, rptr |-> (F.rptr + 1) % MAXFIFO]

-----------------------------------------------------------------------------
\* What the buffer stands for: its tokens, oldest first.
Count(F) == IF F.wptr >= F.rptr THEN F.wptr - F.rptr ELSE MAXFIFO - (F.rptr - F.wptr)

Cell(F, k) == IF F.rptr + k - 1 < MAXFIFO THEN F.rptr + k - 1 ELSE F.rptr + k - 1 - MAXFIFO

Tokens(F) == [k \in 1..Count(F) |-> F.data[Cell(F, k)]]
=============================================================================

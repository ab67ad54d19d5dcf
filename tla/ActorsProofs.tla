---------------------------- MODULE ActorsProofs ----------------------------
(***************************************************************************)
(* Proofs about the ring buffers and the actors of class16, for buffers of *)
(* any size.                                                               *)
(***************************************************************************)
EXTENDS Actors, SequenceTheorems, TLAPS

-----------------------------------------------------------------------------
(* The ring buffer. *)

\* The cell after a cell.
LEMMA Wrap ==
    ASSUME NEW a \in Cells
    PROVE  (a + 1) % MAXFIFO = IF a + 1 = MAXFIFO THEN 0 ELSE a + 1
<1>1. a \in Int /\ 0 <= a /\ a + 1 <= MAXFIFO /\ MAXFIFO \in Int /\ MAXFIFO > 1
  BY MaxFifoAssumption DEF Cells
<1>2. CASE a + 1 = MAXFIFO
  BY <1>1, <1>2
<1>3. CASE a + 1 < MAXFIFO
  BY <1>1, <1>3
<1> QED
  BY <1>1, <1>2, <1>3

\* One cell always stays free.
LEMMA CountInRange ==
    ASSUME NEW F \in Fifos
    PROVE  /\ Count(F) \in 0..(MAXFIFO - 1)
           /\ Count(F) = 0 <=> F.wptr = F.rptr
           /\ Full(F) <=> Count(F) = MAXFIFO - 1
<1>1. F.wptr \in Cells /\ F.rptr \in Cells
  BY DEF Fifos
<1>2. (F.wptr + 1) % MAXFIFO = IF F.wptr + 1 = MAXFIFO THEN 0 ELSE F.wptr + 1
  BY <1>1, Wrap
<1> QED
  BY <1>1, <1>2, MaxFifoAssumption DEF Count, Full, Cells

\* fifo_size is right about emptiness, and at most one too large.
LEMMA SizeNearCount ==
    ASSUME NEW F \in Fifos
    PROVE  /\ fifo_size(F) \in {Count(F), Count(F) + 1}
           /\ fifo_size(F) > 0 <=> Count(F) > 0
<1>1. F.wptr \in Cells /\ F.rptr \in Cells
  BY DEF Fifos
<1> QED
  BY <1>1, MaxFifoAssumption DEF Count, fifo_size, Cells

LEMMA PutType ==
    ASSUME NEW F \in Fifos, NEW d \in Int
    PROVE  /\ put_fifo(F, d) \in Fifos
           /\ Count(put_fifo(F, d)) = IF Full(F) THEN Count(F) ELSE Count(F) + 1
<1>1. F.wptr \in Cells /\ F.rptr \in Cells /\ F.data \in [Cells -> Int]
  BY DEF Fifos
<1>2. (F.wptr + 1) % MAXFIFO = IF F.wptr + 1 = MAXFIFO THEN 0 ELSE F.wptr + 1
  BY <1>1, Wrap
<1>3. (F.wptr + 1) % MAXFIFO \in Cells
  BY <1>1, <1>2, MaxFifoAssumption DEF Cells
<1>4. put_fifo(F, d) \in Fifos
  BY <1>1, <1>3 DEF put_fifo, Fifos
<1>5. CASE Full(F)
  BY <1>5 DEF put_fifo
<1>6. CASE ~Full(F)
  <2>1. /\ put_fifo(F, d).wptr = IF F.wptr + 1 = MAXFIFO THEN 0 ELSE F.wptr + 1
        /\ put_fifo(F, d).rptr = F.rptr
        /\ F.rptr # IF F.wptr + 1 = MAXFIFO THEN 0 ELSE F.wptr + 1
    BY <1>2, <1>6 DEF put_fifo, Full
  <2>2. Count(put_fifo(F, d)) =
          LET w == IF F.wptr + 1 = MAXFIFO THEN 0 ELSE F.wptr + 1
          IN IF w >= F.rptr THEN w - F.rptr ELSE MAXFIFO - (F.rptr - w)
    BY <2>1 DEF Count
  <2>3. Count(F) = IF F.wptr >= F.rptr THEN F.wptr - F.rptr ELSE MAXFIFO - (F.rptr - F.wptr)
    BY DEF Count
  <2>4. Count(put_fifo(F, d)) = Count(F) + 1
    BY <1>1, <2>1, <2>2, <2>3, MaxFifoAssumption DEF Cells
  <2> QED
    BY <1>4, <1>6, <2>4
<1> QED
  BY <1>4, <1>5, <1>6

LEMMA RestType ==
    ASSUME NEW F \in Fifos
    PROVE  /\ Rest(F) \in Fifos
           /\ Oldest(F) \in Int
           /\ Count(Rest(F)) = IF Count(F) = 0 THEN 0 ELSE Count(F) - 1
<1>1. F.wptr \in Cells /\ F.rptr \in Cells /\ F.data \in [Cells -> Int]
  BY DEF Fifos
<1>2. (F.rptr + 1) % MAXFIFO = IF F.rptr + 1 = MAXFIFO THEN 0 ELSE F.rptr + 1
  BY <1>1, Wrap
<1>3. (F.rptr + 1) % MAXFIFO \in Cells
  BY <1>1, <1>2, MaxFifoAssumption DEF Cells
<1>4. Rest(F) \in Fifos /\ Oldest(F) \in Int
  BY <1>1, <1>3 DEF Rest, Oldest, Fifos
<1>5. CASE F.rptr = F.wptr
  <2>1. Rest(F) = F /\ Count(F) = 0
    BY <1>5, CountInRange DEF Rest
  <2> QED
    BY <1>4, <2>1
<1>6. CASE F.rptr # F.wptr
  <2>1. /\ Rest(F).wptr = F.wptr
        /\ Rest(F).rptr = IF F.rptr + 1 = MAXFIFO THEN 0 ELSE F.rptr + 1
    BY <1>2, <1>6 DEF Rest
  <2>2. Count(F) # 0
    BY <1>6, CountInRange
  <2> QED
    BY <1>1, <1>4, <1>6, <2>1, <2>2, MaxFifoAssumption DEF Count, Cells
<1> QED
  BY <1>4, <1>5, <1>6

LEMMA InitFifoEmpty ==
    ASSUME NEW data \in [Cells -> Int]
    PROVE  InitFifo(data) \in Fifos /\ Count(InitFifo(data)) = 0
BY MaxFifoAssumption DEF InitFifo, Fifos, Cells, Count

-----------------------------------------------------------------------------
(* The ring buffer as a queue. *)

LEMMA CellInRange ==
    ASSUME NEW F \in Fifos, NEW k \in 1..Count(F)
    PROVE  Cell(F, k) \in Cells
<1>1. F.wptr \in Cells /\ F.rptr \in Cells
  BY DEF Fifos
<1>2. Count(F) \in 0..(MAXFIFO - 1)
  BY CountInRange
<1> QED
  BY <1>1, <1>2, MaxFifoAssumption DEF Cell, Cells

LEMMA TokensType ==
    ASSUME NEW F \in Fifos
    PROVE  /\ Tokens(F) \in Seq(Int) /\ Len(Tokens(F)) = Count(F)
           /\ \A k \in 1..Count(F) : Tokens(F)[k] = F.data[Cell(F, k)]
<1>1. Count(F) \in Nat
  BY CountInRange, MaxFifoAssumption
<1>2. \A k \in 1..Count(F) : F.data[Cell(F, k)] \in Int
  BY CellInRange DEF Fifos
<1> QED
  BY <1>1, <1>2 DEF Tokens

LEMMA NoTokens ==
    ASSUME NEW F \in Fifos
    PROVE  Tokens(F) = <<>> <=> Count(F) = 0
<1>1. Tokens(F) \in Seq(Int) /\ Len(Tokens(F)) = Count(F)
  BY TokensType
<1> QED
  BY <1>1, EmptySeq

(***************************************************************************)
(* A put appends to the queue, or loses the token if the ring is full,     *)
(* wherever in the ring the tokens are.                                    *)
(***************************************************************************)
THEOREM PutIsAdd ==
    ASSUME NEW F \in Fifos, NEW d \in Int
    PROVE  Tokens(put_fifo(F, d)) = Network!Add(Tokens(F), d)
<1> DEFINE G == put_fifo(F, d)
<1>0. /\ F.wptr \in Cells /\ F.rptr \in Cells /\ F.data \in [Cells -> Int]
      /\ Count(F) \in 0..(MAXFIFO - 1)
      /\ Tokens(F) \in Seq(Int) /\ Len(Tokens(F)) = Count(F)
  BY CountInRange, TokensType DEF Fifos
<1>1. CASE Full(F)
  <2>1. Len(Tokens(F)) >= MAXFIFO - 1
    BY <1>0, <1>1, CountInRange, MaxFifoAssumption
  <2> QED
    BY <1>1, <2>1 DEF put_fifo, Network!Add
<1>2. CASE ~Full(F)
  <2>1. ~(Len(Tokens(F)) >= MAXFIFO - 1)
    BY <1>0, <1>2, CountInRange, MaxFifoAssumption
  <2>2. G \in Fifos /\ Count(G) = Count(F) + 1 /\ G.rptr = F.rptr
        /\ G.data = [F.data EXCEPT ![F.wptr] = d]
    BY <1>2, PutType DEF put_fifo
  <2>3. /\ Tokens(G) \in Seq(Int) /\ Len(Tokens(G)) = Count(F) + 1
        /\ \A k \in 1..(Count(F) + 1) : Tokens(G)[k] = G.data[Cell(G, k)]
    BY <2>2, TokensType
  <2>4. /\ Append(Tokens(F), d) \in Seq(Int) /\ Len(Append(Tokens(F), d)) = Count(F) + 1
        /\ \A k \in 1..Count(F) : Append(Tokens(F), d)[k] = Tokens(F)[k]
        /\ Append(Tokens(F), d)[Count(F) + 1] = d
    BY <1>0, AppendProperties
  <2>5. \A k : Cell(G, k) = Cell(F, k)
    BY <2>2 DEF Cell
  <2>6. Cell(F, Count(F) + 1) = F.wptr
    BY <1>0, <1>2, CountInRange, MaxFifoAssumption DEF Cell, Count, Cells
  <2>7. ASSUME NEW k \in 1..Count(F)
        PROVE  Tokens(G)[k] = Tokens(F)[k]
    <3>1. Cell(F, k) \in Cells /\ Cell(F, k) # F.wptr
      <4>1. Cell(F, k) # F.wptr
        BY <1>0, MaxFifoAssumption DEF Cell, Count, Cells
      <4> QED
        BY <4>1, CellInRange
    <3>2. Tokens(F)[k] = F.data[Cell(F, k)]
      BY TokensType
    <3> QED
      BY <1>0, <2>2, <2>3, <2>5, <3>1, <3>2
  <2>8. Tokens(G)[Count(F) + 1] = d
    BY <1>0, <2>2, <2>3, <2>5, <2>6
  <2>9. \A k \in 1..(Count(F) + 1) : Tokens(G)[k] = Append(Tokens(F), d)[k]
    BY <1>0, <2>4, <2>7, <2>8
  <2>10. Tokens(G) = Append(Tokens(F), d)
    BY <2>3, <2>4, <2>9, SeqEqual
  <2> QED
    BY <2>1, <2>10 DEF Network!Add
<1> QED
  BY <1>1, <1>2

(***************************************************************************)
(* A get takes the head of the queue and leaves its tail.                  *)
(***************************************************************************)
THEOREM GetIsHead ==
    ASSUME NEW F \in Fifos, Count(F) > 0
    PROVE  Oldest(F) = Head(Tokens(F)) /\ Tokens(Rest(F)) = Tail(Tokens(F))
<1> DEFINE G == Rest(F)
<1>0. /\ F.wptr \in Cells /\ F.rptr \in Cells /\ F.data \in [Cells -> Int]
      /\ Count(F) \in 0..(MAXFIFO - 1)
      /\ Tokens(F) \in Seq(Int) /\ Len(Tokens(F)) = Count(F)
      /\ \A k \in 1..Count(F) : Tokens(F)[k] = F.data[Cell(F, k)]
  BY CountInRange, TokensType DEF Fifos
<1>1. F.rptr # F.wptr /\ Tokens(F) # <<>>
  BY CountInRange, NoTokens, MaxFifoAssumption
<1>2. Oldest(F) = Head(Tokens(F))
  <2>1. Cell(F, 1) = F.rptr
    BY <1>0, MaxFifoAssumption DEF Cell, Cells
  <2>2. 1 \in 1..Count(F)
    BY <1>0
  <2>3. Head(Tokens(F)) = Tokens(F)[1]
    BY <1>0, <1>1
  <2> QED
    BY <1>0, <1>1, <2>1, <2>2, <2>3 DEF Oldest
<1>3. /\ G \in Fifos /\ Count(G) = Count(F) - 1 /\ G.data = F.data
      /\ G.rptr = IF F.rptr + 1 = MAXFIFO THEN 0 ELSE F.rptr + 1
  <2>1. G \in Fifos /\ Count(G) = Count(F) - 1
    BY <1>0, RestType
  <2>2. G.data = F.data /\ G.rptr = (F.rptr + 1) % MAXFIFO
    BY <1>1 DEF Rest
  <2>3. (F.rptr + 1) % MAXFIFO = IF F.rptr + 1 = MAXFIFO THEN 0 ELSE F.rptr + 1
    BY <1>0, Wrap
  <2> QED
    BY <2>1, <2>2, <2>3
<1>4. /\ Tokens(G) \in Seq(Int) /\ Len(Tokens(G)) = Count(F) - 1
      /\ \A k \in 1..(Count(F) - 1) : Tokens(G)[k] = G.data[Cell(G, k)]
  BY <1>3, TokensType
<1>5. /\ Tail(Tokens(F)) \in Seq(Int) /\ Len(Tail(Tokens(F))) = Count(F) - 1
      /\ \A k \in 1..(Count(F) - 1) : Tail(Tokens(F))[k] = Tokens(F)[k + 1]
  BY <1>0, <1>1, HeadTailProperties
<1>6. ASSUME NEW k \in 1..(Count(F) - 1)
      PROVE  Cell(G, k) = Cell(F, k + 1)
  BY <1>0, <1>3, MaxFifoAssumption DEF Cell, Cells
<1>7. ASSUME NEW k \in 1..(Count(F) - 1)
      PROVE  Tokens(G)[k] = Tail(Tokens(F))[k]
  <2>1. k + 1 \in 1..Count(F)
    BY <1>0
  <2>2. Tail(Tokens(F))[k] = F.data[Cell(F, k + 1)]
    BY <1>0, <1>5, <2>1
  <2>3. Tokens(G)[k] = F.data[Cell(F, k + 1)]
    BY <1>3, <1>4, <1>6
  <2> QED
    BY <2>2, <2>3
<1>8. Tokens(G) = Tail(Tokens(F))
  BY <1>4, <1>5, <1>7, SeqEqual
<1> QED
  BY <1>2, <1>8

-----------------------------------------------------------------------------
(* The actors: types. *)

\* A round that has begun is one of the rounds.
RoundInv == at \in {"inc", "fork", "mul", "print"} => round < Rounds

\* The buffers at the start, of which output2 holds what was on the stack.
FirstBuffer(c, w, r) ==
    CASE c = "input1"  -> put_fifo(InitFifo(Stack), 0)
      [] c = "input2"  -> put_fifo(InitFifo(Stack), 24)
      [] c = "output1" -> InitFifo(Stack)
      [] c = "output2" -> [data |-> Stack, wptr |-> w, rptr |-> r]

LEMMA InitBuffers ==
    ASSUME Init
    PROVE  /\ fifo \in [Channels -> Fifos]
           /\ fifo["input1"] = put_fifo(InitFifo(Stack), 0)
           /\ fifo["input2"] = put_fifo(InitFifo(Stack), 24)
           /\ fifo["output1"] = InitFifo(Stack)
           /\ clean \in BOOLEAN
           /\ clean => fifo["output2"].wptr = fifo["output2"].rptr
<1>1. PICK w \in Cells, r \in Cells :
        fifo = [c \in Channels |-> FirstBuffer(c, w, r)] /\ clean = (w = r)
  BY DEF Init, FirstBuffer
<1>2. /\ FirstBuffer("input1", w, r) = put_fifo(InitFifo(Stack), 0)
      /\ FirstBuffer("input2", w, r) = put_fifo(InitFifo(Stack), 24)
      /\ FirstBuffer("output1", w, r) = InitFifo(Stack)
      /\ FirstBuffer("output2", w, r) = [data |-> Stack, wptr |-> w, rptr |-> r]
  BY DEF FirstBuffer
<1>3. Stack \in [Cells -> Int]
  BY GarbageAssumption DEF Stack
<1>4. InitFifo(Stack) \in Fifos /\ [data |-> Stack, wptr |-> w, rptr |-> r] \in Fifos
  BY <1>3, InitFifoEmpty DEF Fifos
<1>5. put_fifo(InitFifo(Stack), 0) \in Fifos /\ put_fifo(InitFifo(Stack), 24) \in Fifos
  BY <1>4, PutType
<1>6. \A c \in Channels : FirstBuffer(c, w, r) \in Fifos
  BY <1>2, <1>4, <1>5 DEF Channels
<1>7. fifo["output2"].wptr = w /\ fifo["output2"].rptr = r
  BY <1>1, <1>2 DEF Channels
<1>8. clean \in BOOLEAN /\ (clean => fifo["output2"].wptr = fifo["output2"].rptr)
  BY <1>1, <1>7, Zenon
<1> QED
  BY <1>1, <1>2, <1>6, <1>8 DEF Channels

LEMMA InitType == Init => TypeOK /\ RoundInv
<1> SUFFICES ASSUME Init PROVE TypeOK /\ RoundInv
  OBVIOUS
<1>1. fifo \in [Channels -> Fifos] /\ clean \in BOOLEAN
  BY InitBuffers
<1>2. at = (IF Rounds = 0 THEN "done" ELSE "inc") /\ round = 0 /\ printed = <<>>
  BY DEF Init
<1> QED
  BY <1>1, <1>2, RoundsAssumption DEF TypeOK, RoundInv

\* What a firing takes and stores are buffers again.
LEMMA TypeStep == TypeOK /\ RoundInv /\ [Next]_vars => TypeOK' /\ RoundInv'
<1> SUFFICES ASSUME TypeOK, RoundInv, [Next]_vars PROVE TypeOK' /\ RoundInv'
  OBVIOUS
<1>0. /\ fifo \in [Channels -> Fifos]
      /\ \A c \in Channels : Rest(fifo[c]) \in Fifos /\ Oldest(fifo[c]) \in Int
      /\ \A c \in Channels, d \in Int : put_fifo(fifo[c], d) \in Fifos
  BY RestType, PutType DEF TypeOK
<1>1. CASE actor_inc
  <2>1. Oldest(fifo["input1"]) + 1 \in Int
    BY <1>0 DEF Channels
  <2>2. fifo' \in [Channels -> Fifos]
    BY <1>0, <1>1, <2>1 DEF actor_inc, Deliver, Skip, Channels
  <2> QED
    BY <1>1, <2>2 DEF actor_inc, Deliver, Skip, TypeOK, RoundInv
<1>2. CASE actor_fork
  <2>1. Oldest(fifo["output1"]) \in Int
    BY <1>0 DEF Channels
  <2>2. fifo' \in [Channels -> Fifos]
    BY <1>0, <1>2, <2>1 DEF actor_fork, Deliver, Skip, Channels
  <2> QED
    BY <1>2, <2>2 DEF actor_fork, Deliver, Skip, TypeOK, RoundInv
<1>3. CASE actor_mul
  <2>1. Oldest(fifo["output2"]) * Oldest(fifo["input2"]) \in Int
    BY <1>0 DEF Channels
  <2>2. fifo' \in [Channels -> Fifos]
    BY <1>0, <1>3, <2>1 DEF actor_mul, Deliver, Skip, Channels
  <2> QED
    BY <1>3, <2>2 DEF actor_mul, Deliver, Skip, TypeOK, RoundInv
<1>4. CASE actor_print
  <2>1. fifo' \in [Channels -> Fifos]
    BY <1>0, <1>4 DEF actor_print, Channels
  <2>2. printed' \in Seq(Int)
    <3>1. Oldest(fifo["output1"]) \in Int /\ printed \in Seq(Int)
      BY <1>0 DEF TypeOK, Channels
    <3>2. Append(printed, Oldest(fifo["output1"])) \in Seq(Int)
      BY <3>1, AppendProperties
    <3> QED
      BY <1>4, <3>1, <3>2 DEF actor_print
  <2>3. round < Rounds /\ round \in Nat /\ round' = round + 1
    BY <1>4 DEF actor_print, TypeOK, RoundInv
  <2> QED
    BY <1>4, <2>1, <2>2, <2>3, RoundsAssumption DEF actor_print, TypeOK, RoundInv
<1>5. CASE UNCHANGED vars
  BY <1>5 DEF vars, TypeOK, RoundInv
<1> QED
  BY <1>1, <1>2, <1>3, <1>4, <1>5 DEF Next

\* Types: both pointers of every buffer stay on its cells, whatever output2
\* starts with.
THEOREM TypeCorrect == Spec => []TypeOK
BY InitType, TypeStep, PTL DEF Spec

-----------------------------------------------------------------------------
(* The assertion. *)

Held(c) == Count(fifo[c])

\* How many tokens each buffer has, place by place, if output2 was empty at
\* the start: 24 is multiplied in the first round, and each later round
\* adds one token to those that wait for a factor.
CleanInv ==
    clean =>
      /\ at # "abort"
      /\ at \in {"inc", "mul", "print"} => Held("input1") = 1
      /\ at \in {"inc", "mul"} => Held("output1") = 0
      /\ at = "fork" => Held("input1") = 0 /\ Held("output1") = 1
      /\ at = "print" => Held("input2") = 0 /\ Held("output1") <= 1 /\ Held("output2") <= round
      /\ at \in {"inc", "fork"} /\ round = 0 => Held("input2") = 1 /\ Held("output2") = 0
      /\ at \in {"inc", "fork"} /\ round > 0 => Held("input2") = 0 /\ Held("output2") <= round - 1
      /\ at = "mul" /\ round = 0 => Held("input2") = 1 /\ Held("output2") = 1
      /\ at = "mul" /\ round > 0 => Held("input2") = 0 /\ Held("output2") <= round

\* A put passes the assertion if nine tokens are there behind it, even
\* where fifo_size counts ten.
LEMMA NinePass ==
    ASSUME NEW F \in Fifos, NEW d \in Int, Count(F) <= 8
    PROVE  Asserted(F, d)
<1>1. put_fifo(F, d) \in Fifos /\ Count(put_fifo(F, d)) \in {Count(F), Count(F) + 1}
  BY PutType
<1>2. Count(F) \in Nat
  BY CountInRange, MaxFifoAssumption
<1>3. fifo_size(put_fifo(F, d)) \in {Count(put_fifo(F, d)), Count(put_fifo(F, d)) + 1}
  BY <1>1, SizeNearCount
<1> QED
  BY <1>1, <1>2, <1>3 DEF Asserted

\* A buffer without tokens takes one.
LEMMA PutIntoEmpty ==
    ASSUME NEW F \in Fifos, NEW d \in Int, Count(F) = 0
    PROVE  Count(put_fifo(F, d)) = 1
<1>1. ~Full(F)
  BY CountInRange, MaxFifoAssumption
<1> QED
  BY <1>1, PutType

LEMMA InitClean == Init => CleanInv
<1> SUFFICES ASSUME Init, clean PROVE CleanInv
  BY DEF CleanInv
<1>1. Stack \in [Cells -> Int]
  BY GarbageAssumption DEF Stack
<1>2. Held("input1") = 1 /\ Held("input2") = 1 /\ Held("output1") = 0
  BY <1>1, InitBuffers, InitFifoEmpty, PutIntoEmpty DEF Held
<1>3. Held("output2") = 0
  BY InitBuffers, CountInRange DEF Held, Channels
<1> QED
  BY <1>2, <1>3 DEF CleanInv, Init

LEMMA CleanStep ==
    ASSUME Rounds <= 10
    PROVE  TypeOK /\ RoundInv /\ CleanInv /\ [Next]_vars => CleanInv'
<1> SUFFICES ASSUME TypeOK, RoundInv, CleanInv, [Next]_vars, clean' PROVE CleanInv'
  BY DEF CleanInv
<1> USE DEF Held
<1>0. /\ \A c \in Channels : fifo[c] \in Fifos /\ Count(fifo[c]) \in Nat
      /\ \A c \in Channels : HasToken(c) <=> Held(c) > 0
      /\ \A c \in Channels : Oldest(fifo[c]) \in Int
      /\ round \in Nat /\ Rounds \in Nat
      /\ fifo \in [Channels -> Fifos]
  <2>1. \A c \in Channels : fifo[c] \in Fifos
    BY DEF TypeOK
  <2> QED
    BY <2>1, CountInRange, SizeNearCount, RestType, RoundsAssumption, MaxFifoAssumption
       DEF TypeOK, HasToken
<1>1. CASE actor_inc
  <2> DEFINE d == Oldest(fifo["input1"]) + 1
  <2>1. clean /\ at = "inc" /\ round' = round /\ Held("input1") = 1 /\ Held("output1") = 0
    BY <1>1 DEF actor_inc, CleanInv
  <2>2. d \in Int /\ Asserted(fifo["output1"], d)
    BY <1>0, <2>1, NinePass DEF Channels
  <2>3. /\ at' = "fork"
        /\ fifo' = [fifo EXCEPT !["input1"] = Rest(@), !["output1"] = put_fifo(@, d)]
    BY <1>0, <1>1, <2>1, <2>2 DEF actor_inc, Deliver, Channels
  <2>4. /\ fifo'["input1"] = Rest(fifo["input1"]) /\ fifo'["output1"] = put_fifo(fifo["output1"], d)
        /\ fifo'["input2"] = fifo["input2"] /\ fifo'["output2"] = fifo["output2"]
    BY <1>0, <2>3 DEF Channels
  <2>5. Held("input1")' = 0 /\ Held("output1")' = 1
    BY <1>0, <2>1, <2>2, <2>4, RestType, PutIntoEmpty DEF Channels
  <2> QED
    BY <2>1, <2>3, <2>4, <2>5 DEF CleanInv
<1>2. CASE actor_fork
  <2> DEFINE d == Oldest(fifo["output1"])
  <2>1. /\ clean /\ at = "fork" /\ round' = round /\ Held("input1") = 0 /\ Held("output1") = 1
        /\ round = 0 => Held("input2") = 1 /\ Held("output2") = 0
        /\ round > 0 => Held("input2") = 0 /\ Held("output2") <= round - 1
    BY <1>2 DEF actor_fork, CleanInv
  <2>2. round < 10 /\ Held("output2") <= 8
    BY <1>0, <2>1 DEF RoundInv, Channels
  <2>3. d \in Int /\ Asserted(fifo["input1"], d) /\ Asserted(fifo["output2"], d)
    BY <1>0, <2>1, <2>2, NinePass DEF Channels
  <2>4. /\ at' = "mul"
        /\ fifo' = [fifo EXCEPT !["output1"] = Rest(@), !["input1"] = put_fifo(@, d),
                                !["output2"] = put_fifo(@, d)]
    BY <1>0, <1>2, <2>1, <2>3 DEF actor_fork, Deliver, Channels
  <2>5. /\ fifo'["output1"] = Rest(fifo["output1"]) /\ fifo'["input1"] = put_fifo(fifo["input1"], d)
        /\ fifo'["output2"] = put_fifo(fifo["output2"], d) /\ fifo'["input2"] = fifo["input2"]
    BY <1>0, <2>4 DEF Channels
  <2>6. Held("output1")' = 0 /\ Held("input1")' = 1
    BY <1>0, <2>1, <2>3, <2>5, RestType, PutIntoEmpty DEF Channels
  <2>7. Held("output2")' \in {Held("output2"), Held("output2") + 1}
    BY <1>0, <2>3, <2>5, PutType DEF Channels
  <2>8. round = 0 => Held("output2")' = 1
    BY <1>0, <2>1, <2>3, <2>5, PutIntoEmpty DEF Channels
  <2> QED
    BY <1>0, <2>1, <2>4, <2>5, <2>6, <2>7, <2>8 DEF CleanInv, Channels
<1>3. CASE actor_mul
  <2> DEFINE d == Oldest(fifo["output2"]) * Oldest(fifo["input2"])
  <2>1. /\ clean /\ at = "mul" /\ round' = round /\ Held("input1") = 1 /\ Held("output1") = 0
        /\ round = 0 => Held("input2") = 1 /\ Held("output2") = 1
        /\ round > 0 => Held("input2") = 0 /\ Held("output2") <= round
    BY <1>3 DEF actor_mul, CleanInv
  <2>2. CASE round = 0
    <3>1. d \in Int /\ Asserted(fifo["output1"], d)
      <4>1. d \in Int
        BY <1>0 DEF Channels
      <4> QED
        BY <1>0, <2>1, <4>1, NinePass DEF Channels
    <3>2. /\ at' = "print"
          /\ fifo' = [fifo EXCEPT !["output2"] = Rest(@), !["input2"] = Rest(@),
                                  !["output1"] = put_fifo(@, d)]
      BY <1>0, <1>3, <2>1, <2>2, <3>1 DEF actor_mul, Deliver, Channels
    <3>3. /\ fifo'["output2"] = Rest(fifo["output2"]) /\ fifo'["input2"] = Rest(fifo["input2"])
          /\ fifo'["output1"] = put_fifo(fifo["output1"], d) /\ fifo'["input1"] = fifo["input1"]
      BY <1>0, <3>2 DEF Channels
    <3>4. Held("output2")' = 0 /\ Held("input2")' = 0 /\ Held("output1")' = 1
      BY <1>0, <2>1, <2>2, <3>1, <3>3, RestType, PutIntoEmpty DEF Channels
    <3> QED
      BY <2>1, <2>2, <3>2, <3>3, <3>4 DEF CleanInv
  <2>3. CASE round > 0
    <3>1. at' = "print" /\ fifo' = fifo
      BY <1>0, <1>3, <2>1, <2>3 DEF actor_mul, Skip, Channels
    <3> QED
      BY <2>1, <2>3, <3>1 DEF CleanInv
  <2> QED
    BY <1>0, <2>2, <2>3
<1>4. CASE actor_print
  <2>1. /\ clean /\ at = "print" /\ round' = round + 1 /\ at' \in {"inc", "done"}
        /\ Held("input1") = 1 /\ Held("input2") = 0
        /\ Held("output1") <= 1 /\ Held("output2") <= round
    BY <1>4 DEF actor_print, CleanInv
  <2>2. /\ fifo'["input1"] = fifo["input1"] /\ fifo'["input2"] = fifo["input2"]
        /\ fifo'["output2"] = fifo["output2"]
        /\ fifo'["output1"] = IF HasToken("output1") THEN Rest(fifo["output1"]) ELSE fifo["output1"]
    BY <1>0, <1>4 DEF actor_print, Channels
  <2>3. Held("output1")' = 0
    BY <1>0, <2>1, <2>2, RestType DEF Channels
  <2> QED
    BY <1>0, <2>1, <2>2, <2>3 DEF CleanInv, Channels
<1>5. CASE UNCHANGED vars
  BY <1>5 DEF vars, CleanInv
<1> QED
  BY <1>1, <1>2, <1>3, <1>4, <1>5 DEF Next

(***************************************************************************)
(* In the ten rounds of main, no put fails its assertion if output2 was    *)
(* empty at the start, at whatever place of a ring of whatever size.       *)
(***************************************************************************)
THEOREM AssertionHolds ==
    ASSUME Rounds <= 10
    PROVE  Spec => []AssertionNeedsGarbage
<1>1. Init => TypeOK /\ RoundInv /\ CleanInv
  BY InitType, InitClean
<1>2. TypeOK /\ RoundInv /\ CleanInv /\ [Next]_vars => (TypeOK /\ RoundInv /\ CleanInv)'
  BY TypeStep, CleanStep
<1>3. CleanInv => AssertionNeedsGarbage
  BY DEF CleanInv, AssertionNeedsGarbage
<1> QED
  BY <1>1, <1>2, <1>3, PTL DEF Spec

-----------------------------------------------------------------------------
(* The refinement. *)

\* A buffer's tokens before and after: what the network sees of a step.
LEMMA BuffersAsQueues ==
    ASSUME TypeOK, NEW c \in Channels
    PROVE  /\ HasToken(c) <=> Tokens(fifo[c]) # <<>>
           /\ HasToken(c) => /\ Oldest(fifo[c]) = Head(Tokens(fifo[c]))
                             /\ Tokens(Rest(fifo[c])) = Tail(Tokens(fifo[c]))
           /\ Oldest(fifo[c]) \in Int
           /\ \A d \in Int : Tokens(put_fifo(fifo[c], d)) = Network!Add(Tokens(fifo[c]), d)
<1>1. fifo[c] \in Fifos
  BY DEF TypeOK
<1>2. Count(fifo[c]) \in Nat
  BY <1>1, CountInRange, MaxFifoAssumption
<1>3. HasToken(c) <=> Count(fifo[c]) > 0
  BY <1>1, SizeNearCount DEF HasToken
<1> QED
  BY <1>1, <1>2, <1>3, NoTokens, GetIsHead, PutIsAdd, RestType

LEMMA InitNetwork == Init => Network!Init
<1> SUFFICES ASSUME Init PROVE Network!Init
  OBVIOUS
<1>1. Stack \in [Cells -> Int]
  BY GarbageAssumption DEF Stack
<1>2. InitFifo(Stack) \in Fifos /\ Tokens(InitFifo(Stack)) = <<>>
  BY <1>1, InitFifoEmpty, NoTokens
<1>3. ASSUME NEW d \in Int
      PROVE  Tokens(put_fifo(InitFifo(Stack), d)) = <<d>>
  <2>1. Tokens(put_fifo(InitFifo(Stack), d)) = Network!Add(<<>>, d)
    BY <1>2, PutIsAdd
  <2>2. Network!Add(<<>>, d) = Append(<<>>, d)
    BY MaxFifoAssumption DEF Network!Add
  <2> QED
    BY <2>1, <2>2
<1>4. /\ Tokens(fifo["input1"]) = <<0>> /\ Tokens(fifo["input2"]) = <<24>>
      /\ Tokens(fifo["output1"]) = <<>>
  BY <1>2, <1>3, InitBuffers
<1>5. Tokens(fifo["output2"]) \in Seq(Int)
  BY InitBuffers, TokensType DEF Channels
<1> QED
  BY <1>4, <1>5 DEF Init, Network!Init, Queues

\* The four queues, of a state and of the next one.
LEMMA QueuesRecord ==
    ASSUME TypeOK, TypeOK'
    PROVE  /\ Queues \in [input1 : Seq(Int), input2 : Seq(Int), output1 : Seq(Int), output2 : Seq(Int)]
           /\ Queues' \in [input1 : Seq(Int), input2 : Seq(Int), output1 : Seq(Int), output2 : Seq(Int)]
           /\ Queues.input1 = Tokens(fifo["input1"]) /\ Queues.input2 = Tokens(fifo["input2"])
           /\ Queues.output1 = Tokens(fifo["output1"]) /\ Queues.output2 = Tokens(fifo["output2"])
           /\ Queues'.input1 = Tokens(fifo'["input1"]) /\ Queues'.input2 = Tokens(fifo'["input2"])
           /\ Queues'.output1 = Tokens(fifo'["output1"]) /\ Queues'.output2 = Tokens(fifo'["output2"])
<1>1. \A c \in Channels : fifo[c] \in Fifos /\ fifo'[c] \in Fifos
  BY DEF TypeOK
<1>2. \A c \in Channels : Tokens(fifo[c]) \in Seq(Int) /\ Tokens(fifo'[c]) \in Seq(Int)
  BY <1>1, TokensType
<1> QED
  BY <1>2 DEF Queues, Channels

\* Each firing is the firing of the network's actor; a call that does not
\* fire, or whose assertion fails, is no step of the network.
LEMMA StepNetwork == TypeOK /\ TypeOK' /\ [Next]_vars => [Network!Next]_<<Queues, printed>>
<1> SUFFICES ASSUME TypeOK, TypeOK', [Next]_vars PROVE [Network!Next]_<<Queues, printed>>
  OBVIOUS
<1>0. fifo \in [Channels -> Fifos] /\ Channels = {"input1", "input2", "output1", "output2"}
  BY DEF TypeOK, Channels
<1>1. CASE actor_inc
  <2> DEFINE d == Oldest(fifo["input1"]) + 1
  <2>1. UNCHANGED printed
    BY <1>1 DEF actor_inc
  <2>2. CASE UNCHANGED fifo
    BY <2>1, <2>2 DEF Queues
  <2>3. CASE ~UNCHANGED fifo
    <3>1. /\ HasToken("input1")
          /\ fifo' = [fifo EXCEPT !["input1"] = Rest(@), !["output1"] = put_fifo(@, d)]
      BY <1>1, <2>3 DEF actor_inc, Deliver, Skip
    <3>2. /\ fifo'["input1"] = Rest(fifo["input1"]) /\ fifo'["output1"] = put_fifo(fifo["output1"], d)
          /\ fifo'["input2"] = fifo["input2"] /\ fifo'["output2"] = fifo["output2"]
      BY <1>0, <3>1
    <3>3. /\ Queues.input1 # <<>> /\ d = Head(Queues.input1) + 1 /\ d \in Int
          /\ Tokens(fifo'["input1"]) = Tail(Queues.input1)
      BY <1>0, <3>1, <3>2, BuffersAsQueues DEF Queues
    <3>4. Tokens(fifo'["output1"]) = Network!Add(Queues.output1, d)
      BY <1>0, <3>2, <3>3, BuffersAsQueues DEF Queues
    <3>5. Queues' = [Queues EXCEPT !.input1 = Tail(Queues.input1),
                                   !.output1 = Network!Add(Queues.output1, Head(Queues.input1) + 1)]
      BY <3>2, <3>3, <3>4, QueuesRecord
    <3>6. Network!Inc
      BY <2>1, <3>3, <3>5 DEF Network!Inc
    <3> QED
      BY <3>6 DEF Network!Next
  <2> QED
    BY <2>2, <2>3
<1>2. CASE actor_fork
  <2> DEFINE d == Oldest(fifo["output1"])
  <2>1. UNCHANGED printed
    BY <1>2 DEF actor_fork
  <2>2. CASE UNCHANGED fifo
    BY <2>1, <2>2 DEF Queues
  <2>3. CASE ~UNCHANGED fifo
    <3>1. /\ HasToken("output1")
          /\ fifo' = [fifo EXCEPT !["output1"] = Rest(@), !["input1"] = put_fifo(@, d),
                                  !["output2"] = put_fifo(@, d)]
      BY <1>2, <2>3 DEF actor_fork, Deliver, Skip
    <3>2. /\ fifo'["output1"] = Rest(fifo["output1"]) /\ fifo'["input1"] = put_fifo(fifo["input1"], d)
          /\ fifo'["output2"] = put_fifo(fifo["output2"], d) /\ fifo'["input2"] = fifo["input2"]
      BY <1>0, <3>1
    <3>3. /\ Queues.output1 # <<>> /\ d = Head(Queues.output1) /\ d \in Int
          /\ Tokens(fifo'["output1"]) = Tail(Queues.output1)
      BY <1>0, <3>1, <3>2, BuffersAsQueues DEF Queues
    <3>4. /\ Tokens(fifo'["input1"]) = Network!Add(Queues.input1, d)
          /\ Tokens(fifo'["output2"]) = Network!Add(Queues.output2, d)
      BY <1>0, <3>2, <3>3, BuffersAsQueues DEF Queues
    <3>5. Queues' = [Queues EXCEPT !.output1 = Tail(Queues.output1),
                                   !.input1 = Network!Add(Queues.input1, Head(Queues.output1)),
                                   !.output2 = Network!Add(Queues.output2, Head(Queues.output1))]
      BY <3>2, <3>3, <3>4, QueuesRecord
    <3>6. Network!Fork
      BY <2>1, <3>3, <3>5 DEF Network!Fork
    <3> QED
      BY <3>6 DEF Network!Next
  <2> QED
    BY <2>2, <2>3
<1>3. CASE actor_mul
  <2> DEFINE d == Oldest(fifo["output2"]) * Oldest(fifo["input2"])
  <2>1. UNCHANGED printed
    BY <1>3 DEF actor_mul
  <2>2. CASE UNCHANGED fifo
    BY <2>1, <2>2 DEF Queues
  <2>3. CASE ~UNCHANGED fifo
    <3>1. /\ HasToken("output2") /\ HasToken("input2")
          /\ fifo' = [fifo EXCEPT !["output2"] = Rest(@), !["input2"] = Rest(@),
                                  !["output1"] = put_fifo(@, d)]
      BY <1>3, <2>3 DEF actor_mul, Deliver, Skip
    <3>2. /\ fifo'["output2"] = Rest(fifo["output2"]) /\ fifo'["input2"] = Rest(fifo["input2"])
          /\ fifo'["output1"] = put_fifo(fifo["output1"], d) /\ fifo'["input1"] = fifo["input1"]
      BY <1>0, <3>1
    <3>3. /\ Queues.output2 # <<>> /\ Queues.input2 # <<>>
          /\ Oldest(fifo["output2"]) = Head(Queues.output2) /\ Oldest(fifo["output2"]) \in Int
          /\ Oldest(fifo["input2"]) = Head(Queues.input2) /\ Oldest(fifo["input2"]) \in Int
          /\ Tokens(fifo'["output2"]) = Tail(Queues.output2)
          /\ Tokens(fifo'["input2"]) = Tail(Queues.input2)
      BY <1>0, <3>1, <3>2, BuffersAsQueues DEF Queues
    <3>4. d \in Int /\ d = Head(Queues.output2) * Head(Queues.input2)
      BY <3>3
    <3>5. Tokens(fifo'["output1"]) = Network!Add(Queues.output1, d)
      BY <1>0, <3>2, <3>4, BuffersAsQueues DEF Queues
    <3>6. Queues' = [Queues EXCEPT !.output2 = Tail(Queues.output2),
                                   !.input2 = Tail(Queues.input2),
                                   !.output1 = Network!Add(Queues.output1,
                                                 Head(Queues.output2) * Head(Queues.input2))]
      BY <3>2, <3>3, <3>4, <3>5, QueuesRecord
    <3>7. Network!Mul
      BY <2>1, <3>3, <3>6 DEF Network!Mul
    <3> QED
      BY <3>7 DEF Network!Next
  <2> QED
    BY <2>2, <2>3
<1>4. CASE actor_print
  <2>1. CASE HasToken("output1")
    <3>1. /\ printed' = Append(printed, Oldest(fifo["output1"]))
          /\ fifo' = [fifo EXCEPT !["output1"] = Rest(@)]
      BY <1>4, <2>1 DEF actor_print
    <3>2. /\ fifo'["output1"] = Rest(fifo["output1"]) /\ fifo'["input1"] = fifo["input1"]
          /\ fifo'["input2"] = fifo["input2"] /\ fifo'["output2"] = fifo["output2"]
      BY <1>0, <3>1
    <3>3. /\ Queues.output1 # <<>> /\ Oldest(fifo["output1"]) = Head(Queues.output1)
          /\ Tokens(fifo'["output1"]) = Tail(Queues.output1)
      BY <1>0, <2>1, <3>2, BuffersAsQueues DEF Queues
    <3>4. Queues' = [Queues EXCEPT !.output1 = Tail(Queues.output1)]
      BY <3>2, <3>3, QueuesRecord
    <3>5. Network!Show
      BY <3>1, <3>3, <3>4 DEF Network!Show
    <3> QED
      BY <3>5 DEF Network!Next
  <2>2. CASE ~HasToken("output1")
    BY <1>4, <2>2 DEF actor_print, Queues
  <2> QED
    BY <2>1, <2>2
<1>5. CASE UNCHANGED vars
  BY <1>5 DEF vars, Queues
<1> QED
  BY <1>1, <1>2, <1>3, <1>4, <1>5 DEF Next

(***************************************************************************)
(* The program implements the network of actors and bounded queues, for    *)
(* rings of any size, any number of rounds and any garbage in output2.     *)
(***************************************************************************)
THEOREM DataflowImplemented == Spec => MainIsDataflow
BY InitNetwork, StepNetwork, TypeCorrect, PTL DEF Spec, MainIsDataflow, Network!Spec
=============================================================================

-------------------------- MODULE Lab2TimerProofs --------------------------
(***************************************************************************)
(* Proofs about the lab 2 timer, for any number of writers, slots and      *)
(* packets, with any interleaving of the writes.                           *)
(***************************************************************************)
EXTENDS Lab2Timer, FiniteSetTheorems, SequenceTheorems, TLAPS

\* What a writer's locals hold at the places that use them.
LocalsAt(w) ==
      /\ at[w] = "user" => i[w] = 0 /\ concurrencyCurrent[w] = 0
      /\ at[w] \in {"max", "room"} => i[w] = 0
      /\ at[w] = "scan" => concurrencyCurrent[w] <= i[w]
      /\ at[w] = "compare" => concurrencyCurrent[w] <= i[w] + 1
      /\ at[w] \notin {"user", "max"} => packet[w].text # <<>>
      /\ at[w] \notin {"compare", "copy"} => char[w] = 0
      /\ at[w] = "compare" => char[w] <= Len(packet[w].text) /\ char[w] <= Len(msg[i[w]])
      /\ at[w] = "copy" => char[w] < Len(packet[w].text) /\ char[w] <= Len(msg[i[w]])

LocalsInv == \A w \in Writers : LocalsAt(w)

\* The first n characters of a message are those of a text.
Agree(n, text, m) == \A k \in 1..n : m[k] = text[k]
Begins(text, m)   == Len(text) <= Len(m) /\ Agree(Len(text), text, m)

\* What a writer alone has compared or copied is in its slot.
MatchInv ==
    \A w \in alone :
      /\ at[w] \in {"compare", "copy"} => Agree(char[w], packet[w].text, msg[i[w]])
      /\ at[w] \in {"update", "arm"} => Begins(packet[w].text, msg[i[w]])

\* A text that a timer has been armed for stays in the slot: no writer who
\* is about to copy or to arm has found the slot free.
SentInv ==
    \A s \in Slots : sent[s] # <<>> =>
      /\ pending[s]
      /\ Begins(sent[s], msg[s])
      /\ \A v \in Writers : at[v] \in {"copy", "arm"} => i[v] # s

\* What the first loop has counted so far, and what it has compared.
Behind(w) == {s \in Active : s < i[w]}
Upto(w)   == {s \in Active : s <= i[w]}

\* A writer whom nobody overlaps sees no timer armed behind its back.
AloneInv ==
    \A w \in alone :
      /\ at[w] # "user"
      /\ \A v \in Writers : v # w => at[v] = "user"
      /\ at[w] \in {"scan", "compare"} => \A s \in Behind(w) : msg[s] # packet[w].text
      /\ at[w] \in {"room", "find", "copy", "arm"} => \A s \in Active : msg[s] # packet[w].text
      /\ at[w] \in {"copy", "arm"} => ~pending[i[w]]

CountInv ==
    \A w \in alone :
      /\ at[w] = "scan" => Cardinality(Behind(w)) <= concurrencyCurrent[w]
      /\ at[w] = "compare" => Cardinality(Upto(w)) <= concurrencyCurrent[w]
      /\ at[w] = "room" => Cardinality(Active) <= concurrencyCurrent[w]
      /\ at[w] \in {"find", "copy", "arm"} => Cardinality(Active) < max_concurrency

IInv == TypeOK /\ LocalsInv /\ MatchInv /\ SentInv /\ AloneInv /\ CountInv

-----------------------------------------------------------------------------
(* Sequences and sets. *)

\* A message gets no shorter, and nothing else in it changes.
LEMMA PutCharIs ==
    ASSUME NEW m \in Seq(STRING), NEW k \in Nat, NEW c \in STRING, 1 <= k, k <= Len(m) + 1
    PROVE  /\ PutChar(m, k, c) \in Seq(STRING)
           /\ Len(m) <= Len(PutChar(m, k, c)) /\ k <= Len(PutChar(m, k, c))
           /\ PutChar(m, k, c)[k] = c
           /\ \A j \in 1..Len(m) : j # k => PutChar(m, k, c)[j] = m[j]
<1> DEFINE n == IF k <= Len(m) THEN Len(m) ELSE k
           new == [j \in 1..n |-> IF j = k THEN c ELSE m[j]]
<1>1. n \in Nat /\ Len(m) <= n /\ k <= n /\ k \in 1..n /\ \A j \in 1..n : j = k \/ j \in 1..Len(m)
  OBVIOUS
<1>2. new = PutChar(m, k, c)
  BY DEF PutChar
<1>3. \A j \in 1..Len(m) : m[j] \in STRING
  BY ElementOfSeq
<1> HIDE DEF n
<1>4. \A j \in 1..n : new[j] \in STRING
  BY <1>1, <1>3
<1>5. new \in Seq(STRING)
  <2>1. new \in [1..n -> STRING]
    BY <1>4
  <2> HIDE DEF new
  <2> QED
    BY <1>1, <2>1
<1>6. Len(new) = n
  BY <1>1
<1>7. new[k] = c
  BY <1>1
<1>8. \A j \in 1..Len(m) : j # k => new[j] = m[j]
  BY <1>1
<1> HIDE DEF new
<1> QED
  BY <1>1, <1>2, <1>5, <1>6, <1>7, <1>8, Zenon

\* What Copy does to the messages.
LEMMA CopyIs ==
    ASSUME TypeOK, LocalsInv, NEW w \in Writers, Copy(w)
    PROVE  /\ msg' \in [Slots -> Seq(STRING)]
           /\ \A s \in Slots : s # i[w] => msg'[s] = msg[s]
           /\ \A s \in Slots : Len(msg[s]) <= Len(msg'[s])
           /\ char[w] + 1 <= Len(msg'[i[w]])
           /\ msg'[i[w]][char[w] + 1] = packet[w].text[char[w] + 1]
           /\ \A j \in 1..char[w] : msg'[i[w]][j] = msg[i[w]][j]
<1> DEFINE m    == msg[i[w]]
           text == packet[w].text
           k    == char[w] + 1
<1>1. m \in Seq(STRING) /\ text \in Seq(STRING) /\ k \in Nat /\ i[w] \in Slots
  BY DEF TypeOK, SlotTypeOK, CallTypeOK
<1>2. 1 <= k /\ k <= Len(m) + 1 /\ k <= Len(text) /\ char[w] \in Nat
  BY <1>1 DEF Copy, LocalsInv, LocalsAt, TypeOK, CallTypeOK
<1>3. text[k] \in STRING
  <2>1. k \in 1..Len(text)
    BY <1>1, <1>2
  <2> QED
    BY <1>1, <2>1
<1>4. msg' = [msg EXCEPT ![i[w]] = PutChar(m, k, text[k])] /\ msg \in [Slots -> Seq(STRING)]
  BY DEF Copy, TypeOK, SlotTypeOK
<1> DEFINE new == PutChar(m, k, text[k])
<1> HIDE DEF m, text, k
<1>5. /\ new \in Seq(STRING)
      /\ Len(m) <= Len(new) /\ k <= Len(new)
      /\ new[k] = text[k]
      /\ \A j \in 1..Len(m) : j # k => new[j] = m[j]
  BY <1>1, <1>2, <1>3, PutCharIs
<1> HIDE DEF new
<1>6. msg' = [msg EXCEPT ![i[w]] = new]
  BY <1>4 DEF new
<1>7. msg'[i[w]] = new /\ \A s \in Slots : s # i[w] => msg'[s] = msg[s]
  BY <1>1, <1>4, <1>6
<1>8. \A s \in Slots : Len(msg[s]) \in Nat /\ (s = i[w] => msg[s] = m)
  BY <1>4 DEF m
<1>9. \A s \in Slots : Len(msg[s]) <= Len(msg'[s])
  BY <1>5, <1>7, <1>8
<1>10. \A j \in 1..char[w] : j \in 1..Len(m) /\ j # k
  BY <1>1, <1>2 DEF k
<1> QED
  BY <1>4, <1>5, <1>6, <1>7, <1>9, <1>10, <1>1 DEF m, text, k

LEMMA Lengths ==
    ASSUME NEW S, NEW m \in [S -> Seq(STRING)]
    PROVE  \A s \in S : Len(m[s]) \in Nat
OBVIOUS

LEMMA ActiveIsFinite ==
    ASSUME NEW S \in SUBSET Slots
    PROVE  IsFiniteSet(S) /\ Cardinality(S) \in Nat
<1>1. IsFiniteSet(Slots)
  BY NumSlotsAssumption, FS_Interval DEF Slots
<1> QED
  BY <1>1, FS_Subset, FS_CardinalityType

LEMMA FewerIsLess ==
    ASSUME NEW S \in SUBSET Slots, NEW T \in SUBSET S
    PROVE  Cardinality(T) <= Cardinality(S)
BY ActiveIsFinite, FS_Subset

-----------------------------------------------------------------------------
(* Types. *)

LEMMA InitIInv == Init => IInv
<1> SUFFICES ASSUME Init PROVE IInv
  OBVIOUS
<1> USE DEF Init
<1>1. TypeOK
  BY NumSlotsAssumption DEF TypeOK, SlotTypeOK, CallTypeOK, Slots
<1>2. LocalsInv /\ MatchInv /\ SentInv /\ AloneInv /\ CountInv
  BY DEF LocalsInv, LocalsAt, MatchInv, SentInv, AloneInv, CountInv, Active
<1> QED
  BY <1>1, <1>2 DEF IInv

LEMMA ReturnType ==
    ASSUME CallTypeOK, NEW w \in Writers, Return(w)
    PROVE  CallTypeOK'
<1>1. i' \in [Writers -> Slots] /\ concurrencyCurrent' \in [Writers -> 0..NumSlots]
  BY NumSlotsAssumption DEF CallTypeOK, Return, Slots
<1>2. packet' \in [Writers -> [text : Seq(STRING), number : Int]]
  <2>1. [text |-> <<>>, number |-> 0] \in [text : Seq(STRING), number : Int]
    OBVIOUS
  <2> QED
    BY <2>1 DEF CallTypeOK, Return
<1> QED
  BY <1>1, <1>2 DEF CallTypeOK, Return, Goto

LEMMA EndOfRoundType ==
    ASSUME CallTypeOK, NEW w \in Writers, EndOfRound(w)
    PROVE  /\ i' \in [Writers -> Slots]
           /\ char' \in [Writers -> Nat]
           /\ at' \in [Writers -> {"user", "max", "scan", "compare", "update", "room",
                                   "find", "copy", "arm"}]
<1>1. CASE i[w] + 1 < NumSlots
  <2>1. i[w] + 1 \in Slots
    BY <1>1, NumSlotsAssumption DEF CallTypeOK, Slots
  <2> QED
    BY <1>1, <2>1 DEF CallTypeOK, EndOfRound, Goto
<1>2. CASE ~(i[w] + 1 < NumSlots)
  <2>1. 0 \in Slots
    BY NumSlotsAssumption DEF Slots
  <2> QED
    BY <1>2, <2>1 DEF CallTypeOK, EndOfRound, Goto
<1> QED
  BY <1>1, <1>2

LEMMA NextType ==
    ASSUME TypeOK, LocalsInv, [Next]_vars
    PROVE  TypeOK'
<1> USE DEF TypeOK, SlotTypeOK, slots, locals, history, Goto
<1>1. ASSUME NEW w \in Writers, NEW k \in Packets, Write(w, k)
      PROVE  TypeOK'
  <2>1. k \in [text : Seq(STRING), number : Int]
    BY PacketsAssumption
  <2> QED
    BY <1>1, <2>1 DEF Write, CallTypeOK
<1>2. ASSUME NEW w \in Writers, SetMax(w)
      PROVE  TypeOK'
  <2>1. packet[w].number \in Int
    BY DEF CallTypeOK
  <2> QED
    BY <1>2, <2>1, ReturnType DEF SetMax
<1>3. ASSUME NEW w \in Writers, Scan(w)
      PROVE  TypeOK'
  <2>1. CASE pending[i[w]]
    <3>1. concurrencyCurrent[w] + 1 \in 0..NumSlots
      BY <1>3, NumSlotsAssumption DEF Scan, CallTypeOK, LocalsInv, LocalsAt, Slots
    <3> QED
      BY <1>3, <2>1, <3>1 DEF Scan, CallTypeOK
  <2>2. CASE ~pending[i[w]]
    BY <1>3, <2>2, EndOfRoundType DEF Scan, CallTypeOK
  <2> QED
    BY <2>1, <2>2
<1>4. ASSUME NEW w \in Writers, Compare(w)
      PROVE  TypeOK'
  <2>1. CASE Equal(w)
    BY <1>4, <2>1 DEF Compare, Equal, CallTypeOK
  <2>2. CASE CompareOn(w)
    BY <1>4, <2>2 DEF Compare, CompareOn, CallTypeOK
  <2>3. CASE EndOfRound(w)
    BY <1>4, <2>3, EndOfRoundType DEF Compare, CallTypeOK
  <2> QED
    BY <1>4, <2>1, <2>2, <2>3 DEF Compare
<1>5. ASSUME NEW w \in Writers, Update(w) \/ Arm(w)
      PROVE  TypeOK'
  <2>1. pending' \in [Slots -> BOOLEAN] /\ sent' \in [Slots -> Seq(STRING)]
    <3>1. i[w] \in Slots /\ packet[w].text \in Seq(STRING)
      BY DEF CallTypeOK
    <3>2. ArmFor(w, i[w])
      BY <1>5 DEF Update, Arm
    <3> QED
      BY <3>1, <3>2 DEF ArmFor
  <2>2. Return(w) /\ UNCHANGED <<msg, max_concurrency>>
    BY <1>5 DEF Update, Arm
  <2> QED
    BY <2>1, <2>2, ReturnType
<1>6. ASSUME NEW w \in Writers, Room(w)
      PROVE  TypeOK'
  <2>1. CASE Return(w)
    BY <1>6, <2>1, ReturnType DEF Room
  <2>2. CASE Goto(w, "find") /\ UNCHANGED <<locals, alone>>
    BY <1>6, <2>2 DEF Room, CallTypeOK
  <2> QED
    BY <1>6, <2>1, <2>2 DEF Room
<1>7. ASSUME NEW w \in Writers, Find(w)
      PROVE  TypeOK'
  <2>1. CASE Return(w)
    BY <1>7, <2>1, ReturnType DEF Find
  <2>2. CASE ~pending[i[w]]
    BY <1>7, <2>2 DEF Find, CallTypeOK
  <2>3. CASE pending[i[w]] /\ i[w] + 1 < NumSlots
    <3>1. i[w] + 1 \in Slots
      BY <2>3, NumSlotsAssumption DEF CallTypeOK, Slots
    <3> QED
      BY <1>7, <2>3, <3>1 DEF Find, CallTypeOK
  <2> QED
    BY <1>7, <2>1, <2>2, <2>3 DEF Find
<1>8. ASSUME NEW w \in Writers, Copy(w)
      PROVE  TypeOK'
  <2>1. msg' \in [Slots -> Seq(STRING)]
    BY <1>8, CopyIs
  <2>2. char' \in [Writers -> Nat]
    <3>1. char \in [Writers -> Nat] /\ char[w] + 1 \in Nat
      BY DEF CallTypeOK
    <3>2. \/ char' = [char EXCEPT ![w] = char[w] + 1]
          \/ char' = [char EXCEPT ![w] = 0]
      BY <1>8 DEF Copy
    <3> QED
      BY <3>1, <3>2
  <2>3. at' \in [Writers -> {"user", "max", "scan", "compare", "update", "room", "find",
                             "copy", "arm"}]
    BY <1>8 DEF Copy, CallTypeOK
  <2> QED
    BY <1>8, <2>1, <2>2, <2>3 DEF Copy, CallTypeOK
<1>10. ASSUME NEW s \in Slots, Expire(s)
       PROVE  TypeOK'
  <2>1. pending' \in [Slots -> BOOLEAN] /\ sent' \in [Slots -> Seq(STRING)]
    BY <1>10 DEF Expire, CallTypeOK
  <2> QED
    BY <1>10, <2>1 DEF Expire, CallTypeOK
<1>11. CASE UNCHANGED vars
  BY <1>11 DEF vars, CallTypeOK
<1> QED
  BY <1>1, <1>2, <1>3, <1>4, <1>5, <1>6, <1>7, <1>8, <1>10, <1>11 DEF Next, WriteStep

LEMMA NextLocals ==
    ASSUME TypeOK, LocalsInv, [Next]_vars
    PROVE  LocalsInv'
<1> SUFFICES ASSUME NEW v \in Writers PROVE LocalsAt(v)'
  BY DEF LocalsInv
<1>0. LocalsAt(v)
  BY DEF LocalsInv
<1> USE DEF TypeOK, SlotTypeOK, CallTypeOK, LocalsAt, slots, locals, history, Goto, Return, EndOfRound, Slots
<1> USE NumSlotsAssumption
<1>1. ASSUME NEW w \in Writers, NEW k \in Packets, Write(w, k)
      PROVE  LocalsAt(v)'
  BY <1>0, <1>1 DEF Write
<1>2. ASSUME NEW w \in Writers, SetMax(w) \/ Update(w) \/ Arm(w)
      PROVE  LocalsAt(v)'
  BY <1>0, <1>2 DEF SetMax, Update, Arm, ArmFor
<1>3. ASSUME NEW w \in Writers, Scan(w)
      PROVE  LocalsAt(v)'
  <2>1. CASE v # w
    <3>1. UNCHANGED <<at[v], packet[v], i[v], concurrencyCurrent[v], char[v], msg>>
      BY <1>3, <2>1 DEF Scan
    <3> QED
      BY <1>0, <3>1
  <2>2. CASE v = w /\ pending[i[w]]
    <3>1. at'[w] = "compare" /\ concurrencyCurrent'[w] = concurrencyCurrent[w] + 1
      BY <1>3, <2>2 DEF Scan
    <3>2. UNCHANGED <<i, char, msg, packet>> /\ char[w] = 0
      BY <1>0, <1>3, <2>2 DEF Scan
    <3>3. Len(packet[w].text) \in Nat /\ Len(msg[i[w]]) \in Nat
      OBVIOUS
    <3> QED
      BY <1>0, <1>3, <2>2, <3>1, <3>2, <3>3 DEF Scan
  <2>3. CASE v = w /\ ~pending[i[w]]
    <3>1. EndOfRound(w) /\ UNCHANGED <<msg, packet, concurrencyCurrent>>
      BY <1>3, <2>3 DEF Scan
    <3>2. at'[w] \in {"scan", "room"} /\ char'[w] = 0
      BY <3>1
    <3>3. at'[w] = "room" => i'[w] = 0
      BY <3>1
    <3>4. at'[w] = "scan" => concurrencyCurrent[w] <= i'[w]
      <4>1. at'[w] = "scan" => i'[w] = i[w] + 1
        BY <3>1
      <4>2. concurrencyCurrent[w] <= i[w] /\ concurrencyCurrent[w] \in Int /\ i[w] \in Int
        BY <1>0, <1>3, <2>3 DEF Scan
      <4> QED
        BY <4>1, <4>2
    <3> QED
      BY <1>0, <1>3, <2>3, <3>1, <3>2, <3>3, <3>4 DEF Scan
  <2> QED
    BY <2>1, <2>2, <2>3
<1>4. ASSUME NEW w \in Writers, Compare(w)
      PROVE  LocalsAt(v)'
  <2>1. CASE v # w
    <3>1. UNCHANGED <<at[v], packet[v], i[v], concurrencyCurrent[v], char[v], msg>>
      BY <1>4, <2>1 DEF Compare, Equal, CompareOn
    <3> QED
      BY <1>0, <3>1
  <2>2. CASE v = w /\ Equal(w)
    BY <1>0, <1>4, <2>2 DEF Compare, Equal
  <2>3. CASE v = w /\ CompareOn(w)
    <3>1. Len(packet[w].text) \in Nat /\ Len(msg[i[w]]) \in Nat
      OBVIOUS
    <3>2. UNCHANGED <<at, i, msg, packet, concurrencyCurrent>> /\ char'[w] = char[w] + 1
      BY <1>4, <2>3 DEF Compare, CompareOn
    <3> QED
      BY <1>0, <1>4, <2>3, <3>1, <3>2 DEF Compare, CompareOn, SameChar
  <2>4. CASE v = w /\ EndOfRound(w)
    BY <1>0, <1>4, <2>4 DEF Compare
  <2> QED
    BY <1>4, <2>1, <2>2, <2>3, <2>4 DEF Compare
<1>6. ASSUME NEW w \in Writers, Room(w)
      PROVE  LocalsAt(v)'
  BY <1>0, <1>6 DEF Room
<1>7. ASSUME NEW w \in Writers, Find(w)
      PROVE  LocalsAt(v)'
  <2>1. CASE v # w
    <3>1. UNCHANGED <<at[v], packet[v], i[v], concurrencyCurrent[v], char[v], msg>>
      BY <1>7, <2>1 DEF Find
    <3> QED
      BY <1>0, <3>1
  <2>2. CASE v = w /\ Return(w)
    BY <1>0, <1>7, <2>2 DEF Find
  <2>3. CASE v = w /\ ~Return(w)
    <3>1. at'[w] \in {"find", "copy"} /\ UNCHANGED <<msg, packet, char>>
      BY <1>7, <2>3 DEF Find
    <3>2. char[w] = 0 /\ packet[w].text # <<>>
      BY <1>0, <1>7, <2>3 DEF Find
    <3>3. 0 < Len(packet[w].text)
      <4>1. packet[w].text \in Seq(STRING)
        OBVIOUS
      <4> QED
        BY <3>2, <4>1
    <3>4. at'[w] = "copy" => 0 <= Len(msg[i[w]]) /\ i' = i
      <4>1. msg[i[w]] \in Seq(STRING)
        OBVIOUS
      <4> QED
        BY <1>7, <2>3, <4>1 DEF Find
    <3> QED
      BY <2>3, <3>1, <3>2, <3>3, <3>4
  <2> QED
    BY <2>1, <2>2, <2>3
<1>8. ASSUME NEW w \in Writers, Copy(w)
      PROVE  LocalsAt(v)'
  <2>1. \A s \in Slots : Len(msg[s]) \in Nat /\ Len(msg'[s]) \in Nat /\ Len(msg[s]) <= Len(msg'[s])
    <3>1. msg \in [Slots -> Seq(STRING)] /\ msg' \in [Slots -> Seq(STRING)]
      BY <1>8, CopyIs
    <3>2. \A s \in Slots : Len(msg[s]) <= Len(msg'[s])
      BY <1>8, CopyIs
    <3>3. \A s \in Slots : Len(msg[s]) \in Nat /\ Len(msg'[s]) \in Nat
      BY <3>1, Lengths, Zenon
    <3> QED
      BY <3>2, <3>3, Zenon
  <2>2. packet[v].text \in Seq(STRING) /\ i[v] \in Slots /\ char[v] \in Nat
    OBVIOUS
  <2>3. CASE v = w
    <3>1. char[v] + 1 <= Len(msg'[i[v]])
      BY <1>8, <2>3, CopyIs
    <3> QED
      BY <1>0, <1>8, <2>1, <2>2, <2>3, <3>1 DEF Copy
  <2>4. CASE v # w
    <3>1. UNCHANGED <<at[v], packet[v], i[v], concurrencyCurrent[v], char[v]>>
      BY <1>8, <2>4 DEF Copy
    <3>2. Len(msg[i[v]]) \in Nat /\ Len(msg'[i[v]]) \in Nat /\ Len(msg[i[v]]) <= Len(msg'[i[v]])
      BY <2>1, <2>2
    <3> DEFINE old == Len(msg[i[v]])
               new == Len(msg'[i[v]])
    <3>3. char[v] <= old => char[v] <= new
      <4>1. old \in Nat /\ new \in Nat /\ old <= new /\ char[v] \in Nat
        BY <2>2, <3>2
      <4> HIDE DEF old, new
      <4> QED
        BY <4>1
    <3> QED
      BY <1>0, <3>1, <3>3
  <2> QED
    BY <2>3, <2>4
<1>10. ASSUME NEW s \in Slots, Expire(s)
       PROVE  LocalsAt(v)'
  BY <1>0, <1>10 DEF Expire
<1>11. CASE UNCHANGED vars
  BY <1>0, <1>11 DEF vars
<1> QED
  BY <1>1, <1>2, <1>3, <1>4, <1>6, <1>7, <1>8, <1>10, <1>11 DEF Next, WriteStep

-----------------------------------------------------------------------------
(* A writer alone. *)

\* A write that goes on is the only one that may be alone.
LEMMA OnlyOneAlone ==
    ASSUME AloneInv, NEW w \in Writers, at[w] # "user"
    PROVE  alone \subseteq {w}
BY DEF AloneInv

\* The end of the loop over the slots.
LEMMA LastSlot ==
    ASSUME TypeOK, NEW w \in Writers, ~(i[w] + 1 < NumSlots)
    PROVE  Upto(w) = Active
<1>1. \A s \in Slots : s <= i[w]
  BY NumSlotsAssumption DEF TypeOK, CallTypeOK, Slots
<1> QED
  BY <1>1 DEF Upto, Active

\* A slot that is not active adds nothing to what has been counted.
LEMMA FreeSlot ==
    ASSUME TypeOK, NEW w \in Writers, ~pending[i[w]]
    PROVE  Upto(w) = Behind(w)
<1>1. \A s \in Slots : s <= i[w] <=> s < i[w] \/ s = i[w]
  BY DEF TypeOK, CallTypeOK, Slots
<1> QED
  BY <1>1 DEF Upto, Behind, Active

LEMMA ActiveSlot ==
    ASSUME TypeOK, NEW w \in Writers, pending[i[w]]
    PROVE  Upto(w) = Behind(w) \cup {i[w]} /\ i[w] \notin Behind(w)
<1>1. \A s \in Slots : s <= i[w] <=> s < i[w] \/ s = i[w]
  BY DEF TypeOK, CallTypeOK, Slots
<1>2. i[w] \in Active /\ ~(i[w] < i[w])
  BY DEF TypeOK, CallTypeOK, Slots, Active
<1> QED
  BY <1>1, <1>2 DEF Upto, Behind, Active

\* A round of the first loop: what was reached is now behind.
LEMMA NextSlot ==
    ASSUME TypeOK, NEW w \in Writers, EndOfRound(w), UNCHANGED slots
    PROVE  \/ at'[w] = "scan" /\ Behind(w)' = Upto(w)
           \/ at'[w] = "room" /\ Active' = Upto(w)
<1>1. CASE i[w] + 1 < NumSlots
  <2>1. at'[w] = "scan" /\ i'[w] = i[w] + 1
    BY <1>1 DEF EndOfRound, Goto, TypeOK, CallTypeOK
  <2>2. \A s \in Slots : s < i[w] + 1 <=> s <= i[w]
    BY DEF TypeOK, CallTypeOK, Slots
  <2> QED
    BY <2>1, <2>2 DEF Behind, Upto, Active, slots
<1>2. CASE ~(i[w] + 1 < NumSlots)
  BY <1>2, LastSlot DEF EndOfRound, Goto, TypeOK, CallTypeOK, Active, slots
<1> QED
  BY <1>1, <1>2

LEMMA NextAlone ==
    ASSUME TypeOK, LocalsInv, AloneInv, CountInv, [Next]_vars
    PROVE  AloneInv' /\ CountInv'
<1> USE DEF slots, locals, history, Goto
<1>1. ASSUME NEW w \in Writers, NEW k \in Packets, Write(w, k)
      PROVE  AloneInv' /\ CountInv'
  <2> SUFFICES ASSUME alone' = {w}, \A v \in Writers : at[v] = "user"
               PROVE  AloneInv' /\ CountInv'
    BY <1>1 DEF Write, AloneInv, CountInv
  <2>1. at'[w] \in {"max", "scan"} /\ \A v \in Writers : v # w => at'[v] = "user"
    BY <1>1 DEF Write, TypeOK, CallTypeOK
  <2>2. i'[w] = 0 /\ concurrencyCurrent'[w] = 0
    BY <1>1 DEF Write, LocalsInv, LocalsAt
  <2>3. Behind(w)' = {}
    BY <2>2 DEF Behind, Active, Slots
  <2> QED
    BY <2>1, <2>2, <2>3, FS_EmptySet DEF AloneInv, CountInv
<1>2. ASSUME NEW w \in Writers, at[w] # "user", Return(w)
      PROVE  AloneInv' /\ CountInv'
  <2>1. alone' = {}
    BY <1>2, OnlyOneAlone DEF Return
  <2> QED
    BY <2>1 DEF AloneInv, CountInv
<1>3. ASSUME NEW w \in Writers, Scan(w)
      PROVE  AloneInv' /\ CountInv'
  <2> SUFFICES ASSUME alone = {w}, alone' = {w}
               PROVE  AloneInv' /\ CountInv'
    <3>1. alone = {} \/ alone = {w}
      BY <1>3, OnlyOneAlone DEF Scan
    <3> QED
      BY <1>3, <3>1 DEF Scan, AloneInv, CountInv
  <2>1. \A v \in Writers : v # w => at'[v] = "user"
    BY <1>3 DEF Scan, AloneInv, EndOfRound, TypeOK, CallTypeOK
  <2>2. UNCHANGED <<slots, packet>> /\ Active' = Active
    BY <1>3 DEF Scan, Active
  <2>3. CASE pending[i[w]]
    <3>1. at'[w] = "compare" /\ concurrencyCurrent'[w] = concurrencyCurrent[w] + 1
      BY <1>3, <2>3 DEF Scan, TypeOK, CallTypeOK
    <3>2. Behind(w)' = Behind(w) /\ Upto(w)' = Upto(w)
      BY <1>3, <2>2, <2>3 DEF Scan, Behind, Upto
    <3>3. Cardinality(Upto(w)) = Cardinality(Behind(w)) + 1
      <4>1. Behind(w) \in SUBSET Slots
        BY DEF Behind, Active
      <4> QED
        BY <4>1, <2>3, ActiveSlot, ActiveIsFinite, FS_AddElement
    <3>4. Cardinality(Behind(w)) <= concurrencyCurrent[w]
      BY <1>3 DEF Scan, CountInv
    <3>5. Cardinality(Behind(w)) \in Nat /\ concurrencyCurrent[w] \in Nat
      <4>1. Behind(w) \in SUBSET Slots
        BY DEF Behind, Active
      <4> QED
        BY <4>1, ActiveIsFinite DEF TypeOK, CallTypeOK
    <3>6. \A s \in Behind(w) : msg[s] # packet[w].text
      BY <1>3 DEF Scan, AloneInv
    <3> QED
      BY <2>1, <2>2, <3>1, <3>2, <3>3, <3>4, <3>5, <3>6 DEF AloneInv, CountInv
  <2>4. CASE ~pending[i[w]]
    <3>1. EndOfRound(w) /\ concurrencyCurrent' = concurrencyCurrent
      BY <1>3, <2>4 DEF Scan
    <3>2. Upto(w) = Behind(w)
      BY <2>4, FreeSlot
    <3>3. \/ at'[w] = "scan" /\ Behind(w)' = Upto(w)
          \/ at'[w] = "room" /\ Active' = Upto(w)
      BY <3>1, <2>2, NextSlot
    <3>4. Cardinality(Behind(w)) <= concurrencyCurrent[w]
      BY <1>3 DEF Scan, CountInv
    <3>5. \A s \in Behind(w) : msg[s] # packet[w].text
      BY <1>3 DEF Scan, AloneInv
    <3> QED
      BY <2>1, <2>2, <3>1, <3>2, <3>3, <3>4, <3>5 DEF AloneInv, CountInv
  <2> QED
    BY <2>3, <2>4
<1>4. ASSUME NEW w \in Writers, Compare(w)
      PROVE  AloneInv' /\ CountInv'
  <2> SUFFICES ASSUME alone = {w}, alone' = {w}
               PROVE  AloneInv' /\ CountInv'
    <3>1. alone = {} \/ alone = {w}
      BY <1>4, OnlyOneAlone DEF Compare
    <3> QED
      BY <1>4, <3>1 DEF Compare, AloneInv, CountInv
  <2>1. \A v \in Writers : v # w => at'[v] = "user"
    BY <1>4 DEF Compare, Equal, CompareOn, AloneInv, EndOfRound, TypeOK, CallTypeOK
  <2>2. UNCHANGED <<slots, packet, concurrencyCurrent>> /\ Active' = Active
    BY <1>4 DEF Compare, Active
  <2>3. CASE Equal(w)
    <3>1. at'[w] = "update"
      BY <2>3 DEF Equal, TypeOK, CallTypeOK
    <3> QED
      BY <2>1, <3>1 DEF AloneInv, CountInv
  <2>4. CASE CompareOn(w)
    <3>1. UNCHANGED <<at, i>>
      BY <2>4 DEF CompareOn
    <3>2. Behind(w)' = Behind(w) /\ Upto(w)' = Upto(w)
      BY <2>2, <3>1 DEF Behind, Upto
    <3> QED
      BY <1>4, <2>1, <2>2, <3>1, <3>2 DEF AloneInv, CountInv, Compare
  <2>5. CASE ~BothEnd(w) /\ ~SameChar(w) /\ EndOfRound(w)
    <3>1. msg[i[w]] # packet[w].text
      <4>1. char[w] <= Len(packet[w].text) /\ char[w] <= Len(msg[i[w]])
        BY <1>4 DEF Compare, LocalsInv, LocalsAt
      <4>2. /\ packet[w].text \in Seq(STRING) /\ msg[i[w]] \in Seq(STRING)
            /\ char[w] \in Nat
        BY DEF TypeOK, SlotTypeOK, CallTypeOK
      <4> QED
        BY <2>5, <4>1, <4>2 DEF BothEnd, SameChar
    <3>2. \/ at'[w] = "scan" /\ Behind(w)' = Upto(w)
          \/ at'[w] = "room" /\ Active' = Upto(w)
      BY <2>2, <2>5, NextSlot
    <3>3. Cardinality(Upto(w)) <= concurrencyCurrent[w]
      BY <1>4 DEF Compare, CountInv
    <3>4. \A s \in Behind(w) : msg[s] # packet[w].text
      BY <1>4 DEF Compare, AloneInv
    <3>5. \A s \in Upto(w) : s \in Behind(w) \/ s = i[w]
      BY DEF Upto, Behind, Active, Slots, TypeOK, CallTypeOK
    <3> QED
      BY <2>1, <2>2, <3>1, <3>2, <3>3, <3>4, <3>5 DEF AloneInv, CountInv
  <2> QED
    BY <1>4, <2>3, <2>4, <2>5 DEF Compare
<1>5. ASSUME NEW w \in Writers, Room(w)
      PROVE  AloneInv' /\ CountInv'
  <2> SUFFICES ASSUME ~Return(w), alone = {w}, alone' = {w}
               PROVE  AloneInv' /\ CountInv'
    <3>1. alone = {} \/ alone = {w}
      BY <1>5, OnlyOneAlone DEF Room
    <3> QED
      BY <1>5, <3>1, <1>2 DEF Room, AloneInv, CountInv
  <2>1. at'[w] = "find" /\ \A v \in Writers : v # w => at'[v] = "user"
    BY <1>5 DEF Room, AloneInv, TypeOK, CallTypeOK
  <2>2. UNCHANGED <<slots, packet, concurrencyCurrent>> /\ Active' = Active
    BY <1>5 DEF Room, Active
  <2>3. Cardinality(Active) < max_concurrency
    <3>1. Cardinality(Active) <= concurrencyCurrent[w]
      BY <1>5 DEF Room, CountInv
    <3>2. concurrencyCurrent[w] < max_concurrency
      BY <1>5 DEF Room, TypeOK, SlotTypeOK, CallTypeOK
    <3>3. Cardinality(Active) \in Nat
      BY ActiveIsFinite DEF Active
    <3> QED
      BY <3>1, <3>2, <3>3 DEF TypeOK, SlotTypeOK, CallTypeOK
  <2>4. \A s \in Active : msg[s] # packet[w].text
    BY <1>5 DEF Room, AloneInv
  <2> QED
    BY <2>1, <2>2, <2>3, <2>4 DEF AloneInv, CountInv
<1>6. ASSUME NEW w \in Writers, Find(w)
      PROVE  AloneInv' /\ CountInv'
  <2> SUFFICES ASSUME ~Return(w), alone = {w}, alone' = {w}
               PROVE  AloneInv' /\ CountInv'
    <3>1. alone = {} \/ alone = {w}
      BY <1>6, OnlyOneAlone DEF Find
    <3> QED
      BY <1>6, <3>1, <1>2 DEF Find, AloneInv, CountInv
  <2>1. at'[w] \in {"find", "copy"} /\ \A v \in Writers : v # w => at'[v] = "user"
    BY <1>6 DEF Find, AloneInv, TypeOK, CallTypeOK
  <2>2. UNCHANGED <<slots, packet>> /\ Active' = Active
    BY <1>6 DEF Find, Active
  <2>3. at'[w] = "copy" => ~pending'[i'[w]]
    BY <1>6, <2>2 DEF Find, TypeOK, CallTypeOK
  <2>4. Cardinality(Active) < max_concurrency /\ \A s \in Active : msg[s] # packet[w].text
    BY <1>6 DEF Find, AloneInv, CountInv
  <2> QED
    BY <2>1, <2>2, <2>3, <2>4 DEF AloneInv, CountInv
<1>7. ASSUME NEW w \in Writers, Copy(w)
      PROVE  AloneInv' /\ CountInv'
  <2> SUFFICES ASSUME alone = {w}, alone' = {w}
               PROVE  AloneInv' /\ CountInv'
    <3>1. alone = {} \/ alone = {w}
      BY <1>7, OnlyOneAlone DEF Copy
    <3> QED
      BY <1>7, <3>1 DEF Copy, AloneInv, CountInv
  <2>1. at'[w] \in {"copy", "arm"} /\ \A v \in Writers : v # w => at'[v] = "user"
    BY <1>7 DEF Copy, AloneInv, TypeOK, CallTypeOK
  <2>2. /\ UNCHANGED <<pending, max_concurrency, packet, i, concurrencyCurrent>>
        /\ Active' = Active
    BY <1>7 DEF Copy, Active
  <2>3. ~pending[i[w]] /\ Cardinality(Active) < max_concurrency
        /\ \A s \in Active : msg[s] # packet[w].text
    BY <1>7 DEF Copy, AloneInv, CountInv
  <2>4. \A s \in Active : msg'[s] = msg[s]
    BY <1>7, <2>3, CopyIs DEF Active
  <2> QED
    BY <2>1, <2>2, <2>3, <2>4 DEF AloneInv, CountInv
<1>8. ASSUME NEW s \in Slots, Expire(s)
      PROVE  AloneInv' /\ CountInv'
  <2>1. Active' \subseteq Active /\ \A t \in Slots : ~pending[t] => ~pending'[t]
    BY <1>8 DEF Expire, Active, TypeOK, SlotTypeOK
  <2>2. UNCHANGED <<msg, max_concurrency, at, packet, i, concurrencyCurrent, alone>>
    BY <1>8 DEF Expire
  <2>3. \A w \in alone : Behind(w)' \subseteq Behind(w) /\ Upto(w)' \subseteq Upto(w)
    BY <2>1, <2>2 DEF Behind, Upto
  <2>4. AloneInv'
    <3>1. \A w \in alone : i[w] \in Slots
      BY DEF TypeOK, CallTypeOK
    <3> QED
      BY <2>1, <2>2, <2>3, <3>1 DEF AloneInv
  <2>5. ASSUME NEW w \in alone
        PROVE  /\ Cardinality(Behind(w)') <= Cardinality(Behind(w))
               /\ Cardinality(Upto(w)') <= Cardinality(Upto(w))
               /\ Cardinality(Active') <= Cardinality(Active)
               /\ {Cardinality(Behind(w)'), Cardinality(Behind(w)), Cardinality(Upto(w)'),
                   Cardinality(Upto(w)), Cardinality(Active'), Cardinality(Active)} \subseteq Nat
    <3>1. /\ Behind(w) \in SUBSET Slots /\ Upto(w) \in SUBSET Slots /\ Active \in SUBSET Slots
          /\ Behind(w)' \in SUBSET Slots /\ Upto(w)' \in SUBSET Slots /\ Active' \in SUBSET Slots
      BY DEF Behind, Upto, Active
    <3> QED
      BY <2>1, <2>3, <3>1, FewerIsLess, ActiveIsFinite
  <2>6. max_concurrency \in Int /\ \A w \in alone : concurrencyCurrent[w] \in Nat
    BY DEF TypeOK, SlotTypeOK, CallTypeOK
  <2>7. ASSUME NEW w \in alone
        PROVE  /\ at[w] = "scan" => Cardinality(Behind(w)') <= concurrencyCurrent[w]
               /\ at[w] = "compare" => Cardinality(Upto(w)') <= concurrencyCurrent[w]
               /\ at[w] = "room" => Cardinality(Active') <= concurrencyCurrent[w]
               /\ at[w] \in {"find", "copy", "arm"} => Cardinality(Active') < max_concurrency
    BY <2>5, <2>6 DEF CountInv
  <2>8. CountInv'
    BY <2>2, <2>7 DEF CountInv
  <2> QED
    BY <2>4, <2>8
<1>9. CASE UNCHANGED vars
  BY <1>9 DEF vars, AloneInv, CountInv, Behind, Upto, Active
<1>10. ASSUME NEW w \in Writers, SetMax(w) \/ Update(w) \/ Arm(w)
       PROVE  AloneInv' /\ CountInv'
  BY <1>10, <1>2 DEF SetMax, Update, Arm
<1> QED
  BY <1>1, <1>3, <1>4, <1>5, <1>6, <1>7, <1>8, <1>9, <1>10 DEF Next, WriteStep

-----------------------------------------------------------------------------
(* The messages. *)

LEMMA NextMatch ==
    ASSUME TypeOK, LocalsInv, AloneInv, MatchInv, [Next]_vars
    PROVE  MatchInv'
<1> USE DEF slots, locals, history, Goto
<1>1. ASSUME NEW w \in Writers, NEW k \in Packets, Write(w, k)
      PROVE  MatchInv'
  <2>1. alone' \subseteq {w} /\ at'[w] \in {"max", "scan"}
    BY <1>1 DEF Write, TypeOK, CallTypeOK
  <2> QED
    BY <2>1 DEF MatchInv
<1>2. ASSUME NEW w \in Writers, at[w] # "user", Return(w)
      PROVE  MatchInv'
  <2>1. alone' = {}
    BY <1>2, OnlyOneAlone DEF Return
  <2> QED
    BY <2>1 DEF MatchInv
<1>3. ASSUME NEW w \in Writers, Scan(w) \/ Room(w) \/ Find(w), ~Return(w)
      PROVE  MatchInv'
  <2>1. alone' \subseteq {w}
    BY <1>3, OnlyOneAlone DEF Scan, Room, Find
  <2>2. char[w] = 0
    BY <1>3 DEF Scan, Room, Find, LocalsInv, LocalsAt
  <2>3. at'[w] \in {"scan", "compare", "room", "find", "copy"} /\ char'[w] = 0
    BY <1>3, <2>2 DEF Scan, Room, Find, EndOfRound, TypeOK, CallTypeOK
  <2> QED
    BY <2>1, <2>3 DEF MatchInv, Agree
<1>4. ASSUME NEW w \in Writers, Compare(w)
      PROVE  MatchInv'
  <2> SUFFICES ASSUME alone = {w}, alone' = {w}
               PROVE  MatchInv'
    <3>1. alone = {} \/ alone = {w}
      BY <1>4, OnlyOneAlone DEF Compare
    <3> QED
      BY <1>4, <3>1 DEF Compare, MatchInv
  <2>1. Agree(char[w], packet[w].text, msg[i[w]]) /\ UNCHANGED <<msg, packet>>
    BY <1>4 DEF Compare, MatchInv
  <2>2. char[w] \in Nat
    BY DEF TypeOK, CallTypeOK
  <2>3. CASE Equal(w)
    <3>1. at'[w] = "update" /\ i' = i
      BY <2>3 DEF Equal, TypeOK, CallTypeOK
    <3>2. Begins(packet[w].text, msg[i[w]])
      BY <2>1, <2>3 DEF Equal, BothEnd, Begins, TypeOK, SlotTypeOK, CallTypeOK
    <3> QED
      BY <2>1, <3>1, <3>2 DEF MatchInv
  <2>4. CASE CompareOn(w)
    <3>1. UNCHANGED <<at, i>> /\ char'[w] = char[w] + 1
      BY <2>4 DEF CompareOn, TypeOK, CallTypeOK
    <3>2. \A k \in 1..(char[w] + 1) : k \in 1..char[w] \/ k = char[w] + 1
      BY <2>2
    <3>3. Agree(char[w] + 1, packet[w].text, msg[i[w]])
      BY <2>1, <2>4, <3>2 DEF CompareOn, SameChar, Agree
    <3> QED
      BY <1>4, <2>1, <3>1, <3>3 DEF MatchInv, Compare
  <2>5. CASE EndOfRound(w)
    <3>1. at'[w] \in {"scan", "room"}
      BY <2>5 DEF EndOfRound, TypeOK, CallTypeOK
    <3> QED
      BY <3>1 DEF MatchInv
  <2> QED
    BY <1>4, <2>3, <2>4, <2>5 DEF Compare
<1>5. ASSUME NEW w \in Writers, Copy(w)
      PROVE  MatchInv'
  <2> SUFFICES ASSUME alone = {w}, alone' = {w}
               PROVE  MatchInv'
    <3>1. alone = {} \/ alone = {w}
      BY <1>5, OnlyOneAlone DEF Copy
    <3> QED
      BY <1>5, <3>1 DEF Copy, MatchInv
  <2>1. Agree(char[w], packet[w].text, msg[i[w]]) /\ UNCHANGED <<packet, i>>
    BY <1>5 DEF Copy, MatchInv
  <2>2. char[w] \in Nat /\ char[w] < Len(packet[w].text) /\ Len(packet[w].text) \in Nat
    BY <1>5 DEF Copy, LocalsInv, LocalsAt, TypeOK, CallTypeOK
  <2>3. Agree(char[w] + 1, packet[w].text, msg'[i[w]])
    <3>1. \A k \in 1..(char[w] + 1) : k \in 1..char[w] \/ k = char[w] + 1
      BY <2>2
    <3>2. /\ msg'[i[w]][char[w] + 1] = packet[w].text[char[w] + 1]
          /\ \A j \in 1..char[w] : msg'[i[w]][j] = msg[i[w]][j]
      BY <1>5, CopyIs
    <3> QED
      BY <2>1, <3>1, <3>2 DEF Agree
  <2>4. CASE char[w] + 1 < Len(packet[w].text)
    <3>1. at'[w] = "copy" /\ char'[w] = char[w] + 1
      BY <1>5, <2>4 DEF Copy, TypeOK, CallTypeOK
    <3> QED
      BY <2>1, <2>3, <3>1 DEF MatchInv
  <2>5. CASE ~(char[w] + 1 < Len(packet[w].text))
    <3>1. at'[w] = "arm"
      BY <1>5, <2>5 DEF Copy, TypeOK, CallTypeOK
    <3>2. char[w] + 1 = Len(packet[w].text)
      BY <2>2, <2>5
    <3>3. Begins(packet[w].text, msg'[i[w]])
      BY <1>5, <2>3, <3>2, CopyIs DEF Begins
    <3> QED
      BY <2>1, <3>1, <3>3 DEF MatchInv
  <2> QED
    BY <2>4, <2>5
<1>6. ASSUME NEW s \in Slots, Expire(s)
      PROVE  MatchInv'
  BY <1>6 DEF Expire, MatchInv
<1>7. CASE UNCHANGED vars
  BY <1>7 DEF vars, MatchInv
<1>8. ASSUME NEW w \in Writers, SetMax(w) \/ Update(w) \/ Arm(w)
      PROVE  MatchInv'
  BY <1>8, <1>2 DEF SetMax, Update, Arm
<1>9. ASSUME NEW w \in Writers, Scan(w) \/ Room(w) \/ Find(w)
      PROVE  MatchInv'
  BY <1>9, <1>2, <1>3 DEF Scan, Room, Find
<1> QED
  BY <1>1, <1>4, <1>5, <1>6, <1>7, <1>8, <1>9 DEF Next, WriteStep

\* A step that neither arms a timer nor lets one run out nor copies.
LEMMA SentStays ==
    ASSUME SentInv, UNCHANGED <<pending, msg, sent>>,
           \A v \in Writers : at'[v] \in {"copy", "arm"} =>
             \/ at[v] \in {"copy", "arm"} /\ i'[v] = i[v]
             \/ ~pending[i'[v]]
    PROVE  SentInv'
BY DEF SentInv

LEMMA NextSent ==
    ASSUME TypeOK, LocalsInv, AloneInv, MatchInv, SentInv, [Next]_vars
    PROVE  SentInv'
<1> USE DEF slots, locals, history, Goto
<1>1. ASSUME NEW w \in Writers, NEW k \in Packets, Write(w, k)
      PROVE  SentInv'
  BY <1>1, SentStays DEF Write, TypeOK, CallTypeOK
<1>2. ASSUME NEW w \in Writers, SetMax(w)
      PROVE  SentInv'
  BY <1>2, SentStays DEF SetMax, Return, TypeOK, CallTypeOK
<1>3. ASSUME NEW w \in Writers, Scan(w)
      PROVE  SentInv'
  BY <1>3, SentStays DEF Scan, EndOfRound, TypeOK, CallTypeOK
<1>4. ASSUME NEW w \in Writers, Compare(w)
      PROVE  SentInv'
  BY <1>4, SentStays DEF Compare, Equal, CompareOn, EndOfRound, TypeOK, CallTypeOK
<1>5. ASSUME NEW w \in Writers, Room(w)
      PROVE  SentInv'
  BY <1>5, SentStays DEF Room, Return, TypeOK, CallTypeOK
<1>6. ASSUME NEW w \in Writers, Find(w)
      PROVE  SentInv'
  BY <1>6, SentStays DEF Find, Return, TypeOK, CallTypeOK
<1>7. ASSUME NEW w \in Writers, Copy(w)
      PROVE  SentInv'
  <2>1. UNCHANGED <<pending, sent, i>>
    BY <1>7 DEF Copy
  <2>2. \A v \in Writers : at'[v] \in {"copy", "arm"} => at[v] \in {"copy", "arm"}
    BY <1>7 DEF Copy, TypeOK, CallTypeOK
  <2>3. i[w] \in Slots /\ sent[i[w]] = <<>>
    BY <1>7 DEF Copy, SentInv, TypeOK, CallTypeOK
  <2>4. \A s \in Slots : sent[s] # <<>> => msg'[s] = msg[s]
    BY <1>7, <2>3, CopyIs
  <2> QED
    BY <2>1, <2>2, <2>4 DEF SentInv
<1>8. ASSUME NEW w \in Writers, Update(w) \/ Arm(w)
      PROVE  SentInv'
  <2>1. /\ i[w] \in Slots
        /\ \A s \in Slots : pending[s] => pending'[s]
        /\ pending'[i[w]]
        /\ \A s \in Slots : s # i[w] => sent'[s] = sent[s]
        /\ sent'[i[w]] = IF w \in alone THEN packet[w].text ELSE sent[i[w]]
        /\ msg' = msg
    BY <1>8 DEF Update, Arm, ArmFor, TypeOK, SlotTypeOK, CallTypeOK
  <2>2. \A v \in Writers : at'[v] \in {"copy", "arm"} => v # w /\ at[v] = at'[v] /\ i'[v] = i[v]
    BY <1>8 DEF Update, Arm, Return, TypeOK, CallTypeOK
  <2>3. CASE w \in alone
    <3>1. Begins(packet[w].text, msg[i[w]])
      BY <1>8, <2>3 DEF Update, Arm, MatchInv
    <3>2. \A v \in Writers : at'[v] \notin {"copy", "arm"}
      BY <2>2, <2>3 DEF AloneInv
    <3> QED
      BY <2>1, <2>3, <3>1, <3>2 DEF SentInv
  <2>4. CASE w \notin alone
    BY <2>1, <2>2, <2>4 DEF SentInv
  <2> QED
    BY <2>3, <2>4
<1>9. ASSUME NEW s \in Slots, Expire(s)
      PROVE  SentInv'
  <2>1. sent'[s] = <<>> /\ \A t \in Slots : t # s => sent'[t] = sent[t] /\ pending'[t] = pending[t]
    BY <1>9 DEF Expire, TypeOK, SlotTypeOK, CallTypeOK
  <2>2. UNCHANGED <<msg, at, i>>
    BY <1>9 DEF Expire
  <2> QED
    BY <2>1, <2>2 DEF SentInv
<1>10. CASE UNCHANGED vars
  BY <1>10, SentStays DEF vars
<1> QED
  BY <1>1, <1>2, <1>3, <1>4, <1>5, <1>6, <1>7, <1>8, <1>9, <1>10 DEF Next, WriteStep

-----------------------------------------------------------------------------
(***************************************************************************)
(* The invariant: types and locals, the texts that stay in their slots,    *)
(* and what a writer alone knows of the slots.                             *)
(***************************************************************************)
THEOREM Invariance == Spec => []IInv
<1>1. IInv /\ [Next]_vars => IInv'
  BY NextType, NextLocals, NextAlone, NextMatch, NextSent DEF IInv
<1> QED
  BY <1>1, InitIInv, PTL DEF Spec

(***************************************************************************)
(* Type correctness of the driver's data and of the calls' locals.         *)
(***************************************************************************)
THEOREM TypeCorrect == Spec => []TypeOK
BY Invariance, PTL DEF IInv

(***************************************************************************)
(* A timer that a write which nobody overlapped has armed or renewed says  *)
(* the text of that write until it runs out, whatever is written later.    *)
(* Nothing is claimed of a timer that overlapping writes have armed: their *)
(* texts can be mixed.                                                     *)
(***************************************************************************)
THEOREM TextsInPlace == Spec => []LoneTimerSaysItsText
<1>1. IInv => LoneTimerSaysItsText
  <2> SUFFICES ASSUME IInv, NEW s \in Slots
               PROVE  /\ Len(sent[s]) <= Len(msg[s])
                      /\ \A k \in 1..Len(sent[s]) : msg[s][k] = sent[s][k]
    BY DEF LoneTimerSaysItsText, Active
  <2>1. CASE sent[s] = <<>>
    BY <2>1 DEF IInv, TypeOK, SlotTypeOK
  <2>2. CASE sent[s] # <<>>
    BY <2>2 DEF IInv, SentInv, Begins, Agree
  <2> QED
    BY <2>1, <2>2
<1> QED
  BY <1>1, Invariance, PTL

(***************************************************************************)
(* A write that nobody overlaps arms a free slot below the maximum.        *)
(***************************************************************************)
THEOREM MaximumKeptAlone == Spec => AloneAddsBelowMaximum
<1>1. IInv /\ [Next]_vars =>
        [\A w \in alone :
           Arm(w) => ~pending[i[w]] /\ Cardinality(Active) < max_concurrency]_vars
  BY DEF IInv, AloneInv, CountInv, Arm
<1> QED
  BY <1>1, Invariance, PTL DEF Spec, AloneAddsBelowMaximum

(***************************************************************************)
(* A write that nobody overlaps does not repeat the text of an active      *)
(* timer.                                                                  *)
(***************************************************************************)
THEOREM NewTextAlone == Spec => AloneAddsNewText
<1>1. IInv /\ [Next]_vars =>
        [\A w \in alone :
           Arm(w) => \A s \in Active : msg[s] # packet[w].text]_vars
  BY DEF IInv, AloneInv, Arm
<1> QED
  BY <1>1, Invariance, PTL DEF Spec, AloneAddsNewText
=============================================================================

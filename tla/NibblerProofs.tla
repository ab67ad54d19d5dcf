--------------------------- MODULE NibblerProofs ---------------------------
(***************************************************************************)
(* Proofs about the nibbler device for any number of processes, any        *)
(* messages, any capacity and any bite.                                    *)
(***************************************************************************)
EXTENDS Nibbler, SequenceTheorems, TLAPS

Marks == Bytes \cup {Zero, Outside}

\* Where the positions and counts of a call lie.
PlaceInv ==
    \A u \in Users :
      /\ at[u] = "start" => pos[u] = 0 /\ got[u] = <<>>
      /\ at[u] = "clamp" => pos[u] < seen[u]
      /\ at[u] = "copy" => pos[u] < Capacity
      /\ at[u] \in {"write", "publish"} => pos[u] <= Capacity /\ pos[u] <= Len(text[u])
      /\ at[u] = "publish" =>
           pos[u] + count[u] <= Capacity /\ pos[u] + count[u] <= Len(text[u]) /\ count[u] > 0

\* Nobody else is between the two steps of a write.
QuietInv ==
    \A u \in quiet :
      /\ at[u] # "start"
      /\ \A v \in Users : at[v] = "publish" => v = u

\* The first n bytes of the buffer are those of s.
Holds(s, n) == \A k \in 1..n : s[k] = ktimer_buffer[k - 1]

\* What a reader has got so far is the beginning of the message.
ReaderInv ==
    \A u \in quiet :
      /\ at[u] \in {"read", "clamp", "copy"} =>
           Len(got[u]) = pos[u] /\ pos[u] <= ktimer_len /\ Holds(got[u], pos[u])
      /\ at[u] = "clamp" => seen[u] = ktimer_len
      /\ at[u] = "copy" => count[u] > 0 /\ pos[u] + count[u] <= ktimer_len
      /\ at[u] = "eof" => Len(got[u]) = ktimer_len /\ Holds(got[u], ktimer_len)

\* What a writer has written so far is the message.
WriterInv ==
    \A u \in quiet :
      /\ at[u] = "write" /\ pos[u] > 0 => ktimer_len = pos[u]
      /\ at[u] = "write" => Holds(text[u], pos[u])
      /\ at[u] = "publish" => Holds(text[u], pos[u] + count[u])
      /\ at[u] = "close" /\ text[u] # <<>> =>
           /\ ktimer_len = Least(Len(text[u]), Capacity)
           /\ Holds(text[u], ktimer_len)

IInv == TypeOK /\ PlaceInv /\ QuietInv /\ ReaderInv /\ WriterInv

-----------------------------------------------------------------------------
(* Initially. *)

\* The invariant holds of the empty device: nobody has opened it yet.
LEMMA InitIInv == Init => IInv
<1> SUFFICES ASSUME Init PROVE IInv
  OBVIOUS
<1>1. TypeOK
  BY ParametersAssumption DEF Init, TypeOK, Places
<1>2. PlaceInv /\ QuietInv /\ ReaderInv /\ WriterInv
  BY DEF Init, PlaceInv, QuietInv, ReaderInv, WriterInv
<1> QED
  BY <1>1, <1>2 DEF IInv

-----------------------------------------------------------------------------
(* What one step moves. *)

\* A read takes at most a bite and, where the length has not shrunk, at
\* least one byte and none behind the end of the message.
LEMMA AvailableInRange ==
    ASSUME NEW u, NEW len \in Nat, pos[u] \in Nat
    PROVE  /\ Available(u, len) \in 0..Bite
           /\ pos[u] < len => Available(u, len) > 0 /\ pos[u] + Available(u, len) <= len
BY ParametersAssumption DEF Available, Least

\* A write takes at least one byte, at most a bite, none behind the text
\* or the buffer.
LEMMA TakenInRange ==
    ASSUME NEW u, text[u] \in Seq(Bytes), pos[u] \in Nat, pos[u] < Len(text[u]), pos[u] < Capacity
    PROVE  /\ Taken(u) \in 1..Bite
           /\ pos[u] + Taken(u) <= Capacity /\ pos[u] + Taken(u) <= Len(text[u])
<1>1. Len(text[u]) \in Nat
  OBVIOUS
<1> QED
  BY <1>1, ParametersAssumption DEF Taken, Least

\* Whatever a read copies is a byte of a message, a zero or an outside one.
LEMMA ByteIsMark ==
    ASSUME TypeOK, NEW a \in Nat
    PROVE  Byte(a) \in Marks
BY ParametersAssumption DEF TypeOK, Byte, Marks, Places

\* The n bytes at p.
Copied(p, n) == [k \in 1..n |-> Byte(p + k - 1)]

\* What a read appends to the bytes that the program has.
LEMMA CopiedIsSequence ==
    ASSUME TypeOK, NEW p \in Nat, NEW n \in Nat, NEW s \in Seq(Marks)
    PROVE  /\ s \o Copied(p, n) \in Seq(Marks)
           /\ Len(s \o Copied(p, n)) = Len(s) + n
           /\ \A k \in 1..(Len(s) + n) :
                (s \o Copied(p, n))[k] = IF k <= Len(s) THEN s[k] ELSE Byte(p + k - Len(s) - 1)
<1> DEFINE t == Copied(p, n)
<1>1. \A k \in 1..n : Byte(p + k - 1) \in Marks
  BY ByteIsMark
<1>2. t \in Seq(Marks) /\ Len(t) = n
  BY <1>1 DEF Copied
<1>3. \A k \in 1..n : t[k] = Byte(p + k - 1)
  BY DEF Copied
<1> HIDE DEF t
<1>4. /\ s \o t \in Seq(Marks)
      /\ Len(s \o t) = Len(s) + n
      /\ \A k \in 1..(Len(s) + n) : (s \o t)[k] = IF k <= Len(s) THEN s[k] ELSE t[k - Len(s)]
  BY <1>2
<1>5. ASSUME NEW k \in 1..(Len(s) + n), ~(k <= Len(s))
      PROVE  t[k - Len(s)] = Byte(p + k - Len(s) - 1)
  BY <1>3, <1>5
<1> QED
  BY <1>4, <1>5 DEF t

-----------------------------------------------------------------------------
(* The invariant is kept. *)

\* Types, from the places of positions and counts.
LEMMA TypeStep == TypeOK /\ PlaceInv /\ [Next]_vars => TypeOK'
<1> SUFFICES ASSUME TypeOK, PlaceInv, [Next]_vars PROVE TypeOK'
  OBVIOUS
<1> USE ParametersAssumption
<1>1. CASE UNCHANGED vars
  BY <1>1 DEF TypeOK, vars, device
<1>2. ASSUME NEW u \in Users, Open(u) PROVE TypeOK'
  BY <1>2, TextsAssumption DEF TypeOK, Open, Goto, device
<1>3. ASSUME NEW u \in Users, Close(u) PROVE TypeOK'
  BY <1>3 DEF TypeOK, Close, Goto, device
<1>4. ASSUME NEW u \in Users, ReadCheck(u) PROVE TypeOK'
  BY <1>4 DEF TypeOK, ReadCheck, Goto, device
<1>5. ASSUME NEW u \in Users, ReadClamp(u) PROVE TypeOK'
  <2>1. PICK len \in {seen[u], ktimer_len} : count' = [count EXCEPT ![u] = Available(u, len)]
    BY <1>5 DEF ReadClamp
  <2>2. len \in Nat /\ pos[u] \in Nat
    BY DEF TypeOK
  <2>3. Available(u, len) \in 0..Bite
    BY <2>2, AvailableInRange
  <2> QED
    BY <1>5, <2>1, <2>3 DEF TypeOK, ReadClamp, Goto, device
<1>6. ASSUME NEW u \in Users, ReadCopy(u) PROVE TypeOK'
  <2>1. pos[u] \in Nat /\ count[u] \in Nat /\ count[u] <= Bite
         /\ pos[u] < Capacity /\ got[u] \in Seq(Marks)
    BY <1>6 DEF TypeOK, PlaceInv, ReadCopy, Marks
  <2>2. got[u] \o Copied(pos[u], count[u]) \in Seq(Marks)
    BY <2>1, CopiedIsSequence
  <2>3. got' \in [Users -> Seq(Bytes \cup {Zero, Outside})]
    BY <1>6, <2>2 DEF TypeOK, ReadCopy, Marks, Copied
  <2>4. pos' \in [Users -> 0..(Capacity + Bite - 1)]
    BY <1>6, <2>1 DEF TypeOK, ReadCopy
  <2> QED
    BY <1>6, <2>3, <2>4 DEF TypeOK, ReadCopy, Goto, device
<1>7. ASSUME NEW u \in Users, WriteCopy(u) PROVE TypeOK'
  <2>1. CASE pos[u] >= Len(text[u]) \/ pos[u] >= Capacity
    BY <1>7, <2>1 DEF TypeOK, WriteCopy, Goto
  <2>2. CASE ~(pos[u] >= Len(text[u]) \/ pos[u] >= Capacity)
    <3>1. text[u] \in Seq(Bytes) /\ Len(text[u]) \in Nat /\ pos[u] \in Nat
      BY DEF TypeOK
    <3>2. Taken(u) \in 1..Bite /\ pos[u] + Taken(u) <= Len(text[u])
      BY <2>2, <3>1, TakenInRange
    <3>3. \A a \in pos[u]..(pos[u] + Taken(u) - 1) : text[u][a + 1] \in Bytes
      BY <3>1, <3>2
    <3>4. ktimer_buffer' \in [Places -> Bytes \cup {Zero}]
      BY <1>7, <2>2, <3>3 DEF TypeOK, WriteCopy
    <3>5. count' \in [Users -> 0..Bite]
      <4>1. Taken(u) \in 0..Bite
        BY <3>2
      <4>2. count' = [count EXCEPT ![u] = Taken(u)]
        BY <1>7, <2>2 DEF WriteCopy
      <4> QED
        BY <4>1, <4>2 DEF TypeOK
    <3>6. at' = [at EXCEPT ![u] = "publish"] /\ quiet' \subseteq Users
      BY <1>7, <2>2 DEF TypeOK, WriteCopy, Goto
    <3>7. UNCHANGED <<ktimer_len, text, pos, seen, got>>
      BY <1>7 DEF WriteCopy
    <3> QED
      BY <3>4, <3>5, <3>6, <3>7 DEF TypeOK
  <2> QED
    BY <2>1, <2>2
<1>8. ASSUME NEW u \in Users, WritePublish(u) PROVE TypeOK'
  <2>1. pos[u] + count[u] \in 0..Capacity
    BY <1>8 DEF TypeOK, PlaceInv, WritePublish
  <2> QED
    BY <1>8, <2>1 DEF TypeOK, WritePublish, Goto
<1> QED
  BY <1>1, <1>2, <1>3, <1>4, <1>5, <1>6, <1>7, <1>8 DEF Next, UserStep

\* Where positions and counts lie: a step moves only those of its process.
LEMMA PlaceStep == TypeOK /\ PlaceInv /\ [Next]_vars => PlaceInv'
<1> SUFFICES ASSUME TypeOK, PlaceInv, [Next]_vars PROVE PlaceInv'
  OBVIOUS
<1> USE ParametersAssumption
<1>0. \A u \in Users : pos[u] \in Nat /\ Len(text[u]) \in Nat
  BY DEF TypeOK
<1>1. CASE UNCHANGED vars
  BY <1>1 DEF PlaceInv, vars, device
<1>2. ASSUME NEW u \in Users, Open(u) PROVE PlaceInv'
  <2>1. \A t \in Texts : Len(t) \in Nat
    BY TextsAssumption
  <2> QED
    BY <1>2, <2>1 DEF TypeOK, PlaceInv, Open, Goto
<1>3. ASSUME NEW u \in Users, Close(u) PROVE PlaceInv'
  BY <1>3 DEF TypeOK, PlaceInv, Close, Goto
<1>4. ASSUME NEW u \in Users, ReadCheck(u) PROVE PlaceInv'
  BY <1>4 DEF TypeOK, PlaceInv, ReadCheck, Goto, device
<1>5. ASSUME NEW u \in Users, ReadClamp(u) PROVE PlaceInv'
  <2>1. pos[u] < Capacity
    BY <1>5 DEF TypeOK, PlaceInv, ReadClamp
  <2> QED
    BY <1>5, <2>1 DEF TypeOK, PlaceInv, ReadClamp, Goto
<1>6. ASSUME NEW u \in Users, ReadCopy(u) PROVE PlaceInv'
  BY <1>6 DEF TypeOK, PlaceInv, ReadCopy, Goto
<1>7. ASSUME NEW u \in Users, WriteCopy(u) PROVE PlaceInv'
  <2>1. ASSUME ~(pos[u] >= Len(text[u]) \/ pos[u] >= Capacity)
        PROVE  /\ Taken(u) \in 1..Bite
               /\ pos[u] + Taken(u) <= Capacity /\ pos[u] + Taken(u) <= Len(text[u])
    <3>1. text[u] \in Seq(Bytes) /\ pos[u] < Len(text[u]) /\ pos[u] < Capacity
      BY <1>0, <2>1 DEF TypeOK
    <3> QED
      BY <1>0, <3>1, TakenInRange
  <2> QED
    BY <1>7, <2>1 DEF TypeOK, PlaceInv, WriteCopy, Goto
<1>8. ASSUME NEW u \in Users, WritePublish(u) PROVE PlaceInv'
  BY <1>8 DEF TypeOK, PlaceInv, WritePublish, Goto
<1> QED
  BY <1>1, <1>2, <1>3, <1>4, <1>5, <1>6, <1>7, <1>8 DEF Next, UserStep

\* Quiet processes: whoever stores or publishes makes all others unquiet.
LEMMA QuietStep == TypeOK /\ QuietInv /\ [Next]_vars => QuietInv'
<1> SUFFICES ASSUME TypeOK, QuietInv, [Next]_vars PROVE QuietInv'
  OBVIOUS
<1>1. CASE UNCHANGED vars
  BY <1>1 DEF QuietInv, vars
<1>2. ASSUME NEW u \in Users, Open(u) PROVE QuietInv'
  BY <1>2 DEF TypeOK, QuietInv, Open, Goto
<1>3. ASSUME NEW u \in Users, Close(u) PROVE QuietInv'
  BY <1>3 DEF TypeOK, QuietInv, Close, Goto
<1>4. ASSUME NEW u \in Users, ReadCheck(u) \/ ReadClamp(u) \/ ReadCopy(u) PROVE QuietInv'
  BY <1>4 DEF TypeOK, QuietInv, ReadCheck, ReadClamp, ReadCopy, Goto
<1>5. ASSUME NEW u \in Users, WriteCopy(u) PROVE QuietInv'
  BY <1>5 DEF TypeOK, QuietInv, WriteCopy, Goto
<1>6. ASSUME NEW u \in Users, WritePublish(u) PROVE QuietInv'
  BY <1>6 DEF TypeOK, QuietInv, WritePublish, Goto
<1> QED
  BY <1>1, <1>2, <1>3, <1>4, <1>5, <1>6 DEF Next, UserStep

\* What a quiet reader has: nobody stores or shortens while it reads, so
\* that only its own steps count.
LEMMA ReaderStep == TypeOK /\ PlaceInv /\ QuietInv /\ ReaderInv /\ [Next]_vars => ReaderInv'
<1> SUFFICES ASSUME TypeOK, PlaceInv, QuietInv, ReaderInv, [Next]_vars PROVE ReaderInv'
  OBVIOUS
<1>0. /\ \A u \in Users : pos[u] \in Nat /\ count[u] \in Nat /\ got[u] \in Seq(Marks)
      /\ ktimer_len \in Nat /\ ktimer_len <= Capacity
      /\ quiet \subseteq Users
  BY ParametersAssumption DEF TypeOK, Marks
<1>1. CASE UNCHANGED vars
  BY <1>1 DEF ReaderInv, Holds, vars, device
<1>2. ASSUME NEW u \in Users, Open(u) PROVE ReaderInv'
  <2>1. pos[u] = 0 /\ got[u] = <<>> /\ at'[u] \in {"read", "write"}
    BY <1>2 DEF TypeOK, PlaceInv, Open, Goto
  <2> QED
    BY <1>0, <1>2, <2>1 DEF TypeOK, ReaderInv, Holds, Open, Goto, device
<1>3. ASSUME NEW u \in Users, Close(u) PROVE ReaderInv'
  BY <1>0, <1>3 DEF TypeOK, ReaderInv, Holds, Close, Goto, device
<1>4. ASSUME NEW u \in Users, ReadCheck(u) PROVE ReaderInv'
  BY <1>0, <1>4 DEF TypeOK, ReaderInv, Holds, ReadCheck, Goto, device
<1>5. ASSUME NEW u \in Users, ReadClamp(u) PROVE ReaderInv'
  <2>1. PICK len \in {seen[u], ktimer_len} : count' = [count EXCEPT ![u] = Available(u, len)]
    BY <1>5 DEF ReadClamp
  <2>2. u \in quiet => Available(u, len) > 0 /\ pos[u] + Available(u, len) <= ktimer_len
    <3> SUFFICES ASSUME u \in quiet
                 PROVE  Available(u, len) > 0 /\ pos[u] + Available(u, len) <= ktimer_len
      OBVIOUS
    <3>1. len = ktimer_len /\ pos[u] < ktimer_len
      BY <1>5 DEF ReaderInv, PlaceInv, ReadClamp
    <3> QED
      BY <1>0, <3>1, AvailableInRange
  <2>3. /\ at' = [at EXCEPT ![u] = "copy"] /\ at[u] = "clamp"
        /\ UNCHANGED <<ktimer_buffer, ktimer_len, pos, seen, got, quiet>>
    BY <1>5 DEF ReadClamp, Goto, device
  <2>4. count'[u] = Available(u, len) /\ \A v \in Users \ {u} : count'[v] = count[v]
    BY <2>1 DEF TypeOK
  <2> QED
    BY <1>0, <2>2, <2>3, <2>4 DEF TypeOK, ReaderInv, Holds
<1>6. ASSUME NEW u \in Users, ReadCopy(u) PROVE ReaderInv'
  <2>1. /\ got' = [got EXCEPT ![u] = got[u] \o Copied(pos[u], count[u])]
        /\ pos' = [pos EXCEPT ![u] = pos[u] + count[u]]
        /\ at' = [at EXCEPT ![u] = IF count[u] = 0 THEN "eof" ELSE "read"]
        /\ at[u] = "copy"
        /\ UNCHANGED <<ktimer_buffer, ktimer_len, seen, count, quiet>>
    BY <1>6 DEF ReadCopy, Copied, Goto, device
  <2>2. ASSUME u \in quiet
        PROVE  /\ at'[u] = "read"
               /\ Len(got'[u]) = pos'[u] /\ pos'[u] <= ktimer_len
               /\ \A k \in 1..pos'[u] : got'[u][k] = ktimer_buffer[k - 1]
    <3>1. /\ Len(got[u]) = pos[u] /\ Holds(got[u], pos[u])
          /\ count[u] > 0 /\ pos[u] + count[u] <= ktimer_len
      BY <2>1, <2>2 DEF ReaderInv
    <3>2. /\ at'[u] = "read" /\ pos'[u] = pos[u] + count[u]
          /\ got'[u] = got[u] \o Copied(pos[u], count[u])
      BY <1>0, <2>1, <3>1 DEF TypeOK
    <3>3. /\ Len(got'[u]) = pos[u] + count[u]
          /\ \A k \in 1..(pos[u] + count[u]) :
               got'[u][k] = IF k <= pos[u] THEN got[u][k] ELSE Byte(pos[u] + k - pos[u] - 1)
      <4>1. /\ Len(got[u] \o Copied(pos[u], count[u])) = Len(got[u]) + count[u]
            /\ \A k \in 1..(Len(got[u]) + count[u]) :
                 (got[u] \o Copied(pos[u], count[u]))[k] =
                    IF k <= Len(got[u]) THEN got[u][k] ELSE Byte(pos[u] + k - Len(got[u]) - 1)
        BY <1>0, CopiedIsSequence
      <4> QED
        BY <3>1, <3>2, <4>1
    <3>4. \A k \in 1..(pos[u] + count[u]) : k > pos[u] => Byte(k - 1) = ktimer_buffer[k - 1]
      BY <1>0, <3>1, ParametersAssumption DEF Byte
    <3>5. ASSUME NEW k \in 1..(pos[u] + count[u])
          PROVE  got'[u][k] = ktimer_buffer[k - 1]
      <4>1. CASE k <= pos[u]
        BY <1>0, <3>1, <3>3, <4>1 DEF Holds
      <4>2. CASE k > pos[u]
        <5>1. pos[u] + k - pos[u] - 1 = k - 1
          BY <1>0
        <5> QED
          BY <1>0, <3>3, <3>4, <4>2, <5>1
      <4> QED
        BY <1>0, <4>1, <4>2
    <3> QED
      BY <3>1, <3>2, <3>3, <3>5
  <2>3. \A v \in Users \ {u} : at'[v] = at[v] /\ got'[v] = got[v] /\ pos'[v] = pos[v]
    BY <2>1 DEF TypeOK
  <2> SUFFICES ASSUME NEW v \in quiet
               PROVE  ReaderInv!(v)'
    BY <2>1 DEF ReaderInv
  <2>4. CASE v = u
    BY <2>1, <2>2, <2>4 DEF Holds
  <2>5. CASE v # u
    BY <1>0, <2>1, <2>3, <2>5 DEF ReaderInv, Holds
  <2> QED
    BY <2>4, <2>5
<1>7. ASSUME NEW u \in Users, WriteCopy(u) PROVE ReaderInv'
  <2>1. CASE pos[u] >= Len(text[u]) \/ pos[u] >= Capacity
    BY <1>0, <1>7, <2>1 DEF TypeOK, ReaderInv, Holds, WriteCopy, Goto
  <2>2. CASE ~(pos[u] >= Len(text[u]) \/ pos[u] >= Capacity)
    BY <1>0, <1>7, <2>2 DEF TypeOK, ReaderInv, WriteCopy, Goto
  <2> QED
    BY <2>1, <2>2
<1>8. ASSUME NEW u \in Users, WritePublish(u) PROVE ReaderInv'
  BY <1>0, <1>8 DEF TypeOK, ReaderInv, WritePublish, Goto
<1> QED
  BY <1>1, <1>2, <1>3, <1>4, <1>5, <1>6, <1>7, <1>8 DEF Next, UserStep

\* What a quiet writer has written: nobody else stores, and it publishes
\* what it has stored before it stores more.
LEMMA WriterStep == TypeOK /\ PlaceInv /\ QuietInv /\ WriterInv /\ [Next]_vars => WriterInv'
<1> SUFFICES ASSUME TypeOK, PlaceInv, QuietInv, WriterInv, [Next]_vars PROVE WriterInv'
  OBVIOUS
<1>0. /\ \A u \in Users : pos[u] \in Nat /\ count[u] \in Nat /\ Len(text[u]) \in Nat
      /\ ktimer_len \in Nat
      /\ quiet \subseteq Users
  BY ParametersAssumption DEF TypeOK
<1>1. CASE UNCHANGED vars
  BY <1>1 DEF WriterInv, Holds, vars, device
<1>2. ASSUME NEW u \in Users, Open(u) PROVE WriterInv'
  <2>1. pos[u] = 0 /\ at'[u] \in {"read", "write"}
    BY <1>2 DEF TypeOK, PlaceInv, Open, Goto
  <2>2. \A v \in Users \ {u} : at'[v] = at[v] /\ text'[v] = text[v]
    BY <1>2 DEF TypeOK, Open, Goto
  <2>3. /\ quiet' \subseteq quiet \cup {u}
        /\ UNCHANGED <<ktimer_buffer, ktimer_len, pos, count>>
    BY <1>2 DEF Open, device
  <2> SUFFICES ASSUME NEW v \in quiet'
               PROVE  WriterInv!(v)'
    BY DEF WriterInv
  <2>4. CASE v = u
    BY <2>1, <2>3, <2>4 DEF Holds
  <2>5. CASE v # u
    BY <1>0, <2>2, <2>3, <2>5 DEF WriterInv, Holds
  <2> QED
    BY <2>4, <2>5
<1>3. ASSUME NEW u \in Users, Close(u) PROVE WriterInv'
  BY <1>0, <1>3 DEF TypeOK, WriterInv, Holds, Close, Goto, device
<1>4. ASSUME NEW u \in Users, ReadCheck(u) PROVE WriterInv'
  BY <1>0, <1>4 DEF TypeOK, WriterInv, Holds, ReadCheck, Goto, device
<1>5. ASSUME NEW u \in Users, ReadClamp(u) PROVE WriterInv'
  BY <1>0, <1>5 DEF TypeOK, WriterInv, Holds, ReadClamp, Goto, device
<1>6. ASSUME NEW u \in Users, ReadCopy(u) PROVE WriterInv'
  BY <1>0, <1>6 DEF TypeOK, WriterInv, Holds, ReadCopy, Goto, device
<1>7. ASSUME NEW u \in Users, WriteCopy(u) PROVE WriterInv'
  <2>1. CASE pos[u] >= Len(text[u]) \/ pos[u] >= Capacity
    <3>1. /\ at' = [at EXCEPT ![u] = "close"] /\ at[u] = "write"
          /\ UNCHANGED <<ktimer_buffer, ktimer_len, text, pos, count, quiet>>
      BY <1>7, <2>1 DEF WriteCopy, Goto
    <3>2. text[u] # <<>> => Len(text[u]) > 0
      BY <1>0 DEF TypeOK
    <3>3. pos[u] <= Capacity /\ pos[u] <= Len(text[u])
      BY <3>1 DEF PlaceInv
    <3>4. ASSUME u \in quiet, text[u] # <<>>
          PROVE  ktimer_len = Least(Len(text[u]), Capacity) /\ Holds(text[u], ktimer_len)
      <4>1. pos[u] > 0 /\ pos[u] = Least(Len(text[u]), Capacity)
        BY <1>0, <2>1, <3>2, <3>3, <3>4, ParametersAssumption DEF Least
      <4> QED
        BY <3>1, <3>4, <4>1 DEF WriterInv
    <3> QED
      BY <1>0, <3>1, <3>4 DEF TypeOK, WriterInv, Holds
  <2>2. CASE ~(pos[u] >= Len(text[u]) \/ pos[u] >= Capacity)
    <3>1. /\ at' = [at EXCEPT ![u] = "publish"] /\ at[u] = "write"
          /\ count' = [count EXCEPT ![u] = Taken(u)]
          /\ ktimer_buffer' = [a \in Places |->
                 IF a \in pos[u]..(pos[u] + Taken(u) - 1)
                 THEN text[u][a + 1] ELSE ktimer_buffer[a]]
          /\ quiet' = quiet \cap {u}
          /\ UNCHANGED <<text, pos>>
      BY <1>7, <2>2 DEF WriteCopy, Goto
    <3>2. /\ text[u] \in Seq(Bytes) /\ pos[u] < Len(text[u]) /\ pos[u] < Capacity
      BY <1>0, <2>2, ParametersAssumption DEF TypeOK
    <3>3. Taken(u) \in Nat /\ pos[u] + Taken(u) <= Capacity
      BY <1>0, <3>2, TakenInRange
    <3>4. at'[u] = "publish" /\ count'[u] = Taken(u)
      BY <3>1 DEF TypeOK
    <3>5. ASSUME u \in quiet, NEW k \in 1..(pos[u] + Taken(u))
          PROVE  text[u][k] = ktimer_buffer'[k - 1]
      <4>1. k - 1 \in Places /\ k - 1 + 1 = k
        BY <1>0, <3>3, ParametersAssumption DEF Places
      <4>2. CASE k <= pos[u]
        <5>1. text[u][k] = ktimer_buffer[k - 1]
          BY <1>0, <3>1, <3>5, <4>2 DEF WriterInv, Holds
        <5> QED
          BY <1>0, <3>1, <4>1, <4>2, <5>1
      <4>3. CASE k > pos[u]
        BY <1>0, <3>1, <3>3, <4>1, <4>3
      <4> QED
        BY <1>0, <4>2, <4>3
    <3> QED
      BY <3>1, <3>4, <3>5 DEF WriterInv, Holds
  <2> QED
    BY <2>1, <2>2
<1>8. ASSUME NEW u \in Users, WritePublish(u) PROVE WriterInv'
  <2>1. /\ at' = [at EXCEPT ![u] = "write"] /\ at[u] = "publish"
        /\ pos' = [pos EXCEPT ![u] = pos[u] + count[u]]
        /\ ktimer_len' = pos[u] + count[u]
        /\ quiet' = quiet \cap {u}
        /\ UNCHANGED <<ktimer_buffer, text, count>>
    BY <1>8 DEF WritePublish, Goto
  <2>2. at'[u] = "write" /\ pos'[u] = pos[u] + count[u]
    BY <2>1 DEF TypeOK
  <2> QED
    BY <2>1, <2>2 DEF WriterInv, Holds
<1> QED
  BY <1>1, <1>2, <1>3, <1>4, <1>5, <1>6, <1>7, <1>8 DEF Next, UserStep

-----------------------------------------------------------------------------
(* The invariant, and what follows from it. *)

\* The inductive invariant.
THEOREM IInvHolds == Spec => []IInv
<1>1. IInv /\ [Next]_vars => IInv'
  BY TypeStep, PlaceStep, QuietStep, ReaderStep, WriterStep DEF IInv
<1> QED
  BY InitIInv, <1>1, PTL DEF Spec

\* Types: no position leaves the buffer by more than a bite, and every
\* length, position and count is a number that the program can hold.
THEOREM TypeCorrect == Spec => []TypeOK
<1>1. IInv => TypeOK
  BY DEF IInv
<1> QED
  BY <1>1, IInvHolds, PTL

\* The message as a sequence.
LEMMA MessageIsSequence ==
    ASSUME TypeOK
    PROVE  /\ Message \in Seq(Marks) /\ Len(Message) = ktimer_len
           /\ \A k \in 1..ktimer_len : Message[k] = ktimer_buffer[k - 1]
<1>1. ktimer_len \in Nat /\ ktimer_len <= Capacity
  BY ParametersAssumption DEF TypeOK
<1>2. \A k \in 1..ktimer_len : ktimer_buffer[k - 1] \in Marks
  BY <1>1, ParametersAssumption DEF TypeOK, Places, Marks
<1> QED
  BY <1>1, <1>2 DEF Message

\* A sequence whose first bytes the buffer holds is the message up to there.
LEMMA HeldIsMessage ==
    ASSUME TypeOK, NEW s \in Seq(Marks), NEW n \in 0..ktimer_len, n <= Len(s), Holds(s, n)
    PROVE  SubSeq(Message, 1, n) = SubSeq(s, 1, n)
<1>1. n \in Nat /\ ktimer_len \in Nat
  BY ParametersAssumption DEF TypeOK
<1>2. \A k \in 1..n : Message[k] = s[k]
  BY <1>1, MessageIsSequence DEF Holds
<1> QED
  BY <1>1, <1>2, MessageIsSequence

\* A process that reads while nobody writes gets the message from its
\* beginning and, at the end of its file, all of it.
THEOREM QuietReaders == Spec => []QuietReaderGetsMessage
<1>1. IInv => QuietReaderGetsMessage
  <2> SUFFICES ASSUME IInv, NEW u \in quiet
               PROVE  /\ u \in Reading => pos[u] <= ktimer_len /\ got[u] = SubSeq(Message, 1, pos[u])
                      /\ at[u] = "eof" => got[u] = Message
    BY DEF QuietReaderGetsMessage, Reading
  <2>0. TypeOK /\ ktimer_len \in Nat /\ pos[u] \in Nat /\ got[u] \in Seq(Marks)
    BY ParametersAssumption DEF IInv, TypeOK, Marks
  <2>1. ASSUME u \in Reading
        PROVE  pos[u] <= ktimer_len /\ got[u] = SubSeq(Message, 1, pos[u])
    <3>1. Len(got[u]) = pos[u] /\ pos[u] <= ktimer_len /\ Holds(got[u], pos[u])
      BY <2>1 DEF IInv, ReaderInv, Reading
    <3>2. SubSeq(Message, 1, pos[u]) = SubSeq(got[u], 1, pos[u])
      BY <2>0, <3>1, HeldIsMessage
    <3> QED
      BY <2>0, <3>1, <3>2, SubSeqFull
  <2>2. ASSUME at[u] = "eof"
        PROVE  got[u] = Message
    <3>1. Len(got[u]) = ktimer_len /\ Holds(got[u], ktimer_len)
      BY <2>2 DEF IInv, ReaderInv
    <3>2. SubSeq(Message, 1, ktimer_len) = SubSeq(got[u], 1, ktimer_len)
      BY <2>0, <3>1, HeldIsMessage
    <3> QED
      BY <2>0, <3>1, <3>2, SubSeqFull, MessageIsSequence
  <2> QED
    BY <2>1, <2>2
<1> QED
  BY <1>1, IInvHolds, PTL

\* A message written while nobody else writes is what the device holds.
THEOREM QuietWriters == Spec => []QuietWriterSetsMessage
<1>1. IInv => QuietWriterSetsMessage
  <2> SUFFICES ASSUME IInv, NEW u \in quiet, at[u] = "close", text[u] # <<>>
               PROVE  Message = SubSeq(text[u], 1, Least(Len(text[u]), Capacity))
    BY DEF QuietWriterSetsMessage
  <2>0. /\ TypeOK /\ ktimer_len \in Nat
        /\ text[u] \in Seq(Bytes) /\ text[u] \in Seq(Marks) /\ Len(text[u]) \in Nat
    BY ParametersAssumption DEF IInv, TypeOK, Marks
  <2>1. ktimer_len = Least(Len(text[u]), Capacity) /\ Holds(text[u], ktimer_len)
    BY DEF IInv, WriterInv
  <2>2. ktimer_len <= Len(text[u])
    BY <2>0, <2>1, ParametersAssumption DEF Least
  <2>3. SubSeq(Message, 1, ktimer_len) = SubSeq(text[u], 1, ktimer_len)
    BY <2>0, <2>1, <2>2, HeldIsMessage
  <2> QED
    BY <2>0, <2>1, <2>3, SubSeqFull, MessageIsSequence
<1> QED
  BY <1>1, IInvHolds, PTL
=============================================================================

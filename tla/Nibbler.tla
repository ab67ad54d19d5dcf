------------------------------- MODULE Nibbler -------------------------------
(***************************************************************************)
(* The message device of the driver examples, lab2/ldd/nibbler.c (lab3/ldd *)
(* holds a copy), and the program nibbler_ul.c that writes a message to it *)
(* or reads the message it holds.  The driver takes no lock: the calls of  *)
(* different processes interleave between their looks at the length and    *)
(* their copies.  Every process opens its own file and runs once.          *)
(***************************************************************************)
EXTENDS Integers, Sequences

CONSTANTS
    Users,      \* processes that run nibbler_ul
    Bytes,      \* what messages are made of
    Texts,      \* the messages of -w
    Capacity,   \* the module parameters capacity and bite, 128 in the code
    Bite,
    Zero,       \* what init fills the buffer with
    Outside     \* what lies behind the buffer

ASSUME ParametersAssumption == Capacity \in Nat \ {0} /\ Bite \in Nat \ {0}
ASSUME TextsAssumption      == Texts \subseteq Seq(Bytes)
ASSUME FillersAssumption    == Zero \notin Bytes /\ Outside \notin Bytes \cup {Zero}

VARIABLES
    ktimer_buffer,
    ktimer_len,
    at,         \* where each process is
    text,       \* what it was asked to write
    pos,        \* its file's f_pos
    seen,       \* the length its read has seen
    count,      \* the bytes its call is about to move
    got,        \* what it has read
    quiet       \* history: processes that nobody else's write has overlapped

device == <<ktimer_buffer, ktimer_len>>
vars   == <<device, at, text, pos, seen, count, got, quiet>>

Places == 0..(Capacity - 1)

TypeOK ==
    /\ ktimer_buffer \in [Places -> Bytes \cup {Zero}]
    /\ ktimer_len \in 0..Capacity
    /\ at \in [Users -> {"start", "read", "clamp", "copy", "eof", "write", "publish", "close",
                      "done"}]
    /\ text \in [Users -> Seq(Bytes)]
    /\ pos \in [Users -> 0..(Capacity + Bite - 1)]
    /\ seen \in [Users -> 0..Capacity]
    /\ count \in [Users -> 0..Bite]
    /\ got \in [Users -> Seq(Bytes \cup {Zero, Outside})]
    /\ quiet \subseteq Users

Init ==
    /\ ktimer_buffer = [a \in Places |-> Zero]
    /\ ktimer_len = 0
    /\ at = [u \in Users |-> "start"]
    /\ text = [u \in Users |-> <<>>]
    /\ pos = [u \in Users |-> 0]
    /\ seen = [u \in Users |-> 0]
    /\ count = [u \in Users |-> 0]
    /\ got = [u \in Users |-> <<>>]
    /\ quiet = {}

Goto(u, place) == at' = [at EXCEPT ![u] = place]

Least(a, b) == IF a < b THEN a ELSE b

-----------------------------------------------------------------------------
(* The program. *)

Open(u) ==
    /\ at[u] = "start"
    /\ \/ Goto(u, "read") /\ UNCHANGED text
       \/ \E t \in Texts : Goto(u, "write") /\ text' = [text EXCEPT ![u] = t]
    /\ quiet' = IF \E v \in Users : at[v] = "publish" THEN quiet ELSE quiet \cup {u}
    /\ UNCHANGED <<device, pos, seen, count, got>>

Close(u) ==
    /\ at[u] \in {"eof", "close"}
    /\ Goto(u, "done")
    /\ UNCHANGED <<device, text, pos, seen, count, got, quiet>>

-----------------------------------------------------------------------------
(* ktimer_read, which the program calls until it returns nothing.  The     *)
(* program asks for more than a bite.                                      *)

ReadCheck(u) ==
    /\ at[u] = "read"
    /\ IF pos[u] >= ktimer_len
       THEN Goto(u, "eof") /\ UNCHANGED seen
       ELSE Goto(u, "clamp") /\ seen' = [seen EXCEPT ![u] = ktimer_len]
    /\ UNCHANGED <<device, text, pos, count, got, quiet>>

\* Mutant: the count is not cut down to the end of the message.
Available_Bite(u, len) == Bite

\* The length is used again, from a register or from memory.  What is left
\* is negative when a shorter message came in between; as a count that is
\* enormous, and a bite is taken.
Available(u, len) == IF len < pos[u] THEN Bite ELSE Least(len - pos[u], Bite)

ReadClamp(u) ==
    /\ at[u] = "clamp"
    /\ \E len \in {seen[u], ktimer_len} : count' = [count EXCEPT ![u] = Available(u, len)]
    /\ Goto(u, "copy")
    /\ UNCHANGED <<device, text, pos, seen, got, quiet>>

Byte(a) == IF a < Capacity THEN ktimer_buffer[a] ELSE Outside

\* Mutant: the position does not move, so that the program reads for ever.
ReadCopy_Stays(u) ==
    /\ at[u] = "copy"
    /\ got' = [got EXCEPT ![u] = [k \in 1..count[u] |-> Byte(pos[u] + k - 1)]]
    /\ UNCHANGED pos
    /\ Goto(u, IF count[u] = 0 THEN "eof" ELSE "read")
    /\ UNCHANGED <<device, text, seen, count, quiet>>

ReadCopy(u) ==
    /\ at[u] = "copy"
    /\ got' = [got EXCEPT ![u] = @ \o [k \in 1..count[u] |-> Byte(pos[u] + k - 1)]]
    /\ pos' = [pos EXCEPT ![u] = @ + count[u]]
    /\ Goto(u, IF count[u] = 0 THEN "eof" ELSE "read")
    /\ UNCHANGED <<device, text, seen, count, quiet>>

-----------------------------------------------------------------------------
(* ktimer_write, which the program calls until its message is written or a *)
(* call is refused.                                                        *)

Taken(u) == Least(Least(Len(text[u]) - pos[u], Bite), Capacity - pos[u])

WriteCopy(u) ==
    /\ at[u] = "write"
    /\ IF pos[u] >= Len(text[u]) \/ pos[u] >= Capacity
       THEN Goto(u, "close") /\ UNCHANGED <<ktimer_buffer, count, quiet>>
       ELSE /\ count' = [count EXCEPT ![u] = Taken(u)]
            /\ ktimer_buffer' = [a \in Places |->
                 IF a \in pos[u]..(pos[u] + Taken(u) - 1)
                 THEN text[u][a + 1] ELSE ktimer_buffer[a]]
            /\ quiet' = quiet \cap {u}
            /\ Goto(u, "publish")
    /\ UNCHANGED <<ktimer_len, text, pos, seen, got>>

\* Mutant: the message never becomes shorter.
WritePublish_Grows(u) ==
    /\ at[u] = "publish"
    /\ pos' = [pos EXCEPT ![u] = @ + count[u]]
    /\ ktimer_len' = IF ktimer_len < pos[u] + count[u] THEN pos[u] + count[u] ELSE ktimer_len
    /\ quiet' = quiet \cap {u}
    /\ Goto(u, "write")
    /\ UNCHANGED <<ktimer_buffer, text, seen, count, got>>

\* Mutant: the length is a bite, not the position.
WritePublish_Bite(u) ==
    /\ at[u] = "publish"
    /\ pos' = [pos EXCEPT ![u] = @ + count[u]]
    /\ ktimer_len' = ktimer_len + Bite
    /\ quiet' = quiet \cap {u}
    /\ Goto(u, "write")
    /\ UNCHANGED <<ktimer_buffer, text, seen, count, got>>

\* A shorter message takes the place of a longer one.
WritePublish(u) ==
    /\ at[u] = "publish"
    /\ pos' = [pos EXCEPT ![u] = @ + count[u]]
    /\ ktimer_len' = pos[u] + count[u]
    /\ quiet' = quiet \cap {u}
    /\ Goto(u, "write")
    /\ UNCHANGED <<ktimer_buffer, text, seen, count, got>>

-----------------------------------------------------------------------------
UserStep(u) == \/ ReadCheck(u) \/ ReadClamp(u) \/ ReadCopy(u)
               \/ WriteCopy(u) \/ WritePublish(u) \/ Close(u)

Next == \E u \in Users : Open(u) \/ UserStep(u)

\* Processes get the processor.
Fairness == \A u \in Users : WF_vars(UserStep(u))

Spec     == Init /\ [][Next]_vars
FairSpec == Spec /\ Fairness

-----------------------------------------------------------------------------
Message == [k \in 1..ktimer_len |-> ktimer_buffer[k - 1]]

Reading == {u \in quiet : at[u] \in {"read", "clamp", "copy"}}

(***************************************************************************)
(* A process that reads while nobody writes has read the beginning of the  *)
(* message and, when it stops, all of it, though it takes a bite at a time *)
(* and other readers stand between its looks at the length.                *)
(***************************************************************************)
QuietReaderGetsMessage ==
    /\ \A u \in Reading : pos[u] <= ktimer_len /\ got[u] = SubSeq(Message, 1, pos[u])
    /\ \A u \in quiet : at[u] = "eof" => got[u] = Message

(***************************************************************************)
(* A message written while nobody else writes is the one the device holds  *)
(* afterwards, cut at the capacity: nothing of the message before remains. *)
(***************************************************************************)
QuietWriterSetsMessage ==
    \A u \in quiet :
        at[u] = "close" /\ text[u] # <<>> =>
            Message = SubSeq(text[u], 1, Least(Len(text[u]), Capacity))

(***************************************************************************)
(* Every run of the program ends: each call moves something or is the last *)
(* one, even when messages of other lengths come between a reader's bites. *)
(***************************************************************************)
EverySessionEnds == \A u \in Users : at[u] # "start" ~> at[u] = "done"
=============================================================================

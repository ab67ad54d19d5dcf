------------------------------ MODULE MyBitApp ------------------------------
(***************************************************************************)
(* The program of HW1: main.c reads numbers, keeps their mirrors in the    *)
(* linked list of mylist.c in the order of their decimal strings, and      *)
(* writes the list.  Nodes are numbered in the order of their allocation;  *)
(* 0 is NULL.                                                              *)
(***************************************************************************)
EXTENDS Bits

CONSTANTS
    Numbers,    \* the numbers a file may hold, as "%d" reads them
    ArraySize   \* of the array of numbers: 100 in the code

ASSUME NumbersAssumption == Numbers \subseteq Int /\ ArraySize \in Nat \ {0}

VARIABLES
    at,         \* where main is
    integers,   \* what it has read
    nodes,      \* what create_MyList_node has made
    next,       \* the nodes' pointers
    head,
    current,
    outFile

list == <<nodes, next, head>>
vars == <<at, integers, list, current, outFile>>

Nodes == 1..Len(nodes)
NULL  == 0

TypeOK ==
    /\ at \in {"read", "make", "insert", "walk", "write", "done"}
    /\ integers \in Seq(Numbers) /\ Len(integers) <= ArraySize
    /\ nodes \in Seq([input : Words, mirror : Words, counted : 0..Width, ASCII : Seq(0..9)])
    /\ next \in [Nodes -> Nodes \cup {NULL}]
    /\ head \in Nodes \cup {NULL}
    /\ current \in Nodes \cup {NULL}
    /\ outFile \in Seq([mirror : Words, counted : 0..Width])

Init ==
    /\ at = "read"
    /\ integers = <<>>
    /\ nodes = <<>> /\ next = <<>> /\ head = NULL /\ current = NULL
    /\ outFile = <<>>

\* Files of more numbers than the array holds are left out: the program
\* writes behind the array.
Read ==
    /\ at = "read"
    /\ Len(integers) < ArraySize
    /\ \E n \in Numbers : integers' = Append(integers, n)
    /\ UNCHANGED <<at, list, current, outFile>>

EndOfFile ==
    /\ at = "read"
    /\ at' = "make"
    /\ UNCHANGED <<integers, list, current, outFile>>

\* Mutant: the number keeps its sign.
Word_Signed(n) == n

\* The number as an unsigned word.
Word(n) == n % PowerOf2[Width]

create_MyList_node(n) ==
    [input |-> Word(n), mirror |-> BinaryMirror(Word(n)), counted |-> CountSequence(Word(n)),
     ASCII |-> UIntToAscii(BinaryMirror(Word(n)))]

\* The next number becomes a node, or there is none and the list is written.
Make ==
    /\ at = "make"
    /\ IF Len(nodes) < Len(integers)
       THEN /\ nodes' = Append(nodes, create_MyList_node(integers[Len(nodes) + 1]))
            /\ next' = Append(next, NULL)
            /\ at' = "insert"
            /\ UNCHANGED current
       ELSE at' = "write" /\ current' = head /\ UNCHANGED <<nodes, next>>
    /\ UNCHANGED <<integers, head, outFile>>

\* The node that is being inserted is the last one made.
node == Len(nodes)

\* strcmp(node->ASCII, other->ASCII) > 0
After(other) == StrLess(nodes[other].ASCII, nodes[node].ASCII)

\* Mutant: a node that belongs in front loses the rest of the list.
Insert_Drops ==
    /\ at = "insert"
    /\ IF head = NULL \/ ~After(head)
       THEN head' = node /\ at' = "make" /\ UNCHANGED <<next, current>>
       ELSE current' = head /\ at' = "walk" /\ UNCHANGED <<next, head>>
    /\ UNCHANGED <<integers, nodes, outFile>>

\* insert_MyList_sorted: in front of the list, or behind some node of it.
Insert ==
    /\ at = "insert"
    /\ IF head = NULL \/ ~After(head)
       THEN /\ next' = [next EXCEPT ![node] = head]
            /\ head' = node
            /\ at' = "make"
            /\ UNCHANGED current
       ELSE current' = head /\ at' = "walk" /\ UNCHANGED <<next, head>>
    /\ UNCHANGED <<integers, nodes, outFile>>

\* Mutant: the search stops at the node before the last.
Walk_Early ==
    /\ at = "walk"
    /\ IF next[current] # NULL /\ next[next[current]] # NULL /\ After(next[current])
       THEN current' = next[current] /\ UNCHANGED <<at, next>>
       ELSE /\ next' = [next EXCEPT ![node] = next[current], ![current] = node]
            /\ at' = "make"
            /\ UNCHANGED current
    /\ UNCHANGED <<integers, nodes, head, outFile>>

\* Mutant: the two assignments are swapped, and the node follows itself.
Walk_Swapped ==
    /\ at = "walk"
    /\ IF next[current] # NULL /\ After(next[current])
       THEN current' = next[current] /\ UNCHANGED <<at, next>>
       ELSE /\ next' = [next EXCEPT ![node] = node, ![current] = node]
            /\ at' = "make"
            /\ UNCHANGED current
    /\ UNCHANGED <<integers, nodes, head, outFile>>

Walk ==
    /\ at = "walk"
    /\ IF next[current] # NULL /\ After(next[current])
       THEN current' = next[current] /\ UNCHANGED <<at, next>>
       ELSE /\ next' = [next EXCEPT ![node] = next[current], ![current] = node]
            /\ at' = "make"
            /\ UNCHANGED current
    /\ UNCHANGED <<integers, nodes, head, outFile>>

Write ==
    /\ at = "write"
    /\ IF current = NULL
       THEN at' = "done" /\ UNCHANGED <<current, outFile>>
       ELSE /\ outFile' = Append(outFile, [mirror  |-> nodes[current].mirror,
                                           counted |-> nodes[current].counted])
            /\ current' = next[current]
            /\ UNCHANGED at
    /\ UNCHANGED <<integers, list>>

Work == Make \/ Insert \/ Walk \/ Write

Next == Read \/ EndOfFile \/ Work

Spec == Init /\ [][Next]_vars

\* The program does not stop on its own; the file ends.
FairSpec == Spec /\ WF_vars(EndOfFile) /\ WF_vars(Work)

-----------------------------------------------------------------------------
Linked == IF at \in {"insert", "walk"} THEN Nodes \ {node} ELSE Nodes

(***************************************************************************)
(* The list is in order at every moment: no node that is linked points to  *)
(* one whose string comes before its own.                                  *)
(***************************************************************************)
ListOrdered ==
    \A n \in Linked :
        next[n] # NULL => ~StrLess(nodes[next[n]].ASCII, nodes[n].ASCII)

(***************************************************************************)
(* No node is lost or entered twice: the linked nodes are the head, which  *)
(* nothing points to, and the others, each of which one node points to.    *)
(***************************************************************************)
EveryNodeOnce ==
    /\ head \in Linked \cup {NULL}
    /\ \A n \in Linked : (n = head) # (\E m \in Linked : next[m] = n)
    /\ \A m, n \in Linked : next[m] = next[n] /\ next[m] # NULL => m = n

(***************************************************************************)
(* The file holds every number's mirror and count, bit by bit what they    *)
(* should be, once for each time it was read, in the order of the strings. *)
(***************************************************************************)
Right(line, n) ==
    /\ \A k \in Indices : Bit(line.mirror, k) = Bit(Word(n), Width - 1 - k)
    /\ line.counted = Cardinality({k \in 0..(Width - 3) : (Word(n) \div PowerOf2[k]) % 8 = 2})

OutputIsSortedInput ==
    at = "done" =>
        /\ Len(outFile) = Len(integers)
        /\ \A n \in Numbers :
             Cardinality({i \in DOMAIN integers : Word(integers[i]) = Word(n)}) =
             Cardinality({i \in DOMAIN outFile : Right(outFile[i], n)})
        /\ \A i \in 1..(Len(outFile) - 1) :
             ~StrLess(UIntToAscii(outFile[i + 1].mirror), UIntToAscii(outFile[i].mirror))

(***************************************************************************)
(* The program ends: neither the search nor the output runs in circles.    *)
(***************************************************************************)
Ends == <>(at = "done")
=============================================================================

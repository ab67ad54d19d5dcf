---------------------------- MODULE ByteMachine ----------------------------
(***************************************************************************)
(* The machine that homework 2 simulates, as its instruction set describes *)
(* it: registers and memory cells hold bytes, arithmetic is modulo the     *)
(* number of bytes, and a value is the same wherever it is kept.           *)
(***************************************************************************)
EXTENDS Integers, Sequences

CONSTANTS Size, First

VARIABLES
    program,    \* the lines
    at,         \* the number of the line to run next
    r,          \* the registers
    m,          \* the memory
    eq          \* whether the last comparison found its registers equal

machineVars == <<program, at, r, m, eq>>

MachineInit ==
    /\ at = First
    /\ r = [n \in 1..6 |-> 0]
    /\ m = [a \in 0..(Size - 1) |-> 0]
    /\ eq = FALSE

Line == program[at - First + 1]

Is(mnemonic) ==
    /\ at - First < Len(program)
    /\ Line.mnemonic = mnemonic
    /\ UNCHANGED program

Assign(value) == r' = [r EXCEPT ![Line.arg1] = value % Size]

Calculate ==
    /\ \/ Is("MOV") /\ Assign(Line.arg2)
       \/ Is("ADD") /\ Line.kind = "number" /\ Assign(r[Line.arg1] + Line.arg2)
       \/ Is("ADD") /\ Line.kind = "register" /\ Assign(r[Line.arg1] + r[Line.arg2])
       \/ Is("LD")  /\ Assign(m[r[Line.arg2]])
    /\ at' = at + 1
    /\ UNCHANGED <<m, eq>>

Store ==
    /\ Is("ST")
    /\ m' = [m EXCEPT ![r[Line.arg1]] = r[Line.arg2]]
    /\ at' = at + 1
    /\ UNCHANGED <<r, eq>>

Compare ==
    /\ Is("CMP")
    /\ eq' = (r[Line.arg1] = r[Line.arg2])
    /\ at' = at + 1
    /\ UNCHANGED <<r, m>>

Jump ==
    /\ \/ Is("JMP") /\ at' = Line.arg1
       \/ Is("JE") /\ at' = IF eq THEN Line.arg1 ELSE at + 1
    /\ UNCHANGED <<r, m, eq>>

Skip ==
    /\ Is("other")
    /\ at' = at + 1
    /\ UNCHANGED <<r, m, eq>>

MachineNext == Calculate \/ Store \/ Compare \/ Jump \/ Skip

Spec == MachineInit /\ [][MachineNext]_machineVars
=============================================================================

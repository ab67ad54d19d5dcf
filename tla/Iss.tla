-------------------------------- MODULE Iss --------------------------------
(***************************************************************************)
(* The instruction set simulator of homework 2, HW2/main.c: it reads an    *)
(* assembly program into an array of decoded instructions, runs it, and    *)
(* prints how many instructions, cycles and memory accesses that took.     *)
(*                                                                         *)
(* Registers are signed and memory cells unsigned numbers of one byte, so  *)
(* every store and load converts.  A program is a sequence of lines; the   *)
(* lines are numbered from FirstLine on, whatever numbers they carry.      *)
(***************************************************************************)
EXTENDS Integers, Sequences, FiniteSets

CONSTANTS
    Programs,       \* the files the simulator is run on
    FirstLine,      \* the number of the first line of each
    ByteSize,       \* 256 in the code: how many values a byte has
    MaxExecuted     \* bound: the simulator is watched for that long

ASSUME ByteSizeAssumption    == ByteSize \in Nat \ {0} /\ ByteSize % 2 = 0
ASSUME FirstLineAssumption   == FirstLine \in Nat
ASSUME MaxExecutedAssumption == MaxExecuted \in Nat

Registers == 1..6
Bytes     == 0..(ByteSize - 1)
Half      == ByteSize \div 2

\* Conversion of an int to uint8_t and to int8_t.
Uint8(n) == n % ByteSize
Int8(n)  == IF Uint8(n) < Half THEN Uint8(n) ELSE Uint8(n) - ByteSize

Int8s == {Int8(b) : b \in Bytes}

\* A line of a program as sscanf splits it.  Registers are named by their
\* numbers; jumps stay at or behind the first line.
Lines ==      [mnemonic : {"MOV"}, arg1 : Registers, arg2 : Int]
         \cup [mnemonic : {"ADD"}, arg1 : Registers, arg2 : Registers, kind : {"register"}]
         \cup [mnemonic : {"ADD"}, arg1 : Registers, arg2 : Int, kind : {"number"}]
         \cup [mnemonic : {"CMP", "LD", "ST"}, arg1 : Registers, arg2 : Registers]
         \cup [mnemonic : {"JE", "JMP"}, arg1 : {a \in Nat : a >= FirstLine}]
         \cup [mnemonic : {"other"}]

Opcode(line) ==
    CASE line.mnemonic = "MOV" -> 0
      [] line.mnemonic = "ADD" -> IF line.kind = "register" THEN 1 ELSE 2
      [] line.mnemonic = "CMP" -> 3
      [] line.mnemonic = "JE"  -> 4
      [] line.mnemonic = "JMP" -> 5
      [] line.mnemonic = "LD"  -> 6
      [] line.mnemonic = "ST"  -> 7
      [] OTHER                 -> 8

ASSUME ProgramsAssumption == Programs \subseteq Seq(Lines)

VARIABLES
    program,                \* the lines, decoded line by line when they run
    i,                      \* the number of the line to run next
    reg,
    equal,                  \* the flag that CMP sets
    memory,
    touched,                \* the addresses that have been accessed
    executedInstruction,
    clockCycles,
    totalMemoryHits,
    localMemoryHits,
    unknown                 \* how many complaints have been printed

machine  == <<reg, equal, memory, touched>>
counters == <<executedInstruction, clockCycles, totalMemoryHits, localMemoryHits, unknown>>
vars     == <<program, i, machine, counters>>

TypeOK ==
    /\ program \in Programs
    /\ i \in Nat
    /\ reg \in [Registers -> Int8s]
    /\ equal \in BOOLEAN
    /\ memory \in [Bytes -> Bytes]
    /\ touched \in SUBSET Bytes
    /\ executedInstruction \in Nat
    /\ clockCycles \in Nat
    /\ totalMemoryHits \in Nat
    /\ localMemoryHits \in Nat
    /\ unknown \in Nat

Init ==
    /\ program \in Programs
    /\ i = FirstLine
    /\ reg = [n \in Registers |-> 0]
    /\ equal = FALSE
    /\ memory = [a \in Bytes |-> 0]
    /\ touched = {}
    /\ executedInstruction = 0
    /\ clockCycles = 0
    /\ totalMemoryHits = 0
    /\ localMemoryHits = 0
    /\ unknown = 0

-----------------------------------------------------------------------------
\* The instruction in turn, if the program has not run past its last line.
Inst == program[i - FirstLine + 1]

Running(opcode) ==
    /\ i < Len(program) + FirstLine
    /\ executedInstruction < MaxExecuted
    /\ Opcode(Inst) = opcode
    /\ executedInstruction' = executedInstruction + 1
    /\ UNCHANGED program

\* An instruction that works on registers takes one cycle.
OneCycle == clockCycles' = clockCycles + 1 /\ UNCHANGED <<totalMemoryHits, localMemoryHits, unknown>>

Mov ==
    /\ Running(0)
    /\ reg' = [reg EXCEPT ![Inst.arg1] = Int8(Inst.arg2)]
    /\ i' = i + 1
    /\ OneCycle
    /\ UNCHANGED <<equal, memory, touched>>

\* Mutant: the sum is not brought back to eight bits.
AddRegister_Wide ==
    /\ Running(1)
    /\ reg' = [reg EXCEPT ![Inst.arg1] = @ + reg[Inst.arg2]]
    /\ i' = i + 1
    /\ OneCycle
    /\ UNCHANGED <<equal, memory, touched>>

AddRegister ==
    /\ Running(1)
    /\ reg' = [reg EXCEPT ![Inst.arg1] = Int8(@ + reg[Inst.arg2])]
    /\ i' = i + 1
    /\ OneCycle
    /\ UNCHANGED <<equal, memory, touched>>

AddNumber ==
    /\ Running(2)
    /\ reg' = [reg EXCEPT ![Inst.arg1] = Int8(@ + Inst.arg2)]
    /\ i' = i + 1
    /\ OneCycle
    /\ UNCHANGED <<equal, memory, touched>>

\* Mutant: the flag is set but never cleared.
Cmp_Sticky ==
    /\ Running(3)
    /\ equal' = (equal \/ reg[Inst.arg1] = reg[Inst.arg2])
    /\ i' = i + 1
    /\ OneCycle
    /\ UNCHANGED <<reg, memory, touched>>

Cmp ==
    /\ Running(3)
    /\ equal' = (reg[Inst.arg1] = reg[Inst.arg2])
    /\ i' = i + 1
    /\ OneCycle
    /\ UNCHANGED <<reg, memory, touched>>

Je ==
    /\ Running(4)
    /\ i' = IF equal THEN Inst.arg1 ELSE i + 1
    /\ OneCycle
    /\ UNCHANGED machine

Jmp ==
    /\ Running(5)
    /\ i' = Inst.arg1
    /\ OneCycle
    /\ UNCHANGED machine

-----------------------------------------------------------------------------
\* Mutant: a later access to an address takes one cycle.
Access_OneCycle(addr) ==
    /\ touched' = touched \cup {addr}
    /\ clockCycles' = clockCycles + (IF addr \in touched THEN 1 ELSE 50)
    /\ localMemoryHits' = localMemoryHits + (IF addr \in touched THEN 1 ELSE 0)
    /\ totalMemoryHits' = totalMemoryHits + 1
    /\ UNCHANGED unknown

\* The first access to an address takes 50 cycles, the later ones take 2.
Access(addr) ==
    /\ touched' = touched \cup {addr}
    /\ clockCycles' = clockCycles + (IF addr \in touched THEN 2 ELSE 50)
    /\ localMemoryHits' = localMemoryHits + (IF addr \in touched THEN 1 ELSE 0)
    /\ totalMemoryHits' = totalMemoryHits + 1
    /\ UNCHANGED unknown

Ld ==
    LET addr == Uint8(reg[Inst.arg2]) IN
    /\ Running(6)
    /\ Access(addr)
    /\ reg' = [reg EXCEPT ![Inst.arg1] = Int8(memory[addr])]
    /\ i' = i + 1
    /\ UNCHANGED <<equal, memory>>

\* Mutant: the address is counted in the register of the value.
St_TouchesValue ==
    LET addr == Uint8(reg[Inst.arg1]) IN
    /\ Running(7)
    /\ Access(Uint8(reg[Inst.arg2]))
    /\ memory' = [memory EXCEPT ![addr] = Uint8(reg[Inst.arg2])]
    /\ i' = i + 1
    /\ UNCHANGED <<reg, equal>>

St ==
    LET addr == Uint8(reg[Inst.arg1]) IN
    /\ Running(7)
    /\ Access(addr)
    /\ memory' = [memory EXCEPT ![addr] = Uint8(reg[Inst.arg2])]
    /\ i' = i + 1
    /\ UNCHANGED <<reg, equal>>

\* A line that is no instruction is complained of; it takes no time.
Unknown ==
    /\ Running(8)
    /\ unknown' = unknown + 1
    /\ i' = i + 1
    /\ UNCHANGED <<machine, clockCycles, totalMemoryHits, localMemoryHits>>

Next == Mov \/ AddRegister \/ AddNumber \/ Cmp \/ Je \/ Jmp \/ Ld \/ St \/ Unknown

Spec == Init /\ [][Next]_vars

-----------------------------------------------------------------------------
(***************************************************************************)
(* The printed cycles are those of the instructions run: 1 for a register  *)
(* instruction or jump, 2 for a local access, 50 for a first one.          *)
(***************************************************************************)
CyclesAddUp ==
    clockCycles = (executedInstruction - totalMemoryHits - unknown)
                  + 2 * localMemoryHits + 50 * Cardinality(touched)

(***************************************************************************)
(* What the cycle count calls a first access finds a cell that nothing has *)
(* been stored in: loads and stores go by the same address.                *)
(***************************************************************************)
UntouchedCellsAreZero == \A a \in Bytes \ touched : memory[a] = 0

Machine == INSTANCE ByteMachine WITH
    Size <- ByteSize, First <- FirstLine, at <- i,
    r <- [n \in Registers |-> Uint8(reg[n])], m <- memory, eq <- equal

(***************************************************************************)
(* Keeping registers signed and cells unsigned is not seen: the simulator  *)
(* computes what the byte machine of its instruction set computes.         *)
(***************************************************************************)
IsByteMachine == Machine!Spec
=============================================================================

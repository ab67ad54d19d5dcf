----------------------------- MODULE IssProofs -----------------------------
(***************************************************************************)
(* Proofs about the instruction set simulator, for any programs, any       *)
(* number of the first line and any size of a byte.                        *)
(***************************************************************************)
EXTENDS Iss, FiniteSetTheorems, TLAPS

\* No jump goes in front of the program.
PlaceInv == i >= FirstLine

\* Total and local hits differ by the number of addresses accessed, and so by
\* ByteSize at most.
HitsInv == localMemoryHits + Cardinality(touched) = totalMemoryHits

IInv == TypeOK /\ PlaceInv /\ HitsInv /\ CyclesAddUp /\ UntouchedCellsAreZero

-----------------------------------------------------------------------------
(* Conversions. *)

LEMMA ModRange ==
    ASSUME NEW n \in Int
    PROVE  n % ByteSize \in Bytes
BY ByteSizeAssumption DEF Bytes

LEMMA ModOfByte ==
    ASSUME NEW b \in Bytes
    PROVE  b % ByteSize = b
BY ByteSizeAssumption DEF Bytes

\* Every number converts to one that a signed byte holds.
LEMMA Int8Type ==
    ASSUME NEW n \in Int
    PROVE  Int8(n) \in Int8s
<1>1. Uint8(n) \in Bytes
  BY ModRange DEF Uint8
<1>2. Uint8(Uint8(n)) = Uint8(n)
  BY <1>1, ModOfByte DEF Uint8
<1>3. Int8(n) = Int8(Uint8(n))
  BY <1>2 DEF Int8
<1> QED
  BY <1>1, <1>3 DEF Int8s

LEMMA Int8sAreInts == Int8s \subseteq Int
<1>1. \A b \in Bytes : b \in Int
  BY ByteSizeAssumption DEF Bytes
<1>2. \A b \in Bytes : Uint8(b) \in Int
  BY <1>1, ByteSizeAssumption DEF Uint8
<1> QED
  BY <1>2, ByteSizeAssumption DEF Int8s, Int8

\* The line in turn is a line of the program.
LEMMA InstIsLine ==
    ASSUME TypeOK, i < Len(program) + FirstLine, i >= FirstLine
    PROVE  Inst \in Lines
<1>1. program \in Seq(Lines)
  BY ProgramsAssumption DEF TypeOK
<1>2. i - FirstLine + 1 \in 1..Len(program)
  BY <1>1, FirstLineAssumption DEF TypeOK
<1> QED
  BY <1>1, <1>2 DEF Inst

\* What the operands of a line are, by its opcode.
LEMMA Operands ==
    ASSUME NEW line \in Lines
    PROVE  /\ Opcode(line) \in {0, 2} => line.arg1 \in Registers /\ line.arg2 \in Int
           /\ Opcode(line) \in {1, 3, 6, 7} => line.arg1 \in Registers /\ line.arg2 \in Registers
           /\ Opcode(line) \in {4, 5} => line.arg1 \in Nat /\ line.arg1 >= FirstLine
<1>1. CASE line \in [mnemonic : {"MOV"}, arg1 : Registers, arg2 : Int]
  BY <1>1 DEF Opcode
<1>2. CASE line \in [mnemonic : {"ADD"}, arg1 : Registers, arg2 : Registers, kind : {"register"}]
  BY <1>2 DEF Opcode
<1>3. CASE line \in [mnemonic : {"ADD"}, arg1 : Registers, arg2 : Int, kind : {"number"}]
  BY <1>3 DEF Opcode
<1>4. CASE line \in [mnemonic : {"CMP", "LD", "ST"}, arg1 : Registers, arg2 : Registers]
  BY <1>4 DEF Opcode
<1>5. CASE line \in [mnemonic : {"JE", "JMP"}, arg1 : {a \in Nat : a >= FirstLine}]
  BY <1>5 DEF Opcode
<1>6. CASE line \in [mnemonic : {"other"}]
  BY <1>6 DEF Opcode
<1> QED
  BY <1>1, <1>2, <1>3, <1>4, <1>5, <1>6 DEF Lines

-----------------------------------------------------------------------------
(* One step. *)

LEMMA InitIInv == Init => IInv
<1> SUFFICES ASSUME Init PROVE IInv
  OBVIOUS
<1>1. 0 \in Int8s
  <2>1. 0 \in Bytes /\ Int8(0) = 0
    BY ByteSizeAssumption, ModOfByte DEF Bytes, Half, Int8, Uint8
  <2> QED
    BY <2>1 DEF Int8s
<1>2. TypeOK
  <2>1. 0 \in Bytes
    BY ByteSizeAssumption DEF Bytes
  <2>2. [a \in Bytes |-> 0] \in [Bytes -> Bytes] /\ [n \in Registers |-> 0] \in [Registers -> Int8s]
    BY <1>1, <2>1
  <2> QED
    BY <2>2, FirstLineAssumption DEF Init, TypeOK
<1>3. Cardinality(touched) = 0
  BY FS_EmptySet DEF Init
<1> QED
  BY <1>2, <1>3, FirstLineAssumption
     DEF Init, IInv, PlaceInv, HitsInv, CyclesAddUp, UntouchedCellsAreZero

LEMMA TouchedFinite ==
    ASSUME IInv
    PROVE  IsFiniteSet(touched) /\ Cardinality(touched) \in Nat
<1>1. touched \in SUBSET Bytes /\ IsFiniteSet(Bytes)
  BY FS_Interval, ByteSizeAssumption DEF IInv, TypeOK, Bytes
<1> QED
  BY <1>1, FS_Subset, FS_CardinalityType

\* An instruction that works on registers changes no memory and takes a cycle.
LEMMA RegisterStep ==
    ASSUME IInv, OneCycle, UNCHANGED <<memory, touched, program>>,
           executedInstruction' = executedInstruction + 1,
           i' \in Nat, i' >= FirstLine, reg' \in [Registers -> Int8s], equal' \in BOOLEAN
    PROVE  IInv'
<1>1. TypeOK'
  BY DEF IInv, TypeOK, OneCycle
<1>2. Cardinality(touched) \in Nat
  BY TouchedFinite
<1>3. HitsInv' /\ UntouchedCellsAreZero'
  BY DEF IInv, HitsInv, UntouchedCellsAreZero, OneCycle
<1>4. CyclesAddUp'
  BY <1>2 DEF IInv, TypeOK, CyclesAddUp, OneCycle
<1> QED
  BY <1>1, <1>3, <1>4 DEF IInv, PlaceInv

\* An access to memory is counted once, by whether it is the first there.
LEMMA AccessStep ==
    ASSUME IInv, NEW addr \in Bytes, Access(addr), UNCHANGED <<program, equal>>,
           executedInstruction' = executedInstruction + 1, i' = i + 1,
           reg' \in [Registers -> Int8s], memory' \in [Bytes -> Bytes],
           \A a \in Bytes : a # addr => memory'[a] = memory[a]
    PROVE  IInv'
<1>1. TypeOK'
  BY DEF IInv, TypeOK, Access
<1>2. /\ Cardinality(touched) \in Nat
      /\ Cardinality(touched') = IF addr \in touched THEN Cardinality(touched) ELSE Cardinality(touched) + 1
  BY TouchedFinite, FS_AddElement DEF Access
<1>3. HitsInv'
  BY <1>2 DEF IInv, TypeOK, HitsInv, Access
<1>4. CyclesAddUp'
  <2>1. CASE addr \in touched
    BY <1>2, <2>1 DEF IInv, TypeOK, CyclesAddUp, Access
  <2>2. CASE addr \notin touched
    BY <1>2, <2>2 DEF IInv, TypeOK, CyclesAddUp, Access
  <2> QED
    BY <2>1, <2>2
<1>5. UntouchedCellsAreZero'
  BY DEF IInv, UntouchedCellsAreZero, Access
<1>6. PlaceInv'
  BY FirstLineAssumption DEF IInv, PlaceInv, TypeOK
<1> QED
  BY <1>1, <1>3, <1>4, <1>5, <1>6 DEF IInv

LEMMA StepIInv == IInv /\ [Next]_vars => IInv'
<1> SUFFICES ASSUME IInv, [Next]_vars PROVE IInv'
  OBVIOUS
<1> USE ByteSizeAssumption, FirstLineAssumption
<1>1. ASSUME NEW opcode \in 0..8, Running(opcode)
      PROVE  /\ Inst \in Lines /\ Opcode(Inst) = opcode
             /\ executedInstruction' = executedInstruction + 1
             /\ UNCHANGED program
             /\ i + 1 \in Nat /\ i + 1 >= FirstLine
  BY <1>1, InstIsLine DEF IInv, PlaceInv, TypeOK, Running
<1>2. ASSUME NEW a \in Registers, NEW b \in Registers
      PROVE  reg[a] \in Int /\ reg[a] + reg[b] \in Int
  <2>1. reg[a] \in Int8s /\ reg[b] \in Int8s
    BY DEF IInv, TypeOK
  <2>2. reg[a] \in Int /\ reg[b] \in Int
    BY <2>1, Int8sAreInts
  <2> QED
    BY <2>2
<1>3. ASSUME NEW a \in Registers, NEW n \in Int
      PROVE  [reg EXCEPT ![a] = Int8(n)] \in [Registers -> Int8s]
  BY Int8Type DEF IInv, TypeOK
<1>4. CASE Mov
  <2>1. Inst.arg1 \in Registers /\ Inst.arg2 \in Int
    BY <1>1, <1>4, Operands DEF Mov
  <2> QED
    BY <1>1, <1>3, <1>4, <2>1, RegisterStep DEF Mov, IInv, TypeOK
<1>5. CASE AddRegister
  <2>1. Inst.arg1 \in Registers /\ Inst.arg2 \in Registers
    BY <1>1, <1>5, Operands DEF AddRegister
  <2>2. reg' \in [Registers -> Int8s]
    BY <1>2, <1>3, <1>5, <2>1 DEF AddRegister
  <2> QED
    BY <1>1, <1>5, <2>2, RegisterStep DEF AddRegister, IInv, TypeOK
<1>6. CASE AddNumber
  <2>1. Inst.arg1 \in Registers /\ Inst.arg2 \in Int
    BY <1>1, <1>6, Operands DEF AddNumber
  <2>2. reg[Inst.arg1] + Inst.arg2 \in Int
    BY <1>2, <2>1
  <2>3. reg' \in [Registers -> Int8s]
    BY <1>3, <1>6, <2>1, <2>2 DEF AddNumber
  <2> QED
    BY <1>1, <1>6, <2>3, RegisterStep DEF AddNumber, IInv, TypeOK
<1>7. CASE Cmp
  BY <1>1, <1>7, RegisterStep DEF Cmp, IInv, TypeOK
<1>8. CASE Je
  <2>1. Inst.arg1 \in Nat /\ Inst.arg1 >= FirstLine
    BY <1>1, <1>8, Operands DEF Je
  <2> QED
    BY <1>1, <1>8, <2>1, RegisterStep DEF Je, IInv, TypeOK, machine
<1>9. CASE Jmp
  <2>1. Inst.arg1 \in Nat /\ Inst.arg1 >= FirstLine
    BY <1>1, <1>9, Operands DEF Jmp
  <2> QED
    BY <1>1, <1>9, <2>1, RegisterStep DEF Jmp, IInv, TypeOK, machine
<1>10. CASE Ld
  <2>1. Inst.arg1 \in Registers /\ Inst.arg2 \in Registers
    BY <1>1, <1>10, Operands DEF Ld
  <2>2. Uint8(reg[Inst.arg2]) \in Bytes
    BY <1>2, <2>1, ModRange DEF Uint8
  <2>3. memory[Uint8(reg[Inst.arg2])] \in Int
    BY <2>2 DEF IInv, TypeOK, Bytes
  <2>4. reg' \in [Registers -> Int8s]
    BY <1>3, <1>10, <2>1, <2>3 DEF Ld
  <2> QED
    BY <1>1, <1>10, <2>2, <2>4, AccessStep DEF Ld, IInv, TypeOK
<1>11. CASE St
  <2> DEFINE addr == Uint8(reg[Inst.arg1])
  <2>1. Inst.arg1 \in Registers /\ Inst.arg2 \in Registers
    BY <1>1, <1>11, Operands DEF St
  <2>2. addr \in Bytes /\ Uint8(reg[Inst.arg2]) \in Bytes
    BY <1>2, <2>1, ModRange DEF Uint8
  <2>3. /\ Access(addr) /\ UNCHANGED <<program, equal, reg>> /\ i' = i + 1
        /\ memory' = [memory EXCEPT ![addr] = Uint8(reg[Inst.arg2])]
        /\ executedInstruction' = executedInstruction + 1
    BY <1>1, <1>11 DEF St
  <2> HIDE DEF addr
  <2> QED
    BY <2>2, <2>3, AccessStep DEF IInv, TypeOK
<1>12. CASE Unknown
  <2>1. TypeOK' /\ PlaceInv'
    BY <1>1, <1>12 DEF Unknown, IInv, TypeOK, PlaceInv, machine
  <2>2. Cardinality(touched) \in Nat
    BY TouchedFinite
  <2>3. HitsInv' /\ UntouchedCellsAreZero'
    BY <1>12 DEF Unknown, IInv, HitsInv, UntouchedCellsAreZero, machine
  <2>4. CyclesAddUp'
    BY <1>1, <1>12, <2>2 DEF Unknown, IInv, TypeOK, CyclesAddUp, machine
  <2> QED
    BY <2>1, <2>3, <2>4 DEF IInv
<1>13. CASE UNCHANGED vars
  BY <1>13 DEF vars, machine, counters, IInv, PlaceInv, TypeOK, HitsInv, CyclesAddUp, UntouchedCellsAreZero
<1> QED
  BY <1>4, <1>5, <1>6, <1>7, <1>8, <1>9, <1>10, <1>11, <1>12, <1>13 DEF Next

(***************************************************************************)
(* The invariant that the theorems below rest on.                          *)
(***************************************************************************)
THEOREM Invariance == Spec => []IInv
BY InitIInv, StepIInv, PTL DEF Spec

(***************************************************************************)
(* Registers stay signed bytes and cells unsigned ones, whatever the       *)
(* program computes.                                                       *)
(***************************************************************************)
THEOREM TypeCorrect == Spec => []TypeOK
<1>1. IInv => TypeOK
  BY DEF IInv
<1> QED
  BY <1>1, Invariance, PTL

(***************************************************************************)
(* The cycles printed at the end are those of the instructions run.        *)
(***************************************************************************)
THEOREM CyclesCounted == Spec => []CyclesAddUp
<1>1. IInv => CyclesAddUp
  BY DEF IInv
<1> QED
  BY <1>1, Invariance, PTL

(***************************************************************************)
(* A cell that no access has been counted for holds what it held at first. *)
(***************************************************************************)
THEOREM UntouchedAreZero == Spec => []UntouchedCellsAreZero
<1>1. IInv => UntouchedCellsAreZero
  BY DEF IInv
<1> QED
  BY <1>1, Invariance, PTL

-----------------------------------------------------------------------------
(* Numbers modulo the number of bytes. *)

LEMMA Quotient ==
    ASSUME NEW n \in Int
    PROVE  /\ n \div ByteSize \in Int /\ n % ByteSize \in Bytes
           /\ n = ByteSize * (n \div ByteSize) + (n % ByteSize)
BY ByteSizeAssumption DEF Bytes

LEMMA PositiveMultiple ==
    ASSUME NEW q \in Int, q >= 1
    PROVE  ByteSize * q >= ByteSize
BY ByteSizeAssumption, Z3

\* Multiples that differ by less than ByteSize are the same.
LEMMA RemainderUnique ==
    ASSUME NEW q1 \in Int, NEW r1 \in Bytes, NEW q2 \in Int, NEW r2 \in Bytes,
           ByteSize * q1 + r1 = ByteSize * q2 + r2
    PROVE  r1 = r2
<1> USE ByteSizeAssumption DEF Bytes
<1>1. ByteSize * (q1 - q2) = r2 - r1 /\ ByteSize * (q2 - q1) = r1 - r2
  OBVIOUS
<1>2. CASE q1 > q2
  BY <1>1, <1>2, PositiveMultiple
<1>3. CASE q1 < q2
  BY <1>1, <1>3, PositiveMultiple
<1> QED
  BY <1>1, <1>2, <1>3

LEMMA AddMultiple ==
    ASSUME NEW n \in Int, NEW k \in Int
    PROVE  (n + ByteSize * k) % ByteSize = n % ByteSize
<1> DEFINE m == n + ByteSize * k
<1>1. m \in Int
  BY ByteSizeAssumption
<1>2. /\ m \div ByteSize \in Int /\ m % ByteSize \in Bytes
      /\ m = ByteSize * (m \div ByteSize) + (m % ByteSize)
  BY <1>1, Quotient
<1>3. /\ n \div ByteSize \in Int /\ n % ByteSize \in Bytes
      /\ n = ByteSize * (n \div ByteSize) + (n % ByteSize)
  BY Quotient
<1>4. m = ByteSize * ((n \div ByteSize) + k) + (n % ByteSize)
  BY <1>3, ByteSizeAssumption DEF Bytes
<1> HIDE DEF m
<1>5. m % ByteSize = n % ByteSize
  BY <1>2, <1>3, <1>4, RemainderUnique
<1> QED
  BY <1>5 DEF m

\* A number that goes through a signed byte is the same unsigned byte.
LEMMA ThroughInt8 ==
    ASSUME NEW n \in Int
    PROVE  Uint8(Int8(n)) = Uint8(n)
<1>1. n % ByteSize \in Bytes /\ n % ByteSize \in Int
  BY ModRange DEF Bytes
<1>2. (n % ByteSize) % ByteSize = n % ByteSize
  BY <1>1, ModOfByte
<1>3. ((n % ByteSize) - ByteSize) % ByteSize = n % ByteSize
  <2>1. (n % ByteSize) - ByteSize = (n % ByteSize) + ByteSize * (-1)
    BY <1>1, ByteSizeAssumption
  <2>2. ((n % ByteSize) + ByteSize * (-1)) % ByteSize = (n % ByteSize) % ByteSize
    BY <1>1, AddMultiple
  <2> QED
    BY <1>2, <2>1, <2>2
<1> QED
  BY <1>2, <1>3 DEF Int8, Uint8

\* Addition may convert its operands before or after.
LEMMA SumOfBytes ==
    ASSUME NEW a \in Int, NEW b \in Int
    PROVE  Uint8(Uint8(a) + b) = Uint8(a + b)
<1>1. /\ a \div ByteSize \in Int /\ a % ByteSize \in Int
      /\ a = ByteSize * (a \div ByteSize) + (a % ByteSize)
  BY Quotient DEF Bytes
<1>2. a + b = ((a % ByteSize) + b) + ByteSize * (a \div ByteSize)
  BY <1>1, ByteSizeAssumption
<1>3. (((a % ByteSize) + b) + ByteSize * (a \div ByteSize)) % ByteSize = ((a % ByteSize) + b) % ByteSize
  BY <1>1, AddMultiple
<1> QED
  BY <1>2, <1>3 DEF Uint8

\* Signed bytes are equal when their unsigned readings are.
LEMMA SameByte ==
    ASSUME NEW x \in Int8s, NEW y \in Int8s, Uint8(x) = Uint8(y)
    PROVE  x = y
<1>1. ASSUME NEW z \in Int8s
      PROVE  z = Int8(Uint8(z))
  <2>1. PICK b \in Bytes : z = Int8(b)
    BY DEF Int8s
  <2>2. b \in Int
    BY ByteSizeAssumption DEF Bytes
  <2>3. Uint8(z) = b
    BY <2>1, <2>2, ThroughInt8, ModOfByte DEF Uint8
  <2> QED
    BY <2>1, <2>3
<1> QED
  BY <1>1

-----------------------------------------------------------------------------
(* The simulator implements the byte machine. *)

\* The registers as the byte machine sees them.
View == [n \in Registers |-> Uint8(reg[n])]

LEMMA Viewed ==
    ASSUME IInv, NEW a \in Registers
    PROVE  View[a] = Uint8(reg[a]) /\ reg[a] \in Int8s /\ reg[a] \in Int
BY Int8sAreInts DEF View, IInv, TypeOK

LEMMA ViewAssign ==
    ASSUME IInv, NEW a \in Registers, NEW n \in Int, reg' = [reg EXCEPT ![a] = Int8(n)]
    PROVE  View' = [View EXCEPT ![a] = Uint8(n)]
<1>1. \A b \in Registers : Uint8(reg'[b]) = IF b = a THEN Uint8(n) ELSE Uint8(reg[b])
  BY ThroughInt8 DEF IInv, TypeOK
<1> QED
  BY <1>1 DEF View

\* What a line is called, by its opcode.
LEMMA Mnemonics ==
    ASSUME NEW line \in Lines
    PROVE  /\ Opcode(line) = 0 => line.mnemonic = "MOV"
           /\ Opcode(line) = 1 => line.mnemonic = "ADD" /\ line.kind = "register"
           /\ Opcode(line) = 2 => line.mnemonic = "ADD" /\ line.kind = "number"
           /\ Opcode(line) = 3 => line.mnemonic = "CMP"
           /\ Opcode(line) = 4 => line.mnemonic = "JE"
           /\ Opcode(line) = 5 => line.mnemonic = "JMP"
           /\ Opcode(line) = 6 => line.mnemonic = "LD"
           /\ Opcode(line) = 7 => line.mnemonic = "ST"
           /\ Opcode(line) = 8 => line.mnemonic = "other"
<1>1. CASE line \in [mnemonic : {"MOV"}, arg1 : Registers, arg2 : Int]
  BY <1>1 DEF Opcode
<1>2. CASE line \in [mnemonic : {"ADD"}, arg1 : Registers, arg2 : Registers, kind : {"register"}]
  BY <1>2 DEF Opcode
<1>3. CASE line \in [mnemonic : {"ADD"}, arg1 : Registers, arg2 : Int, kind : {"number"}]
  BY <1>3 DEF Opcode
<1>4. CASE line \in [mnemonic : {"CMP", "LD", "ST"}, arg1 : Registers, arg2 : Registers]
  BY <1>4 DEF Opcode
<1>5. CASE line \in [mnemonic : {"JE", "JMP"}, arg1 : {a \in Nat : a >= FirstLine}]
  BY <1>5 DEF Opcode
<1>6. CASE line \in [mnemonic : {"other"}]
  BY <1>6 DEF Opcode
<1> QED
  BY <1>1, <1>2, <1>3, <1>4, <1>5, <1>6 DEF Lines

LEMMA InitMachine == Init => Machine!MachineInit
<1> SUFFICES ASSUME Init PROVE Machine!MachineInit
  OBVIOUS
<1>1. Uint8(0) = 0
  BY ByteSizeAssumption, ModOfByte DEF Uint8, Bytes
<1> QED
  BY <1>1 DEF Init, Machine!MachineInit, Registers, Bytes

LEMMA StepMachine == IInv /\ [Next]_vars => [Machine!MachineNext]_(Machine!machineVars)
<1> SUFFICES ASSUME IInv, [Next]_vars
             PROVE  [Machine!MachineNext]_(Machine!machineVars)
  OBVIOUS
<1>1. ASSUME NEW opcode \in 0..8, Running(opcode)
      PROVE  /\ Inst \in Lines /\ Opcode(Inst) = opcode /\ Machine!Line = Inst
             /\ i - FirstLine < Len(program)
             /\ UNCHANGED program
  <2>1. Len(program) \in Nat
    BY ProgramsAssumption DEF IInv, TypeOK
  <2> QED
    BY <1>1, <2>1, FirstLineAssumption, InstIsLine
       DEF IInv, PlaceInv, TypeOK, Running, Machine!Line, Inst
<1>2. UNCHANGED reg => UNCHANGED View
  BY DEF View
<1>3. CASE Mov
  <2>1. /\ Inst.arg1 \in Registers /\ Inst.arg2 \in Int
        /\ Inst.mnemonic = "MOV"
    BY <1>1, <1>3, Operands, Mnemonics DEF Mov
  <2>2. View' = [View EXCEPT ![Inst.arg1] = Inst.arg2 % ByteSize]
    BY <1>3, <2>1, ViewAssign DEF Mov, Uint8
  <2>3. Machine!Is("MOV") /\ Machine!Assign(Inst.arg2)
    BY <1>1, <1>3, <2>1, <2>2 DEF Mov, Machine!Is, Machine!Assign, View
  <2>4. Machine!Calculate
    BY <1>1, <1>3, <2>3 DEF Mov, Machine!Calculate
  <2> QED
    BY <2>4 DEF Machine!MachineNext
<1>4. CASE AddRegister
  <2>1. /\ Inst.arg1 \in Registers /\ Inst.arg2 \in Registers
        /\ Inst.mnemonic = "ADD" /\ Inst.kind = "register"
    BY <1>1, <1>4, Operands, Mnemonics DEF AddRegister
  <2>2. View' = [View EXCEPT ![Inst.arg1] = Uint8(reg[Inst.arg1] + reg[Inst.arg2])]
    <3>1. reg[Inst.arg1] + reg[Inst.arg2] \in Int
      BY <2>1, Viewed
    <3> QED
      BY <1>4, <2>1, <3>1, ViewAssign DEF AddRegister
  <2>3. Uint8(reg[Inst.arg1] + reg[Inst.arg2]) = (View[Inst.arg1] + View[Inst.arg2]) % ByteSize
    <3> DEFINE a == reg[Inst.arg1]
               b == reg[Inst.arg2]
    <3>1. a \in Int /\ b \in Int /\ View[Inst.arg1] = Uint8(a) /\ View[Inst.arg2] = Uint8(b)
      BY <2>1, Viewed
    <3>2. Uint8(a) \in Int
      BY <3>1, ModRange DEF Uint8, Bytes
    <3> HIDE DEF a, b
    <3>3. Uint8(a + b) = Uint8(Uint8(a) + b)
      BY <3>1, SumOfBytes
    <3>4. Uint8(Uint8(b) + Uint8(a)) = Uint8(b + Uint8(a))
      BY <3>1, <3>2, SumOfBytes
    <3>5. Uint8(b) \in Int /\ Uint8(b) + Uint8(a) = Uint8(a) + Uint8(b) /\ b + Uint8(a) = Uint8(a) + b
      BY <3>1, <3>2, ModRange DEF Uint8, Bytes
    <3>6. Uint8(a + b) = Uint8(Uint8(a) + Uint8(b))
      BY <3>3, <3>4, <3>5
    <3> QED
      BY <3>1, <3>6 DEF Uint8, a, b
  <2>4. Machine!Is("ADD") /\ Machine!Assign(View[Inst.arg1] + View[Inst.arg2])
    <3>1. View' = [View EXCEPT ![Inst.arg1] = (View[Inst.arg1] + View[Inst.arg2]) % ByteSize]
      BY <2>2, <2>3
    <3> QED
      BY <1>1, <1>4, <2>1, <3>1 DEF AddRegister, Machine!Is, Machine!Assign, View
  <2>5. Machine!Calculate
    BY <1>1, <1>4, <2>1, <2>4 DEF AddRegister, Machine!Calculate, View
  <2> QED
    BY <2>5 DEF Machine!MachineNext
<1>5. CASE AddNumber
  <2>1. /\ Inst.arg1 \in Registers /\ Inst.arg2 \in Int
        /\ Inst.mnemonic = "ADD" /\ Inst.kind = "number"
    BY <1>1, <1>5, Operands, Mnemonics DEF AddNumber
  <2>2. reg[Inst.arg1] \in Int /\ reg[Inst.arg1] + Inst.arg2 \in Int
    BY <2>1, Viewed
  <2>3. View' = [View EXCEPT ![Inst.arg1] = Uint8(reg[Inst.arg1] + Inst.arg2)]
    BY <1>5, <2>1, <2>2, ViewAssign DEF AddNumber
  <2>4. Uint8(reg[Inst.arg1] + Inst.arg2) = (View[Inst.arg1] + Inst.arg2) % ByteSize
    BY <2>1, <2>2, Viewed, SumOfBytes DEF Uint8
  <2>5. Machine!Is("ADD") /\ Machine!Assign(View[Inst.arg1] + Inst.arg2)
    <3>1. View' = [View EXCEPT ![Inst.arg1] = (View[Inst.arg1] + Inst.arg2) % ByteSize]
      BY <2>3, <2>4
    <3> QED
      BY <1>1, <1>5, <2>1, <3>1 DEF AddNumber, Machine!Is, Machine!Assign, View
  <2>6. Machine!Calculate
    BY <1>1, <1>5, <2>1, <2>5 DEF AddNumber, Machine!Calculate, View
  <2> QED
    BY <2>6 DEF Machine!MachineNext
<1>6. CASE Cmp
  <2>1. /\ Inst.arg1 \in Registers /\ Inst.arg2 \in Registers
        /\ Inst.mnemonic = "CMP"
    BY <1>1, <1>6, Operands, Mnemonics DEF Cmp
  <2>2. (reg[Inst.arg1] = reg[Inst.arg2]) = (View[Inst.arg1] = View[Inst.arg2])
    BY <2>1, Viewed, SameByte
  <2>3. Machine!Compare
    BY <1>1, <1>2, <1>6, <2>1, <2>2 DEF Cmp, Machine!Compare, Machine!Is, View
  <2> QED
    BY <2>3 DEF Machine!MachineNext
<1>7. CASE Je
  <2>1. Inst.mnemonic = "JE"
    BY <1>1, <1>7, Mnemonics DEF Je
  <2>2. Machine!Jump
    BY <1>1, <1>2, <1>7, <2>1 DEF Je, Machine!Jump, Machine!Is, View, machine
  <2> QED
    BY <2>2 DEF Machine!MachineNext
<1>8. CASE Jmp
  <2>1. Inst.mnemonic = "JMP"
    BY <1>1, <1>8, Mnemonics DEF Jmp
  <2>2. Machine!Jump
    BY <1>1, <1>2, <1>8, <2>1 DEF Jmp, Machine!Jump, Machine!Is, View, machine
  <2> QED
    BY <2>2 DEF Machine!MachineNext
<1>9. CASE Ld
  <2>1. /\ Inst.arg1 \in Registers /\ Inst.arg2 \in Registers
        /\ Inst.mnemonic = "LD"
    BY <1>1, <1>9, Operands, Mnemonics DEF Ld
  <2>2. View[Inst.arg2] = Uint8(reg[Inst.arg2]) /\ Uint8(reg[Inst.arg2]) \in Bytes
    BY <2>1, Viewed, ModRange DEF Uint8
  <2>3. memory[View[Inst.arg2]] \in Int
    BY <2>2 DEF IInv, TypeOK, Bytes
  <2>4. View' = [View EXCEPT ![Inst.arg1] = memory[View[Inst.arg2]] % ByteSize]
    <3>1. reg' = [reg EXCEPT ![Inst.arg1] = Int8(memory[View[Inst.arg2]])]
      BY <1>9, <2>2 DEF Ld
    <3> QED
      BY <2>1, <2>3, <3>1, ViewAssign DEF Uint8
  <2>5. Machine!Is("LD") /\ Machine!Assign(memory[View[Inst.arg2]])
    BY <1>1, <1>9, <2>1, <2>4 DEF Ld, Machine!Is, Machine!Assign, View
  <2>6. Machine!Calculate
    BY <1>1, <1>9, <2>5 DEF Ld, Machine!Calculate, View
  <2> QED
    BY <2>6 DEF Machine!MachineNext
<1>10. CASE St
  <2>1. /\ Inst.arg1 \in Registers /\ Inst.arg2 \in Registers
        /\ Inst.mnemonic = "ST"
    BY <1>1, <1>10, Operands, Mnemonics DEF St
  <2>2. View[Inst.arg1] = Uint8(reg[Inst.arg1]) /\ View[Inst.arg2] = Uint8(reg[Inst.arg2])
    BY <2>1, Viewed
  <2>3. memory' = [memory EXCEPT ![View[Inst.arg1]] = View[Inst.arg2]]
    BY <1>10, <2>2 DEF St
  <2>4. Machine!Is("ST") /\ Machine!Line = Inst /\ i' = i + 1 /\ UNCHANGED <<View, equal>>
    BY <1>1, <1>2, <1>10, <2>1 DEF St, Machine!Is
  <2>5. Machine!Store
    <3>1. memory' = [memory EXCEPT ![View[Machine!Line.arg1]] = View[Machine!Line.arg2]]
      BY <2>3, <2>4
    <3> QED
      BY <2>4, <3>1, Zenon DEF Machine!Store, View
  <2> QED
    BY <2>5 DEF Machine!MachineNext
<1>11. CASE Unknown
  <2>1. Inst.mnemonic = "other"
    BY <1>1, <1>11, Mnemonics DEF Unknown
  <2>2. Machine!Skip
    BY <1>1, <1>2, <1>11, <2>1 DEF Unknown, Machine!Skip, Machine!Is, View, machine
  <2> QED
    BY <2>2 DEF Machine!MachineNext
<1>12. CASE UNCHANGED vars
  BY <1>2, <1>12 DEF vars, machine, View, Machine!machineVars
<1> QED
  BY <1>3, <1>4, <1>5, <1>6, <1>7, <1>8, <1>9, <1>10, <1>11, <1>12 DEF Next

(***************************************************************************)
(* The simulator with its signed registers and unsigned cells implements   *)
(* the machine of its instruction set, for bytes of every size.            *)
(***************************************************************************)
THEOREM ByteMachineImplemented == Spec => IsByteMachine
BY InitMachine, StepMachine, Invariance, PTL DEF Spec, IsByteMachine, Machine!Spec
=============================================================================

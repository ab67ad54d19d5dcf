-------------------------------- MODULE Bits --------------------------------
(***************************************************************************)
(* The conversions of HW1/src/bits.c as operators, for words of Width      *)
(* bits.  A binary string is a function from its index, 0 for the bit of   *)
(* the highest value; a decimal one is a sequence of digits.               *)
(***************************************************************************)
EXTENDS Integers, Sequences, FiniteSets

CONSTANT Width      \* 32 in the code

ASSUME WidthAssumption == Width \in Nat /\ Width > 2

\* 1U << k
PowerOf2[k \in 0..Width] == IF k = 0 THEN 1 ELSE 2 * PowerOf2[k - 1]

\* The bit of value 2^k.
Bit(n, k) == (n \div PowerOf2[k]) % 2

Words   == 0..(PowerOf2[Width] - 1)
Indices == 0..(Width - 1)

Weight(k) == PowerOf2[Width - 1 - k]

\* The powers of two are taken off the number from the highest one down.
UIntToBinary(n) ==
    LET rest[k \in 0..Width] ==
          IF k = 0 THEN n
          ELSE IF rest[k - 1] >= Weight(k - 1) THEN rest[k - 1] - Weight(k - 1)
          ELSE rest[k - 1]
    IN [k \in Indices |-> IF rest[k] >= Weight(k) THEN 1 ELSE 0]

BinaryToUInt(binary) ==
    LET result[k \in 0..Width] ==
          IF k = 0 THEN 0
          ELSE result[k - 1] + (IF binary[k - 1] = 1 THEN Weight(k - 1) ELSE 0)
    IN result[Width]

\* Mutant: the flip is off by one place.
BinaryMirror_Shifted(input) ==
    LET binary == UIntToBinary(input)
    IN BinaryToUInt([k \in Indices |-> IF k = 0 THEN 0 ELSE binary[Width - k]])

BinaryMirror(input) ==
    LET binary == UIntToBinary(input)
    IN BinaryToUInt([k \in Indices |-> binary[Width - 1 - k]])

\* How often 0, 1, 0 follow each other; occurrences may overlap.
CountSequence(input) ==
    LET binary == UIntToBinary(input)
    IN Cardinality({k \in 0..(Width - 3) :
                      binary[k] = 0 /\ binary[k + 1] = 1 /\ binary[k + 2] = 0})

\* "%u"
UIntToAscii(n) ==
    LET digits[m \in Nat] == IF m < 10 THEN <<m>> ELSE Append(digits[m \div 10], m % 10)
    IN digits[n]

\* strcmp(s, t) < 0 for decimal strings, whose end counts as the lowest
\* character: the first place where they differ decides.
Char(s, k) == IF k <= Len(s) THEN s[k] ELSE -1

StrLess(s, t) ==
    \E k \in 1..11 :
      /\ \A j \in 1..(k - 1) : Char(s, j) = Char(t, j)
      /\ \E c \in -1..9, d \in -1..9 : c < d /\ Char(s, k) = c /\ Char(t, k) = d
=============================================================================

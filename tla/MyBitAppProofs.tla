--------------------------- MODULE MyBitAppProofs ---------------------------
(***************************************************************************)
(* Proofs about the conversions and the sorted list of HW1, for words of   *)
(* any width, files of any length and any numbers in them.                 *)
(***************************************************************************)
EXTENDS MyBitApp, FiniteSetTheorems, SequenceTheorems, WellFoundedInduction, TLAPS

-----------------------------------------------------------------------------
(***************************************************************************)
(* Recursion and induction over the natural numbers: the conversions are   *)
(* recursive functions, whose existence and values have to be proved.      *)
(***************************************************************************)

\* Every set of natural numbers has a least element.
LEMMA LeastElement ==
    ASSUME NEW T, T \subseteq Nat, T # {}
    PROVE  \E n \in T : \A m \in T : n <= m
<1> DEFINE R == OpToRel(<, Nat)
<1>1. IsWellFoundedOn(R, Nat)
  BY NatLessThanWellFounded
<1>2. \A m, n \in Nat : m < n => <<m, n>> \in R
  BY DEF OpToRel
<1> HIDE DEF R
<1>3. PICK n \in T : \A m \in T : <<m, n>> \notin R
  BY <1>1, WFMin
<1>4. ASSUME NEW m \in T PROVE n <= m
  <2>1. m \in Nat /\ n \in Nat
    OBVIOUS
  <2>2. ~(m < n)
    BY <1>2, <1>3, <2>1
  <2> QED
    BY <2>1, <2>2
<1> QED
  BY <1>4

\* The data of a recursive definition over natural numbers: where it starts,
\* which earlier value it goes back to, and what it makes of that one.
Recursion(D, S, Stop, start, before, step) ==
    /\ D \subseteq Nat
    /\ start \in [D -> S] /\ before \in [D -> Nat] /\ step \in [S \X D -> S]
    /\ \A n \in D : n \notin Stop => before[n] \in D /\ before[n] < n

\* There is a function that such a definition defines.
LEMMA RecursiveFunction ==
    ASSUME NEW D, NEW S, NEW Stop, NEW start, NEW before, NEW step,
           Recursion(D, S, Stop, start, before, step)
    PROVE  \E f \in [D -> S] : \A n \in D :
             f[n] = IF n \in Stop THEN start[n] ELSE step[<<f[before[n]], n>>]
<1> USE DEF Recursion
<1> DEFINE Below(n) == {m \in D : m < n}
           Value(f, n) == IF n \in Stop THEN start[n] ELSE step[<<f[before[n]], n>>]
           Parts(n) == {f \in [Below(n) -> S] : \A m \in Below(n) : f[m] = Value(f, m)}
<1>1. ASSUME NEW i \in Nat, NEW j \in Nat, NEW f \in Parts(i), NEW g \in Parts(j)
      PROVE  \A n \in Below(i) \cap Below(j) : f[n] = g[n]
  <2> DEFINE T == {n \in Below(i) \cap Below(j) : ~(f[n] = g[n])}
  <2> SUFFICES ASSUME T # {} PROVE FALSE
    OBVIOUS
  <2>1. PICK n \in T : \A m \in T : n <= m
    BY LeastElement
  <2>2. n \in D /\ n < i /\ n < j /\ n \in Nat /\ ~(f[n] = g[n])
    OBVIOUS
  <2>3. CASE n \in Stop
    BY <2>2, <2>3
  <2>4. CASE n \notin Stop
    <3>1. before[n] \in D /\ before[n] < n /\ before[n] \in Nat
      BY <2>2, <2>4
    <3>2. before[n] \notin T
      BY <2>1, <2>2, <3>1
    <3>3. before[n] \in Below(i) \cap Below(j)
      BY <2>2, <3>1
    <3>4. f[before[n]] = g[before[n]]
      BY <3>2, <3>3
    <3>5. f[n] = Value(f, n) /\ g[n] = Value(g, n)
      OBVIOUS
    <3> QED
      BY <2>2, <2>4, <3>4, <3>5
  <2> QED
    BY <2>3, <2>4
<1>2. ASSUME NEW f, NEW n \in D, n \notin Stop => f[before[n]] \in S
      PROVE  Value(f, n) \in S
  BY <1>2
<1>3. \A n \in Nat : Parts(n) # {}
  <2> DEFINE T == {n \in Nat : Parts(n) = {}}
  <2> SUFFICES ASSUME T # {} PROVE FALSE
    OBVIOUS
  <2>1. PICK n \in T : \A m \in T : n <= m
    <3>1. T \subseteq Nat
      OBVIOUS
    <3> HIDE DEF T
    <3> QED
      BY <3>1, LeastElement
  <2>2. n \in Nat /\ Parts(n) = {}
    OBVIOUS
  <2>3. CASE n = 0
    <3>1. Below(0) = {}
      <4>1. \A m \in D : m \in Nat /\ ~(m < 0)
        OBVIOUS
      <4> QED
        BY <4>1
    <3>2. [m \in {} |-> m] \in Parts(0)
      BY <3>1
    <3> QED
      BY <2>2, <2>3, <3>2
  <2>4. CASE n > 0
    <3>1. n - 1 \in Nat /\ n - 1 \notin T
      BY <2>1, <2>2, <2>4
    <3>2. PICK f : f \in Parts(n - 1)
      BY <3>1
    <3> DEFINE g == [m \in Below(n) |-> IF m < n - 1 THEN f[m] ELSE Value(f, m)]
    <3>3. f \in [Below(n - 1) -> S] /\ \A m \in Below(n - 1) : f[m] = Value(f, m)
      BY <3>2
    <3>4. \A m \in Below(n) : m \notin Stop => before[m] \in Below(n - 1)
      BY <2>2
    <3>5. \A m \in Below(n) : m < n - 1 => m \in Below(n - 1)
      OBVIOUS
    <3> HIDE DEF Parts
    <3>6. ASSUME NEW m \in Below(n) PROVE g[m] = Value(f, m)
      <4>1. CASE m < n - 1
        BY <3>3, <3>5, <4>1
      <4>2. CASE ~(m < n - 1)
        BY <4>2
      <4> QED
        BY <4>1, <4>2
    <3>7. ASSUME NEW m \in Below(n - 1) PROVE g[m] = f[m]
      BY <2>2
    <3>8. ASSUME NEW m \in Below(n) PROVE Value(f, m) \in S
      BY <1>2, <3>3, <3>4
    <3>9. ASSUME NEW m \in Below(n) PROVE Value(g, m) = Value(f, m)
      BY <3>4, <3>7
    <3>10. g \in [Below(n) -> S]
      BY <3>6, <3>8
    <3>11. g \in Parts(n)
      BY <3>6, <3>9, <3>10 DEF Parts
    <3> QED
      BY <2>2, <3>11
  <2> QED
    BY <2>2, <2>3, <2>4
<1> DEFINE part(n) == CHOOSE f : f \in Parts(n + 1)
           f == [n \in D |-> part(n)[n]]
<1>4. ASSUME NEW n \in D
      PROVE  part(n) \in Parts(n + 1) /\ n \in Below(n + 1) /\ n \in Nat
  <2>1. n \in Nat /\ n + 1 \in Nat /\ n \in Below(n + 1)
    OBVIOUS
  <2> HIDE DEF Parts
  <2> QED
    BY <1>3, <2>1
<1>5. f \in [D -> S]
  <2>1. ASSUME NEW n \in D PROVE part(n)[n] \in S
    BY <1>4
  <2> QED
    BY <2>1
<1>6. ASSUME NEW n \in D PROVE f[n] = Value(f, n)
  <2>1. f[n] = Value(part(n), n)
    BY <1>4
  <2>2. CASE n \in Stop
    BY <2>1, <2>2
  <2>3. CASE n \notin Stop
    <3> DEFINE b == before[n]
    <3>1. b \in D /\ b < n /\ b \in Nat /\ b \in Below(b + 1) /\ b \in Below(n + 1)
      BY <1>4, <2>3
    <3>2. part(b)[b] = part(n)[b]
      <4>1. part(b) \in Parts(b + 1) /\ part(n) \in Parts(n + 1)
        BY <1>4, <3>1
      <4>2. b + 1 \in Nat /\ n + 1 \in Nat
        BY <3>1
      <4> HIDE DEF Parts, part, Below
      <4> QED
        BY <1>1, <3>1, <4>1, <4>2
    <3>3. f[b] = part(n)[b]
      BY <3>1, <3>2
    <3>4. part(n)[b] = f[b] /\ f[n] = step[<<part(n)[b], n>>]
      BY <2>1, <2>3, <3>3
    <3> HIDE DEF f, part
    <3> QED
      BY <2>3, <3>4
  <2> QED
    BY <2>2, <2>3
<1> QED
  BY <1>5, <1>6

\* Induction over the numbers up to N.
LEMMA Induction ==
    ASSUME NEW N \in Nat, NEW T, 0 \in T, \A k \in 1..N : k - 1 \in T => k \in T
    PROVE  \A k \in 0..N : k \in T
<1> DEFINE U == {k \in 0..N : k \notin T}
<1> SUFFICES ASSUME U # {} PROVE FALSE
  OBVIOUS
<1>1. PICK k \in U : \A m \in U : k <= m
  <2>1. U \subseteq Nat
    OBVIOUS
  <2> HIDE DEF U
  <2> QED
    BY <2>1, LeastElement
<1>2. k \in 1..N /\ k - 1 \in 0..N /\ ~(k <= k - 1) /\ k \notin T
  OBVIOUS
<1>3. k - 1 \in T
  BY <1>1, <1>2
<1> QED
  BY <1>2, <1>3

\* The same, one place after the other.
Stepwise(N, S, a, step) == N \in Nat /\ a \in S /\ step \in [S \X (0..N) -> S]

LEMMA StepByStep ==
    ASSUME NEW N, NEW S, NEW a, NEW step, Stepwise(N, S, a, step)
    PROVE  \E f \in [0..N -> S] : f[0] = a /\ \A k \in 1..N : f[k] = step[<<f[k - 1], k>>]
<1> USE DEF Stepwise
<1> DEFINE D == 0..N
           Stop == {0}
           before == [k \in D |-> IF k = 0 THEN 0 ELSE k - 1]
           start == [k \in D |-> a]
<1>1. /\ \A k \in D : start[k] = a /\ (k \in Stop <=> k = 0)
      /\ \A k \in 1..N : k \in D /\ k # 0 /\ before[k] = k - 1
      /\ 0 \in D
  OBVIOUS
<1>2. Recursion(D, S, Stop, start, before, step)
  BY DEF Recursion
<1> HIDE DEF start, before, Stop
<1>3. PICK f \in [D -> S] : \A k \in D :
        f[k] = IF k \in Stop THEN start[k] ELSE step[<<f[before[k]], k>>]
  <2> HIDE DEF D
  <2> QED
    BY <1>2, RecursiveFunction
<1>4. f[0] = a /\ \A k \in 1..N : f[k] = step[<<f[k - 1], k>>]
  BY <1>1, <1>3
<1> QED
  BY <1>3, <1>4

-----------------------------------------------------------------------------
(* What the recursive functions of bits.c compute. *)

LEMMA PowersOf2 ==
    /\ PowerOf2 \in [0..Width -> Nat \ {0}]
    /\ PowerOf2[0] = 1
    /\ \A k \in 1..Width : PowerOf2[k] = 2 * PowerOf2[k - 1]
<1> DEFINE Eq(f) == f = [k \in 0..Width |-> IF k = 0 THEN 1 ELSE 2 * f[k - 1]]
<1>0. Width \in Nat
  BY WidthAssumption
<1>1. \E f : Eq(f)
  <2> DEFINE step == [p \in Nat \X (0..Width) |-> 2 * p[1]]
  <2>1. step \in [Nat \X (0..Width) -> Nat]
    OBVIOUS
  <2>2. \A m \in Nat, k \in 0..Width : step[<<m, k>>] = 2 * m
    OBVIOUS
  <2> HIDE DEF step
  <2>3. PICK f \in [0..Width -> Nat] :
          f[0] = 1 /\ \A k \in 1..Width : f[k] = step[<<f[k - 1], k>>]
    <3>1. Stepwise(Width, Nat, 1, step)
      BY <1>0, <2>1 DEF Stepwise
    <3> QED
      BY <3>1, StepByStep
  <2>4. ASSUME NEW k \in 0..Width PROVE f[k] = IF k = 0 THEN 1 ELSE 2 * f[k - 1]
    <3>1. CASE k = 0
      BY <2>3, <3>1
    <3>2. CASE k # 0
      <4>1. k \in 1..Width /\ k \in 0..Width /\ k - 1 \in 0..Width /\ f[k - 1] \in Nat
        BY <1>0, <3>2
      <4> QED
        BY <2>2, <2>3, <3>2, <4>1
    <3> QED
      BY <3>1, <3>2
  <2> QED
    BY <2>4
<1>2. Eq(PowerOf2)
  <2>1. PowerOf2 = CHOOSE f : Eq(f)
    BY DEF PowerOf2
  <2> HIDE DEF Eq
  <2> QED
    BY <1>1, <2>1
<1>3. PowerOf2[0] = 1 /\ \A k \in 1..Width : PowerOf2[k] = 2 * PowerOf2[k - 1]
  BY <1>0, <1>2
<1>4. \A k \in 0..Width : PowerOf2[k] \in Nat \ {0}
  <2> DEFINE T == {k \in Nat : PowerOf2[k] \in Nat \ {0}}
  <2>1. 0 \in T
    BY <1>3
  <2>2. \A k \in 1..Width : k - 1 \in T => k \in T
    BY <1>3
  <2>3. \A k \in 0..Width : k \in T
    <3> HIDE DEF T
    <3> QED
      BY <1>0, <2>1, <2>2, Induction
  <2> QED
    BY <2>3
<1> QED
  BY <1>2, <1>3, <1>4

\* The weights of the bits.
LEMMA Weights ==
    /\ Width \in Nat /\ Width > 2
    /\ \A k \in Indices : k \in 0..Width /\ k + 1 \in 1..Width /\ Weight(k) \in Nat \ {0}
    /\ \A k \in 0..Width : PowerOf2[k] \in Nat \ {0}
    /\ \A k \in Indices : /\ Weight(k) = PowerOf2[Width - 1 - k]
                          /\ PowerOf2[Width - k] = 2 * Weight(k)
<1>1. Width \in Nat /\ Width > 2
  BY WidthAssumption
<1>2. ASSUME NEW k \in Indices
      PROVE  /\ k \in 0..Width /\ k + 1 \in 1..Width
             /\ Width - 1 - k \in 0..Width /\ Width - k \in 1..Width
             /\ (Width - k) - 1 = Width - 1 - k
  BY <1>1 DEF Indices
<1> QED
  BY <1>1, <1>2, PowersOf2 DEF Weight

\* What is left of the number once the highest powers are taken off it.
LEMMA UIntToBinaryIs ==
    ASSUME NEW n \in Words
    PROVE  \E rest \in [0..Width -> Int] :
             /\ rest[0] = n
             /\ \A k \in Indices : rest[k + 1] = IF rest[k] >= Weight(k) THEN rest[k] - Weight(k)
                                                 ELSE rest[k]
             /\ UIntToBinary(n) = [k \in Indices |-> IF rest[k] >= Weight(k) THEN 1 ELSE 0]
<1> DEFINE Eq(f) == f = [k \in 0..Width |->
                           IF k = 0 THEN n
                           ELSE IF f[k - 1] >= Weight(k - 1) THEN f[k - 1] - Weight(k - 1)
                           ELSE f[k - 1]]
<1>0. /\ Width \in Nat /\ n \in Int
      /\ \A k \in 1..Width : k - 1 \in Indices /\ k - 1 \in 0..Width /\ Weight(k - 1) \in Nat
  BY Weights DEF Words, Indices
<1>1. \E f \in [0..Width -> Int] : Eq(f)
  <2> DEFINE step == [p \in Int \X (0..Width) |->
                        IF p[2] \in 1..Width /\ p[1] >= Weight(p[2] - 1)
                         THEN p[1] - Weight(p[2] - 1)
                        ELSE p[1]]
  <2>1. step \in [Int \X (0..Width) -> Int]
    BY <1>0
  <2>2. \A m \in Int, k \in 0..Width :
          step[<<m, k>>] = IF k \in 1..Width /\ m >= Weight(k - 1) THEN m - Weight(k - 1) ELSE m
    OBVIOUS
  <2> HIDE DEF step
  <2>3. PICK f \in [0..Width -> Int] :
          f[0] = n /\ \A k \in 1..Width : f[k] = step[<<f[k - 1], k>>]
    <3>1. Stepwise(Width, Int, n, step)
      BY <1>0, <2>1 DEF Stepwise
    <3> QED
      BY <3>1, StepByStep
  <2>4. ASSUME NEW k \in 0..Width
        PROVE  f[k] = IF k = 0 THEN n
                      ELSE IF f[k - 1] >= Weight(k - 1) THEN f[k - 1] - Weight(k - 1)
                      ELSE f[k - 1]
    <3>1. CASE k = 0
      BY <2>3, <3>1
    <3>2. CASE k # 0
      <4>1. k \in 1..Width /\ k \in 0..Width /\ k - 1 \in 0..Width /\ f[k - 1] \in Int
        BY <1>0, <3>2
      <4> QED
        BY <2>2, <2>3, <3>2, <4>1
    <3> QED
      BY <3>1, <3>2
  <2> QED
    BY <2>4
<1> DEFINE rest == CHOOSE f : Eq(f)
<1>2. Eq(rest)
  <2> HIDE DEF Eq
  <2> QED
    BY <1>1
<1>3. UIntToBinary(n) = [k \in Indices |-> IF rest[k] >= Weight(k) THEN 1 ELSE 0]
  BY DEF UIntToBinary
<1> HIDE DEF rest
<1>4. rest[0] = n
  BY <1>0, <1>2
<1>5. ASSUME NEW k \in Indices
      PROVE  rest[k + 1] = IF rest[k] >= Weight(k) THEN rest[k] - Weight(k) ELSE rest[k]
  <2>1. k + 1 \in 0..Width /\ k + 1 # 0 /\ (k + 1) - 1 = k
    BY Weights DEF Indices
  <2> QED
    BY <1>2, <2>1
<1>6. rest \in [0..Width -> Int]
  <2> DEFINE T == {k \in Nat : rest[k] \in Int}
  <2>1. 0 \in T
    BY <1>0, <1>4
  <2>2. ASSUME NEW k \in 1..Width, k - 1 \in T PROVE k \in T
    <3>1. k - 1 \in Indices /\ (k - 1) + 1 = k /\ Weight(k - 1) \in Nat
      BY <1>0
    <3> QED
      BY <1>5, <2>2, <3>1
  <2>3. \A k \in 0..Width : k \in T
    <3> HIDE DEF T
    <3> QED
      BY <1>0, <2>1, <2>2, Induction
  <2>4. \A k \in 0..Width : rest[k] \in Int
    BY <2>3
  <2> QED
    BY <1>2, <2>4
<1> QED
  BY <1>3, <1>4, <1>5, <1>6

\* The weights of the ones, added up.
LEMMA BinaryToUIntIs ==
    ASSUME NEW binary \in [Indices -> {0, 1}]
    PROVE  \E result \in [0..Width -> Nat] :
             /\ result[0] = 0
             /\ \A k \in Indices : result[k + 1] = result[k] + binary[k] * Weight(k)
             /\ BinaryToUInt(binary) = result[Width]
<1> DEFINE Eq(f) == f = [k \in 0..Width |->
                           IF k = 0 THEN 0
                           ELSE f[k - 1] + (IF binary[k - 1] = 1 THEN Weight(k - 1) ELSE 0)]
           added == [k \in 0..Width |->
                       IF k \in 1..Width /\ binary[k - 1] = 1 THEN Weight(k - 1) ELSE 0]
<1>0. /\ Width \in Nat
      /\ \A k \in 1..Width : k - 1 \in Indices /\ k - 1 \in 0..Width /\ Weight(k - 1) \in Nat
  BY Weights DEF Indices
<1>1. \E f \in [0..Width -> Nat] : Eq(f)
  <2> DEFINE step == [p \in Nat \X (0..Width) |-> p[1] + added[p[2]]]
  <2>1. added \in [0..Width -> Nat]
    BY <1>0
  <2>2. /\ step \in [Nat \X (0..Width) -> Nat]
        /\ \A m \in Nat, k \in 0..Width : step[<<m, k>>] = m + added[k]
    <3> HIDE DEF added
    <3> QED
      BY <2>1
  <2> HIDE DEF step
  <2>3. PICK f \in [0..Width -> Nat] :
          f[0] = 0 /\ \A k \in 1..Width : f[k] = step[<<f[k - 1], k>>]
    <3>1. Stepwise(Width, Nat, 0, step)
      BY <1>0, <2>2 DEF Stepwise
    <3> QED
      BY <3>1, StepByStep
  <2>4. ASSUME NEW k \in 0..Width
        PROVE  f[k] = IF k = 0 THEN 0
                      ELSE f[k - 1] + (IF binary[k - 1] = 1 THEN Weight(k - 1) ELSE 0)
    <3>1. CASE k = 0
      BY <2>3, <3>1
    <3>2. CASE k # 0
      <4>1. k \in 1..Width /\ k \in 0..Width /\ k - 1 \in 0..Width /\ f[k - 1] \in Nat
        BY <1>0, <3>2
      <4> QED
        BY <2>2, <2>3, <3>2, <4>1
    <3> QED
      BY <3>1, <3>2
  <2> QED
    BY <2>4
<1> DEFINE result == CHOOSE f : Eq(f)
<1>2. Eq(result)
  <2> HIDE DEF Eq
  <2> QED
    BY <1>1
<1>3. BinaryToUInt(binary) = result[Width]
  BY DEF BinaryToUInt
<1> HIDE DEF result
<1>4. result[0] = 0
  BY <1>0, <1>2
<1>5. ASSUME NEW k \in Indices
      PROVE  /\ result[k + 1] = result[k] + (IF binary[k] = 1 THEN Weight(k) ELSE 0)
             /\ (IF binary[k] = 1 THEN Weight(k) ELSE 0) = binary[k] * Weight(k)
  <2>1. k + 1 \in 0..Width /\ k + 1 # 0 /\ (k + 1) - 1 = k
    BY Weights DEF Indices
  <2>2. Weight(k) \in Nat /\ binary[k] \in {0, 1}
    BY Weights
  <2>3. (IF binary[k] = 1 THEN Weight(k) ELSE 0) = binary[k] * Weight(k)
    BY <2>2
  <2> QED
    BY <1>2, <2>1, <2>3
<1>6. result \in [0..Width -> Nat]
  <2> DEFINE T == {k \in Nat : result[k] \in Nat}
  <2>1. 0 \in T
    BY <1>0, <1>4
  <2>2. ASSUME NEW k \in 1..Width, k - 1 \in T PROVE k \in T
    <3>1. k - 1 \in Indices /\ (k - 1) + 1 = k /\ Weight(k - 1) \in Nat
      BY <1>0
    <3> QED
      BY <1>5, <2>2, <3>1
  <2>3. \A k \in 0..Width : k \in T
    <3> HIDE DEF T
    <3> QED
      BY <1>0, <2>1, <2>2, Induction
  <2>4. \A k \in 0..Width : result[k] \in Nat
    BY <2>3
  <2> QED
    BY <1>2, <2>4
<1> QED
  BY <1>3, <1>4, <1>5, <1>6

-----------------------------------------------------------------------------
(* Bits. *)

LEMMA Division ==
    ASSUME NEW d \in Nat \ {0}, NEW q \in Nat, NEW r \in Nat, r < d
    PROVE  (q * d + r) \div d = q
OBVIOUS

LEMMA Halves ==
    ASSUME NEW n \in Nat, NEW d \in Nat \ {0}
    PROVE  n \div d \in Nat /\ n \div (2 * d) = (n \div d) \div 2
OBVIOUS

\* n has the bit b at the place of value d, with h above it and r below.
Places(n, d, h, b, r) ==
    /\ d \in Nat \ {0} /\ h \in Nat /\ b \in {0, 1} /\ r \in Nat /\ r < d
    /\ n = h * (2 * d) + b * d + r

LEMMA ABit ==
    ASSUME NEW n, NEW d, NEW h, NEW b, NEW r, Places(n, d, h, b, r)
    PROVE  (n \div d) % 2 = b
<1> USE DEF Places
<1>1. n = (2 * h + b) * d + r
  OBVIOUS
<1>2. n \div d = 2 * h + b
  BY <1>1, Division
<1> QED
  BY <1>2

\* Each digit is the bit of its weight.
LEMMA DigitsAreBits ==
    ASSUME NEW n \in Words
    PROVE  /\ UIntToBinary(n) \in [Indices -> {0, 1}]
           /\ \A k \in Indices : UIntToBinary(n)[k] = Bit(n, Width - 1 - k)
<1>1. PICK rest \in [0..Width -> Int] :
        /\ rest[0] = n
        /\ \A k \in Indices : rest[k + 1] = IF rest[k] >= Weight(k) THEN rest[k] - Weight(k)
                                            ELSE rest[k]
        /\ UIntToBinary(n) = [k \in Indices |-> IF rest[k] >= Weight(k) THEN 1 ELSE 0]
  BY UIntToBinaryIs
<1> DEFINE digit(k) == IF rest[k] >= Weight(k) THEN 1 ELSE 0
           Split(k) == /\ rest[k] \in Nat /\ rest[k] < PowerOf2[Width - k]
                       /\ \E h \in Nat : n = h * PowerOf2[Width - k] + rest[k]
<1>2. ASSUME NEW k \in Indices, Split(k)
      PROVE  Split(k + 1) /\ Bit(n, Width - 1 - k) = digit(k)
  <2> DEFINE d == Weight(k)
  <2>1. d \in Nat \ {0} /\ PowerOf2[Width - k] = 2 * d /\ PowerOf2[Width - 1 - k] = d
    BY Weights
  <2>2. rest[k] \in Nat /\ rest[k] < 2 * d /\ \E h \in Nat : n = h * (2 * d) + rest[k]
    BY <1>2, <2>1
  <2>3. PICK h \in Nat : n = h * (2 * d) + rest[k]
    BY <2>2
  <2>4. rest[k + 1] = IF rest[k] >= d THEN rest[k] - d ELSE rest[k]
    BY <1>1
  <2>5. PowerOf2[Width - (k + 1)] = d
    <3>1. Width - (k + 1) = Width - 1 - k
      BY Weights DEF Indices
    <3> QED
      BY <2>1, <3>1
  <2> HIDE DEF d
  <2>6. /\ rest[k + 1] \in Nat /\ rest[k + 1] < d
        /\ n = (2 * h + digit(k)) * d + rest[k + 1]
        /\ n = h * (2 * d) + digit(k) * d + rest[k + 1]
        /\ digit(k) \in {0, 1} /\ 2 * h + digit(k) \in Nat
    <3>1. CASE rest[k] >= d
      BY <2>1, <2>2, <2>3, <2>4, <3>1 DEF d
    <3>2. CASE ~(rest[k] >= d)
      BY <2>1, <2>2, <2>3, <2>4, <3>2 DEF d
    <3> QED
      BY <3>1, <3>2
  <2> HIDE DEF digit
  <2>7. Bit(n, Width - 1 - k) = digit(k)
    <3>1. Places(n, d, h, digit(k), rest[k + 1])
      BY <2>1, <2>6 DEF Places
    <3> QED
      BY <2>1, <3>1, ABit DEF Bit
  <2>8. Split(k + 1)
    BY <2>5, <2>6
  <2> QED
    BY <2>7, <2>8
<1>3. Split(0)
  <2>1. n \in Nat /\ n < PowerOf2[Width] /\ Width - 0 = Width /\ PowerOf2[Width] \in Nat
    BY Weights DEF Words
  <2>2. n = 0 * PowerOf2[Width] + n
    BY <2>1
  <2> QED
    BY <1>1, <2>1, <2>2
<1>4. \A k \in Indices : Split(k)
  <2> DEFINE T == {k \in Nat : Split(k)}
  <2> HIDE DEF Split
  <2>1. 0 \in T
    BY <1>3
  <2>2. \A k \in 1..Width : k - 1 \in T => k \in T
    <3>1. \A k \in 1..Width : k - 1 \in Indices /\ (k - 1) + 1 = k
      BY Weights DEF Indices
    <3> QED
      BY <1>2, <3>1
  <2>3. \A k \in 0..Width : k \in T
    <3> HIDE DEF T
    <3> QED
      BY <2>1, <2>2, Induction, Weights
  <2> QED
    BY <2>3, Weights
<1>5. \A k \in Indices : UIntToBinary(n)[k] = digit(k)
  BY <1>1
<1>6. \A k \in Indices : Bit(n, Width - 1 - k) = digit(k)
  BY <1>2, <1>4
<1>7. UIntToBinary(n) \in [Indices -> {0, 1}]
  BY <1>1
<1> QED
  BY <1>5, <1>6, <1>7

\* The word of some digits has these digits for bits.
LEMMA BitsAreDigits ==
    ASSUME NEW binary \in [Indices -> {0, 1}]
    PROVE  /\ BinaryToUInt(binary) \in Words
           /\ \A k \in Indices : Bit(BinaryToUInt(binary), Width - 1 - k) = binary[k]
<1>1. PICK result \in [0..Width -> Nat] :
        /\ result[0] = 0
        /\ \A k \in Indices : result[k + 1] = result[k] + binary[k] * Weight(k)
        /\ BinaryToUInt(binary) = result[Width]
  BY BinaryToUIntIs
<1> DEFINE n == result[Width]
           High(k) == \E h \in Nat : result[k] = h * PowerOf2[Width - k]
           Low(k) == n >= result[k] /\ n - result[k] < PowerOf2[Width - k]
<1>0. /\ Width \in Nat
      /\ \A k \in Indices :
           k \in 0..Width /\ k + 1 \in 0..Width /\ Width - (k + 1) = Width - 1 - k
  BY Weights DEF Indices
<1>2. ASSUME NEW k \in Indices, High(k) PROVE High(k + 1)
  <2> DEFINE d == Weight(k)
  <2>1. d \in Nat \ {0} /\ PowerOf2[Width - k] = 2 * d /\ PowerOf2[Width - (k + 1)] = d
    BY Weights, <1>0
  <2>2. result[k + 1] = result[k] + binary[k] * d /\ binary[k] \in {0, 1}
    BY <1>1
  <2> HIDE DEF d
  <2>3. PICK h \in Nat : result[k] = h * (2 * d)
    BY <1>2, <2>1
  <2>4. 2 * h + binary[k] \in Nat /\ result[k + 1] = (2 * h + binary[k]) * d
    BY <2>1, <2>2, <2>3
  <2> QED
    BY <2>1, <2>4
<1>3. ASSUME NEW k \in Indices, Low(k + 1) PROVE Low(k)
  <2> DEFINE d == Weight(k)
  <2>1. d \in Nat \ {0} /\ PowerOf2[Width - k] = 2 * d /\ PowerOf2[Width - (k + 1)] = d
    BY Weights, <1>0
  <2>2. result[k + 1] = result[k] + binary[k] * d /\ binary[k] \in {0, 1}
    BY <1>1
  <2>3. n \in Nat /\ result[k] \in Nat /\ result[k + 1] \in Nat
    BY <1>0
  <2> HIDE DEF d, n
  <2>4. binary[k] * d \in 0..d
    BY <2>1, <2>2
  <2> QED
    BY <1>3, <2>1, <2>2, <2>3, <2>4
<1>4. \A k \in 0..Width : High(k)
  <2> DEFINE T == {k \in Nat : High(k)}
  <2>1. 0 \in T
    <3>1. PowerOf2[Width - 0] \in Nat /\ result[0] = 0
      BY <1>0, <1>1, Weights
    <3>2. result[0] = 0 * PowerOf2[Width - 0]
      BY <3>1
    <3> QED
      BY <3>2
  <2> HIDE DEF High
  <2>2. \A k \in 1..Width : k - 1 \in T => k \in T
    <3>1. \A k \in 1..Width : k - 1 \in Indices /\ (k - 1) + 1 = k
      BY Weights DEF Indices
    <3> QED
      BY <1>2, <3>1
  <2>3. \A k \in 0..Width : k \in T
    <3> HIDE DEF T
    <3> QED
      BY <2>1, <2>2, Induction, Weights
  <2> QED
    BY <2>3
<1>5. \A k \in 0..Width : Low(k)
  <2> DEFINE T == {k \in Nat : Low(Width - k)}
  <2>1. 0 \in T
    <3>1. Width - (Width - 0) = 0 /\ Width - 0 = Width /\ n \in Nat /\ PowerOf2[0] = 1
      BY <1>0, PowersOf2
    <3> QED
      BY <3>1
  <2> HIDE DEF Low
  <2>2. \A k \in 1..Width : k - 1 \in T => k \in T
    <3>1. \A k \in 1..Width : Width - k \in Indices /\ (Width - k) + 1 = Width - (k - 1)
      BY Weights DEF Indices
    <3> QED
      BY <1>3, <3>1
  <2>3. \A k \in 0..Width : k \in T
    <3> HIDE DEF T
    <3> QED
      BY <2>1, <2>2, Induction, Weights
  <2>4. \A k \in 0..Width : Width - k \in 0..Width /\ Width - (Width - k) = k
    BY <1>0
  <2> QED
    BY <2>3, <2>4
<1>6. ASSUME NEW k \in Indices PROVE Bit(n, Width - 1 - k) = binary[k]
  <2> DEFINE d == Weight(k)
  <2>1. d \in Nat \ {0} /\ PowerOf2[Width - k] = 2 * d /\ PowerOf2[Width - (k + 1)] = d
        /\ PowerOf2[Width - 1 - k] = d
    BY Weights, <1>0
  <2>2. result[k + 1] = result[k] + binary[k] * d /\ binary[k] \in {0, 1}
    BY <1>1
  <2>3. n \in Nat /\ result[k] \in Nat /\ result[k + 1] \in Nat
    BY <1>0
  <2>4. High(k) /\ Low(k + 1)
    BY <1>0, <1>4, <1>5
  <2> HIDE DEF d, n
  <2>5. PICK h \in Nat : result[k] = h * (2 * d)
    BY <2>1, <2>4
  <2>6. n >= result[k + 1] /\ n - result[k + 1] < d
    BY <2>1, <2>4
  <2> DEFINE r == n - result[k + 1]
  <2>7. r \in Nat /\ r < d
    BY <2>3, <2>6
  <2>8. n = h * (2 * d) + binary[k] * d + r
    BY <2>1, <2>2, <2>3, <2>5
  <2> HIDE DEF r
  <2>9. (n \div d) % 2 = binary[k]
    <3>1. Places(n, d, h, binary[k], r)
      BY <2>1, <2>2, <2>5, <2>7, <2>8 DEF Places
    <3> QED
      BY <3>1, ABit
  <2> QED
    BY <2>1, <2>9 DEF Bit
<1>7. n \in Words
  <2>1. 0 \in 0..Width /\ Width \in 0..Width /\ Width - 0 = Width
    BY <1>0
  <2>2. n \in Nat /\ result[0] = 0 /\ PowerOf2[Width] \in Nat
    BY <1>1, <2>1, Weights
  <2>3. n - result[0] < PowerOf2[Width]
    BY <1>5, <2>1
  <2> QED
    BY <2>2, <2>3 DEF Words
<1> QED
  BY <1>1, <1>6, <1>7

(***************************************************************************)
(* BinaryMirror turns the bits of every word around, for words of any      *)
(* width: taking the powers off one by one and adding them up again, in    *)
(* bits.c, loses nothing.                                                  *)
(***************************************************************************)
THEOREM MirrorIs ==
    ASSUME NEW n \in Words
    PROVE  /\ BinaryMirror(n) \in Words
           /\ \A k \in Indices : Bit(BinaryMirror(n), k) = Bit(n, Width - 1 - k)
<1> DEFINE binary == UIntToBinary(n)
           flipped == [k \in Indices |-> binary[Width - 1 - k]]
<1>1. \A k \in Indices : Width - 1 - k \in Indices /\ Width - 1 - (Width - 1 - k) = k
  BY Weights DEF Indices
<1>2. /\ binary \in [Indices -> {0, 1}]
      /\ \A k \in Indices : binary[k] = Bit(n, Width - 1 - k)
  BY DigitsAreBits
<1>3. BinaryMirror(n) = BinaryToUInt(flipped)
  BY DEF BinaryMirror
<1> HIDE DEF binary
<1>4. flipped \in [Indices -> {0, 1}] /\ \A k \in Indices : flipped[k] = binary[Width - 1 - k]
  BY <1>1, <1>2
<1> HIDE DEF flipped
<1>5. /\ BinaryToUInt(flipped) \in Words
      /\ \A k \in Indices : Bit(BinaryToUInt(flipped), Width - 1 - k) = flipped[k]
  BY <1>4, BitsAreDigits
<1>6. ASSUME NEW k \in Indices PROVE Bit(BinaryMirror(n), k) = Bit(n, Width - 1 - k)
  <2>1. Bit(BinaryMirror(n), Width - 1 - (Width - 1 - k)) = flipped[Width - 1 - k]
    BY <1>1, <1>3, <1>5
  <2>2. flipped[Width - 1 - k] = binary[k]
    <3>1. flipped[Width - 1 - k] = binary[Width - 1 - (Width - 1 - k)]
      BY <1>1, <1>4
    <3> QED
      BY <1>1, <3>1
  <2> QED
    BY <1>1, <1>2, <2>1, <2>2
<1> QED
  BY <1>3, <1>5, <1>6

\* Words with the same bits are the same.
LEMMA SameBits ==
    ASSUME NEW m \in Words, NEW n \in Words, \A k \in Indices : Bit(m, k) = Bit(n, k)
    PROVE  m = n
<1> DEFINE T == {k \in Nat : m \div PowerOf2[Width - k] = n \div PowerOf2[Width - k]}
<1>0. /\ Width \in Nat /\ m \in Nat /\ n \in Nat /\ PowerOf2[Width] \in Nat \ {0}
      /\ m < PowerOf2[Width] /\ n < PowerOf2[Width]
  BY Weights DEF Words
<1>1. 0 \in T
  <2>1. Width - 0 = Width
    BY <1>0
  <2>2. m \div PowerOf2[Width] = 0 /\ n \div PowerOf2[Width] = 0
    BY <1>0
  <2> QED
    BY <2>1, <2>2
<1>2. ASSUME NEW k \in 1..Width, k - 1 \in T PROVE k \in T
  <2> DEFINE d == PowerOf2[Width - k]
  <2>1. /\ Width - k \in Indices /\ Width - (k - 1) \in 1..Width
        /\ (Width - (k - 1)) - 1 = Width - k /\ Width - k \in 0..Width
    BY <1>0 DEF Indices
  <2>2. d \in Nat \ {0} /\ PowerOf2[Width - (k - 1)] = 2 * d
    BY <2>1, PowersOf2
  <2>3. (m \div d) % 2 = (n \div d) % 2
    BY <2>1 DEF Bit
  <2>4. m \div (2 * d) = n \div (2 * d)
    BY <1>2, <2>2
  <2> HIDE DEF d
  <2>5. /\ m \div d \in Nat /\ m \div (2 * d) = (m \div d) \div 2
        /\ n \div d \in Nat /\ n \div (2 * d) = (n \div d) \div 2
    BY <1>0, <2>2, Halves
  <2>6. m \div d = n \div d
    BY <2>3, <2>4, <2>5
  <2> QED
    BY <2>6 DEF d
<1>3. \A k \in 0..Width : k \in T
  <2> HIDE DEF T
  <2> QED
    BY <1>0, <1>1, <1>2, Induction
<1>4. Width \in T /\ Width - Width = 0 /\ PowerOf2[0] = 1
  <2>1. Width \in 0..Width /\ Width - Width = 0
    BY <1>0
  <2> HIDE DEF T
  <2> QED
    BY <1>3, <2>1, PowersOf2
<1>5. m \div 1 = n \div 1
  BY <1>4
<1> QED
  BY <1>0, <1>5

(***************************************************************************)
(* The mirror of the mirror is the word itself, so that no two words share *)
(* a mirror: a line of the file tells which word it is of.                 *)
(***************************************************************************)
THEOREM MirrorTwice ==
    ASSUME NEW n \in Words
    PROVE  BinaryMirror(BinaryMirror(n)) = n
<1> DEFINE m == BinaryMirror(n)
<1>1. \A k \in Indices : Width - 1 - k \in Indices /\ Width - 1 - (Width - 1 - k) = k
  BY Weights DEF Indices
<1>2. m \in Words /\ \A k \in Indices : Bit(m, k) = Bit(n, Width - 1 - k)
  BY MirrorIs
<1> HIDE DEF m
<1>3. /\ BinaryMirror(m) \in Words
      /\ \A k \in Indices : Bit(BinaryMirror(m), k) = Bit(m, Width - 1 - k)
  BY <1>2, MirrorIs
<1>4. ASSUME NEW k \in Indices PROVE Bit(BinaryMirror(m), k) = Bit(n, k)
  <2>1. Bit(m, Width - 1 - k) = Bit(n, Width - 1 - (Width - 1 - k))
    BY <1>1, <1>2
  <2> QED
    BY <1>1, <1>3, <2>1
<1>5. BinaryMirror(m) = n
  BY <1>3, <1>4, SameBits
<1> QED
  BY <1>5 DEF m

(***************************************************************************)
(* CountSequence counts the places where a word reads 010 in its bits, for *)
(* words of any width: the loop over the binary string misses none at      *)
(* either end.                                                             *)
(***************************************************************************)
THEOREM CountIs ==
    ASSUME NEW n \in Words
    PROVE  /\ CountSequence(n) \in 0..Width
           /\ CountSequence(n) =
              Cardinality({k \in 0..(Width - 3) : (n \div PowerOf2[k]) % 8 = 2})
<1> DEFINE binary == UIntToBinary(n)
           A == {k \in 0..(Width - 3) :
                   binary[k] = 0 /\ binary[k + 1] = 1 /\ binary[k + 2] = 0}
           B == {k \in 0..(Width - 3) : (n \div PowerOf2[k]) % 8 = 2}
           turn == [k \in A |-> Width - 3 - k]
<1>0. Width \in Nat /\ Width > 2 /\ n \in Nat
  BY Weights DEF Words
<1>1. /\ binary \in [Indices -> {0, 1}]
      /\ \A k \in Indices : binary[k] = Bit(n, Width - 1 - k)
  BY DigitsAreBits
<1>2. CountSequence(n) = Cardinality(A)
  BY DEF CountSequence
<1> HIDE DEF binary
<1>3. ASSUME NEW k \in 0..(Width - 3) PROVE k \in A <=> Width - 3 - k \in B
  <2> DEFINE j == Width - 3 - k
             d == PowerOf2[j]
  <2>1. /\ j \in 0..Width /\ j + 1 \in 1..Width /\ j + 2 \in 1..Width /\ j \in 0..(Width - 3)
        /\ (j + 1) - 1 = j /\ (j + 2) - 1 = j + 1
        /\ k \in Indices /\ k + 1 \in Indices /\ k + 2 \in Indices
        /\ Width - 1 - k = j + 2 /\ Width - 1 - (k + 1) = j + 1 /\ Width - 1 - (k + 2) = j
    BY <1>0 DEF Indices
  <2> HIDE DEF j
  <2>2. d \in Nat \ {0} /\ PowerOf2[j + 1] = 2 * d /\ PowerOf2[j + 2] = 2 * (2 * d)
    BY <2>1, PowersOf2
  <2> DEFINE q == n \div d
  <2>3. q \in Nat /\ n \div (2 * d) = q \div 2 /\ n \div (2 * (2 * d)) = (q \div 2) \div 2
    <3> DEFINE e == 2 * d
    <3>1. e \in Nat \ {0}
      BY <2>2
    <3>2. n \div d \in Nat /\ n \div e = (n \div d) \div 2
      BY <1>0, <2>2, Halves
    <3> HIDE DEF e
    <3>3. n \div (2 * e) = (n \div e) \div 2
      BY <1>0, <3>1, Halves
    <3> QED
      BY <3>2, <3>3 DEF e
  <2>4. /\ binary[k] = ((q \div 2) \div 2) % 2
        /\ binary[k + 1] = (q \div 2) % 2
        /\ binary[k + 2] = q % 2
    BY <1>1, <2>1, <2>2, <2>3 DEF Bit
  <2>5. (((q \div 2) \div 2) % 2 = 0 /\ (q \div 2) % 2 = 1 /\ q % 2 = 0) <=> q % 8 = 2
    <3>1. q \in Nat
      BY <2>3
    <3> HIDE DEF q
    <3> QED
      BY <3>1
  <2>6. k \in A <=> q % 8 = 2
    BY <2>4, <2>5
  <2>7. j \in B <=> q % 8 = 2
    BY <2>1
  <2> QED
    BY <2>6, <2>7 DEF j
<1>4. turn \in Bijection(A, B)
  <2>1. \A k \in A : turn[k] = Width - 3 - k /\ k \in 0..(Width - 3)
    OBVIOUS
  <2>2. turn \in [A -> B]
    <3>1. \A k \in A : turn[k] \in B
      BY <1>3, <2>1
    <3> HIDE DEF A, B
    <3> QED
      BY <3>1
  <2>3. ASSUME NEW i \in A, NEW j \in A, turn[i] = turn[j] PROVE i = j
    <3>1. i \in Int /\ j \in Int /\ Width - 3 - i = Width - 3 - j
      BY <2>1, <2>3
    <3> QED
      BY <1>0, <3>1
  <2>4. ASSUME NEW j \in B PROVE \E i \in A : turn[i] = j
    <3> DEFINE i == Width - 3 - j
    <3>1. j \in 0..(Width - 3) /\ i \in 0..(Width - 3) /\ Width - 3 - i = j
      BY <1>0
    <3>2. i \in A
      BY <1>3, <3>1
    <3> QED
      BY <2>1, <3>1, <3>2
  <2> HIDE DEF A, B, turn
  <2> QED
    BY <2>2, <2>3, <2>4 DEF Bijection, Injection, Surjection, IsInjective
<1>5. IsFiniteSet(A) /\ Cardinality(A) \in Nat /\ Cardinality(A) <= Width
  <2>1. IsFiniteSet(0..(Width - 3)) /\ Cardinality(0..(Width - 3)) = Width - 2
    <3>1. IsFiniteSet(0..(Width - 3)) /\ Cardinality(0..(Width - 3)) =
            IF 0 > Width - 3 THEN 0 ELSE (Width - 3) - 0 + 1
      BY <1>0, FS_Interval
    <3> QED
      BY <1>0, <3>1
  <2>2. A \subseteq 0..(Width - 3)
    OBVIOUS
  <2> HIDE DEF A
  <2>3. IsFiniteSet(A) /\ Cardinality(A) <= Width - 2
    BY <2>1, <2>2, FS_Subset
  <2> QED
    BY <1>0, <2>3, FS_CardinalityType
<1>6. Cardinality(A) = Cardinality(B)
  <2> HIDE DEF A, B, turn
  <2>1. ExistsBijection(A, B)
    BY <1>4 DEF ExistsBijection
  <2> QED
    BY <1>5, <2>1, FS_Bijection
<1> HIDE DEF A
<1>7. CountSequence(n) \in 0..Width
  BY <1>0, <1>2, <1>5
<1> QED
  BY <1>2, <1>6, <1>7

\* The decimal string: a digit, or the string of a tenth and the last digit.
LEMMA UIntToAsciiIs ==
    /\ \A n \in Nat : UIntToAscii(n) =
         IF n < 10 THEN <<n>> ELSE Append(UIntToAscii(n \div 10), n % 10)
    /\ \A n \in Nat : UIntToAscii(n) \in Seq(0..9)
<1> DEFINE S == Seq(0..9)
           Stop == 0..9
           Eq(f) == f = [n \in Nat |-> IF n < 10 THEN <<n>> ELSE Append(f[n \div 10], n % 10)]
<1>1. \E f \in [Nat -> S] : Eq(f)
  <2> DEFINE start == [n \in Nat |-> IF n < 10 THEN <<n>> ELSE <<>>]
             before == [n \in Nat |-> n \div 10]
             step == [p \in S \X Nat |-> Append(p[1], p[2] % 10)]
  <2>1. start \in [Nat -> S]
    <3>1. ASSUME NEW n \in Nat PROVE (IF n < 10 THEN <<n>> ELSE <<>>) \in S
      <4>1. CASE n < 10
        <5>1. n \in 0..9
          BY <4>1
        <5> QED
          BY <4>1, <5>1
      <4>2. CASE ~(n < 10)
        BY <4>2
      <4> QED
        BY <4>1, <4>2
    <3> QED
      BY <3>1
  <2>2. before \in [Nat -> Nat] /\ \A n \in Nat : n \notin Stop => before[n] < n
    OBVIOUS
  <2>3. step \in [S \X Nat -> S]
    <3>1. ASSUME NEW s \in S, NEW n \in Nat PROVE Append(s, n % 10) \in S
      OBVIOUS
    <3> HIDE DEF S
    <3> QED
      BY <3>1
  <2>4. /\ \A n \in Nat : start[n] = IF n < 10 THEN <<n>> ELSE <<>>
        /\ \A n \in Nat : before[n] = n \div 10
        /\ \A n \in Nat : n \in Stop <=> n < 10
    OBVIOUS
  <2>5. \A s \in S, n \in Nat : step[<<s, n>>] = Append(s, n % 10)
    OBVIOUS
  <2>6. Recursion(Nat, S, Stop, start, before, step)
    <3> HIDE DEF S, Stop, start, before, step
    <3> QED
      BY <2>1, <2>2, <2>3 DEF Recursion
  <2> HIDE DEF S, Stop, start, before, step
  <2>7. PICK f \in [Nat -> S] : \A n \in Nat :
          f[n] = IF n \in Stop THEN start[n] ELSE step[<<f[before[n]], n>>]
    BY <2>6, RecursiveFunction
  <2>8. ASSUME NEW n \in Nat
        PROVE  f[n] = IF n < 10 THEN <<n>> ELSE Append(f[n \div 10], n % 10)
    <3>1. CASE n < 10
      BY <2>4, <2>7, <3>1
    <3>2. CASE ~(n < 10)
      <4>1. n \div 10 \in Nat /\ f[n \div 10] \in S
        BY <2>7
      <4>2. f[n] = step[<<f[n \div 10], n>>]
        BY <2>4, <2>7, <3>2
      <4>3. step[<<f[n \div 10], n>>] = Append(f[n \div 10], n % 10)
        BY <2>5, <4>1
      <4> QED
        BY <3>2, <4>2, <4>3
    <3> QED
      BY <3>1, <3>2
  <2>9. Eq(f)
    <3> HIDE DEF S
    <3> QED
      BY <2>7, <2>8
  <2> QED
    BY <2>7, <2>9
<1> DEFINE digits == CHOOSE f : Eq(f)
<1>2. Eq(digits)
  <2> HIDE DEF Eq, S
  <2> QED
    BY <1>1
<1>3. \A n : UIntToAscii(n) = digits[n]
  BY DEF UIntToAscii
<1> HIDE DEF digits
<1>4. ASSUME NEW n \in Nat
      PROVE  UIntToAscii(n) = IF n < 10 THEN <<n>> ELSE Append(UIntToAscii(n \div 10), n % 10)
  BY <1>2, <1>3
<1>5. \A n \in Nat : UIntToAscii(n) \in S
  <2> DEFINE T == {n \in Nat : UIntToAscii(n) \notin S}
  <2> SUFFICES ASSUME T # {} PROVE FALSE
    OBVIOUS
  <2>1. PICK n \in T : \A m \in T : n <= m
    <3>1. T \subseteq Nat
      OBVIOUS
    <3> HIDE DEF T
    <3> QED
      BY <3>1, LeastElement
  <2>2. n \in Nat /\ UIntToAscii(n) \notin S
    OBVIOUS
  <2>3. CASE n < 10
    <3>1. UIntToAscii(n) = <<n>> /\ n \in 0..9
      BY <1>4, <2>2, <2>3
    <3> QED
      BY <2>2, <3>1
  <2>4. CASE ~(n < 10)
    <3>1. n \div 10 \in Nat /\ ~(n <= n \div 10)
      BY <2>2, <2>4
    <3>2. UIntToAscii(n \div 10) \in S
      <4>1. n \div 10 \notin T
        <5> HIDE DEF T
        <5> QED
          BY <2>1, <3>1
      <4> QED
        BY <3>1, <4>1
    <3>3. UIntToAscii(n) = Append(UIntToAscii(n \div 10), n % 10) /\ n % 10 \in 0..9
      BY <1>4, <2>2, <2>4
    <3> QED
      BY <2>2, <3>2, <3>3
  <2> QED
    BY <2>3, <2>4
<1> QED
  BY <1>4, <1>5

-----------------------------------------------------------------------------
(***************************************************************************)
(* The inductive invariant.                                                *)
(***************************************************************************)

\* The types, with a node's contents as create_MyList_node makes them.
Shape ==
    /\ at \in {"read", "make", "insert", "walk", "write", "done"}
    /\ integers \in Seq(Numbers)
    /\ nodes \in Seq({create_MyList_node(n) : n \in Numbers})
    /\ next \in [Nodes -> Nodes \cup {NULL}]
    /\ head \in Nodes \cup {NULL}
    /\ current \in Nodes \cup {NULL}

\* There is a node to insert, and nothing that is linked points to it yet.
InsertInv ==
    /\ at \in {"insert", "walk"} => Len(nodes) > 0
    /\ \A n \in Linked : next[n] \in Linked \cup {NULL}

\* The search stands on a linked node that belongs in front of the new one.
WalkInv == at = "walk" => current \in Linked /\ After(current)

\* The pointers of the linked nodes lead away from where they start: some
\* numbering of the nodes grows along them.
Acyclic(L, nx) ==
    \E rank \in [L -> Nat] : \A n \in L : nx[n] # NULL => rank[n] < rank[nx[n]]

NoCircle == Acyclic(Linked, next)

IInv == Shape /\ InsertInv /\ WalkInv /\ ListOrdered /\ EveryNodeOnce /\ NoCircle

\* The same of a list given by its parts: what an insertion preserves.
Chain(L, nx, h) ==
    /\ h \in L \cup {NULL}
    /\ \A n \in L : nx[n] \in L \cup {NULL}
    /\ \A n \in L : n = h <=> ~\E m \in L : nx[m] = n
    /\ \A m, n \in L : nx[m] = nx[n] /\ nx[m] # NULL => m = n

-----------------------------------------------------------------------------
(* Lemmas. *)

\* strcmp puts no two strings before each other.
LEMMA StrLessAsymmetric ==
    ASSUME NEW s, NEW t, StrLess(s, t)
    PROVE  ~StrLess(t, s)
<1>1. PICK k \in 1..11 :
        /\ \A j \in 1..(k - 1) : Char(s, j) = Char(t, j)
        /\ \E c \in -1..9, d \in -1..9 : c < d /\ Char(s, k) = c /\ Char(t, k) = d
  BY DEF StrLess
<1>2. SUFFICES ASSUME NEW i \in 1..11,
                      \A j \in 1..(i - 1) : Char(t, j) = Char(s, j),
                      \E c \in -1..9, d \in -1..9 : c < d /\ Char(t, i) = c /\ Char(s, i) = d
               PROVE  FALSE
  BY DEF StrLess
<1>3. CASE k < i
  BY <1>1, <1>2, <1>3
<1>4. CASE i < k
  BY <1>1, <1>2, <1>4
<1>5. CASE i = k
  BY <1>1, <1>2, <1>5
<1> QED
  BY <1>3, <1>4, <1>5

\* A new node in front of a list, or behind one of its nodes, makes a list.
LEMMA InFront ==
    ASSUME NEW L, NEW nx, NEW h, Chain(L, nx, h),
           NEW D, NEW new \in D, L \subseteq D, nx \in [D -> D \cup {NULL}],
           new \notin L, new # NULL, NULL \notin D
    PROVE  Chain(L \cup {new}, [nx EXCEPT ![new] = h], new)
<1> DEFINE nx2 == [nx EXCEPT ![new] = h]
<1>1. nx2[new] = h /\ \A n \in L : nx2[n] = nx[n]
  OBVIOUS
<1> HIDE DEF nx2
<1>2. \A n \in L \cup {new} : nx2[n] \in L \cup {new} \cup {NULL}
  BY <1>1 DEF Chain
<1>3. ASSUME NEW n \in L \cup {new}
      PROVE  n = new <=> ~\E m \in L \cup {new} : nx2[m] = n
  <2>1. CASE n = new
    BY <1>1, <2>1 DEF Chain
  <2>2. CASE n # new
    BY <1>1, <2>2 DEF Chain
  <2> QED
    BY <2>1, <2>2
<1>4. ASSUME NEW m \in L \cup {new}, NEW n \in L \cup {new}, nx2[m] = nx2[n], nx2[m] # NULL
      PROVE  m = n
  BY <1>1, <1>4 DEF Chain
<1> QED
  BY <1>2, <1>3, <1>4 DEF Chain, nx2

LEMMA Behind ==
    ASSUME NEW L, NEW nx, NEW h, Chain(L, nx, h),
           NEW D, NEW new \in D, L \subseteq D, nx \in [D -> D \cup {NULL}],
           new \notin L, new # NULL, NULL \notin D, NEW c \in L
    PROVE  Chain(L \cup {new}, [nx EXCEPT ![new] = nx[c], ![c] = new], h)
<1> DEFINE nx2 == [nx EXCEPT ![new] = nx[c], ![c] = new]
<1>1. nx2[new] = nx[c] /\ nx2[c] = new /\ \A n \in L \ {c} : nx2[n] = nx[n]
  OBVIOUS
<1> HIDE DEF nx2
<1>2. \A n \in L \cup {new} : nx2[n] \in L \cup {new} \cup {NULL}
  BY <1>1 DEF Chain
<1>3. ASSUME NEW n \in L \cup {new}
      PROVE  n = h <=> ~\E m \in L \cup {new} : nx2[m] = n
  <2>1. CASE n = new
    BY <1>1, <2>1 DEF Chain
  <2>2. CASE n = nx[c] /\ n # new
    BY <1>1, <2>2 DEF Chain
  <2>3. CASE n # nx[c] /\ n # new
    BY <1>1, <2>3 DEF Chain
  <2> QED
    BY <2>1, <2>2, <2>3
<1>4. ASSUME NEW m \in L \cup {new}, NEW n \in L \cup {new}, nx2[m] = nx2[n], nx2[m] # NULL
      PROVE  m = n
  BY <1>1, <1>4 DEF Chain
<1>5. h \in L \cup {new} \cup {NULL}
  BY DEF Chain
<1> QED
  BY <1>2, <1>3, <1>4, <1>5 DEF Chain, nx2

\* The same two insertions close no circle.
LEMMA InFrontAcyclic ==
    ASSUME NEW L, NEW nx, NEW h, Chain(L, nx, h), Acyclic(L, nx),
           NEW D, NEW new \in D, L \subseteq D, nx \in [D -> D \cup {NULL}],
           new \notin L, new # NULL
    PROVE  Acyclic(L \cup {new}, [nx EXCEPT ![new] = h])
<1> DEFINE nx2 == [nx EXCEPT ![new] = h]
<1>1. nx2[new] = h /\ \A n \in L : nx2[n] = nx[n]
  OBVIOUS
<1> HIDE DEF nx2
<1>2. PICK rank \in [L -> Nat] : \A n \in L : nx[n] # NULL => rank[n] < rank[nx[n]]
  BY DEF Acyclic
<1> DEFINE rank2 == [n \in L \cup {new} |-> IF n = new THEN 0 ELSE rank[n] + 1]
<1>3. /\ rank2 \in [L \cup {new} -> Nat] /\ rank2[new] = 0
      /\ \A n \in L : rank2[n] = rank[n] + 1
  OBVIOUS
<1> HIDE DEF rank2
<1>4. ASSUME NEW n \in L \cup {new}, nx2[n] # NULL
      PROVE  rank2[n] < rank2[nx2[n]]
  <2>1. CASE n = new
    <3>1. h \in L
      BY <1>1, <1>4, <2>1 DEF Chain
    <3> QED
      BY <1>1, <1>3, <2>1, <3>1
  <2>2. CASE n # new
    <3>1. n \in L /\ nx[n] \in L /\ nx2[n] = nx[n]
      BY <1>1, <1>4, <2>2 DEF Chain
    <3>2. rank[n] < rank[nx[n]] /\ rank[n] \in Nat /\ rank[nx[n]] \in Nat
      BY <1>2, <1>4, <3>1
    <3> QED
      BY <1>3, <3>1, <3>2
  <2> QED
    BY <2>1, <2>2
<1> QED
  BY <1>3, <1>4 DEF Acyclic, nx2

LEMMA BehindAcyclic ==
    ASSUME NEW L, NEW nx, NEW h, Chain(L, nx, h), Acyclic(L, nx),
           NEW D, NEW new \in D, L \subseteq D, nx \in [D -> D \cup {NULL}],
           new \notin L, new # NULL, NEW c \in L
    PROVE  Acyclic(L \cup {new}, [nx EXCEPT ![new] = nx[c], ![c] = new])
<1> DEFINE nx2 == [nx EXCEPT ![new] = nx[c], ![c] = new]
<1>1. nx2[new] = nx[c] /\ nx2[c] = new /\ \A n \in L \ {c} : nx2[n] = nx[n]
  OBVIOUS
<1> HIDE DEF nx2
<1>2. PICK rank \in [L -> Nat] : \A n \in L : nx[n] # NULL => rank[n] < rank[nx[n]]
  BY DEF Acyclic
<1> DEFINE rank2 == [n \in L \cup {new} |->
                       IF n = new THEN rank[c] + 1
                       ELSE IF rank[n] > rank[c] THEN rank[n] + 1 ELSE rank[n]]
<1>3. /\ rank2 \in [L \cup {new} -> Nat] /\ rank2[new] = rank[c] + 1
      /\ \A n \in L : rank2[n] = IF rank[n] > rank[c] THEN rank[n] + 1 ELSE rank[n]
  OBVIOUS
<1> HIDE DEF rank2
<1>4. ASSUME NEW n \in L \cup {new}, nx2[n] # NULL
      PROVE  rank2[n] < rank2[nx2[n]]
  <2>0. rank[c] \in Nat
    OBVIOUS
  <2>1. CASE n = new
    <3>1. nx[c] \in L /\ nx2[n] = nx[c] /\ nx[c] # NULL
      BY <1>1, <1>4, <2>1 DEF Chain
    <3>2. rank[c] < rank[nx[c]] /\ rank[nx[c]] \in Nat
      BY <1>2, <3>1
    <3> QED
      BY <1>3, <2>0, <2>1, <3>1, <3>2
  <2>2. CASE n = c
    BY <1>1, <1>3, <2>0, <2>2
  <2>3. CASE n # new /\ n # c
    <3>1. n \in L /\ nx[n] \in L /\ nx2[n] = nx[n]
      BY <1>1, <1>4, <2>3 DEF Chain
    <3>2. rank[n] < rank[nx[n]] /\ rank[n] \in Nat /\ rank[nx[n]] \in Nat
      BY <1>2, <1>4, <3>1
    <3> QED
      BY <1>3, <2>0, <3>1, <3>2
  <2> QED
    BY <2>1, <2>2, <2>3
<1> QED
  BY <1>3, <1>4 DEF Acyclic, nx2

\* Chain is what two conjuncts of the invariant say of the linked nodes.
LEMMA ChainIs ==
    (EveryNodeOnce /\ \A n \in Linked : next[n] \in Linked \cup {NULL})
    <=> Chain(Linked, next, head)
BY DEF EveryNodeOnce, Chain

LEMMA NodeNumbers ==
    ASSUME Shape
    PROVE  /\ Len(nodes) \in Nat /\ Nodes = 1..Len(nodes) /\ NULL \notin Nodes
           /\ Len(nodes) > 0 => node \in Nodes
BY DEF Shape, Nodes, NULL, node

-----------------------------------------------------------------------------
(* The steps. *)

LEMMA InitIInv == Init => IInv
<1> SUFFICES ASSUME Init PROVE IInv
  OBVIOUS
<1>1. Nodes = {} /\ Linked = {}
  BY DEF Init, Nodes, Linked
<1>2. next \in [Nodes -> Nodes \cup {NULL}]
  BY <1>1, EmptySeq DEF Init
<1>3. nodes \in Seq({create_MyList_node(n) : n \in Numbers}) /\ integers \in Seq(Numbers)
  BY DEF Init
<1>4. NoCircle
  <2>1. [n \in {} |-> 0] \in [Linked -> Nat]
    BY <1>1
  <2> QED
    BY <1>1, <2>1 DEF NoCircle, Acyclic
<1> QED
  BY <1>1, <1>2, <1>3, <1>4
  DEF Init, IInv, Shape, InsertInv, WalkInv, ListOrdered, EveryNodeOnce, NULL

\* Steps that touch neither the list nor the search.
LEMMA ListUntouched ==
    ASSUME IInv, UNCHANGED list,
           at \notin {"insert", "walk"}, at' \notin {"insert", "walk"},
           at' \in {"read", "make", "write", "done"},
           integers' \in Seq(Numbers), current' \in Nodes \cup {NULL}
    PROVE  IInv'
<1>1. UNCHANGED <<nodes, next, head, Nodes>> /\ UNCHANGED Linked
  BY DEF list, Nodes, Linked, IInv
<1>2. Shape'
  BY <1>1 DEF IInv, Shape
<1>3. (InsertInv /\ WalkInv)'
  BY <1>1 DEF IInv, InsertInv, WalkInv
<1>4. ListOrdered'
  BY <1>1 DEF IInv, ListOrdered
<1>5. EveryNodeOnce' /\ NoCircle'
  BY <1>1 DEF IInv, EveryNodeOnce, NoCircle, Acyclic
<1> QED
  BY <1>2, <1>3, <1>4, <1>5 DEF IInv

LEMMA ReadStep ==
    ASSUME IInv, Read \/ EndOfFile PROVE IInv'
<1>1. /\ at = "read" /\ at' \in {"read", "make"} /\ integers' \in Seq(Numbers)
      /\ UNCHANGED <<list, current>>
  BY DEF Read, EndOfFile, IInv, Shape
<1> QED
  BY <1>1, ListUntouched DEF IInv, Shape

LEMMA WriteStep ==
    ASSUME IInv, Write PROVE IInv'
<1>1. /\ at = "write" /\ at' \in {"write", "done"} /\ integers' \in Seq(Numbers)
      /\ UNCHANGED list
  BY DEF Write, IInv, Shape
<1>2. current' \in Nodes \cup {NULL}
  BY DEF Write, IInv, Shape, NULL
<1> QED
  BY <1>1, <1>2, ListUntouched

LEMMA MakeStep ==
    ASSUME IInv, Make PROVE IInv'
<1> DEFINE Contents == {create_MyList_node(n) : n \in Numbers}
<1>1. CASE Len(nodes) >= Len(integers)
  <2>1. Len(nodes) \in Nat /\ Len(integers) \in Nat /\ ~(Len(nodes) < Len(integers))
    BY <1>1 DEF IInv, Shape
  <2>2. /\ at = "make" /\ at' = "write" /\ integers' \in Seq(Numbers)
        /\ UNCHANGED list /\ current' \in Nodes \cup {NULL}
    BY <2>1 DEF Make, IInv, Shape, list
  <2> QED
    BY <2>2, ListUntouched
<1>2. CASE Len(nodes) < Len(integers)
  <2> DEFINE new == create_MyList_node(integers[Len(nodes) + 1])
  <2>1. /\ at = "make" /\ at' = "insert" /\ nodes' = Append(nodes, new)
        /\ next' = Append(next, NULL) /\ UNCHANGED <<integers, head, current>>
    BY <1>2 DEF Make
  <2>2. /\ Len(nodes) \in Nat /\ Len(integers) \in Nat
        /\ nodes \in Seq(Contents) /\ integers \in Seq(Numbers)
    BY DEF IInv, Shape
  <2>3. new \in Contents
    BY <1>2, <2>2
  <2> HIDE DEF new, Contents
  <2>4. /\ nodes' \in Seq(Contents) /\ Len(nodes') = Len(nodes) + 1
        /\ \A n \in Nodes : nodes'[n] = nodes[n]
    BY <2>1, <2>2, <2>3 DEF Nodes
  <2>5. /\ Nodes' = Nodes \cup {Len(nodes) + 1} /\ Len(nodes) + 1 \notin Nodes
        /\ Linked = Nodes /\ Linked' = Nodes
    BY <2>1, <2>2, <2>4 DEF Nodes, Linked, node
  <2>6. next \in [1..Len(nodes) -> Nodes \cup {NULL}]
    BY DEF IInv, Shape, Nodes
  <2>7. next \in Seq(Nodes \cup {NULL}) /\ Len(next) = Len(nodes)
    BY <2>2, <2>6
  <2>8. /\ next' \in [Nodes' -> Nodes \cup {NULL}]
        /\ \A n \in Nodes : next'[n] = next[n]
    <3>1. NULL \in Nodes \cup {NULL}
      OBVIOUS
    <3>2. /\ next' \in Seq(Nodes \cup {NULL}) /\ Len(next') = Len(nodes) + 1
          /\ \A n \in 1..Len(nodes) : next'[n] = next[n]
      BY <2>1, <2>2, <2>7, <3>1, AppendProperties
    <3>3. next' \in [1..(Len(nodes) + 1) -> Nodes \cup {NULL}]
      BY <3>2, LenProperties
    <3>4. Nodes' = 1..(Len(nodes) + 1) /\ Nodes = 1..Len(nodes)
      BY <2>4 DEF Nodes
    <3> QED
      BY <3>2, <3>3, <3>4
  <2>9. Shape'
    BY <2>1, <2>2, <2>4, <2>5, <2>8 DEF IInv, Shape, Contents, NULL
  <2>10. (InsertInv /\ WalkInv)'
    BY <2>1, <2>2, <2>4, <2>5, <2>8 DEF IInv, InsertInv, WalkInv
  <2>11. ListOrdered'
    BY <2>4, <2>5, <2>8 DEF IInv, InsertInv, ListOrdered, NULL
  <2>12. EveryNodeOnce'
    <3>1. Chain(Linked, next, head)
      BY ChainIs DEF IInv, InsertInv
    <3>2. Chain(Linked', next', head')
      BY <2>1, <2>5, <2>8, <3>1 DEF Chain
    <3> QED
      BY <3>2 DEF Chain, EveryNodeOnce
  <2>13. NoCircle'
    <3>1. \A n \in Nodes : next'[n] = next[n]
      BY <2>8
    <3> QED
      BY <2>5, <3>1 DEF IInv, NoCircle, Acyclic
  <2> QED
    BY <2>9, <2>10, <2>11, <2>12, <2>13 DEF IInv
<1> QED
  BY <1>1, <1>2 DEF IInv, Shape

\* A node that is being inserted is the only one not linked.
LEMMA Inserting ==
    ASSUME IInv, at \in {"insert", "walk"}
    PROVE  /\ node \in Nodes /\ Nodes = Linked \cup {node} /\ node \notin Linked
           /\ node # NULL /\ NULL \notin Nodes
           /\ Chain(Linked, next, head) /\ Acyclic(Linked, next)
<1>1. node \in Nodes /\ NULL \notin Nodes
  BY NodeNumbers DEF IInv, InsertInv
<1>2. Linked = Nodes \ {node}
  BY DEF Linked
<1>3. Chain(Linked, next, head) /\ Acyclic(Linked, next)
  BY ChainIs DEF IInv, InsertInv, NoCircle
<1> QED
  BY <1>1, <1>2, <1>3

\* What is left to show once the node is linked.
LEMMA LinkedIn ==
    ASSUME IInv, at \in {"insert", "walk"}, at' = "make",
           UNCHANGED <<integers, nodes, current>>,
           next' \in [Nodes -> Nodes \cup {NULL}],
           Chain(Nodes, next', head'), Acyclic(Nodes, next'),
           \A n \in Nodes : next'[n] # NULL => ~StrLess(nodes[next'[n]].ASCII, nodes[n].ASCII)
    PROVE  IInv'
<1>1. Nodes' = Nodes /\ Linked' = Nodes
  BY DEF Nodes, Linked
<1>2. Shape'
  BY <1>1 DEF IInv, Shape, Chain
<1>3. EveryNodeOnce' /\ \A n \in Linked' : next'[n] \in Linked' \cup {NULL}
  BY <1>1 DEF EveryNodeOnce, Chain
<1>4. (InsertInv /\ WalkInv)'
  BY <1>3 DEF InsertInv, WalkInv
<1>5. ListOrdered'
  BY <1>1 DEF ListOrdered
<1>6. NoCircle'
  BY <1>1 DEF NoCircle, Acyclic
<1> QED
  BY <1>2, <1>3, <1>4, <1>5, <1>6 DEF IInv

\* Only the place of the search changes.
LEMMA SearchOn ==
    ASSUME IInv, at \in {"insert", "walk"}, at' = "walk",
           UNCHANGED <<integers, list>>, current' \in Linked, After(current')
    PROVE  IInv'
<1>1. /\ UNCHANGED <<nodes, next, head>> /\ Nodes' = Nodes /\ Linked' = Linked /\ node' = node
      /\ Linked \subseteq Nodes
  BY DEF list, Nodes, Linked, node
<1>2. Shape'
  BY <1>1 DEF IInv, Shape
<1>3. InsertInv'
  BY <1>1 DEF IInv, InsertInv
<1>4. WalkInv'
  BY <1>1 DEF WalkInv, After
<1>5. ListOrdered'
  BY <1>1 DEF IInv, ListOrdered
<1>6. EveryNodeOnce' /\ NoCircle'
  BY <1>1 DEF IInv, EveryNodeOnce, NoCircle, Acyclic
<1> QED
  BY <1>2, <1>3, <1>4, <1>5, <1>6 DEF IInv

LEMMA InsertStep ==
    ASSUME IInv, Insert PROVE IInv'
<1>0. at = "insert" /\ UNCHANGED <<integers, nodes>> /\ next \in [Nodes -> Nodes \cup {NULL}]
  BY DEF Insert, IInv, Shape
<1>1. CASE head = NULL \/ ~After(head)
  <2>1. /\ next' = [next EXCEPT ![node] = head] /\ head' = node /\ at' = "make"
        /\ UNCHANGED current
    BY <1>1 DEF Insert
  <2>2. Chain(Nodes, next', head') /\ Acyclic(Nodes, next')
    <3>1. /\ Chain(Linked, next, head) /\ Acyclic(Linked, next)
          /\ node \in Nodes /\ Linked \subseteq Nodes
          /\ node \notin Linked /\ node # NULL /\ NULL \notin Nodes
      BY <1>0, Inserting
    <3>2. Chain(Linked \cup {node}, [next EXCEPT ![node] = head], node)
      BY <1>0, <3>1, InFront
    <3>3. Acyclic(Linked \cup {node}, [next EXCEPT ![node] = head])
      BY <1>0, <3>1, InFrontAcyclic
    <3> QED
      BY <1>0, <2>1, <3>2, <3>3, Inserting
  <2>3. next' \in [Nodes -> Nodes \cup {NULL}]
    BY <1>0, <2>1 DEF IInv, Shape
  <2>4. ASSUME NEW n \in Nodes, next'[n] # NULL
        PROVE  ~StrLess(nodes[next'[n]].ASCII, nodes[n].ASCII)
    <3>1. CASE n = node
      BY <1>0, <1>1, <2>1, <2>4, <3>1 DEF After
    <3>2. CASE n # node
      <4>1. n \in Linked /\ next'[n] = next[n]
        BY <1>0, <2>1, <3>2, Inserting
      <4> QED
        BY <2>4, <4>1 DEF IInv, ListOrdered
    <3> QED
      BY <3>1, <3>2
  <2> QED
    BY <1>0, <2>1, <2>2, <2>3, <2>4, LinkedIn
<1>2. CASE ~(head = NULL \/ ~After(head))
  <2>1. current' = head /\ at' = "walk" /\ UNCHANGED list
    BY <1>0, <1>2 DEF Insert, list
  <2>2. current' \in Linked /\ After(current')
    BY <1>2, <2>1 DEF IInv, EveryNodeOnce
  <2> QED
    BY <1>0, <2>1, <2>2, SearchOn
<1> QED
  BY <1>1, <1>2

LEMMA WalkStep ==
    ASSUME IInv, Walk PROVE IInv'
<1>0. /\ at = "walk" /\ UNCHANGED <<integers, nodes, head>> /\ next \in [Nodes -> Nodes \cup {NULL}]
      /\ current \in Linked /\ After(current) /\ next[current] \in Linked \cup {NULL}
  BY DEF Walk, IInv, Shape, InsertInv, WalkInv
<1>1. CASE next[current] # NULL /\ After(next[current])
  <2>1. current' = next[current] /\ at' = "walk" /\ UNCHANGED list
    BY <1>0, <1>1 DEF Walk, list
  <2> QED
    BY <1>0, <1>1, <2>1, SearchOn
<1>2. CASE ~(next[current] # NULL /\ After(next[current]))
  <2>1. /\ next' = [next EXCEPT ![node] = next[current], ![current] = node]
        /\ at' = "make" /\ UNCHANGED current
    BY <1>2 DEF Walk
  <2>2. Chain(Nodes, next', head') /\ Acyclic(Nodes, next')
    <3>1. /\ Chain(Linked, next, head) /\ Acyclic(Linked, next)
          /\ node \in Nodes /\ Linked \subseteq Nodes
          /\ node \notin Linked /\ node # NULL /\ NULL \notin Nodes
      BY <1>0, Inserting
    <3>2. Chain(Linked \cup {node},
                [next EXCEPT ![node] = next[current], ![current] = node], head)
      BY <1>0, <3>1, Behind
    <3>3. Acyclic(Linked \cup {node},
                  [next EXCEPT ![node] = next[current], ![current] = node])
      BY <1>0, <3>1, BehindAcyclic
    <3> QED
      BY <1>0, <2>1, <3>2, <3>3, Inserting
  <2>3. next' \in [Nodes -> Nodes \cup {NULL}]
    BY <1>0, <2>1, Inserting
  <2>4. ASSUME NEW n \in Nodes, next'[n] # NULL
        PROVE  ~StrLess(nodes[next'[n]].ASCII, nodes[n].ASCII)
    <3>1. CASE n = node
      <4>1. next'[n] = next[current]
        BY <1>0, <2>1, <3>1, Inserting
      <4> QED
        BY <1>2, <2>4, <3>1, <4>1 DEF After
    <3>2. CASE n = current
      <4>1. next'[n] = node
        BY <1>0, <2>1, <3>2, Inserting
      <4> QED
        BY <1>0, <3>2, <4>1, StrLessAsymmetric DEF After
    <3>3. CASE n # node /\ n # current
      <4>1. n \in Linked /\ next'[n] = next[n]
        BY <1>0, <2>1, <3>3, Inserting
      <4> QED
        BY <2>4, <4>1 DEF IInv, ListOrdered
    <3> QED
      BY <3>1, <3>2, <3>3
  <2> QED
    BY <1>0, <2>1, <2>2, <2>3, <2>4, LinkedIn
<1> QED
  BY <1>1, <1>2

LEMMA NextIInv == IInv /\ [Next]_vars => IInv'
<1> SUFFICES ASSUME IInv, [Next]_vars PROVE IInv'
  OBVIOUS
<1>1. CASE UNCHANGED vars
  <2>1. /\ UNCHANGED <<at, integers, nodes, next, head, current>>
        /\ Nodes' = Nodes /\ Linked' = Linked /\ node' = node
    BY <1>1 DEF vars, list, Nodes, Linked, node
  <2>2. (Shape /\ InsertInv)'
    BY <2>1 DEF IInv, Shape, InsertInv
  <2>3. WalkInv'
    BY <2>1 DEF IInv, WalkInv, After
  <2>4. ListOrdered'
    BY <2>1 DEF IInv, ListOrdered
  <2>5. EveryNodeOnce' /\ NoCircle'
    BY <2>1 DEF IInv, EveryNodeOnce, NoCircle, Acyclic
  <2> QED
    BY <2>2, <2>3, <2>4, <2>5 DEF IInv
<1> QED
  BY <1>1, ReadStep, MakeStep, InsertStep, WalkStep, WriteStep DEF Next, Work

-----------------------------------------------------------------------------
(* The theorems about the list. *)

\* The invariant above holds at every step of the program.
THEOREM IInvHolds == Spec => []IInv
BY InitIInv, NextIInv, PTL DEF Spec

(***************************************************************************)
(* insert_MyList_sorted keeps the list in the order of the strings at      *)
(* every moment, for words of any width and files of any length.           *)
(***************************************************************************)
THEOREM ListStaysOrdered == Spec => []ListOrdered
<1>1. IInv => ListOrdered
  BY DEF IInv
<1> QED
  BY <1>1, IInvHolds, PTL

(***************************************************************************)
(* No insertion loses a node, enters one twice or points two at one.       *)
(***************************************************************************)
THEOREM NoNodeIsLost == Spec => []EveryNodeOnce
<1>1. IInv => EveryNodeOnce
  BY DEF IInv
<1> QED
  BY <1>1, IInvHolds, PTL

(***************************************************************************)
(* The pointers run in no circle, so that the search for a place and the   *)
(* output only ever go forward: the reason why the program ends, for files *)
(* of any length.                                                          *)
(***************************************************************************)
THEOREM ListHasNoCircle == Spec => []NoCircle
<1>1. IInv => NoCircle
  BY DEF IInv
<1> QED
  BY <1>1, IInvHolds, PTL

-----------------------------------------------------------------------------
(* What the conversions make of the numbers. *)

LEMMA Contents ==
    ASSUME NEW n \in Numbers
    PROVE  /\ Word(n) \in Words
           /\ create_MyList_node(n).mirror \in Words
           /\ create_MyList_node(n).counted \in 0..Width
           /\ create_MyList_node(n).ASCII = UIntToAscii(create_MyList_node(n).mirror)
           /\ create_MyList_node(n) \in
                [input : Words, mirror : Words, counted : 0..Width, ASCII : Seq(0..9)]
<1>1. Word(n) \in Words
  <2>1. n \in Int /\ PowerOf2[Width] \in Nat \ {0}
    BY NumbersAssumption, Weights
  <2> QED
    BY <2>1 DEF Word, Words
<1>2. BinaryMirror(Word(n)) \in Words /\ CountSequence(Word(n)) \in 0..Width
  BY <1>1, MirrorIs, CountIs
<1>3. UIntToAscii(BinaryMirror(Word(n))) \in Seq(0..9)
  <2>1. BinaryMirror(Word(n)) \in Nat
    BY <1>2 DEF Words
  <2> QED
    BY <2>1, UIntToAsciiIs
<1>4. create_MyList_node(n) =
        [input |-> Word(n), mirror |-> BinaryMirror(Word(n)), counted |-> CountSequence(Word(n)),
         ASCII |-> UIntToAscii(BinaryMirror(Word(n)))]
  BY DEF create_MyList_node
<1> QED
  BY <1>1, <1>2, <1>3, <1>4

\* A number's line is right for this number, and for no other word.
LEMMA RightLine ==
    ASSUME NEW m \in Numbers, NEW n \in Numbers, NEW line,
           line.mirror = create_MyList_node(m).mirror,
           line.counted = create_MyList_node(m).counted
    PROVE  Right(line, n) <=> Word(m) = Word(n)
<1>1. /\ Word(m) \in Words /\ Word(n) \in Words
      /\ line.mirror = BinaryMirror(Word(m)) /\ line.counted = CountSequence(Word(m))
  BY Contents DEF create_MyList_node
<1>2. \A k \in Indices : Bit(line.mirror, k) = Bit(Word(m), Width - 1 - k)
  BY <1>1, MirrorIs
<1>3. line.counted = Cardinality({k \in 0..(Width - 3) : (Word(m) \div PowerOf2[k]) % 8 = 2})
  BY <1>1, CountIs
<1>4. ASSUME Word(m) = Word(n) PROVE Right(line, n)
  BY <1>2, <1>3, <1>4 DEF Right
<1>5. ASSUME Right(line, n) PROVE Word(m) = Word(n)
  <2>1. \A k \in Indices : Bit(Word(m), Width - 1 - k) = Bit(Word(n), Width - 1 - k)
    BY <1>2, <1>5 DEF Right
  <2>2. \A k \in Indices : Width - 1 - k \in Indices /\ Width - 1 - (Width - 1 - k) = k
    BY Weights DEF Indices
  <2>3. \A k \in Indices : Bit(Word(m), k) = Bit(Word(n), k)
    <3>1. ASSUME NEW k \in Indices PROVE Bit(Word(m), k) = Bit(Word(n), k)
      <4>1. Bit(Word(m), Width - 1 - (Width - 1 - k)) = Bit(Word(n), Width - 1 - (Width - 1 - k))
        BY <2>1, <2>2
      <4> QED
        BY <2>2, <4>1
    <3> QED
      BY <3>1
  <2> QED
    BY <1>1, <2>3, SameBits
<1> QED
  BY <1>4, <1>5

-----------------------------------------------------------------------------
(***************************************************************************)
(* The second part of the invariant: where the nodes come from, and how    *)
(* far the output is.                                                      *)
(***************************************************************************)

\* The nodes are those of the first numbers, and of all of them in the end.
NodesRead ==
    /\ Len(nodes) <= Len(integers)
    /\ \A i \in Nodes : nodes[i] = create_MyList_node(integers[i])
    /\ at = "read" => Len(nodes) = 0
    /\ at \in {"write", "done"} => Len(nodes) = Len(integers)

\* The lines of the file are those of the nodes of a path, which starts at
\* the head, follows the pointers, meets no node twice, and is about to go on
\* with current.
Path(path) ==
    /\ path \in [1..Len(outFile) -> Nodes]
    /\ \A i, j \in 1..Len(outFile) : path[i] = path[j] => i = j
    /\ \A i \in 1..Len(outFile) : path[i] = IF i = 1 THEN head ELSE next[path[i - 1]]
    /\ current = IF Len(outFile) = 0 THEN head ELSE next[path[Len(outFile)]]
    /\ \A i \in 1..Len(outFile) :
         outFile[i] = [mirror |-> nodes[path[i]].mirror, counted |-> nodes[path[i]].counted]

Written ==
    /\ at \notin {"write", "done"} => outFile = <<>>
    /\ at \in {"write", "done"} => \E path : Path(path)
    /\ at = "done" => current = NULL

\* The types that the proofs of the list do without.
Sizes ==
    /\ Len(integers) <= ArraySize
    /\ outFile \in Seq([mirror : Words, counted : 0..Width])

OutputInv == NodesRead /\ Written /\ Sizes

\* Every node is that of some number.
LEMMA NodeIs ==
    ASSUME Shape, NEW i \in Nodes
    PROVE  /\ \E n \in Numbers : nodes[i] = create_MyList_node(n)
           /\ nodes[i].mirror \in Words /\ nodes[i].counted \in 0..Width
           /\ nodes[i].ASCII = UIntToAscii(nodes[i].mirror)
<1>1. nodes[i] \in {create_MyList_node(n) : n \in Numbers}
  BY DEF Shape, Nodes
<1>2. PICK n \in Numbers : nodes[i] = create_MyList_node(n)
  BY <1>1
<1> QED
  BY <1>2, Contents

LEMMA InitOutput == Init => OutputInv
<1> SUFFICES ASSUME Init PROVE OutputInv
  OBVIOUS
<1>1. ArraySize \in Nat
  BY NumbersAssumption
<1> QED
  BY <1>1 DEF Init, OutputInv, NodesRead, Written, Sizes, Nodes

\* The numbers, the nodes and the file stay as they are.
LEMMA ListingUntouched ==
    ASSUME OutputInv, IInv, UNCHANGED <<integers, nodes, outFile>>,
           at \in {"make", "insert", "walk"}, at' \in {"make", "insert", "walk"}
    PROVE  OutputInv'
<1>1. Nodes' = Nodes
  BY DEF Nodes
<1>2. NodesRead'
  BY <1>1 DEF OutputInv, NodesRead
<1>3. Written'
  BY DEF OutputInv, Written
<1>4. Sizes'
  BY DEF OutputInv, Sizes
<1> QED
  BY <1>2, <1>3, <1>4 DEF OutputInv

LEMMA ReadOutput ==
    ASSUME IInv, OutputInv, Read \/ EndOfFile PROVE OutputInv'
<1>1. /\ at = "read" /\ at' \in {"read", "make"} /\ UNCHANGED <<nodes, outFile>>
      /\ Nodes' = Nodes /\ Nodes = {} /\ Len(nodes) = 0
  BY DEF Read, EndOfFile, list, Nodes, OutputInv, NodesRead
<1>2. Len(integers') \in Nat /\ Len(integers') <= ArraySize
  <2>1. integers \in Seq(Numbers) /\ Len(integers) \in Nat /\ ArraySize \in Nat
    BY NumbersAssumption DEF IInv, Shape
  <2>2. CASE Read
    <3>1. PICK n \in Numbers : integers' = Append(integers, n)
      BY <2>2 DEF Read
    <3>2. Len(integers') = Len(integers) + 1
      BY <2>1, <3>1
    <3> QED
      BY <2>1, <2>2, <3>2 DEF Read
  <2>3. CASE EndOfFile
    BY <2>1, <2>3 DEF EndOfFile, OutputInv, Sizes
  <2> QED
    BY <2>2, <2>3
<1> QED
  BY <1>1, <1>2 DEF OutputInv, NodesRead, Written, Sizes

LEMMA MakeOutput ==
    ASSUME IInv, OutputInv, Make PROVE OutputInv'
<1>0. /\ at = "make" /\ UNCHANGED <<integers, outFile, head>> /\ outFile = <<>>
      /\ Len(nodes) \in Nat /\ Len(integers) \in Nat /\ integers \in Seq(Numbers)
  BY DEF Make, OutputInv, Written, IInv, Shape
<1>1. CASE Len(nodes) < Len(integers)
  <2> DEFINE new == create_MyList_node(integers[Len(nodes) + 1])
  <2>1. at' = "insert" /\ nodes' = Append(nodes, new)
    BY <1>1 DEF Make
  <2>2. nodes \in Seq({create_MyList_node(n) : n \in Numbers})
    BY DEF IInv, Shape
  <2> HIDE DEF new
  <2>3. /\ Len(nodes') = Len(nodes) + 1 /\ nodes'[Len(nodes) + 1] = new
        /\ \A i \in 1..Len(nodes) : nodes'[i] = nodes[i]
    BY <2>1, <2>2
  <2>4. \A i \in Nodes' : i = Len(nodes) + 1 \/ i \in Nodes
    BY <1>0, <2>3 DEF Nodes
  <2>5. NodesRead'
    BY <1>0, <1>1, <2>1, <2>3, <2>4 DEF OutputInv, NodesRead, Nodes, new
  <2> QED
    BY <1>0, <2>1, <2>5 DEF OutputInv, Written, Sizes
<1>2. CASE ~(Len(nodes) < Len(integers))
  <2>1. at' = "write" /\ current' = head /\ UNCHANGED <<nodes, next>> /\ Nodes' = Nodes
    BY <1>2 DEF Make, Nodes
  <2>2. NodesRead'
    BY <1>0, <1>2, <2>1 DEF OutputInv, NodesRead
  <2> DEFINE path == [i \in 1..Len(outFile) |-> i]
  <2>3. Path(path)'
    BY <1>0, <2>1 DEF Path
  <2> QED
    BY <1>0, <2>1, <2>2, <2>3 DEF OutputInv, Written, Sizes
<1> QED
  BY <1>1, <1>2

\* What follows the path is not on it: the node has one predecessor at most,
\* and the head none.
LEMMA NewOnPath ==
    ASSUME IInv, OutputInv, at = "write", NEW path, Path(path), current # NULL
    PROVE  current \in Nodes /\ \A i \in 1..Len(outFile) : ~(path[i] = current)
<1> DEFINE len == Len(outFile)
<1>0. current \in Nodes /\ Linked = Nodes /\ len \in Nat
  BY DEF IInv, Shape, Linked, OutputInv, Sizes
<1>1. /\ \A i \in 1..len : path[i] \in Nodes
      /\ \A i, j \in 1..len : path[i] = path[j] => i = j
      /\ \A i \in 1..len : path[i] = IF i = 1 THEN head ELSE next[path[i - 1]]
      /\ current = IF len = 0 THEN head ELSE next[path[len]]
  BY DEF Path
<1> HIDE DEF len
<1>2. Chain(Nodes, next, head)
  BY <1>0, ChainIs DEF IInv, InsertInv
<1>3. SUFFICES ASSUME NEW i \in 1..len, path[i] = current PROVE FALSE
  BY <1>0 DEF len
<1>4. len \in 1..len /\ current = next[path[len]] /\ path[len] \in Nodes
  BY <1>0, <1>1
<1>5. CASE i = 1
  <2>1. head = next[path[len]] /\ head # NULL /\ head \in Nodes
    BY <1>0, <1>1, <1>3, <1>4, <1>5
  <2> QED
    BY <1>2, <1>4, <2>1 DEF Chain
<1>6. CASE i # 1
  <2>1. i - 1 \in 1..len /\ path[i - 1] \in Nodes /\ next[path[i - 1]] = next[path[len]]
    BY <1>0, <1>1, <1>3, <1>4, <1>6
  <2>2. path[i - 1] = path[len]
    BY <1>0, <1>2, <1>4, <2>1 DEF Chain
  <2>3. i - 1 = len
    BY <1>1, <1>4, <2>1, <2>2
  <2> QED
    BY <1>0, <2>3
<1> QED
  BY <1>5, <1>6

LEMMA WriteOutput ==
    ASSUME IInv, OutputInv, Write PROVE OutputInv'
<1>0. /\ at = "write" /\ UNCHANGED <<integers, nodes, next, head>> /\ Nodes' = Nodes
      /\ at' \in {"write", "done"}
  BY DEF Write, list, Nodes
<1>1. NodesRead'
  BY <1>0 DEF OutputInv, NodesRead
<1>2. PICK path : Path(path)
  BY <1>0 DEF OutputInv, Written
<1>3. CASE current = NULL
  <2>1. at' = "done" /\ UNCHANGED <<current, outFile>>
    BY <1>3 DEF Write
  <2>2. Path(path)'
    BY <1>0, <1>2, <2>1 DEF Path
  <2>3. Written'
    BY <1>3, <2>1, <2>2 DEF Written
  <2> QED
    BY <1>0, <1>1, <2>1, <2>3 DEF OutputInv, Sizes
<1>4. CASE current # NULL
  <2> DEFINE len == Len(outFile)
             Lines == [mirror : Words, counted : 0..Width]
             line == [mirror |-> nodes[current].mirror, counted |-> nodes[current].counted]
  <2>1. /\ at' = "write" /\ outFile' = Append(outFile, line) /\ current' = next[current]
    BY <1>4 DEF Write
  <2>2. current \in Nodes /\ \A i \in 1..len : ~(path[i] = current)
    BY <1>0, <1>2, <1>4, NewOnPath
  <2>3. line \in Lines
    BY <2>2, NodeIs DEF IInv
  <2>4. outFile \in Seq(Lines) /\ len \in Nat
    BY DEF OutputInv, Sizes
  <2> HIDE DEF Lines
  <2>5. /\ outFile' \in Seq(Lines) /\ Len(outFile') = len + 1
        /\ outFile'[len + 1] = line /\ \A i \in 1..len : outFile'[i] = outFile[i]
    <3> HIDE DEF line
    <3> QED
      BY <2>1, <2>3, <2>4, AppendProperties
  <2>6. /\ path \in [1..len -> Nodes]
        /\ \A i, j \in 1..len : path[i] = path[j] => i = j
        /\ \A i \in 1..len : path[i] = IF i = 1 THEN head ELSE next[path[i - 1]]
        /\ current = IF len = 0 THEN head ELSE next[path[len]]
        /\ \A i \in 1..len :
             outFile[i] = [mirror |-> nodes[path[i]].mirror, counted |-> nodes[path[i]].counted]
    BY <1>2 DEF Path
  <2>7. PICK path2 : /\ path2[len + 1] = current /\ \A i \in 1..len : path2[i] = path[i]
                     /\ path2 \in [1..(len + 1) -> Nodes]
    <3> DEFINE p == [i \in 1..(len + 1) |-> IF i = len + 1 THEN current ELSE path[i]]
    <3>1. /\ p[len + 1] = current /\ \A i \in 1..len : p[i] = path[i]
          /\ p \in [1..(len + 1) -> Nodes]
      BY <2>2, <2>4, <2>6
    <3> QED
      BY <3>1
  <2> HIDE DEF len, line
  <2>8. \A i \in 1..(len + 1) : i \in 1..len \/ i = len + 1
    BY <2>4
  <2>9. ASSUME NEW i \in 1..(len + 1), NEW j \in 1..(len + 1), path2[i] = path2[j]
        PROVE  i = j
    BY <2>2, <2>6, <2>7, <2>8, <2>9
  <2>10. ASSUME NEW i \in 1..(len + 1)
         PROVE  path2[i] = IF i = 1 THEN head ELSE next[path2[i - 1]]
    <3>1. CASE i \in 1..len
      <4>1. i # 1 => i - 1 \in 1..len
        BY <2>4, <3>1
      <4> QED
        BY <2>6, <2>7, <3>1, <4>1
    <3>2. CASE i = len + 1
      <4>1. (i = 1 <=> len = 0) /\ i - 1 = len /\ (len # 0 => len \in 1..len)
        BY <2>4, <3>2
      <4> QED
        BY <2>6, <2>7, <3>2, <4>1
    <3> QED
      BY <2>8, <3>1, <3>2
  <2>11. ASSUME NEW i \in 1..(len + 1)
         PROVE  outFile'[i] =
                  [mirror |-> nodes[path2[i]].mirror, counted |-> nodes[path2[i]].counted]
    BY <2>5, <2>6, <2>7, <2>8 DEF line
  <2>12. Path(path2)'
    <3>1. current' = IF len + 1 = 0 THEN head ELSE next[path2[len + 1]]
      BY <2>1, <2>4, <2>7
    <3> QED
      BY <1>0, <2>5, <2>7, <2>9, <2>10, <2>11, <3>1 DEF Path
  <2>13. Written'
    BY <2>1, <2>12 DEF Written
  <2> QED
    BY <1>0, <1>1, <2>5, <2>13 DEF OutputInv, Sizes, Lines
<1> QED
  BY <1>3, <1>4

LEMMA NextOutput == IInv /\ OutputInv /\ [Next]_vars => OutputInv'
<1> SUFFICES ASSUME IInv, OutputInv, [Next]_vars PROVE OutputInv'
  OBVIOUS
<1>1. CASE Insert \/ Walk
  <2>1. /\ UNCHANGED <<integers, nodes, outFile>>
        /\ at \in {"make", "insert", "walk"} /\ at' \in {"make", "insert", "walk"}
    BY <1>1 DEF Insert, Walk
  <2> QED
    BY <2>1, ListingUntouched
<1>2. CASE UNCHANGED vars
  <2>1. UNCHANGED <<at, integers, nodes, next, head, current, outFile>> /\ Nodes' = Nodes
    BY <1>2 DEF vars, list, Nodes
  <2>2. NodesRead'
    BY <2>1 DEF OutputInv, NodesRead
  <2>3. Written'
    BY <2>1 DEF OutputInv, Written, Path
  <2> QED
    BY <2>1, <2>2, <2>3 DEF OutputInv, Sizes
<1> QED
  BY <1>1, <1>2, ReadOutput, MakeOutput, WriteOutput DEF Next, Work

-----------------------------------------------------------------------------
(* The file that is left at the end. *)

LEMMA FirstNumbers ==
    ASSUME NEW N \in Nat
    PROVE  IsFiniteSet(1..N) /\ Cardinality(1..N) = N
<1>1. IsFiniteSet(1..N) /\ Cardinality(1..N) = IF 1 > N THEN 0 ELSE N - 1 + 1
  BY FS_Interval
<1> QED
  BY <1>1

\* At the end the path has met every node: the first one it missed would have
\* a predecessor on it.
LEMMA EveryNodeWritten ==
    ASSUME IInv, OutputInv, at = "done"
    PROVE  \E path : Path(path) /\ path \in Bijection(1..Len(outFile), Nodes)
<1> DEFINE len == Len(outFile)
<1>0. Linked = Nodes /\ len \in Nat /\ NULL \notin Nodes
  BY DEF Linked, OutputInv, Sizes, Nodes, NULL
<1>1. PICK path : Path(path)
  BY DEF OutputInv, Written
<1>2. /\ path \in [1..len -> Nodes]
      /\ \A i, j \in 1..len : path[i] = path[j] => i = j
      /\ \A i \in 1..len : path[i] = IF i = 1 THEN head ELSE next[path[i - 1]]
      /\ current = IF len = 0 THEN head ELSE next[path[len]]
      /\ current = NULL
  BY <1>1 DEF Path, OutputInv, Written
<1> HIDE DEF len
<1>3. Chain(Nodes, next, head) /\ Acyclic(Nodes, next)
  BY <1>0, ChainIs DEF IInv, InsertInv, NoCircle
<1>4. PICK rank \in [Nodes -> Nat] : \A n \in Nodes : next[n] # NULL => rank[n] < rank[next[n]]
  BY <1>3 DEF Acyclic
<1>5. ASSUME NEW n \in Nodes, \A i \in 1..len : ~(path[i] = n) PROVE FALSE
  <2> DEFINE Missed == {m \in Nodes : \A i \in 1..len : ~(path[i] = m)}
             Ranks == {rank[m] : m \in Missed}
  <2>1. PICK r \in Ranks : \A q \in Ranks : r <= q
    <3>1. Ranks \subseteq Nat /\ Ranks # {}
      BY <1>4, <1>5
    <3> HIDE DEF Ranks
    <3> QED
      BY <3>1, LeastElement
  <2>2. PICK m \in Missed : rank[m] = r
    OBVIOUS
  <2>3. m \in Nodes /\ m # NULL /\ (\A i \in 1..len : ~(path[i] = m)) /\ rank[m] \in Nat
    BY <1>0, <1>4
  <2>4. m # head
    <3>1. CASE len = 0
      BY <1>2, <2>3, <3>1
    <3>2. CASE len # 0
      <4>1. 1 \in 1..len
        BY <1>0, <3>2
      <4> QED
        BY <1>2, <2>3, <4>1
    <3> QED
      BY <3>1, <3>2
  <2>5. PICK p \in Nodes : next[p] = m
    BY <1>3, <2>3, <2>4 DEF Chain
  <2>6. rank[p] < rank[m] /\ rank[p] \in Nat
    BY <1>4, <2>3, <2>5
  <2>7. p \notin Missed
    <3> SUFFICES ASSUME p \in Missed PROVE FALSE
      OBVIOUS
    <3>1. rank[p] \in Ranks
      OBVIOUS
    <3>2. rank[m] <= rank[p]
      BY <2>1, <2>2, <3>1
    <3> QED
      BY <2>3, <2>6, <3>2
  <2>8. PICK i \in 1..len : path[i] = p
    BY <2>7
  <2>9. CASE i = len
    BY <1>2, <2>3, <2>5, <2>8, <2>9
  <2>10. CASE i # len
    <3>1. i + 1 \in 1..len /\ i + 1 # 1 /\ (i + 1) - 1 = i
      BY <1>0, <2>10
    <3>2. path[i + 1] = next[path[i]]
      BY <1>2, <3>1
    <3> QED
      BY <2>3, <2>5, <2>8, <3>1, <3>2
  <2> QED
    BY <2>9, <2>10
<1>6. path \in Bijection(1..len, Nodes)
  BY <1>2, <1>5 DEF Bijection, Injection, Surjection, IsInjective
<1> QED
  BY <1>1, <1>6 DEF len

\* Numbers are paired with lines by the path.
LEMMA OutputIs == IInv /\ OutputInv => OutputIsSortedInput
<1> SUFFICES ASSUME IInv, OutputInv, at = "done"
             PROVE  /\ Len(outFile) = Len(integers)
                    /\ \A n \in Numbers :
                         Cardinality({i \in DOMAIN integers : Word(integers[i]) = Word(n)}) =
                         Cardinality({i \in DOMAIN outFile : Right(outFile[i], n)})
                    /\ \A i \in 1..(Len(outFile) - 1) :
                         ~StrLess(UIntToAscii(outFile[i + 1].mirror), UIntToAscii(outFile[i].mirror))
  BY DEF OutputIsSortedInput
<1> DEFINE len == Len(outFile)
<1>1. PICK path : Path(path) /\ path \in Bijection(1..len, Nodes)
  BY EveryNodeWritten
<1>2. /\ integers \in Seq(Numbers) /\ Len(integers) \in Nat /\ len \in Nat
      /\ Nodes = 1..Len(integers) /\ DOMAIN integers = 1..Len(integers)
      /\ DOMAIN outFile = 1..len /\ Linked = Nodes
  BY DEF IInv, Shape, OutputInv, Sizes, NodesRead, Nodes, Linked
<1>3. Len(outFile) = Len(integers)
  <2>1. ExistsBijection(1..len, Nodes)
    BY <1>1 DEF ExistsBijection
  <2>2. IsFiniteSet(1..len) /\ Cardinality(1..len) = len
    BY <1>2, FirstNumbers
  <2>3. Cardinality(1..Len(integers)) = Len(integers)
    BY <1>2, FirstNumbers
  <2>4. Cardinality(Nodes) = Cardinality(1..len)
    BY <2>1, <2>2, FS_Bijection
  <2> QED
    BY <1>2, <2>2, <2>3, <2>4
<1>4. /\ \A i \in 1..len : path[i] \in Nodes
      /\ \A i \in 1..len : path[i] = IF i = 1 THEN head ELSE next[path[i - 1]]
      /\ \A i \in 1..len :
           outFile[i] = [mirror |-> nodes[path[i]].mirror, counted |-> nodes[path[i]].counted]
  BY <1>1 DEF Path
<1>5. ASSUME NEW i \in 1..len
      PROVE  /\ path[i] \in Nodes /\ outFile[i].mirror = nodes[path[i]].mirror
             /\ nodes[path[i]].ASCII = UIntToAscii(outFile[i].mirror)
             /\ integers[path[i]] \in Numbers
             /\ outFile[i].mirror = create_MyList_node(integers[path[i]]).mirror
             /\ outFile[i].counted = create_MyList_node(integers[path[i]]).counted
  <2>1. path[i] \in Nodes /\ outFile[i].mirror = nodes[path[i]].mirror
        /\ outFile[i].counted = nodes[path[i]].counted
    <3>1. outFile[i] = [mirror |-> nodes[path[i]].mirror, counted |-> nodes[path[i]].counted]
      BY <1>4
    <3> QED
      BY <1>4, <3>1
  <2>2. nodes[path[i]].ASCII = UIntToAscii(nodes[path[i]].mirror)
    BY <2>1, NodeIs DEF IInv
  <2>3. nodes[path[i]] = create_MyList_node(integers[path[i]])
    BY <2>1 DEF OutputInv, NodesRead
  <2>4. integers[path[i]] \in Numbers
    BY <1>2, <2>1
  <2> QED
    BY <2>1, <2>2, <2>3, <2>4
<1> HIDE DEF len
<1>6. ASSUME NEW n \in Numbers
      PROVE  Cardinality({i \in DOMAIN integers : Word(integers[i]) = Word(n)}) =
             Cardinality({i \in DOMAIN outFile : Right(outFile[i], n)})
  <2> DEFINE A == {i \in 1..len : Right(outFile[i], n)}
             B == {i \in Nodes : Word(integers[i]) = Word(n)}
             onA == [i \in A |-> path[i]]
  <2>1. \A i \in 1..len : Right(outFile[i], n) <=> Word(integers[path[i]]) = Word(n)
    BY <1>5, RightLine
  <2>2. \A i \in 1..len : i \in A <=> path[i] \in B
    BY <1>5, <2>1
  <2>3. A \subseteq 1..len /\ B \subseteq Nodes
    OBVIOUS
  <2> HIDE DEF A, B
  <2>4. /\ path \in [1..len -> Nodes]
        /\ \A i, j \in 1..len : path[i] = path[j] => i = j
        /\ \A j \in Nodes : \E i \in 1..len : path[i] = j
    BY <1>1 DEF Bijection, Injection, Surjection, IsInjective, len
  <2>5. onA \in Bijection(A, B)
    <3>1. onA \in [A -> B] /\ \A i \in A : onA[i] = path[i]
      BY <2>2, <2>3, <2>4
    <3> HIDE DEF onA
    <3>2. \A i, j \in A : onA[i] = onA[j] => i = j
      BY <2>3, <2>4, <3>1
    <3>3. \A j \in B : \E i \in A : onA[i] = j
      BY <2>2, <2>3, <2>4, <3>1
    <3> QED
      BY <3>1, <3>2, <3>3 DEF Bijection, Injection, Surjection, IsInjective
  <2>6. IsFiniteSet(A)
    BY <1>2, <2>3, FirstNumbers, FS_Subset
  <2>7. Cardinality(B) = Cardinality(A)
    <3>1. ExistsBijection(A, B)
      BY <2>5 DEF ExistsBijection
    <3> QED
      BY <2>6, <3>1, FS_Bijection
  <2>8. /\ A = {i \in DOMAIN outFile : Right(outFile[i], n)}
        /\ B = {i \in DOMAIN integers : Word(integers[i]) = Word(n)}
    BY <1>2 DEF A, B
  <2> QED
    BY <2>7, <2>8
<1>7. ASSUME NEW i \in 1..(len - 1)
      PROVE  ~StrLess(UIntToAscii(outFile[i + 1].mirror), UIntToAscii(outFile[i].mirror))
  <2>1. i \in 1..len /\ i + 1 \in 1..len /\ i + 1 # 1 /\ (i + 1) - 1 = i
    BY <1>2
  <2>2. path[i + 1] = next[path[i]] /\ path[i] \in Linked /\ path[i + 1] \in Nodes
    BY <1>2, <1>4, <1>5, <2>1 DEF len
  <2>3. next[path[i]] # NULL
    BY <2>2 DEF Nodes, NULL
  <2>4. ~StrLess(nodes[path[i + 1]].ASCII, nodes[path[i]].ASCII)
    BY <2>2, <2>3 DEF IInv, ListOrdered
  <2> QED
    BY <1>5, <2>1, <2>4
<1> QED
  BY <1>3, <1>6, <1>7 DEF len

-----------------------------------------------------------------------------
(* The theorems about the output. *)

LEMMA TypesAre == IInv /\ OutputInv => TypeOK
<1> SUFFICES ASSUME IInv, OutputInv PROVE TypeOK
  OBVIOUS
<1> DEFINE Node == [input : Words, mirror : Words, counted : 0..Width, ASCII : Seq(0..9)]
<1>1. nodes \in Seq(Node)
  <2>1. nodes \in Seq({create_MyList_node(n) : n \in Numbers})
    BY DEF IInv, Shape
  <2>2. {create_MyList_node(n) : n \in Numbers} \subseteq Node
    BY Contents
  <2> HIDE DEF Node
  <2>3. \A i \in 1..Len(nodes) : nodes[i] \in Node
    BY <2>1, <2>2
  <2>4. nodes \in [1..Len(nodes) -> Node] /\ Len(nodes) \in Nat
    BY <2>1, <2>3
  <2> QED
    BY <2>4
<1> QED
  BY <1>1 DEF IInv, Shape, OutputInv, Sizes, TypeOK

\* The output is at every step that of the path walked so far.
THEOREM OutputInvHolds == Spec => []OutputInv
<1>1. Init => OutputInv
  BY InitOutput
<1>2. IInv /\ OutputInv /\ [Next]_vars => OutputInv'
  BY NextOutput
<1> QED
  BY <1>1, <1>2, IInvHolds, PTL DEF Spec

(***************************************************************************)
(* Whatever a file holds, the conversions make words of Width bits and     *)
(* strings of digits of it, and no read goes past the array.               *)
(***************************************************************************)
THEOREM TypesHold == Spec => []TypeOK
BY TypesAre, IInvHolds, OutputInvHolds, PTL

(***************************************************************************)
(* The program does what it is for: when main is done, the file holds each *)
(* number's mirror and count once for each time it was read, and no line's *)
(* string comes before the one of the line above.                          *)
(***************************************************************************)
THEOREM OutputIsRight == Spec => []OutputIsSortedInput
BY OutputIs, IInvHolds, OutputInvHolds, PTL

LEMMA CharIs ==
    ASSUME NEW s \in Seq(0..9), NEW k \in 1..11
    PROVE  Char(s, k) \in -1..9 /\ Char(s, k) \in Int
<1>1. CASE k <= Len(s)
  <2>1. s[k] \in 0..9
    BY <1>1
  <2> QED
    BY <1>1, <2>1 DEF Char
<1>2. CASE ~(k <= Len(s))
  BY <1>2 DEF Char
<1> QED
  BY <1>1, <1>2

\* strcmp orders the strings in a row: what does not come before a string
\* does not come before one that this one does not come before.
LEMMA NotBeforeIsTransitive ==
    ASSUME NEW s \in Seq(0..9), NEW t \in Seq(0..9), NEW u \in Seq(0..9),
           ~StrLess(t, s), ~StrLess(u, t)
    PROVE  ~StrLess(u, s)
<1> SUFFICES ASSUME StrLess(u, s) PROVE FALSE
  OBVIOUS
<1>1. PICK k \in 1..11 :
        /\ \A j \in 1..(k - 1) : Char(u, j) = Char(s, j)
        /\ Char(u, k) < Char(s, k)
  BY DEF StrLess
<1> DEFINE T == {j \in 1..11 : ~(Char(t, j) = Char(s, j)) \/ ~(Char(t, j) = Char(u, j))}
<1>2. \A j \in 1..11 :
        /\ Char(s, j) \in -1..9 /\ Char(t, j) \in -1..9 /\ Char(u, j) \in -1..9
        /\ Char(s, j) \in Int /\ Char(t, j) \in Int /\ Char(u, j) \in Int
  BY CharIs
<1>3. k \in T
  <2>1. Char(s, k) \in Int /\ Char(t, k) \in Int /\ Char(u, k) \in Int
    BY <1>2
  <2>2. ~(Char(u, k) = Char(s, k))
    BY <1>1, <2>1
  <2> QED
    BY <2>2
<1>4. PICK j \in T : \A i \in T : j <= i
  <2>1. T \subseteq Nat
    OBVIOUS
  <2> HIDE DEF T
  <2> QED
    BY <1>3, <2>1, LeastElement
<1>5. j \in 1..k /\ \A i \in 1..(j - 1) : Char(t, i) = Char(s, i) /\ Char(t, i) = Char(u, i)
  <2>1. j <= k /\ j \in 1..11
    BY <1>3, <1>4
  <2>2. ASSUME NEW i \in 1..(j - 1) PROVE i \in 1..11 /\ i \notin T
    <3>1. i \in 1..11 /\ ~(j <= i)
      BY <2>1
    <3> QED
      BY <1>4, <3>1
  <2> QED
    BY <2>1, <2>2
<1>6. Char(t, j) < Char(s, j) \/ Char(u, j) < Char(t, j)
  <2>0. Char(s, j) \in Int /\ Char(t, j) \in Int /\ Char(u, j) \in Int
    BY <1>2, <1>5
  <2>1. CASE j = k
    <3>1. Char(u, j) < Char(s, j)
      BY <1>1, <2>1
    <3> QED
      BY <2>0, <3>1
  <2>2. CASE j # k
    <3>1. j \in 1..(k - 1) /\ j \in 1..11
      BY <1>5, <2>2
    <3>2. Char(u, j) = Char(s, j) /\ ~(Char(t, j) = Char(s, j))
      BY <1>1, <3>1
    <3> QED
      BY <2>0, <3>2
  <2> QED
    BY <2>1, <2>2
<1>7. CASE Char(t, j) < Char(s, j)
  <2>1. StrLess(t, s)
    BY <1>2, <1>5, <1>7 DEF StrLess
  <2> QED
    BY <2>1
<1>8. CASE Char(u, j) < Char(t, j)
  <2>1. StrLess(u, t)
    BY <1>2, <1>5, <1>8 DEF StrLess
  <2> QED
    BY <2>1
<1> QED
  BY <1>6, <1>7, <1>8

\* The strings of the lines, in the order of the file.
Sorted ==
    at = "done" =>
        \A i, j \in 1..Len(outFile) :
          i <= j => ~StrLess(UIntToAscii(outFile[j].mirror), UIntToAscii(outFile[i].mirror))

LEMMA SortedIs == TypeOK /\ OutputIsSortedInput => Sorted
<1> DEFINE text == [i \in 1..Len(outFile) |-> UIntToAscii(outFile[i].mirror)]
           N == Len(outFile)
<1> SUFFICES ASSUME TypeOK, OutputIsSortedInput, at = "done", NEW i \in 1..N, NEW j \in 1..N,
                    i <= j
             PROVE  ~StrLess(text[j], text[i])
  BY DEF Sorted
<1>1. N \in Nat /\ outFile \in Seq([mirror : Words, counted : 0..Width])
  BY DEF TypeOK
<1>2. \A k \in 1..N : text[k] \in Seq(0..9) /\ text[k] = UIntToAscii(outFile[k].mirror)
  <2>1. ASSUME NEW k \in 1..N PROVE UIntToAscii(outFile[k].mirror) \in Seq(0..9)
    <3>1. outFile[k].mirror \in Words
      <4>1. outFile[k] \in [mirror : Words, counted : 0..Width]
        BY <1>1, ElementOfSeq
      <4> QED
        BY <4>1
    <3>2. outFile[k].mirror \in Nat
      BY <3>1 DEF Words
    <3> QED
      BY <3>2, UIntToAsciiIs
  <2> QED
    BY <2>1
<1>3. \A k \in 1..(N - 1) : ~StrLess(text[k + 1], text[k])
  <2>1. ASSUME NEW k \in 1..(N - 1) PROVE ~StrLess(text[k + 1], text[k])
    <3>1. k \in 1..N /\ k + 1 \in 1..N
      BY <1>1
    <3>2. ~StrLess(UIntToAscii(outFile[k + 1].mirror), UIntToAscii(outFile[k].mirror))
      BY DEF OutputIsSortedInput
    <3> QED
      BY <1>2, <3>1, <3>2
  <2> QED
    BY <2>1
<1> HIDE DEF text
<1> DEFINE T == {d \in Nat : i + d <= N => ~StrLess(text[i + d], text[i])}
<1>4. 0 \in T
  <2>1. ~StrLess(text[i], text[i])
    BY StrLessAsymmetric
  <2>2. i + 0 = i
    OBVIOUS
  <2> QED
    BY <2>1, <2>2
<1>5. ASSUME NEW d \in 1..N, d - 1 \in T PROVE d \in T
  <2> SUFFICES ASSUME i + d <= N PROVE ~StrLess(text[i + d], text[i])
    OBVIOUS
  <2> DEFINE k == i + (d - 1)
  <2>1. k \in 1..(N - 1) /\ k \in 1..N /\ k + 1 \in 1..N /\ i + d = k + 1 /\ k <= N
    BY <1>1
  <2>2. ~StrLess(text[k], text[i])
    BY <1>5, <2>1
  <2> HIDE DEF k
  <2>3. ~StrLess(text[k + 1], text[k])
    BY <1>3, <2>1
  <2>4. ~StrLess(text[k + 1], text[i])
    BY <1>2, <2>1, <2>2, <2>3, NotBeforeIsTransitive
  <2> QED
    BY <2>1, <2>4
<1>6. \A d \in 0..N : d \in T
  <2> HIDE DEF T, N
  <2> QED
    BY <1>1, <1>4, <1>5, Induction
<1>7. j - i \in 0..N /\ i + (j - i) = j
  BY <1>1
<1>8. j - i \in T
  <2> HIDE DEF T
  <2> QED
    BY <1>6, <1>7
<1> QED
  BY <1>7, <1>8

(***************************************************************************)
(* The whole file is sorted and not only each pair of neighbours, since    *)
(* strcmp orders the strings: whatever is written later does not come      *)
(* before what is written now.                                             *)
(***************************************************************************)
THEOREM WholeFileSorted == Spec => []Sorted
BY SortedIs, TypesHold, OutputIsRight, PTL
=============================================================================

-------------------------- MODULE ByteStreamProofs --------------------------
(***************************************************************************)
(* Proofs about ByteStream, for any word, calls, layouts, buffer sizes and *)
(* layers: that the buffers are never overrun, that the error of the       *)
(* writer comes from something that failed, that the bytes reach the       *)
(* descriptor in order, and that the reader finds in them what was         *)
(* written, however they are cut into pieces.                              *)
(*                                                                         *)
(* First what a number, a primitive and a string are read as (PackedRead,  *)
(* PrimitiveRead), then the writer (BufferInv, OrderInv), then one item,   *)
(* one packet and the whole stream as the reader sees them (Pending,       *)
(* Within, Reads).                                                         *)
(***************************************************************************)
EXTENDS ByteStream, FiniteSetTheorems, SequenceTheorems, InductionLemmas, TLAPS

-----------------------------------------------------------------------------
(* Powers and digits.                                                      *)

\* p is what Power(b, j) is defined by.
Powers(p, b, j) == p[0] = 1 /\ \A i \in 1 .. j : p[i] = b * p[i - 1]

\* Power, as the function that it is defined by.
LEMMA PowerEquations ==
    ASSUME NEW b \in Nat \ {0}, NEW j \in Nat
    PROVE  \E p : Powers(p, b, j) /\ Power(b, j) = p[j]
  <1> DEFINE X == Nat \ {0}
             F == [z \in Nat \X X |-> b * z[2]]
             E(g) == [i \in 0 .. j |-> IF i = 0 THEN 1 ELSE b * g[i - 1]]
             p == CHOOSE g : g = E(g)
  <1>1. F \in [Nat \X X -> X] /\ 1 \in X
    <2>1. \A x \in X : b * x \in X
      OBVIOUS
    <2> QED
      BY <2>1
  <1>2. \A n \in Nat, x \in X : F[<<n, x>>] = b * x
    OBVIOUS
  <1> HIDE DEF F, X
  <1>3. PICK g \in [0 .. j -> X] : Iterates(g, j, 1, F)
    BY <1>1, Iteration
  <1>4. \A i \in 1 .. j : g[i] = b * g[i - 1]
    <2> TAKE i \in 1 .. j
    <2>1. i - 1 \in 0 .. j - 1 /\ i - 1 \in 0 .. j /\ (i - 1) + 1 = i /\ i \in Nat
      OBVIOUS
    <2>2. g[(i - 1) + 1] = F[<<(i - 1) + 1, g[i - 1]>>]
      BY <1>3, <2>1 DEF Iterates
    <2>3. g[i - 1] \in X
      BY <1>3, <2>1
    <2> QED
      BY <1>2, <2>1, <2>2, <2>3
  <1>5. g = E(g)
    <2>1. g = [i \in 0 .. j |-> g[i]] /\ g[0] = 1
      BY <1>3 DEF Iterates
    <2>2. \A i \in 0 .. j : g[i] = IF i = 0 THEN 1 ELSE b * g[i - 1]
      <3> HIDE DEF E
      <3> TAKE i \in 0 .. j
      <3>1. i = 0 \/ i \in 1 .. j
        OBVIOUS
      <3> QED
        BY <1>4, <2>1, <3>1
    <2>3. [i \in 0 .. j |-> g[i]] = E(g)
      BY <2>2
    <2> QED
      BY <2>1, <2>3
  <1>6. Power(b, j) = p[j]
    BY DEF Power
  <1> HIDE DEF E
  <1>7. p = E(p)
    BY <1>5
  <1> HIDE DEF p
  <1>8. Powers(p, b, j)
    <2>1. \A i \in 0 .. j : p[i] = IF i = 0 THEN 1 ELSE b * p[i - 1]
      BY <1>7 DEF E
    <2> QED
      BY <2>1 DEF Powers
  <1> QED
    BY <1>6, <1>8

\* Powers, by their equations.
LEMMA PowerFacts ==
    ASSUME NEW b \in Nat \ {0}, NEW j \in Nat
    PROVE  /\ Power(b, 0) = 1 /\ Power(b, j) \in Nat \ {0}
           /\ Power(b, j + 1) = b * Power(b, j)
  <1>1. PICK p : Powers(p, b, j) /\ Power(b, j) = p[j]
    BY PowerEquations
  <1>2. PICK q : Powers(q, b, j + 1) /\ Power(b, j + 1) = q[j + 1]
    BY PowerEquations
  <1>3. PICK r0 : Powers(r0, b, 0) /\ Power(b, 0) = r0[0]
    BY PowerEquations
  <1> DEFINE S == {i \in 0 .. j : p[i] \in Nat \ {0} /\ q[i] = p[i]}
  <1>4. 0 \in S
    BY <1>1, <1>2 DEF Powers
  <1>5. ASSUME NEW i \in 0 .. j - 1, i \in S PROVE i + 1 \in S
    <2>1. i + 1 \in 1 .. j /\ i + 1 \in 1 .. j + 1 /\ (i + 1) - 1 = i /\ i + 1 \in 0 .. j
      OBVIOUS
    <2>2. p[i + 1] = b * p[i] /\ q[i + 1] = b * q[i]
      BY <1>1, <1>2, <2>1 DEF Powers
    <2>3. p[i] \in Nat \ {0} /\ q[i] = p[i]
      BY <1>5
    <2>4. b * p[i] \in Nat \ {0}
      BY <2>3
    <2> QED
      BY <2>1, <2>2, <2>3, <2>4
  <1> HIDE DEF S
  <1>6. j \in S
    BY <1>4, <1>5, BoundedInduction
  <1>7. q[j + 1] = b * q[j]
    <2>1. j + 1 \in 1 .. j + 1 /\ (j + 1) - 1 = j
      OBVIOUS
    <2> QED
      BY <1>2, <2>1 DEF Powers
  <1> QED
    BY <1>1, <1>2, <1>3, <1>6, <1>7 DEF S, Powers

\* Powers of a base above 1 do not shrink.
LEMMA PowerGrows ==
    ASSUME NEW b \in Nat \ {0}, NEW i \in Nat, NEW j \in Nat, i <= j
    PROVE  Power(b, i) <= Power(b, j)
  <1> DEFINE S == {k \in Nat : Power(b, i) <= Power(b, i + k)}
  <1>1. 0 \in S
    BY PowerFacts
  <1>2. ASSUME NEW k \in Nat, k \in S PROVE k + 1 \in S
    <2>1. i + k \in Nat /\ (i + k) + 1 = i + (k + 1)
      OBVIOUS
    <2>2. PICK x, y, z : x = Power(b, i) /\ y = Power(b, i + k) /\ z = Power(b, i + (k + 1))
      OBVIOUS
    <2>3. x \in Nat /\ y \in Nat /\ z = b * y
      BY <2>1, <2>2, PowerFacts
    <2>4. x <= y
      BY <1>2, <2>2
    <2>5. y <= b * y
      BY <2>3
    <2>6. x <= z
      BY <2>3, <2>4, <2>5
    <2> QED
      BY <2>2, <2>6
  <1> HIDE DEF S
  <1>3. j - i \in S
    BY <1>1, <1>2, SetInduction
  <1> QED
    BY <1>3 DEF S

\* The digits of v to base b, the first of n of them worth the most.
Digit(b, n, v, i) == (v \div Power(b, n - i)) % b

\* Reading them one by one gives v.
LEMMA Digits ==
    ASSUME NEW b \in Nat \ {0}, NEW n \in Nat, NEW v \in Nat, v < Power(b, n)
    PROVE  /\ v \div Power(b, n) = 0 /\ v \div Power(b, 0) = v
           /\ \A i \in 1 .. n :
                /\ Digit(b, n, v, i) \in 0 .. b - 1
                /\ v \div Power(b, n - (i - 1)) \in 0 .. v
                /\ v \div Power(b, n - i) \in 0 .. v
                /\ v \div Power(b, n - i) = (v \div Power(b, n - (i - 1))) * b + Digit(b, n, v, i)
  <1>1. v \div Power(b, n) = 0 /\ v \div Power(b, 0) = v
    <2>1. PICK x : x = Power(b, n)
      OBVIOUS
    <2>2. x \in Nat \ {0} /\ v < x
      BY <2>1, PowerFacts
    <2>3. v \div x = 0
      BY <2>2
    <2>4. Power(b, 0) = 1
      BY PowerFacts
    <2> QED
      BY <2>1, <2>3, <2>4
  <1>2. ASSUME NEW i \in 1 .. n
        PROVE  /\ Digit(b, n, v, i) \in 0 .. b - 1
               /\ v \div Power(b, n - (i - 1)) \in 0 .. v
               /\ v \div Power(b, n - i) \in 0 .. v
               /\ v \div Power(b, n - i) = (v \div Power(b, n - (i - 1))) * b + Digit(b, n, v, i)
    <2>1. n - i \in Nat /\ n - (i - 1) = (n - i) + 1
      OBVIOUS
    <2>2. PICK x, y : x = Power(b, n - i) /\ y = Power(b, n - (i - 1))
      OBVIOUS
    <2>3. x \in Nat \ {0} /\ y = b * x
      BY <2>1, <2>2, PowerFacts
    <2>4. y \in Nat \ {0} /\ y = x * b
      BY <2>3
    <2>5. v \div (x * b) = (v \div x) \div b
      BY <2>3
    <2>6. \A z \in Nat \ {0} : v \div z \in Nat /\ v \div z <= v
      OBVIOUS
    <2>7. v \div x \in 0 .. v /\ v \div y \in 0 .. v
      BY <2>3, <2>4, <2>6
    <2>8. (v \div x) % b \in 0 .. b - 1 /\ v \div x = ((v \div x) \div b) * b + ((v \div x) % b)
      BY <2>7
    <2>9. Digit(b, n, v, i) = (v \div x) % b
      BY <2>2 DEF Digit
    <2> QED
      BY <2>2, <2>4, <2>5, <2>7, <2>8, <2>9
  <1> QED
    BY <1>1, <1>2

\* The groups of a number are as many as it has digits.
LEMMA GroupsFacts ==
    ASSUME NEW n \in 0 .. Word - 1
    PROVE  /\ Groups(n) \in 1 .. MaxGroups /\ n < Power(Group, Groups(n))
           /\ n < Group => Groups(n) = 1
  <1>1. Group \in Nat \ {0} /\ Group > 1 /\ MaxGroups \in Nat \ {0} /\ Word \in Nat
        /\ Word <= Power(Group, MaxGroups) /\ n \in Nat
    BY ByteAssumption
  <1> DEFINE K == {j \in 1 .. MaxGroups : n < Power(Group, j)}
             J == {j \in 1 .. MaxGroups - 1 : n >= Power(Group, j)}
  <1>2. /\ \A j : j \in K <=> j \in 1 .. MaxGroups /\ n < Power(Group, j)
        /\ \A j : j \in J <=> j \in 1 .. MaxGroups - 1 /\ n >= Power(Group, j)
    OBVIOUS
  <1>3. Groups(n) = 1 + Cardinality(J)
    BY DEF Groups
  <1> HIDE DEF K, J
  <1>4. \A j \in 1 .. MaxGroups : Power(Group, j) \in Nat
    <2> TAKE j \in 1 .. MaxGroups
    <2>1. j \in Nat
      OBVIOUS
    <2> QED
      BY <1>1, <2>1, PowerFacts
  <1>5. MaxGroups \in K
    <2>1. Power(Group, MaxGroups) \in Nat /\ MaxGroups \in 1 .. MaxGroups
      BY <1>1, <1>4
    <2>2. n < Word
      BY <1>1
    <2> QED
      BY <1>1, <1>2, <2>1, <2>2
  <1>6. PICK k \in K : \A j \in K : k <= j
    <2>1. K \in SUBSET Nat
      BY <1>2
    <2> QED
      BY <1>5, <2>1, LeastElement
  <1>7. k \in 1 .. MaxGroups /\ n < Power(Group, k)
    BY <1>2, <1>6
  <1>8. ASSUME NEW j \in 1 .. k - 1 PROVE j \in J
    <2>1. j \in 1 .. MaxGroups - 1 /\ j \in 1 .. MaxGroups /\ ~(k <= j)
      BY <1>1, <1>7
    <2>2. j \notin K
      BY <1>6, <2>1
    <2>3. ~(n < Power(Group, j)) /\ Power(Group, j) \in Nat
      BY <1>2, <1>4, <2>1, <2>2
    <2>4. n >= Power(Group, j)
      BY <1>1, <2>3
    <2> QED
      BY <1>2, <2>1, <2>4
  <1>9. ASSUME NEW j \in J PROVE j \in 1 .. k - 1
    <2>1. j \in 1 .. MaxGroups - 1 /\ j \in 1 .. MaxGroups /\ n >= Power(Group, j)
      <3>1. j \in 1 .. MaxGroups - 1 /\ n >= Power(Group, j)
        BY <1>2
      <3> QED
        BY <1>1, <3>1
    <2>2. Power(Group, j) \in Nat /\ Power(Group, k) \in Nat
      BY <1>4, <1>7, <2>1
    <2>3. CASE j < k
      BY <1>7, <2>1, <2>3
    <2>4. CASE ~(j < k)
      <3>1. j \in Nat /\ k \in Nat /\ k <= j
        BY <1>7, <2>1, <2>4
      <3>2. Power(Group, k) <= Power(Group, j)
        BY <1>1, <3>1, PowerGrows
      <3> QED
        BY <1>1, <1>7, <2>1, <2>2, <3>2
    <2> QED
      BY <2>3, <2>4
  <1>10. J = 1 .. k - 1
    BY <1>8, <1>9
  <1>11. Cardinality(1 .. k - 1) = k - 1
    <2>1. 1 \in Int /\ k - 1 \in Int
      BY <1>7
    <2>2. Cardinality(1 .. k - 1) = IF 1 > k - 1 THEN 0 ELSE (k - 1) - 1 + 1
      BY <2>1, FS_Interval
    <2> QED
      BY <1>7, <2>2
  <1>12. Groups(n) = k
    BY <1>3, <1>7, <1>10, <1>11
  <1>13. n < Group => k = 1
    <2>1. Power(Group, 1) = Group
      <3>1. Power(Group, 0 + 1) = Group * Power(Group, 0) /\ Power(Group, 0) = 1
        BY <1>1, PowerFacts
      <3>2. 0 + 1 = 1
        OBVIOUS
      <3> QED
        BY <1>1, <3>1, <3>2
    <2>2. n < Group => 1 \in K
      <3>1. 1 \in 1 .. MaxGroups
        BY <1>1
      <3> QED
        BY <1>2, <2>1, <3>1
    <2> QED
      BY <1>6, <1>7, <2>2
  <1> QED
    BY <1>7, <1>12, <1>13

-----------------------------------------------------------------------------
(* What is read is what was written.                                       *)

\* f starts with x and goes on with the step F.
Recurs(f, k, x, F) == f[0] = x /\ \A i \in 1 .. k : f[i] = F[<<i, f[i - 1]>>]

\* A recursive function, by its equations.
LEMMA Recursion ==
    ASSUME NEW X, NEW x \in X, NEW F \in [Nat \X X -> X], NEW k \in Nat
    PROVE  \E f \in [0 .. k -> X] : Recurs(f, k, x, F)
  <1>1. PICK g \in [0 .. k -> X] : Iterates(g, k, x, F)
    BY Iteration
  <1>2. \A i \in 1 .. k : g[i] = F[<<i, g[i - 1]>>]
    <2> TAKE i \in 1 .. k
    <2>1. i - 1 \in 0 .. k - 1 /\ (i - 1) + 1 = i
      OBVIOUS
    <2> QED
      BY <1>1, <2>1 DEF Iterates
  <1> QED
    BY <1>1, <1>2 DEF Iterates, Recurs

\* f is the function that Unpacked, or Assembled, is defined by.
Unpacks(f, s)   == f[0] = 0 /\ \A i \in 1 .. Len(s) : f[i] = (f[i - 1] * Group + (s[i] % Group)) % Word
Assembles(f, s) == f[0] = 0 /\ \A i \in 1 .. Len(s) : f[i] = f[i - 1] * (2 * Group) + s[i]

\* What a remainder is.
LEMMA Modulus == \A a \in Nat, m \in Nat \ {0} : a % m \in Nat
  OBVIOUS

\* Unpacked, as the function that it is defined by.
LEMMA UnpackEquations ==
    ASSUME NEW s \in Seq(Nat)
    PROVE  \E f : Unpacks(f, s) /\ Unpacked(s) = f[Len(s)]
  <1> DEFINE k == Len(s)
             B == [i \in Nat |-> IF i \in 1 .. k THEN s[i] ELSE 0]
             F == [z \in Nat \X Nat |-> (z[2] * Group + (B[z[1]] % Group)) % Word]
             E(g) == [i \in 0 .. k |-> IF i = 0 THEN 0 ELSE (g[i - 1] * Group + (s[i] % Group)) % Word]
             p == CHOOSE g : g = E(g)
  <1>1. Group \in Nat \ {0} /\ Word \in Nat \ {0} /\ k \in Nat
    BY ByteAssumption
  <1>2. B \in [Nat -> Nat] /\ \A i \in 1 .. k : B[i] = s[i]
    OBVIOUS
  <1>3. Unpacked(s) = p[k]
    BY DEF Unpacked
  <1> HIDE DEF B, k, E
  <1>4. \A n \in Nat, x \in Nat : (x * Group + (B[n] % Group)) % Word \in Nat
    <2> TAKE n \in Nat, x \in Nat
    <2>1. B[n] \in Nat
      BY <1>2
    <2>2. B[n] % Group \in Nat
      BY <1>1, <2>1, Modulus
    <2>3. x * Group + (B[n] % Group) \in Nat
      BY <1>1, <2>2
    <2> QED
      BY <1>1, <2>3, Modulus
  <1>5. F \in [Nat \X Nat -> Nat] /\ \A n \in Nat, x \in Nat : F[<<n, x>>] = (x * Group + (B[n] % Group)) % Word
    <2>1. ASSUME NEW z \in Nat \X Nat PROVE (z[2] * Group + (B[z[1]] % Group)) % Word \in Nat
      <3>1. z[1] \in Nat /\ z[2] \in Nat
        OBVIOUS
      <3> QED
        BY <1>4, <3>1
    <2>2. F \in [Nat \X Nat -> Nat]
      BY <2>1
    <2>3. \A z \in Nat \X Nat : F[z] = (z[2] * Group + (B[z[1]] % Group)) % Word
      OBVIOUS
    <2>4. ASSUME NEW n \in Nat, NEW x \in Nat PROVE F[<<n, x>>] = (x * Group + (B[n] % Group)) % Word
      <3> HIDE DEF F
      <3>1. PICK z : z = <<n, x>>
        OBVIOUS
      <3>2. z \in Nat \X Nat /\ z[1] = n /\ z[2] = x
        BY <3>1
      <3> QED
        BY <2>3, <3>1, <3>2
    <2> HIDE DEF F
    <2> QED
      BY <2>2, <2>4
  <1> HIDE DEF F
  <1>6. PICK g \in [0 .. k -> Nat] : g[0] = 0 /\ \A i \in 1 .. k : g[i] = F[<<i, g[i - 1]>>]
    <2>1. 0 \in Nat /\ F \in [Nat \X Nat -> Nat] /\ k \in Nat
      BY <1>1, <1>5
    <2>2. \E g \in [0 .. k -> Nat] : Recurs(g, k, 0, F)
      BY <2>1, Recursion
    <2> QED
      BY <2>2 DEF Recurs
  <1>7. \A i \in 0 .. k : g[i] = IF i = 0 THEN 0 ELSE (g[i - 1] * Group + (s[i] % Group)) % Word
    <2> TAKE i \in 0 .. k
    <2>1. CASE i = 0
      BY <1>6, <2>1
    <2>2. CASE i # 0
      <3>1. i \in 1 .. k /\ i \in Nat /\ i - 1 \in 0 .. k
        BY <1>1, <2>2
      <3>2. g[i - 1] \in Nat
        BY <1>6, <3>1
      <3>3. g[i] = F[<<i, g[i - 1]>>] /\ B[i] = s[i]
        BY <1>2, <1>6, <3>1
      <3>4. g[i] = (g[i - 1] * Group + (s[i] % Group)) % Word
        BY <1>5, <3>1, <3>2, <3>3
      <3> QED
        BY <2>2, <3>4
    <2> QED
      BY <2>1, <2>2
  <1>8. g = E(g)
    <2>1. g = [i \in 0 .. k |-> g[i]]
      BY <1>6
    <2>2. [i \in 0 .. k |-> g[i]] = E(g)
      BY <1>7 DEF E
    <2> QED
      BY <2>1, <2>2
  <1>9. p = E(p)
    BY <1>8
  <1> HIDE DEF p
  <1>10. \A i \in 0 .. k : p[i] = IF i = 0 THEN 0 ELSE (p[i - 1] * Group + (s[i] % Group)) % Word
    BY <1>9 DEF E
  <1>11. Unpacks(p, s)
    <2>1. p[0] = 0
      BY <1>1, <1>10
    <2>2. \A i \in 1 .. k : p[i] = (p[i - 1] * Group + (s[i] % Group)) % Word
      <3> TAKE i \in 1 .. k
      <3>1. i \in 0 .. k /\ i # 0
        BY <1>1
      <3> QED
        BY <1>10, <3>1
    <2> QED
      BY <2>1, <2>2 DEF Unpacks, k
  <1> QED
    BY <1>3, <1>11 DEF k

\* Assembled, as the function that it is defined by.
LEMMA AssembleEquations ==
    ASSUME NEW s \in Seq(Nat)
    PROVE  \E f : Assembles(f, s) /\ Assembled(s) = f[Len(s)]
  <1> DEFINE k == Len(s)
             B == [i \in Nat |-> IF i \in 1 .. k THEN s[i] ELSE 0]
             F == [z \in Nat \X Nat |-> z[2] * (2 * Group) + B[z[1]]]
             E(g) == [i \in 0 .. k |-> IF i = 0 THEN 0 ELSE g[i - 1] * (2 * Group) + s[i]]
             p == CHOOSE g : g = E(g)
  <1>1. 2 * Group \in Nat /\ k \in Nat
    BY ByteAssumption
  <1>2. B \in [Nat -> Nat] /\ \A i \in 1 .. k : B[i] = s[i]
    OBVIOUS
  <1>3. Assembled(s) = p[k]
    BY DEF Assembled
  <1> HIDE DEF B, k, E
  <1>4. \A n \in Nat, x \in Nat : x * (2 * Group) + B[n] \in Nat
    <2> TAKE n \in Nat, x \in Nat
    <2>1. B[n] \in Nat
      BY <1>2
    <2>2. \A a \in Nat, m \in Nat, c \in Nat : a * m + c \in Nat
      OBVIOUS
    <2> QED
      BY <1>1, <2>1, <2>2
  <1>5. F \in [Nat \X Nat -> Nat] /\ \A n \in Nat, x \in Nat : F[<<n, x>>] = x * (2 * Group) + B[n]
    <2>1. ASSUME NEW z \in Nat \X Nat PROVE z[2] * (2 * Group) + B[z[1]] \in Nat
      <3>1. z[1] \in Nat /\ z[2] \in Nat
        OBVIOUS
      <3> QED
        BY <1>4, <3>1
    <2>2. F \in [Nat \X Nat -> Nat]
      BY <2>1
    <2>3. \A z \in Nat \X Nat : F[z] = z[2] * (2 * Group) + B[z[1]]
      OBVIOUS
    <2>4. ASSUME NEW n \in Nat, NEW x \in Nat PROVE F[<<n, x>>] = x * (2 * Group) + B[n]
      <3> HIDE DEF F
      <3>1. PICK z : z = <<n, x>>
        OBVIOUS
      <3>2. z \in Nat \X Nat /\ z[1] = n /\ z[2] = x
        BY <3>1
      <3> QED
        BY <2>3, <3>1, <3>2
    <2> HIDE DEF F
    <2> QED
      BY <2>2, <2>4
  <1> HIDE DEF F
  <1>6. PICK g \in [0 .. k -> Nat] : g[0] = 0 /\ \A i \in 1 .. k : g[i] = F[<<i, g[i - 1]>>]
    <2>1. 0 \in Nat /\ F \in [Nat \X Nat -> Nat] /\ k \in Nat
      BY <1>1, <1>5
    <2>2. \E g \in [0 .. k -> Nat] : Recurs(g, k, 0, F)
      BY <2>1, Recursion
    <2> QED
      BY <2>2 DEF Recurs
  <1>7. \A i \in 0 .. k : g[i] = IF i = 0 THEN 0 ELSE g[i - 1] * (2 * Group) + s[i]
    <2> TAKE i \in 0 .. k
    <2>1. CASE i = 0
      BY <1>6, <2>1
    <2>2. CASE i # 0
      <3>1. i \in 1 .. k /\ i \in Nat /\ i - 1 \in 0 .. k
        BY <1>1, <2>2
      <3>2. g[i - 1] \in Nat
        BY <1>6, <3>1
      <3>3. g[i] = F[<<i, g[i - 1]>>] /\ B[i] = s[i]
        BY <1>2, <1>6, <3>1
      <3>4. g[i] = g[i - 1] * (2 * Group) + s[i]
        BY <1>5, <3>1, <3>2, <3>3
      <3> QED
        BY <2>2, <3>4
    <2> QED
      BY <2>1, <2>2
  <1>8. g = E(g)
    <2>1. g = [i \in 0 .. k |-> g[i]]
      BY <1>6
    <2>2. [i \in 0 .. k |-> g[i]] = E(g)
      BY <1>7 DEF E
    <2> QED
      BY <2>1, <2>2
  <1>9. p = E(p)
    BY <1>8
  <1> HIDE DEF p
  <1>10. \A i \in 0 .. k : p[i] = IF i = 0 THEN 0 ELSE p[i - 1] * (2 * Group) + s[i]
    BY <1>9 DEF E
  <1>11. Assembles(p, s)
    <2>1. p[0] = 0
      BY <1>1, <1>10
    <2>2. \A i \in 1 .. k : p[i] = p[i - 1] * (2 * Group) + s[i]
      <3> TAKE i \in 1 .. k
      <3>1. i \in 0 .. k /\ i # 0
        BY <1>1
      <3> QED
        BY <1>10, <3>1
    <2> QED
      BY <2>1, <2>2 DEF Assembles, k
  <1> QED
    BY <1>3, <1>11 DEF k

\* The constants, as the proofs use them.
LEMMA Bases ==
    /\ Group \in Nat \ {0, 1} /\ Word \in Nat \ {0} /\ Group < Word
    /\ Byte = 0 .. 2 * Group - 1 /\ Byte \subseteq Nat
    /\ MaxGroups \in Nat \ {0} /\ BufferSize \in Nat \ {0} /\ ReadSize \in Nat \ {0}
  <1>1. /\ Group \in Nat \ {0, 1} /\ Word \in Nat /\ Group < Word
        /\ MaxGroups \in Nat \ {0} /\ BufferSize \in Nat /\ 2 * MaxGroups <= BufferSize
        /\ ReadSize \in Nat \ {0}
    BY ByteAssumption, Zenon
  <1> QED
    BY <1>1 DEF Byte

\* What labcomm2014_write_packed32 makes of a number, labcomm2014_read_packed32
\* reads as that number: it ends with the first byte that has no top bit.
THEOREM PackedRead ==
    ASSUME NEW n \in 0 .. Word - 1
    PROVE  /\ Packed32(n) \in Seq(Byte)
           /\ Len(Packed32(n)) = Groups(n) /\ Groups(n) \in Nat \ {0}
           /\ \A i \in 1 .. Groups(n) : Packed32(n)[i] < Group <=> i = Groups(n)
           /\ Unpacked(Packed32(n)) = n
  <1> DEFINE k == Groups(n)
             s == Packed32(n)
  <1>1. k \in Nat \ {0} /\ n < Power(Group, k) /\ n \in Nat /\ n < Word
    BY GroupsFacts, Bases
  <1>2. s = [i \in 1 .. k |-> Digit(Group, k, n, i) + (IF i < k THEN Group ELSE 0)]
    BY DEF Packed32, Digit
  <1> HIDE DEF k, s
  <1>3. /\ n \div Power(Group, k) = 0 /\ n \div Power(Group, 0) = n
        /\ \A i \in 1 .. k :
             /\ Digit(Group, k, n, i) \in 0 .. Group - 1
             /\ n \div Power(Group, k - (i - 1)) \in 0 .. n
             /\ n \div Power(Group, k - i) \in 0 .. n
             /\ n \div Power(Group, k - i)
                  = (n \div Power(Group, k - (i - 1))) * Group + Digit(Group, k, n, i)
    <2>1. Group \in Nat \ {0}
      BY Bases
    <2> QED
      BY <1>1, <2>1, Digits
  <1>4. \A i \in 1 .. k : /\ s[i] \in Byte
                          /\ s[i] % Group = Digit(Group, k, n, i)
                          /\ s[i] < Group <=> i = k
    <2> TAKE i \in 1 .. k
    <2>1. PICK d : d = Digit(Group, k, n, i)
      OBVIOUS
    <2>2. d \in 0 .. Group - 1 /\ s[i] = d + (IF i < k THEN Group ELSE 0)
      BY <1>2, <1>3, <2>1
    <2>3. d % Group = d /\ (d + Group) % Group = d
      BY <2>2, Bases
    <2>4. CASE i < k
      <3>1. s[i] = d + Group /\ i # k
        BY <2>2, <2>4
      <3>2. s[i] \in Byte /\ ~(s[i] < Group)
        BY <2>2, <3>1, Bases
      <3> QED
        BY <2>1, <2>3, <3>1, <3>2
    <2>5. CASE ~(i < k)
      <3>1. i = k
        BY <1>1, <2>5
      <3>2. s[i] = d
        BY <2>2, <2>5, Bases
      <3>3. s[i] \in Byte /\ s[i] < Group
        BY <2>2, <3>2, Bases
      <3> QED
        BY <2>1, <2>3, <3>1, <3>2, <3>3
    <2> QED
      BY <2>4, <2>5
  <1>5. s \in Seq(Byte) /\ Len(s) = k
    <2>1. s = [i \in 1 .. k |-> s[i]]
      BY <1>2
    <2>2. s \in [1 .. k -> Byte]
      BY <1>4, <2>1
    <2> HIDE DEF s
    <2> QED
      BY <1>1, <2>2
  <1>6. PICK f : Unpacks(f, s) /\ Unpacked(s) = f[Len(s)]
    <2>1. s \in Seq(Nat)
      BY <1>5, Bases
    <2> QED
      BY <2>1, UnpackEquations
  <1> DEFINE S == {i \in 0 .. k : f[i] = n \div Power(Group, k - i)}
  <1>7. 0 \in S
    <2>1. k - 0 = k /\ 0 \in 0 .. k
      BY <1>1
    <2> QED
      BY <1>3, <1>6, <2>1 DEF Unpacks
  <1>8. ASSUME NEW i \in 0 .. k - 1, i \in S PROVE i + 1 \in S
    <2>1. i + 1 \in 1 .. k /\ (i + 1) - 1 = i /\ i + 1 \in 0 .. k
      BY <1>1
    <2>2. f[i + 1] = (f[i] * Group + (s[i + 1] % Group)) % Word
      BY <1>5, <1>6, <2>1 DEF Unpacks
    <2>3. PICK a, b, d : /\ a = n \div Power(Group, k - i) /\ b = n \div Power(Group, k - (i + 1))
                         /\ d = Digit(Group, k, n, i + 1)
      OBVIOUS
    <2>4. b \in 0 .. n /\ b = a * Group + d
      BY <1>3, <2>1, <2>3
    <2>5. f[i] = a /\ s[i + 1] % Group = d
      BY <1>4, <1>8, <2>1, <2>3
    <2>6. b % Word = b
      BY <1>1, <2>4, Bases
    <2> QED
      BY <2>1, <2>2, <2>3, <2>4, <2>5, <2>6
  <1> HIDE DEF S
  <1>9. k \in S
    <2>1. 0 .. k \subseteq S
      BY <1>1, <1>7, <1>8, BoundedInduction
    <2> QED
      BY <1>1, <2>1
  <1>10. f[k] = n
    <2>1. k - k = 0
      BY <1>1
    <2> QED
      BY <1>3, <1>9, <2>1 DEF S
  <1>11. Unpacked(s) = n
    BY <1>5, <1>6, <1>10
  <1> QED
    BY <1>1, <1>4, <1>5, <1>11 DEF k, s

\* A primitive is read as it was written, by its k bytes.
LEMMA PrimitiveRead ==
    ASSUME NEW k \in Nat, NEW v \in 0 .. Power(2 * Group, k) - 1
    PROVE  /\ Primitive(k, v) \in Seq(Byte) /\ Len(Primitive(k, v)) = k
           /\ Assembled(Primitive(k, v)) = v
  <1> DEFINE s == Primitive(k, v)
             B == 2 * Group
  <1>1. B \in Nat \ {0} /\ Byte = 0 .. B - 1
    BY Bases
  <1>2. s = [i \in 1 .. k |-> Digit(B, k, v, i)]
    BY DEF Primitive, Digit
  <1> HIDE DEF s
  <1>3. /\ v \div Power(B, k) = 0 /\ v \div Power(B, 0) = v
        /\ \A i \in 1 .. k :
             /\ Digit(B, k, v, i) \in 0 .. B - 1
             /\ v \div Power(B, k - i) = (v \div Power(B, k - (i - 1))) * B + Digit(B, k, v, i)
    <2>1. v \in 0 .. Power(B, k) - 1
      OBVIOUS
    <2> HIDE DEF B
    <2>2. Power(B, k) \in Nat
      BY <1>1, PowerFacts
    <2>3. v \in Nat /\ v < Power(B, k)
      BY <2>1, <2>2
    <2>4. B \in Nat \ {0}
      BY <1>1
    <2>5. /\ v \div Power(B, k) = 0 /\ v \div Power(B, 0) = v
          /\ \A i \in 1 .. k :
               /\ Digit(B, k, v, i) \in 0 .. B - 1
               /\ v \div Power(B, k - (i - 1)) \in 0 .. v
               /\ v \div Power(B, k - i) \in 0 .. v
               /\ v \div Power(B, k - i) = (v \div Power(B, k - (i - 1))) * B + Digit(B, k, v, i)
      BY <2>3, <2>4, Digits
    <2> QED
      BY <2>5
  <1>4. s \in Seq(Byte) /\ Len(s) = k
    <2>1. s = [i \in 1 .. k |-> s[i]] /\ \A i \in 1 .. k : s[i] \in Byte
      <3> HIDE DEF B
      <3>1. s = [i \in 1 .. k |-> s[i]]
        BY <1>2
      <3>2. \A i \in 1 .. k : s[i] = Digit(B, k, v, i)
        BY <1>2
      <3> QED
        BY <1>1, <1>3, <3>1, <3>2
    <2>2. s \in [1 .. k -> Byte]
      BY <2>1
    <2> QED
      BY <2>2
  <1>5. PICK f : Assembles(f, s) /\ Assembled(s) = f[Len(s)]
    <2>1. s \in Seq(Nat)
      BY <1>4, Bases
    <2> QED
      BY <2>1, AssembleEquations
  <1> DEFINE S == {i \in 0 .. k : f[i] = v \div Power(B, k - i)}
  <1>6. 0 \in S
    <2>1. k - 0 = k /\ 0 \in 0 .. k
      OBVIOUS
    <2> QED
      BY <1>3, <1>5, <2>1 DEF Assembles
  <1>7. ASSUME NEW i \in 0 .. k - 1, i \in S PROVE i + 1 \in S
    <2>1. i + 1 \in 1 .. k /\ (i + 1) - 1 = i /\ i + 1 \in 0 .. k
      OBVIOUS
    <2>2. f[i + 1] = f[i] * B + s[i + 1]
      BY <1>4, <1>5, <2>1 DEF Assembles
    <2> HIDE DEF B
    <2>3. s[i + 1] = Digit(B, k, v, i + 1)
      BY <1>2, <2>1
    <2>4. v \div Power(B, k - (i + 1)) = (v \div Power(B, k - i)) * B + Digit(B, k, v, i + 1)
      BY <1>3, <2>1
    <2>5. f[i] = v \div Power(B, k - i)
      BY <1>7
    <2> QED
      BY <2>1, <2>2, <2>3, <2>4, <2>5
  <1> HIDE DEF S
  <1>8. k \in S
    <2>1. 0 .. k \subseteq S
      BY <1>6, <1>7, BoundedInduction
    <2> QED
      BY <2>1
  <1>9. f[k] = v
    <2>1. k - k = 0
      OBVIOUS
    <2> QED
      BY <1>3, <1>8, <2>1 DEF S
  <1>10. Assembled(s) = v
    BY <1>4, <1>5, <1>9
  <1> QED
    BY <1>4, <1>10 DEF s

\* A number of one byte is read as a byte, too.
LEMMA SmallRead ==
    ASSUME NEW n \in 0 .. Group - 1
    PROVE  Len(Packed32(n)) = 1 /\ Assembled(Packed32(n)) = n
  <1>1. n \in 0 .. Word - 1 /\ n \in Nat
    BY Bases
  <1>2. PICK s : s = Packed32(n)
    OBVIOUS
  <1>3. Groups(n) = 1
    BY <1>1, Bases, GroupsFacts
  <1>4. s \in Seq(Byte) /\ Len(s) = 1 /\ Unpacked(s) = n
    BY <1>1, <1>2, <1>3, PackedRead
  <1>5. s[1] < Group
    <2>1. \A i \in 1 .. 1 : s[i] < Group <=> i = 1
      BY <1>1, <1>2, <1>3, PackedRead
    <2> QED
      BY <2>1
  <1>6. s[1] \in Nat /\ s \in Seq(Nat)
    <2>1. Byte \subseteq Nat
      BY Bases
    <2>2. s[1] \in Byte
      BY <1>4
    <2>3. s \in Seq(Nat)
      BY <1>4, <2>1, SeqMonotonic
    <2> QED
      BY <2>1, <2>2, <2>3
  <1>7. PICK f : Unpacks(f, s) /\ Unpacked(s) = f[Len(s)]
    BY <1>6, UnpackEquations
  <1>8. PICK g : Assembles(g, s) /\ Assembled(s) = g[Len(s)]
    BY <1>6, AssembleEquations
  <1>9. f[0] = 0 /\ f[1] = (0 * Group + (s[1] % Group)) % Word
    BY <1>4, <1>7 DEF Unpacks
  <1>10. g[0] = 0 /\ g[1] = 0 * (2 * Group) + s[1]
    BY <1>4, <1>8 DEF Assembles
  <1>11. s[1] % Group = s[1] /\ s[1] % Word = s[1]
    <2>1. \A a \in Nat, m \in Nat : a < m => a % m = a
      OBVIOUS
    <2>2. Group \in Nat /\ Word \in Nat /\ Group < Word
      BY Bases
    <2> QED
      BY <1>5, <1>6, <2>1, <2>2
  <1>12. f[1] = s[1]
    BY <1>6, <1>9, <1>11, Bases
  <1>13. g[1] = s[1]
    BY <1>6, <1>10, Bases
  <1> QED
    BY <1>2, <1>4, <1>7, <1>8, <1>12, <1>13

-----------------------------------------------------------------------------
(* Sequences one after the other.                                          *)

\* f[i] is the first i sequences of s, one after the other.
Flattens(f, s) == f[0] = <<>> /\ \A i \in 1 .. Len(s) : f[i] = f[i - 1] \o s[i]

\* FlattenSeq, as the function that it is defined by.
LEMMA FlattenEquations ==
    ASSUME NEW S, NEW s \in Seq(Seq(S))
    PROVE  \E f \in [0 .. Len(s) -> Seq(S)] : Flattens(f, s) /\ FlattenSeq(s) = f[Len(s)]
  <1> DEFINE k == Len(s)
             X == Seq(S)
             B == [i \in Nat |-> IF i \in 1 .. k THEN s[i] ELSE <<>>]
             F == [z \in Nat \X X |-> z[2] \o B[z[1]]]
             E(g) == [i \in 1 .. Len(s) |-> IF i = 1 THEN s[i] ELSE g[i - 1] \o s[i]]
             p == CHOOSE g : g = E(g)
  <1>1. k \in Nat /\ <<>> \in X /\ \A i \in 1 .. k : s[i] \in X
    BY EmptySeq
  <1>2. B \in [Nat -> X] /\ \A i \in 1 .. k : B[i] = s[i]
    <2> HIDE DEF X
    <2> QED
      BY <1>1
  <1>3. FlattenSeq(s) = IF k = 0 THEN s ELSE p[k]
    BY DEF FlattenSeq
  <1> HIDE DEF B, E
  <1>4. \A x \in X, n \in Nat : x \o B[n] \in X
    <2> TAKE x \in X, n \in Nat
    <2>1. B[n] \in Seq(S) /\ x \in Seq(S)
      BY <1>2
    <2> QED
      BY <2>1, ConcatProperties
  <1>5. F \in [Nat \X X -> X] /\ \A i \in Nat, x \in X : F[<<i, x>>] = x \o B[i]
    <2> HIDE DEF X
    <2>1. ASSUME NEW z \in Nat \X X PROVE z[2] \o B[z[1]] \in X
      <3>1. z[1] \in Nat /\ z[2] \in X
        OBVIOUS
      <3> QED
        BY <1>4, <3>1
    <2>2. F \in [Nat \X X -> X]
      BY <2>1
    <2>3. \A z \in Nat \X X : F[z] = z[2] \o B[z[1]]
      OBVIOUS
    <2>4. ASSUME NEW n \in Nat, NEW x \in X PROVE F[<<n, x>>] = x \o B[n]
      <3> HIDE DEF F
      <3>1. PICK z : z = <<n, x>>
        OBVIOUS
      <3>2. z \in Nat \X X /\ z[1] = n /\ z[2] = x
        BY <3>1
      <3> QED
        BY <2>3, <3>1, <3>2
    <2> HIDE DEF F
    <2> QED
      BY <2>2, <2>4
  <1> HIDE DEF F
  <1>6. PICK g \in [0 .. k -> X] : Recurs(g, k, <<>>, F)
    <2> DEFINE e == <<>>
    <2>1. e \in X /\ F \in [Nat \X X -> X] /\ k \in Nat
      BY <1>1, <1>5
    <2> HIDE DEF e, X, k
    <2>2. \E g \in [0 .. k -> X] : Recurs(g, k, e, F)
      BY <2>1, Recursion
    <2> QED
      BY <2>2 DEF e
  <1> HIDE DEF X, k
  <1>7. /\ g[0] = <<>>
        /\ \A i \in 1 .. k : i \in 0 .. k /\ i - 1 \in 0 .. k /\ i \in Nat
        /\ \A i \in 1 .. k : g[i] = F[<<i, g[i - 1]>>]
    BY <1>1, <1>6 DEF Recurs
  <1>8. \A i \in 1 .. k : g[i] = g[i - 1] \o s[i]
    <2> TAKE i \in 1 .. k
    <2>1. g[i - 1] \in X /\ g[i] = F[<<i, g[i - 1]>>] /\ i \in Nat
      BY <1>6, <1>7
    <2> QED
      BY <1>2, <1>5, <2>1
  <1>9. Flattens(g, s)
    BY <1>7, <1>8 DEF Flattens, k
  <1>10. CASE k = 0
    <2>1. s = <<>>
      BY <1>1, <1>10, EmptySeq DEF k
    <2>2. FlattenSeq(s) = g[k]
      BY <1>3, <1>7, <1>10, <2>1
    <2> QED
      BY <1>6, <1>9, <2>2 DEF k, X
  <1>11. CASE k # 0
    <2> DEFINE h == [i \in 1 .. k |-> g[i]]
    <2>1. ASSUME NEW i \in 1 .. k
          PROVE  g[i] = IF i = 1 THEN s[i] ELSE h[i - 1] \o s[i]
      <3>1. CASE i = 1
        <4>1. g[1] = <<>> \o s[1] /\ s[1] \in Seq(S)
          <5>1. i - 1 = 0 /\ 1 \in 1 .. k
            BY <1>1, <3>1
          <5>2. g[1] = <<>> \o s[1]
            BY <1>7, <1>8, <3>1, <5>1
          <5> QED
            BY <1>1, <5>1, <5>2 DEF X
        <4> QED
          BY <3>1, <4>1, ConcatEmptySeq
      <3>2. CASE i # 1
        <4>1. i - 1 \in 1 .. k
          BY <1>1, <3>2
        <4> QED
          BY <1>8, <3>2, <4>1
      <3> QED
        BY <3>1, <3>2
    <2>2. h = E(h)
      <3>1. \A i \in 1 .. k : h[i] = IF i = 1 THEN s[i] ELSE h[i - 1] \o s[i]
        BY <2>1
      <3>2. h = [i \in 1 .. k |-> h[i]]
        OBVIOUS
      <3> HIDE DEF h
      <3>3. [i \in 1 .. k |-> h[i]] = E(h)
        BY <3>1 DEF E, k
      <3> QED
        BY <3>2, <3>3
    <2>3. p = E(p)
      <3> HIDE DEF h
      <3> QED
        BY <2>2
    <2> HIDE DEF p
    <2>4. \A i \in 1 .. k : p[i] = IF i = 1 THEN s[i] ELSE p[i - 1] \o s[i]
      BY <2>3 DEF E, k
    <2> DEFINE I == {i \in 0 .. k : i # 0 => p[i] = g[i]}
    <2>5. 0 \in I
      BY <1>1
    <2>6. ASSUME NEW i \in 0 .. k - 1, i \in I PROVE i + 1 \in I
      <3>1. i + 1 \in 1 .. k /\ (i + 1) - 1 = i /\ i + 1 \in 0 .. k
        BY <1>1
      <3>2. p[i + 1] = IF i + 1 = 1 THEN s[i + 1] ELSE p[i] \o s[i + 1]
        BY <2>4, <3>1
      <3>3. g[i + 1] = IF i + 1 = 1 THEN s[i + 1] ELSE h[i] \o s[i + 1]
        BY <2>1, <3>1
      <3>4. CASE i = 0
        BY <3>1, <3>2, <3>3, <3>4
      <3>5. CASE i # 0
        <4>1. i \in 1 .. k /\ p[i] = g[i] /\ i + 1 # 1
          BY <1>1, <2>6, <3>5
        <4>2. h[i] = g[i]
          BY <4>1
        <4> QED
          BY <3>1, <3>2, <3>3, <4>1, <4>2
      <3> QED
        BY <3>4, <3>5
    <2> HIDE DEF I, h
    <2>7. k \in I
      <3>1. 0 .. k \subseteq I
        BY <1>1, <2>5, <2>6, BoundedInduction
      <3> QED
        BY <1>1, <3>1
    <2>8. FlattenSeq(s) = g[k]
      BY <1>3, <1>11, <2>7 DEF I
    <2> QED
      BY <1>6, <1>9, <2>8 DEF k, X
  <1> QED
    BY <1>10, <1>11

\* Sequences one after the other are a sequence.
LEMMA FlattenType ==
    ASSUME NEW S, NEW s \in Seq(Seq(S))
    PROVE  FlattenSeq(s) \in Seq(S)
  <1>1. PICK f \in [0 .. Len(s) -> Seq(S)] : Flattens(f, s) /\ FlattenSeq(s) = f[Len(s)]
    BY FlattenEquations
  <1> QED
    BY <1>1

\* Sequences that begin alike are flattened alike, as far as they do.
LEMMA FlattenAlike ==
    ASSUME NEW f, NEW g, NEW s, NEW t, Flattens(f, s), Flattens(g, t),
           Len(s) \in Nat, Len(t) \in Nat, NEW k \in Nat, k <= Len(s), k <= Len(t),
           \A i \in 1 .. k : s[i] = t[i]
    PROVE  f[k] = g[k]
  <1> DEFINE I == {i \in 0 .. k : f[i] = g[i]}
  <1>1. 0 \in I
    BY DEF Flattens
  <1>2. ASSUME NEW i \in 0 .. k - 1, i \in I PROVE i + 1 \in I
    <2>1. /\ i + 1 \in 1 .. k /\ (i + 1) - 1 = i /\ i + 1 \in 0 .. k
          /\ i + 1 \in 1 .. Len(s) /\ i + 1 \in 1 .. Len(t)
      OBVIOUS
    <2>2. f[i + 1] = f[i] \o s[i + 1] /\ g[i + 1] = g[i] \o t[i + 1]
      BY <2>1 DEF Flattens
    <2> QED
      BY <1>2, <2>1, <2>2
  <1> HIDE DEF I
  <1>3. 0 .. k \subseteq I
    BY <1>1, <1>2, BoundedInduction
  <1> QED
    BY <1>3 DEF I

\* One more sequence comes after the others.
LEMMA FlattenAppend ==
    ASSUME NEW S, NEW s \in Seq(Seq(S)), NEW x \in Seq(S)
    PROVE  FlattenSeq(Append(s, x)) = FlattenSeq(s) \o x
  <1> DEFINE k == Len(s)
             t == Append(s, x)
  <1>1. /\ t \in Seq(Seq(S)) /\ k \in Nat /\ Len(t) = k + 1 /\ t[k + 1] = x
        /\ \A i \in 1 .. k : s[i] = t[i]
    <2> DEFINE T == Seq(S)
    <2>1. s \in Seq(T) /\ x \in T
      OBVIOUS
    <2> HIDE DEF T
    <2>2. t \in Seq(T) /\ k \in Nat /\ Len(t) = k + 1 /\ t[k + 1] = x /\ \A i \in 1 .. k : s[i] = t[i]
      BY <2>1
    <2> QED
      BY <2>2 DEF T
  <1> HIDE DEF t, k
  <1>2. PICK f : Flattens(f, s) /\ FlattenSeq(s) = f[k]
    BY FlattenEquations DEF k
  <1>3. PICK g : Flattens(g, t) /\ FlattenSeq(t) = g[k + 1]
    BY <1>1, FlattenEquations
  <1>4. f[k] = g[k]
    <2>1. Len(s) \in Nat /\ Len(t) \in Nat /\ k <= Len(s) /\ k <= Len(t)
      BY <1>1 DEF k
    <2> QED
      BY <1>1, <1>2, <1>3, <2>1, FlattenAlike
  <1>5. g[k + 1] = g[k] \o x
    <2>1. k + 1 \in 1 .. Len(t) /\ (k + 1) - 1 = k
      BY <1>1
    <2> QED
      BY <1>1, <1>3, <2>1 DEF Flattens
  <1> QED
    BY <1>2, <1>3, <1>4, <1>5 DEF t

Associative(S) == \A a, b, d \in Seq(S) : (a \o b) \o d = a \o (b \o d)

\* Sequences come after each other in the same way however they are grouped.
LEMMA Associates ==
    ASSUME NEW S
    PROVE  Associative(S)
  <1>1. ASSUME NEW a \in Seq(S), NEW b \in Seq(S), NEW d \in Seq(S)
        PROVE  (a \o b) \o d = a \o (b \o d)
    BY ConcatAssociative
  <1> QED
    BY <1>1 DEF Associative

Chunks(s, S) == s \in Seq(Seq(S))

\* f[i] is the first i chunks of s, one after the other.
Flattening(f, s, S) ==
    /\ f[0] = <<>> /\ f[0] \in Seq(S)
    /\ \A i \in 1 .. Len(s) : s[i] \in Seq(S) /\ f[i] \in Seq(S) /\ f[i] = f[i - 1] \o s[i]

\* The chunks, one by one.
LEMMA ChunksFacts ==
    ASSUME NEW S, NEW s, Chunks(s, S)
    PROVE  /\ Len(s) \in Nat /\ \A i \in 1 .. Len(s) : s[i] \in Seq(S)
           /\ s # <<>> => /\ Len(s) \in Nat \ {0} /\ Chunks(Tail(s), S) /\ Len(Tail(s)) = Len(s) - 1
                          /\ \A i \in 1 .. Len(s) - 1 : Tail(s)[i] = s[i + 1]
  <1> DEFINE T == Seq(S)
  <1>1. s \in Seq(T)
    BY DEF Chunks
  <1> HIDE DEF T
  <1>2. Len(s) \in Nat /\ \A i \in 1 .. Len(s) : s[i] \in T
    BY <1>1
  <1>3. ASSUME s # <<>>
        PROVE  /\ Len(s) \in Nat \ {0} /\ Tail(s) \in Seq(T) /\ Len(Tail(s)) = Len(s) - 1
               /\ \A i \in 1 .. Len(s) - 1 : Tail(s)[i] = s[i + 1]
    BY <1>1, <1>3
  <1> QED
    BY <1>2, <1>3 DEF T, Chunks

\* FlattenSeq of chunks, by its equations.
LEMMA Flattened ==
    ASSUME NEW S, NEW s, Chunks(s, S)
    PROVE  \E f : Flattening(f, s, S) /\ FlattenSeq(s) = f[Len(s)]
  <1>1. s \in Seq(Seq(S))
    BY DEF Chunks
  <1>2. PICK f \in [0 .. Len(s) -> Seq(S)] : Flattens(f, s) /\ FlattenSeq(s) = f[Len(s)]
    BY <1>1, FlattenEquations
  <1>3. Len(s) \in Nat /\ \A i \in 1 .. Len(s) : s[i] \in Seq(S)
    BY ChunksFacts
  <1>4. \A i \in 0 .. Len(s) : f[i] \in Seq(S)
    OBVIOUS
  <1>5. PICK g, n : g = f /\ n = Len(s)
    OBVIOUS
  <1>6. /\ Flattens(g, s) /\ FlattenSeq(s) = g[n] /\ n \in Nat /\ n = Len(s)
        /\ \A i \in 1 .. n : s[i] \in Seq(S)
        /\ \A i \in 0 .. n : g[i] \in Seq(S)
    BY <1>2, <1>3, <1>4, <1>5
  <1>7. Flattening(g, s, S)
    <2>1. \A i \in 1 .. n : i \in 0 .. n
      BY <1>6
    <2>2. 0 \in 0 .. n
      BY <1>6
    <2> QED
      BY <1>6, <2>1, <2>2 DEF Flattening, Flattens
  <1> QED
    BY <1>6, <1>7

\* Nothing comes from no chunks.
LEMMA FlattenEmpty ==
    ASSUME NEW s, Len(s) = 0
    PROVE  FlattenSeq(s) = s
  BY DEF FlattenSeq

\* The first chunk comes before the others.
LEMMA FlattenCons ==
    ASSUME NEW S, NEW s, Chunks(s, S), s # <<>>
    PROVE  /\ s[1] \in Seq(S) /\ Chunks(Tail(s), S)
           /\ FlattenSeq(s) = s[1] \o FlattenSeq(Tail(s))
  <1> DEFINE k == Len(s)
             t == Tail(s)
  <1>1. /\ Chunks(t, S) /\ k \in Nat \ {0} /\ Len(t) = k - 1 /\ s[1] \in Seq(S)
        /\ \A i \in 1 .. k - 1 : t[i] = s[i + 1]
    <2>1. /\ \A i \in 1 .. Len(s) : s[i] \in Seq(S)
          /\ Len(s) \in Nat \ {0} /\ Chunks(Tail(s), S) /\ Len(Tail(s)) = Len(s) - 1
          /\ \A i \in 1 .. Len(s) - 1 : Tail(s)[i] = s[i + 1]
      BY ChunksFacts
    <2>2. 1 \in 1 .. Len(s)
      BY <2>1
    <2> QED
      BY <2>1, <2>2
  <1>2. PICK f : Flattening(f, s, S) /\ FlattenSeq(s) = f[k]
    <2>1. \E f : Flattening(f, s, S) /\ FlattenSeq(s) = f[Len(s)]
      BY Flattened
    <2> QED
      BY <2>1
  <1>3. PICK g : Flattening(g, t, S) /\ FlattenSeq(t) = g[k - 1]
    <2>1. \E g : Flattening(g, t, S) /\ FlattenSeq(t) = g[Len(t)]
      BY <1>1, Flattened
    <2> QED
      BY <1>1, <2>1
  <1>a. PICK c : c = s[1]
    OBVIOUS
  <1>b. c \in Seq(S)
    BY <1>1, <1>a
  <1>c. \A i \in 1 .. k : f[i] = f[i - 1] \o s[i]
    BY <1>2 DEF Flattening
  <1>d. \A i \in 1 .. k - 1 : g[i] = g[i - 1] \o s[i + 1] /\ s[i + 1] \in Seq(S) /\ g[i] \in Seq(S)
    BY <1>1, <1>3 DEF Flattening
  <1>e. g[0] = <<>> /\ f[0] = <<>> /\ g[0] \in Seq(S)
    BY <1>2, <1>3 DEF Flattening
  <1> HIDE DEF t, k
  <1> DEFINE I == {i \in 0 .. k - 1 : f[i + 1] = c \o g[i]}
  <1>4. 0 \in I
    <2>1. f[1] = <<>> \o c
      <3>1. 1 \in 1 .. k /\ 1 - 1 = 0
        BY <1>1
      <3> QED
        BY <1>a, <1>c, <1>e, <3>1
    <2>2. <<>> \o c = c /\ c \o <<>> = c
      BY <1>b, ConcatEmptySeq
    <2>3. 0 \in 0 .. k - 1 /\ 0 + 1 = 1
      BY <1>1
    <2> QED
      BY <1>e, <2>1, <2>2, <2>3
  <1>5. ASSUME NEW i \in 0 .. (k - 1) - 1, i \in I PROVE i + 1 \in I
    <2>1. /\ i + 1 \in 1 .. k - 1 /\ (i + 1) - 1 = i /\ i + 1 \in 0 .. k - 1 /\ i \in 0 .. k - 1
          /\ (i + 1) + 1 \in 1 .. k /\ ((i + 1) + 1) - 1 = i + 1
      BY <1>1
    <2>2. PICK x, y : x = g[i] /\ y = s[(i + 1) + 1]
      OBVIOUS
    <2>3. g[i + 1] = x \o y /\ y \in Seq(S)
      BY <1>d, <2>1, <2>2
    <2>4. f[(i + 1) + 1] = f[i + 1] \o y
      BY <1>c, <2>1, <2>2
    <2>5. f[i + 1] = c \o x
      BY <1>5, <2>2
    <2>6. x \in Seq(S)
      <3>1. CASE i = 0
        BY <1>e, <2>2, <3>1
      <3>2. CASE i # 0
        <4>1. i \in 1 .. k - 1
          BY <1>1, <3>2
        <4> QED
          BY <1>d, <2>2, <4>1
      <3> QED
        BY <3>1, <3>2
    <2>7. (c \o x) \o y = c \o (x \o y)
      BY <1>b, <2>3, <2>6, Associates DEF Associative
    <2>8. f[(i + 1) + 1] = c \o g[i + 1]
      BY <2>3, <2>4, <2>5, <2>7
    <2> QED
      BY <2>1, <2>8
  <1> HIDE DEF I
  <1>6. k - 1 \in I
    <2>1. k - 1 \in Nat
      BY <1>1
    <2>2. 0 .. k - 1 \subseteq I
      BY <1>4, <1>5, <2>1, BoundedInduction
    <2> QED
      BY <2>1, <2>2
  <1>7. f[k] = c \o g[k - 1]
    <2>1. (k - 1) + 1 = k
      BY <1>1
    <2> QED
      BY <1>6, <2>1 DEF I
  <1> QED
    BY <1>1, <1>2, <1>3, <1>7, <1>a DEF t

Continues(t, s, S) == \E u \in Seq(S) : t = s \o u

\* What is flattened first comes first.
LEMMA FlattenPrefix ==
    ASSUME NEW S, NEW s, Len(s) \in Nat, NEW f, Flattening(f, s, S),
           NEW m \in 0 .. Len(s), NEW n \in 0 .. Len(s), m <= n
    PROVE  Continues(f[n], f[m], S)
  <1>a. PICK c : c = f[m]
    OBVIOUS
  <1>b. c \in Seq(S)
    <2>1. CASE m = 0
      BY <2>1, <1>a DEF Flattening
    <2>2. CASE m # 0
      <3>1. m \in 1 .. Len(s)
        BY <2>2
      <3> QED
        BY <3>1, <1>a DEF Flattening
    <2> QED
      BY <2>1, <2>2
  <1> DEFINE I == {i \in 0 .. n - m : \E u \in Seq(S) : f[m + i] = c \o u}
  <1>1. 0 \in I
    <2>1. c = c \o <<>> /\ <<>> \in Seq(S) /\ m + 0 = m /\ 0 \in 0 .. n - m
      BY <1>b, ConcatEmptySeq, EmptySeq
    <2> QED
      BY <1>a, <2>1
  <1>2. ASSUME NEW i \in 0 .. (n - m) - 1, i \in I PROVE i + 1 \in I
    <2>1. PICK u \in Seq(S) : f[m + i] = c \o u
      BY <1>2
    <2>2. m + (i + 1) \in 1 .. Len(s) /\ (m + (i + 1)) - 1 = m + i /\ i + 1 \in 0 .. n - m
      OBVIOUS
    <2>3. PICK j : j = m + (i + 1)
      OBVIOUS
    <2>4. PICK x : x = s[j]
      OBVIOUS
    <2>5. f[j] = f[j - 1] \o x /\ x \in Seq(S)
      BY <2>2, <2>3, <2>4 DEF Flattening
    <2>6. u \o x \in Seq(S) /\ (c \o u) \o x = c \o (u \o x)
      <3>1. x \in Seq(S)
        BY <2>5
      <3>2. u \o x \in Seq(S)
        BY <3>1, ConcatProperties
      <3>3. (c \o u) \o x = c \o (u \o x)
        <4>1. Associative(S)
          BY Associates
        <4> QED
          BY <1>b, <3>1, <4>1 DEF Associative
      <3> QED
        BY <3>2, <3>3
    <2>7. f[m + (i + 1)] = c \o (u \o x)
      BY <2>1, <2>2, <2>3, <2>5, <2>6
    <2> QED
      BY <2>2, <2>6, <2>7
  <1> HIDE DEF I
  <1>3. n - m \in I
    <2>1. n - m \in Nat
      OBVIOUS
    <2>2. 0 .. n - m \subseteq I
      BY <1>1, <1>2, <2>1, BoundedInduction
    <2> QED
      BY <2>1, <2>2
  <1>4. m + (n - m) = n
    OBVIOUS
  <1> QED
    BY <1>3, <1>4, <1>a DEF I, Continues

-----------------------------------------------------------------------------
(* What the functions of a call write.                                     *)

\* Whatever is written is bytes.
LEMMA FieldBytes ==
    ASSUME NEW f, IsField(f)
    PROVE  Bytes(f) \in Seq(Byte)
  <1>1. CASE f.k = "packed"
    <2>1. f.v \in 0 .. Word - 1 /\ Bytes(f) = Packed32(f.v)
      BY <1>1 DEF IsField, IsNumber, Bytes
    <2> QED
      BY <2>1, PackedRead
  <1>2. CASE f.k = "prim"
    <2>1. f.n \in Nat /\ f.v \in 0 .. Power(2 * Group, f.n) - 1 /\ Bytes(f) = Primitive(f.n, f.v)
      BY <1>2 DEF IsField, Bytes
    <2> QED
      BY <2>1, PrimitiveRead
  <1>3. CASE f.k = "string"
    <2>1. f.v \in Seq(Byte) /\ Len(f.v) \in 0 .. Word - 1 /\ Bytes(f) = Packed32(Len(f.v)) \o f.v
      BY <1>3 DEF IsField, IsString, IsNumber, Bytes
    <2>2. Packed32(Len(f.v)) \in Seq(Byte)
      BY <2>1, PackedRead
    <2> QED
      BY <2>1, <2>2, ConcatProperties
  <1>4. CASE f.k = "raw"
    BY <1>4 DEF IsField, IsString, Bytes
  <1> QED
    BY <1>1, <1>2, <1>3, <1>4 DEF IsField

\* Two numbers that fit in a word.
LEMMA SmallNumbers ==
    0 \in 0 .. Word - 1 /\ 1 \in 0 .. Word - 1
  <1>1. Group \in Nat \ {0, 1} /\ Word \in Nat \ {0} /\ Group < Word
    BY Bases
  <1> QED
    BY <1>1

\* u is s, of m elements, and then t, of n.
IsJoined(u, s, m, t, n) ==
    /\ m \in Nat /\ n \in Nat /\ Len(u) = m + n /\ DOMAIN u = 1 .. m + n
    /\ \A i \in 1 .. m : u[i] = s[i]
    /\ \A i \in 1 .. n : u[m + i] = t[i]

\* Two sequences, one after the other.
LEMMA Joined ==
    ASSUME NEW S, NEW s \in Seq(S), NEW t \in Seq(S)
    PROVE  s \o t \in Seq(S) /\ IsJoined(s \o t, s, Len(s), t, Len(t))
  <1> DEFINE m == Len(s)
             n == Len(t)
  <1>1. m \in Nat /\ n \in Nat
    OBVIOUS
  <1>2. PICK u : u = s \o t
    OBVIOUS
  <1>3. /\ u \in Seq(S) /\ Len(u) = m + n
        /\ \A i \in 1 .. m + n : u[i] = IF i <= m THEN s[i] ELSE t[i - m]
    BY <1>2, ConcatProperties
  <1>4. \A i \in 1 .. m : i \in 1 .. m + n /\ i <= m
    BY <1>1
  <1>5. \A i \in 1 .. n : m + i \in 1 .. m + n /\ ~(m + i <= m) /\ (m + i) - m = i
    BY <1>1
  <1>6. DOMAIN u = 1 .. m + n
    BY <1>3
  <1> HIDE DEF m, n
  <1>7. IsJoined(u, s, m, t, n)
    BY <1>1, <1>3, <1>4, <1>5, <1>6 DEF IsJoined
  <1> QED
    BY <1>2, <1>3, <1>7 DEF m, n

\* The order of the bytes does not depend on how they are grouped.
LEMMA Regroup ==
    ASSUME NEW s \in Seq(Byte), NEW x \in Seq(Byte), NEW v \in Seq(Byte)
    PROVE  (s \o x) \o v = s \o (x \o v)
  BY Associates DEF Associative

\* The fields of a declaration, one by one.
LEMMA DeclarationFields ==
    ASSUME NEW c, ~IsSample(c)
    PROVE  /\ Len(Fields(c)) = 8 /\ DOMAIN Fields(c) = 1 .. 8
           /\ Fields(c)[1] = Number(c.tag) /\ Fields(c)[2] = Number(Length(c))
           /\ Fields(c)[3] = Number(c.index) /\ Fields(c)[4] = Number(1) /\ Fields(c)[5] = Number(0)
           /\ Fields(c)[6] = String(c.name) /\ Fields(c)[7] = Number(Len(c.sig))
           /\ Fields(c)[8] = Raw(c.sig)
  <1>1. PICK a, b, d, e, g, h, i, j :
          /\ a = Number(c.tag) /\ b = Number(Length(c)) /\ d = Number(c.index) /\ e = Number(1)
          /\ g = Number(0) /\ h = String(c.name) /\ i = Number(Len(c.sig)) /\ j = Raw(c.sig)
    OBVIOUS
  <1>2. PICK p, q, u, v : p = <<a, b>> /\ q = <<d>> /\ u = <<e, g, h>> /\ v = <<i, j>>
    OBVIOUS
  <1>3. Fields(c) = p \o ((q \o u) \o v)
    <2>1. Body(c) = (q \o u) \o v
      BY <1>1, <1>2 DEF Body, Intentions
    <2> QED
      BY <1>1, <1>2, <2>1 DEF Fields
  <1> DEFINE S == {a, b, d, e, g, h, i, j}
  <1>4. p \in Seq(S) /\ q \in Seq(S) /\ u \in Seq(S) /\ v \in Seq(S)
    BY <1>2
  <1>5. /\ Len(p) = 2 /\ p[1] = a /\ p[2] = b
        /\ Len(q) = 1 /\ q[1] = d
        /\ Len(u) = 3 /\ u[1] = e /\ u[2] = g /\ u[3] = h
        /\ Len(v) = 2 /\ v[1] = i /\ v[2] = j
    BY <1>2
  <1> HIDE DEF S
  <1>6. PICK x : x = q \o u
    OBVIOUS
  <1>7. x \in Seq(S) /\ Len(x) = 4 /\ x[1] = d /\ x[2] = e /\ x[3] = g /\ x[4] = h
    <2>1. /\ x \in Seq(S) /\ Len(x) = 1 + 3
          /\ \A n \in 1 .. 1 : x[n] = q[n]
          /\ \A n \in 1 .. 3 : x[1 + n] = u[n]
      <3>1. x \in Seq(S) /\ IsJoined(x, q, Len(q), u, Len(u))
        BY <1>4, <1>5, <1>6, Joined
      <3> QED
        BY <1>5, <3>1 DEF IsJoined
    <2>2. 1 \in 1 .. 1 /\ 1 \in 1 .. 3 /\ 2 \in 1 .. 3 /\ 3 \in 1 .. 3 /\ 1 + 1 = 2 /\ 1 + 2 = 3 /\ 1 + 3 = 4
      OBVIOUS
    <2>3. x[1] = q[1] /\ x[1 + 1] = u[1] /\ x[1 + 2] = u[2] /\ x[1 + 3] = u[3]
      BY <2>1, <2>2
    <2> QED
      BY <1>5, <2>1, <2>2, <2>3
  <1>8. PICK y : y = x \o v
    OBVIOUS
  <1>9. y \in Seq(S) /\ Len(y) = 6 /\ y[1] = d /\ y[2] = e /\ y[3] = g /\ y[4] = h /\ y[5] = i /\ y[6] = j
    <2>1. /\ y \in Seq(S) /\ Len(y) = 4 + 2
          /\ \A n \in 1 .. 4 : y[n] = x[n]
          /\ \A n \in 1 .. 2 : y[4 + n] = v[n]
      <3>1. y \in Seq(S) /\ IsJoined(y, x, Len(x), v, Len(v))
        BY <1>4, <1>5, <1>7, <1>8, Joined
      <3> QED
        BY <1>5, <1>7, <3>1 DEF IsJoined
    <2>2. /\ 1 \in 1 .. 4 /\ 2 \in 1 .. 4 /\ 3 \in 1 .. 4 /\ 4 \in 1 .. 4 /\ 1 \in 1 .. 2 /\ 2 \in 1 .. 2
          /\ 4 + 1 = 5 /\ 4 + 2 = 6
      OBVIOUS
    <2>3. y[1] = x[1] /\ y[2] = x[2] /\ y[3] = x[3] /\ y[4] = x[4] /\ y[4 + 1] = v[1] /\ y[4 + 2] = v[2]
      BY <2>1, <2>2
    <2> QED
      BY <1>5, <1>7, <2>1, <2>2, <2>3
  <1>10. PICK z : z = p \o y
    OBVIOUS
  <1>11. /\ Len(z) = 8 /\ DOMAIN z = 1 .. 8 /\ z[1] = a /\ z[2] = b /\ z[3] = d /\ z[4] = e
         /\ z[5] = g /\ z[6] = h /\ z[7] = i /\ z[8] = j
    <2>1. /\ Len(z) = 2 + 6 /\ DOMAIN z = 1 .. 2 + 6
          /\ \A n \in 1 .. 2 : z[n] = p[n]
          /\ \A n \in 1 .. 6 : z[2 + n] = y[n]
      <3>1. z \in Seq(S) /\ IsJoined(z, p, Len(p), y, Len(y))
        BY <1>4, <1>5, <1>9, <1>10, Joined
      <3> QED
        BY <1>5, <1>9, <3>1 DEF IsJoined
    <2>2. /\ 1 \in 1 .. 2 /\ 2 \in 1 .. 2
          /\ 1 \in 1 .. 6 /\ 2 \in 1 .. 6 /\ 3 \in 1 .. 6 /\ 4 \in 1 .. 6 /\ 5 \in 1 .. 6 /\ 6 \in 1 .. 6
          /\ 2 + 1 = 3 /\ 2 + 2 = 4 /\ 2 + 3 = 5 /\ 2 + 4 = 6 /\ 2 + 5 = 7 /\ 2 + 6 = 8
      OBVIOUS
    <2>3. /\ z[1] = p[1] /\ z[2] = p[2] /\ z[2 + 1] = y[1] /\ z[2 + 2] = y[2] /\ z[2 + 3] = y[3]
          /\ z[2 + 4] = y[4] /\ z[2 + 5] = y[5] /\ z[2 + 6] = y[6]
      BY <2>1, <2>2
    <2> QED
      BY <1>5, <1>9, <2>1, <2>2, <2>3
  <1>12. Fields(c) = z
    BY <1>3, <1>6, <1>8, <1>10
  <1> QED
    BY <1>1, <1>11, <1>12

\* The fields of a sample: the tag, the length, and those of its body.
LEMMA SampleFields ==
    ASSUME NEW c, IsSample(c), IsBody(c.body)
    PROVE  /\ Len(c.body) \in Nat /\ Len(Fields(c)) = Len(c.body) + 2
           /\ DOMAIN Fields(c) = 1 .. Len(c.body) + 2
           /\ Fields(c)[1] = Number(c.tag) /\ Fields(c)[2] = Number(Length(c))
           /\ \A n \in 1 .. Len(c.body) : Fields(c)[n + 2] = c.body[n]
  <1>1. PICK a, b, s, k : a = Number(c.tag) /\ b = Number(Length(c)) /\ s = c.body /\ k = Len(s)
    OBVIOUS
  <1>2. k \in Nat /\ s = [n \in 1 .. k |-> s[n]] /\ DOMAIN s = 1 .. k
    BY <1>1 DEF IsBody
  <1>3. Fields(c) = <<a, b>> \o s
    BY <1>1 DEF Fields, Body
  <1> DEFINE S == {a, b} \cup {s[n] : n \in 1 .. k}
  <1>4. <<a, b>> \in Seq(S) /\ Len(<<a, b>>) = 2 /\ <<a, b>>[1] = a /\ <<a, b>>[2] = b
    OBVIOUS
  <1>5. s \in Seq(S) /\ Len(s) = k
    <2>1. \A n \in 1 .. k : s[n] \in S
      OBVIOUS
    <2> HIDE DEF S
    <2> QED
      BY <1>1, <1>2, <2>1
  <1> HIDE DEF S
  <1>6. PICK h : h = <<a, b>>
    OBVIOUS
  <1>7. h \in Seq(S) /\ Len(h) = 2 /\ h[1] = a /\ h[2] = b
    BY <1>4, <1>6
  <1>8. h \o s \in Seq(S) /\ Len(h \o s) = k + 2 /\ (h \o s)[1] = a /\ (h \o s)[2] = b
        /\ \A n \in 1 .. k : (h \o s)[n + 2] = s[n]
    <2>1. /\ h \o s \in Seq(S) /\ Len(h \o s) = 2 + k /\ DOMAIN (h \o s) = 1 .. 2 + k
          /\ \A n \in 1 .. 2 : (h \o s)[n] = h[n]
          /\ \A n \in 1 .. k : (h \o s)[2 + n] = s[n]
      <3>1. h \o s \in Seq(S) /\ IsJoined(h \o s, h, Len(h), s, Len(s))
        BY <1>5, <1>7, Joined
      <3> QED
        BY <1>5, <1>7, <3>1 DEF IsJoined
    <2>2. 1 \in 1 .. 2 /\ 2 \in 1 .. 2 /\ 2 + k = k + 2 /\ \A n \in 1 .. k : 2 + n = n + 2
      BY <1>2
    <2> QED
      BY <1>7, <2>1, <2>2
  <1>9. DOMAIN (h \o s) = 1 .. k + 2
    <2>1. IsJoined(h \o s, h, Len(h), s, Len(s))
      BY <1>5, <1>7, Joined
    <2>2. DOMAIN (h \o s) = 1 .. 2 + k
      BY <1>5, <1>7, <2>1 DEF IsJoined
    <2>3. 2 + k = k + 2
      BY <1>2
    <2> QED
      BY <2>2, <2>3
  <1> QED
    BY <1>1, <1>2, <1>3, <1>6, <1>8, <1>9

\* What the program may pass to the encoder.
LEMMA CallFacts ==
    ASSUME NEW c \in Calls
    PROVE  /\ IsNumber(c.tag) /\ IsNumber(Length(c))
           /\ IsSample(c) => IsBody(c.body)
           /\ ~IsSample(c) => IsNumber(c.index) /\ IsString(c.name) /\ IsString(c.sig)
  BY CallsAssumption

\* The fields of a call begin with its number and its length.
LEMMA FieldsFacts ==
    ASSUME NEW c \in Calls
    PROVE  /\ Len(Fields(c)) \in Nat \ {0, 1} /\ DOMAIN Fields(c) = 1 .. Len(Fields(c))
           /\ Fields(c)[1] = Number(c.tag) /\ Fields(c)[2] = Number(Length(c))
           /\ \A n \in 1 .. Len(Fields(c)) : IsField(Fields(c)[n])
  <1>1. IsField(Number(c.tag)) /\ IsField(Number(Length(c)))
    BY CallFacts DEF IsField, IsNumber, Number
  <1>2. CASE IsSample(c)
    <2>1. IsBody(c.body)
      BY <1>2, CallFacts
    <2>2. PICK k, f : k = Len(c.body) /\ f = Fields(c)
      OBVIOUS
    <2>3. /\ k \in Nat /\ Len(f) = k + 2 /\ DOMAIN f = 1 .. k + 2
          /\ f[1] = Number(c.tag) /\ f[2] = Number(Length(c))
          /\ \A n \in 1 .. k : f[n + 2] = c.body[n]
      BY <1>2, <2>1, <2>2, SampleFields
    <2>4. \A n \in 1 .. k : IsField(c.body[n])
      BY <2>1, <2>2 DEF IsBody
    <2>5. ASSUME NEW n \in 1 .. k + 2 PROVE IsField(f[n])
      <3>1. CASE n = 1 \/ n = 2
        BY <1>1, <2>3, <3>1
      <3>2. CASE n # 1 /\ n # 2
        <4>1. n - 2 \in 1 .. k /\ (n - 2) + 2 = n
          BY <2>3, <3>2
        <4> QED
          BY <2>3, <2>4, <4>1
      <3> QED
        BY <3>1, <3>2
    <2>6. Len(f) \in Nat \ {0, 1}
      BY <2>3
    <2> QED
      BY <2>2, <2>3, <2>5, <2>6
  <1>3. CASE ~IsSample(c)
    <2>1. IsNumber(c.index) /\ IsString(c.name) /\ IsString(c.sig)
      BY <1>3, CallFacts
    <2>2. IsNumber(0) /\ IsNumber(1) /\ IsNumber(Len(c.sig))
      BY <2>1, SmallNumbers DEF IsNumber, IsString
    <2>3. /\ IsField(Number(c.index)) /\ IsField(Number(1)) /\ IsField(Number(0))
          /\ IsField(Number(Len(c.sig)))
      BY <2>1, <2>2 DEF IsField, IsNumber, Number
    <2>4. IsField(String(c.name)) /\ IsField(Raw(c.sig))
      BY <2>1 DEF IsField, String, Raw
    <2>6. PICK a, b, d, e, g, h, i, j :
            /\ a = Number(c.tag) /\ b = Number(Length(c)) /\ d = Number(c.index) /\ e = Number(1)
            /\ g = Number(0) /\ h = String(c.name) /\ i = Number(Len(c.sig)) /\ j = Raw(c.sig)
      OBVIOUS
    <2>7. PICK f : f = Fields(c)
      OBVIOUS
    <2>9. /\ Len(f) = 8 /\ DOMAIN f = 1 .. 8 /\ f[1] = a /\ f[2] = b /\ f[3] = d /\ f[4] = e
          /\ f[5] = g /\ f[6] = h /\ f[7] = i /\ f[8] = j
      BY <1>3, <2>6, <2>7, DeclarationFields
    <2>10. \A n \in 1 .. 8 : n = 1 \/ n = 2 \/ n = 3 \/ n = 4 \/ n = 5 \/ n = 6 \/ n = 7 \/ n = 8
      OBVIOUS
    <2>11. \A n \in 1 .. 8 : IsField(f[n])
      BY <1>1, <2>3, <2>4, <2>6, <2>9, <2>10
    <2> QED
      BY <2>6, <2>7, <2>9, <2>11
  <1> QED
    BY <1>2, <1>3

\* A function still to run: the bytes it stores.
FunctionType == [bytes : Seq(Byte), failed : {"stop", "again", "next"}]

BytesOf(l) == [n \in DOMAIN l |-> l[n].bytes]

\* The bytes of the functions l.
Rest(l) == FlattenSeq(BytesOf(l))

\* The functions of a call are a sequence; the first writes the tag, so
\* something; together they write what Encoded says.
LEMMA FunctionsFacts ==
    ASSUME NEW c \in Calls
    PROVE  /\ Functions(c) \in Seq(FunctionType) /\ Functions(c) # <<>>
           /\ Head(Functions(c)).bytes # <<>>
           /\ Rest(Functions(c)) = Encoded(c)
  <1>1. PICK k, f, g : k = Len(Fields(c)) /\ f = Fields(c) /\ g = Functions(c)
    OBVIOUS
  <1>2. /\ k \in Nat \ {0, 1} /\ DOMAIN f = 1 .. k /\ f[1] = Number(c.tag)
        /\ \A n \in 1 .. k : IsField(f[n])
    BY <1>1, FieldsFacts
  <1>3. g = [n \in 1 .. k |-> [bytes |-> Bytes(f[n]), failed |-> AfterError(c, n)]]
    BY <1>1, <1>2 DEF Functions
  <1>4. \A n \in 1 .. k : Bytes(f[n]) \in Seq(Byte)
    BY <1>2, FieldBytes
  <1>5. ASSUME NEW n \in 1 .. k PROVE g[n].bytes = Bytes(f[n]) /\ g[n] \in FunctionType
    <2>1. PICK b, x : b = Bytes(f[n]) /\ x = AfterError(c, n)
      OBVIOUS
    <2>2. g[n] = [bytes |-> b, failed |-> x] /\ b \in Seq(Byte)
      BY <1>3, <1>4, <2>1
    <2>3. x \in {"stop", "again", "next"}
      BY <2>1 DEF AfterError
    <2> QED
      BY <2>1, <2>2, <2>3 DEF FunctionType
  <1>6. g \in Seq(FunctionType) /\ Len(g) = k /\ DOMAIN g = 1 .. k /\ g # <<>> /\ Head(g) = g[1]
    <2>1. g = [n \in 1 .. k |-> g[n]]
      BY <1>3
    <2>2. Len(g) = k
      BY <1>2, <2>1
    <2>3. g \in Seq(FunctionType)
      BY <1>2, <1>5, <2>1
    <2> QED
      BY <1>2, <2>2, <2>3
  <1>7. g[1].bytes # <<>>
    <2>1. g[1].bytes = Packed32(c.tag)
      <3>1. Bytes(Number(c.tag)) = Packed32(c.tag)
        BY DEF Bytes, Number
      <3>2. 1 \in 1 .. k
        BY <1>2
      <3> QED
        BY <1>2, <1>5, <3>1, <3>2
    <2>2. c.tag \in 0 .. Word - 1
      BY CallFacts DEF IsNumber
    <2>3. PICK s : s = Packed32(c.tag)
      OBVIOUS
    <2>4. Len(s) # 0
      BY <2>2, <2>3, PackedRead
    <2> QED
      BY <2>1, <2>3, <2>4
  <1>8. BytesOf(g) = [n \in 1 .. k |-> Bytes(f[n])]
    BY <1>5, <1>6 DEF BytesOf
  <1>9. Rest(g) = Encoded(c)
    BY <1>1, <1>2, <1>8 DEF Rest, Encoded
  <1> QED
    BY <1>1, <1>6, <1>7, <1>9

\* The chunks of the functions that are left.
LEMMA BytesOfFacts ==
    ASSUME NEW l \in Seq(FunctionType)
    PROVE  /\ Chunks(BytesOf(l), Byte) /\ Len(BytesOf(l)) = Len(l)
           /\ l # <<>> => /\ Head(l) \in FunctionType /\ Tail(l) \in Seq(FunctionType)
                          /\ BytesOf(l) # <<>> /\ BytesOf(l)[1] = Head(l).bytes
                          /\ Tail(BytesOf(l)) = BytesOf(Tail(l))
  <1> DEFINE T == Seq(Byte)
  <1>1. \A g \in FunctionType : g.bytes \in T
    BY DEF FunctionType
  <1> HIDE DEF T
  <1>2. PICK k, b : k = Len(l) /\ b = BytesOf(l)
    OBVIOUS
  <1>3. k \in Nat /\ DOMAIN l = 1 .. k /\ \A n \in 1 .. k : l[n] \in FunctionType
    BY <1>2
  <1>4. b = [n \in 1 .. k |-> l[n].bytes] /\ \A n \in 1 .. k : b[n] \in T
    BY <1>1, <1>2, <1>3 DEF BytesOf
  <1>5. Len(b) = k /\ b \in Seq(T)
    <2>1. b = [n \in 1 .. k |-> b[n]]
      BY <1>4
    <2> QED
      BY <1>3, <1>4, <2>1
  <1>6. Chunks(b, Byte)
    BY <1>5 DEF T, Chunks
  <1>7. ASSUME l # <<>>
        PROVE  /\ Head(l) \in FunctionType /\ Tail(l) \in Seq(FunctionType)
               /\ b # <<>> /\ b[1] = Head(l).bytes
               /\ Tail(b) = BytesOf(Tail(l))
    <2>1. /\ Head(l) \in FunctionType /\ Tail(l) \in Seq(FunctionType) /\ Head(l) = l[1]
          /\ Len(Tail(l)) = k - 1 /\ k # 0
          /\ \A n \in 1 .. k - 1 : Tail(l)[n] = l[n + 1]
      BY <1>2, <1>7
    <2>2. DOMAIN Tail(l) = 1 .. k - 1
      BY <1>3, <2>1
    <2>3. BytesOf(Tail(l)) = [n \in 1 .. k - 1 |-> l[n + 1].bytes]
      BY <2>1, <2>2 DEF BytesOf
    <2>4. b # <<>> /\ b[1] = l[1].bytes
      <3>1. 1 \in 1 .. k
        BY <1>3, <2>1
      <3> QED
        BY <1>4, <1>5, <2>1, <3>1
    <2>5. Tail(b) = [n \in 1 .. k - 1 |-> b[n + 1]]
      <3>1. Tail(b) \in Seq(T) /\ Len(Tail(b)) = k - 1 /\ \A n \in 1 .. k - 1 : Tail(b)[n] = b[n + 1]
        BY <1>5, <2>4
      <3>2. PICK a : a = Tail(b)
        OBVIOUS
      <3>3. a = [n \in 1 .. k - 1 |-> a[n]]
        <4>1. a \in Seq(T) /\ Len(a) = k - 1
          BY <3>1, <3>2
        <4> QED
          BY <4>1
      <3> QED
        BY <3>1, <3>2, <3>3
    <2>6. \A n \in 1 .. k - 1 : b[n + 1] = l[n + 1].bytes
      <3>1. \A n \in 1 .. k - 1 : n + 1 \in 1 .. k
        BY <1>3
      <3> QED
        BY <1>4, <3>1
    <2> QED
      BY <2>1, <2>3, <2>4, <2>5, <2>6
  <1> QED
    BY <1>2, <1>5, <1>6, <1>7

\* What the functions that are left write, from the first one on.
LEMMA RestFacts ==
    ASSUME NEW l \in Seq(FunctionType)
    PROVE  /\ Rest(l) \in Seq(Byte)
           /\ l = <<>> => Rest(l) = <<>>
           /\ l # <<>> => Rest(l) = Head(l).bytes \o Rest(Tail(l))
  <1>1. Chunks(BytesOf(l), Byte) /\ Len(BytesOf(l)) = Len(l)
    BY BytesOfFacts
  <1>2. Rest(l) \in Seq(Byte)
    <2>1. BytesOf(l) \in Seq(Seq(Byte))
      BY <1>1 DEF Chunks
    <2> QED
      BY <2>1, FlattenType DEF Rest
  <1>3. ASSUME l = <<>> PROVE Rest(l) = <<>>
    <2>1. Len(l) = 0
      BY <1>3
    <2>2. Rest(l) = BytesOf(l) /\ Len(BytesOf(l)) = 0
      BY <1>1, <2>1, FlattenEmpty DEF Rest
    <2>3. BytesOf(l) = <<>>
      BY <1>3 DEF BytesOf
    <2> QED
      BY <2>2, <2>3
  <1>4. ASSUME l # <<>> PROVE Rest(l) = Head(l).bytes \o Rest(Tail(l))
    <2>1. BytesOf(l) # <<>> /\ BytesOf(l)[1] = Head(l).bytes /\ Tail(BytesOf(l)) = BytesOf(Tail(l))
      BY <1>4, BytesOfFacts
    <2>2. FlattenSeq(BytesOf(l)) = BytesOf(l)[1] \o FlattenSeq(Tail(BytesOf(l)))
      BY <1>1, <2>1, FlattenCons
    <2> QED
      BY <2>1, <2>2 DEF Rest
  <1> QED
    BY <1>2, <1>3, <1>4

\* All that the calls write.
Total(s) == FlattenSeq([n \in DOMAIN s |-> Encoded(s[n])])

\* A call is encoded in bytes.
LEMMA EncodedType ==
    ASSUME NEW c \in Calls
    PROVE  Encoded(c) \in Seq(Byte)
  <1>1. Functions(c) \in Seq(FunctionType) /\ Rest(Functions(c)) = Encoded(c)
    BY FunctionsFacts
  <1>2. Rest(Functions(c)) \in Seq(Byte)
    BY <1>1, RestFacts
  <1> QED
    BY <1>1, <1>2

\* Each call is a chunk of the stream.
LEMMA TotalChunks ==
    ASSUME NEW s \in Seq(Calls)
    PROVE  LET e == [n \in DOMAIN s |-> Encoded(s[n])]
           IN  Chunks(e, Byte) /\ Len(e) = Len(s)
  <1> DEFINE T == Seq(Byte)
             e == [n \in DOMAIN s |-> Encoded(s[n])]
  <1>1. \A c \in Calls : Encoded(c) \in T
    BY EncodedType
  <1> HIDE DEF T
  <1>2. PICK k : k = Len(s)
    OBVIOUS
  <1>3. k \in Nat /\ DOMAIN s = 1 .. k /\ \A n \in 1 .. k : s[n] \in Calls
    BY <1>2
  <1>4. e = [n \in 1 .. k |-> e[n]] /\ \A n \in 1 .. k : e[n] \in T
    BY <1>1, <1>3
  <1> HIDE DEF e
  <1>5. Len(e) = k /\ e \in Seq(T)
    BY <1>3, <1>4
  <1> QED
    BY <1>2, <1>5 DEF T, Chunks, e

\* One more call writes its bytes after the others.
LEMMA TotalFacts ==
    ASSUME NEW s \in Seq(Calls)
    PROVE  /\ Total(s) \in Seq(Byte) /\ Total(<<>>) = <<>>
           /\ \A c \in Calls : Total(Append(s, c)) = Total(s) \o Encoded(c)
  <1>1. Total(s) \in Seq(Byte)
    <2> DEFINE e == [n \in DOMAIN s |-> Encoded(s[n])]
    <2>1. Chunks(e, Byte)
      BY TotalChunks
    <2> HIDE DEF e
    <2>2. FlattenSeq(e) \in Seq(Byte)
      BY <2>1, FlattenType DEF Chunks
    <2> QED
      BY <2>2 DEF Total, e
  <1>2. Total(<<>>) = <<>>
    <2>1. [n \in DOMAIN <<>> |-> Encoded(<<>>[n])] = <<>> /\ Len(<<>>) = 0
      OBVIOUS
    <2>2. FlattenSeq(<<>>) = <<>>
      BY <2>1, FlattenEmpty
    <2> QED
      BY <2>1, <2>2 DEF Total
  <1>3. ASSUME NEW c \in Calls PROVE Total(Append(s, c)) = Total(s) \o Encoded(c)
    <2> DEFINE e == [n \in DOMAIN s |-> Encoded(s[n])]
               t == Append(s, c)
               g == [n \in DOMAIN t |-> Encoded(t[n])]
    <2>1. PICK k, x : k = Len(s) /\ x = Encoded(c)
      OBVIOUS
    <2>2. /\ k \in Nat /\ DOMAIN s = 1 .. k /\ Len(t) = k + 1 /\ DOMAIN t = 1 .. k + 1
          /\ \A n \in 1 .. k : t[n] = s[n]
          /\ t[k + 1] = c
      BY <2>1
    <2>3. Chunks(e, Byte) /\ Len(e) = k
      BY <2>1, TotalChunks
    <2>4. x \in Seq(Byte)
      BY <2>1, EncodedType
    <2>5. /\ e = [n \in 1 .. k |-> Encoded(s[n])]
          /\ g = [n \in 1 .. k + 1 |-> Encoded(t[n])]
      BY <2>2
    <2>6. g = Append(e, x)
      <3>1. PICK T : T = Seq(Byte)
        OBVIOUS
      <3>2. e \in Seq(T) /\ x \in T
        BY <2>3, <2>4, <3>1 DEF Chunks
      <3> HIDE DEF t
      <3>3. g = [n \in 1 .. k + 1 |-> IF n = k + 1 THEN x ELSE e[n]]
        <4>1. ASSUME NEW n \in 1 .. k + 1
              PROVE  Encoded(t[n]) = IF n = k + 1 THEN x ELSE e[n]
          <5>1. CASE n = k + 1
            BY <2>1, <2>2, <5>1
          <5>2. CASE n # k + 1
            <6>1. n \in 1 .. k
              BY <2>2, <5>2
            <6> QED
              BY <2>2, <2>5, <5>2, <6>1
          <5> QED
            BY <5>1, <5>2
        <4> HIDE DEF g, e
        <4> QED
          BY <2>5, <4>1
      <3> HIDE DEF e, g
      <3>4. Append(e, x) = [n \in 1 .. k + 1 |-> IF n = k + 1 THEN x ELSE e[n]]
        <4>1. PICK a : a = Append(e, x)
          OBVIOUS
        <4>2. /\ a \in Seq(T) /\ Len(a) = k + 1
              /\ \A n \in 1 .. k + 1 : a[n] = IF n = k + 1 THEN x ELSE e[n]
          BY <2>2, <2>3, <3>2, <4>1, AppendProperties
        <4>3. a = [n \in 1 .. k + 1 |-> a[n]]
          BY <4>2
        <4> QED
          BY <4>1, <4>2, <4>3
      <3> QED
        BY <3>3, <3>4
    <2> HIDE DEF e, g
    <2>7. FlattenSeq(g) = FlattenSeq(e) \o x
      <3>1. e \in Seq(Seq(Byte))
        BY <2>3 DEF Chunks
      <3> QED
        BY <2>4, <2>6, <3>1, FlattenAppend
    <2> QED
      BY <2>1, <2>7 DEF e, g, Total
  <1> QED
    BY <1>1, <1>2, <1>3

-----------------------------------------------------------------------------
(* The writer *)

Errors == {"none", "EIO", "EINVAL"}

WriterType == [data : Seq(Byte), count : Nat, error : Errors]

\* The buffer is within its bounds.
Buffer(v) ==
    /\ v \in WriterType /\ Len(v.data) <= v.count
    /\ v.count >= BufferSize /\ (kind = "fd" => v.count = BufferSize)

Types ==
    /\ kind \in Writers /\ Buffer(w)
    /\ phase \in {"idle", "writing", "ended"} /\ left \in Seq(FunctionType)
    /\ phase # "writing" => left = <<>>
    /\ stream \in Seq(Byte) /\ faults \subseteq {"write", "hole", "start"} /\ calls \in Seq(Calls)

\* While a packet is written without an error, the buffer has bytes of it or
\* is about to get some: it is never empty when the last function returns.
Started ==
    kind = "fd" /\ phase = "writing" /\ w.error = "none"
      => w.data # <<>> \/ (left # <<>> /\ Head(left).bytes # <<>>)

BufferInv == Types /\ Started /\ NoSpuriousError

\* A buffer, from its parts.
LEMMA BufferRecord ==
    ASSUME NEW d \in Seq(Byte), NEW n \in Nat, NEW e \in Errors,
           Len(d) <= n, n >= BufferSize, kind = "fd" => n = BufferSize
    PROVE  Buffer([data |-> d, count |-> n, error |-> e])
  BY DEF Buffer, WriterType

\* An empty buffer is one.
LEMMA EmptyBuffer ==
    ASSUME NEW n \in Nat, NEW e \in Errors, n >= BufferSize, kind = "fd" => n = BufferSize
    PROVE  Buffer([data |-> <<>>, count |-> n, error |-> e])
  <1>1. PICK d : d = <<>>
    OBVIOUS
  <1>2. d \in Seq(Byte) /\ Len(d) <= n
    BY <1>1
  <1> QED
    BY <1>1, <1>2, BufferRecord

\* The parts of a buffer.
LEMMA BufferFacts ==
    ASSUME NEW v, Buffer(v)
    PROVE  /\ v.data \in Seq(Byte) /\ Len(v.data) \in Nat /\ v.count \in Nat /\ v.error \in Errors
           /\ v = [data |-> v.data, count |-> v.count, error |-> v.error]
           /\ Len(v.data) <= v.count /\ v.count >= BufferSize /\ (kind = "fd" => v.count = BufferSize)
  BY DEF Buffer, WriterType

\* The writer, when it has been allocated.
LEMMA WriterInit ==
    Init => BufferInv
  <1> SUFFICES ASSUME Init PROVE BufferInv
    OBVIOUS
  <1>1. w = [data |-> <<>>, count |-> BufferSize, error |-> "none"]
    BY DEF Init, FdAlloc, DynAlloc
  <1>2. <<>> \in Seq(Byte) /\ <<>> \in Seq(FunctionType) /\ <<>> \in Seq(Calls)
    OBVIOUS
  <1>3. Buffer(w)
    <2>1. BufferSize \in Nat /\ BufferSize >= BufferSize /\ "none" \in Errors
      BY Bases DEF Errors
    <2> QED
      BY <1>1, <2>1, EmptyBuffer
  <1>4. Types
    BY <1>2, <1>3 DEF Types, Init
  <1> QED
    BY <1>1, <1>4 DEF BufferInv, Started, NoSpuriousError, Init

\* fd_flush: an empty buffer is the only way to an error without a failed write.
LEMMA FlushFacts ==
    ASSUME Types, NoSpuriousError, kind' = kind,
           NEW k \in 0 .. Len(w.data), NEW fault \in {"write", "hole"}, FdFlush(k, fault)
    PROVE  /\ Buffer(w)'
           /\ stream' \in Seq(Byte) /\ faults' \subseteq {"write", "hole", "start"}
           /\ w.data # <<>> \/ w.error # "none" => NoSpuriousError'
  <1>1. /\ w.data \in Seq(Byte) /\ w.count \in Nat /\ w.error \in Errors
        /\ w = [data |-> w.data, count |-> w.count, error |-> w.error]
        /\ Len(w.data) \in Nat /\ w.count >= BufferSize /\ (kind = "fd" => w.count = BufferSize)
    BY BufferFacts DEF Types
  <1>2. /\ stream \in Seq(Byte) /\ faults \subseteq {"write", "hole", "start"}
    BY DEF Types
  <1> DEFINE e == IF k < Len(w.data) THEN "EIO" ELSE IF w.data = <<>> THEN "EINVAL" ELSE w.error
  <1>3. w' = [data |-> <<>>, count |-> w.count, error |-> e]
    BY <1>1 DEF FdFlush
  <1>4. e \in Errors
    BY <1>1 DEF Errors
  <1>5. Buffer(w)'
    <2>1. PICK n, g, v : n = w.count /\ g = e /\ v = w'
      OBVIOUS
    <2>2. v = [data |-> <<>>, count |-> n, error |-> g]
      BY <1>3, <2>1
    <2>3. n \in Nat /\ g \in Errors /\ n >= BufferSize /\ (kind = "fd" => n = BufferSize)
      BY <1>1, <1>4, <2>1
    <2>4. Buffer(v)
      BY <2>2, <2>3, EmptyBuffer
    <2> QED
      BY <2>1, <2>4 DEF Buffer
  <1>6. stream' \in Seq(Byte)
    <2>1. stream' = stream \o SubSeq(w.data, 1, k)
      BY DEF FdFlush
    <2>2. PICK x : x = SubSeq(w.data, 1, k)
      OBVIOUS
    <2>3. x \in Seq(Byte)
      <3>1. PICK d, n : d = w.data /\ n = Len(w.data)
        OBVIOUS
      <3>2. d \in Seq(Byte) /\ n = Len(d) /\ k \in 0 .. n
        BY <1>1, <3>1
      <3>3. SubSeq(d, 1, k) \in Seq(Byte)
        BY <3>2
      <3> QED
        BY <2>2, <3>1, <3>3
    <2> QED
      BY <1>2, <2>1, <2>2, <2>3, ConcatProperties
  <1>7. faults' \subseteq {"write", "hole", "start"}
    BY <1>2 DEF FdFlush
  <1>8. ASSUME w.data # <<>> \/ w.error # "none" PROVE NoSpuriousError'
    <2>1. CASE k < Len(w.data)
      <3>1. faults' = faults \cup {fault}
        BY <2>1 DEF FdFlush
      <3> QED
        BY <3>1 DEF NoSpuriousError
    <2>2. CASE ~(k < Len(w.data))
      <3>1. faults' = faults
        BY <2>2 DEF FdFlush
      <3>2. CASE w.error # "none"
        BY <3>1, <3>2 DEF NoSpuriousError
      <3>3. CASE w.error = "none"
        <4>1. w'.error = "none"
          BY <1>3, <1>8, <2>2, <3>3 DEF e
        <4> QED
          BY <4>1 DEF NoSpuriousError
      <3> QED
        BY <3>2, <3>3
    <2> QED
      BY <2>1, <2>2
  <1> QED
    BY <1>5, <1>6, <1>7, <1>8

\* A call begins with an empty buffer.
LEMMA StartStep ==
    ASSUME BufferInv, NEW c \in Calls, Start(c)
    PROVE  BufferInv'
  <1>1. /\ w.count \in Nat /\ w.error \in Errors
        /\ w = [data |-> w.data, count |-> w.count, error |-> w.error]
        /\ w.count >= BufferSize /\ (kind = "fd" => w.count = BufferSize)
    BY BufferFacts DEF BufferInv, Types
  <1>2. /\ left' = Functions(c) /\ faults' = faults /\ kind' = kind /\ phase' = "writing"
        /\ calls' = Append(calls, c) /\ stream' = stream
        /\ \/ w' = [data |-> <<>>, count |-> w.count, error |-> "none"]
           \/ w' = [data |-> <<>>, count |-> BufferSize, error |-> "none"]
    BY <1>1 DEF Start, FdStart, DynStart, DynAlloc
  <1>3. PICK v, n : v = w' /\ n \in Nat /\ n >= BufferSize /\ (kind = "fd" => n = BufferSize)
                    /\ v = [data |-> <<>>, count |-> n, error |-> "none"]
    <2>1. BufferSize \in Nat /\ BufferSize >= BufferSize
      BY Bases
    <2>2. CASE w' = [data |-> <<>>, count |-> w.count, error |-> "none"]
      BY <1>1, <2>2
    <2>3. CASE w' = [data |-> <<>>, count |-> BufferSize, error |-> "none"]
      BY <2>1, <2>3
    <2> QED
      BY <1>2, <2>2, <2>3
  <1>4. Buffer(v) /\ v.error = "none"
    <2>1. "none" \in Errors
      BY DEF Errors
    <2> QED
      BY <1>3, <2>1, EmptyBuffer
  <1>5. Functions(c) \in Seq(FunctionType) /\ Functions(c) # <<>> /\ Head(Functions(c)).bytes # <<>>
    BY FunctionsFacts
  <1>6. Types'
    <2>1. calls' \in Seq(Calls)
      <3>1. calls \in Seq(Calls)
        BY DEF BufferInv, Types
      <3> QED
        BY <1>2, <3>1, AppendProperties
    <2>2. Buffer(w)'
      BY <1>2, <1>3, <1>4 DEF Buffer
    <2> QED
      BY <1>2, <1>5, <2>1, <2>2 DEF BufferInv, Types
  <1>7. Started'
    BY <1>2, <1>5 DEF Started
  <1> QED
    BY <1>3, <1>4, <1>6, <1>7 DEF BufferInv, NoSpuriousError

\* A sample whose start action fails leaves the buffer as it is.
LEMMA RefusedStep ==
    ASSUME BufferInv, NEW c \in Calls, Refused(c)
    PROVE  BufferInv'
  <1>1. /\ w.data \in Seq(Byte) /\ w.count \in Nat /\ w.error \in Errors
        /\ w = [data |-> w.data, count |-> w.count, error |-> w.error] /\ Len(w.data) <= w.count
        /\ w.count >= BufferSize /\ (kind = "fd" => w.count = BufferSize)
    BY BufferFacts DEF BufferInv, Types
  <1>2. w' = w \/ w' = [data |-> w.data, count |-> w.count, error |-> "EINVAL"]
    BY <1>1 DEF Refused
  <1>3. Buffer(w)'
    <2>1. CASE w' = w
      BY <2>1 DEF Refused, BufferInv, Types, Buffer
    <2>2. CASE w' = [data |-> w.data, count |-> w.count, error |-> "EINVAL"]
      <3>1. PICK v, d, n : v = w' /\ d = w.data /\ n = w.count
        OBVIOUS
      <3>2. v = [data |-> d, count |-> n, error |-> "EINVAL"] /\ d \in Seq(Byte) /\ n \in Nat
            /\ Len(d) <= n /\ n >= BufferSize /\ (kind = "fd" => n = BufferSize)
        BY <1>1, <2>2, <3>1
      <3>3. Buffer(v)
        <4>1. "EINVAL" \in Errors
          BY DEF Errors
        <4> QED
          BY <3>2, <4>1, BufferRecord
      <3> QED
        BY <3>1, <3>3 DEF Buffer, Refused
    <2> QED
      BY <1>2, <2>1, <2>2
  <1>4. Types'
    BY <1>3 DEF BufferInv, Types, Refused
  <1>5. Started'
    BY DEF Started, Refused
  <1>6. NoSpuriousError'
    <2>1. CASE w.error = "none"
      BY <2>1 DEF Refused, NoSpuriousError
    <2>2. CASE w.error # "none"
      BY <2>2 DEF Refused, BufferInv, NoSpuriousError
    <2> QED
      BY <2>1, <2>2
  <1> QED
    BY <1>4, <1>5, <1>6 DEF BufferInv

\* A function without anything to store.
LEMMA ReturnStep ==
    ASSUME BufferInv, Return
    PROVE  BufferInv'
  <1>1. left \in Seq(FunctionType) /\ left # <<>>
    BY DEF BufferInv, Types, Return
  <1>2. Tail(left) \in Seq(FunctionType)
    BY <1>1
  <1>3. Types'
    BY <1>2 DEF BufferInv, Types, Return, Buffer
  <1>4. Started'
    BY DEF BufferInv, Started, Return
  <1> QED
    BY <1>3, <1>4 DEF BufferInv, NoSpuriousError, Return

\* A sequence cut into two.
LEMMA Cut ==
    ASSUME NEW S, NEW b \in Seq(S), NEW n \in 0 .. Len(b)
    PROVE  /\ SubSeq(b, 1, n) \in Seq(S) /\ Len(SubSeq(b, 1, n)) = n
           /\ SubSeq(b, n + 1, Len(b)) \in Seq(S) /\ Len(SubSeq(b, n + 1, Len(b))) = Len(b) - n
           /\ SubSeq(b, 1, n) \o SubSeq(b, n + 1, Len(b)) = b
  <1>0. PICK x, y : x = SubSeq(b, 1, n) /\ y = SubSeq(b, n + 1, Len(b))
    OBVIOUS
  <1>1. PICK k : k = Len(b)
    OBVIOUS
  <1>2. k \in Nat /\ n \in 0 .. k /\ k - n \in Nat /\ n \in Nat
    BY <1>1
  <1>3. x \in Seq(S) /\ Len(x) = n /\ \A i \in 1 .. n : x[i] = b[i]
    BY <1>0, <1>1, <1>2
  <1>4. y \in Seq(S) /\ Len(y) = k - n /\ \A i \in 1 .. k - n : y[i] = b[n + i]
    BY <1>0, <1>1, <1>2
  <1>5. PICK u : u = x \o y
    OBVIOUS
  <1>6. u \in Seq(S) /\ IsJoined(u, x, n, y, k - n)
    BY <1>3, <1>4, <1>5, Joined
  <1>7. Len(u) = k /\ \A i \in 1 .. k : u[i] = b[i]
    <2>1. Len(u) = k
      BY <1>2, <1>6 DEF IsJoined
    <2>2. ASSUME NEW i \in 1 .. k PROVE u[i] = b[i]
      <3>1. CASE i <= n
        <4>1. i \in 1 .. n
          BY <1>2, <3>1
        <4> QED
          BY <1>3, <1>6, <4>1 DEF IsJoined
      <3>2. CASE ~(i <= n)
        <4>1. i - n \in 1 .. k - n /\ n + (i - n) = i
          BY <1>2, <3>2
        <4>2. u[n + (i - n)] = y[i - n] /\ y[i - n] = b[n + (i - n)]
          BY <1>4, <1>6, <4>1 DEF IsJoined
        <4> QED
          BY <4>1, <4>2
      <3> QED
        BY <3>1, <3>2
    <2> QED
      BY <2>1, <2>2
  <1>8. u = b
    BY <1>1, <1>6, <1>7, SeqEqual
  <1> QED
    BY <1>0, <1>1, <1>3, <1>4, <1>5, <1>8

\* A store takes as many bytes of a function as there is room for, at least
\* one, from the bytes left to the buffer.
LEMMA StoreFacts ==
    ASSUME Types, Store
    PROVE  \E x, y \in Seq(Byte) :
             /\ left # <<>> /\ Head(left).bytes = x \o y /\ x # <<>>
             /\ Len(w.data \o x) <= w.count /\ w.data \o x \in Seq(Byte) /\ w.data \o x # <<>>
             /\ w' = [data |-> w.data \o x, count |-> w.count, error |-> w.error]
             /\ \/ y = <<>> /\ left' = Tail(left)
                \/ y # <<>> /\ left' = <<[bytes |-> y, failed |-> Head(left).failed]>> \o Tail(left)
  <1> DEFINE b == Head(left).bytes
             n == Min({Len(b), w.count - Len(w.data)})
             y == SubSeq(b, n + 1, Len(b))
             x == SubSeq(b, 1, n)
  <1>1. /\ w.data \in Seq(Byte) /\ w.count \in Nat /\ Len(w.data) \in Nat
        /\ w = [data |-> w.data, count |-> w.count, error |-> w.error]
    BY BufferFacts DEF Types
  <1>2. left \in Seq(FunctionType) /\ left # <<>> /\ b # <<>> /\ Len(w.data) < w.count
    <2>1. left # <<>> /\ b # <<>> /\ ~Full
      BY DEF Store, Storing
    <2> QED
      BY <1>1, <2>1 DEF Full, Types
  <1>3. Head(left) \in FunctionType /\ Tail(left) \in Seq(FunctionType)
    BY <1>2, BytesOfFacts
  <1>4. b \in Seq(Byte) /\ Head(left) = [bytes |-> b, failed |-> Head(left).failed]
    BY <1>3 DEF FunctionType
  <1> HIDE DEF b
  <1>5. Len(b) \in Nat \ {0}
    BY <1>2, <1>4
  <1>6. n \in 1 .. Len(b) /\ n <= w.count - Len(w.data)
    <2>1. PICK j, k : j = Len(b) /\ k = w.count - Len(w.data)
      OBVIOUS
    <2>2. j \in Nat \ {0} /\ k \in Nat \ {0}
      BY <1>1, <1>2, <1>5, <2>1
    <2>3. \E z \in {j, k} : \A i \in {j, k} : z <= i
      BY <2>2
    <2>4. Min({j, k}) \in {j, k} /\ \A i \in {j, k} : Min({j, k}) <= i
      BY <2>3 DEF Min
    <2>5. Min({j, k}) \in 1 .. j /\ Min({j, k}) <= k
      BY <2>2, <2>4
    <2> QED
      BY <2>1, <2>5
  <1> HIDE DEF n
  <1>7. /\ x \in Seq(Byte) /\ y \in Seq(Byte) /\ Len(x) = n /\ Len(y) = Len(b) - n
        /\ x \o y = b
    <2>1. n \in 0 .. Len(b)
      BY <1>5, <1>6
    <2>2. PICK g, h : g = x /\ h = y
      OBVIOUS
    <2>3. g = SubSeq(b, 1, n) /\ h = SubSeq(b, n + 1, Len(b))
      BY <2>2
    <2>4. /\ g \in Seq(Byte) /\ Len(g) = n /\ h \in Seq(Byte) /\ Len(h) = Len(b) - n /\ g \o h = b
      <3>1. PICK a : a = b
        OBVIOUS
      <3>2. a \in Seq(Byte) /\ n \in 0 .. Len(a) /\ g = SubSeq(a, 1, n) /\ h = SubSeq(a, n + 1, Len(a))
        BY <1>4, <2>1, <2>3, <3>1
      <3>3. /\ g \in Seq(Byte) /\ Len(g) = n /\ h \in Seq(Byte) /\ Len(h) = Len(a) - n /\ g \o h = a
        BY <3>2, Cut
      <3> QED
        BY <3>1, <3>3
    <2> QED
      BY <2>2, <2>4
  <1>8. /\ w' = [w EXCEPT !.data = @ \o x]
        /\ left' = (IF y = <<>> THEN <<>> ELSE <<[Head(left) EXCEPT !.bytes = y]>>) \o Tail(left)
    <2>1. StoreUpTo(w.count)
      BY DEF Store
    <2> QED
      BY <2>1, Zenon DEF StoreUpTo, b, n, x, y
  <1> HIDE DEF x, y
  <1>9. x # <<>>
    BY <1>6, <1>7
  <1>10. w' = [data |-> w.data \o x, count |-> w.count, error |-> w.error]
    BY <1>1, <1>8
  <1>11. /\ w.data \o x \in Seq(Byte) /\ Len(w.data \o x) = Len(w.data) + n
    BY <1>1, <1>7, ConcatProperties
  <1>12. Len(w.data \o x) <= w.count /\ w.data \o x # <<>>
    <2>1. PICK d : d = w.data \o x
      OBVIOUS
    <2>2. Len(d) <= w.count /\ Len(d) # 0
      BY <1>1, <1>6, <1>11, <2>1
    <2> QED
      BY <2>1, <2>2
  <1>13. \/ y = <<>> /\ left' = Tail(left)
         \/ y # <<>> /\ left' = <<[bytes |-> y, failed |-> Head(left).failed]>> \o Tail(left)
    <2>1. CASE y = <<>>
      <3>1. left' = <<>> \o Tail(left)
        BY <1>8, <2>1
      <3>2. <<>> \o Tail(left) = Tail(left)
        BY <1>3, ConcatEmptySeq
      <3> QED
        BY <2>1, <3>1, <3>2
    <2>2. CASE y # <<>>
      <3>1. [Head(left) EXCEPT !.bytes = y] = [bytes |-> y, failed |-> Head(left).failed]
        BY <1>4
      <3> QED
        BY <1>8, <2>2, <3>1
    <2> QED
      BY <2>1, <2>2
  <1>14. x \in Seq(Byte) /\ y \in Seq(Byte) /\ Head(left).bytes = x \o y
    BY <1>7 DEF b
  <1> QED
    BY <1>2, <1>9, <1>10, <1>11, <1>12, <1>13, <1>14

\* The functions that are left when the first of them has stored a part.
LEMMA PartLeft ==
    ASSUME NEW l \in Seq(FunctionType), l # <<>>, NEW y \in Seq(Byte)
    PROVE  LET m == <<[bytes |-> y, failed |-> Head(l).failed]>> \o Tail(l)
           IN  m \in Seq(FunctionType) /\ m # <<>> /\ Head(m).bytes = y /\ Tail(m) = Tail(l)
  <1>1. Head(l) \in FunctionType /\ Tail(l) \in Seq(FunctionType)
    BY BytesOfFacts
  <1>2. PICK h, t : h = [bytes |-> y, failed |-> Head(l).failed] /\ t = Tail(l)
    OBVIOUS
  <1>3. h \in FunctionType /\ h.bytes = y
    BY <1>1, <1>2 DEF FunctionType
  <1>4. t \in Seq(FunctionType)
    BY <1>1, <1>2
  <1>5. <<h>> \o t \in Seq(FunctionType) /\ <<h>> \o t # <<>> /\ Head(<<h>> \o t) = h /\ Tail(<<h>> \o t) = t
    BY <1>3, <1>4
  <1> QED
    BY <1>2, <1>3, <1>5

\* The last store of a packet leaves the buffer with something in it.
LEMMA StoreStep ==
    ASSUME BufferInv, Store
    PROVE  BufferInv'
  <1>1. Types
    BY DEF BufferInv
  <1>2. PICK x, y \in Seq(Byte) :
          /\ left # <<>> /\ Head(left).bytes = x \o y /\ x # <<>>
          /\ Len(w.data \o x) <= w.count /\ w.data \o x \in Seq(Byte) /\ w.data \o x # <<>>
          /\ w' = [data |-> w.data \o x, count |-> w.count, error |-> w.error]
          /\ \/ y = <<>> /\ left' = Tail(left)
             \/ y # <<>> /\ left' = <<[bytes |-> y, failed |-> Head(left).failed]>> \o Tail(left)
    BY <1>1, StoreFacts
  <1>3. left \in Seq(FunctionType)
    BY <1>1 DEF Types
  <1>4. left' \in Seq(FunctionType)
    <2>1. CASE y = <<>>
      BY <1>2, <1>3, <2>1, BytesOfFacts
    <2>2. CASE y # <<>>
      BY <1>2, <1>3, <2>2, PartLeft
    <2> QED
      BY <2>1, <2>2
  <1>5. PICK v, d, n, e : v = w' /\ d = w.data \o x /\ n = w.count /\ e = w.error
    OBVIOUS
  <1>6. /\ v = [data |-> d, count |-> n, error |-> e] /\ d \in Seq(Byte) /\ d # <<>>
        /\ n \in Nat /\ e \in Errors /\ Len(d) <= n
        /\ n >= BufferSize /\ (kind = "fd" => n = BufferSize)
    BY <1>1, <1>2, <1>5, BufferFacts DEF Types
  <1>7. Buffer(v) /\ v.data # <<>> /\ v.error = w.error
    <2>1. Buffer(v)
      BY <1>6, BufferRecord
    <2>2. v.data = d /\ v.error = e
      BY <1>6
    <2> QED
      BY <1>5, <1>6, <2>1, <2>2
  <1>8. Buffer(w)'
    BY <1>5, <1>7 DEF Buffer, Store
  <1>9. Types'
    BY <1>1, <1>4, <1>8 DEF Types, Store, Storing
  <1> QED
    BY <1>5, <1>7, <1>9 DEF BufferInv, Started, NoSpuriousError, Store

\* A buffer that is full is not empty.
LEMMA FlushStep ==
    ASSUME BufferInv, Flush
    PROVE  BufferInv'
  <1>1. /\ w.data \in Seq(Byte) /\ w.count \in Nat /\ Len(w.data) \in Nat /\ w.error \in Errors
        /\ w = [data |-> w.data, count |-> w.count, error |-> w.error] /\ Len(w.data) <= w.count
        /\ w.count >= BufferSize
    BY BufferFacts DEF BufferInv, Types
  <1>2. left # <<>> /\ Head(left).bytes # <<>> /\ Full /\ left \in Seq(FunctionType)
    BY DEF Flush, Storing, BufferInv, Types
  <1>3. left' = left \/ (left' \in {<<>>, Tail(left)} /\ w'.error # "none")
    BY DEF Flush
  <1>4. left' \in Seq(FunctionType)
    <2>1. Tail(left) \in Seq(FunctionType) /\ <<>> \in Seq(FunctionType)
      BY <1>2, BytesOfFacts, EmptySeq
    <2> QED
      BY <1>2, <1>3, <2>1
  <1>5. Started'
    BY <1>2, <1>3 DEF Started
  <1>6. kind' = kind /\ phase' = phase /\ calls' = calls /\ phase = "writing"
    BY DEF Flush, Storing
  <1>7. CASE kind = "fd" /\ \E k \in 0 .. Len(w.data) : FdFlush(k, FlushFault)
    <2>1. PICK fault \in {"write", "hole"}, k \in 0 .. Len(w.data) : FdFlush(k, fault)
      BY <1>7 DEF FlushFault
    <2>2. w.data # <<>>
      <3>1. Len(w.data) # 0
        BY <1>1, <1>2, Bases DEF Full
      <3> QED
        BY <3>1
    <2>3. Buffer(w)' /\ stream' \in Seq(Byte) /\ faults' \subseteq {"write", "hole", "start"} /\ NoSpuriousError'
      BY <1>6, <2>1, <2>2, FlushFacts DEF BufferInv
    <2>4. Types'
      BY <1>4, <1>6, <2>3 DEF BufferInv, Types
    <2> QED
      BY <1>5, <2>3, <2>4 DEF BufferInv
  <1>8. CASE kind = "dyn" /\ DynFlush
    <2>1. w' = [data |-> w.data, count |-> w.count + BufferSize, error |-> "none"]
      BY <1>1, <1>8 DEF DynFlush
    <2>2. PICK v, d, n : v = w' /\ d = w.data /\ n = w.count + BufferSize
      OBVIOUS
    <2>3. d \in Seq(Byte) /\ n \in Nat /\ n >= BufferSize /\ Len(d) <= n
      BY <1>1, <2>2, Bases
    <2>4. v = [data |-> d, count |-> n, error |-> "none"] /\ "none" \in Errors
      BY <2>1, <2>2 DEF Errors
    <2>5. Buffer(v) /\ v.error = "none"
      BY <1>8, <2>3, <2>4, BufferRecord
    <2>6. Buffer(w)'
      BY <1>6, <2>2, <2>5 DEF Buffer
    <2>7. stream' = stream /\ faults' = faults
      BY <1>8 DEF DynFlush
    <2>8. Types'
      BY <1>4, <1>6, <2>6, <2>7 DEF BufferInv, Types
    <2> QED
      BY <1>5, <2>2, <2>5, <2>8 DEF BufferInv, NoSpuriousError
  <1> QED
    BY <1>7, <1>8 DEF Flush

\* The end of a packet flushes something, unless the writer had an error.
LEMMA EndStep ==
    ASSUME BufferInv, End
    PROVE  BufferInv'
  <1>1. /\ phase = "writing" /\ left = <<>> /\ left' = left /\ phase' \in {"idle", "ended"}
        /\ kind' = kind /\ calls' = calls
    BY DEF End, DynEnd
  <1>2. Started'
    BY <1>1 DEF Started
  <1>3. CASE kind = "fd" /\ \E k \in 0 .. Len(w.data) : FdFlush(k, "write")
    <2>1. PICK k \in 0 .. Len(w.data) : FdFlush(k, "write")
      BY <1>3
    <2>2. w.data # <<>> \/ w.error # "none"
      BY <1>1, <1>3 DEF BufferInv, Started
    <2>3. Buffer(w)' /\ stream' \in Seq(Byte) /\ faults' \subseteq {"write", "hole", "start"} /\ NoSpuriousError'
      BY <1>1, <2>1, <2>2, FlushFacts DEF BufferInv
    <2>4. Types'
      BY <1>1, <2>3 DEF BufferInv, Types
    <2> QED
      BY <1>2, <2>3, <2>4 DEF BufferInv
  <1>4. CASE kind = "dyn" /\ DynEnd
    <2>1. w' = w /\ stream' = stream /\ faults' = faults
      BY <1>4 DEF DynEnd
    <2> QED
      BY <1>1, <1>2, <2>1 DEF BufferInv, Types, Buffer, NoSpuriousError
  <1> QED
    BY <1>3, <1>4 DEF End

\* The program takes the buffer.
LEMMA TakeStep ==
    ASSUME BufferInv, Take
    PROVE  BufferInv'
  <1>1. stream' \in Seq(Byte)
    <2>1. stream \in Seq(Byte) /\ w.data \in Seq(Byte)
      BY BufferFacts DEF BufferInv, Types
    <2> QED
      BY <2>1, ConcatProperties DEF Take
  <1> QED
    BY <1>1 DEF Take, BufferInv, Types, Buffer, Started, NoSpuriousError

\* Every step keeps the buffer and what is known of its error.
LEMMA BufferStep ==
    ASSUME BufferInv, [Next]_vars
    PROVE  BufferInv'
  <1>1. CASE CallStep
    BY <1>1, StartStep, RefusedStep DEF CallStep
  <1>2. CASE Return
    BY <1>2, ReturnStep
  <1>3. CASE Store
    BY <1>3, StoreStep
  <1>4. CASE Flush
    BY <1>4, FlushStep
  <1>5. CASE End
    BY <1>5, EndStep
  <1>6. CASE Take
    BY <1>6, TakeStep
  <1>7. CASE UNCHANGED writerVars
    BY <1>7 DEF writerVars, BufferInv, Types, Buffer, Started, NoSpuriousError
  <1>8. CASE UNCHANGED vars
    BY <1>8 DEF vars, BufferInv, Types, Buffer, Started, NoSpuriousError
  <1> QED
    BY <1>1, <1>2, <1>3, <1>4, <1>5, <1>6, <1>7, <1>8 DEF Next, WriterProceeds, ReaderProceeds

\* The buffer of fd_flush is never empty at the end of a packet that was
\* written, however long the packet and wherever it fills the buffer: the
\* writer's error, which stays, has a write or a start action that failed
\* before it.
THEOREM NoSpuriousErrorCorrect ==
    Spec => []NoSpuriousError
  <1>1. BufferInv => NoSpuriousError
    BY DEF BufferInv
  <1> QED
    BY <1>1, WriterInit, BufferStep, PTL DEF Spec

-----------------------------------------------------------------------------
(* The buffers of the reader and what it has been given.                   *)

ReaderType == [buf : Seq(Byte), at : Nat, error : {"none", "EPIPE", "ENOENT"}]

ReaderTypes ==
    r \in ReaderType /\ Len(r.buf) <= ReadSize /\ r.at <= Len(stream)

\* What has reached the descriptor stays.
LEMMA StreamGrows ==
    ASSUME Types, [Next]_vars
    PROVE  \E u \in Seq(Byte) : stream' = stream \o u
  <1>1. stream \in Seq(Byte) /\ w.data \in Seq(Byte) /\ Len(w.data) \in Nat
    BY BufferFacts DEF Types
  <1>2. ASSUME stream' = stream PROVE \E u \in Seq(Byte) : stream' = stream \o u
    <2>1. stream = stream \o <<>> /\ <<>> \in Seq(Byte)
      BY <1>1, ConcatEmptySeq, EmptySeq
    <2> QED
      BY <1>2, <2>1
  <1>3. ASSUME NEW k \in 0 .. Len(w.data), NEW fault, FdFlush(k, fault)
        PROVE  \E u \in Seq(Byte) : stream' = stream \o u
    <2>1. stream' = stream \o SubSeq(w.data, 1, k)
      BY <1>3 DEF FdFlush
    <2>2. SubSeq(w.data, 1, k) \in Seq(Byte)
      <3>1. PICK d : d = w.data
        OBVIOUS
      <3>2. d \in Seq(Byte) /\ k \in 0 .. Len(d)
        BY <1>1, <3>1
      <3>3. SubSeq(d, 1, k) \in Seq(Byte)
        BY <3>2, Cut
      <3> QED
        BY <3>1, <3>3
    <2> QED
      BY <2>1, <2>2
  <1>4. CASE CallStep
    BY <1>2, <1>4 DEF CallStep, Start, Refused
  <1>5. CASE Return \/ Store
    BY <1>2, <1>5 DEF Return, Store
  <1>6. CASE Flush
    <2>1. (\E k \in 0 .. Len(w.data) : FdFlush(k, FlushFault)) \/ DynFlush
      BY <1>6 DEF Flush
    <2> QED
      BY <1>2, <1>3, <2>1 DEF DynFlush
  <1>7. CASE End
    <2>1. (\E k \in 0 .. Len(w.data) : FdFlush(k, "write")) \/ DynEnd
      BY <1>7 DEF End
    <2> QED
      BY <1>2, <1>3, <2>1 DEF DynEnd
  <1>8. CASE Take
    BY <1>1, <1>8 DEF Take
  <1>9. CASE UNCHANGED writerVars \/ UNCHANGED vars
    BY <1>2, <1>9 DEF writerVars, vars
  <1> QED
    BY <1>4, <1>5, <1>6, <1>7, <1>8, <1>9 DEF Next, WriterProceeds, ReaderProceeds

\* The reader, when it has been allocated.
LEMMA ReaderInit ==
    Init => ReaderTypes
  <1> SUFFICES ASSUME Init PROVE ReaderTypes
    OBVIOUS
  <1>1. r = [buf |-> <<>>, at |-> 0, error |-> "none"] /\ stream = <<>>
    BY DEF Init, ReaderAlloc
  <1>2. PICK e : e = <<>>
    OBVIOUS
  <1>3. e \in Seq(Byte) /\ Len(e) = 0
    BY <1>2
  <1>4. r = [buf |-> e, at |-> 0, error |-> "none"] /\ stream = e
    BY <1>1, <1>2
  <1>5. r \in ReaderType
    BY <1>3, <1>4 DEF ReaderType
  <1>6. r.buf = e /\ r.at = 0
    BY <1>4
  <1> QED
    BY <1>3, <1>4, <1>5, <1>6, Bases DEF ReaderTypes

\* Every step keeps the reader's buffer within what has been sent.
LEMMA ReaderStep ==
    ASSUME Types, ReaderTypes, [Next]_vars
    PROVE  ReaderTypes'
  <1>1. /\ r.buf \in Seq(Byte) /\ r.at \in Nat /\ r.error \in {"none", "EPIPE", "ENOENT"}
        /\ r = [buf |-> r.buf, at |-> r.at, error |-> r.error]
        /\ Len(r.buf) \in Nat /\ Len(r.buf) <= ReadSize
        /\ r.at <= Len(stream) /\ stream \in Seq(Byte)
    BY DEF Types, ReaderTypes, ReaderType
  <1>2. r.at <= Len(stream')
    <2>1. PICK u \in Seq(Byte) : stream' = stream \o u
      BY StreamGrows
    <2>2. Len(stream \o u) = Len(stream) + Len(u) /\ Len(u) \in Nat /\ Len(stream) \in Nat
      BY <1>1, ConcatProperties
    <2> QED
      BY <1>1, <2>1, <2>2
  <1>3. CASE UNCHANGED r
    BY <1>2, <1>3 DEF ReaderTypes
  <1>4. ASSUME NEW e \in {"EPIPE", "ENOENT"}, r' = [r EXCEPT !.error = e] PROVE ReaderTypes'
    <2>1. PICK b, a, v : b = r.buf /\ a = r.at /\ v = r'
      OBVIOUS
    <2>2. v = [buf |-> b, at |-> a, error |-> e] /\ b \in Seq(Byte) /\ a \in Nat
      BY <1>1, <1>4, <2>1
    <2>3. v \in ReaderType /\ v.buf = b /\ v.at = a
      BY <2>2 DEF ReaderType
    <2> QED
      BY <1>1, <1>2, <2>1, <2>3 DEF ReaderTypes
  <1>5. CASE ReadByte
    <2>1. PICK b, a, v, t : b = r.buf /\ a = r.at /\ v = r' /\ t = Tail(r.buf)
      OBVIOUS
    <2>2. v = [buf |-> t, at |-> a, error |-> r.error] /\ b # <<>>
      BY <1>1, <1>5, <2>1 DEF ReadByte
    <2>3. t \in Seq(Byte) /\ Len(t) <= Len(b) /\ Len(b) <= ReadSize /\ Len(t) \in Nat
      BY <1>1, <2>1, <2>2
    <2>4. v \in ReaderType /\ v.buf = t /\ v.at = a
      BY <1>1, <2>1, <2>2, <2>3 DEF ReaderType
    <2>5. Len(t) <= ReadSize
      BY <1>1, <2>1, <2>3, Bases
    <2> QED
      BY <1>2, <2>1, <2>4, <2>5 DEF ReaderTypes
  <1>6. CASE Fill /\ stream' = stream
    <2>1. PICK n \in 1 .. ReadSize :
            /\ r.at + n <= Len(stream)
            /\ r' = [r EXCEPT !.buf = SubSeq(stream, r.at + 1, r.at + n), !.at = @ + n]
      BY <1>6 DEF Fill
    <2>2. PICK b, a, v, s : b = SubSeq(stream, r.at + 1, r.at + n) /\ a = r.at /\ v = r' /\ s = stream
      OBVIOUS
    <2>3. v = [buf |-> b, at |-> a + n, error |-> r.error] /\ b = SubSeq(s, a + 1, a + n)
      BY <1>1, <2>1, <2>2
    <2>4. a \in Nat /\ n \in Nat /\ s \in Seq(Byte) /\ a + n <= Len(s) /\ Len(s) \in Nat /\ n <= ReadSize
      <3>1. a \in Nat /\ s \in Seq(Byte)
        BY <1>1, <2>2
      <3>2. Len(s) \in Nat
        BY <3>1
      <3>3. a + n <= Len(s)
        BY <2>1, <2>2
      <3>4. n \in Nat /\ n <= ReadSize
        BY Bases
      <3> QED
        BY <3>1, <3>2, <3>3, <3>4
    <2>5. b \in Seq(Byte) /\ Len(b) = n
      BY <2>3, <2>4
    <2>6. v \in ReaderType /\ v.buf = b /\ v.at = a + n
      <3>1. PICK m, e : m = a + n /\ e = r.error
        OBVIOUS
      <3>2. m \in Nat /\ b \in Seq(Byte) /\ e \in {"none", "EPIPE", "ENOENT"}
        BY <1>1, <2>4, <2>5, <3>1
      <3>3. v = [buf |-> b, at |-> m, error |-> e]
        BY <2>3, <3>1
      <3>4. v \in ReaderType /\ v.buf = b /\ v.at = m
        BY <3>2, <3>3 DEF ReaderType
      <3> QED
        BY <3>1, <3>4
    <2> QED
      BY <1>6, <2>2, <2>4, <2>5, <2>6 DEF ReaderTypes
  <1>7. CASE ReadField
    BY <1>3, <1>4, <1>7 DEF ReadField
  <1>8. CASE FillFails
    BY <1>4, <1>8 DEF FillFails
  <1>9. CASE ReadLength \/ ReadPacket
    BY <1>3, <1>9 DEF ReadLength, ReadPacket
  <1>10. CASE UNCHANGED readerVars \/ UNCHANGED vars
    BY <1>3, <1>10 DEF readerVars, vars
  <1>11. CASE ReaderProceeds
    BY <1>5, <1>6, <1>7, <1>9, <1>11 DEF ReaderProceeds, writerVars
  <1> QED
    BY <1>8, <1>10, <1>11 DEF Next, WriterProceeds, CallStep

\* The buffers of the writer and of the reader hold bytes and are never
\* overrun, whatever their sizes; the reader has never got more than was sent.
THEOREM TypeOKCorrect ==
    Spec => []TypeOK
  <1>1. BufferInv /\ ReaderTypes => TypeOK
    <2> SUFFICES ASSUME BufferInv, ReaderTypes PROVE TypeOK
      OBVIOUS
    <2>1. /\ w.data \in Seq(Byte) /\ Len(w.data) <= w.count /\ w.error \in Errors
          /\ w.count >= BufferSize /\ (kind = "fd" => w.count = BufferSize)
      BY BufferFacts DEF BufferInv, Types
    <2>2. /\ r.buf \in Seq(Byte) /\ Len(r.buf) <= ReadSize /\ r.at <= Len(stream)
          /\ r.error \in {"none", "EPIPE", "ENOENT"}
      BY DEF ReaderTypes, ReaderType
    <2> QED
      BY <2>1, <2>2 DEF BufferInv, Types, Errors, TypeOK
  <1>2. Init => BufferInv /\ ReaderTypes
    BY WriterInit, ReaderInit
  <1>3. BufferInv /\ ReaderTypes /\ [Next]_vars => (BufferInv /\ ReaderTypes)'
    <2>1. BufferInv => Types
      BY DEF BufferInv
    <2> QED
      BY <2>1, BufferStep, ReaderStep
  <1> QED
    BY <1>1, <1>2, <1>3, PTL DEF Spec

-----------------------------------------------------------------------------
(* What has reached the descriptor, and what is still to be sent.          *)

\* What the call under way has still to send: the buffer, and the bytes of
\* the functions that are left.
Remains(ph, d, l) == IF ph = "idle" THEN <<>> ELSE d \o Rest(l)

\* The call that was hit has a hole in the stream.
Broken(fs) == "hole" \in fs

\* s begins what the calls cs write, or begins with it.
Begins(s, cs) == \E u \in Seq(Byte) : s \o u = Total(cs)
Covers(s, cs) == \E u \in Seq(Byte) : s = Total(cs) \o u

\* Without an error nothing is lost: what has been sent and what remains is
\* what the calls write.  After a write that failed nothing remains of the
\* call, unless it goes on with a hole, and no call is made any more.
Order(k, e, d, ph, l, s, cs, fs) ==
    /\ ph = "ended" => k = "dyn"
    /\ k = "dyn" => e = "none"
    /\ Broken(fs) => e # "none"
    /\ e = "none" => s \o Remains(ph, d, l) = Total(cs)
    /\ e # "none" => \/ Broken(fs)
                     \/ Begins(s, cs) /\ (ph = "writing" => d = <<>> /\ l = <<>>)
    /\ cs # <<>> => Covers(s, Front(cs))

OrderInv == Order(kind, w.error, w.data, phase, left, stream, calls, faults)

\* What lacks its end begins alike.
LEMMA BeginsFacts ==
    ASSUME NEW s \in Seq(Byte), NEW x \in Seq(Byte), NEW cs \in Seq(Calls), s \o x = Total(cs)
    PROVE  Begins(s, cs)
  BY DEF Begins

\* What is there stays, whatever comes after it.
LEMMA CoversFacts ==
    ASSUME NEW s \in Seq(Byte), NEW cs \in Seq(Calls)
    PROVE  /\ s = Total(cs) => Covers(s, cs)
           /\ Covers(s, cs) => \A x \in Seq(Byte) : Covers(s \o x, cs)
  <1>1. ASSUME s = Total(cs) PROVE Covers(s, cs)
    <2>1. s = s \o <<>> /\ <<>> \in Seq(Byte)
      BY ConcatEmptySeq, EmptySeq
    <2> QED
      BY <1>1, <2>1 DEF Covers
  <1>2. ASSUME Covers(s, cs), NEW x \in Seq(Byte) PROVE Covers(s \o x, cs)
    <2>1. PICK u \in Seq(Byte) : s = Total(cs) \o u
      BY <1>2 DEF Covers
    <2>2. PICK t : t = Total(cs)
      OBVIOUS
    <2>3. t \in Seq(Byte)
      BY <2>2, TotalFacts
    <2>4. (t \o u) \o x = t \o (u \o x) /\ u \o x \in Seq(Byte)
      BY <2>3, Regroup, ConcatProperties
    <2> QED
      BY <2>1, <2>2, <2>4 DEF Covers
  <1> QED
    BY <1>1, <1>2

\* What is still to be sent is bytes.
LEMMA RemainsFacts ==
    ASSUME NEW ph, NEW d \in Seq(Byte), NEW l \in Seq(FunctionType)
    PROVE  Remains(ph, d, l) \in Seq(Byte) /\ d \o Rest(l) \in Seq(Byte)
  <1>1. Rest(l) \in Seq(Byte)
    BY RestFacts
  <1>2. d \o Rest(l) \in Seq(Byte)
    BY <1>1, ConcatProperties
  <1> QED
    BY <1>2, EmptySeq DEF Remains

\* The values of the writer's variables.
LEMMA Values1 ==
    ASSUME Types
    PROVE  /\ w.data \in Seq(Byte) /\ left \in Seq(FunctionType) /\ stream \in Seq(Byte)
           /\ calls \in Seq(Calls) /\ phase \in {"idle", "writing", "ended"}
           /\ phase # "writing" => left = <<>>
           /\ w = [data |-> w.data, count |-> w.count, error |-> w.error]
           /\ Len(w.data) \in Nat
  BY BufferFacts DEF Types

\* Nothing was called and nothing was sent.
LEMMA OrderInit ==
    Init => OrderInv
  <1> SUFFICES ASSUME Init PROVE OrderInv
    OBVIOUS
  <1>1. /\ w.error = "none" /\ phase = "idle" /\ stream = <<>> /\ calls = <<>> /\ faults = {}
    BY DEF Init, FdAlloc, DynAlloc
  <1>2. Total(<<>>) = <<>> /\ <<>> \o <<>> = <<>>
    <2>1. <<>> \in Seq(Calls)
      OBVIOUS
    <2>2. Total(<<>>) = <<>>
      BY <2>1, TotalFacts
    <2> QED
      BY <2>2, ConcatEmptySeq, EmptySeq
  <1> QED
    BY <1>1, <1>2 DEF OrderInv, Order, Remains, Broken

\* All calls but the last.
LEMMA FrontType ==
    ASSUME NEW S, NEW s \in Seq(S), s # <<>>
    PROVE  Front(s) \in Seq(S) /\ Len(Front(s)) = Len(s) - 1 /\ \A i \in 1 .. Len(s) - 1 : Front(s)[i] = s[i]
  <1>1. PICK k, t : k = Len(s) - 1 /\ t = Front(s)
    OBVIOUS
  <1>2. k \in Nat /\ k <= Len(s)
    BY <1>1
  <1>3. t = SubSeq(s, 1, k)
    BY <1>1 DEF Front
  <1>4. t \in Seq(S) /\ Len(t) = k /\ \A i \in 1 .. k : t[i] = s[i]
    BY <1>2, <1>3
  <1> QED
    BY <1>1, <1>4

\* A call is the last one when it has been made.
LEMMA LastFacts ==
    ASSUME NEW S, NEW s \in Seq(S), NEW c \in S
    PROVE  /\ Append(s, c) \in Seq(S) /\ Append(s, c) # <<>>
           /\ Last(Append(s, c)) = c /\ Front(Append(s, c)) = s
  <1>1. PICK t, k : t = Append(s, c) /\ k = Len(s)
    OBVIOUS
  <1>2. /\ k \in Nat /\ t \in Seq(S) /\ t # <<>> /\ Len(t) = k + 1 /\ t[k + 1] = c
        /\ \A i \in 1 .. k : t[i] = s[i]
    BY <1>1, AppendProperties
  <1>3. Last(t) = c
    BY <1>2 DEF Last
  <1>4. Front(t) = s
    <2>1. Front(t) = SubSeq(t, 1, k)
      <3>1. Len(t) - 1 = k
        BY <1>2
      <3> QED
        BY <3>1 DEF Front
    <2>2. PICK u : u = SubSeq(t, 1, k)
      OBVIOUS
    <2>3. u \in Seq(S) /\ Len(u) = k /\ \A i \in 1 .. k : u[i] = s[i]
      BY <1>2, <2>2
    <2>4. u = s
      BY <1>1, <2>3, SeqEqual
    <2> QED
      BY <2>1, <2>2, <2>4
  <1> QED
    BY <1>1, <1>2, <1>3, <1>4

\* A call begins with everything before it sent.
LEMMA OrderStart ==
    ASSUME BufferInv, OrderInv, NEW c \in Calls, Start(c)
    PROVE  OrderInv'
  <1>1. PICK k, s, cs, fs : k = kind /\ s = stream /\ cs = calls /\ fs = faults
    OBVIOUS
  <1>2. s \in Seq(Byte) /\ cs \in Seq(Calls)
    BY <1>1, Values1 DEF BufferInv
  <1>3. w.error = "none" /\ w'.error = "none" /\ w'.data = <<>>
    <2>1. CASE kind = "fd" /\ FdStart
      BY <2>1, Values1 DEF FdStart, BufferInv
    <2>2. CASE kind = "dyn" /\ DynStart
      BY <2>2 DEF DynStart, DynAlloc, OrderInv, Order
    <2> QED
      BY <2>1, <2>2 DEF Start
  <1>4. /\ phase = "idle" /\ kind' = k /\ stream' = s /\ faults' = fs
        /\ phase' = "writing" /\ left' = Functions(c) /\ calls' = Append(cs, c)
    BY <1>1 DEF Start
  <1>5. ~Broken(fs) /\ s \o <<>> = Total(cs)
    BY <1>1, <1>3, <1>4 DEF OrderInv, Order, Remains
  <1>6. s = Total(cs)
    BY <1>2, <1>5, ConcatEmptySeq
  <1>7. PICK l, t : l = Functions(c) /\ t = Append(cs, c)
    OBVIOUS
  <1>8. t # <<>> /\ Last(t) = c /\ Front(t) = cs
    BY <1>2, <1>7, LastFacts
  <1>9. s \o Remains("writing", <<>>, l) = Total(t)
    <2>1. Rest(l) = Encoded(c) /\ Encoded(c) \in Seq(Byte)
      BY <1>7, FunctionsFacts, EncodedType
    <2>2. <<>> \o Rest(l) = Encoded(c)
      BY <2>1, ConcatEmptySeq
    <2>3. Total(t) = Total(cs) \o Encoded(c)
      BY <1>2, <1>7, TotalFacts
    <2> QED
      BY <1>6, <2>2, <2>3 DEF Remains
  <1>11. Covers(s, Front(t))
    BY <1>2, <1>6, <1>8, CoversFacts
  <1>12. Order(k, "none", <<>>, "writing", l, s, t, fs)
    BY <1>5, <1>8, <1>9, <1>11 DEF Order
  <1> QED
    BY <1>3, <1>4, <1>7, <1>12 DEF OrderInv

\* A sample whose start action fails sends nothing.
LEMMA OrderRefused ==
    ASSUME BufferInv, OrderInv, NEW c \in Calls, Refused(c)
    PROVE  OrderInv'
  <1>1. PICK k, e, d, l, s, cs, fs : /\ k = kind /\ e = w.error /\ d = w.data /\ l = left
                                     /\ s = stream /\ cs = calls /\ fs = faults
    OBVIOUS
  <1>2. s \in Seq(Byte) /\ cs \in Seq(Calls) /\ d \in Seq(Byte)
    BY <1>1, Values1 DEF BufferInv
  <1>3. phase = "idle" /\ kind' = k /\ phase' = "idle" /\ left' = l /\ stream' = s /\ calls' = cs
    BY <1>1 DEF Refused
  <1>4. Order(k, e, d, "idle", l, s, cs, fs)
    BY <1>1, <1>3 DEF OrderInv
  <1>5. PICK e2, d2, fs2 : e2 = w'.error /\ d2 = w'.data /\ fs2 = faults'
    OBVIOUS
  <1>6. /\ d2 = d /\ (k = "fd" => e2 = "EINVAL") /\ (k # "fd" => e2 = e)
        /\ fs2 = IF e = "none" THEN fs \cup {"start"} ELSE fs
    BY <1>1, <1>5, Values1 DEF Refused, BufferInv
  <1>7. Begins(s, cs) \/ Broken(fs)
    <2>1. CASE e = "none"
      <3>1. s \o <<>> = Total(cs) /\ <<>> \in Seq(Byte)
        BY <1>4, <2>1, EmptySeq DEF Order, Remains
      <3> QED
        BY <3>1 DEF Begins
    <2>2. CASE e # "none"
      BY <1>4, <2>2 DEF Order
    <2> QED
      BY <2>1, <2>2
  <1>8. Broken(fs) <=> Broken(fs2)
    BY <1>6 DEF Broken
  <1>10. Order(k, e2, d, "idle", l, s, cs, fs2)
    <2>1. CASE k = "fd"
      <3>1. k # "dyn" /\ e2 # "none"
        BY <1>6, <2>1
      <3> QED
        BY <1>4, <1>7, <1>8, <3>1 DEF Order
    <2>2. CASE k # "fd"
      BY <1>4, <1>6, <1>8, <2>2 DEF Order
    <2> QED
      BY <2>1, <2>2
  <1> QED
    BY <1>3, <1>5, <1>6, <1>10 DEF OrderInv

\* A function that stores nothing takes nothing away.
LEMMA OrderReturn ==
    ASSUME BufferInv, OrderInv, Return
    PROVE  OrderInv'
  <1>1. PICK k, e, d, l, s, cs, fs : /\ k = kind /\ e = w.error /\ d = w.data /\ l = left
                                     /\ s = stream /\ cs = calls /\ fs = faults
    OBVIOUS
  <1>2. l \in Seq(FunctionType)
    BY <1>1, Values1 DEF BufferInv
  <1>3. phase = "writing" /\ l # <<>> /\ Head(l).bytes = <<>>
    BY <1>1 DEF Return
  <1>4. kind' = k /\ phase' = "writing" /\ w' = w /\ stream' = s /\ calls' = cs /\ faults' = fs /\ left' = Tail(l)
    BY <1>1 DEF Return
  <1>5. Order(k, e, d, "writing", l, s, cs, fs)
    BY <1>1, <1>3 DEF OrderInv
  <1>6. PICK m : m = Tail(l)
    OBVIOUS
  <1>7. Rest(l) = Rest(m)
    <2>1. m \in Seq(FunctionType) /\ Rest(l) = Head(l).bytes \o Rest(m)
      BY <1>2, <1>3, <1>6, RestFacts, BytesOfFacts
    <2>2. Rest(m) \in Seq(Byte)
      BY <2>1, RestFacts
    <2> QED
      BY <1>3, <2>1, <2>2, ConcatEmptySeq
  <1>9. Order(k, e, d, "writing", m, s, cs, fs)
    BY <1>3, <1>5, <1>7 DEF Order, Remains
  <1> QED
    BY <1>1, <1>4, <1>6, <1>9 DEF OrderInv

\* Bytes go from the functions to the buffer.
LEMMA OrderStore ==
    ASSUME BufferInv, OrderInv, Store
    PROVE  OrderInv'
  <1>1. PICK k, e, d, l, s, cs, fs : /\ k = kind /\ e = w.error /\ d = w.data /\ l = left
                                     /\ s = stream /\ cs = calls /\ fs = faults
    OBVIOUS
  <1>2. l \in Seq(FunctionType) /\ d \in Seq(Byte) /\ s \in Seq(Byte)
    BY <1>1, Values1 DEF BufferInv
  <1>3. PICK x, y \in Seq(Byte) :
          /\ l # <<>> /\ Head(l).bytes = x \o y
          /\ w' = [data |-> d \o x, count |-> w.count, error |-> e]
          /\ \/ y = <<>> /\ left' = Tail(l)
             \/ y # <<>> /\ left' = <<[bytes |-> y, failed |-> Head(l).failed]>> \o Tail(l)
    BY <1>1, StoreFacts DEF BufferInv
  <1>4. phase = "writing" /\ kind' = k /\ phase' = "writing" /\ stream' = s /\ calls' = cs /\ faults' = fs
    BY <1>1 DEF Store, Storing
  <1>5. Order(k, e, d, "writing", l, s, cs, fs)
    BY <1>1, <1>4 DEF OrderInv
  <1>6. PICK m, g : m = left' /\ g = Tail(l)
    OBVIOUS
  <1>7. g \in Seq(FunctionType) /\ Rest(g) \in Seq(Byte) /\ Rest(l) = (x \o y) \o Rest(g)
    <2>1. g \in Seq(FunctionType)
      BY <1>2, <1>3, <1>6, BytesOfFacts
    <2> QED
      BY <1>2, <1>3, <1>6, <2>1, RestFacts
  <1>8. m \in Seq(FunctionType) /\ Rest(m) = y \o Rest(g)
    <2>1. CASE y = <<>>
      BY <1>3, <1>6, <1>7, <2>1, ConcatEmptySeq
    <2>2. CASE y # <<>>
      <3>1. m \in Seq(FunctionType) /\ m # <<>> /\ Head(m).bytes = y /\ Tail(m) = g
        BY <1>2, <1>3, <1>6, <2>2, PartLeft
      <3> QED
        BY <3>1, RestFacts
    <2> QED
      BY <2>1, <2>2, <1>3
  <1>9. (d \o x) \o Rest(m) = d \o Rest(l)
    <2>1. PICK z : z = Rest(g)
      OBVIOUS
    <2>2. z \in Seq(Byte) /\ y \o z \in Seq(Byte)
      BY <1>7, <2>1, ConcatProperties
    <2>3. (d \o x) \o (y \o z) = d \o (x \o (y \o z))
      <3>1. PICK v : v = y \o z
        OBVIOUS
      <3>2. v \in Seq(Byte) /\ d \in Seq(Byte)
        BY <1>2, <2>2, <3>1
      <3>3. (d \o x) \o v = d \o (x \o v)
        BY <3>2, Regroup
      <3> QED
        BY <3>1, <3>3
    <2>4. (x \o y) \o z = x \o (y \o z)
      BY <2>2, Regroup
    <2> QED
      BY <1>7, <1>8, <2>1, <2>3, <2>4
  <1>11. Order(k, e, d \o x, "writing", m, s, cs, fs)
    BY <1>3, <1>5, <1>9 DEF Order, Remains
  <1>12. w'.data = d \o x /\ w'.error = e
    BY <1>3
  <1> QED
    BY <1>4, <1>6, <1>11, <1>12 DEF OrderInv

\* fd_flush sends all of the buffer, or a part of it and fails.
LEMMA FlushParts ==
    ASSUME Types, NEW k \in 0 .. Len(w.data), NEW fault, FdFlush(k, fault)
    PROVE  \E x, y \in Seq(Byte) :
             /\ w.data = x \o y /\ stream' = stream \o x /\ w'.data = <<>>
             /\ \/ /\ y = <<>> /\ faults' = faults
                   /\ w'.error = IF w.data = <<>> THEN "EINVAL" ELSE w.error
                \/ faults' = faults \cup {fault} /\ w'.error = "EIO"
  <1>1. PICK d, n, x, y, s : /\ d = w.data /\ n = Len(d) /\ x = SubSeq(d, 1, k) /\ y = SubSeq(d, k + 1, n)
                             /\ s = stream
    OBVIOUS
  <1>2. d \in Seq(Byte) /\ n \in Nat /\ k \in 0 .. n
    BY <1>1, Values1
  <1>3. x \in Seq(Byte) /\ y \in Seq(Byte) /\ Len(y) = n - k /\ d = x \o y
    BY <1>1, <1>2, Cut
  <1>4. /\ stream' = s \o x
        /\ w' = [w EXCEPT !.data = <<>>,
                          !.error = IF k < n THEN "EIO" ELSE IF d = <<>> THEN "EINVAL" ELSE @]
        /\ faults' = IF k < n THEN faults \cup {fault} ELSE faults
    BY <1>1 DEF FdFlush
  <1>5. w = [data |-> w.data, count |-> w.count, error |-> w.error]
    BY Values1
  <1>6. /\ w'.data = <<>>
        /\ w'.error = IF k < n THEN "EIO" ELSE IF d = <<>> THEN "EINVAL" ELSE w.error
    BY <1>4, <1>5
  <1>7. CASE k < n
    BY <1>1, <1>3, <1>4, <1>6, <1>7
  <1>8. CASE ~(k < n)
    <2>1. y = <<>>
      <3>1. Len(y) = 0
        BY <1>2, <1>3, <1>8
      <3> QED
        BY <1>3, <3>1, EmptySeq
    <2> QED
      BY <1>1, <1>3, <1>4, <1>6, <1>8, <2>1
  <1> QED
    BY <1>7, <1>8

\* A part of what remained is sent.
LEMMA SentPart ==
    ASSUME NEW s \in Seq(Byte), NEW x \in Seq(Byte), NEW y \in Seq(Byte), NEW z \in Seq(Byte)
    PROVE  (s \o x) \o (y \o z) = s \o ((x \o y) \o z)
  <1>1. PICK v : v = y \o z
    OBVIOUS
  <1>2. v \in Seq(Byte)
    BY <1>1, ConcatProperties
  <1>3. (s \o x) \o v = s \o (x \o v)
    BY <1>2, Regroup
  <1>4. (x \o y) \o z = x \o (y \o z)
    BY Regroup
  <1> QED
    BY <1>1, <1>3, <1>4

\* Bytes go from a full buffer to the descriptor, or are lost.
LEMMA OrderFlush ==
    ASSUME BufferInv, OrderInv, Flush
    PROVE  OrderInv'
  <1>1. PICK k, e, d, l, s, cs, fs : /\ k = kind /\ e = w.error /\ d = w.data /\ l = left
                                     /\ s = stream /\ cs = calls /\ fs = faults
    OBVIOUS
  <1>2. l \in Seq(FunctionType) /\ d \in Seq(Byte) /\ s \in Seq(Byte) /\ cs \in Seq(Calls) /\ Rest(l) \in Seq(Byte)
    BY <1>1, Values1, RestFacts DEF BufferInv
  <1>3. /\ phase = "writing" /\ phase' = "writing" /\ kind' = k /\ calls' = cs /\ l # <<>>
        /\ left' = IF w'.error = "none" \/ Head(l).failed = "again" THEN l
                   ELSE IF Head(l).failed = "next" THEN Tail(l) ELSE <<>>
    BY <1>1 DEF Flush, Storing
  <1>4. Order(k, e, d, "writing", l, s, cs, fs)
    BY <1>1, <1>3 DEF OrderInv
  <1>5. PICK e2, d2, l2, s2, fs2 : /\ e2 = w'.error /\ d2 = w'.data /\ l2 = left' /\ s2 = stream'
                                   /\ fs2 = faults'
    OBVIOUS
  <1>6. CASE kind = "dyn" /\ DynFlush
    <2>1. d2 = d /\ e2 = "none" /\ s2 = s /\ fs2 = fs /\ e = "none" /\ l2 = l
      BY <1>1, <1>3, <1>4, <1>5, <1>6, Values1 DEF DynFlush, BufferInv, Order
    <2>2. Order(k, e2, d2, "writing", l2, s2, cs, fs2)
      BY <1>4, <2>1
    <2> QED
      BY <1>3, <1>5, <2>2 DEF OrderInv
  <1>7. CASE kind = "fd" /\ \E n \in 0 .. Len(w.data) : FdFlush(n, FlushFault)
    <2> DEFINE fault == IF Head(l).failed = "stop" THEN "write" ELSE "hole"
    <2>8. fault = FlushFault
      BY <1>1 DEF FlushFault
    <2> HIDE DEF fault
    <2>9. \E n \in 0 .. Len(w.data) : FdFlush(n, fault)
      BY <1>7, <2>8
    <2>1. d # <<>>
      <3>1. Len(d) >= w.count /\ w.count >= BufferSize
        BY <1>1, BufferFacts DEF BufferInv, Types, Flush, Full
      <3>2. Len(d) # 0
        <4>1. w.count \in Nat /\ Len(d) \in Nat
          BY <1>1, BufferFacts DEF BufferInv, Types
        <4> QED
          BY <3>1, <4>1, Bases
      <3> QED
        BY <3>2
    <2>2. PICK x, y \in Seq(Byte) :
             /\ d = x \o y /\ s2 = s \o x /\ d2 = <<>>
             /\ \/ y = <<>> /\ fs2 = fs /\ e2 = e
                \/ fs2 = fs \cup {fault} /\ e2 = "EIO"
      BY <1>1, <1>5, <2>9, <2>1, FlushParts DEF BufferInv
    <2>3. k # "dyn"
      BY <1>1, <1>7
    <2>4. cs # <<>> => Covers(s2, Front(cs))
      <3> SUFFICES ASSUME cs # <<>> PROVE Covers(s2, Front(cs))
        OBVIOUS
      <3>1. PICK f : f = Front(cs)
        OBVIOUS
      <3>2. f \in Seq(Calls)
        BY <1>2, <3>1, FrontType
      <3>3. Covers(s, f)
        BY <1>4, <3>1 DEF Order
      <3>4. Covers(s \o x, f)
        BY <1>2, <3>2, <3>3, CoversFacts
      <3> QED
        BY <2>2, <3>1, <3>4
    <2>5. CASE e # "none"
      <3>1. Broken(fs)
        BY <1>3, <1>4, <2>5 DEF Order
      <3>2. Broken(fs2) /\ e2 # "none"
        BY <2>2, <2>5, <3>1 DEF Broken
      <3>3. Order(k, e2, d2, "writing", l2, s2, cs, fs2)
        BY <2>3, <2>4, <3>2 DEF Order
      <3> QED
        BY <1>3, <1>5, <3>3 DEF OrderInv
    <2>6. CASE e = "none" /\ y = <<>> /\ fs2 = fs /\ e2 = e
      <3>1. l2 = l
        BY <1>3, <1>5, <2>6
      <3>2. s2 \o (<<>> \o Rest(l)) = s \o (d \o Rest(l))
        BY <1>2, <2>2, <2>6, SentPart
      <3>3. Order(k, e2, d2, "writing", l2, s2, cs, fs2)
        BY <1>4, <2>2, <2>3, <2>4, <2>6, <3>1, <3>2 DEF Order, Remains
      <3> QED
        BY <1>3, <1>5, <3>3 DEF OrderInv
    <2>7. CASE e = "none" /\ fs2 = fs \cup {fault} /\ e2 = "EIO"
      <3>1. s2 \o (y \o Rest(l)) = Total(cs)
        <4>1. s \o (d \o Rest(l)) = Total(cs)
          BY <1>4, <2>7 DEF Order, Remains
        <4>2. (s \o x) \o (y \o Rest(l)) = s \o ((x \o y) \o Rest(l))
          <5>1. PICK z : z = Rest(l)
            OBVIOUS
          <5>2. z \in Seq(Byte) /\ s \in Seq(Byte)
            BY <1>2, <5>1
          <5>3. (s \o x) \o (y \o z) = s \o ((x \o y) \o z)
            <6>1. \A a, b \in Seq(Byte) : (s \o x) \o (a \o b) = s \o ((x \o a) \o b)
              BY <5>2, SentPart
            <6> QED
              BY <5>2, <6>1
          <5> QED
            BY <5>1, <5>3
        <4> QED
          BY <2>2, <4>1, <4>2
      <3>2. Begins(s2, cs)
        <4>1. y \o Rest(l) \in Seq(Byte)
          BY <1>2, ConcatProperties
        <4> QED
          BY <3>1, <4>1 DEF Begins
      <3>3. CASE Head(l).failed # "stop"
        <4>1. Broken(fs2)
          BY <2>7, <3>3 DEF Broken, fault
        <4>2. Order(k, e2, d2, "writing", l2, s2, cs, fs2)
          BY <2>3, <2>4, <2>7, <4>1 DEF Order
        <4> QED
          BY <1>3, <1>5, <4>2 DEF OrderInv
      <3>4. CASE Head(l).failed = "stop"
        <4>1. l2 = <<>>
          BY <1>3, <1>5, <2>7, <3>4
        <4>2. Order(k, e2, d2, "writing", l2, s2, cs, fs2)
          BY <2>2, <2>3, <2>4, <2>7, <3>2, <4>1 DEF Order
        <4> QED
          BY <1>3, <1>5, <4>2 DEF OrderInv
      <3> QED
        BY <3>3, <3>4
    <2> QED
      BY <2>2, <2>5, <2>6, <2>7
  <1> QED
    BY <1>6, <1>7 DEF Flush

\* The rest of the buffer goes to the descriptor.
LEMMA OrderEnd ==
    ASSUME BufferInv, OrderInv, End
    PROVE  OrderInv'
  <1>1. PICK k, e, d, s, cs, fs : /\ k = kind /\ e = w.error /\ d = w.data
                                  /\ s = stream /\ cs = calls /\ fs = faults
    OBVIOUS
  <1>2. d \in Seq(Byte) /\ s \in Seq(Byte) /\ cs \in Seq(Calls) /\ Rest(<<>>) = <<>>
    <2>1. <<>> \in Seq(FunctionType)
      OBVIOUS
    <2>2. Rest(<<>>) = <<>>
      BY <2>1, RestFacts
    <2> QED
      BY <1>1, <2>2, Values1 DEF BufferInv
  <1>3. phase = "writing" /\ left = <<>> /\ left' = <<>> /\ kind' = k /\ calls' = cs
    BY <1>1 DEF End
  <1>4. Order(k, e, d, "writing", <<>>, s, cs, fs)
    BY <1>1, <1>3 DEF OrderInv
  <1>5. PICK e2, d2, s2, fs2 : e2 = w'.error /\ d2 = w'.data /\ s2 = stream' /\ fs2 = faults'
    OBVIOUS
  <1>6. d \o <<>> = d
    BY <1>2, ConcatEmptySeq
  <1>7. CASE kind = "dyn" /\ DynEnd
    <2>1. phase' = "ended" /\ d2 = d /\ e2 = e /\ s2 = s /\ fs2 = fs /\ k = "dyn"
      BY <1>1, <1>5, <1>7 DEF DynEnd
    <2>2. e = "none"
      BY <1>4, <2>1 DEF Order
    <2>3. Order(k, e, d, "ended", <<>>, s, cs, fs)
      BY <1>4, <2>1, <2>2 DEF Order, Remains
    <2> QED
      BY <1>3, <1>5, <2>1, <2>3 DEF OrderInv
  <1>8. CASE kind = "fd" /\ (\E n \in 0 .. Len(w.data) : FdFlush(n, "write")) /\ phase' = "idle"
    <2>1. PICK x, y \in Seq(Byte) :
             /\ d = x \o y /\ s2 = s \o x /\ d2 = <<>>
             /\ \/ /\ y = <<>> /\ fs2 = fs
                   /\ e2 = IF d = <<>> THEN "EINVAL" ELSE e
                \/ fs2 = fs \cup {"write"} /\ e2 = "EIO"
      BY <1>1, <1>5, <1>8, FlushParts DEF BufferInv
    <2>2. k # "dyn" /\ (e = "none" => d # <<>>)
      BY <1>1, <1>3, <1>8 DEF BufferInv, Started
    <2>3. cs # <<>> => Covers(s2, Front(cs))
      <3> SUFFICES ASSUME cs # <<>> PROVE Covers(s2, Front(cs))
        OBVIOUS
      <3>1. PICK f : f = Front(cs)
        OBVIOUS
      <3>2. f \in Seq(Calls)
        BY <1>2, <3>1, FrontType
      <3>3. Covers(s, f)
        BY <1>4, <3>1 DEF Order
      <3>4. Covers(s \o x, f)
        BY <1>2, <3>2, <3>3, CoversFacts
      <3> QED
        BY <2>1, <3>1, <3>4
    <2>4. CASE e = "none"
      <3>1. s \o d = Total(cs)
        BY <1>2, <1>4, <1>6, <2>4 DEF Order, Remains
      <3>2. s2 \o y = Total(cs)
        <4>1. (s \o x) \o y = s \o (x \o y)
          BY <1>2, Regroup
        <4> QED
          BY <2>1, <3>1, <4>1
      <3>3. CASE y = <<>> /\ fs2 = fs /\ e2 = e
        <4>1. Order(k, e2, d2, "idle", <<>>, s2, cs, fs2)
          BY <1>4, <2>2, <2>3, <2>4, <3>2, <3>3 DEF Order, Remains
        <4> QED
          BY <1>3, <1>5, <1>8, <4>1 DEF OrderInv
      <3>4. CASE fs2 = fs \cup {"write"} /\ e2 = "EIO"
        <4>1. Begins(s2, cs)
          BY <3>2 DEF Begins
        <4>2. Order(k, e2, d2, "idle", <<>>, s2, cs, fs2)
          BY <2>2, <2>3, <3>4, <4>1 DEF Order
        <4> QED
          BY <1>3, <1>5, <1>8, <4>2 DEF OrderInv
      <3> QED
        BY <2>1, <2>2, <2>4, <3>3, <3>4
    <2>5. CASE e # "none"
      <3>1. Broken(fs) \/ (Begins(s, cs) /\ d = <<>>)
        BY <1>4, <2>5 DEF Order
      <3>2. e2 # "none"
        BY <2>1, <2>5
      <3>3. Broken(fs2) \/ Begins(s2, cs)
        <4>1. CASE Broken(fs)
          BY <2>1, <4>1 DEF Broken
        <4>2. CASE Begins(s, cs) /\ d = <<>>
          <5>1. x = <<>>
            <6>1. PICK m, n, j : m = Len(x) /\ n = Len(y) /\ j = Len(d)
              OBVIOUS
            <6>2. j = m + n /\ m \in Nat /\ n \in Nat
              BY <2>1, <6>1, ConcatProperties
            <6>3. j = 0
              BY <4>2, <6>1
            <6>4. m = 0
              BY <6>2, <6>3
            <6> QED
              BY <6>1, <6>4, EmptySeq
          <5>2. s2 = s
            BY <1>2, <2>1, <5>1, ConcatEmptySeq
          <5> QED
            BY <4>2, <5>2
        <4> QED
          BY <3>1, <4>1, <4>2
      <3>4. Order(k, e2, d2, "idle", <<>>, s2, cs, fs2)
        BY <2>2, <2>3, <3>2, <3>3 DEF Order
      <3> QED
        BY <1>3, <1>5, <1>8, <3>4 DEF OrderInv
    <2> QED
      BY <2>4, <2>5
  <1> QED
    BY <1>7, <1>8 DEF End

\* The program sends the bytes that it takes.
LEMMA OrderTake ==
    ASSUME BufferInv, OrderInv, Take
    PROVE  OrderInv'
  <1>1. PICK k, e, d, l, s, cs, fs : /\ k = kind /\ e = w.error /\ d = w.data /\ l = left
                                     /\ s = stream /\ cs = calls /\ fs = faults
    OBVIOUS
  <1>2. phase = "ended" /\ phase' = "idle" /\ w' = w /\ left' = l /\ calls' = cs /\ faults' = fs /\ kind' = k
        /\ stream' = s \o d
    BY <1>1 DEF Take
  <1>3. Order(k, e, d, "ended", l, s, cs, fs)
    BY <1>1, <1>2 DEF OrderInv
  <1>4. l = <<>> /\ d \in Seq(Byte) /\ s \in Seq(Byte) /\ cs \in Seq(Calls)
    BY <1>1, <1>2, Values1 DEF BufferInv
  <1>5. k = "dyn" /\ e = "none" /\ s \o (d \o Rest(l)) = Total(cs)
    BY <1>3 DEF Order, Remains
  <1>6. Rest(l) = <<>> /\ d \o <<>> = d /\ s \o d \in Seq(Byte)
    <2>1. l \in Seq(FunctionType)
      BY <1>4, EmptySeq
    <2>2. Rest(l) = <<>>
      BY <1>4, <2>1, RestFacts
    <2> QED
      BY <1>4, <2>2, ConcatEmptySeq, ConcatProperties
  <1>7. (s \o d) \o <<>> = Total(cs)
    BY <1>5, <1>6, ConcatEmptySeq
  <1>8. cs # <<>> => Covers(s \o d, Front(cs))
    <2> SUFFICES ASSUME cs # <<>> PROVE Covers(s \o d, Front(cs))
      OBVIOUS
    <2>1. PICK f : f = Front(cs)
      OBVIOUS
    <2>2. f \in Seq(Calls) /\ Covers(s, f)
      BY <1>3, <1>4, <2>1, FrontType DEF Order
    <2> QED
      BY <1>4, <2>1, <2>2, CoversFacts
  <1>9. Order(k, e, d, "idle", l, s \o d, cs, fs)
    BY <1>3, <1>5, <1>7, <1>8 DEF Order, Remains
  <1> QED
    BY <1>1, <1>2, <1>9 DEF OrderInv

\* Every step keeps the order of the bytes.
LEMMA OrderStep ==
    ASSUME BufferInv, OrderInv, [Next]_vars
    PROVE  OrderInv'
  <1>1. CASE CallStep
    BY <1>1, OrderStart, OrderRefused DEF CallStep
  <1>2. CASE Return
    BY <1>2, OrderReturn
  <1>3. CASE Store
    BY <1>3, OrderStore
  <1>4. CASE Flush
    BY <1>4, OrderFlush
  <1>5. CASE End
    BY <1>5, OrderEnd
  <1>6. CASE Take
    BY <1>6, OrderTake
  <1>7. CASE UNCHANGED writerVars
    BY <1>7 DEF writerVars, OrderInv
  <1>8. CASE UNCHANGED vars
    BY <1>8 DEF vars, OrderInv
  <1> QED
    BY <1>1, <1>2, <1>3, <1>4, <1>5, <1>6, <1>7, <1>8 DEF Next, WriterProceeds, ReaderProceeds

\* The stream is in order as long as nothing is damaged.
LEMMA OrderedStream ==
    BufferInv /\ OrderInv => StreamInOrder
  <1> SUFFICES ASSUME BufferInv, OrderInv, ~Damaged
               PROVE  IsPrefix(stream, Total(calls))
    BY DEF StreamInOrder, Total
  <1>1. PICK ph, d, l, s, cs, fs : /\ ph = phase /\ d = w.data /\ l = left /\ s = stream /\ cs = calls /\ fs = faults
    OBVIOUS
  <1>2. d \in Seq(Byte) /\ l \in Seq(FunctionType) /\ s \in Seq(Byte) /\ cs \in Seq(Calls)
    BY <1>1, Values1 DEF BufferInv
  <1>3. Order(kind, w.error, d, ph, l, s, cs, fs) /\ ~Broken(fs)
    BY <1>1 DEF OrderInv, Damaged, Broken
  <1>4. Begins(s, cs)
    <2>1. CASE w.error = "none"
      <3>1. s \o Remains(ph, d, l) = Total(cs)
        BY <1>3, <2>1 DEF Order
      <3>2. Remains(ph, d, l) \in Seq(Byte)
        BY <1>2, RemainsFacts
      <3> QED
        BY <3>1, <3>2 DEF Begins
    <2>2. CASE w.error # "none"
      BY <1>3, <2>2 DEF Order
    <2> QED
      BY <2>1, <2>2
  <1>5. PICK u \in Seq(Byte) : s \o u = Total(cs)
    BY <1>4 DEF Begins
  <1>6. IsPrefix(s, s \o u)
    <2>1. PICK t, n : t = s \o u /\ n = Len(s)
      OBVIOUS
    <2>2. n \in Nat /\ t \in Seq(Byte) /\ n <= Len(t) /\ \A i \in 1 .. n : t[i] = s[i]
      <3>1. t \in Seq(Byte) /\ IsJoined(t, s, Len(s), u, Len(u))
        BY <1>2, <2>1, Joined
      <3> QED
        BY <2>1, <3>1 DEF IsJoined
    <2>3. SubSeq(s, 1, n) = SubSeq(t, 1, n)
      <3>1. PICK a, b : a = SubSeq(s, 1, n) /\ b = SubSeq(t, 1, n)
        OBVIOUS
      <3>2. a \in Seq(Byte) /\ Len(a) = n /\ \A i \in 1 .. n : a[i] = s[i]
        BY <1>2, <2>1, <2>2, <3>1
      <3>3. b \in Seq(Byte) /\ Len(b) = n /\ \A i \in 1 .. n : b[i] = t[i]
        BY <2>2, <3>1
      <3>4. a = b
        BY <2>2, <3>2, <3>3, SeqEqual
      <3> QED
        BY <3>1, <3>4
    <2> QED
      BY <2>1, <2>2, <2>3 DEF IsPrefix
  <1> QED
    BY <1>1, <1>5, <1>6

\* What reaches the reader is, however the buffer is filled and flushed and
\* however large it is, a prefix of what the calls write: no byte is lost,
\* repeated or sent out of its place, up to a write that fails in a call that
\* goes on, a declaration or a sample at the length of one of its arrays.
THEOREM StreamInOrderCorrect ==
    Spec => []StreamInOrder
  <1>1. Init => BufferInv /\ OrderInv
    BY WriterInit, OrderInit
  <1>2. BufferInv /\ OrderInv /\ [Next]_vars => (BufferInv /\ OrderInv)'
    BY BufferStep, OrderStep
  <1> QED
    BY <1>1, <1>2, OrderedStream, PTL DEF Spec

-----------------------------------------------------------------------------
(* Sequences of anything.                                                  *)

IsSeq(s) == Len(s) \in Nat /\ s = [i \in 1 .. Len(s) |-> s[i]]

Elements(s) == {s[i] : i \in 1 .. Len(s)}

\* The first j elements of s, and those after them.
Taken(s, j)   == [i \in 1 .. j |-> s[i]]
Dropped(s, j) == [i \in 1 .. Len(s) - j |-> s[i + j]]

\* A sequence is one of its elements.
LEMMA SeqElements ==
    ASSUME NEW s, IsSeq(s)
    PROVE  s \in Seq(Elements(s))
  <1>1. \A i \in 1 .. Len(s) : s[i] \in Elements(s)
    BY DEF Elements
  <1>2. PICK k, S : k = Len(s) /\ S = Elements(s)
    OBVIOUS
  <1>3. k \in Nat /\ s = [i \in 1 .. k |-> s[i]] /\ \A i \in 1 .. k : s[i] \in S
    BY <1>1, <1>2 DEF IsSeq
  <1>4. s \in Seq(S)
    BY <1>3
  <1> QED
    BY <1>2, <1>4

\* A function of 1 .. k is a sequence.
LEMMA FunctionSeq ==
    ASSUME NEW s, NEW k \in Nat, s = [i \in 1 .. k |-> s[i]]
    PROVE  IsSeq(s) /\ Len(s) = k /\ DOMAIN s = 1 .. k
  <1>1. Len(s) = k /\ DOMAIN s = 1 .. k
    OBVIOUS
  <1> QED
    BY <1>1 DEF IsSeq

\* A sequence of some set is one of anything.
LEMMA ElementSeq ==
    ASSUME NEW S, NEW s \in Seq(S)
    PROVE  IsSeq(s)
  <1>1. Len(s) \in Nat /\ s = [i \in 1 .. Len(s) |-> s[i]]
    OBVIOUS
  <1> QED
    BY <1>1 DEF IsSeq

\* One more at the end.
LEMMA AppendAny ==
    ASSUME NEW s, IsSeq(s), NEW x
    PROVE  /\ IsSeq(Append(s, x)) /\ Len(Append(s, x)) = Len(s) + 1
           /\ \A i \in 1 .. Len(s) : Append(s, x)[i] = s[i]
           /\ Append(s, x)[Len(s) + 1] = x
  <1>1. PICK S, T : S = Elements(s) /\ T = S \cup {x}
    OBVIOUS
  <1>2. s \in Seq(S)
    BY <1>1, SeqElements
  <1>3. s \in Seq(T) /\ x \in T
    BY <1>1, <1>2
  <1>4. /\ Append(s, x) \in Seq(T) /\ Len(Append(s, x)) = Len(s) + 1
        /\ \A i \in 1 .. Len(s) : Append(s, x)[i] = s[i]
        /\ Append(s, x)[Len(s) + 1] = x
    BY <1>3, AppendProperties
  <1>5. IsSeq(Append(s, x))
    BY <1>4, ElementSeq
  <1> QED
    BY <1>4, <1>5

\* One more at the beginning.
LEMMA ConsAny ==
    ASSUME NEW s, IsSeq(s), NEW x
    PROVE  /\ <<x>> \o s # <<>> /\ Head(<<x>> \o s) = x /\ Tail(<<x>> \o s) = s
  <1>1. PICK S, T : S = Elements(s) /\ T = S \cup {x}
    OBVIOUS
  <1>2. s \in Seq(S)
    BY <1>1, SeqElements
  <1>3. s \in Seq(T) /\ <<x>> \in Seq(T) /\ x \in T
    BY <1>1, <1>2
  <1> HIDE <1>1
  <1>4. <<x>> \o s # <<>> /\ Head(<<x>> \o s) = x /\ Tail(<<x>> \o s) = s
    BY <1>3
  <1> QED
    BY <1>4

\* All but the first.
LEMMA TailAny ==
    ASSUME NEW s, IsSeq(s), s # <<>>
    PROVE  /\ Len(s) \in Nat \ {0} /\ Head(s) = s[1] /\ IsSeq(Tail(s)) /\ Len(Tail(s)) = Len(s) - 1
           /\ Tail(s) = [i \in 1 .. Len(s) - 1 |-> s[i + 1]]
  <1>1. PICK S, k, t : S = Elements(s) /\ k = Len(s) /\ t = Tail(s)
    OBVIOUS
  <1>2. s \in Seq(S) /\ k \in Nat
    BY <1>1, SeqElements DEF IsSeq
  <1>3. k # 0 /\ Head(s) = s[1]
    BY <1>1, <1>2
  <1>4. t \in Seq(S) /\ Len(t) = k - 1 /\ \A i \in 1 .. k - 1 : t[i] = s[i + 1]
    BY <1>1, <1>2, HeadTailProperties
  <1>5. t = [i \in 1 .. k - 1 |-> t[i]]
    BY <1>4
  <1>6. t = [i \in 1 .. k - 1 |-> s[i + 1]]
    BY <1>4, <1>5
  <1>7. IsSeq(t)
    BY <1>4, ElementSeq
  <1> QED
    BY <1>1, <1>2, <1>3, <1>4, <1>6, <1>7

\* The first j of a sequence.
LEMMA TakenFacts ==
    ASSUME NEW s, NEW j \in Nat
    PROVE  /\ IsSeq(Taken(s, j)) /\ Len(Taken(s, j)) = j
           /\ \A i \in 1 .. j : Taken(s, j)[i] = s[i]
           /\ Append(Taken(s, j), s[j + 1]) = Taken(s, j + 1)
  <1>1. PICK t, x, u : t = Taken(s, j) /\ x = s[j + 1] /\ u = Append(t, x)
    OBVIOUS
  <1>2. t = [i \in 1 .. j |-> t[i]] /\ \A i \in 1 .. j : t[i] = s[i]
    BY <1>1 DEF Taken
  <1>3. IsSeq(t) /\ Len(t) = j
    BY <1>2, FunctionSeq
  <1>4. IsSeq(u) /\ Len(u) = j + 1 /\ (\A i \in 1 .. j : u[i] = t[i]) /\ u[j + 1] = x
    BY <1>1, <1>3, AppendAny
  <1>5. u = [i \in 1 .. j + 1 |-> u[i]]
    BY <1>4 DEF IsSeq
  <1>6. \A i \in 1 .. j + 1 : u[i] = s[i]
    <2> TAKE i \in 1 .. j + 1
    <2>1. CASE i = j + 1
      BY <1>1, <1>4, <2>1
    <2>2. CASE i # j + 1
      <3>1. i \in 1 .. j
        BY <2>2
      <3> QED
        BY <1>2, <1>4, <3>1
    <2> QED
      BY <2>1, <2>2
  <1>7. u = Taken(s, j + 1)
    BY <1>5, <1>6 DEF Taken
  <1> QED
    BY <1>1, <1>2, <1>3, <1>7

\* All of a sequence, and nothing of it.
LEMMA TakenAll ==
    ASSUME NEW s, IsSeq(s)
    PROVE  Taken(s, Len(s)) = s /\ Dropped(s, 0) = s /\ Taken(s, 0) = <<>>
  <1>1. PICK k : k = Len(s)
    OBVIOUS
  <1>2. k \in Nat /\ s = [i \in 1 .. k |-> s[i]] /\ k - 0 = k
    BY <1>1 DEF IsSeq
  <1>3. \A i \in 1 .. k : i + 0 = i
    BY <1>2
  <1>4. [i \in 1 .. k |-> s[i + 0]] = [i \in 1 .. k |-> s[i]]
    BY <1>3
  <1>5. Taken(s, 0) = <<>>
    <2>1. 1 .. 0 = {}
      OBVIOUS
    <2> QED
      BY <2>1 DEF Taken
  <1> QED
    BY <1>1, <1>2, <1>4, <1>5 DEF Taken, Dropped

\* A sequence without its first j.
LEMMA DroppedFacts ==
    ASSUME NEW s, Len(s) \in Nat, NEW j \in 0 .. Len(s)
    PROVE  /\ IsSeq(Dropped(s, j)) /\ Len(Dropped(s, j)) = Len(s) - j
           /\ j = Len(s) => Dropped(s, j) = <<>>
           /\ j < Len(s) => /\ Dropped(s, j) # <<>> /\ Head(Dropped(s, j)) = s[j + 1]
                            /\ Tail(Dropped(s, j)) = Dropped(s, j + 1)
  <1>1. PICK k, m, d : k = Len(s) /\ m = k - j /\ d = Dropped(s, j)
    OBVIOUS
  <1>2. k \in Nat /\ j \in Nat /\ m \in Nat /\ m = k - j
    BY <1>1
  <1>3. d = [i \in 1 .. m |-> d[i]] /\ \A i \in 1 .. m : d[i] = s[i + j]
    BY <1>1 DEF Dropped
  <1>4. IsSeq(d) /\ Len(d) = m
    BY <1>2, <1>3, FunctionSeq
  <1>5. ASSUME j = k PROVE d = <<>>
    <2>1. m = 0
      BY <1>2, <1>5
    <2>2. d \in Seq(Elements(d)) /\ Len(d) = 0
      BY <1>4, <2>1, SeqElements
    <2> QED
      BY <2>2, EmptySeq
  <1>6. ASSUME j < k PROVE d # <<>> /\ Head(d) = s[j + 1] /\ Tail(d) = Dropped(s, j + 1)
    <2>1. m \in Nat \ {0} /\ 1 \in 1 .. m
      BY <1>2, <1>6
    <2>2. d # <<>>
      <3>1. Len(d) # 0
        BY <1>4, <2>1
      <3> QED
        BY <3>1
    <2>3. Head(d) = d[1] /\ Tail(d) = [i \in 1 .. m - 1 |-> d[i + 1]]
      BY <1>4, <2>2, TailAny
    <2>4. d[1] = s[j + 1]
      <3>1. 1 + j = j + 1 /\ d[1] = s[1 + j]
        BY <1>2, <1>3, <2>1
      <3> QED
        BY <3>1
    <2>5. k - (j + 1) = m - 1
      BY <1>2
    <2>6. \A i \in 1 .. m - 1 : d[i + 1] = s[i + (j + 1)]
      <3> TAKE i \in 1 .. m - 1
      <3>1. i + 1 \in 1 .. m /\ (i + 1) + j = i + (j + 1)
        BY <1>2
      <3> QED
        BY <1>3, <3>1
    <2>7. Dropped(s, j + 1) = [i \in 1 .. m - 1 |-> s[i + (j + 1)]]
      BY <1>1, <2>5 DEF Dropped
    <2> QED
      BY <2>2, <2>3, <2>4, <2>6, <2>7
  <1> QED
    BY <1>1, <1>4, <1>5, <1>6

\* The chunks after the first j.
LEMMA ChunksAfter ==
    ASSUME NEW S, NEW s, Chunks(s, S), NEW j \in 0 .. Len(s)
    PROVE  /\ Chunks(Dropped(s, j), S) /\ FlattenSeq(Dropped(s, j)) \in Seq(S)
           /\ j = Len(s) => FlattenSeq(Dropped(s, j)) = <<>>
           /\ j < Len(s) => /\ s[j + 1] \in Seq(S)
                            /\ FlattenSeq(Dropped(s, j)) = s[j + 1] \o FlattenSeq(Dropped(s, j + 1))
  <1>1. Len(s) \in Nat /\ \A i \in 1 .. Len(s) : s[i] \in Seq(S)
    BY ChunksFacts
  <1>2. PICK d, m : d = Dropped(s, j) /\ m = Len(s) - j
    OBVIOUS
  <1>3. IsSeq(d) /\ Len(d) = m /\ m \in Nat
    BY <1>1, <1>2, DroppedFacts
  <1>4. \A i \in 1 .. m : d[i] \in Seq(S)
    <2> TAKE i \in 1 .. m
    <2>1. d[i] = s[i + j] /\ i + j \in 1 .. Len(s)
      BY <1>1, <1>2, <1>3 DEF Dropped
    <2> QED
      BY <1>1, <2>1
  <1>5. Chunks(d, S)
    <2>1. PICK T : T = Seq(S)
      OBVIOUS
    <2>2. d = [i \in 1 .. m |-> d[i]] /\ \A i \in 1 .. m : d[i] \in T
      BY <1>3, <1>4, <2>1 DEF IsSeq
    <2>3. d \in Seq(T)
      BY <1>3, <2>2
    <2> QED
      BY <2>1, <2>3 DEF Chunks
  <1>6. FlattenSeq(d) \in Seq(S)
    BY <1>5, FlattenType DEF Chunks
  <1>7. ASSUME j = Len(s) PROVE FlattenSeq(d) = <<>>
    <2>1. Len(d) = 0
      BY <1>1, <1>2, <1>3, <1>7
    <2>2. FlattenSeq(d) = d
      BY <2>1, FlattenEmpty
    <2>3. d = <<>>
      BY <1>1, <1>2, <1>7, DroppedFacts
    <2> QED
      BY <2>2, <2>3
  <1>8. ASSUME j < Len(s)
        PROVE  s[j + 1] \in Seq(S) /\ FlattenSeq(d) = s[j + 1] \o FlattenSeq(Dropped(s, j + 1))
    <2>1. d # <<>> /\ Head(d) = s[j + 1] /\ Tail(d) = Dropped(s, j + 1)
      BY <1>1, <1>2, <1>8, DroppedFacts
    <2>2. Head(d) = d[1]
      BY <1>3, <2>1, TailAny
    <2>3. FlattenSeq(d) = d[1] \o FlattenSeq(Tail(d)) /\ d[1] \in Seq(S)
      BY <1>5, <2>1, FlattenCons
    <2> QED
      BY <2>1, <2>2, <2>3
  <1> QED
    BY <1>2, <1>5, <1>6, <1>7, <1>8

-----------------------------------------------------------------------------
(* What the reader finds in a call.                                        *)

\* The first two numbers, and what is read after them.
Header == <<Item("packed", 0), Item("packed", 0)>>

ItemsOf(c) == BodyItems(c.tag, Length(c))

\* The item of the value number j + 1.
ItemAt(c, j) == IF j < 2 THEN Item("packed", 0) ELSE ItemsOf(c)[j - 1]

\* What is still to be read after j values.
WantAt(c, j) == IF j < 2 THEN Dropped(Header, j) ELSE Dropped(ItemsOf(c), j - 2)

\* The reader knows what to read for the call.
Known(c) == IsSample(c) => c.tag \in DOMAIN Layout

\* The bytes of a field each; of a packet that is skipped, those of its body.
FieldParts(c) == [n \in DOMAIN Fields(c) |-> Bytes(Fields(c)[n])]
BodyBytes(c)  == FlattenSeq([n \in DOMAIN Body(c) |-> Bytes(Body(c)[n])])
Parts(c) ==
    IF Skipped(c) THEN <<Packed32(c.tag), Packed32(Length(c)), BodyBytes(c)>> ELSE FieldParts(c)

\* The item it reads v from the bytes b, when the value before was g.
Fits(it, b, v, g) ==
    \/ it.k = "packed" /\ IsNumber(v) /\ b = Packed32(v)
    \/ it.k = "string" /\ IsString(v) /\ b = Packed32(Len(v)) \o v
    \/ it.k = "bytes" /\ Len(b) = it.n /\ Assembled(b) = v
    \/ it.k = "counted" /\ Len(b) = g /\ v = b
    \/ it.k \in {"chars", "skipped"} /\ Len(b) = it.n /\ v = b

\* The parts of a call are its bytes, and the items read its values from them.
Readable(c) ==
    /\ IsSeq(Values(c)) /\ Len(Values(c)) \in Nat \ {0, 1} /\ Len(Parts(c)) = Len(Values(c))
    /\ Chunks(Parts(c), Byte) /\ FlattenSeq(Parts(c)) = Encoded(c)
    /\ Values(c)[1] = c.tag /\ Values(c)[2] = Length(c)
    /\ Known(c) => IsSeq(ItemsOf(c)) /\ Len(ItemsOf(c)) = Len(Values(c)) - 2
    /\ \A j \in 0 .. Len(Values(c)) - 1 :
         j < 2 \/ Known(c) => Fits(ItemAt(c, j), Parts(c)[j + 1], Values(c)[j + 1], Values(c)[j])

\* The fields of a call are the chunks of what it writes.
LEMMA FieldPartsFacts ==
    ASSUME NEW c \in Calls
    PROVE  /\ Chunks(FieldParts(c), Byte) /\ Len(FieldParts(c)) = Len(Fields(c))
           /\ FlattenSeq(FieldParts(c)) = Encoded(c)
           /\ \A n \in 1 .. Len(Fields(c)) : FieldParts(c)[n] = Bytes(Fields(c)[n])
  <1>1. PICK k, f, e, B : k = Len(Fields(c)) /\ f = Fields(c) /\ e = FieldParts(c) /\ B = Seq(Byte)
    OBVIOUS
  <1>2. k \in Nat /\ DOMAIN f = 1 .. k /\ \A n \in 1 .. k : IsField(f[n])
    BY <1>1, FieldsFacts
  <1>3. \A n \in 1 .. k : Bytes(f[n]) \in B
    BY <1>1, <1>2, FieldBytes
  <1>4. e = [n \in 1 .. k |-> Bytes(f[n])]
    BY <1>1, <1>2 DEF FieldParts
  <1>5. e = [n \in 1 .. k |-> e[n]] /\ \A n \in 1 .. k : e[n] = Bytes(f[n])
    BY <1>4
  <1>6. e \in Seq(B) /\ Len(e) = k
    <2>1. \A n \in 1 .. k : e[n] \in B
      BY <1>3, <1>5
    <2>2. e = [n \in 1 .. k |-> e[n]] /\ k \in Nat
      BY <1>2, <1>5
    <2>3. e \in Seq(B)
      BY <2>1, <2>2
    <2>4. Len(e) = k
      BY <2>2, FunctionSeq
    <2> QED
      BY <2>3, <2>4
  <1>7. Chunks(e, Byte)
    BY <1>1, <1>6 DEF Chunks
  <1>8. FlattenSeq(e) = Encoded(c)
    <2>1. FlattenSeq(FieldParts(c)) = Encoded(c)
      BY DEF FieldParts, Encoded
    <2> QED
      BY <1>1, <2>1
  <1> QED
    BY <1>1, <1>5, <1>6, <1>7, <1>8

\* The body of a declaration are its fields from the third on.
LEMMA DeclarationBody ==
    ASSUME NEW c, ~IsSample(c)
    PROVE  DOMAIN Body(c) = 1 .. 6 /\ \A n \in 1 .. 6 : Body(c)[n] = Fields(c)[n + 2]
  <1>1. PICK a, b, d, e, g, h, i, j :
          /\ a = Number(c.tag) /\ b = Number(Length(c)) /\ d = Number(c.index) /\ e = Number(1)
          /\ g = Number(0) /\ h = String(c.name) /\ i = Number(Len(c.sig)) /\ j = Raw(c.sig)
    OBVIOUS
  <1>2. PICK p, q, u, v : p = <<a, b>> /\ q = <<d>> /\ u = <<e, g, h>> /\ v = <<i, j>>
    OBVIOUS
  <1>3. Body(c) = (q \o u) \o v
    BY <1>1, <1>2 DEF Body, Intentions
  <1>4. Fields(c) = p \o Body(c)
    BY <1>1, <1>2 DEF Fields
  <1> DEFINE S == {a, b, d, e, g, h, i, j}
  <1>5. p \in Seq(S) /\ q \in Seq(S) /\ u \in Seq(S) /\ v \in Seq(S)
    BY <1>2
  <1>6. Len(p) = 2 /\ Len(q) = 1 /\ Len(u) = 3 /\ Len(v) = 2
    BY <1>2
  <1> HIDE DEF S
  <1>7. PICK x : x = q \o u
    OBVIOUS
  <1>8. x \in Seq(S) /\ Len(x) = 4
    <2>1. x \in Seq(S) /\ Len(x) = Len(q) + Len(u)
      BY <1>5, <1>7, ConcatProperties
    <2> QED
      BY <1>6, <2>1
  <1>9. PICK y : y = Body(c)
    OBVIOUS
  <1>10. y = x \o v
    BY <1>3, <1>7, <1>9
  <1>11. y \in Seq(S) /\ Len(y) = 6
    <2>1. Len(x) = 4
      BY <1>8
    <2>2. y \in Seq(S) /\ Len(y) = Len(x) + Len(v)
      BY <1>5, <1>8, <1>10, ConcatProperties
    <2> QED
      BY <1>6, <2>1, <2>2
  <1>12. DOMAIN y = 1 .. 6
    BY <1>11
  <1>13. IsJoined(p \o y, p, Len(p), y, Len(y))
    BY <1>5, <1>11, Joined
  <1>14. \A n \in 1 .. 6 : (p \o y)[2 + n] = y[n]
    <2>1. \A n \in 1 .. Len(y) : (p \o y)[Len(p) + n] = y[n]
      BY <1>13 DEF IsJoined
    <2>2. Len(p) = 2 /\ Len(y) = 6
      BY <1>6, <1>11
    <2> QED
      BY <2>1, <2>2
  <1>15. \A n \in 1 .. 6 : 2 + n = n + 2
    OBVIOUS
  <1> QED
    BY <1>4, <1>9, <1>12, <1>14, <1>15

\* The items of a declaration.
LEMMA DeclarationItemsFacts ==
    /\ IsSeq(DeclarationItems) /\ Len(DeclarationItems) = 6
    /\ DeclarationItems[1] = Item("packed", 0) /\ DeclarationItems[2] = Item("bytes", 1)
    /\ DeclarationItems[3] = Item("packed", 0) /\ DeclarationItems[4] = Item("string", 0)
    /\ DeclarationItems[5] = Item("packed", 0) /\ DeclarationItems[6] = Item("counted", 0)
  <1>1. PICK a, b, d, e : a = Item("packed", 0) /\ b = Item("bytes", 1) /\ d = Item("string", 0) /\ e = Item("counted", 0)
    OBVIOUS
  <1>2. PICK p, q, u : p = <<a>> /\ q = <<b, a, d>> /\ u = <<a, e>>
    OBVIOUS
  <1>3. DeclarationItems = (p \o q) \o u
    BY <1>1, <1>2 DEF DeclarationItems, IntentionItems
  <1> DEFINE S == {a, b, d, e}
  <1>4. p \in Seq(S) /\ q \in Seq(S) /\ u \in Seq(S)
    BY <1>2
  <1>5. /\ Len(p) = 1 /\ p[1] = a
        /\ Len(q) = 3 /\ q[1] = b /\ q[2] = a /\ q[3] = d
        /\ Len(u) = 2 /\ u[1] = a /\ u[2] = e
    BY <1>2
  <1> HIDE DEF S
  <1>6. PICK x : x = p \o q
    OBVIOUS
  <1>7. x \in Seq(S) /\ Len(x) = 4 /\ x[1] = a /\ x[2] = b /\ x[3] = a /\ x[4] = d
    <2>1. /\ x \in Seq(S) /\ Len(x) = 1 + 3
          /\ \A n \in 1 .. 1 : x[n] = p[n]
          /\ \A n \in 1 .. 3 : x[1 + n] = q[n]
      <3>1. x \in Seq(S) /\ IsJoined(x, p, Len(p), q, Len(q))
        BY <1>4, <1>6, Joined
      <3> QED
        BY <1>5, <3>1 DEF IsJoined
    <2>2. 1 \in 1 .. 1 /\ 1 \in 1 .. 3 /\ 2 \in 1 .. 3 /\ 3 \in 1 .. 3 /\ 1 + 1 = 2 /\ 1 + 2 = 3 /\ 1 + 3 = 4
      OBVIOUS
    <2>3. x[1] = p[1] /\ x[1 + 1] = q[1] /\ x[1 + 2] = q[2] /\ x[1 + 3] = q[3]
      BY <2>1, <2>2
    <2> QED
      BY <1>5, <2>1, <2>2, <2>3
  <1>8. PICK y : y = x \o u
    OBVIOUS
  <1>9. y \in Seq(S) /\ Len(y) = 6 /\ y[1] = a /\ y[2] = b /\ y[3] = a /\ y[4] = d /\ y[5] = a /\ y[6] = e
    <2>1. /\ y \in Seq(S) /\ Len(y) = 4 + 2
          /\ \A n \in 1 .. 4 : y[n] = x[n]
          /\ \A n \in 1 .. 2 : y[4 + n] = u[n]
      <3>1. y \in Seq(S) /\ IsJoined(y, x, Len(x), u, Len(u))
        BY <1>4, <1>7, <1>8, Joined
      <3> QED
        BY <1>5, <1>7, <3>1 DEF IsJoined
    <2>2. /\ 1 \in 1 .. 4 /\ 2 \in 1 .. 4 /\ 3 \in 1 .. 4 /\ 4 \in 1 .. 4 /\ 1 \in 1 .. 2 /\ 2 \in 1 .. 2
          /\ 4 + 1 = 5 /\ 4 + 2 = 6
      OBVIOUS
    <2>3. y[1] = x[1] /\ y[2] = x[2] /\ y[3] = x[3] /\ y[4] = x[4] /\ y[4 + 1] = u[1] /\ y[4 + 2] = u[2]
      BY <2>1, <2>2
    <2> QED
      BY <1>5, <1>7, <2>1, <2>2, <2>3
  <1>10. IsSeq(y)
    BY <1>9, ElementSeq
  <1>11. y = DeclarationItems
    BY <1>3, <1>6, <1>8
  <1> QED
    BY <1>1, <1>9, <1>10, <1>11

\* A number is read from its groups, whatever was read before it.
LEMMA NumberFits ==
    ASSUME NEW n, IsNumber(n), NEW g
    PROVE  Fits(Item("packed", 0), Packed32(n), n, g)
  BY DEF Fits, Item

\* A number is written packed.
LEMMA NumberBytes ==
    ASSUME NEW n
    PROVE  Bytes(Number(n)) = Packed32(n)
  BY DEF Bytes, Number

\* The generated functions read what the generated functions wrote, when the
\* number before an array is that of its elements.
LEMMA FieldFits ==
    ASSUME NEW f, IsField(f), NEW g, f.k = "raw" => g = Len(f.v)
    PROVE  Fits(ItemOf(f), Bytes(f), f.v, g)
  <1>1. CASE f.k = "packed"
    <2>1. ItemOf(f) = Item("packed", 0) /\ Bytes(f) = Packed32(f.v) /\ IsNumber(f.v)
      BY <1>1 DEF ItemOf, Bytes, IsField
    <2> QED
      BY <2>1, NumberFits
  <1>2. CASE f.k = "prim"
    <2>1. /\ ItemOf(f) = Item("bytes", f.n) /\ Bytes(f) = Primitive(f.n, f.v)
          /\ f.n \in Nat /\ f.v \in 0 .. Power(2 * Group, f.n) - 1
      BY <1>2 DEF ItemOf, Bytes, IsField
    <2>2. Len(Bytes(f)) = f.n /\ Assembled(Bytes(f)) = f.v
      BY <2>1, PrimitiveRead
    <2>3. ItemOf(f).k = "bytes" /\ ItemOf(f).n = f.n
      BY <2>1 DEF Item
    <2> QED
      BY <2>2, <2>3 DEF Fits
  <1>3. CASE f.k = "string"
    <2>1. ItemOf(f) = Item("string", 0) /\ Bytes(f) = Packed32(Len(f.v)) \o f.v /\ IsString(f.v)
      BY <1>3 DEF ItemOf, Bytes, IsField
    <2>2. ItemOf(f).k = "string"
      BY <2>1 DEF Item
    <2> QED
      BY <2>1, <2>2 DEF Fits
  <1>4. CASE f.k = "raw"
    <2>1. ItemOf(f) = Item("counted", 0) /\ Bytes(f) = f.v /\ g = Len(f.v)
      BY <1>4 DEF ItemOf, Bytes
    <2>2. ItemOf(f).k = "counted"
      BY <2>1 DEF Item
    <2> QED
      BY <2>1, <2>2 DEF Fits
  <1> QED
    BY <1>1, <1>2, <1>3, <1>4 DEF IsField

\* The first two parts of a call, whatever they are taken from.
LEMMA HeaderFits ==
    ASSUME NEW c \in Calls, NEW p, NEW v, NEW j \in 0 .. 1,
           p[1] = Packed32(c.tag), p[2] = Packed32(Length(c)), v[1] = c.tag, v[2] = Length(c)
    PROVE  Fits(ItemAt(c, j), p[j + 1], v[j + 1], v[j])
  <1>1. IsNumber(c.tag) /\ IsNumber(Length(c))
    BY CallFacts
  <1>2. ItemAt(c, j) = Item("packed", 0)
    BY DEF ItemAt
  <1>3. (j = 0 /\ j + 1 = 1) \/ (j = 1 /\ j + 1 = 2)
    OBVIOUS
  <1>4. CASE j = 0 /\ j + 1 = 1
    BY <1>1, <1>2, <1>4, NumberFits
  <1>5. CASE j = 1 /\ j + 1 = 2
    BY <1>1, <1>2, <1>5, NumberFits
  <1> QED
    BY <1>3, <1>4, <1>5

\* A sample is read by the layout of its signature.
LEMMA SampleReadable ==
    ASSUME NEW c \in Calls, IsSample(c)
    PROVE  Readable(c)
  <1>1. PICK k, f, v, p : k = Len(c.body) /\ f = Fields(c) /\ v = Values(c) /\ p = Parts(c)
    OBVIOUS
  <1>2. IsBody(c.body) /\ LABCOMM_USER \in Nat /\ SAMPLE_DEF < LABCOMM_USER /\ c.tag \in Nat /\ c.tag >= LABCOMM_USER
    BY CallFacts, ByteAssumption DEF IsNumber, IsSample
  <1>3. ~Skipped(c)
    BY <1>2 DEF Skipped
  <1>4. /\ k \in Nat /\ Len(f) = k + 2 /\ DOMAIN f = 1 .. k + 2
        /\ f[1] = Number(c.tag) /\ f[2] = Number(Length(c))
        /\ \A n \in 1 .. k : f[n + 2] = c.body[n]
    BY <1>1, <1>2, SampleFields
  <1>5. p = FieldParts(c)
    BY <1>1, <1>3 DEF Parts
  <1>6. /\ Chunks(p, Byte) /\ Len(p) = k + 2 /\ FlattenSeq(p) = Encoded(c)
        /\ \A n \in 1 .. k + 2 : p[n] = Bytes(f[n])
    BY <1>1, <1>4, <1>5, FieldPartsFacts
  <1>7. v = [n \in 1 .. k + 2 |-> f[n].v]
    BY <1>1, <1>3, <1>4 DEF Values
  <1>8. v = [n \in 1 .. k + 2 |-> v[n]] /\ \A n \in 1 .. k + 2 : v[n] = f[n].v
    BY <1>7
  <1>9. IsSeq(v) /\ Len(v) = k + 2 /\ Len(v) \in Nat \ {0, 1}
    <2>1. k + 2 \in Nat /\ k + 2 \in Nat \ {0, 1}
      BY <1>4
    <2> QED
      BY <1>8, <2>1, FunctionSeq
  <1>10. 1 \in 1 .. k + 2 /\ 2 \in 1 .. k + 2
    BY <1>4
  <1>11. v[1] = c.tag /\ v[2] = Length(c)
    BY <1>4, <1>8, <1>10 DEF Number
  <1>12. p[1] = Packed32(c.tag) /\ p[2] = Packed32(Length(c))
    <2>1. p[1] = Bytes(f[1]) /\ p[2] = Bytes(f[2])
      BY <1>6, <1>10
    <2> QED
      BY <1>4, <2>1, NumberBytes
  <1>13. ASSUME Known(c)
         PROVE  /\ IsSeq(ItemsOf(c)) /\ Len(ItemsOf(c)) = k
                /\ \A n \in 1 .. k : ItemsOf(c)[n] = ItemOf(c.body[n])
    <2>1. c.tag \in DOMAIN Layout
      BY <1>13 DEF Known
    <2>2. ItemsOf(c) = Layout[c.tag]
      BY <1>2 DEF ItemsOf, BodyItems
    <2>3. Layout[c.tag] = [n \in DOMAIN c.body |-> ItemOf(c.body[n])]
      BY <2>1, LayoutAssumption
    <2>4. DOMAIN c.body = 1 .. k
      BY <1>1, <1>2 DEF IsBody
    <2>5. PICK it : it = ItemsOf(c)
      OBVIOUS
    <2>6. it = [n \in 1 .. k |-> ItemOf(c.body[n])]
      BY <2>2, <2>3, <2>4, <2>5
    <2>7. it = [n \in 1 .. k |-> it[n]] /\ \A n \in 1 .. k : it[n] = ItemOf(c.body[n])
      BY <2>6
    <2>8. IsSeq(it) /\ Len(it) = k
      BY <1>4, <2>7, FunctionSeq
    <2> QED
      BY <2>5, <2>7, <2>8
  <1>14. ASSUME NEW j \in 0 .. k + 1, j < 2 \/ Known(c)
         PROVE  Fits(ItemAt(c, j), p[j + 1], v[j + 1], v[j])
    <2>1. CASE j < 2
      <3>1. j \in 0 .. 1
        BY <2>1
      <3> QED
        BY <1>11, <1>12, <3>1, HeaderFits
    <2>2. CASE ~(j < 2)
      <3>1. j - 1 \in 1 .. k /\ (j - 1) + 2 = j + 1 /\ j + 1 \in 1 .. k + 2
        BY <1>4, <2>2
      <3>2. Known(c)
        BY <1>14, <2>2
      <3>3. ItemAt(c, j) = ItemOf(c.body[j - 1])
        BY <1>13, <2>2, <3>1, <3>2 DEF ItemAt
      <3>4. f[j + 1] = c.body[j - 1]
        BY <1>4, <3>1
      <3>5. p[j + 1] = Bytes(c.body[j - 1]) /\ v[j + 1] = c.body[j - 1].v
        BY <1>6, <1>8, <3>1, <3>4
      <3>6. IsField(c.body[j - 1])
        BY <1>1, <1>2, <3>1 DEF IsBody
      <3>7. Fits(ItemOf(c.body[j - 1]), Bytes(c.body[j - 1]), c.body[j - 1].v, v[j])
        <4>1. ASSUME c.body[j - 1].k = "raw" PROVE v[j] = Len(c.body[j - 1].v)
          <5>1. j - 1 > 1 /\ c.body[(j - 1) - 1].v = Len(c.body[j - 1].v)
            BY <1>1, <1>2, <3>1, <4>1 DEF IsBody
          <5>2. (j - 1) - 1 \in 1 .. k /\ ((j - 1) - 1) + 2 = j /\ j \in 1 .. k + 2
            BY <1>4, <3>1, <5>1
          <5>3. f[j] = c.body[(j - 1) - 1]
            BY <1>4, <5>2
          <5> QED
            BY <1>8, <5>1, <5>2, <5>3
        <4> QED
          BY <3>6, <4>1, FieldFits
      <3> QED
        BY <3>3, <3>5, <3>7
    <2> QED
      BY <2>1, <2>2
  <1>15. Len(v) - 2 = k /\ Len(v) - 1 = k + 1
    BY <1>4, <1>9
  <1> QED
    BY <1>1, <1>6, <1>9, <1>11, <1>13, <1>14, <1>15 DEF Readable

\* A definition is read by decode_sample_def_or_ref.
LEMMA DefinitionReadable ==
    ASSUME NEW c \in Calls, c.tag = SAMPLE_DEF
    PROVE  Readable(c)
  <1>1. PICK f, v, p, it : f = Fields(c) /\ v = Values(c) /\ p = Parts(c) /\ it = ItemsOf(c)
    OBVIOUS
  <1>2. ~IsSample(c)
    BY ByteAssumption DEF IsSample, SAMPLE_DEF
  <1>3. IsNumber(c.index) /\ IsString(c.name) /\ IsString(c.sig)
    BY <1>2, CallFacts
  <1>4. ~Skipped(c)
    BY DEF Skipped
  <1>5. /\ Len(f) = 8 /\ DOMAIN f = 1 .. 8
        /\ f[1] = Number(c.tag) /\ f[2] = Number(Length(c))
        /\ f[3] = Number(c.index) /\ f[4] = Number(1) /\ f[5] = Number(0)
        /\ f[6] = String(c.name) /\ f[7] = Number(Len(c.sig)) /\ f[8] = Raw(c.sig)
    BY <1>1, <1>2, DeclarationFields
  <1>6. p = FieldParts(c)
    BY <1>1, <1>4 DEF Parts
  <1>7. /\ Chunks(p, Byte) /\ Len(p) = 8 /\ FlattenSeq(p) = Encoded(c)
        /\ \A n \in 1 .. 8 : p[n] = Bytes(f[n])
    BY <1>1, <1>5, <1>6, FieldPartsFacts
  <1>8. v = [n \in 1 .. 8 |-> f[n].v]
    BY <1>1, <1>4, <1>5 DEF Values
  <1>9. v = [n \in 1 .. 8 |-> v[n]] /\ \A n \in 1 .. 8 : v[n] = f[n].v
    BY <1>8
  <1>10. IsSeq(v) /\ Len(v) = 8
    BY <1>9, FunctionSeq
  <1>11. /\ v[1] = c.tag /\ v[2] = Length(c) /\ v[3] = c.index /\ v[4] = 1 /\ v[5] = 0
         /\ v[6] = c.name /\ v[7] = Len(c.sig) /\ v[8] = c.sig
    BY <1>5, <1>9 DEF Number, String, Raw
  <1>12. /\ p[1] = Packed32(c.tag) /\ p[2] = Packed32(Length(c)) /\ p[3] = Packed32(c.index)
         /\ p[4] = Packed32(1) /\ p[5] = Packed32(0) /\ p[7] = Packed32(Len(c.sig))
    <2>1. /\ 1 \in 1 .. 8 /\ 2 \in 1 .. 8 /\ 3 \in 1 .. 8 /\ 4 \in 1 .. 8 /\ 5 \in 1 .. 8 /\ 7 \in 1 .. 8
      OBVIOUS
    <2>2. /\ p[1] = Bytes(f[1]) /\ p[2] = Bytes(f[2]) /\ p[3] = Bytes(f[3]) /\ p[4] = Bytes(f[4])
          /\ p[5] = Bytes(f[5]) /\ p[7] = Bytes(f[7])
      BY <1>7, <2>1
    <2> QED
      BY <1>5, <2>2, NumberBytes
  <1>13. p[6] = Packed32(Len(c.name)) \o c.name /\ p[8] = c.sig
    <2>1. p[6] = Bytes(f[6]) /\ p[8] = Bytes(f[8])
      BY <1>7
    <2>2. Bytes(String(c.name)) = Packed32(Len(c.name)) \o c.name
      BY DEF String, Bytes
    <2>3. Bytes(Raw(c.sig)) = c.sig
      BY DEF Raw, Bytes
    <2> QED
      BY <1>5, <2>1, <2>2, <2>3
  <1>14. it = DeclarationItems
    BY <1>1 DEF ItemsOf, BodyItems
  <1>15. /\ IsSeq(it) /\ Len(it) = 6
         /\ it[1] = Item("packed", 0) /\ it[2] = Item("bytes", 1) /\ it[3] = Item("packed", 0)
         /\ it[4] = Item("string", 0) /\ it[5] = Item("packed", 0) /\ it[6] = Item("counted", 0)
    BY <1>14, DeclarationItemsFacts
  <1>16. ASSUME NEW j \in 0 .. 7
         PROVE  Fits(ItemAt(c, j), p[j + 1], v[j + 1], v[j])
    <2>1. CASE j < 2
      <3>1. j \in 0 .. 1
        BY <2>1
      <3> QED
        BY <1>11, <1>12, <3>1, HeaderFits
    <2>2. CASE ~(j < 2)
      <3>1. ItemAt(c, j) = it[j - 1]
        BY <1>1, <2>2 DEF ItemAt
      <3>2. \/ j = 2 /\ j - 1 = 1 /\ j + 1 = 3
            \/ j = 3 /\ j - 1 = 2 /\ j + 1 = 4
            \/ j = 4 /\ j - 1 = 3 /\ j + 1 = 5
            \/ j = 5 /\ j - 1 = 4 /\ j + 1 = 6
            \/ j = 6 /\ j - 1 = 5 /\ j + 1 = 7
            \/ j = 7 /\ j - 1 = 6 /\ j + 1 = 8
        BY <2>2
      <3>3. CASE j = 2 /\ j - 1 = 1 /\ j + 1 = 3
        BY <1>3, <1>11, <1>12, <1>15, <3>1, <3>3, NumberFits
      <3>4. CASE j = 3 /\ j - 1 = 2 /\ j + 1 = 4
        <4>1. 1 \in 0 .. Group - 1
          BY Bases
        <4>2. Len(Packed32(1)) = 1 /\ Assembled(Packed32(1)) = 1
          BY <4>1, SmallRead
        <4>3. ItemAt(c, j).k = "bytes" /\ ItemAt(c, j).n = 1
          BY <1>15, <3>1, <3>4 DEF Item
        <4>4. p[j + 1] = Packed32(1) /\ v[j + 1] = 1
          BY <1>11, <1>12, <3>4
        <4> QED
          BY <4>2, <4>3, <4>4 DEF Fits
      <3>5. CASE j = 4 /\ j - 1 = 3 /\ j + 1 = 5
        <4>1. IsNumber(0)
          BY SmallNumbers DEF IsNumber
        <4> QED
          BY <1>11, <1>12, <1>15, <3>1, <3>5, <4>1, NumberFits
      <3>6. CASE j = 5 /\ j - 1 = 4 /\ j + 1 = 6
        <4>1. ItemAt(c, j).k = "string"
          BY <1>15, <3>1, <3>6 DEF Item
        <4> QED
          BY <1>3, <1>11, <1>13, <3>6, <4>1 DEF Fits
      <3>7. CASE j = 6 /\ j - 1 = 5 /\ j + 1 = 7
        <4>1. IsNumber(Len(c.sig))
          BY <1>3 DEF IsString
        <4> QED
          BY <1>11, <1>12, <1>15, <3>1, <3>7, <4>1, NumberFits
      <3>8. CASE j = 7 /\ j - 1 = 6 /\ j + 1 = 8
        <4>1. ItemAt(c, j).k = "counted"
          BY <1>15, <3>1, <3>8 DEF Item
        <4> QED
          BY <1>11, <1>13, <3>8, <4>1 DEF Fits
      <3> QED
        BY <3>2, <3>3, <3>4, <3>5, <3>6, <3>7, <3>8
    <2> QED
      BY <2>1, <2>2
  <1>17. Len(v) \in Nat \ {0, 1} /\ Len(v) - 2 = 6 /\ Len(v) - 1 = 7
    BY <1>10
  <1>18. ItemsOf(c) = it /\ Values(c) = v /\ Parts(c) = p
    BY <1>1
  <1> QED
    BY <1>7, <1>10, <1>11, <1>15, <1>16, <1>17, <1>18 DEF Readable

\* The chunks after the first j, their lengths.
LEMMA ChunksLength ==
    ASSUME NEW S, NEW s, Chunks(s, S), NEW j \in 0 .. Len(s), j < Len(s)
    PROVE  Len(FlattenSeq(Dropped(s, j))) = Len(s[j + 1]) + Len(FlattenSeq(Dropped(s, j + 1)))
  <1>1. Len(s) \in Nat /\ j + 1 \in 0 .. Len(s)
    BY ChunksFacts
  <1>2. PICK a, b, d : a = s[j + 1] /\ b = FlattenSeq(Dropped(s, j + 1)) /\ d = FlattenSeq(Dropped(s, j))
    OBVIOUS
  <1>3. a \in Seq(S) /\ d = a \o b
    BY <1>2, ChunksAfter
  <1>4. b \in Seq(S)
    BY <1>1, <1>2, ChunksAfter
  <1>5. Len(d) = Len(a) + Len(b)
    BY <1>3, <1>4, ConcatProperties
  <1> QED
    BY <1>2, <1>5

\* Three chunks.
LEMMA ThreeChunks ==
    ASSUME NEW S, NEW p, Chunks(p, S), Len(p) = 3
    PROVE  FlattenSeq(p) = p[1] \o (p[2] \o p[3])
  <1>1. p[3] \in Seq(S)
    <2>1. 3 \in 1 .. Len(p)
      OBVIOUS
    <2> QED
      BY <2>1, ChunksFacts
  <1>4. IsSeq(p)
    BY ElementSeq DEF Chunks
  <1>5. Dropped(p, 0) = p
    BY <1>4, TakenAll
  <1>6. /\ 0 \in 0 .. Len(p) /\ 1 \in 0 .. Len(p) /\ 2 \in 0 .. Len(p) /\ 3 \in 0 .. Len(p) /\ 3 = Len(p)
        /\ 0 < Len(p) /\ 1 < Len(p) /\ 2 < Len(p) /\ 0 + 1 = 1 /\ 1 + 1 = 2 /\ 2 + 1 = 3
    OBVIOUS
  <1>7. FlattenSeq(Dropped(p, 3)) = <<>>
    BY <1>6, ChunksAfter
  <1>8. FlattenSeq(Dropped(p, 2)) = p[2 + 1] \o FlattenSeq(Dropped(p, 2 + 1))
    BY <1>6, ChunksAfter
  <1>9. FlattenSeq(Dropped(p, 1)) = p[1 + 1] \o FlattenSeq(Dropped(p, 1 + 1))
    BY <1>6, ChunksAfter
  <1>10. FlattenSeq(Dropped(p, 0)) = p[0 + 1] \o FlattenSeq(Dropped(p, 0 + 1))
    BY <1>6, ChunksAfter
  <1>11. FlattenSeq(Dropped(p, 2)) = p[3]
    <2>1. p[3] \o <<>> = p[3]
      BY <1>1, ConcatEmptySeq
    <2> QED
      BY <1>6, <1>7, <1>8, <2>1
  <1>12. FlattenSeq(p) = p[1] \o (p[2] \o p[3])
    BY <1>5, <1>6, <1>9, <1>10, <1>11
  <1> QED
    BY <1>12

\* The length in the header of a declaration is that of what follows it.
LEMMA DeclarationLength ==
    ASSUME NEW c \in Calls, ~IsSample(c)
    PROVE  /\ BodyBytes(c) \in Seq(Byte) /\ Len(BodyBytes(c)) = Length(c)
           /\ Encoded(c) = Packed32(c.tag) \o (Packed32(Length(c)) \o BodyBytes(c))
  <1>1. PICK f, e : f = Fields(c) /\ e = FieldParts(c)
    OBVIOUS
  <1>2. IsNumber(c.index) /\ IsString(c.name) /\ IsString(c.sig)
    BY CallFacts
  <1>3. /\ Len(f) = 8
        /\ f[1] = Number(c.tag) /\ f[2] = Number(Length(c))
        /\ f[3] = Number(c.index) /\ f[4] = Number(1) /\ f[5] = Number(0)
        /\ f[6] = String(c.name) /\ f[7] = Number(Len(c.sig)) /\ f[8] = Raw(c.sig)
    BY <1>1, DeclarationFields
  <1>4. /\ Chunks(e, Byte) /\ Len(e) = 8 /\ FlattenSeq(e) = Encoded(c)
        /\ \A n \in 1 .. 8 : e[n] = Bytes(f[n])
    BY <1>1, <1>3, FieldPartsFacts
  <1>5. IsSeq(e) /\ Dropped(e, 0) = e
    <2>1. IsSeq(e)
      BY <1>4, ElementSeq DEF Chunks
    <2> QED
      BY <2>1, TakenAll
  <1>6. BodyBytes(c) = FlattenSeq(Dropped(e, 2))
    <2>1. DOMAIN Body(c) = 1 .. 6 /\ \A n \in 1 .. 6 : Body(c)[n] = f[n + 2]
      BY <1>1, DeclarationBody
    <2>2. Len(e) - 2 = 6 /\ \A n \in 1 .. 6 : n + 2 \in 1 .. 8
      BY <1>4
    <2>3. \A n \in 1 .. 6 : Bytes(Body(c)[n]) = e[n + 2]
      BY <1>4, <2>1, <2>2
    <2>4. [n \in DOMAIN Body(c) |-> Bytes(Body(c)[n])] = [n \in 1 .. 6 |-> e[n + 2]]
      BY <2>1, <2>3
    <2>5. Dropped(e, 2) = [n \in 1 .. 6 |-> e[n + 2]]
      BY <2>2 DEF Dropped
    <2> QED
      BY <2>4, <2>5 DEF BodyBytes
  <1>7. /\ e[1] = Packed32(c.tag) /\ e[2] = Packed32(Length(c)) /\ e[3] = Packed32(c.index)
        /\ e[4] = Packed32(1) /\ e[5] = Packed32(0) /\ e[7] = Packed32(Len(c.sig))
    <2>1. /\ e[1] = Bytes(f[1]) /\ e[2] = Bytes(f[2]) /\ e[3] = Bytes(f[3]) /\ e[4] = Bytes(f[4])
          /\ e[5] = Bytes(f[5]) /\ e[7] = Bytes(f[7])
      BY <1>4
    <2> QED
      BY <1>3, <2>1, NumberBytes
  <1>8. e[6] = Packed32(Len(c.name)) \o c.name /\ e[8] = c.sig
    <2>1. e[6] = Bytes(f[6]) /\ e[8] = Bytes(f[8])
      BY <1>4
    <2>2. Bytes(String(c.name)) = Packed32(Len(c.name)) \o c.name
      BY DEF String, Bytes
    <2>3. Bytes(Raw(c.sig)) = c.sig
      BY DEF Raw, Bytes
    <2> QED
      BY <1>3, <2>1, <2>2, <2>3
  <1>9. Len(e[3]) = Groups(c.index) /\ Groups(c.index) \in Nat
    <2>1. c.index \in 0 .. Word - 1
      BY <1>2 DEF IsNumber
    <2> QED
      BY <1>7, <2>1, PackedRead
  <1>10. Len(e[4]) = 1 /\ Len(e[5]) = 1
    <2>1. 0 \in 0 .. Group - 1 /\ 1 \in 0 .. Group - 1
      BY Bases
    <2> QED
      BY <1>7, <2>1, SmallRead
  <1>11. Len(e[6]) = Groups(Len(c.name)) + Len(c.name) /\ Groups(Len(c.name)) \in Nat /\ Len(c.name) \in Nat
    <2>1. Len(c.name) \in 0 .. Word - 1 /\ c.name \in Seq(Byte)
      BY <1>2 DEF IsString, IsNumber
    <2>2. /\ Packed32(Len(c.name)) \in Seq(Byte) /\ Len(Packed32(Len(c.name))) = Groups(Len(c.name))
          /\ Groups(Len(c.name)) \in Nat
      BY <2>1, PackedRead
    <2>3. Len(Packed32(Len(c.name)) \o c.name) = Len(Packed32(Len(c.name))) + Len(c.name)
      BY <2>1, <2>2, ConcatProperties
    <2>4. Len(c.name) \in Nat
      BY <2>1
    <2> QED
      BY <1>8, <2>2, <2>3, <2>4
  <1>12. Len(e[7]) = Groups(Len(c.sig)) /\ Groups(Len(c.sig)) \in Nat /\ Len(e[8]) = Len(c.sig) /\ Len(c.sig) \in Nat
    <2>1. Len(c.sig) \in 0 .. Word - 1 /\ c.sig \in Seq(Byte)
      BY <1>2 DEF IsString, IsNumber
    <2>2. Len(Packed32(Len(c.sig))) = Groups(Len(c.sig)) /\ Groups(Len(c.sig)) \in Nat
      BY <2>1, PackedRead
    <2>3. Len(c.sig) \in Nat
      BY <2>1
    <2> QED
      BY <1>7, <1>8, <2>2, <2>3
  <1>13. Length(c) = Groups(c.index) + (Groups(Len(c.name)) + Len(c.name) + 2) + Groups(Len(c.sig)) + Len(c.sig)
    <2>1. SizeIntentions(c.name) = Groups(Len(c.name)) + Len(c.name) + 2
      BY DEF SizeIntentions, Size, String, SizePacked32
    <2> QED
      BY <2>1 DEF Length, SizePacked32
  <1> DEFINE F(j) == FlattenSeq(Dropped(e, j))
  <1>14. \A j \in 0 .. 7 :
           /\ F(j) \in Seq(Byte) /\ F(j) = e[j + 1] \o F(j + 1)
           /\ Len(F(j)) = Len(e[j + 1]) + Len(F(j + 1))
    <2> TAKE j \in 0 .. 7
    <2>1. j \in 0 .. Len(e) /\ j < Len(e)
      BY <1>4
    <2>2. F(j) \in Seq(Byte)
      BY <1>4, <2>1, ChunksAfter
    <2>3. F(j) = e[j + 1] \o F(j + 1)
      BY <1>4, <2>1, ChunksAfter
    <2>4. Len(F(j)) = Len(e[j + 1]) + Len(F(j + 1))
      BY <1>4, <2>1, ChunksLength
    <2> QED
      BY <2>2, <2>3, <2>4
  <1>15. F(8) = <<>>
    <2>1. 8 \in 0 .. Len(e) /\ 8 = Len(e)
      BY <1>4
    <2> QED
      BY <1>4, <2>1, ChunksAfter
  <1>16. BodyBytes(c) = F(2) /\ Encoded(c) = F(0)
    BY <1>4, <1>5, <1>6
  <1> HIDE DEF F
  <1>17. F(2) \in Seq(Byte)
    <2>1. 2 \in 0 .. 7
      OBVIOUS
    <2> QED
      BY <1>14, <2>1
  <1>18. /\ Len(F(2)) = Len(e[3]) + Len(F(3)) /\ Len(F(3)) = Len(e[4]) + Len(F(4))
         /\ Len(F(4)) = Len(e[5]) + Len(F(5)) /\ Len(F(5)) = Len(e[6]) + Len(F(6))
         /\ Len(F(6)) = Len(e[7]) + Len(F(7)) /\ Len(F(7)) = Len(e[8]) + Len(F(8))
    <2>1. /\ 2 \in 0 .. 7 /\ 3 \in 0 .. 7 /\ 4 \in 0 .. 7 /\ 5 \in 0 .. 7 /\ 6 \in 0 .. 7 /\ 7 \in 0 .. 7
          /\ 2 + 1 = 3 /\ 3 + 1 = 4 /\ 4 + 1 = 5 /\ 5 + 1 = 6 /\ 6 + 1 = 7 /\ 7 + 1 = 8
      OBVIOUS
    <2>2. \A j \in 0 .. 7 : Len(F(j)) = Len(e[j + 1]) + Len(F(j + 1))
      BY <1>14
    <2>3. /\ Len(F(2)) = Len(e[2 + 1]) + Len(F(2 + 1)) /\ Len(F(3)) = Len(e[3 + 1]) + Len(F(3 + 1))
          /\ Len(F(4)) = Len(e[4 + 1]) + Len(F(4 + 1)) /\ Len(F(5)) = Len(e[5 + 1]) + Len(F(5 + 1))
          /\ Len(F(6)) = Len(e[6 + 1]) + Len(F(6 + 1)) /\ Len(F(7)) = Len(e[7 + 1]) + Len(F(7 + 1))
      BY <2>1, <2>2
    <2> QED
      BY <2>1, <2>3
  <1>19. Len(F(8)) = 0
    BY <1>15
  <1>20. Len(F(2)) = Length(c)
    <2>1. PICK ni, nn, ln, ns, ls :
            /\ ni = Groups(c.index) /\ nn = Groups(Len(c.name)) /\ ln = Len(c.name)
            /\ ns = Groups(Len(c.sig)) /\ ls = Len(c.sig)
      OBVIOUS
    <2>2. ni \in Nat /\ nn \in Nat /\ ln \in Nat /\ ns \in Nat /\ ls \in Nat
      BY <1>9, <1>11, <1>12, <2>1
    <2>3. Length(c) = ni + (nn + ln + 2) + ns + ls
      BY <1>13, <2>1
    <2>4. /\ Len(F(2)) = ni + Len(F(3)) /\ Len(F(3)) = 1 + Len(F(4)) /\ Len(F(4)) = 1 + Len(F(5))
          /\ Len(F(5)) = (nn + ln) + Len(F(6)) /\ Len(F(6)) = ns + Len(F(7)) /\ Len(F(7)) = ls + 0
      BY <1>9, <1>10, <1>11, <1>12, <1>18, <1>19, <2>1
    <2>5. Len(F(2)) = ni + (1 + (1 + ((nn + ln) + (ns + (ls + 0)))))
      BY <2>4
    <2>6. ni + (1 + (1 + ((nn + ln) + (ns + (ls + 0))))) = ni + (nn + ln + 2) + ns + ls
      BY <2>2
    <2> QED
      BY <2>3, <2>5, <2>6
  <1>21. F(0) = e[1] \o (e[2] \o F(2))
    <2>1. 0 \in 0 .. 7 /\ 1 \in 0 .. 7 /\ 0 + 1 = 1 /\ 1 + 1 = 2
      OBVIOUS
    <2>2. \A j \in 0 .. 7 : F(j) = e[j + 1] \o F(j + 1)
      BY <1>14
    <2>3. F(0) = e[0 + 1] \o F(0 + 1) /\ F(1) = e[1 + 1] \o F(1 + 1)
      BY <2>1, <2>2
    <2> QED
      BY <2>1, <2>3
  <1> QED
    BY <1>7, <1>16, <1>17, <1>20, <1>21

\* What nobody handles is read by its length.
LEMMA SkippedReadable ==
    ASSUME NEW c \in Calls, Skipped(c)
    PROVE  Readable(c)
  <1>1. PICK t, n, s, v, p, it :
          t = c.tag /\ n = Length(c) /\ s = BodyBytes(c) /\ v = Values(c) /\ p = Parts(c) /\ it = ItemsOf(c)
    OBVIOUS
  <1>2. ~IsSample(c)
    <2>1. c.tag \in Nat /\ LABCOMM_USER \in Nat /\ c.tag < LABCOMM_USER
      BY CallFacts, ByteAssumption DEF IsNumber, Skipped
    <2> QED
      BY <2>1 DEF IsSample
  <1>3. s \in Seq(Byte) /\ Len(s) = n /\ Encoded(c) = Packed32(t) \o (Packed32(n) \o s)
    BY <1>1, <1>2, DeclarationLength
  <1>4. Packed32(t) \in Seq(Byte) /\ Packed32(n) \in Seq(Byte)
    <2>1. t \in 0 .. Word - 1 /\ n \in 0 .. Word - 1
      BY <1>1, CallFacts DEF IsNumber
    <2> QED
      BY <2>1, PackedRead
  <1>5. PICK a, b : a = Packed32(t) /\ b = Packed32(n)
    OBVIOUS
  <1>6. v = <<t, n, s>>
    BY <1>1 DEF Values, BodyBytes
  <1>7. p = <<a, b, s>>
    BY <1>1, <1>5 DEF Parts
  <1>8. it = <<Item("skipped", n)>>
    BY <1>1 DEF ItemsOf, BodyItems, Skipped
  <1>9. Chunks(p, Byte) /\ FlattenSeq(p) = Encoded(c)
    <2>1. a \in Seq(Byte) /\ b \in Seq(Byte) /\ s \in Seq(Byte)
      BY <1>3, <1>4, <1>5
    <2>2. PICK T : T = Seq(Byte)
      OBVIOUS
    <2>3. p \in Seq(T) /\ Len(p) = 3 /\ p[1] = a /\ p[2] = b /\ p[3] = s
      BY <1>7, <2>1, <2>2
    <2>4. Chunks(p, Byte)
      BY <2>2, <2>3 DEF Chunks
    <2>5. FlattenSeq(p) = p[1] \o (p[2] \o p[3])
      BY <2>3, <2>4, ThreeChunks
    <2>6. Encoded(c) = a \o (b \o s)
      BY <1>3, <1>5
    <2> QED
      BY <2>3, <2>4, <2>5, <2>6
  <1>10. IsSeq(v) /\ Len(v) = 3 /\ v[1] = t /\ v[2] = n /\ v[3] = s
    <2>1. v \in Seq({t, n, s}) /\ Len(v) = 3 /\ v[1] = t /\ v[2] = n /\ v[3] = s
      BY <1>6
    <2> QED
      BY <2>1, ElementSeq
  <1>11. Len(p) = 3 /\ p[1] = a /\ p[2] = b /\ p[3] = s
    BY <1>7
  <1>12. IsSeq(it) /\ Len(it) = 1 /\ it[1] = Item("skipped", n)
    <2>1. it \in Seq({Item("skipped", n)}) /\ Len(it) = 1 /\ it[1] = Item("skipped", n)
      BY <1>8
    <2> QED
      BY <2>1, ElementSeq
  <1>13. ASSUME NEW j \in 0 .. 2
         PROVE  Fits(ItemAt(c, j), p[j + 1], v[j + 1], v[j])
    <2>1. CASE j < 2
      <3>1. j \in 0 .. 1
        BY <2>1
      <3> QED
        BY <1>1, <1>5, <1>10, <1>11, <3>1, HeaderFits
    <2>2. CASE ~(j < 2)
      <3>1. j = 2 /\ j + 1 = 3 /\ j - 1 = 1
        BY <2>2
      <3>2. ItemAt(c, j) = Item("skipped", n)
        BY <1>1, <1>12, <2>2, <3>1 DEF ItemAt
      <3>3. ItemAt(c, j).k = "skipped" /\ ItemAt(c, j).n = n
        BY <3>2 DEF Item
      <3>4. p[j + 1] = s /\ v[j + 1] = s
        BY <1>10, <1>11, <3>1
      <3> QED
        BY <1>3, <3>3, <3>4 DEF Fits
    <2> QED
      BY <2>1, <2>2
  <1>14. Len(v) \in Nat \ {0, 1} /\ Len(v) - 2 = 1 /\ Len(v) - 1 = 2
    BY <1>10
  <1>15. ItemsOf(c) = it /\ Values(c) = v /\ Parts(c) = p /\ v[1] = c.tag /\ v[2] = Length(c)
    BY <1>1, <1>10
  <1> QED
    BY <1>9, <1>10, <1>11, <1>12, <1>13, <1>14, <1>15 DEF Readable

\* What do_decode_one reads of a call, whether it handles the packet or skips it
\* by its length, are the bytes that the encoder writes for its fields.
THEOREM CallReadable ==
    ASSUME NEW c \in Calls
    PROVE  Readable(c)
  <1>1. c.tag \in Nat /\ LABCOMM_USER \in Nat
    BY CallFacts, ByteAssumption DEF IsNumber
  <1>2. IsSample(c) \/ c.tag = SAMPLE_DEF \/ Skipped(c)
    BY <1>1 DEF IsSample, Skipped
  <1> QED
    BY <1>2, SampleReadable, DefinitionReadable, SkippedReadable

-----------------------------------------------------------------------------
(* One item.                                                               *)

\* Complete and Value, for the item it, the bytes p read of it, and the
\* values g read before.
Done(it, p, g) ==
    CASE it.k \in {"packed", "string"} -> p # <<>> /\ Last(p) < Group
      [] it.k = "counted" -> Len(p) = Last(g)
      [] OTHER -> Len(p) = it.n

Read(it, p) ==
    CASE it.k \in {"packed", "string"} -> Unpacked(p)
      [] it.k = "bytes" -> Assembled(p)
      [] OTHER -> p

\* X is what is still to come of a value v when p has been read of the item
\* it: the rest of the item, for the number of a string its bytes, and then a.
Pending(it, p, X, v, g, a) ==
    /\ p \in Seq(Byte)
    /\ \E q, z \in Seq(Byte) :
         /\ X = q \o z
         /\ \/ it.k # "string" /\ Fits(it, p \o q, v, g) /\ z = a
            \/ it.k = "string" /\ IsString(v) /\ p \o q = Packed32(Len(v)) /\ z = v \o a

\* A sum is its first number when the second is zero.
LEMMA NothingAdded ==
    \A m, l \in Nat : m = m + l <=> l = 0
  OBVIOUS

\* The bytes of a packed number are complete when all of them are there.
LEMMA PackedDone ==
    ASSUME NEW n \in 0 .. Word - 1, NEW p \in Seq(Byte), NEW q \in Seq(Byte), p \o q = Packed32(n)
    PROVE  /\ p # <<>> /\ Last(p) < Group <=> q = <<>>
           /\ q = <<>> => Unpacked(p) = n
  <1>1. PICK k, b : k = Groups(n) /\ b = Packed32(n)
    OBVIOUS
  <1>2. /\ b \in Seq(Byte) /\ Len(b) = k /\ k \in Nat \ {0} /\ Unpacked(b) = n
        /\ \A i \in 1 .. k : b[i] < Group <=> i = k
    BY <1>1, PackedRead
  <1>3. PICK m, l : m = Len(p) /\ l = Len(q)
    OBVIOUS
  <1>4. m \in Nat /\ l \in Nat
    BY <1>3
  <1>5. m + l = k /\ \A i \in 1 .. m + l : b[i] = IF i <= m THEN p[i] ELSE q[i - m]
    BY <1>1, <1>2, <1>3, ConcatProperties
  <1>6. (p = <<>> <=> m = 0) /\ (q = <<>> <=> l = 0)
    BY <1>3, EmptySeq
  <1>7. ASSUME m # 0 PROVE Last(p) < Group <=> l = 0
    <2>1. m \in 1 .. m + l /\ m \in 1 .. k /\ m <= m
      BY <1>4, <1>5, <1>7
    <2>2. Last(p) = p[m]
      BY <1>3 DEF Last
    <2>3. b[m] = p[m]
      BY <1>5, <2>1
    <2>4. b[m] < Group <=> m = k
      BY <1>2, <2>1
    <2>5. m = k <=> l = 0
      <3>1. m + l = k
        BY <1>5
      <3>2. m = m + l <=> l = 0
        BY <1>4, NothingAdded
      <3> QED
        BY <3>1, <3>2, Zenon
    <2> QED
      BY <2>2, <2>3, <2>4, <2>5
  <1>8. m = 0 => l # 0
    BY <1>2, <1>4, <1>5
  <1>9. ASSUME q = <<>> PROVE Unpacked(p) = n
    <2>1. p \o <<>> = p
      BY ConcatEmptySeq
    <2> QED
      BY <1>1, <1>2, <1>9, <2>1
  <1> QED
    BY <1>6, <1>7, <1>8, <1>9

\* So are bytes that are counted.
LEMMA LengthDone ==
    ASSUME NEW p \in Seq(Byte), NEW q \in Seq(Byte)
    PROVE  /\ Len(p) = Len(p \o q) <=> q = <<>>
           /\ q = <<>> => p \o q = p
  <1>1. Len(p \o q) = Len(p) + Len(q) /\ Len(p) \in Nat /\ Len(q) \in Nat
    BY ConcatProperties
  <1>2. Len(q) = 0 <=> q = <<>>
    BY EmptySeq
  <1>3. q = <<>> => p \o q = p
    BY ConcatEmptySeq
  <1> QED
    BY <1>1, <1>2, <1>3

\* An item is complete when nothing of it is to come; then its value is v.
LEMMA ItemDone ==
    ASSUME NEW it, NEW p \in Seq(Byte), NEW q \in Seq(Byte), NEW v, NEW g, NEW s,
           it.k # "string", Fits(it, p \o q, v, g), it.k = "counted" => Last(s) = g
    PROVE  /\ Done(it, p, s) <=> q = <<>>
           /\ q = <<>> => Read(it, p) = v
  <1>1. CASE it.k = "packed"
    <2>1. v \in 0 .. Word - 1 /\ p \o q = Packed32(v)
      BY <1>1 DEF Fits, IsNumber
    <2>2. (p # <<>> /\ Last(p) < Group) <=> q = <<>>
      BY <2>1, PackedDone
    <2>3. q = <<>> => Unpacked(p) = v
      BY <2>1, PackedDone
    <2>4. Done(it, p, s) <=> (p # <<>> /\ Last(p) < Group)
      BY <1>1 DEF Done
    <2>5. Read(it, p) = Unpacked(p)
      BY <1>1 DEF Read
    <2> QED
      BY <2>2, <2>3, <2>4, <2>5
  <1>2. CASE it.k = "bytes"
    <2>1. Len(p \o q) = it.n /\ Assembled(p \o q) = v
      BY <1>2 DEF Fits
    <2>2. Done(it, p, s) <=> Len(p) = it.n
      BY <1>2 DEF Done
    <2>3. Read(it, p) = Assembled(p)
      BY <1>2 DEF Read
    <2> QED
      BY <2>1, <2>2, <2>3, LengthDone
  <1>3. CASE it.k = "counted"
    <2>1. Len(p \o q) = g /\ v = p \o q
      BY <1>3 DEF Fits
    <2>2. Done(it, p, s) <=> Len(p) = g
      BY <1>3 DEF Done
    <2>3. Read(it, p) = p
      BY <1>3 DEF Read
    <2> QED
      BY <2>1, <2>2, <2>3, LengthDone
  <1>4. CASE it.k \in {"chars", "skipped"}
    <2>1. Len(p \o q) = it.n /\ v = p \o q
      BY <1>4 DEF Fits
    <2>2. Done(it, p, s) <=> Len(p) = it.n
      BY <1>4 DEF Done
    <2>3. Read(it, p) = p
      BY <1>4 DEF Read
    <2> QED
      BY <2>1, <2>2, <2>3, LengthDone
  <1> QED
    BY <1>1, <1>2, <1>3, <1>4 DEF Fits

\* An item that begins: all of its bytes are to come.
LEMMA PendingBegins ==
    ASSUME NEW it, NEW b \in Seq(Byte), NEW v, NEW g, NEW a \in Seq(Byte), Fits(it, b, v, g)
    PROVE  Pending(it, <<>>, b \o a, v, g, a)
  <1>1. <<>> \in Seq(Byte)
    OBVIOUS
  <1>2. CASE it.k # "string"
    <2>1. <<>> \o b = b
      BY ConcatEmptySeq
    <2> QED
      BY <1>1, <1>2, <2>1 DEF Pending
  <1>3. CASE it.k = "string"
    <2>1. IsString(v) /\ b = Packed32(Len(v)) \o v
      BY <1>3 DEF Fits
    <2>2. v \in Seq(Byte) /\ Len(v) \in 0 .. Word - 1
      BY <2>1 DEF IsString, IsNumber
    <2>3. PICK q, z : q = Packed32(Len(v)) /\ z = v \o a
      OBVIOUS
    <2>4. q \in Seq(Byte)
      BY <2>2, <2>3, PackedRead
    <2>5. z \in Seq(Byte)
      BY <2>2, <2>3, ConcatProperties
    <2>6. (q \o v) \o a = q \o (v \o a)
      BY <2>2, <2>4, Regroup
    <2>7. b \o a = q \o z
      BY <2>1, <2>3, <2>6
    <2>8. <<>> \o q = q
      BY <2>4, ConcatEmptySeq
    <2> QED
      BY <1>1, <1>3, <2>1, <2>3, <2>4, <2>5, <2>7, <2>8 DEF Pending
  <1> QED
    BY <1>2, <1>3

\* An item that is complete: its value is that of the field.
LEMMA PendingValue ==
    ASSUME NEW it, NEW p, NEW X, NEW v, NEW g, NEW a, NEW s, Pending(it, p, X, v, g, a),
           a \in Seq(Byte), it.k # "string", it.k = "counted" => Last(s) = g, Done(it, p, s)
    PROVE  Read(it, p) = v /\ X = a
  <1>1. PICK q \in Seq(Byte) : p \in Seq(Byte) /\ X = q \o a /\ Fits(it, p \o q, v, g)
    BY DEF Pending
  <1>2. q = <<>>
    BY <1>1, ItemDone
  <1>3. Read(it, p) = v
    BY <1>1, <1>2, ItemDone
  <1>4. <<>> \o a = a
    BY ConcatEmptySeq
  <1> QED
    BY <1>1, <1>2, <1>3, <1>4

\* The number of a string that is complete: its characters are to come.
LEMMA PendingLength ==
    ASSUME NEW it, NEW p, NEW X, NEW v, NEW g, NEW a, NEW s, Pending(it, p, X, v, g, a),
           a \in Seq(Byte), it.k = "string", Done(it, p, s)
    PROVE  Pending(Item("chars", Read(it, p)), <<>>, X, v, g, a)
  <1>1. PICK q, z \in Seq(Byte) :
          p \in Seq(Byte) /\ X = q \o z /\ IsString(v) /\ p \o q = Packed32(Len(v)) /\ z = v \o a
    BY DEF Pending
  <1>2. v \in Seq(Byte) /\ Len(v) \in 0 .. Word - 1
    BY <1>1 DEF IsString, IsNumber
  <1>3. p # <<>> /\ Last(p) < Group
    BY DEF Done
  <1>4. q = <<>>
    BY <1>1, <1>2, <1>3, PackedDone
  <1>5. Unpacked(p) = Len(v)
    BY <1>1, <1>2, <1>4, PackedDone
  <1>6. Read(it, p) = Len(v)
    BY <1>5 DEF Read
  <1>7. X = v \o a
    <2>1. <<>> \o z = z
      BY <1>1, ConcatEmptySeq
    <2> QED
      BY <1>1, <1>4, <2>1
  <1>8. Fits(Item("chars", Len(v)), v, v, g)
    BY DEF Fits, Item
  <1> QED
    BY <1>2, <1>6, <1>7, <1>8, PendingBegins

\* An item that is not complete: there is a byte of it to come.
LEMMA PendingByte ==
    ASSUME NEW it, NEW p, NEW X, NEW v, NEW g, NEW a, NEW s, Pending(it, p, X, v, g, a),
           a \in Seq(Byte), it.k = "counted" => Last(s) = g, ~Done(it, p, s)
    PROVE  /\ X \in Seq(Byte) /\ X # <<>>
           /\ Pending(it, Append(p, Head(X)), Tail(X), v, g, a)
  <1>1. PICK q, z \in Seq(Byte) :
          /\ p \in Seq(Byte) /\ X = q \o z
          /\ \/ it.k # "string" /\ Fits(it, p \o q, v, g) /\ z = a
             \/ it.k = "string" /\ IsString(v) /\ p \o q = Packed32(Len(v)) /\ z = v \o a
    BY DEF Pending
  <1>2. q # <<>>
    <2>1. CASE it.k # "string"
      <3>1. Fits(it, p \o q, v, g)
        BY <1>1, <2>1
      <3>2. q = <<>> => Done(it, p, s)
        BY <1>1, <2>1, <3>1, ItemDone
      <3> QED
        BY <3>2
    <2>2. CASE it.k = "string"
      <3>1. Len(v) \in 0 .. Word - 1 /\ p \o q = Packed32(Len(v))
        BY <1>1, <2>2 DEF IsString, IsNumber
      <3>2. q = <<>> => p # <<>> /\ Last(p) < Group
        BY <1>1, <3>1, PackedDone
      <3> QED
        BY <2>2, <3>2 DEF Done
    <2> QED
      BY <2>1, <2>2
  <1>3. PICK x, t : x = Head(q) /\ t = Tail(q)
    OBVIOUS
  <1>4. x \in Byte /\ t \in Seq(Byte) /\ q = <<x>> \o t
    BY <1>1, <1>2, <1>3
  <1>5. /\ Append(p, x) \in Seq(Byte) /\ Append(p, x) \o t = p \o q
    <2>1. <<x>> \in Seq(Byte) /\ Append(p, x) = p \o <<x>>
      BY <1>1, <1>4, AppendIsConcat
    <2>2. (p \o <<x>>) \o t = p \o (<<x>> \o t)
      BY <1>1, <1>4, <2>1, Regroup
    <2>3. Append(p, x) \in Seq(Byte)
      BY <1>1, <1>4
    <2> QED
      BY <1>4, <2>1, <2>2, <2>3
  <1>6. X = <<x>> \o (t \o z)
    <2>1. <<x>> \in Seq(Byte)
      BY <1>4
    <2>2. (<<x>> \o t) \o z = <<x>> \o (t \o z)
      BY <1>1, <1>4, <2>1, Regroup
    <2> QED
      BY <1>1, <1>4, <2>2
  <1>7. t \o z \in Seq(Byte)
    BY <1>1, <1>4, ConcatProperties
  <1>8. X \in Seq(Byte) /\ X # <<>> /\ Head(X) = x /\ Tail(X) = t \o z
    <2>1. PICK y : y = t \o z
      OBVIOUS
    <2>2. y \in Seq(Byte) /\ X = <<x>> \o y
      BY <1>6, <1>7, <2>1
    <2>3. IsSeq(y)
      BY <2>2, ElementSeq
    <2>4. X # <<>> /\ Head(X) = x /\ Tail(X) = y
      BY <2>2, <2>3, ConsAny
    <2>5. X \in Seq(Byte)
      BY <1>1, ConcatProperties
    <2> QED
      BY <2>1, <2>4, <2>5
  <1>9. Pending(it, Append(p, x), t \o z, v, g, a)
    BY <1>1, <1>4, <1>5 DEF Pending
  <1> QED
    BY <1>8, <1>9

-----------------------------------------------------------------------------
(* One packet.                                                             *)

\* After j values of the call c: what the reader still wants, the bytes p it
\* has of the next one, and the bytes X of the call that are still to come.
After(c, j) == FlattenSeq(Dropped(Parts(c), j))

WithinAt(c, j, want, p, got, X) ==
    /\ j \in 0 .. Len(Values(c)) /\ got = Taken(Values(c), j)
    /\ j >= 2 => Known(c)
    /\ \/ j = Len(Values(c)) /\ want = <<>> /\ p = <<>> /\ X = <<>>
       \/ /\ j < Len(Values(c)) /\ want # <<>> /\ IsSeq(want) /\ Tail(want) = Tail(WantAt(c, j))
          /\ Head(want).k = "counted" => j > 0
          /\ Pending(Head(want), p, X, Values(c)[j + 1], Values(c)[j], After(c, j + 1))

Within(c, want, p, got, X) == \E j : WithinAt(c, j, want, p, got, X)

\* The first two items of a packet.
LEMMA HeaderSeq ==
    IsSeq(Header) /\ Len(Header) = 2 /\ Header[1] = Item("packed", 0) /\ Header[2] = Item("packed", 0)
  <1>1. PICK a : a = Item("packed", 0)
    OBVIOUS
  <1>2. Header = <<a, a>>
    BY <1>1 DEF Header
  <1>3. Header \in Seq({a}) /\ Len(Header) = 2 /\ Header[1] = a /\ Header[2] = a
    BY <1>2
  <1> QED
    BY <1>1, <1>3, ElementSeq

\* What the reader wants after j values.
LEMMA WantFacts ==
    ASSUME NEW c, Readable(c), NEW j \in 0 .. Len(Values(c)), j >= 2 => Known(c)
    PROVE  /\ j = Len(Values(c)) => WantAt(c, j) = <<>>
           /\ j < Len(Values(c)) =>
                /\ WantAt(c, j) # <<>> /\ IsSeq(WantAt(c, j))
                /\ Head(WantAt(c, j)) = ItemAt(c, j)
                /\ j + 1 # 2 => Tail(WantAt(c, j)) = WantAt(c, j + 1)
  <1>1. PICK k, it : k = Len(Values(c)) /\ it = ItemsOf(c)
    OBVIOUS
  <1>2. k \in Nat \ {0, 1} /\ (Known(c) => IsSeq(it) /\ Len(it) = k - 2)
    BY <1>1 DEF Readable
  <1>3. CASE j < 2
    <2>1. WantAt(c, j) = Dropped(Header, j) /\ ItemAt(c, j) = Item("packed", 0)
      BY <1>3 DEF WantAt, ItemAt
    <2>2. j \in 0 .. Len(Header) /\ j < Len(Header) /\ Len(Header) \in Nat
      BY <1>3, HeaderSeq
    <2>3. /\ IsSeq(Dropped(Header, j)) /\ Dropped(Header, j) # <<>> /\ Head(Dropped(Header, j)) = Header[j + 1]
          /\ Tail(Dropped(Header, j)) = Dropped(Header, j + 1)
      BY <2>2, DroppedFacts
    <2>4. Header[j + 1] = Item("packed", 0)
      <3>1. (j = 0 /\ j + 1 = 1) \/ (j = 1 /\ j + 1 = 2)
        BY <1>3
      <3> QED
        BY <3>1, HeaderSeq
    <2>5. j + 1 # 2 => WantAt(c, j + 1) = Dropped(Header, j + 1)
      <3>1. j + 1 # 2 => j + 1 < 2
        BY <1>3
      <3> QED
        BY <3>1 DEF WantAt
    <2>6. j # k
      BY <1>2, <1>3
    <2> QED
      BY <1>1, <2>1, <2>3, <2>4, <2>5, <2>6
  <1>4. CASE ~(j < 2)
    <2>1. WantAt(c, j) = Dropped(it, j - 2) /\ ItemAt(c, j) = it[j - 1]
      BY <1>1, <1>4 DEF WantAt, ItemAt
    <2>2. IsSeq(it) /\ Len(it) = k - 2
      <3>1. Known(c)
        BY <1>4
      <3> QED
        BY <1>2, <3>1
    <2>3. Len(it) \in Nat /\ j - 2 \in 0 .. Len(it) /\ (j = k <=> j - 2 = Len(it)) /\ (j < k <=> j - 2 < Len(it))
      BY <1>1, <1>2, <1>4, <2>2
    <2>4. /\ IsSeq(Dropped(it, j - 2))
          /\ j - 2 = Len(it) => Dropped(it, j - 2) = <<>>
          /\ j - 2 < Len(it) => /\ Dropped(it, j - 2) # <<>> /\ Head(Dropped(it, j - 2)) = it[(j - 2) + 1]
                                /\ Tail(Dropped(it, j - 2)) = Dropped(it, (j - 2) + 1)
      BY <2>3, DroppedFacts
    <2>5. (j - 2) + 1 = j - 1 /\ (j + 1) - 2 = j - 1 /\ ~(j + 1 < 2)
      BY <1>4
    <2>6. WantAt(c, j + 1) = Dropped(it, j - 1)
      BY <1>1, <2>5 DEF WantAt
    <2> QED
      BY <1>1, <2>1, <2>3, <2>4, <2>5, <2>6
  <1> QED
    BY <1>3, <1>4

\* The bytes after j values begin with those of the next one.
LEMMA AfterFacts ==
    ASSUME NEW c, Readable(c), NEW j \in 0 .. Len(Values(c))
    PROVE  /\ After(c, j) \in Seq(Byte)
           /\ j = 0 => After(c, j) = Encoded(c)
           /\ j = Len(Values(c)) => After(c, j) = <<>>
           /\ j < Len(Values(c)) => Parts(c)[j + 1] \in Seq(Byte) /\ After(c, j) = Parts(c)[j + 1] \o After(c, j + 1)
  <1>1. PICK k, p : k = Len(Values(c)) /\ p = Parts(c)
    OBVIOUS
  <1>2. Chunks(p, Byte) /\ Len(p) = k /\ FlattenSeq(p) = Encoded(c)
    BY <1>1 DEF Readable
  <1>3. j \in 0 .. Len(p)
    BY <1>1, <1>2
  <1>4. FlattenSeq(Dropped(p, j)) \in Seq(Byte)
    BY <1>2, <1>3, ChunksAfter
  <1>5. j = Len(p) => FlattenSeq(Dropped(p, j)) = <<>>
    BY <1>2, <1>3, ChunksAfter
  <1>6. j < Len(p) => p[j + 1] \in Seq(Byte) /\ FlattenSeq(Dropped(p, j)) = p[j + 1] \o FlattenSeq(Dropped(p, j + 1))
    BY <1>2, <1>3, ChunksAfter
  <1>7. Dropped(p, 0) = p
    <2>1. IsSeq(p)
      BY <1>2, ElementSeq DEF Chunks
    <2> QED
      BY <2>1, TakenAll
  <1> QED
    BY <1>1, <1>2, <1>4, <1>5, <1>6, <1>7 DEF After

\* The reader begins with the next value, or the packet is at its end.
LEMMA WithinBegins ==
    ASSUME NEW c, Readable(c), NEW j \in 0 .. Len(Values(c)), j >= 2 => Known(c)
    PROVE  WithinAt(c, j, WantAt(c, j), <<>>, Taken(Values(c), j), After(c, j))
  <1>1. PICK k : k = Len(Values(c))
    OBVIOUS
  <1>2. k \in Nat \ {0, 1}
    BY <1>1 DEF Readable
  <1>3. CASE j = k
    <2>1. WantAt(c, j) = <<>> /\ After(c, j) = <<>>
      BY <1>1, <1>3, WantFacts, AfterFacts
    <2> QED
      BY <1>1, <1>3, <2>1 DEF WithinAt
  <1>4. CASE j < k
    <2>1. WantAt(c, j) # <<>> /\ IsSeq(WantAt(c, j)) /\ Head(WantAt(c, j)) = ItemAt(c, j)
      BY <1>1, <1>4, WantFacts
    <2>2. Parts(c)[j + 1] \in Seq(Byte) /\ After(c, j) = Parts(c)[j + 1] \o After(c, j + 1)
      BY <1>1, <1>4, AfterFacts
    <2>3. After(c, j + 1) \in Seq(Byte)
      <3>1. j + 1 \in 0 .. Len(Values(c))
        BY <1>1, <1>2, <1>4
      <3> QED
        BY <3>1, AfterFacts
    <2>4. Fits(ItemAt(c, j), Parts(c)[j + 1], Values(c)[j + 1], Values(c)[j])
      <3>1. j \in 0 .. Len(Values(c)) - 1 /\ (j < 2 \/ j >= 2)
        BY <1>1, <1>2, <1>4
      <3> QED
        BY <3>1 DEF Readable
    <2>5. Pending(ItemAt(c, j), <<>>, Parts(c)[j + 1] \o After(c, j + 1), Values(c)[j + 1], Values(c)[j], After(c, j + 1))
      BY <2>2, <2>3, <2>4, PendingBegins
    <2>6. ItemAt(c, j).k = "counted" => j > 0
      <3>1. j = 0 => ItemAt(c, j) = Item("packed", 0)
        BY DEF ItemAt
      <3>2. j = 0 => ItemAt(c, j).k = "packed"
        BY <3>1 DEF Item
      <3>3. j # 0 => j > 0
        OBVIOUS
      <3> QED
        BY <3>2, <3>3
    <2> QED
      BY <1>1, <1>4, <2>1, <2>2, <2>5, <2>6 DEF WithinAt
  <1>5. j = k \/ j < k
    BY <1>1, <1>2
  <1> QED
    BY <1>3, <1>4, <1>5

\* The first byte of a call.
LEMMA PacketBegins ==
    ASSUME NEW c, Readable(c)
    PROVE  Within(c, NewPacket.want, NewPacket.part, NewPacket.got, Encoded(c))
  <1>1. Len(Values(c)) \in Nat \ {0, 1} /\ IsSeq(Values(c))
    BY DEF Readable
  <1>2. 0 \in 0 .. Len(Values(c)) /\ ~(0 >= 2) /\ 0 < 2
    BY <1>1
  <1>3. WithinAt(c, 0, WantAt(c, 0), <<>>, Taken(Values(c), 0), After(c, 0))
    BY <1>2, WithinBegins
  <1>4. WantAt(c, 0) = Header
    <2>1. Dropped(Header, 0) = Header
      BY HeaderSeq, TakenAll
    <2> QED
      BY <1>2, <2>1 DEF WantAt
  <1>5. Taken(Values(c), 0) = <<>> /\ After(c, 0) = Encoded(c)
    BY <1>1, <1>2, TakenAll, AfterFacts
  <1>6. NewPacket.want = Header /\ NewPacket.part = <<>> /\ NewPacket.got = <<>>
    BY DEF NewPacket, Header
  <1> QED
    BY <1>3, <1>4, <1>5, <1>6 DEF Within

\* The last byte of a call.
LEMMA PacketEnds ==
    ASSUME NEW c, Readable(c), NEW p, NEW got, NEW X, Within(c, <<>>, p, got, X)
    PROVE  got = Values(c) /\ p = <<>> /\ X = <<>> /\ Known(c)
  <1>1. PICK j : WithinAt(c, j, <<>>, p, got, X)
    BY DEF Within
  <1>2. j = Len(Values(c)) /\ p = <<>> /\ X = <<>> /\ got = Taken(Values(c), j) /\ (j >= 2 => Known(c))
    BY <1>1 DEF WithinAt
  <1>3. IsSeq(Values(c)) /\ Len(Values(c)) \in Nat \ {0, 1}
    BY DEF Readable
  <1>4. j >= 2
    BY <1>2, <1>3
  <1>5. Taken(Values(c), Len(Values(c))) = Values(c)
    BY <1>3, TakenAll
  <1> QED
    BY <1>2, <1>4, <1>5

\* The value read last is that of the call.
LEMMA LastValue ==
    ASSUME NEW v, NEW j \in Nat, j > 0
    PROVE  Last(Taken(v, j)) = v[j]
  <1>1. PICK t : t = Taken(v, j)
    OBVIOUS
  <1>2. Len(t) = j /\ \A i \in 1 .. j : t[i] = v[i]
    BY <1>1, TakenFacts
  <1>3. j \in 1 .. j
    OBVIOUS
  <1>4. Last(t) = t[j]
    BY <1>2 DEF Last
  <1> QED
    BY <1>1, <1>2, <1>3, <1>4

\* In the middle of a call.
LEMMA InCall ==
    ASSUME NEW c, Readable(c), NEW want, NEW p, NEW got, NEW X, Within(c, want, p, got, X), want # <<>>
    PROVE  \E j \in 0 .. Len(Values(c)) - 1 :
             /\ got = Taken(Values(c), j) /\ (j >= 2 => Known(c))
             /\ IsSeq(want) /\ Tail(want) = Tail(WantAt(c, j))
             /\ Head(want).k = "counted" => j > 0 /\ Last(got) = Values(c)[j]
             /\ Pending(Head(want), p, X, Values(c)[j + 1], Values(c)[j], After(c, j + 1))
             /\ After(c, j + 1) \in Seq(Byte)
  <1>1. PICK j : WithinAt(c, j, want, p, got, X)
    BY DEF Within
  <1>2. /\ j \in 0 .. Len(Values(c)) /\ j < Len(Values(c)) /\ got = Taken(Values(c), j) /\ (j >= 2 => Known(c))
        /\ IsSeq(want) /\ Tail(want) = Tail(WantAt(c, j))
        /\ Head(want).k = "counted" => j > 0
        /\ Pending(Head(want), p, X, Values(c)[j + 1], Values(c)[j], After(c, j + 1))
    BY <1>1 DEF WithinAt
  <1>3. Len(Values(c)) \in Nat
    BY DEF Readable
  <1>4. j \in 0 .. Len(Values(c)) - 1 /\ j + 1 \in 0 .. Len(Values(c)) /\ j \in Nat
    BY <1>2, <1>3
  <1>5. j > 0 => Last(got) = Values(c)[j]
    BY <1>2, <1>4, LastValue
  <1>6. After(c, j + 1) \in Seq(Byte)
    BY <1>4, AfterFacts
  <1> QED
    BY <1>2, <1>4, <1>5, <1>6

\* ReadByte: the next byte of the call.
LEMMA ByteWithin ==
    ASSUME NEW c, Readable(c), NEW want, NEW p, NEW got, NEW X, Within(c, want, p, got, X), want # <<>>,
           ~Done(Head(want), p, got)
    PROVE  X \in Seq(Byte) /\ X # <<>> /\ Within(c, want, Append(p, Head(X)), got, Tail(X))
  <1>1. PICK j \in 0 .. Len(Values(c)) - 1 :
             /\ got = Taken(Values(c), j) /\ (j >= 2 => Known(c))
             /\ IsSeq(want) /\ Tail(want) = Tail(WantAt(c, j))
             /\ Head(want).k = "counted" => j > 0 /\ Last(got) = Values(c)[j]
             /\ Pending(Head(want), p, X, Values(c)[j + 1], Values(c)[j], After(c, j + 1))
             /\ After(c, j + 1) \in Seq(Byte)
    BY InCall
  <1>2. /\ X \in Seq(Byte) /\ X # <<>>
        /\ Pending(Head(want), Append(p, Head(X)), Tail(X), Values(c)[j + 1], Values(c)[j], After(c, j + 1))
    BY <1>1, PendingByte
  <1>3. j \in 0 .. Len(Values(c)) /\ j < Len(Values(c))
    <2>1. Len(Values(c)) \in Nat
      BY DEF Readable
    <2> QED
      BY <2>1
  <1>4. WithinAt(c, j, want, Append(p, Head(X)), got, Tail(X))
    BY <1>1, <1>2, <1>3 DEF WithinAt
  <1> QED
    BY <1>2, <1>4 DEF Within

\* ReadLength: the number of a string makes way for its bytes.
LEMMA LengthWithin ==
    ASSUME NEW c, Readable(c), NEW want, NEW p, NEW got, NEW X, Within(c, want, p, got, X), want # <<>>,
           Done(Head(want), p, got), Head(want).k = "string"
    PROVE  Within(c, <<Item("chars", Read(Head(want), p))>> \o Tail(want), <<>>, got, X)
  <1>1. PICK j \in 0 .. Len(Values(c)) - 1 :
             /\ got = Taken(Values(c), j) /\ (j >= 2 => Known(c))
             /\ IsSeq(want) /\ Tail(want) = Tail(WantAt(c, j))
             /\ Head(want).k = "counted" => j > 0 /\ Last(got) = Values(c)[j]
             /\ Pending(Head(want), p, X, Values(c)[j + 1], Values(c)[j], After(c, j + 1))
             /\ After(c, j + 1) \in Seq(Byte)
    BY InCall
  <1>2. PICK it, t, u : it = Item("chars", Read(Head(want), p)) /\ t = Tail(want) /\ u = <<it>> \o t
    OBVIOUS
  <1>3. Pending(it, <<>>, X, Values(c)[j + 1], Values(c)[j], After(c, j + 1))
    BY <1>1, <1>2, PendingLength
  <1>4. IsSeq(t)
    BY <1>1, <1>2, TailAny
  <1>5. u # <<>> /\ Head(u) = it /\ Tail(u) = t
    BY <1>2, <1>4, ConsAny
  <1>6. IsSeq(u)
    <2>1. PICK S : S = Elements(t) \cup {it}
      OBVIOUS
    <2>2. t \in Seq(Elements(t))
      BY <1>4, SeqElements
    <2>3. t \in Seq(S) /\ <<it>> \in Seq(S)
      BY <2>1, <2>2
    <2>4. u \in Seq(S)
      BY <1>2, <2>3, ConcatProperties
    <2> QED
      BY <2>4, ElementSeq
  <1>7. j \in 0 .. Len(Values(c)) /\ j < Len(Values(c))
    <2>1. Len(Values(c)) \in Nat
      BY DEF Readable
    <2> QED
      BY <2>1
  <1>8. Head(u).k # "counted"
    BY <1>2, <1>5 DEF Item
  <1>9. WithinAt(c, j, u, <<>>, got, X)
    BY <1>1, <1>2, <1>3, <1>5, <1>6, <1>7, <1>8 DEF WithinAt
  <1> QED
    BY <1>2, <1>9 DEF Within

\* ReadField: the value is that of the call, and the next one follows, unless
\* it is the index of a sample that the reader does not know.
LEMMA FieldWithin ==
    ASSUME NEW c, Readable(c), NEW want, NEW p, NEW got, NEW X, Within(c, want, p, got, X), want # <<>>,
           Done(Head(want), p, got), Head(want).k # "string",
           NEW more, more = Append(got, Read(Head(want), p)),
           Len(more) = 2 => (~(more[1] >= LABCOMM_USER) \/ more[1] \in DOMAIN Layout)
    PROVE  Within(c, IF Len(more) = 2 THEN BodyItems(more[1], more[2]) ELSE Tail(want), <<>>, more, X)
  <1>1. PICK j \in 0 .. Len(Values(c)) - 1 :
             /\ got = Taken(Values(c), j) /\ (j >= 2 => Known(c))
             /\ IsSeq(want) /\ Tail(want) = Tail(WantAt(c, j))
             /\ Head(want).k = "counted" => j > 0 /\ Last(got) = Values(c)[j]
             /\ Pending(Head(want), p, X, Values(c)[j + 1], Values(c)[j], After(c, j + 1))
             /\ After(c, j + 1) \in Seq(Byte)
    BY InCall
  <1>2. Len(Values(c)) \in Nat \ {0, 1} /\ Values(c)[1] = c.tag /\ Values(c)[2] = Length(c)
    BY DEF Readable
  <1>3. j \in Nat /\ j \in 0 .. Len(Values(c)) /\ j + 1 \in 0 .. Len(Values(c)) /\ j < Len(Values(c)) /\ j + 1 \in Nat
    BY <1>2
  <1>4. Read(Head(want), p) = Values(c)[j + 1] /\ X = After(c, j + 1)
    BY <1>1, PendingValue
  <1>5. more = Taken(Values(c), j + 1)
    BY <1>1, <1>3, <1>4, TakenFacts
  <1>6. Len(more) = j + 1 /\ \A i \in 1 .. j + 1 : more[i] = Values(c)[i]
    BY <1>3, <1>5, TakenFacts
  <1>7. CASE j + 1 = 2
    <2>1. Len(more) = 2 /\ more[1] = c.tag /\ more[2] = Length(c)
      BY <1>2, <1>6, <1>7
    <2>2. Known(c)
      <3>1. ~(c.tag >= LABCOMM_USER) \/ c.tag \in DOMAIN Layout
        BY <2>1
      <3> QED
        BY <3>1 DEF Known, IsSample
    <2>3. WantAt(c, 2) = ItemsOf(c)
      <3>1. IsSeq(ItemsOf(c))
        BY <2>2 DEF Readable
      <3>2. ~(2 < 2) /\ 2 - 2 = 0
        OBVIOUS
      <3>3. Dropped(ItemsOf(c), 0) = ItemsOf(c)
        BY <3>1, TakenAll
      <3> QED
        BY <3>2, <3>3 DEF WantAt
    <2>4. BodyItems(more[1], more[2]) = WantAt(c, j + 1)
      BY <1>7, <2>1, <2>3 DEF ItemsOf
    <2>5. WithinAt(c, j + 1, WantAt(c, j + 1), <<>>, Taken(Values(c), j + 1), After(c, j + 1))
      BY <1>3, <2>2, WithinBegins
    <2> QED
      BY <1>4, <1>5, <2>1, <2>4, <2>5 DEF Within
  <1>8. CASE j + 1 # 2
    <2>1. Len(more) # 2
      BY <1>6, <1>8
    <2>2. j + 1 >= 2 => Known(c)
      <3>1. j + 1 >= 2 => j >= 2
        BY <1>3, <1>8
      <3> QED
        BY <1>1, <3>1
    <2>3. Tail(want) = WantAt(c, j + 1)
      <3>1. Tail(WantAt(c, j)) = WantAt(c, j + 1)
        BY <1>1, <1>3, <1>8, WantFacts
      <3> QED
        BY <1>1, <3>1
    <2>4. WithinAt(c, j + 1, WantAt(c, j + 1), <<>>, Taken(Values(c), j + 1), After(c, j + 1))
      BY <1>3, <2>2, WithinBegins
    <2> QED
      BY <1>4, <1>5, <2>1, <2>3, <2>4 DEF Within
  <1> QED
    BY <1>7, <1>8

-----------------------------------------------------------------------------
(* The reader in the stream.                                               *)

\* The first calls write the first bytes.
LEMMA TakenTotal ==
    ASSUME NEW cs \in Seq(Calls), NEW k \in 0 .. Len(cs)
    PROVE  /\ Taken(cs, k) \in Seq(Calls) /\ Total(Taken(cs, k)) \in Seq(Byte)
           /\ \E v \in Seq(Byte) : Total(cs) = Total(Taken(cs, k)) \o v
           /\ k < Len(cs) => Total(Taken(cs, k + 1)) = Total(Taken(cs, k)) \o Encoded(cs[k + 1])
  <1>1. PICK m, t : m = Len(cs) /\ t = Taken(cs, k)
    OBVIOUS
  <1>2. m \in Nat /\ k \in Nat /\ k <= m /\ \A i \in 1 .. m : cs[i] \in Calls
    BY <1>1
  <1>3. Len(t) = k /\ IsSeq(t) /\ \A i \in 1 .. k : t[i] = cs[i]
    BY <1>1, <1>2, TakenFacts
  <1>4. t \in Seq(Calls)
    <2>1. t = [i \in 1 .. k |-> t[i]] /\ \A i \in 1 .. k : t[i] \in Calls
      BY <1>2, <1>3 DEF IsSeq
    <2> QED
      BY <1>2, <2>1
  <1>5. Total(t) \in Seq(Byte)
    BY <1>4, TotalFacts
  <1>6. \E v \in Seq(Byte) : Total(cs) = Total(t) \o v
    <2>1. PICK e, e2 : e = [n \in DOMAIN cs |-> Encoded(cs[n])] /\ e2 = [n \in DOMAIN t |-> Encoded(t[n])]
      OBVIOUS
    <2>2. Chunks(e, Byte) /\ Len(e) = m
      BY <1>1, <2>1, TotalChunks
    <2>3. Chunks(e2, Byte) /\ Len(e2) = k
      BY <1>3, <1>4, <2>1, TotalChunks
    <2>4. PICK f : Flattening(f, e, Byte) /\ FlattenSeq(e) = f[Len(e)]
      BY <2>2, Flattened
    <2>5. PICK g : Flattening(g, e2, Byte) /\ FlattenSeq(e2) = g[Len(e2)]
      BY <2>3, Flattened
    <2>6. Flattens(f, e) /\ Flattens(g, e2)
      BY <2>4, <2>5 DEF Flattens, Flattening
    <2>7. \A i \in 1 .. k : e[i] = e2[i]
      <3> TAKE i \in 1 .. k
      <3>1. DOMAIN cs = 1 .. m /\ DOMAIN t = 1 .. k /\ i \in 1 .. m
        BY <1>1, <1>2, <1>3, <1>4
      <3>2. e[i] = Encoded(cs[i]) /\ e2[i] = Encoded(t[i])
        BY <2>1, <3>1
      <3> QED
        BY <1>3, <3>2
    <2>8. f[k] = g[k]
      <3>1. k <= Len(e) /\ k <= Len(e2) /\ Len(e) \in Nat /\ Len(e2) \in Nat
        BY <1>2, <2>2, <2>3
      <3> QED
        BY <1>2, <2>6, <2>7, <3>1, FlattenAlike
    <2>9. \E u \in Seq(Byte) : f[m] = f[k] \o u
      <3>1. Len(e) \in Nat /\ k \in 0 .. Len(e) /\ m \in 0 .. Len(e) /\ k <= m
        BY <1>2, <2>2
      <3>2. Flattening(f, e, Byte)
        BY <2>4
      <3>3. Continues(f[m], f[k], Byte)
        BY <3>1, <3>2, FlattenPrefix
      <3> QED
        BY <3>3 DEF Continues
    <2>10. Total(cs) = f[m] /\ Total(t) = g[k]
      BY <2>1, <2>2, <2>3, <2>4, <2>5 DEF Total
    <2> QED
      BY <2>8, <2>9, <2>10
  <1>7. ASSUME k < m PROVE Total(Taken(cs, k + 1)) = Total(t) \o Encoded(cs[k + 1])
    <2>1. cs[k + 1] \in Calls
      BY <1>2, <1>7
    <2>2. Append(t, cs[k + 1]) = Taken(cs, k + 1)
      BY <1>1, <1>2, TakenFacts
    <2>3. Total(Append(t, cs[k + 1])) = Total(t) \o Encoded(cs[k + 1])
      BY <1>4, <2>1, TotalFacts
    <2> QED
      BY <2>2, <2>3
  <1> QED
    BY <1>1, <1>4, <1>5, <1>6, <1>7

\* Without damage the stream begins what the calls write.
LEMMA StreamBegins ==
    ASSUME NEW k, NEW e, NEW d \in Seq(Byte), NEW ph, NEW l \in Seq(FunctionType), NEW s \in Seq(Byte),
           NEW cs \in Seq(Calls), NEW fs, Order(k, e, d, ph, l, s, cs, fs), ~Broken(fs)
    PROVE  Begins(s, cs)
  <1>1. CASE e = "none"
    <2>1. s \o Remains(ph, d, l) = Total(cs)
      BY <1>1 DEF Order
    <2>2. Remains(ph, d, l) \in Seq(Byte)
      BY RemainsFacts
    <2> QED
      BY <2>1, <2>2, BeginsFacts
  <1>2. CASE e # "none"
    BY <1>2 DEF Order
  <1> QED
    BY <1>1, <1>2

\* The stream goes along with the first j + 1 calls, unless it is damaged and
\* they are all of them.
Along(s, t) == \E u, v \in Seq(Byte) : s \o u = t \o v

\* What was called before the call under way has been sent.
LEMMA StreamAlong ==
    ASSUME NEW k, NEW e, NEW d \in Seq(Byte), NEW ph, NEW l \in Seq(FunctionType), NEW s \in Seq(Byte),
           NEW cs \in Seq(Calls), NEW fs, Order(k, e, d, ph, l, s, cs, fs),
           NEW j \in Nat, j < Len(cs), ~(Broken(fs) /\ j >= Len(cs) - 1)
    PROVE  Along(s, Total(Taken(cs, j + 1)))
  <1>1. PICK m, t : m = Len(cs) /\ t = Total(Taken(cs, j + 1))
    OBVIOUS
  <1>2. m \in Nat /\ j + 1 \in 0 .. m /\ j < m
    BY <1>1
  <1>3. t \in Seq(Byte)
    BY <1>1, <1>2, TakenTotal
  <1>4. CASE ~Broken(fs)
    <2>1. PICK u \in Seq(Byte) : s \o u = Total(cs)
      BY <1>4, StreamBegins DEF Begins
    <2>2. PICK v \in Seq(Byte) : Total(cs) = t \o v
      BY <1>1, <1>2, TakenTotal
    <2> QED
      BY <1>1, <2>1, <2>2 DEF Along
  <1>5. CASE j < m - 1
    <2>1. cs # <<>>
      BY <1>1, <1>2, <1>5
    <2>2. PICK f : f = Front(cs)
      OBVIOUS
    <2>3. f \in Seq(Calls) /\ Len(f) = m - 1 /\ \A i \in 1 .. m - 1 : f[i] = cs[i]
      BY <1>1, <2>1, <2>2, FrontType
    <2>4. Covers(s, f)
      BY <2>1, <2>2 DEF Order
    <2>5. PICK u \in Seq(Byte) : s = Total(f) \o u
      BY <2>4 DEF Covers
    <2>6. j + 1 \in 0 .. Len(f)
      BY <1>2, <1>5, <2>3
    <2>7. PICK v \in Seq(Byte) : Total(f) = Total(Taken(f, j + 1)) \o v
      BY <2>3, <2>6, TakenTotal
    <2>8. Taken(f, j + 1) = Taken(cs, j + 1)
      <3>1. \A i \in 1 .. j + 1 : i \in 1 .. m - 1
        BY <1>2, <1>5
      <3>2. \A i \in 1 .. j + 1 : f[i] = cs[i]
        BY <2>3, <3>1
      <3> QED
        BY <3>2 DEF Taken
    <2>9. Total(f) = t \o v
      BY <1>1, <2>7, <2>8
    <2>10. (t \o v) \o u = t \o (v \o u)
      BY <1>3, <2>5, <2>7, Regroup
    <2>11. v \o u \in Seq(Byte)
      BY <2>5, <2>7, ConcatProperties
    <2>12. s \o <<>> = s
      BY ConcatEmptySeq
    <2>13. s \o <<>> = t \o (v \o u) /\ <<>> \in Seq(Byte)
      BY <2>5, <2>9, <2>10, <2>12
    <2> QED
      BY <1>1, <2>11, <2>13 DEF Along
  <1>6. ~Broken(fs) \/ j < m - 1
    BY <1>1, <1>2
  <1> QED
    BY <1>4, <1>5, <1>6

\* What comes after the same bytes.
LEMMA CancelLeft ==
    ASSUME NEW a \in Seq(Byte), NEW f \in Seq(Byte), NEW g \in Seq(Byte), a \o f = a \o g
    PROVE  f = g
  BY ConcatSimplifications

\* The first byte of two sequences.
LEMMA FirstOfTwo ==
    ASSUME NEW s \in Seq(Byte), NEW t \in Seq(Byte), s # <<>>
    PROVE  (s \o t)[1] = Head(s)
  <1>1. Len(s) \in Nat \ {0} /\ Len(t) \in Nat /\ Head(s) = s[1]
    OBVIOUS
  <1>2. 1 \in 1 .. Len(s) + Len(t) /\ 1 <= Len(s)
    BY <1>1
  <1>3. \A i \in 1 .. Len(s) + Len(t) : (s \o t)[i] = IF i <= Len(s) THEN s[i] ELSE t[i - Len(s)]
    BY ConcatProperties
  <1> QED
    BY <1>1, <1>2, <1>3

\* What is cut off at the same place begins alike.
LEMMA SameByte ==
    ASSUME NEW b \in Seq(Byte), NEW x \in Seq(Byte), b # <<>>, x # <<>>,
           NEW y \in Seq(Byte), NEW z \in Seq(Byte), NEW a \in Seq(Byte), a \o (b \o y) = a \o (x \o z)
    PROVE  Head(b) = Head(x)
  <1>1. PICK f, g : f = b \o y /\ g = x \o z
    OBVIOUS
  <1>2. f \in Seq(Byte)
    BY <1>1, ConcatProperties
  <1>3. g \in Seq(Byte)
    BY <1>1, ConcatProperties
  <1>4. a \o f = a \o g
    BY <1>1
  <1>5. f = g
    BY <1>2, <1>3, <1>4, CancelLeft
  <1>6. f[1] = Head(b)
    BY <1>1, FirstOfTwo
  <1>7. g[1] = Head(x)
    BY <1>1, FirstOfTwo
  <1> QED
    BY <1>5, <1>6, <1>7

\* What the reader has consumed, b, what it has in its buffer, f, and the
\* number of bytes it has read.
Received(s, b, f, at) == (\E a \in Seq(Byte) : s = (b \o f) \o a) /\ Len(b) + Len(f) = at

\* f goes on with b after h.
GoesOn(f, h, b) == \E z \in Seq(Byte) : f = h \o (b \o z)

\* The buffer of the reader holds what comes next in the stream.
LEMMA ReceivedGoesOn ==
    ASSUME NEW h \in Seq(Byte), NEW b \in Seq(Byte), NEW s, NEW at, Received(s, h, b, at), NEW u \in Seq(Byte)
    PROVE  GoesOn(s \o u, h, b)
  <1>1. PICK a \in Seq(Byte) : s = (h \o b) \o a
    BY DEF Received
  <1>2. PICK f, g : f = h \o b /\ g = a \o u
    OBVIOUS
  <1>3. f \in Seq(Byte)
    BY <1>2, ConcatProperties
  <1>4. g \in Seq(Byte)
    BY <1>2, ConcatProperties
  <1>5. (f \o a) \o u = f \o (a \o u)
    BY <1>3, Regroup
  <1>6. (h \o b) \o g = h \o (b \o g)
    BY <1>4, Regroup
  <1>7. s \o u = h \o (b \o g)
    BY <1>1, <1>2, <1>5, <1>6
  <1> QED
    BY <1>4, <1>7 DEF GoesOn

\* What is to come of a call is what comes next in the calls.
LEMMA CallGoesOn ==
    ASSUME NEW t \in Seq(Byte), NEW y \in Seq(Byte), NEW x \in Seq(Byte), NEW v \in Seq(Byte)
    PROVE  GoesOn((t \o (y \o x)) \o v, t \o y, x)
  <1>1. PICK f : f = t \o y
    OBVIOUS
  <1>2. f \in Seq(Byte)
    BY <1>1, ConcatProperties
  <1>3. (t \o y) \o x = t \o (y \o x)
    BY Regroup
  <1>4. (f \o x) \o v = f \o (x \o v)
    BY <1>2, Regroup
  <1>5. (t \o (y \o x)) \o v = f \o (x \o v)
    BY <1>1, <1>3, <1>4
  <1> QED
    BY <1>1, <1>5 DEF GoesOn

\* What comes next begins alike, wherever it is found.
LEMMA SameNext ==
    ASSUME NEW f, NEW h \in Seq(Byte), NEW b \in Seq(Byte), NEW x \in Seq(Byte), b # <<>>, x # <<>>,
           GoesOn(f, h, b), GoesOn(f, h, x)
    PROVE  Head(b) = Head(x)
  <1>1. PICK y \in Seq(Byte) : f = h \o (b \o y)
    BY DEF GoesOn
  <1>2. PICK z \in Seq(Byte) : f = h \o (x \o z)
    BY DEF GoesOn
  <1>3. h \o (b \o y) = h \o (x \o z)
    BY <1>1, <1>2
  <1> QED
    BY <1>3, SameByte

\* The byte the reader gets is the next one of the call.
LEMMA NextByte ==
    ASSUME NEW s \in Seq(Byte), NEW t \in Seq(Byte), NEW x \in Seq(Byte), NEW y \in Seq(Byte), x # <<>>,
           NEW b \in Seq(Byte), b # <<>>, NEW at,
           Along(s, t \o (y \o x)), Received(s, t \o y, b, at)
    PROVE  Head(b) = Head(x)
  <1>1. PICK u, v \in Seq(Byte) : s \o u = (t \o (y \o x)) \o v
    BY DEF Along
  <1>2. PICK h, f : h = t \o y /\ f = s \o u
    OBVIOUS
  <1>3. h \in Seq(Byte)
    BY <1>2, ConcatProperties
  <1>4. GoesOn(f, h, b)
    <2>1. Received(s, h, b, at)
      BY <1>2
    <2>2. GoesOn(s \o u, h, b)
      BY <1>1, <1>3, <2>1, ReceivedGoesOn
    <2> QED
      BY <1>2, <2>2
  <1>5. GoesOn(f, h, x)
    <2>1. GoesOn((t \o (y \o x)) \o v, t \o y, x)
      BY <1>1, CallGoesOn
    <2> QED
      BY <1>1, <1>2, <2>1
  <1> QED
    BY <1>3, <1>4, <1>5, SameNext

\* When all that was written has been read, there is nothing more to read.
LEMMA NothingMore ==
    ASSUME NEW s \in Seq(Byte), NEW t \in Seq(Byte), NEW b \in Seq(Byte), NEW a \in Seq(Byte),
           NEW u \in Seq(Byte), s = (t \o b) \o a, s \o u = t
    PROVE  b = <<>>
  <1>1. t \o b \in Seq(Byte)
    BY ConcatProperties
  <1>2. a \o u \in Seq(Byte)
    BY ConcatProperties
  <1>3. ((t \o b) \o a) \o u = (t \o b) \o (a \o u)
    BY <1>1, Regroup
  <1>4. (t \o b) \o (a \o u) = t \o (b \o (a \o u))
    BY <1>2, Regroup
  <1>5. PICK c : c = b \o (a \o u)
    OBVIOUS
  <1>6. c \in Seq(Byte)
    BY <1>2, <1>5, ConcatProperties
  <1>7. t \o c = t
    BY <1>3, <1>4, <1>5
  <1>8. c = <<>>
    BY <1>6, <1>7, ConcatEqualIffEmpty
  <1>9. b \o (a \o u) = <<>>
    BY <1>5, <1>8
  <1> QED
    BY <1>2, <1>9, ConcatEqualIffEmpty

\* InStep, for the packets dec, the calls cs and the faults fs.
Correct(dec, cs, fs) ==
    \A n \in DOMAIN dec :
      \/ n <= Len(cs) /\ dec[n] = Values(cs[n])
      \/ Broken(fs) /\ n >= Len(cs)

\* k packets have been read, and the bytes c.  The last call may be damaged,
\* and then nothing more is known of the reader.  Otherwise it is between two
\* packets, or within one: Y is what it has consumed of it, X what is to come.
Lost(cs, fs, k) == Broken(fs) /\ k >= Len(cs) - 1

Between(cs, k, c, d) == k <= Len(cs) /\ d = NewPacket /\ c = Total(Taken(cs, k))

Middle(cs, k, c, d) ==
    /\ k < Len(cs)
    /\ \E Y, X \in Seq(Byte) :
         /\ Y \o X = Encoded(cs[k + 1]) /\ c = Total(Taken(cs, k)) \o Y
         /\ Within(cs[k + 1], d.want, d.part, d.got, X)

Place(cs, fs, k, c, d) == Lost(cs, fs, k) \/ Between(cs, k, c, d) \/ Middle(cs, k, c, d)

IsRd(d) == d = [want |-> d.want, part |-> d.part, got |-> d.got]

Reads(s, cs, fs, b, at, err, d, dec) ==
    /\ IsSeq(dec) /\ Correct(dec, cs, fs) /\ IsRd(d)
    /\ \E c \in Seq(Byte) : Received(s, c, b, at) /\ (err = "none" => Place(cs, fs, Len(dec), c, d))

\* What is sent later does not change what was received.
LEMMA ReceivedMore ==
    ASSUME NEW s, NEW c \in Seq(Byte), NEW b \in Seq(Byte), NEW at, Received(s, c, b, at), NEW u \in Seq(Byte)
    PROVE  Received(s \o u, c, b, at)
  <1>1. PICK a \in Seq(Byte) : s = (c \o b) \o a
    BY DEF Received
  <1>2. PICK f, g : f = c \o b /\ g = a \o u
    OBVIOUS
  <1>3. f \in Seq(Byte)
    BY <1>2, ConcatProperties
  <1>4. g \in Seq(Byte)
    BY <1>2, ConcatProperties
  <1>5. (f \o a) \o u = f \o (a \o u)
    BY <1>3, Regroup
  <1>6. s \o u = (c \o b) \o g
    BY <1>1, <1>2, <1>5
  <1>7. Len(c) + Len(b) = at
    BY DEF Received
  <1> QED
    BY <1>4, <1>6, <1>7 DEF Received

\* The next byte is taken from the buffer.
LEMMA ReceivedByte ==
    ASSUME NEW s, NEW c \in Seq(Byte), NEW b \in Seq(Byte), NEW at, Received(s, c, b, at), b # <<>>
    PROVE  /\ Append(c, Head(b)) \in Seq(Byte) /\ Tail(b) \in Seq(Byte) /\ Head(b) \in Byte
           /\ Received(s, Append(c, Head(b)), Tail(b), at)
  <1>1. PICK a \in Seq(Byte) : s = (c \o b) \o a
    BY DEF Received
  <1>2. PICK h, t, x : h = Head(b) /\ t = Tail(b) /\ x = <<h>>
    OBVIOUS
  <1>3. h \in Byte /\ t \in Seq(Byte) /\ b = <<h>> \o t /\ Len(t) = Len(b) - 1
    BY <1>2
  <1>4. x \in Seq(Byte) /\ Append(c, h) = c \o x /\ Append(c, h) \in Seq(Byte) /\ Len(Append(c, h)) = Len(c) + 1
    <2>1. Append(c, h) = c \o <<h>>
      BY <1>3, AppendIsConcat
    <2> QED
      BY <1>2, <1>3, <2>1
  <1>5. (c \o x) \o t = c \o (x \o t)
    BY <1>3, <1>4, Regroup
  <1>6. s = (Append(c, h) \o t) \o a
    BY <1>1, <1>2, <1>3, <1>4, <1>5, Zenon
  <1>7. Len(Append(c, h)) + Len(t) = at
    <2>1. Len(c) + Len(b) = at
      BY DEF Received
    <2>2. Len(c) \in Nat /\ Len(b) \in Nat
      OBVIOUS
    <2> QED
      BY <1>3, <1>4, <2>1, <2>2
  <1>8. Received(s, Append(c, h), t, at)
    BY <1>6, <1>7 DEF Received
  <1> QED
    BY <1>2, <1>3, <1>4, <1>8

\* The first of two sequences.
LEMMA FirstPart ==
    ASSUME NEW c \in Seq(Byte), NEW a \in Seq(Byte)
    PROVE  SubSeq(c \o a, 1, Len(c)) = c
  <1>1. PICK s, k, m : s = c \o a /\ k = Len(c) /\ m = Len(a)
    OBVIOUS
  <1>2. /\ s \in Seq(Byte) /\ Len(s) = k + m /\ k \in Nat /\ m \in Nat
        /\ \A i \in 1 .. k + m : s[i] = IF i <= k THEN c[i] ELSE a[i - k]
    BY <1>1, ConcatProperties
  <1>3. \A i \in 1 .. k : i \in 1 .. k + m /\ i <= k
    BY <1>2
  <1>4. \A i \in 1 .. k : s[i] = c[i]
    BY <1>2, <1>3
  <1>5. k \in 0 .. Len(s)
    BY <1>2
  <1>6. SubSeq(s, 1, k) = [i \in 1 .. k |-> s[i]]
    BY <1>2, <1>5
  <1>7. c = [i \in 1 .. k |-> c[i]]
    BY <1>1
  <1>8. [i \in 1 .. k |-> s[i]] = [i \in 1 .. k |-> c[i]]
    BY <1>4
  <1> QED
    BY <1>1, <1>6, <1>7, <1>8

\* fd_fill: the bytes that follow those read so far.
LEMMA ReceivedFill ==
    ASSUME NEW s \in Seq(Byte), NEW c \in Seq(Byte), NEW at \in Nat, Received(s, c, <<>>, at),
           NEW n \in Nat \ {0}, at + n <= Len(s)
    PROVE  /\ SubSeq(s, at + 1, at + n) \in Seq(Byte)
           /\ Received(s, c, SubSeq(s, at + 1, at + n), at + n)
  <1>1. PICK a \in Seq(Byte) : s = (c \o <<>>) \o a
    BY DEF Received
  <1>2. c \o <<>> = c
    BY ConcatEmptySeq
  <1>3. s = c \o a
    BY <1>1, <1>2
  <1>4. Len(c) = at
    <2>1. Len(c) + Len(<<>>) = at
      BY DEF Received
    <2>2. Len(<<>>) = 0 /\ Len(c) \in Nat
      OBVIOUS
    <2> QED
      BY <2>1, <2>2
  <1>5. SubSeq(s, 1, at) = c
    BY <1>3, <1>4, FirstPart
  <1>6. PICK m, b, f, g : m = at + n /\ b = SubSeq(s, at + 1, at + n) /\ f = SubSeq(s, 1, m) /\ g = SubSeq(s, m + 1, Len(s))
    OBVIOUS
  <1>7. m \in Nat /\ m \in 0 .. Len(s) /\ Len(s) \in Nat /\ at \in 0 .. m /\ m - at = n
    BY <1>6
  <1>8. f \in Seq(Byte) /\ Len(f) = m /\ g \in Seq(Byte) /\ f \o g = s
    BY <1>6, <1>7, Cut
  <1>9. c \o b = f
    <2>1. 1 \in 1 .. Len(s) + 1 /\ at \in 1 - 1 .. Len(s) /\ m \in at .. Len(s)
      BY <1>7
    <2>2. SubSeq(s, 1, at) \o SubSeq(s, at + 1, m) = SubSeq(s, 1, m)
      BY <2>1, ConcatAdjacentSubSeq
    <2> QED
      BY <1>5, <1>6, <2>2
  <1>10. b \in Seq(Byte) /\ Len(b) = n
    <2>1. at + 1 \in 1 .. Len(s) + 1 /\ m \in at .. Len(s) /\ m - (at + 1) + 1 = n
      BY <1>7
    <2>2. \A i \in at + 1 .. m : i \in 1 .. Len(s)
      BY <1>7
    <2>3. b \in Seq(Byte)
      BY <1>6, <1>7, <2>2
    <2>4. Len(c \o b) = Len(c) + Len(b) /\ Len(b) \in Nat
      BY <2>3, ConcatProperties
    <2>5. at + Len(b) = m
      BY <1>4, <1>8, <1>9, <2>4
    <2>6. Len(b) = n
      BY <1>7, <2>4, <2>5
    <2> QED
      BY <2>3, <2>6
  <1>11. s = (c \o b) \o g
    BY <1>8, <1>9
  <1>12. Received(s, c, b, m)
    BY <1>4, <1>6, <1>8, <1>10, <1>11 DEF Received
  <1> QED
    BY <1>6, <1>10, <1>12

\* Another call does not change what was written before it.
LEMMA TakenAppend ==
    ASSUME NEW cs \in Seq(Calls), NEW x \in Calls, NEW k \in 0 .. Len(cs)
    PROVE  /\ Taken(Append(cs, x), k) = Taken(cs, k) /\ Len(Append(cs, x)) = Len(cs) + 1
           /\ \A i \in 1 .. Len(cs) : Append(cs, x)[i] = cs[i]
  <1>1. PICK u, m : u = Append(cs, x) /\ m = Len(cs)
    OBVIOUS
  <1>2. IsSeq(cs) /\ m \in Nat
    BY <1>1, ElementSeq
  <1>3. Len(u) = m + 1 /\ \A i \in 1 .. m : u[i] = cs[i]
    BY <1>1, <1>2, AppendAny
  <1>4. \A i \in 1 .. k : i \in 1 .. m
    BY <1>1, <1>2
  <1>5. \A i \in 1 .. k : u[i] = cs[i]
    BY <1>3, <1>4
  <1>6. Taken(u, k) = Taken(cs, k)
    BY <1>5 DEF Taken
  <1> QED
    BY <1>1, <1>3, <1>6

\* The writer goes on: what was read stays where it was.
LEMMA ReadsOn ==
    ASSUME NEW s, NEW cs, NEW fs, NEW fs2, NEW b \in Seq(Byte), NEW at, NEW err, NEW d, NEW dec,
           NEW u \in Seq(Byte), Reads(s, cs, fs, b, at, err, d, dec), Broken(fs) => Broken(fs2)
    PROVE  Reads(s \o u, cs, fs2, b, at, err, d, dec)
  <1>1. IsSeq(dec) /\ Correct(dec, cs, fs) /\ IsRd(d)
    BY DEF Reads
  <1>2. PICK c \in Seq(Byte) : Received(s, c, b, at) /\ (err = "none" => Place(cs, fs, Len(dec), c, d))
    BY DEF Reads
  <1>3. Received(s \o u, c, b, at)
    BY <1>2, ReceivedMore
  <1>4. Correct(dec, cs, fs2)
    BY <1>1 DEF Correct
  <1>5. err = "none" => Place(cs, fs2, Len(dec), c, d)
    BY <1>2 DEF Place, Lost
  <1> QED
    BY <1>1, <1>3, <1>4, <1>5, <1>2 DEF Reads

\* A call is made when nothing is damaged: the reader is where it was.
LEMMA ReadsCall ==
    ASSUME NEW s, NEW cs \in Seq(Calls), NEW fs, NEW fs2, NEW b \in Seq(Byte), NEW at, NEW err, NEW d, NEW dec,
           NEW u \in Seq(Byte), Reads(s, cs, fs, b, at, err, d, dec), ~Broken(fs), NEW x \in Calls
    PROVE  Reads(s \o u, Append(cs, x), fs2, b, at, err, d, dec)
  <1>1. IsSeq(dec) /\ Correct(dec, cs, fs) /\ IsRd(d)
    BY DEF Reads
  <1>2. PICK c \in Seq(Byte) : Received(s, c, b, at) /\ (err = "none" => Place(cs, fs, Len(dec), c, d))
    BY DEF Reads
  <1>3. Received(s \o u, c, b, at)
    BY <1>2, ReceivedMore
  <1>4. PICK t, m, k : t = Append(cs, x) /\ m = Len(cs) /\ k = Len(dec)
    OBVIOUS
  <1>5. m \in Nat /\ k \in Nat /\ DOMAIN dec = 1 .. k
    BY <1>1, <1>4 DEF IsSeq
  <1>6. Len(t) = m + 1 /\ \A i \in 1 .. m : t[i] = cs[i]
    <2>1. 0 \in 0 .. Len(cs)
      OBVIOUS
    <2> QED
      BY <1>4, <2>1, TakenAppend
  <1>7. \A i \in 0 .. m : Taken(t, i) = Taken(cs, i)
    BY <1>4, TakenAppend
  <1>8. Correct(dec, t, fs2)
    <2> SUFFICES ASSUME NEW n \in DOMAIN dec
                 PROVE  n <= Len(t) /\ dec[n] = Values(t[n])
      BY DEF Correct
    <2>1. n <= m /\ dec[n] = Values(cs[n])
      BY <1>1, <1>4 DEF Correct
    <2>2. n \in 1 .. m /\ n <= m + 1
      BY <1>5, <2>1
    <2> QED
      BY <1>6, <2>1, <2>2
  <1>9. ASSUME err = "none" PROVE Place(t, fs2, k, c, d)
    <2>1. Between(cs, k, c, d) \/ Middle(cs, k, c, d)
      BY <1>2, <1>4, <1>9 DEF Place, Lost
    <2>2. CASE Between(cs, k, c, d)
      <3>1. k <= m /\ d = NewPacket /\ c = Total(Taken(cs, k))
        BY <1>4, <2>2 DEF Between
      <3>2. k \in 0 .. m /\ k <= m + 1
        BY <1>5, <3>1
      <3>3. Between(t, k, c, d)
        BY <1>6, <1>7, <3>1, <3>2 DEF Between
      <3> QED
        BY <3>3 DEF Place
    <2>3. CASE Middle(cs, k, c, d)
      <3>1. k < m
        BY <1>4, <2>3 DEF Middle
      <3>2. k \in 0 .. m /\ k < m + 1 /\ k + 1 \in 1 .. m
        BY <1>5, <3>1
      <3>3. Taken(t, k) = Taken(cs, k) /\ t[k + 1] = cs[k + 1] /\ k < Len(t)
        BY <1>6, <1>7, <3>2
      <3>4. Middle(t, k, c, d)
        BY <2>3, <3>3 DEF Middle
      <3> QED
        BY <3>4 DEF Place
    <2> QED
      BY <2>1, <2>2, <2>3
  <1> QED
    BY <1>1, <1>2, <1>3, <1>4, <1>8, <1>9 DEF Reads

\* A packet that has begun to arrive is a call's.
LEMMA BetweenMiddle ==
    ASSUME NEW cs \in Seq(Calls), NEW k \in Nat, NEW c, NEW d, Between(cs, k, c, d), k # Len(cs)
    PROVE  Middle(cs, k, c, d)
  <1>1. k <= Len(cs) /\ d = NewPacket /\ c = Total(Taken(cs, k)) /\ Len(cs) \in Nat
    BY DEF Between
  <1>2. k < Len(cs) /\ k \in 0 .. Len(cs) /\ k + 1 \in 1 .. Len(cs)
    BY <1>1
  <1>3. PICK t, x, E : t = Total(Taken(cs, k)) /\ x = cs[k + 1] /\ E = Encoded(x)
    OBVIOUS
  <1>4. x \in Calls
    BY <1>2, <1>3
  <1>5. t \in Seq(Byte)
    BY <1>2, <1>3, TakenTotal
  <1>6. E \in Seq(Byte)
    BY <1>3, <1>4, EncodedType
  <1>7. Within(x, NewPacket.want, NewPacket.part, NewPacket.got, E)
    BY <1>3, <1>4, CallReadable, PacketBegins
  <1>8. <<>> \o E = E
    BY <1>6, ConcatEmptySeq
  <1>9. t \o <<>> = t
    BY <1>5, ConcatEmptySeq
  <1>10. <<>> \in Seq(Byte)
    OBVIOUS
  <1> QED
    BY <1>1, <1>2, <1>3, <1>6, <1>7, <1>8, <1>9, <1>10 DEF Middle

\* A new packet wants a number and has nothing of it.
LEMMA AtBeginning ==
    /\ NewPacket.want # <<>> /\ NewPacket.part = <<>> /\ IsRd(NewPacket)
    /\ Head(NewPacket.want).k = "packed"
    /\ ~Done(Head(NewPacket.want), NewPacket.part, NewPacket.got)
  <1>1. PICK a : a = Item("packed", 0)
    OBVIOUS
  <1>2. NewPacket = [want |-> <<a, a>>, part |-> <<>>, got |-> <<>>]
    BY <1>1 DEF NewPacket
  <1>3. NewPacket.want = <<a, a>> /\ NewPacket.part = <<>> /\ NewPacket.got = <<>>
    BY <1>2
  <1>4. NewPacket.want # <<>> /\ Head(NewPacket.want) = a
    BY <1>3
  <1>5. a.k = "packed"
    BY <1>1 DEF Item
  <1>6. IsRd(NewPacket)
    BY <1>2, <1>3 DEF IsRd
  <1> QED
    BY <1>3, <1>4, <1>5, <1>6 DEF Done

\* The next byte of a packet.
LEMMA MiddleByte ==
    ASSUME NEW cs \in Seq(Calls), NEW k \in Nat, NEW s \in Seq(Byte), NEW c \in Seq(Byte), NEW d,
           Middle(cs, k, c, d), Along(s, Total(Taken(cs, k + 1))),
           NEW b \in Seq(Byte), NEW at, b # <<>>, Received(s, c, b, at),
           d.want # <<>>, ~Done(Head(d.want), d.part, d.got)
    PROVE  Middle(cs, k, Append(c, Head(b)), [want |-> d.want, part |-> Append(d.part, Head(b)), got |-> d.got])
  <1>1. k < Len(cs) /\ k \in 0 .. Len(cs) /\ k + 1 \in 1 .. Len(cs)
    BY DEF Middle
  <1>2. PICK t, x : t = Total(Taken(cs, k)) /\ x = cs[k + 1]
    OBVIOUS
  <1>3. x \in Calls /\ t \in Seq(Byte) /\ Total(Taken(cs, k + 1)) = t \o Encoded(x)
    <2>1. x \in Calls
      BY <1>1, <1>2
    <2>2. t \in Seq(Byte)
      BY <1>1, <1>2, TakenTotal
    <2>3. Total(Taken(cs, k + 1)) = Total(Taken(cs, k)) \o Encoded(cs[k + 1])
      BY <1>1, TakenTotal
    <2> QED
      BY <1>2, <2>1, <2>2, <2>3
  <1>4. PICK Y, X \in Seq(Byte) : Y \o X = Encoded(x) /\ c = t \o Y /\ Within(x, d.want, d.part, d.got, X)
    BY <1>2 DEF Middle
  <1>5. X # <<>> /\ Within(x, d.want, Append(d.part, Head(X)), d.got, Tail(X))
    BY <1>3, <1>4, CallReadable, ByteWithin
  <1>6. Along(s, t \o (Y \o X)) /\ Received(s, t \o Y, b, at)
    BY <1>3, <1>4
  <1>7. Head(b) = Head(X)
    <2>1. t \in Seq(Byte) /\ X # <<>> /\ Along(s, t \o (Y \o X)) /\ Received(s, t \o Y, b, at)
      BY <1>3, <1>5, <1>6
    <2> QED
      BY <2>1, NextByte
  <1>8. PICK h, T, Y2 : h = Head(X) /\ T = Tail(X) /\ Y2 = Append(Y, h)
    OBVIOUS
  <1>9. h \in Byte /\ T \in Seq(Byte) /\ X = <<h>> \o T /\ <<h>> \in Seq(Byte)
    BY <1>5, <1>8
  <1>10. Y2 \in Seq(Byte) /\ Y2 = Y \o <<h>>
    BY <1>8, <1>9, AppendIsConcat
  <1>11. Y2 \o T = Encoded(x)
    <2>1. (Y \o <<h>>) \o T = Y \o (<<h>> \o T)
      BY <1>9, Regroup
    <2> QED
      BY <1>4, <1>9, <1>10, <2>1, Zenon
  <1>12. Append(c, h) = t \o Y2
    <2>1. Append(c, h) = c \o <<h>>
      BY <1>9, AppendIsConcat
    <2>2. PICK o : o = <<h>>
      OBVIOUS
    <2>3. t \in Seq(Byte) /\ o \in Seq(Byte)
      BY <1>3, <1>9, <2>2
    <2>4. \A p, q \in Seq(Byte) : (p \o Y) \o q = p \o (Y \o q)
      BY Regroup
    <2>5. (t \o Y) \o o = t \o (Y \o o)
      BY <2>3, <2>4
    <2> QED
      BY <1>4, <1>10, <2>1, <2>2, <2>5, Zenon
  <1>13. PICK d2 : d2 = [want |-> d.want, part |-> Append(d.part, h), got |-> d.got]
    OBVIOUS
  <1>14. d2.want = d.want /\ d2.part = Append(d.part, h) /\ d2.got = d.got
    BY <1>13
  <1>15. Within(x, d2.want, d2.part, d2.got, T)
    BY <1>5, <1>8, <1>14
  <1>16. Middle(cs, k, Append(c, h), d2)
    BY <1>1, <1>2, <1>9, <1>10, <1>11, <1>12, <1>15 DEF Middle
  <1> QED
    BY <1>7, <1>8, <1>13, <1>16

\* ReadByte.
LEMMA ReadsByte ==
    ASSUME NEW cs \in Seq(Calls), NEW s \in Seq(Byte), NEW fs, NEW b \in Seq(Byte), b # <<>>, NEW at, NEW d, NEW dec,
           Reads(s, cs, fs, b, at, "none", d, dec), d.want # <<>>, ~Done(Head(d.want), d.part, d.got),
           ~Lost(cs, fs, Len(dec)) /\ Len(dec) < Len(cs) => Along(s, Total(Taken(cs, Len(dec) + 1))),
           ~Broken(fs) => Begins(s, cs)
    PROVE  Reads(s, cs, fs, Tail(b), at, "none",
                 [want |-> d.want, part |-> Append(d.part, Head(b)), got |-> d.got], dec)
  <1>1. IsSeq(dec) /\ Correct(dec, cs, fs) /\ IsRd(d)
    BY DEF Reads
  <1>2. PICK c \in Seq(Byte) : Received(s, c, b, at) /\ Place(cs, fs, Len(dec), c, d)
    BY DEF Reads
  <1>3. PICK k, c2, d2 :
          k = Len(dec) /\ c2 = Append(c, Head(b)) /\ d2 = [want |-> d.want, part |-> Append(d.part, Head(b)), got |-> d.got]
    OBVIOUS
  <1>4. k \in Nat /\ Len(cs) \in Nat
    BY <1>1, <1>3 DEF IsSeq
  <1>5. c2 \in Seq(Byte) /\ Received(s, c2, Tail(b), at)
    BY <1>2, <1>3, ReceivedByte
  <1>6. IsRd(d2)
    BY <1>3 DEF IsRd
  <1>7. Place(cs, fs, k, c2, d2)
    <2>1. CASE Lost(cs, fs, k)
      BY <2>1 DEF Place
    <2>2. CASE ~Lost(cs, fs, k) /\ Between(cs, k, c, d) /\ k = Len(cs)
      <3>1. ~Broken(fs)
        <4>1. k >= Len(cs) - 1
          BY <1>4, <2>2
        <4> QED
          BY <2>2, <4>1 DEF Lost
      <3>2. PICK u \in Seq(Byte) : s \o u = Total(cs)
        BY <3>1 DEF Begins
      <3>3. IsSeq(cs)
        BY ElementSeq
      <3>4. c = Total(cs)
        <4>1. Taken(cs, Len(cs)) = cs
          BY <3>3, TakenAll
        <4> QED
          BY <2>2, <4>1 DEF Between
      <3>5. PICK a \in Seq(Byte) : s = (c \o b) \o a
        BY <1>2 DEF Received
      <3>6. s \o u = c
        BY <3>2, <3>4
      <3>7. b = <<>>
        BY <3>5, <3>6, NothingMore
      <3> QED
        BY <3>7
    <2>3. CASE ~Lost(cs, fs, k) /\ (Middle(cs, k, c, d) \/ (Between(cs, k, c, d) /\ k # Len(cs)))
      <3>1. Middle(cs, k, c, d)
        BY <1>4, <2>3, BetweenMiddle
      <3>2. k < Len(cs)
        BY <3>1 DEF Middle
      <3>3. Along(s, Total(Taken(cs, k + 1)))
        BY <1>3, <2>3, <3>2
      <3>4. Received(s, c, b, at)
        BY <1>2
      <3>5. Middle(cs, k, c2, d2)
        BY <1>3, <1>4, <3>1, <3>3, <3>4, MiddleByte
      <3> QED
        BY <3>5 DEF Place
    <2> QED
      BY <1>2, <1>3, <2>1, <2>2, <2>3 DEF Place
  <1> QED
    BY <1>1, <1>3, <1>5, <1>6, <1>7 DEF Reads

\* ReadLength and ReadField.
LEMMA ReadsItem ==
    ASSUME NEW cs \in Seq(Calls), NEW s, NEW fs, NEW b, NEW at, NEW d, NEW dec,
           Reads(s, cs, fs, b, at, "none", d, dec), d # NewPacket, NEW d2, IsRd(d2),
           \A x, X : Readable(x) /\ Within(x, d.want, d.part, d.got, X) => Within(x, d2.want, d2.part, d2.got, X)
    PROVE  Reads(s, cs, fs, b, at, "none", d2, dec)
  <1>1. IsSeq(dec) /\ Correct(dec, cs, fs)
    BY DEF Reads
  <1>2. PICK c \in Seq(Byte) : Received(s, c, b, at) /\ Place(cs, fs, Len(dec), c, d)
    BY DEF Reads
  <1>3. PICK k : k = Len(dec)
    OBVIOUS
  <1>4. Place(cs, fs, k, c, d2)
    <2>1. CASE Lost(cs, fs, k)
      BY <2>1 DEF Place
    <2>2. CASE Middle(cs, k, c, d)
      <3>1. k < Len(cs) /\ k \in Nat /\ Len(cs) \in Nat
        BY <1>1, <1>3, <2>2 DEF Middle, IsSeq
      <3>2. PICK x : x = cs[k + 1]
        OBVIOUS
      <3>3. x \in Calls
        <4>1. k + 1 \in 1 .. Len(cs)
          BY <3>1
        <4> QED
          BY <3>2, <4>1
      <3>4. PICK Y, X \in Seq(Byte) : Y \o X = Encoded(x) /\ c = Total(Taken(cs, k)) \o Y /\ Within(x, d.want, d.part, d.got, X)
        BY <2>2, <3>2 DEF Middle
      <3>5. Within(x, d2.want, d2.part, d2.got, X)
        BY <3>3, <3>4, CallReadable
      <3>6. Middle(cs, k, c, d2)
        BY <3>1, <3>2, <3>4, <3>5 DEF Middle
      <3> QED
        BY <3>6 DEF Place
    <2>3. ~Between(cs, k, c, d)
      BY DEF Between
    <2> QED
      BY <1>2, <1>3, <2>1, <2>2, <2>3 DEF Place
  <1> QED
    BY <1>1, <1>2, <1>3, <1>4 DEF Reads

\* ReadPacket: the values read are those of the call.
LEMMA ReadsPacket ==
    ASSUME NEW cs \in Seq(Calls), NEW s, NEW fs, NEW b, NEW at, NEW d, NEW dec,
           Reads(s, cs, fs, b, at, "none", d, dec), d.want = <<>>
    PROVE  Reads(s, cs, fs, b, at, "none", NewPacket, Append(dec, d.got))
  <1>1. IsSeq(dec) /\ Correct(dec, cs, fs)
    BY DEF Reads
  <1>2. PICK c \in Seq(Byte) : Received(s, c, b, at) /\ Place(cs, fs, Len(dec), c, d)
    BY DEF Reads
  <1>3. PICK k, m, t : k = Len(dec) /\ m = Len(cs) /\ t = Append(dec, d.got)
    OBVIOUS
  <1>4. k \in Nat /\ m \in Nat /\ DOMAIN dec = 1 .. k
    BY <1>1, <1>3 DEF IsSeq
  <1>5. IsSeq(t) /\ Len(t) = k + 1 /\ (\A i \in 1 .. k : t[i] = dec[i]) /\ t[k + 1] = d.got
    BY <1>1, <1>3, AppendAny
  <1>6. DOMAIN t = 1 .. k + 1
    BY <1>5 DEF IsSeq
  <1>7. ASSUME (k + 1 <= m /\ d.got = Values(cs[k + 1])) \/ (Broken(fs) /\ k + 1 >= m)
        PROVE  Correct(t, cs, fs)
    <2> SUFFICES ASSUME NEW n \in 1 .. k + 1
                 PROVE  (n <= m /\ t[n] = Values(cs[n])) \/ (Broken(fs) /\ n >= m)
      BY <1>3, <1>6 DEF Correct
    <2>1. CASE n = k + 1
      BY <1>5, <1>7, <2>1
    <2>2. CASE n # k + 1
      <3>1. n \in 1 .. k
        BY <1>4, <2>2
      <3>2. t[n] = dec[n]
        BY <1>5, <3>1
      <3>3. (n <= m /\ dec[n] = Values(cs[n])) \/ (Broken(fs) /\ n >= m)
        BY <1>1, <1>3, <1>4, <3>1 DEF Correct
      <3> QED
        BY <3>2, <3>3
    <2> QED
      BY <2>1, <2>2
  <1>8. ~Between(cs, k, c, d)
    BY AtBeginning DEF Between
  <1>9. CASE Lost(cs, fs, k)
    <2>1. Broken(fs) /\ k >= m - 1
      BY <1>3, <1>9 DEF Lost
    <2>2. k + 1 >= m /\ k + 1 >= m - 1
      BY <1>4, <2>1
    <2>3. Correct(t, cs, fs)
      BY <1>7, <2>1, <2>2
    <2>4. Lost(cs, fs, k + 1)
      BY <1>3, <2>1, <2>2 DEF Lost
    <2> QED
      BY <1>2, <1>3, <1>5, <2>3, <2>4, AtBeginning DEF Reads, Place
  <1>10. CASE Middle(cs, k, c, d)
    <2>1. k < m /\ k \in 0 .. m /\ k + 1 \in 1 .. m /\ k + 1 <= m
      BY <1>3, <1>4, <1>10 DEF Middle
    <2>2. PICK x : x = cs[k + 1]
      OBVIOUS
    <2>3. x \in Calls
      BY <1>3, <2>1, <2>2
    <2>4. PICK Y, X \in Seq(Byte) : Y \o X = Encoded(x) /\ c = Total(Taken(cs, k)) \o Y /\ Within(x, d.want, d.part, d.got, X)
      BY <1>10, <2>2 DEF Middle
    <2>5. d.got = Values(x) /\ X = <<>>
      BY <2>3, <2>4, CallReadable, PacketEnds
    <2>6. Y = Encoded(x)
      <3>1. Y \o <<>> = Y
        BY <2>4, ConcatEmptySeq
      <3> QED
        BY <2>4, <2>5, <3>1
    <2>7. Total(Taken(cs, k + 1)) = Total(Taken(cs, k)) \o Encoded(cs[k + 1])
      BY <1>3, <2>1, TakenTotal
    <2>8. c = Total(Taken(cs, k + 1))
      BY <2>2, <2>4, <2>6, <2>7
    <2>9. Between(cs, k + 1, c, NewPacket)
      BY <1>3, <2>1, <2>8 DEF Between
    <2>10. Correct(t, cs, fs)
      BY <1>7, <2>1, <2>2, <2>5
    <2> QED
      BY <1>2, <1>3, <1>5, <2>9, <2>10, AtBeginning DEF Reads, Place
  <1> QED
    BY <1>2, <1>3, <1>8, <1>9, <1>10 DEF Place

\* Fill, and the errors of the reader.
LEMMA ReadsFill ==
    ASSUME NEW cs, NEW s \in Seq(Byte), NEW fs, NEW at \in Nat, NEW d, NEW dec,
           Reads(s, cs, fs, <<>>, at, "none", d, dec), NEW n \in Nat \ {0}, at + n <= Len(s)
    PROVE  Reads(s, cs, fs, SubSeq(s, at + 1, at + n), at + n, "none", d, dec)
  <1>1. IsSeq(dec) /\ Correct(dec, cs, fs) /\ IsRd(d)
    BY DEF Reads
  <1>2. PICK c \in Seq(Byte) : Received(s, c, <<>>, at) /\ Place(cs, fs, Len(dec), c, d)
    BY DEF Reads
  <1>3. Received(s, c, SubSeq(s, at + 1, at + n), at + n)
    BY <1>2, ReceivedFill
  <1> QED
    BY <1>1, <1>2, <1>3 DEF Reads

\* A reader with an error has read what it has read.
LEMMA ReadsError ==
    ASSUME NEW cs, NEW s, NEW fs, NEW b, NEW at, NEW d, NEW dec, NEW err,
           Reads(s, cs, fs, b, at, err, d, dec), NEW err2, err2 # "none"
    PROVE  Reads(s, cs, fs, b, at, err2, d, dec)
  BY DEF Reads

\* However far the reader has got: it has read the packets that were written,
\* and stands at the byte of the stream where the next value of a call goes on.
ReadInv == Reads(stream, calls, faults, r.buf, r.at, r.error, rd, decoded)

\* Nothing was called and nothing was read.
LEMMA ReadInit ==
    Init => ReadInv
  <1> SUFFICES ASSUME Init PROVE ReadInv
    OBVIOUS
  <1>1. /\ stream = <<>> /\ calls = <<>> /\ faults = {} /\ rd = NewPacket /\ decoded = <<>>
        /\ r.buf = <<>> /\ r.at = 0 /\ r.error = "none"
    BY DEF Init, ReaderAlloc
  <1>2. PICK e : e = <<>>
    OBVIOUS
  <1>3. Len(e) = 0 /\ e \o e = e /\ e \in Seq(Byte) /\ e \in Seq(Calls) /\ DOMAIN e = {}
    BY <1>2
  <1>4. IsSeq(e)
    BY <1>3, ElementSeq
  <1>5. Correct(e, e, {})
    BY <1>3 DEF Correct
  <1>6. Received(e, e, e, 0)
    <2>1. e = (e \o e) \o e /\ Len(e) + Len(e) = 0
      BY <1>3
    <2> QED
      BY <1>3, <2>1 DEF Received
  <1>7. Between(e, 0, e, NewPacket)
    <2>1. Taken(e, 0) = e
      BY <1>2, <1>4, TakenAll
    <2>2. Total(e) = e
      BY <1>2, <1>3, TotalFacts
    <2> QED
      BY <1>3, <2>1, <2>2 DEF Between
  <1>8. Reads(e, e, {}, e, 0, "none", NewPacket, e)
    BY <1>3, <1>4, <1>5, <1>6, <1>7, AtBeginning DEF Reads, Place
  <1> QED
    BY <1>1, <1>2, <1>8 DEF ReadInv

\* A call is made only while nothing is damaged, and damage stays.
LEMMA CallsGrow ==
    ASSUME BufferInv, OrderInv, [Next]_vars
    PROVE  \/ calls' = calls /\ (Broken(faults) => Broken(faults'))
           \/ ~Broken(faults) /\ \E c \in Calls : calls' = Append(calls, c)
  <1>1. ASSUME NEW c \in Calls, Start(c)
        PROVE  ~Broken(faults) /\ calls' = Append(calls, c)
    <2>1. calls' = Append(calls, c)
      BY <1>1 DEF Start
    <2>2. w.error = "none" \/ kind = "dyn"
      BY <1>1 DEF Start, FdStart
    <2>3. w.error = "none"
      BY <2>2 DEF OrderInv, Order
    <2>4. ~Broken(faults)
      BY <2>3 DEF OrderInv, Order
    <2> QED
      BY <2>1, <2>4 DEF Broken
  <1>2. ASSUME calls' = calls, faults \subseteq faults'
        PROVE  Broken(faults) => Broken(faults')
    BY <1>2 DEF Broken
  <1>3. ASSUME NEW c \in Calls, Refused(c)
        PROVE  calls' = calls /\ faults \subseteq faults'
    BY <1>3 DEF Refused
  <1>4. ASSUME NEW k, NEW fault, FdFlush(k, fault) PROVE faults \subseteq faults'
    BY <1>4 DEF FdFlush
  <1>5. ASSUME WriterProceeds PROVE calls' = calls /\ faults \subseteq faults'
    <2>1. CASE Return
      BY <2>1 DEF Return
    <2>2. CASE Store
      BY <2>2 DEF Store
    <2>3. CASE Flush
      <3>1. calls' = calls /\ ((\E k \in 0 .. Len(w.data) : FdFlush(k, FlushFault)) \/ DynFlush)
        BY <2>3 DEF Flush
      <3> QED
        BY <3>1, <1>4 DEF DynFlush
    <2>4. CASE End
      <3>1. calls' = calls /\ ((\E k \in 0 .. Len(w.data) : FdFlush(k, "write")) \/ DynEnd)
        BY <2>4 DEF End
      <3> QED
        BY <3>1, <1>4 DEF DynEnd
    <2>5. CASE Take
      BY <2>5 DEF Take
    <2> QED
      BY <1>5, <2>1, <2>2, <2>3, <2>4, <2>5 DEF WriterProceeds
  <1>6. ASSUME UNCHANGED writerVars PROVE calls' = calls /\ faults \subseteq faults'
    BY <1>6 DEF writerVars
  <1>7. CASE CallStep
    BY <1>1, <1>2, <1>3, <1>7 DEF CallStep
  <1>8. CASE WriterProceeds
    BY <1>2, <1>5, <1>8
  <1>9. CASE UNCHANGED writerVars
    BY <1>2, <1>6, <1>9
  <1>10. CASE UNCHANGED vars
    <2>1. UNCHANGED writerVars
      BY <1>10 DEF vars, writerVars
    <2> QED
      BY <1>2, <1>6, <2>1
  <1> QED
    BY <1>7, <1>8, <1>9, <1>10 DEF Next, ReaderProceeds

\* The writer's steps.
LEMMA ReadWriter ==
    ASSUME BufferInv, OrderInv, ReaderTypes, ReadInv, [Next]_vars, UNCHANGED readerVars
    PROVE  ReadInv'
  <1>1. r' = r /\ rd' = rd /\ decoded' = decoded
    BY DEF readerVars
  <1>2. Types
    BY DEF BufferInv
  <1>3. PICK u \in Seq(Byte) : stream' = stream \o u
    BY <1>2, StreamGrows
  <1>4. calls \in Seq(Calls)
    BY <1>2 DEF Types
  <1>5. PICK s, cs, fs, b, at, err, d, dec, s2, cs2, fs2 :
          /\ s = stream /\ cs = calls /\ fs = faults /\ b = r.buf /\ at = r.at /\ err = r.error
          /\ d = rd /\ dec = decoded /\ s2 = stream' /\ cs2 = calls' /\ fs2 = faults'
    OBVIOUS
  <1>6. Reads(s, cs, fs, b, at, err, d, dec)
    BY <1>5 DEF ReadInv
  <1>7. b \in Seq(Byte) /\ cs \in Seq(Calls)
    BY <1>4, <1>5 DEF ReaderTypes, ReaderType
  <1>8. Reads(s2, cs2, fs2, b, at, err, d, dec)
    <2>1. CASE calls' = calls /\ (Broken(faults) => Broken(faults'))
      <3>1. cs2 = cs /\ (Broken(fs) => Broken(fs2)) /\ s2 = s \o u
        BY <1>3, <1>5, <2>1
      <3> QED
        BY <1>6, <1>7, <3>1, ReadsOn
    <2>2. CASE ~Broken(faults) /\ \E c \in Calls : calls' = Append(calls, c)
      <3>1. PICK c \in Calls : cs2 = Append(cs, c)
        BY <1>5, <2>2
      <3>2. ~Broken(fs) /\ s2 = s \o u
        BY <1>3, <1>5, <2>2
      <3> QED
        BY <1>6, <1>7, <3>1, <3>2, ReadsCall
    <2> QED
      BY <2>1, <2>2, CallsGrow
  <1>9. ReadInv' = Reads(s2, cs2, fs2, b, at, err, d, dec)
    BY <1>1, <1>5 DEF ReadInv
  <1> QED
    BY <1>8, <1>9

\* What holds whenever the reader makes a step.
LEMMA ReaderFacts ==
    ASSUME BufferInv, OrderInv, ReaderTypes, ReadInv
    PROVE  /\ stream \in Seq(Byte) /\ calls \in Seq(Calls)
           /\ r.buf \in Seq(Byte) /\ r.at \in Nat /\ r = [buf |-> r.buf, at |-> r.at, error |-> r.error]
           /\ rd = [want |-> rd.want, part |-> rd.part, got |-> rd.got]
           /\ ~Broken(faults) => Begins(stream, calls)
           /\ ~Lost(calls, faults, Len(decoded)) /\ Len(decoded) < Len(calls)
                => Along(stream, Total(Taken(calls, Len(decoded) + 1)))
  <1>1. stream \in Seq(Byte) /\ calls \in Seq(Calls)
    BY DEF BufferInv, Types
  <1>2. r.buf \in Seq(Byte) /\ r.at \in Nat /\ r = [buf |-> r.buf, at |-> r.at, error |-> r.error]
    BY DEF ReaderTypes, ReaderType
  <1>3. rd = [want |-> rd.want, part |-> rd.part, got |-> rd.got] /\ Len(decoded) \in Nat
    <2>1. IsSeq(decoded) /\ IsRd(rd)
      BY DEF ReadInv, Reads
    <2> QED
      BY <2>1 DEF IsRd, IsSeq
  <1>4. PICK k, e, d, ph, l, s, cs, fs, j :
          /\ k = kind /\ e = w.error /\ d = w.data /\ ph = phase /\ l = left
          /\ s = stream /\ cs = calls /\ fs = faults /\ j = Len(decoded)
    OBVIOUS
  <1>5. d \in Seq(Byte) /\ l \in Seq(FunctionType) /\ s \in Seq(Byte) /\ cs \in Seq(Calls) /\ j \in Nat
    BY <1>1, <1>3, <1>4, Values1 DEF BufferInv
  <1>6. Order(k, e, d, ph, l, s, cs, fs)
    BY <1>4 DEF OrderInv
  <1>7. ~Broken(fs) => Begins(s, cs)
    BY <1>5, <1>6, StreamBegins
  <1>8. ~Lost(cs, fs, j) /\ j < Len(cs) => Along(s, Total(Taken(cs, j + 1)))
    BY <1>5, <1>6, StreamAlong DEF Lost
  <1> QED
    BY <1>1, <1>2, <1>3, <1>4, <1>7, <1>8

\* The conditions of the model's steps, of what is wanted and what there is.
LEMMA ItemIs ==
    /\ Item1 = Head(rd.want)
    /\ Complete <=> Done(Head(rd.want), rd.part, rd.got)
    /\ Value = Read(Head(rd.want), rd.part)
  BY DEF Item1, Complete, Done, Value, Read

\* A step of the reader changes nothing of the writer.
LEMMA ReaderSide ==
    ASSUME UNCHANGED writerVars, NEW b, NEW at, NEW err, NEW d, NEW dec,
           r' = [buf |-> b, at |-> at, error |-> err], rd' = d, decoded' = dec,
           Reads(stream, calls, faults, b, at, err, d, dec)
    PROVE  ReadInv'
  BY DEF ReadInv, writerVars

\* A byte is taken from the buffer.
LEMMA ByteRead ==
    ASSUME BufferInv, OrderInv, ReaderTypes, ReadInv, ReadByte, UNCHANGED writerVars
    PROVE  ReadInv'
  <1>1. PICK s, cs, fs, b, at, d, dec :
          /\ s = stream /\ cs = calls /\ fs = faults /\ b = r.buf /\ at = r.at /\ d = rd /\ dec = decoded
    OBVIOUS
  <1>2. /\ s \in Seq(Byte) /\ cs \in Seq(Calls) /\ b \in Seq(Byte)
        /\ ~Broken(fs) => Begins(s, cs)
        /\ ~Lost(cs, fs, Len(dec)) /\ Len(dec) < Len(cs) => Along(s, Total(Taken(cs, Len(dec) + 1)))
    BY <1>1, ReaderFacts
  <1>3. r.error = "none" /\ b # <<>> /\ d.want # <<>> /\ ~Done(Head(d.want), d.part, d.got)
    BY <1>1, ItemIs DEF ReadByte, Running
  <1>4. Reads(s, cs, fs, b, at, "none", d, dec)
    BY <1>1, <1>3 DEF ReadInv
  <1>5. Reads(s, cs, fs, Tail(b), at, "none",
              [want |-> d.want, part |-> Append(d.part, Head(b)), got |-> d.got], dec)
    BY <1>2, <1>3, <1>4, ReadsByte
  <1>6. /\ r' = [buf |-> Tail(b), at |-> at, error |-> "none"]
        /\ rd' = [want |-> d.want, part |-> Append(d.part, Head(b)), got |-> d.got]
        /\ decoded' = dec
    <2>1. r' = [r EXCEPT !.buf = Tail(@)] /\ rd' = [rd EXCEPT !.part = Append(@, Head(r.buf))] /\ decoded' = decoded
      BY DEF ReadByte
    <2>2. PICK t, p : t = Tail(b) /\ p = Append(d.part, Head(b))
      OBVIOUS
    <2>3. r = [buf |-> b, at |-> at, error |-> "none"] /\ r' = [r EXCEPT !.buf = t]
      BY <1>1, <1>3, <2>1, <2>2, ReaderFacts
    <2>4. d = [want |-> d.want, part |-> d.part, got |-> d.got] /\ rd' = [d EXCEPT !.part = p]
      BY <1>1, <2>1, <2>2, ReaderFacts
    <2>5. r' = [buf |-> t, at |-> at, error |-> "none"]
      BY <2>3
    <2>6. rd' = [want |-> d.want, part |-> p, got |-> d.got]
      BY <2>4
    <2> QED
      BY <1>1, <2>1, <2>2, <2>5, <2>6
  <1> QED
    BY <1>1, <1>5, <1>6, ReaderSide

\* The string's bytes are wanted next.
LEMMA LengthRead ==
    ASSUME BufferInv, OrderInv, ReaderTypes, ReadInv, ReadLength, UNCHANGED writerVars
    PROVE  ReadInv'
  <1>1. PICK s, cs, fs, b, at, d, dec, d2 :
          /\ s = stream /\ cs = calls /\ fs = faults /\ b = r.buf /\ at = r.at /\ d = rd /\ dec = decoded
          /\ d2 = rd'
    OBVIOUS
  <1>2. /\ cs \in Seq(Calls) /\ d = [want |-> d.want, part |-> d.part, got |-> d.got]
        /\ r = [buf |-> b, at |-> at, error |-> r.error]
    BY <1>1, ReaderFacts
  <1>3. r.error = "none" /\ d.want # <<>> /\ Done(Head(d.want), d.part, d.got) /\ Head(d.want).k = "string"
    BY <1>1, ItemIs DEF ReadLength, Running
  <1>4. Reads(s, cs, fs, b, at, "none", d, dec)
    BY <1>1, <1>3 DEF ReadInv
  <1>5. /\ d2.want = <<Item("chars", Read(Head(d.want), d.part))>> \o Tail(d.want)
        /\ d2.part = <<>> /\ d2.got = d.got /\ IsRd(d2)
    <2>1. rd' = [rd EXCEPT !.want = <<Item("chars", Value)>> \o Tail(@), !.part = <<>>]
      BY DEF ReadLength
    <2>2. PICK x : x = <<Item("chars", Read(Head(d.want), d.part))>> \o Tail(d.want)
      OBVIOUS
    <2>3. d2 = [want |-> x, part |-> <<>>, got |-> d.got]
      BY <1>1, <1>2, <2>1, <2>2, ItemIs
    <2> QED
      BY <2>2, <2>3 DEF IsRd
  <1>6. d # NewPacket
    BY <1>3, AtBeginning
  <1>7. \A x, X : Readable(x) /\ Within(x, d.want, d.part, d.got, X) => Within(x, d2.want, d2.part, d2.got, X)
    BY <1>3, <1>5, LengthWithin
  <1>8. Reads(s, cs, fs, b, at, "none", d2, dec)
    BY <1>2, <1>4, <1>5, <1>6, <1>7, ReadsItem
  <1>9. r' = [buf |-> b, at |-> at, error |-> "none"] /\ decoded' = dec
    BY <1>1, <1>2, <1>3 DEF ReadLength
  <1> QED
    BY <1>1, <1>8, <1>9, ReaderSide

\* A value has been read, of the field of the call the reader is in.
LEMMA FieldRead ==
    ASSUME BufferInv, OrderInv, ReaderTypes, ReadInv, ReadField, UNCHANGED writerVars
    PROVE  ReadInv'
  <1>1. PICK s, cs, fs, b, at, d, dec, d2, more :
          /\ s = stream /\ cs = calls /\ fs = faults /\ b = r.buf /\ at = r.at /\ d = rd /\ dec = decoded
          /\ d2 = rd' /\ more = Append(rd.got, Value)
    OBVIOUS
  <1>2. /\ cs \in Seq(Calls) /\ r = [buf |-> b, at |-> at, error |-> r.error]
    BY <1>1, ReaderFacts
  <1>3. r.error = "none" /\ d.want # <<>> /\ Done(Head(d.want), d.part, d.got) /\ Head(d.want).k # "string"
    BY <1>1, ItemIs DEF ReadField, Running
  <1>4. Reads(s, cs, fs, b, at, "none", d, dec)
    BY <1>1, <1>3 DEF ReadInv
  <1>5. d # NewPacket
    BY <1>3, AtBeginning
  <1>6. more = Append(d.got, Read(Head(d.want), d.part))
    BY <1>1, ItemIs
  <1>7. decoded' = dec
    BY <1>1 DEF ReadField
  <1>8. CASE Len(more) = 2 /\ more[1] >= LABCOMM_USER /\ more[1] \notin DOMAIN Layout
    <2>1. r' = [r EXCEPT !.error = "ENOENT"] /\ rd' = rd
      BY <1>1, <1>8 DEF ReadField
    <2>2. r' = [buf |-> b, at |-> at, error |-> "ENOENT"] /\ rd' = d
      BY <1>1, <1>2, <2>1
    <2>3. Reads(s, cs, fs, b, at, "ENOENT", d, dec)
      BY <1>4, ReadsError
    <2> QED
      BY <1>1, <1>7, <2>2, <2>3, ReaderSide
  <1>9. CASE ~(Len(more) = 2 /\ more[1] >= LABCOMM_USER /\ more[1] \notin DOMAIN Layout)
    <2>1. /\ rd' = [want |-> IF Len(more) = 2 THEN BodyItems(more[1], more[2]) ELSE Tail(rd.want),
                    part |-> <<>>, got |-> more]
          /\ r' = r
      BY <1>1, <1>9 DEF ReadField
    <2>2. PICK x : x = IF Len(more) = 2 THEN BodyItems(more[1], more[2]) ELSE Tail(d.want)
      OBVIOUS
    <2>3. d2 = [want |-> x, part |-> <<>>, got |-> more]
      BY <1>1, <2>1, <2>2
    <2>4. d2.want = x /\ d2.part = <<>> /\ d2.got = more /\ IsRd(d2)
      BY <2>3 DEF IsRd
    <2>5. Len(more) = 2 => (~(more[1] >= LABCOMM_USER) \/ more[1] \in DOMAIN Layout)
      BY <1>9
    <2>6. \A y, X : Readable(y) /\ Within(y, d.want, d.part, d.got, X) => Within(y, d2.want, d2.part, d2.got, X)
      <3> SUFFICES ASSUME NEW y, NEW X, Readable(y), Within(y, d.want, d.part, d.got, X)
                   PROVE  Within(y, x, <<>>, more, X)
        BY <2>4
      <3>1. Within(y, IF Len(more) = 2 THEN BodyItems(more[1], more[2]) ELSE Tail(d.want), <<>>, more, X)
        BY <1>3, <1>6, <2>5, FieldWithin
      <3> QED
        BY <2>2, <3>1
    <2>7. Reads(s, cs, fs, b, at, "none", d2, dec)
      BY <1>2, <1>4, <1>5, <2>4, <2>6, ReadsItem
    <2>8. r' = [buf |-> b, at |-> at, error |-> "none"]
      BY <1>2, <1>3, <2>1
    <2> QED
      BY <1>1, <1>7, <2>7, <2>8, ReaderSide
  <1> QED
    BY <1>8, <1>9

\* A packet is complete.
LEMMA PacketRead ==
    ASSUME BufferInv, OrderInv, ReaderTypes, ReadInv, ReadPacket, UNCHANGED writerVars
    PROVE  ReadInv'
  <1>1. PICK s, cs, fs, b, at, d, dec :
          /\ s = stream /\ cs = calls /\ fs = faults /\ b = r.buf /\ at = r.at /\ d = rd /\ dec = decoded
    OBVIOUS
  <1>2. /\ cs \in Seq(Calls) /\ r = [buf |-> b, at |-> at, error |-> r.error]
    BY <1>1, ReaderFacts
  <1>3. r.error = "none" /\ d.want = <<>>
    BY <1>1 DEF ReadPacket, Running
  <1>4. Reads(s, cs, fs, b, at, "none", NewPacket, Append(dec, d.got))
    BY <1>1, <1>2, <1>3, ReadsPacket DEF ReadInv
  <1>5. r' = [buf |-> b, at |-> at, error |-> "none"] /\ rd' = NewPacket /\ decoded' = Append(dec, d.got)
    BY <1>1, <1>2, <1>3 DEF ReadPacket
  <1> QED
    BY <1>1, <1>4, <1>5, ReaderSide

\* The buffer is filled with the bytes that follow.
LEMMA Filled ==
    ASSUME BufferInv, OrderInv, ReaderTypes, ReadInv, Fill, UNCHANGED writerVars
    PROVE  ReadInv'
  <1>1. PICK s, cs, fs, at, d, dec :
          /\ s = stream /\ cs = calls /\ fs = faults /\ at = r.at /\ d = rd /\ dec = decoded
    OBVIOUS
  <1>2. s \in Seq(Byte) /\ at \in Nat /\ r = [buf |-> r.buf, at |-> at, error |-> r.error]
    BY <1>1, ReaderFacts
  <1>3. r.error = "none" /\ r.buf = <<>> /\ rd' = d /\ decoded' = dec
    BY <1>1 DEF Fill, Running
  <1>4. PICK n \in 1 .. ReadSize :
          /\ at + n <= Len(s)
          /\ r' = [r EXCEPT !.buf = SubSeq(s, at + 1, at + n), !.at = @ + n]
    BY <1>1 DEF Fill
  <1>5. n \in Nat \ {0}
    BY Bases
  <1>6. Reads(s, cs, fs, SubSeq(s, at + 1, at + n), at + n, "none", d, dec)
    BY <1>1, <1>2, <1>3, <1>4, <1>5, ReadsFill DEF ReadInv
  <1>7. r' = [buf |-> SubSeq(s, at + 1, at + n), at |-> at + n, error |-> "none"]
    <2>1. PICK f, m : f = SubSeq(s, at + 1, at + n) /\ m = at + n
      OBVIOUS
    <2>2. r.at = at
      BY <1>1
    <2>3. r' = [r EXCEPT !.buf = f, !.at = m]
      BY <1>4, <2>1, <2>2, Zenon
    <2>4. r' = [buf |-> f, at |-> m, error |-> "none"]
      BY <1>2, <1>3, <2>3
    <2> QED
      BY <2>1, <2>4
  <1> QED
    BY <1>1, <1>3, <1>6, <1>7, ReaderSide

\* Reading fails.
LEMMA FillFailed ==
    ASSUME BufferInv, OrderInv, ReaderTypes, ReadInv, FillFails, UNCHANGED writerVars
    PROVE  ReadInv'
  <1>1. r = [buf |-> r.buf, at |-> r.at, error |-> r.error]
    BY ReaderFacts
  <1>2. r' = [buf |-> r.buf, at |-> r.at, error |-> "EPIPE"] /\ rd' = rd /\ decoded' = decoded
    BY <1>1 DEF FillFails
  <1>3. Reads(stream, calls, faults, r.buf, r.at, "EPIPE", rd, decoded)
    BY ReadsError DEF ReadInv
  <1> QED
    BY <1>2, <1>3, ReaderSide

\* Every step keeps the reader in its place.
LEMMA ReadStep ==
    ASSUME BufferInv, OrderInv, ReaderTypes, ReadInv, [Next]_vars
    PROVE  ReadInv'
  <1>1. CASE UNCHANGED readerVars
    BY <1>1, ReadWriter
  <1>2. CASE ReaderProceeds
    BY <1>2, ByteRead, LengthRead, FieldRead, PacketRead, Filled DEF ReaderProceeds
  <1>3. CASE FillFails /\ UNCHANGED writerVars
    BY <1>3, FillFailed
  <1>4. UNCHANGED vars => UNCHANGED readerVars
    BY DEF vars, readerVars
  <1> QED
    BY <1>1, <1>2, <1>3, <1>4 DEF Next, CallStep, WriterProceeds

\* However the stream is cut into pieces, by the write() and read() of either
\* end and whatever the sizes of the buffers, the reader finds the packets
\* that were written, in their order and with their values, up to a write that
\* fails in a call that goes on, a declaration or a sample at the length of one
\* of its arrays.
THEOREM InStepCorrect ==
    Spec => []InStep
  <1> DEFINE Inv == BufferInv /\ OrderInv /\ ReaderTypes /\ ReadInv
  <1>1. Init => Inv
    BY WriterInit, OrderInit, ReaderInit, ReadInit
  <1>2. Inv /\ [Next]_vars => Inv'
    <2> SUFFICES ASSUME BufferInv, OrderInv, ReaderTypes, ReadInv, [Next]_vars
                 PROVE  BufferInv' /\ OrderInv' /\ ReaderTypes' /\ ReadInv'
      OBVIOUS
    <2>1. Types
      BY DEF BufferInv
    <2> QED
      BY <2>1, BufferStep, OrderStep, ReaderStep, ReadStep
  <1>3. Inv => InStep
    <2> SUFFICES ASSUME ReadInv PROVE InStep
      OBVIOUS
    <2>1. Correct(decoded, calls, faults)
      BY DEF ReadInv, Reads
    <2>2. Damaged <=> Broken(faults)
      BY DEF Damaged, Broken
    <2> QED
      BY <2>1, <2>2 DEF Correct, InStep
  <1> QED
    BY <1>1, <1>2, <1>3, PTL DEF Spec
=============================================================================

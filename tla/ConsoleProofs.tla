--------------------------- MODULE ConsoleProofs ----------------------------
(***************************************************************************)
(* Proofs about module Console, for every number of tasks, every display   *)
(* mode and every character height.                                        *)
(*                                                                         *)
(*  - However the tasks mix up the two words of the cursor, nothing is     *)
(*    drawn on the bottom row or behind the mapped pages.                  *)
(*  - printf prints what its format and its arguments say, each number in  *)
(*    full, and builds none that is too long for its array.                *)
(*  - As long as no two calls of putc overlap, the console implements the  *)
(*    terminal of module Terminal.                                         *)
(***************************************************************************)
EXTENDS Console, TLAPS, WellFoundedInduction, SequenceTheorems, FiniteSetTheorems

----------------------------------------------------------------------------
(* Induction. A set of numbers takes the place of the predicate the        *)
(* library's theorems ask for.                                             *)

\* A set of numbers that is not empty has a least member.
LEMMA Least ==
  ASSUME NEW T, T \subseteq Nat, T # {}
  PROVE  \E x \in T : \A y \in T : x <= y
  <1> DEFINE R == OpToRel(<, Nat)
  <1>1. \E x \in T : \A y \in T : ~(<<y, x>> \in R)
    <2>1. IsWellFoundedOn(R, Nat)
      BY NatLessThanWellFounded
    <2> HIDE DEF R
    <2> QED BY <2>1, WFMin
  <1>2. \A x, y \in Nat : y < x => <<y, x>> \in R
    BY DEF OpToRel
  <1>3. PICK x \in T : \A y \in T : ~(<<y, x>> \in R)
    BY <1>1
  <1>4. \A y \in T : ~(y < x)
    <2> HIDE DEF R
    <2> QED BY <1>2, <1>3
  <1>5. \A y \in T : x <= y
    <2> SUFFICES ASSUME NEW y \in T PROVE x <= y
      OBVIOUS
    <2>1. ~(y < x) /\ x \in Nat /\ y \in Nat
      BY <1>4
    <2> QED BY <2>1
  <1> QED BY <1>5

\* Induction: a set that holds 0 and with every number the next holds them all.
LEMMA AllNumbers ==
  ASSUME NEW T, 0 \in T, \A n \in Nat : n \in T => n + 1 \in T
  PROVE  Nat \subseteq T
  <1> SUFFICES ASSUME Nat \ T # {} PROVE FALSE
    OBVIOUS
  <1>1. PICK x \in Nat \ T : \A y \in Nat \ T : x <= y
    <2> DEFINE U == Nat \ T
    <2> HIDE DEF U
    <2>1. U \subseteq Nat /\ U # {}
      BY DEF U
    <2>2. \E x \in U : \A y \in U : x <= y
      BY <2>1, Least
    <2> QED BY <2>2 DEF U
  <1>2. x # 0 /\ x - 1 \in Nat /\ (x - 1) + 1 = x
    OBVIOUS
  <1>3. x - 1 \in T
    BY <1>1, <1>2
  <1> QED BY <1>2, <1>3

\* f starts with a and goes on as g says.
Follows(f, A, a, g) ==
    f \in [Nat -> A] /\ f[0] = a /\ \A n \in Nat : f[n + 1] = g[<<n, f[n]>>]

\* Such a function exists: what a recursive definition needs to mean anything.
LEMMA NatRecursion ==
  ASSUME NEW A, NEW a \in A, NEW g \in [Nat \X A -> A]
  PROVE  \E f : Follows(f, A, a, g)
  <1> DEFINE Part(f, n) == /\ f \in [0 .. n -> A] /\ f[0] = a
                           /\ \A k \in 0 .. n - 1 : f[k + 1] = g[<<k, f[k]>>]
             T == {n \in Nat : \E f : Part(f, n)}
  <1>1. Nat \subseteq T
    <2>1. 0 \in T
      <3>1. Part([k \in 0 .. 0 |-> a], 0)
        OBVIOUS
      <3> QED BY <3>1
    <2>2. ASSUME NEW n \in Nat, n \in T PROVE n + 1 \in T
      <3>1. PICK f : Part(f, n)
        BY <2>2
      <3> DEFINE h == [k \in 0 .. n + 1 |-> IF k <= n THEN f[k] ELSE g[<<n, f[n]>>]]
      <3>2. g[<<n, f[n]>>] \in A
        BY <3>1
      <3>3. h \in [0 .. n + 1 -> A] /\ h[0] = a
        BY <3>1, <3>2
      <3>4. ASSUME NEW k \in 0 .. n PROVE h[k + 1] = g[<<k, h[k]>>]
        <4>1. CASE k = n
          BY <4>1
        <4>2. CASE k # n
          <5>1. k \in 0 .. n - 1 /\ k + 1 \in 0 .. n
            BY <4>2
          <5>2. h[k + 1] = f[k + 1] /\ h[k] = f[k]
            BY <5>1
          <5> QED BY <5>1, <5>2, <3>1
        <4> QED BY <4>1, <4>2
      <3>5. (n + 1) - 1 = n
        OBVIOUS
      <3> HIDE DEF h
      <3>6. Part(h, n + 1)
        BY <3>3, <3>4, <3>5
      <3> QED BY <3>6
    <2> HIDE DEF T
    <2> QED BY <2>1, <2>2, AllNumbers
  <1>2. ASSUME NEW m \in Nat, NEW n \in Nat, NEW f, NEW h, Part(f, m), Part(h, n)
        PROVE  \A k \in Nat : k <= m /\ k <= n => f[k] = h[k]
    <2> DEFINE U == {k \in Nat : k <= m /\ k <= n => f[k] = h[k]}
    <2>1. 0 \in U
      BY <1>2
    <2>2. ASSUME NEW k \in Nat, k \in U PROVE k + 1 \in U
      <3> SUFFICES ASSUME k + 1 <= m, k + 1 <= n PROVE f[k + 1] = h[k + 1]
        OBVIOUS
      <3>1. k \in 0 .. m - 1 /\ k \in 0 .. n - 1 /\ k <= m /\ k <= n
        OBVIOUS
      <3>2. f[k] = h[k]
        BY <2>2, <3>1
      <3> QED BY <1>2, <3>1, <3>2
    <2>3. Nat \subseteq U
      <3> HIDE DEF U
      <3> QED BY <2>1, <2>2, AllNumbers
    <2> QED BY <2>3
  <1> DEFINE part == [n \in Nat |-> CHOOSE f : Part(f, n)]
             f == [n \in Nat |-> part[n][n]]
  <1>3. \A n \in Nat : Part(part[n], n)
    <2> SUFFICES ASSUME NEW n \in Nat PROVE Part(part[n], n)
      OBVIOUS
    <2> HIDE DEF Part
    <2>1. \E x : Part(x, n)
      BY <1>1
    <2> QED BY <2>1
  <1> HIDE DEF part
  <1>4. \A n \in Nat : part[n][n] \in A
    BY <1>3
  <1>5. f \in [Nat -> A] /\ f[0] = a
    <2>1. part[0][0] = a
      BY <1>3
    <2> QED BY <2>1, <1>4
  <1>6. ASSUME NEW n \in Nat PROVE f[n + 1] = g[<<n, f[n]>>]
    <2>1. n + 1 \in Nat /\ n \in 0 .. (n + 1) - 1 /\ n <= n + 1 /\ n <= n
      OBVIOUS
    <2>2. Part(part[n + 1], n + 1) /\ Part(part[n], n)
      BY <1>3, <2>1
    <2>3. part[n + 1][n] = part[n][n]
      <3> HIDE DEF Part
      <3>1. \A k \in Nat : k <= n + 1 /\ k <= n => part[n + 1][k] = part[n][k]
        BY <1>2, <2>1, <2>2
      <3> QED BY <2>1, <3>1
    <2>4. part[n + 1][n + 1] = g[<<n, part[n + 1][n]>>]
      BY <2>1, <2>2
    <2> QED BY <2>1, <2>3, <2>4
  <1> HIDE DEF f
  <1>7. Follows(f, A, a, g)
    BY <1>5, <1>6 DEF Follows
  <1> QED BY <1>7
----------------------------------------------------------------------------
(* Numerals: what Numeral builds digit by digit is the shortest numeral of *)
(* the number.                                                             *)

\* Power satisfies its recursion.
LEMMA PowerIs ==
  ASSUME NEW b \in Nat
  PROVE  /\ Power(b, 0) = 1
         /\ \A n \in Nat : Power(b, n + 1) = b * Power(b, n)
         /\ \A n \in Nat : Power(b, n) \in Nat
  <1> DEFINE g == [q \in Nat \X Nat |-> b * q[2]]
  <1>1. g \in [Nat \X Nat -> Nat] /\ 1 \in Nat
    OBVIOUS
  <1> HIDE DEF g
  <1>2. \E f : Follows(f, Nat, 1, g)
    BY <1>1, NatRecursion
  <1>3. PICK f \in [Nat -> Nat] : f[0] = 1 /\ \A n \in Nat : f[n + 1] = g[<<n, f[n]>>]
    BY <1>2 DEF Follows
  <1>4. \A n \in Nat : f[n + 1] = b * f[n]
    BY <1>3 DEF g
  <1> DEFINE P == CHOOSE p : p = [n \in Nat |-> IF n = 0 THEN 1 ELSE b * p[n - 1]]
  <1>5. f = [n \in Nat |-> IF n = 0 THEN 1 ELSE b * f[n - 1]]
    BY <1>3, <1>4
  <1>6. P = [n \in Nat |-> IF n = 0 THEN 1 ELSE b * P[n - 1]]
    BY <1>5
  <1>7. \A k : Power(b, k) = P[k]
    BY DEF Power
  <1> HIDE DEF P
  <1>8. P[0] = 1 /\ \A n \in Nat : P[n + 1] = b * P[n]
    <2>1. \A n \in Nat : P[n] = IF n = 0 THEN 1 ELSE b * P[n - 1]
      BY <1>6
    <2> QED BY <2>1
  <1>9. \A n \in Nat : P[n] \in Nat
    <2> DEFINE U == {n \in Nat : P[n] \in Nat}
    <2>1. 0 \in U /\ \A n \in Nat : n \in U => n + 1 \in U
      BY <1>8
    <2> HIDE DEF U
    <2>2. Nat \subseteq U
      BY <2>1, AllNumbers
    <2> QED BY <2>2 DEF U
  <1> QED BY <1>7, <1>8, <1>9

\* Powers of a base of at least 2 grow with the exponent.
LEMMA PowerGrows ==
  ASSUME NEW b \in Nat, b >= 2
  PROVE  /\ \A n \in Nat : Power(b, n) \in Nat \ {0} /\ n < Power(b, n)
         /\ \A n, k \in Nat : Power(b, n) <= Power(b, n + k)
  <1> DEFINE P(n) == Power(b, n)
  <1>1. P(0) = 1 /\ (\A n \in Nat : P(n + 1) = b * P(n)) /\ \A n \in Nat : P(n) \in Nat
    BY PowerIs
  <1> HIDE DEF P
  <1>2. \A n \in Nat : P(n) \in Nat \ {0} /\ n < P(n)
    <2> DEFINE U == {n \in Nat : n < P(n)}
    <2>1. 0 \in U
      BY <1>1
    <2>2. ASSUME NEW n \in Nat, n \in U PROVE n + 1 \in U
      <3>1. P(n) \in Nat /\ n < P(n) /\ P(n + 1) = b * P(n)
        BY <1>1, <2>2
      <3> DEFINE x == P(n)
                 y == (b - 2) * x
      <3>2. b * x = y + 2 * x /\ y \in Nat
        <4>1. \A i, j \in Nat : i * j \in Nat
          OBVIOUS
        <4>2. b - 2 \in Nat /\ x \in Nat
          BY <3>1
        <4> HIDE DEF x
        <4> QED BY <4>1, <4>2
      <3>3. P(n + 1) >= 2 * P(n) /\ P(n + 1) \in Nat
        <4>1. P(n + 1) = y + 2 * P(n) /\ P(n) \in Nat
          BY <3>1, <3>2
        <4> HIDE DEF x, y
        <4> QED BY <3>2, <4>1
      <3>4. n + 1 < P(n + 1)
        BY <3>1, <3>3
      <3> QED BY <3>4
    <2> HIDE DEF U
    <2>3. Nat \subseteq U
      BY <2>1, <2>2, AllNumbers
    <2> QED BY <1>1, <2>3 DEF U
  <1>3. ASSUME NEW n \in Nat PROVE \A k \in Nat : P(n) <= P(n + k)
    <2> DEFINE U == {k \in Nat : P(n) <= P(n + k)}
    <2>1. 0 \in U
      BY <1>1
    <2>2. ASSUME NEW k \in Nat, k \in U PROVE k + 1 \in U
      <3>1. P(n + k) \in Nat /\ P(n) \in Nat /\ P(n + (k + 1)) = b * P(n + k) /\ P(n) <= P(n + k)
        <4>1. n + k \in Nat /\ n + (k + 1) = (n + k) + 1
          OBVIOUS
        <4> QED BY <4>1, <1>1, <2>2
      <3>2. \A x \in Nat : b * x >= x
        OBVIOUS
      <3>3. P(n) <= P(n + (k + 1))
        BY <3>1, <3>2
      <3> QED BY <3>3
    <2> HIDE DEF U
    <2>3. Nat \subseteq U
      BY <2>1, <2>2, AllNumbers
    <2> QED BY <2>3 DEF U
  <1> QED BY <1>2, <1>3 DEF P

\* n digits in base b are what the number v needs.
Needs(v, b, n) ==
    /\ n \in Nat \ {0} /\ v < Power(b, n)
    /\ n > 1 => Power(b, n - 1) <= v

\* Every number needs some number of digits,
LEMMA NeedsOne ==
  ASSUME NEW b \in Nat, b >= 2, NEW v \in Nat
  PROVE  \E n : Needs(v, b, n)
  <1> DEFINE U == {n \in Nat \ {0} : v < Power(b, n)}
  <1>1. v + 1 \in U
    <2>1. v + 1 \in Nat \ {0} /\ v + 1 < Power(b, v + 1) /\ Power(b, v + 1) \in Nat
      BY PowerGrows
    <2> QED BY <2>1
  <1>2. \E n \in U : \A k \in U : n <= k
    <2>1. U \subseteq Nat /\ U # {}
      BY <1>1
    <2> HIDE DEF U
    <2> QED BY <2>1, Least
  <1>3. PICK n \in U : \A k \in U : n <= k
    BY <1>2
  <1>4. n > 1 => Power(b, n - 1) <= v
    <2> SUFFICES ASSUME n > 1, ~(Power(b, n - 1) <= v) PROVE FALSE
      OBVIOUS
    <2>1. n - 1 \in Nat \ {0} /\ Power(b, n - 1) \in Nat
      BY PowerGrows
    <2>2. n - 1 \in U
      BY <2>1
    <2> QED BY <1>3, <2>2
  <1>5. Needs(v, b, n)
    BY <1>4 DEF Needs
  <1> QED BY <1>5

\* and only one.
LEMMA NeedsOnly ==
  ASSUME NEW b \in Nat, b >= 2, NEW v \in Nat, NEW n, NEW k, Needs(v, b, n), Needs(v, b, k)
  PROVE  n = k
  <1>1. ASSUME NEW i, NEW j, Needs(v, b, i), Needs(v, b, j) PROVE ~(i < j)
    <2> SUFFICES ASSUME i < j PROVE FALSE
      OBVIOUS
    <2>1. i \in Nat \ {0} /\ j \in Nat /\ j > 1 /\ v < Power(b, i) /\ Power(b, j - 1) <= v
      BY <1>1 DEF Needs
    <2>2. (j - 1) - i \in Nat /\ i + ((j - 1) - i) = j - 1 /\ j - 1 \in Nat
      BY <2>1
    <2>3. Power(b, i) <= Power(b, j - 1) /\ Power(b, i) \in Nat /\ Power(b, j - 1) \in Nat
      BY <2>1, <2>2, PowerGrows
    <2> QED BY <2>1, <2>3
  <1>2. n \in Nat /\ k \in Nat
    BY DEF Needs
  <1> QED BY <1>1, <1>2

\* Dividing twice is dividing by the product.
LEMMA DivDiv ==
  ASSUME NEW v \in Nat, NEW b \in Nat \ {0}, NEW p \in Nat \ {0}
  PROVE  (v \div b) \div p = v \div (b * p) /\ b * p \in Nat \ {0}
  <1> DEFINE q == v \div b
             d == q \div p
  <1>1. q \in Nat /\ q * b <= v /\ v < (q + 1) * b
    OBVIOUS
  <1>2. d \in Nat /\ d * p <= q /\ q + 1 <= (d + 1) * p
    <2> HIDE DEF q
    <2> QED BY <1>1
  <1> HIDE DEF q, d
  <1>0. \A x, y, z \in Nat : x <= y => x * z <= y * z
    OBVIOUS
  <1>3. (d * p) * b <= q * b /\ (q + 1) * b <= ((d + 1) * p) * b
    <2>1. d * p \in Nat /\ (d + 1) * p \in Nat /\ q + 1 \in Nat
      BY <1>1, <1>2
    <2> QED BY <1>0, <1>1, <1>2, <2>1
  <1>4. (d * p) * b = d * (b * p) /\ ((d + 1) * p) * b = (d + 1) * (b * p)
    BY <1>2
  <1>5. b * p \in Nat \ {0}
    OBVIOUS
  <1> DEFINE m == b * p
  <1>6. d * m <= v /\ v < (d + 1) * m
    <2>1. d * m \in Nat /\ (d + 1) * m \in Nat /\ q * b \in Nat /\ (q + 1) * b \in Nat
      BY <1>1, <1>2, <1>5
    <2> HIDE DEF m
    <2>2. d * m <= q * b /\ (q + 1) * b <= (d + 1) * m
      BY <1>3, <1>4 DEF m
    <2> QED BY <1>1, <2>1, <2>2
  <1>7. d = v \div m
    <2> HIDE DEF m
    <2>1. m \in Nat \ {0}
      BY <1>5 DEF m
    <2> QED BY <2>1, <1>2, <1>6
  <1> QED BY <1>5, <1>7 DEF d, q

\* The n digits of v in base b, the leading ones may be zero.
Spell(v, b, n) == [i \in 1 .. n |-> Digits[(v \div Power(b, n - i)) % b]]

\* A quotient is below a bound when the number is below the multiple.
LEMMA DivLess ==
  ASSUME NEW v \in Nat, NEW b \in Nat \ {0}, NEW p \in Nat
  PROVE  (v \div b < p <=> v < b * p) /\ (p <= v \div b <=> b * p <= v)
  <1> DEFINE q == v \div b
  <1>1. q \in Nat /\ q * b <= v /\ v < (q + 1) * b
    OBVIOUS
  <1> HIDE DEF q
  <1>0. \A x, y, z \in Nat : x <= y => x * z <= y * z
    OBVIOUS
  <1>2. q * b \in Nat /\ (q + 1) * b \in Nat /\ p * b \in Nat /\ b * p = p * b
    BY <1>1
  <1>3. q < p => (q + 1) * b <= p * b
    BY <1>0, <1>1
  <1>4. p <= q => p * b <= q * b
    BY <1>0, <1>1
  <1>5. (q < p <=> v < b * p) /\ (p <= q <=> b * p <= v)
    BY <1>1, <1>2, <1>3, <1>4
  <1> QED BY <1>5 DEF q

\* A number below the base is a digit,
LEMMA ShortNumeral ==
  ASSUME NEW b \in Nat, b >= 2, NEW v \in Nat, v < b
  PROVE  Needs(v, b, 1) /\ Spell(v, b, 1) = <<Digits[v]>>
  <1>1. Power(b, 0) = 1 /\ Power(b, 1) = b
    <2>1. Power(b, 0) = 1 /\ Power(b, 0 + 1) = b * Power(b, 0)
      BY PowerIs
    <2> QED BY <2>1
  <1>2. Needs(v, b, 1)
    BY <1>1 DEF Needs
  <1>3. \A i \in 1 .. 1 : Digits[(v \div Power(b, 1 - i)) % b] = Digits[v]
    <2>1. v \div 1 = v /\ v % b = v
      OBVIOUS
    <2>2. \A i \in 1 .. 1 : i = 1 /\ 1 - i = 0
      OBVIOUS
    <2> QED BY <1>1, <2>1, <2>2
  <1>4. Spell(v, b, 1) = [i \in 1 .. 1 |-> Digits[v]]
    BY <1>3 DEF Spell
  <1>5. <<Digits[v]>> = [i \in 1 .. 1 |-> Digits[v]]
    OBVIOUS
  <1> QED BY <1>2, <1>4, <1>5

\* a larger one is the quotient and one more digit.
LEMMA LongNumeral ==
  ASSUME NEW b \in Nat, b >= 2, NEW v \in Nat, v >= b, NEW n, Needs(v, b, n)
  PROVE  /\ Needs(v \div b, b, n - 1)
         /\ Spell(v, b, n) = Append(Spell(v \div b, b, n - 1), Digits[v % b])
  <1>1. Power(b, 0) = 1 /\ Power(b, 1) = b
    <2>1. Power(b, 0) = 1 /\ Power(b, 0 + 1) = b * Power(b, 0)
      BY PowerIs
    <2> QED BY <2>1
  <1>2. n \in Nat /\ n > 1 /\ v < Power(b, n) /\ Power(b, n - 1) <= v
    BY <1>1 DEF Needs
  <1>3. n - 1 \in Nat /\ (n - 1) + 1 = n
    BY <1>2
  <1>4. /\ Power(b, n) = b * Power(b, n - 1)
        /\ Power(b, n - 1) \in Nat
    <2>1. Power(b, (n - 1) + 1) = b * Power(b, n - 1) /\ Power(b, n - 1) \in Nat
      BY <1>3, PowerIs
    <2> QED BY <1>3, <2>1
  <1>5. v \div b < Power(b, n - 1)
    BY <1>2, <1>4, DivLess
  <1>6. n - 1 > 1 => Power(b, (n - 1) - 1) <= v \div b
    <2> SUFFICES ASSUME n - 1 > 1 PROVE Power(b, (n - 1) - 1) <= v \div b
      OBVIOUS
    <2> DEFINE k == (n - 1) - 1
    <2>1. k \in Nat /\ k + 1 = n - 1
      BY <1>2
    <2> HIDE DEF k
    <2>2. Power(b, k + 1) = b * Power(b, k) /\ Power(b, k) \in Nat
      BY <2>1, PowerIs
    <2>3. b * Power(b, k) <= v
      BY <1>2, <2>1, <2>2
    <2>4. Power(b, k) <= v \div b
      BY <2>2, <2>3, DivLess
    <2> QED BY <2>4 DEF k
  <1>7. Needs(v \div b, b, n - 1)
    BY <1>2, <1>3, <1>5, <1>6 DEF Needs
  <1>8. ASSUME NEW i \in 1 .. n - 1
        PROVE  (v \div b) \div Power(b, (n - 1) - i) = v \div Power(b, n - i)
    <2> DEFINE k == (n - 1) - i
    <2>1. k \in Nat /\ k + 1 = n - i
      BY <1>2
    <2> HIDE DEF k
    <2>2. Power(b, k + 1) = b * Power(b, k) /\ Power(b, k) \in Nat \ {0}
      BY <2>1, PowerIs, PowerGrows
    <2>3. (v \div b) \div Power(b, k) = v \div (b * Power(b, k))
      BY <2>2, DivDiv
    <2> QED BY <2>1, <2>2, <2>3 DEF k
  <1>9. v \div Power(b, n - n) = v
    BY <1>1, <1>2
  <1> DEFINE s == Spell(v \div b, b, n - 1)
             d == [i \in 1 .. n |-> Digits[(v \div Power(b, n - i)) % b]]
             e == Digits[v % b]
  <1>10. \A i \in 1 .. n - 1 : s[i] = d[i]
    BY <1>8, <1>2 DEF Spell
  <1>11. d[n] = e
    BY <1>9, <1>2
  <1>12. DOMAIN s = 1 .. n - 1 /\ s = [i \in 1 .. n - 1 |-> s[i]]
    BY DEF Spell
  <1>13. d = Append(s, e)
    <2>0. DOMAIN d = 1 .. n /\ d = [i \in 1 .. n |-> d[i]]
      OBVIOUS
    <2> HIDE DEF s, d, e
    <2> DEFINE A == {d[i] : i \in 1 .. n}
    <2>1. s \in Seq(A) /\ Len(s) = n - 1
      <3>1. \A i \in 1 .. n - 1 : s[i] \in A
        BY <1>10, <1>2
      <3> QED BY <3>1, <1>12, <1>3
    <2>2. e \in A
      BY <1>11, <1>2
    <2> DEFINE a == Append(s, e)
    <2>3. a \in Seq(A) /\ Len(a) = n
      BY <2>1, <2>2, <1>2, AppendProperties
    <2>4. (\A i \in 1 .. n - 1 : a[i] = s[i]) /\ a[n] = e
      BY <2>1, <2>2, <1>2, AppendProperties
    <2> HIDE DEF a
    <2>5. \A i \in 1 .. n : a[i] = d[i]
      <3>1. \A i \in 1 .. n - 1 : a[i] = d[i]
        BY <2>4, <1>10
      <3>2. a[n] = d[n]
        BY <2>4, <1>11
      <3>3. n \in Nat /\ \A i \in 1 .. n : i = n \/ i \in 1 .. n - 1
        BY <1>2
      <3> QED BY <3>1, <3>2, <3>3
    <2>6. d \in Seq(A) /\ Len(d) = n
      BY <2>0, <1>2
    <2> HIDE DEF A
    <2>7. a = d
      BY <2>3, <2>5, <2>6, SeqEqual
    <2> QED BY <2>7 DEF a
  <1> QED BY <1>7, <1>13 DEF Spell

\* The loop that divides by the base spells the number in the digits it needs.
LEMMA NumeralIs ==
  ASSUME NEW b \in Nat, b >= 2, NEW v \in Nat, NEW n, Needs(v, b, n)
  PROVE  Numeral(v, b) = Spell(v, b, n)
  <1> DEFINE width(x) == CHOOSE k : Needs(x, b, k)
             F == [x \in Nat |-> Spell(x, b, width(x))]
  <1>1. \A x \in Nat : Needs(x, b, width(x))
    BY NeedsOne
  <1>2. \A x \in Nat : \A k : Needs(x, b, k) => width(x) = k
    BY <1>1, NeedsOnly
  <1> HIDE DEF width
  <1>3. \A x \in Nat : x < b => F[x] = <<Digits[x]>>
    <2> SUFFICES ASSUME NEW x \in Nat, x < b PROVE F[x] = <<Digits[x]>>
      OBVIOUS
    <2>1. width(x) = 1
      BY <1>2, ShortNumeral
    <2> QED BY <2>1, ShortNumeral
  <1>4. \A x \in Nat : x >= b => x \div b \in Nat /\ x \div b < x
    BY DivLess
  <1>5. \A x \in Nat : x >= b => F[x] = Append(F[x \div b], Digits[x % b])
    <2> SUFFICES ASSUME NEW x \in Nat, x >= b PROVE F[x] = Append(F[x \div b], Digits[x % b])
      OBVIOUS
    <2> DEFINE k == width(x)
    <2>1. Needs(x, b, k)
      BY <1>1
    <2>2. Needs(x \div b, b, k - 1) /\ Spell(x, b, k) = Append(Spell(x \div b, b, k - 1), Digits[x % b])
      BY <2>1, LongNumeral
    <2>3. x \div b \in Nat
      BY <1>4
    <2>4. width(x \div b) = k - 1
      BY <1>2, <2>2, <2>3
    <2>5. F[x] = Spell(x, b, k) /\ F[x \div b] = Spell(x \div b, b, k - 1)
      BY <2>3, <2>4
    <2> QED BY <2>2, <2>5
  <1> DEFINE E(f, x) == IF x < b THEN <<Digits[x]>> ELSE Append(f[x \div b], Digits[x % b])
             Body(f) == [x \in Nat |-> E(f, x)]
             D == CHOOSE f : f = Body(f)
  <1>6. F = Body(F)
    <2>1. F = [x \in Nat |-> F[x]]
      OBVIOUS
    <2> HIDE DEF F
    <2>2. ASSUME NEW x \in Nat PROVE F[x] = E(F, x)
      <3>1. CASE x < b
        BY <3>1, <1>3
      <3>2. CASE ~(x < b)
        <4>1. x >= b
          BY <3>2
        <4>2. F[x] = Append(F[x \div b], Digits[x % b])
          BY <4>1, <1>5
        <4> QED BY <3>2, <4>2, Zenon
      <3> QED BY <3>1, <3>2
    <2> HIDE DEF E
    <2> QED BY <2>1, <2>2
  <1>7. D = Body(D)
    <2> HIDE DEF F, Body
    <2> QED BY <1>6
  <1>8. Numeral(v, b) = D[v]
    BY DEF Numeral
  <1> HIDE DEF D
  <1>9. /\ \A x \in Nat : x < b => D[x] = <<Digits[x]>>
        /\ \A x \in Nat : x >= b => D[x] = Append(D[x \div b], Digits[x % b])
    <2>1. \A x \in Nat : D[x] = E(D, x)
      <3> HIDE DEF E
      <3> QED BY <1>7
    <2>2. ASSUME NEW x \in Nat, x < b PROVE D[x] = <<Digits[x]>>
      BY <2>1, <2>2, Zenon
    <2>3. ASSUME NEW x \in Nat, x >= b PROVE D[x] = Append(D[x \div b], Digits[x % b])
      <3>1. ~(x < b)
        BY <2>3
      <3> QED BY <2>1, <3>1, Zenon
    <2> QED BY <2>2, <2>3
  <1>10. \A x \in Nat : D[x] = F[x]
    <2> HIDE DEF F
    <2> DEFINE U == {x \in Nat : D[x] # F[x]}
    <2> SUFFICES ASSUME U # {} PROVE FALSE
      OBVIOUS
    <2>1. \E x \in U : \A y \in U : x <= y
      <3>1. U \subseteq Nat
        OBVIOUS
      <3> HIDE DEF U
      <3> QED BY <3>1, Least
    <2>2. PICK x \in U : \A y \in U : x <= y
      BY <2>1
    <2>3. CASE x < b
      BY <2>3, <1>3, <1>9
    <2>4. CASE x >= b
      <3>1. x \div b \in Nat /\ x \div b < x
        BY <2>4, <1>4
      <3>2. D[x \div b] = F[x \div b]
        BY <2>2, <3>1
      <3> QED BY <2>4, <3>2, <1>5, <1>9
    <2> QED BY <2>3, <2>4
  <1>11. D[v] = Spell(v, b, width(v))
    BY <1>10
  <1> QED BY <1>2, <1>8, <1>11

\* Shortest's test for a length, in terms of the digits needed.
LEMMA FitsIs ==
  ASSUME NEW b \in Nat, b >= 2, NEW v \in Nat, NEW n, Needs(v, b, n), NEW k \in Nat \ {0}
  PROVE  (v \div Power(b, k - 1) < b <=> n <= k) /\ (v < Power(b, k) <=> n <= k)
  <1>1. n \in Nat \ {0} /\ v < Power(b, n) /\ (n > 1 => Power(b, n - 1) <= v)
    BY DEF Needs
  <1>2. v \div Power(b, k - 1) < b <=> v < Power(b, k)
    <2> DEFINE j == k - 1
    <2>1. j \in Nat /\ j + 1 = k
      OBVIOUS
    <2> HIDE DEF j
    <2>2. Power(b, j + 1) = b * Power(b, j) /\ Power(b, j) \in Nat \ {0}
      BY <2>1, PowerIs, PowerGrows
    <2> DEFINE p == Power(b, j)
    <2>3. v \div p < b <=> v < p * b
      <3> HIDE DEF p
      <3> QED BY <2>2, DivLess DEF p
    <2>4. p * b = b * p
      <3> HIDE DEF p
      <3> QED BY <2>2 DEF p
    <2> QED BY <2>1, <2>2, <2>3, <2>4 DEF j
  <1>3. n <= k => v < Power(b, k)
    <2> SUFFICES ASSUME n <= k PROVE v < Power(b, k)
      OBVIOUS
    <2>1. k - n \in Nat /\ n + (k - n) = k
      BY <1>1
    <2>2. Power(b, n) <= Power(b, k) /\ Power(b, n) \in Nat /\ Power(b, k) \in Nat
      BY <1>1, <2>1, PowerGrows
    <2> QED BY <1>1, <2>2
  <1>4. ~(n <= k) => ~(v < Power(b, k))
    <2> SUFFICES ASSUME ~(n <= k) PROVE ~(v < Power(b, k))
      OBVIOUS
    <2>1. (n - 1) - k \in Nat /\ k + ((n - 1) - k) = n - 1 /\ n - 1 \in Nat /\ n > 1
      BY <1>1
    <2>2. Power(b, k) <= Power(b, n - 1) /\ Power(b, n - 1) \in Nat /\ Power(b, k) \in Nat
      BY <1>1, <2>1, PowerGrows
    <2> QED BY <1>1, <2>1, <2>2
  <1> QED BY <1>2, <1>3, <1>4

\* Shortest picks the digits needed, or the least length allowed.
LEMMA ShortestIs ==
  ASSUME NEW b \in Nat, b >= 2, NEW v \in Nat, NEW n, Needs(v, b, n),
         NEW lo \in Nat \ {0}, NEW hi \in Nat, lo <= hi, n <= hi,
         NEW q, q = IF n <= lo THEN lo ELSE n
  PROVE  Shortest(v, b, lo .. hi) = Spell(v, b, q)
  <1> DEFINE fits(k) == v \div Power(b, k - 1) < b
             first(k) == fits(k) /\ \A j \in lo .. hi : j < k => ~fits(j)
             c == CHOOSE k \in lo .. hi : first(k)
  <1>1. n \in Nat \ {0} /\ q \in lo .. hi
    BY DEF Needs
  <1>2. \A k \in lo .. hi : fits(k) <=> n <= k
    <2>1. \A k \in lo .. hi : k \in Nat \ {0}
      OBVIOUS
    <2> QED BY <2>1, FitsIs
  <1>3. Shortest(v, b, lo .. hi) = Spell(v, b, c)
    BY DEF Shortest, Spell
  <1> HIDE DEF fits
  <1>4. first(q)
    BY <1>1, <1>2
  <1>5. \A k \in lo .. hi : first(k) => k = q
    <2> SUFFICES ASSUME NEW k \in lo .. hi, first(k) PROVE k = q
      OBVIOUS
    <2>1. n <= k
      BY <1>2
    <2>2. fits(q)
      BY <1>4
    <2>3. ~(q < k)
      BY <1>1, <2>2
    <2> QED BY <1>1, <2>1, <2>3
  <1>6. c = q
    <2> HIDE DEF first
    <2> QED BY <1>1, <1>4, <1>5
  <1> QED BY <1>3, <1>6

\* The padding of print_hex.
Zeros(k) == [i \in 1 .. k |-> Digits[0]]

\* More digits than a number needs are zeros in front.
LEMMA Padded ==
  ASSUME NEW b \in Nat, b >= 2, NEW v \in Nat, NEW n, Needs(v, b, n), NEW q \in Nat, n <= q
  PROVE  Spell(v, b, q) = Zeros(q - n) \o Spell(v, b, n)
  <1>1. n \in Nat \ {0}
    BY DEF Needs
  <1> DEFINE z == Zeros(q - n)
             s == Spell(v, b, n)
             d == Spell(v, b, q)
             A == {Digits[0]} \cup {s[i] : i \in 1 .. n} \cup {d[i] : i \in 1 .. q}
  <1>2. DOMAIN s = 1 .. n /\ DOMAIN d = 1 .. q /\ s = [i \in 1 .. n |-> s[i]] /\ d = [i \in 1 .. q |-> d[i]]
    BY DEF Spell
  <1>3. \A j \in 1 .. q - n : d[j] = Digits[0]
    <2> SUFFICES ASSUME NEW j \in 1 .. q - n PROVE d[j] = Digits[0]
      OBVIOUS
    <2>1. q - j \in Nat \ {0} /\ n <= q - j /\ j \in 1 .. q
      BY <1>1
    <2>2. v < Power(b, q - j) /\ Power(b, q - j) \in Nat
      BY <2>1, FitsIs, PowerIs
    <2>3. v \div Power(b, q - j) = 0
      <3> DEFINE p == Power(b, q - j)
      <3> HIDE DEF p
      <3>1. \A x, y \in Nat : x < y => x \div y = 0
        OBVIOUS
      <3>2. v < p /\ p \in Nat
        BY <2>2 DEF p
      <3>3. v \div p = 0
        BY <3>1, <3>2
      <3> QED BY <3>3 DEF p
    <2>4. 0 % b = 0
      OBVIOUS
    <2> QED BY <2>1, <2>3, <2>4 DEF Spell
  <1>4. \A j \in q - n + 1 .. q : d[j] = s[j - (q - n)]
    <2> SUFFICES ASSUME NEW j \in q - n + 1 .. q PROVE d[j] = s[j - (q - n)]
      OBVIOUS
    <2>1. j \in 1 .. q /\ j - (q - n) \in 1 .. n /\ n - (j - (q - n)) = q - j
      BY <1>1
    <2> QED BY <2>1 DEF Spell
  <1>5. z \in Seq(A) /\ Len(z) = q - n /\ s \in Seq(A) /\ Len(s) = n /\ d \in Seq(A) /\ Len(d) = q
    <2>1. q - n \in Nat
      BY <1>1
    <2>2. z \in Seq(A) /\ Len(z) = q - n
      BY <2>1 DEF Zeros
    <2> HIDE DEF s, d, z
    <2>3. s \in Seq(A) /\ Len(s) = n
      <3>1. \A i \in 1 .. n : s[i] \in A
        OBVIOUS
      <3> HIDE DEF A
      <3>2. s \in [1 .. n -> A]
        BY ONLY <1>2, <3>1
      <3> QED BY <1>1, <3>2
    <2>4. d \in Seq(A) /\ Len(d) = q
      BY <1>2
    <2> QED BY <2>2, <2>3, <2>4
  <1>6. \A j \in 1 .. q - n : z[j] = Digits[0]
    BY DEF Zeros
  <1> HIDE DEF z, s, d, A
  <1> DEFINE e == z \o s
  <1>7. e \in Seq(A) /\ Len(e) = q
    BY <1>5, <1>1, ConcatProperties
  <1>8. /\ \A j \in 1 .. q - n : e[j] = z[j]
        /\ \A j \in q - n + 1 .. q : e[j] = s[j - (q - n)]
    BY <1>5, <1>1, ConcatProperties
  <1> HIDE DEF e
  <1>9. \A j \in 1 .. q : e[j] = d[j]
    <2>1. \A j \in 1 .. q : j \in 1 .. q - n \/ j \in q - n + 1 .. q
      BY <1>1
    <2> QED BY <1>3, <1>4, <1>6, <1>8, <2>1
  <1>10. e = d
    BY <1>5, <1>7, <1>9, SeqEqual
  <1> QED BY <1>10 DEF e, z, s, d

\* A numeral is a sequence of printable characters.
LEMMA SpellChars ==
  ASSUME NEW b \in Nat, b >= 2, b <= 16, NEW v \in Nat, NEW n \in Nat
  PROVE  Spell(v, b, n) \in Seq(Chars) /\ Len(Spell(v, b, n)) = n
  <1>1. \A i \in 1 .. n : Digits[(v \div Power(b, n - i)) % b] \in Chars
    <2> SUFFICES ASSUME NEW i \in 1 .. n PROVE Digits[(v \div Power(b, n - i)) % b] \in Chars
      OBVIOUS
    <2>1. Power(b, n - i) \in Nat \ {0}
      BY PowerGrows
    <2> DEFINE x == v \div Power(b, n - i)
    <2>2. x \in Nat
      <3> DEFINE p == Power(b, n - i)
      <3> HIDE DEF p
      <3>1. v \div p \in Nat
        BY <2>1 DEF p
      <3> QED BY <3>1 DEF p
    <2> HIDE DEF x
    <2>3. x % b \in 0 .. 15
      BY <2>2
    <2>4. Digits[x % b] \in Chars
      BY <2>3 DEF Chars, Glyphs
    <2> QED BY <2>4 DEF x
  <1> QED BY <1>1 DEF Spell

\* Ten decimal digits, eight hexadecimal ones: enough for 32 bits.
LEMMA PowersOfTen == Power(10, 10) = 100000 * 100000
  <1> DEFINE P(n) == Power(10, n)
  <1>1. P(0) = 1 /\ \A n \in Nat : P(n + 1) = 10 * P(n)
    BY PowerIs
  <1> HIDE DEF P
  <1>2. P(1) = 10 /\ P(2) = 100 /\ P(3) = 1000
    <2>1. P(0 + 1) = 10 * P(0) /\ P(1 + 1) = 10 * P(1) /\ P(2 + 1) = 10 * P(2)
      BY <1>1
    <2> QED BY <1>1, <2>1
  <1>3. P(4) = 10000 /\ P(5) = 100000 /\ P(6) = 1000000
    <2>1. P(3 + 1) = 10 * P(3) /\ P(4 + 1) = 10 * P(4) /\ P(5 + 1) = 10 * P(5)
      BY <1>1
    <2> QED BY <1>2, <2>1
  <1>4. P(7) = 10000000 /\ P(8) = 100000000 /\ P(9) = 1000000000
    <2>1. P(6 + 1) = 10 * P(6) /\ P(7 + 1) = 10 * P(7) /\ P(8 + 1) = 10 * P(8)
      BY <1>1
    <2> QED BY <1>3, <2>1
  <1>5. P(10) = 100000 * 100000
    <2>1. P(9 + 1) = 10 * P(9)
      BY <1>1
    <2> QED BY <1>4, <2>1
  <1> QED BY <1>5 DEF P

LEMMA PowersOfSixteen == Power(16, 8) = 65536 * 65536
  <1> DEFINE P(n) == Power(16, n)
  <1>1. P(0) = 1 /\ \A n \in Nat : P(n + 1) = 16 * P(n)
    BY PowerIs
  <1> HIDE DEF P
  <1>2. P(1) = 16 /\ P(2) = 256 /\ P(3) = 4096 /\ P(4) = 65536
    <2>1. P(0 + 1) = 16 * P(0) /\ P(1 + 1) = 16 * P(1) /\ P(2 + 1) = 16 * P(2)
          /\ P(3 + 1) = 16 * P(3)
      BY <1>1
    <2> QED BY <1>1, <2>1
  <1>3. P(5) = 16 * 65536 /\ P(6) = 256 * 65536 /\ P(7) = 4096 * 65536
    <2>1. P(4 + 1) = 16 * P(4) /\ P(5 + 1) = 16 * P(5) /\ P(6 + 1) = 16 * P(6)
      BY <1>1
    <2> QED BY <1>2, <2>1
  <1>4. P(8) = 65536 * 65536
    <2>1. P(7 + 1) = 16 * P(7)
      BY <1>1
    <2> QED BY <1>3, <2>1
  <1> QED BY <1>4 DEF P

\* print_dec prints a word of 32 bits in full, in at most 10 digits.
LEMMA DecIs ==
  ASSUME NEW v \in Nat, v \div 65536 < 65536
  PROVE  /\ PrintDec(v) = Shortest(v, 10, 1 .. 10)
         /\ PrintDec(v) \in Seq(Chars) /\ Len(PrintDec(v)) <= 10
  <1>0. PICK b \in Nat : b = 10
    OBVIOUS
  <1>b. b >= 2 /\ b <= 16
    BY <1>0
  <1>1. PICK n : Needs(v, b, n)
    BY <1>b, NeedsOne
  <1>2. v < Power(b, 10)
    <2>1. v < 65536 * 65536
      OBVIOUS
    <2> QED BY <1>0, <2>1, PowersOfTen
  <1>3. n \in Nat \ {0} /\ n <= 10
    <2>1. 10 \in Nat \ {0}
      OBVIOUS
    <2>2. v < Power(b, 10) <=> n <= 10
      BY <1>b, <1>1, <2>1, FitsIs
    <2> QED BY <1>1, <1>2, <2>2 DEF Needs
  <1>4. Numeral(v, b) = Spell(v, b, n)
    BY <1>b, <1>1, NumeralIs
  <1>5. Shortest(v, b, 1 .. 10) = Spell(v, b, n)
    <2>1. PICK lo \in Nat \ {0}, hi \in Nat : lo = 1 /\ hi = 10
      OBVIOUS
    <2>2. lo <= hi /\ n <= hi /\ n = IF n <= lo THEN lo ELSE n
      BY <1>3, <2>1
    <2>3. Shortest(v, b, lo .. hi) = Spell(v, b, n)
      BY <1>b, <1>1, <2>2, ShortestIs
    <2> QED BY <2>1, <2>3
  <1>7. Spell(v, b, n) \in Seq(Chars) /\ Len(Spell(v, b, n)) = n
    <2>1. n \in Nat
      BY <1>3
    <2> QED BY <1>b, <2>1, SpellChars
  <1>8. PrintDec(v) = Numeral(v, b)
    BY <1>0 DEF PrintDec
  <1> QED BY <1>0, <1>3, <1>4, <1>5, <1>7, <1>8

LEMMA MaxOfTwo == \A i, j \in Int : Max({i, j}) = IF i <= j THEN j ELSE i
  <1> SUFFICES ASSUME NEW i \in Int, NEW j \in Int PROVE Max({i, j}) = IF i <= j THEN j ELSE i
    OBVIOUS
  <1> DEFINE k == IF i <= j THEN j ELSE i
  <1>1. k \in {i, j} /\ \A y \in {i, j} : k >= y
    OBVIOUS
  <1>2. \A x \in {i, j} : (\A y \in {i, j} : x >= y) => x = k
    OBVIOUS
  <1> HIDE DEF k
  <1>3. Max({i, j}) = k
    BY <1>1, <1>2 DEF Max
  <1> QED BY <1>3 DEF k

\* What is to be shown of print_hex for the value v and the width p.
HexExact(v, p) ==
    /\ PrintHex(v, p) = Shortest(v, 16, Max({1, p}) .. 8)
    /\ PrintHex(v, p) \in Seq(Chars) /\ Len(PrintHex(v, p)) <= 8

\* print_hex prints a word of 32 bits in full, as wide as asked, in at most 8 digits.
LEMMA HexIs ==
  ASSUME NEW v \in Nat, v \div 65536 < 65536, NEW p \in 0 .. 8
  PROVE  HexExact(v, p)
  <1>0. PICK b \in Nat : b = 16
    OBVIOUS
  <1>b. b >= 2 /\ b <= 16
    BY <1>0
  <1>1. PICK n : Needs(v, b, n)
    BY <1>b, NeedsOne
  <1>2. v < Power(b, 8)
    <2>1. v < 65536 * 65536
      OBVIOUS
    <2> QED BY <1>0, <2>1, PowersOfSixteen
  <1>3. n \in Nat \ {0} /\ n <= 8
    <2>1. 8 \in Nat \ {0}
      OBVIOUS
    <2>2. v < Power(b, 8) <=> n <= 8
      BY <1>b, <1>1, <2>1, FitsIs
    <2> QED BY <1>1, <1>2, <2>2 DEF Needs
  <1> DEFINE lo == IF 1 <= p THEN p ELSE 1
             q == IF n <= lo THEN lo ELSE n
             s == Spell(v, b, n)
  <1>4. Max({1, p}) = lo /\ lo \in Nat \ {0} /\ lo <= 8
    BY MaxOfTwo
  <1>5. q \in Nat /\ n <= q /\ q <= 8 /\ q - n = IF 0 <= p - n THEN p - n ELSE 0
    BY <1>3
  <1>6. Shortest(v, b, Max({1, p}) .. 8) = Spell(v, b, q)
    <2>1. 8 \in Nat /\ q = IF n <= lo THEN lo ELSE n
      OBVIOUS
    <2> HIDE DEF lo, q
    <2>2. Shortest(v, b, lo .. 8) = Spell(v, b, q)
      BY <1>b, <1>1, <1>3, <1>4, <2>1, ShortestIs
    <2> QED BY <1>4, <2>2
  <1> HIDE DEF q, lo
  <1>7. Spell(v, b, q) = Zeros(q - n) \o s
    <2>1. q \in Nat /\ n <= q
      BY <1>5
    <2> QED BY <1>b, <1>1, <2>1, Padded
  <1>8. Numeral(v, b) = s /\ Len(s) = n
    <2>1. n \in Nat
      BY <1>3
    <2>2. Len(s) = n
      BY <1>b, <2>1, SpellChars
    <2> QED BY <1>b, <1>1, <2>2, NumeralIs
  <1>9. Max({0, p - n}) = q - n
    BY <1>3, <1>5, MaxOfTwo
  <1>10. PrintHex(v, p) = Spell(v, b, q)
    <2>1. Numeral(v, 16) = s
      BY <1>0, <1>8
    <2> HIDE DEF s
    <2> DEFINE w(x) == Max({0, p - Len(x)})
               H(x) == Zeros(w(x)) \o x
    <2>2. PrintHex(v, p) = H(Numeral(v, 16))
      BY DEF PrintHex, Zeros
    <2>3. w(s) = q - n
      BY <1>8, <1>9
    <2> HIDE DEF w
    <2>4. H(s) = Zeros(q - n) \o s
      BY <2>3
    <2> HIDE DEF H
    <2> QED BY <1>7, <2>1, <2>2, <2>4
  <1>11. Spell(v, b, q) \in Seq(Chars) /\ Len(Spell(v, b, q)) = q
    <2>1. q \in Nat
      BY <1>5
    <2> QED BY <1>b, <2>1, SpellChars
  <1> QED BY <1>0, <1>5, <1>6, <1>10, <1>11 DEF HexExact
----------------------------------------------------------------------------
(* What the items of a format print, one after the other.                  *)

\* FlattenSeq of a sequence that grows by one element grows by that element.
LEMMA FlattenGrows ==
  ASSUME NEW A, NEW g \in [Nat -> Seq(A)]
  PROVE  /\ FlattenSeq([j \in 1 .. 0 |-> g[j]]) = << >>
         /\ \A i \in Nat : FlattenSeq([j \in 1 .. i |-> g[j]]) \in Seq(A)
         /\ \A i \in Nat : FlattenSeq([j \in 1 .. i + 1 |-> g[j]])
                             = FlattenSeq([j \in 1 .. i |-> g[j]]) \o g[i + 1]
  <1> DEFINE cat(u, w) == u \o w
             B == Seq(A)
             h == [q \in Nat \X B |-> cat(q[2], g[q[1] + 1])]
  <1>0. /\ \A u, w \in B : cat(u, w) \in B
        /\ \A w \in B : cat(<< >>, w) = w
        /\ << >> \in B
        /\ g \in [Nat -> B]
    <2>1. \A u, w \in Seq(A) : u \o w \in Seq(A)
      BY ONLY ConcatProperties
    <2>2. \A w \in Seq(A) : << >> \o w = w
      BY ONLY ConcatEmptySeq
    <2>3. << >> \in Seq(A)
      OBVIOUS
    <2> QED BY <2>1, <2>2, <2>3
  <1> HIDE DEF cat, B
  <1>1. h \in [Nat \X B -> B]
    <2>1. \A q \in Nat \X B : q[1] \in Nat /\ q[2] \in B
      BY ONLY TRUE
    <2>2. \A n \in Nat : g[n + 1] \in B
      BY <1>0
    <2>3. \A q \in Nat \X B : cat(q[2], g[q[1] + 1]) \in B
      BY ONLY <1>0, <2>1, <2>2
    <2> QED BY <2>3
  <1>2. \A n \in Nat, s \in B : h[<<n, s>>] = cat(s, g[n + 1])
    BY <1>0
  <1> HIDE DEF h
  <1>3. \E f : Follows(f, B, << >>, h)
    BY <1>0, <1>1, NatRecursion
  <1>4. PICK F : F \in [Nat -> B] /\ F[0] = << >> /\ \A n \in Nat : F[n + 1] = h[<<n, F[n]>>]
    BY <1>3 DEF Follows
  <1>5. \A n \in Nat : F[n] \in B /\ F[n + 1] = cat(F[n], g[n + 1])
    BY <1>2, <1>4
  <1>6. ASSUME NEW i \in Nat PROVE FlattenSeq([j \in 1 .. i |-> g[j]]) = F[i]
    <2> DEFINE ss == [j \in 1 .. i |-> g[j]]
    <2>1. Len(ss) = i /\ \A k \in 1 .. i : ss[k] = g[k] /\ ss[k] \in B
      BY <1>0
    <2>2. CASE i = 0
      <3>1. FlattenSeq(ss) = ss
        BY <2>1, <2>2 DEF FlattenSeq
      <3>2. ss = << >>
        BY <2>2
      <3> QED BY <3>1, <3>2, <2>2, <1>4
    <2>3. CASE i # 0
      <3> HIDE DEF ss
      <3> DEFINE E(f, k) == IF k = 1 THEN ss[k] ELSE cat(f[k - 1], ss[k])
                 Body(f) == [k \in 1 .. i |-> E(f, k)]
                 D == CHOOSE f : f = Body(f)
                 G == [k \in 1 .. i |-> F[k]]
      <3>1. FlattenSeq(ss) = D[i]
        BY <2>1, <2>3 DEF FlattenSeq, cat
      <3>2. \A k \in 1 .. i : G[k] = E(G, k)
        <4> SUFFICES ASSUME NEW k \in 1 .. i PROVE G[k] = E(G, k)
          OBVIOUS
        <4>1. k - 1 \in Nat /\ (k - 1) + 1 = k
          OBVIOUS
        <4>2. F[k] = cat(F[k - 1], ss[k]) /\ ss[k] \in B
          BY <4>1, <1>5, <2>1
        <4>3. CASE k = 1
          <5>1. F[1] = cat(<< >>, ss[1])
            BY <4>2, <4>3, <1>4
          <5>2. cat(<< >>, ss[1]) = ss[1]
            BY <4>2, <4>3, <1>0
          <5> QED BY <5>1, <5>2, <4>3
        <4>4. CASE k # 1
          <5>1. k - 1 \in 1 .. i
            BY <4>4
          <5>2. G[k - 1] = F[k - 1] /\ G[k] = F[k]
            BY <5>1
          <5> QED BY <5>2, <4>2, <4>4
        <4> QED BY <4>3, <4>4
      <3>3. G = Body(G)
        <4>1. G = [k \in 1 .. i |-> G[k]]
          OBVIOUS
        <4> HIDE DEF G, E
        <4> QED BY <3>2, <4>1
      <3>4. D = Body(D)
        <4> HIDE DEF Body, G
        <4> QED BY <3>3
      <3>5. \A k \in 1 .. i : D[k] = E(D, k)
        <4> HIDE DEF D, E
        <4> QED BY <3>4
      <3> HIDE DEF D
      <3> DEFINE U == {k \in Nat : k \in 1 .. i => D[k] = F[k]}
      <3>6. 0 \in U
        OBVIOUS
      <3>7. ASSUME NEW k \in Nat, k \in U PROVE k + 1 \in U
        <4> SUFFICES ASSUME k + 1 \in 1 .. i PROVE D[k + 1] = F[k + 1]
          <5>1. k + 1 \in Nat
            BY ONLY k \in Nat
          <5> QED BY <5>1
        <4>1. F[k + 1] = cat(F[k], ss[k + 1]) /\ ss[k + 1] \in B
          BY <1>5, <2>1
        <4>2. D[k + 1] = E(D, k + 1) /\ (k + 1) - 1 = k
          BY <3>5
        <4>3. CASE k = 0
          <5>1. F[1] = cat(<< >>, ss[1])
            BY <4>1, <4>3, <1>4
          <5>2. cat(<< >>, ss[1]) = ss[1]
            BY <4>1, <4>3, <1>0
          <5> QED BY <5>1, <5>2, <4>2, <4>3
        <4>4. CASE k # 0
          <5>1. k \in 1 .. i /\ k + 1 # 1
            BY <4>4
          <5>2. D[k] = F[k]
            BY <3>7, <5>1
          <5> QED BY <5>1, <5>2, <4>1, <4>2
        <4> QED BY <4>3, <4>4
      <3>8. i \in U
        <4> HIDE DEF U
        <4>1. Nat \subseteq U
          BY <3>6, <3>7, AllNumbers
        <4> QED BY <4>1
      <3> QED BY <3>1, <3>8, <2>3 DEF ss
    <2> QED BY <2>2, <2>3
  <1> DEFINE Fl(i) == FlattenSeq([j \in 1 .. i |-> g[j]])
  <1>7. \A i \in Nat : Fl(i) = F[i]
    BY <1>6
  <1> HIDE DEF Fl
  <1>8. Fl(0) = << >>
    BY <1>4, <1>7
  <1>9. \A i \in Nat : Fl(i) \in B /\ Fl(i + 1) = cat(Fl(i), g[i + 1])
    <2> SUFFICES ASSUME NEW i \in Nat PROVE Fl(i) \in B /\ Fl(i + 1) = cat(Fl(i), g[i + 1])
      OBVIOUS
    <2>1. i + 1 \in Nat
      OBVIOUS
    <2> QED BY <2>1, <1>5, <1>7
  <1> QED BY <1>8, <1>9 DEF Fl, cat, B

\* What the first i items of a call print.
Flat(c, i) == FlattenSeq([j \in 1 .. i |-> Meaning(c, j)])

\* Taking an item uses up an argument if and only if it is a conversion.
LEMMA NthGrows ==
  ASSUME NEW c, CallOK(c), NEW i \in 0 .. Len(c.fmt) - 1
  PROVE  /\ Nth(c, i) \in Nat
         /\ Nth(c, i + 1) = IF IsConversion(c.fmt[i + 1]) THEN Nth(c, i) + 1 ELSE Nth(c, i)
         /\ IsConversion(c.fmt[i + 1]) => Nth(c, i) + 1 \in 1 .. Len(c.args)
  <1> DEFINE S(k) == {j \in 1 .. k : IsConversion(c.fmt[j])}
             n == Len(c.fmt)
  <1>1. n \in Nat /\ i \in Nat /\ i + 1 \in 1 .. n /\ DOMAIN c.fmt = 1 .. n /\ Len(c.args) \in Nat
    BY DEF CallOK
  <1>2. \A k \in Nat : IsFiniteSet(S(k)) /\ Cardinality(S(k)) \in Nat
    <2> SUFFICES ASSUME NEW k \in Nat PROVE IsFiniteSet(S(k)) /\ Cardinality(S(k)) \in Nat
      OBVIOUS
    <2>1. IsFiniteSet(1 .. k)
      BY FS_Interval
    <2>2. S(k) \subseteq 1 .. k
      OBVIOUS
    <2> HIDE DEF S
    <2> QED BY <2>1, <2>2, FS_Subset, FS_CardinalityType
  <1>3. S(i + 1) = IF IsConversion(c.fmt[i + 1]) THEN S(i) \cup {i + 1} ELSE S(i)
    <2>1. 1 .. i + 1 = (1 .. i) \cup {i + 1}
      BY <1>1
    <2>2. \A j : j \in S(i + 1) <=> j \in S(i) \/ (j = i + 1 /\ IsConversion(c.fmt[i + 1]))
      BY <2>1
    <2> HIDE DEF S
    <2>3. CASE IsConversion(c.fmt[i + 1])
      BY <2>2, <2>3
    <2>4. CASE ~IsConversion(c.fmt[i + 1])
      BY <2>2, <2>4
    <2> QED BY <2>3, <2>4
  <1>4. i + 1 \notin S(i) /\ S(i + 1) \subseteq S(n)
    BY <1>1
  <1>5. Cardinality(S(n)) <= Len(c.args)
    BY <1>1 DEF CallOK
  <1>6. \A k : Nth(c, k) = Cardinality(S(k))
    BY DEF Nth
  <1> HIDE DEF S
  <1>7. Cardinality(S(i) \cup {i + 1}) = Cardinality(S(i)) + 1
    BY <1>1, <1>2, <1>4, FS_AddElement
  <1>8. Cardinality(S(i + 1)) <= Cardinality(S(n))
    BY <1>1, <1>2, <1>4, FS_Subset
  <1>9. /\ Cardinality(S(i)) \in Nat /\ Cardinality(S(i + 1)) \in Nat
        /\ Cardinality(S(n)) \in Nat
    <2>1. i \in Nat /\ i + 1 \in Nat /\ n \in Nat
      BY <1>1
    <2> QED BY <1>2, <2>1
  <1>10. CASE IsConversion(c.fmt[i + 1])
    <2>1. Cardinality(S(i + 1)) = Cardinality(S(i)) + 1
      BY <1>3, <1>7, <1>10
    <2> QED BY <2>1, <1>1, <1>5, <1>6, <1>8, <1>9, <1>10
  <1>11. CASE ~IsConversion(c.fmt[i + 1])
    BY <1>3, <1>6, <1>9, <1>11
  <1> QED BY <1>10, <1>11

\* A conversion prints what it means, in the room there is.
LEMMA MeaningIs ==
  ASSUME NEW c, CallOK(c), NEW i \in 1 .. Len(c.fmt)
  PROVE  /\ Meaning(c, i) \in Seq(Chars)
         /\ ~IsConversion(c.fmt[i]) => Meaning(c, i) = <<c.fmt[i].param>> /\ c.fmt[i].param \in Chars
         /\ IsConversion(c.fmt[i]) =>
              /\ Nth(c, i) \in 1 .. Len(c.args)
              /\ Converted(c.fmt[i], c.args[Nth(c, i)]) = Meaning(c, i)
              /\ Len(Meaning(c, i)) <= Room(c.fmt[i])
  <1> DEFINE it == c.fmt[i]
             n == Nth(c, i)
             a == c.args[n]
  <1>1. it \in Items /\ Len(c.fmt) \in Nat
    BY DEF CallOK
  <1>2. CASE ~IsConversion(it)
    <2>1. it.param \in Chars
      <3>1. PICK x \in Chars : it = Lit(x)
        BY <1>1, <1>2 DEF Items, IsConversion
      <3> QED BY <3>1 DEF Lit
    <2>2. Meaning(c, i) = <<it.param>>
      BY <1>2 DEF Meaning, IsConversion
    <2> QED BY <1>2, <2>1, <2>2
  <1>3. CASE IsConversion(it)
    <2>1. it.param \in 0 .. 8
      <3>1. \A x \in Chars : ~IsConversion(Lit(x))
        BY DEF IsConversion, Lit
      <3> QED BY <1>1, <1>3, <3>1 DEF Items
    <2>2. n \in 1 .. Len(c.args)
      <3> DEFINE k == i - 1
      <3>1. k \in 0 .. Len(c.fmt) - 1 /\ k + 1 = i
        BY <1>1
      <3> HIDE DEF k
      <3>2. Nth(c, k + 1) = Nth(c, k) + 1 /\ Nth(c, k) + 1 \in 1 .. Len(c.args)
        BY <1>3, <3>1, NthGrows
      <3> QED BY <3>1, <3>2
    <2>3. a \in Nat /\ a \div 65536 < 65536
      <3>1. DOMAIN c.args = 1 .. Len(c.args) /\ c.args \in Seq(Nat)
        BY DEF CallOK
      <3> HIDE DEF n
      <3> QED BY <2>2, <3>1 DEF CallOK
    <2> HIDE DEF a
    <2>4. CASE it.conv = "x"
      <3>1. Meaning(c, i) = Shortest(a, 16, Max({1, it.param}) .. 8)
        BY <1>3, <2>4 DEF Meaning, a
      <3>2. Converted(it, a) = PrintHex(a, it.param) /\ Room(it) = 8
        BY <2>4 DEF Converted, Room
      <3>3. HexExact(a, it.param)
        BY <2>1, <2>3, HexIs
      <3> QED BY <1>3, <2>2, <3>1, <3>2, <3>3 DEF a, HexExact
    <2>5. CASE it.conv = "d"
      <3>1. Meaning(c, i) = Shortest(a, 10, 1 .. 10)
        BY <1>3, <2>5 DEF Meaning, a
      <3>2. Converted(it, a) = PrintDec(a) /\ Room(it) = 10
        BY <2>5 DEF Converted, Room
      <3>3. /\ PrintDec(a) = Shortest(a, 10, 1 .. 10)
            /\ PrintDec(a) \in Seq(Chars) /\ Len(PrintDec(a)) <= 10
        BY <2>3, DecIs
      <3> QED BY <1>3, <2>2, <3>1, <3>2, <3>3 DEF a
    <2>6. CASE it.conv \notin {"x", "d"}
      <3>1. Meaning(c, i) = << >>
        BY <1>3, <2>6 DEF Meaning
      <3>2. Converted(it, a) = << >> /\ Room(it) = 10
        BY <2>6 DEF Converted, Room
      <3> QED BY <1>3, <2>2, <3>1, <3>2 DEF a
    <2> QED BY <2>4, <2>5, <2>6
  <1> QED BY <1>2, <1>3

\* One more item prints what it stands for, behind what was printed before.
LEMMA FlatGrows ==
  ASSUME NEW c, CallOK(c)
  PROVE  /\ Flat(c, 0) = << >>
         /\ \A i \in 0 .. Len(c.fmt) : Flat(c, i) \in Seq(Chars)
         /\ \A i \in 0 .. Len(c.fmt) - 1 : Flat(c, i + 1) = Flat(c, i) \o Meaning(c, i + 1)
         /\ Flat(c, Len(c.fmt)) = Reference(c)
  <1> DEFINE n == Len(c.fmt)
             g == [j \in Nat |-> IF j \in 1 .. n THEN Meaning(c, j) ELSE << >>]
             Fl(i) == FlattenSeq([j \in 1 .. i |-> g[j]])
  <1>1. n \in Nat
    BY DEF CallOK
  <1>2. g \in [Nat -> Seq(Chars)]
    <2>1. \A j \in 1 .. n : Meaning(c, j) \in Seq(Chars)
      BY MeaningIs
    <2> QED BY <2>1
  <1>3. \A j \in 1 .. n : g[j] = Meaning(c, j)
    BY <1>1
  <1> HIDE DEF g
  <1>4. Fl(0) = << >> /\ \A i \in Nat : Fl(i) \in Seq(Chars) /\ Fl(i + 1) = Fl(i) \o g[i + 1]
    <2>1. Fl(0) = << >>
      BY <1>2, FlattenGrows
    <2>2. \A i \in Nat : Fl(i) \in Seq(Chars)
      BY <1>2, FlattenGrows
    <2>3. \A i \in Nat : Fl(i + 1) = Fl(i) \o g[i + 1]
      BY <1>2, FlattenGrows
    <2> QED BY <2>1, <2>2, <2>3
  <1>5. \A i \in 0 .. n : Flat(c, i) = Fl(i)
    <2> SUFFICES ASSUME NEW i \in 0 .. n PROVE Flat(c, i) = Fl(i)
      OBVIOUS
    <2>1. \A j \in 1 .. i : g[j] = Meaning(c, j)
      BY <1>1, <1>3
    <2>2. [j \in 1 .. i |-> g[j]] = [j \in 1 .. i |-> Meaning(c, j)]
      BY <2>1
    <2> QED BY <2>2 DEF Flat
  <1> HIDE DEF Fl
  <1>6. \A i \in 0 .. n - 1 : Flat(c, i + 1) = Flat(c, i) \o Meaning(c, i + 1)
    <2> SUFFICES ASSUME NEW i \in 0 .. n - 1
                 PROVE  Flat(c, i + 1) = Flat(c, i) \o Meaning(c, i + 1)
      OBVIOUS
    <2>1. i \in Nat /\ i \in 0 .. n /\ i + 1 \in 0 .. n /\ i + 1 \in 1 .. n
      BY <1>1
    <2> QED BY <2>1, <1>3, <1>4, <1>5
  <1>7. Flat(c, 0) = << >> /\ \A i \in 0 .. n : Flat(c, i) \in Seq(Chars)
    <2>1. 0 \in 0 .. n /\ \A i \in 0 .. n : i \in Nat
      BY <1>1
    <2>2. Flat(c, 0) = << >>
      BY <1>4, <1>5, <2>1
    <2> QED BY <1>4, <1>5, <2>1, <2>2
  <1>8. Flat(c, n) = Reference(c)
    BY DEF Flat, Reference
  <1> QED BY <1>6, <1>7, <1>8
----------------------------------------------------------------------------
(* The invariant of the cursor and the framebuffer.                        *)

XRange == 0 .. Cols - 1
YRange == 0 .. Rows - 2

\* Each word of the cursor, and each copy of one that a task holds, is in range
\* by itself; which copies go together does not matter.
WordsInRange ==
    /\ cursor_pos \in [x : XRange, y : YRange]
    /\ pos \in [Tasks -> [x : XRange \cup {None}, y : YRange \cup {None}]]

\* What a task at each of putc's steps has read and how far it has come.
PutcInv ==
    /\ pc \in [Tasks -> {"ready", "load", "draw", "move", "scroll", "store"}]
    /\ line \in [Tasks -> Nat]
    /\ boot # "up" => \A t \in Tasks : pc[t] = "ready"
    /\ \A t \in Tasks : pc[t] \in {"draw", "move"} => pos[t].x # None /\ pos[t].y # None
    /\ \A t \in Tasks : pc[t] = "draw" => line[t] < CharHeight
    /\ \A t \in Tasks : pc[t] = "scroll" => line[t] < mode.h - CharHeight

VideoInv ==
    /\ mode \in Modes /\ boot \in {"off", "clear", "up"}
    /\ DOMAIN fb = 0 .. mode.h - 1
    /\ mapped = IF boot = "off" THEN 0 ELSE Pages

ConsoleInv == VideoInv /\ WordsInRange /\ PutcInv /\ BottomRowBlank

----------------------------------------------------------------------------
LEMMA DivBounds ==
  \A n \in Nat, d \in Nat \ {0} :
    (n \div d) * d <= n /\ n < (n \div d + 1) * d /\ n \div d \in Nat
  BY SMT

LEMMA Granularity == CharHeight \in Nat \ {0} /\ PageSize \in Nat \ {0}
  BY ConsoleAssumption

LEMMA TimesMonotone == \A a, b, c \in Nat : a <= b => a * c <= b * c /\ a * c \in Nat
  BY SMT

\* The sizes of the screen: at least one column and two rows, and all rows fit.
LEMMA Sizes ==
  ASSUME mode \in Modes
  PROVE  /\ mode.w \in Nat /\ mode.h \in Nat /\ mode.pitch \in Nat
         /\ mode.bpp \div 8 \in {3, 4}
         /\ Cols \in Nat /\ Cols >= 1 /\ Cols * 8 <= mode.w
         /\ Rows \in Nat /\ Rows >= 2 /\ Rows * CharHeight <= mode.h
         /\ mode.h >= 2 * CharHeight /\ mode.pitch >= mode.w * (mode.bpp \div 8)
  <1>1. /\ mode.w \in Nat /\ mode.h \in Nat /\ mode.pitch \in Nat /\ mode.bpp \in {24, 32}
        /\ mode.w >= 8 /\ mode.h >= 2 * CharHeight
        /\ mode.pitch >= mode.w * (mode.bpp \div 8)
    BY ConsoleAssumption
  <1>2. mode.bpp \div 8 \in {3, 4}
    BY <1>1
  <1>3. Cols \in Nat /\ Cols >= 1 /\ Cols * 8 <= mode.w
    BY <1>1 DEF Cols
  <1>4. Rows \in Nat /\ Rows * CharHeight <= mode.h /\ mode.h < (Rows + 1) * CharHeight
    BY <1>1, DivBounds, Granularity DEF Rows
  <1>5. Rows >= 2
    <2> SUFFICES ASSUME Rows < 2 PROVE FALSE
      BY <1>4
    <2>1. (Rows + 1) * CharHeight <= 2 * CharHeight
      BY <1>4, TimesMonotone, Granularity
    <2> QED BY <2>1, <1>1, <1>4, Granularity
  <1> QED BY <1>1, <1>2, <1>3, <1>4, <1>5

LEMMA Initially == Init => ConsoleInv
  <1> SUFFICES ASSUME Init PROVE ConsoleInv
    OBVIOUS
  <1>1. mode \in Modes
    BY DEF Init
  <1>2. VideoInv
    BY DEF Init, VideoInv
  <1>3. WordsInRange
    BY <1>1, Sizes DEF Init, WordsInRange, XRange, YRange, Unread
  <1>4. PutcInv
    BY DEF Init, PutcInv
  <1>5. BottomRowBlank
    BY DEF Init, BottomRowBlank
  <1> QED BY <1>2, <1>3, <1>4, <1>5 DEF ConsoleInv

----------------------------------------------------------------------------
(* Every step preserves the invariant. A step of putc leaves the mode and  *)
(* the mapping alone, and most leave the framebuffer alone.                *)

LEMMA KeepVideo == VideoInv /\ UNCHANGED <<video, fb>> => VideoInv'
  BY DEF VideoInv, video, Pages, FrameBytes

LEMMA KeepBottom == BottomRowBlank /\ UNCHANGED <<video, fb>> => BottomRowBlank'
  BY DEF BottomRowBlank, video, Rows, Cols, Line

LEMMA KeepWords == WordsInRange /\ UNCHANGED <<video, cursor_pos, pos>> => WordsInRange'
  BY DEF WordsInRange, video, XRange, YRange, Rows, Cols

LEMMA KeepPutc == PutcInv /\ UNCHANGED <<video, pc, pos, line>> => PutcInv'
  BY DEF PutcInv, video

LEMMA KeepsStutter == ConsoleInv /\ UNCHANGED vars => ConsoleInv'
  BY KeepVideo, KeepBottom, KeepWords, KeepPutc DEF ConsoleInv, vars, putcVars, video

LEMMA KeepsVideoInit == ConsoleInv /\ VideoInit => ConsoleInv'
  <1> SUFFICES ASSUME ConsoleInv, VideoInit PROVE ConsoleInv'
    OBVIOUS
  <1>1. VideoInv'
    BY DEF ConsoleInv, VideoInv, VideoInit, Pages, FrameBytes
  <1>2. WordsInRange'
    <2>1. XRange' = XRange /\ YRange' = YRange
      BY DEF VideoInit, XRange, YRange, Rows, Cols
    <2>2. 0 \in XRange /\ 0 \in YRange
      <3>1. Cols \in Nat /\ Cols >= 1 /\ Rows \in Nat /\ Rows >= 2
        BY Sizes DEF ConsoleInv, VideoInv
      <3> QED BY ONLY <3>1 DEF XRange, YRange
    <2>3. cursor_pos' = [x |-> 0, y |-> 0] /\ pos' = pos
      BY DEF VideoInit, putcVars
    <2> QED BY <2>1, <2>2, <2>3 DEF ConsoleInv, WordsInRange
  <1>3. PutcInv'
    BY DEF ConsoleInv, PutcInv, VideoInit, putcVars
  <1>4. BottomRowBlank'
    BY DEF BottomRowBlank, VideoInit
  <1> QED BY <1>1, <1>2, <1>3, <1>4 DEF ConsoleInv

LEMMA KeepsClear == ConsoleInv /\ Clear => ConsoleInv'
  <1> SUFFICES ASSUME ConsoleInv, Clear PROVE ConsoleInv'
    OBVIOUS
  <1>1. VideoInv'
    BY DEF ConsoleInv, VideoInv, Clear, Pages, FrameBytes
  <1>2. WordsInRange'
    BY DEF ConsoleInv, WordsInRange, Clear, putcVars, XRange, YRange, Rows, Cols
  <1>3. PutcInv'
    BY DEF ConsoleInv, PutcInv, Clear, putcVars
  <1>4. BottomRowBlank'
    <2>1. (Rows - 1) * CharHeight \in Nat /\ mode.h \in Nat
      BY Sizes, TimesMonotone, Granularity DEF ConsoleInv, VideoInv
    <2>2. \A l \in (Rows - 1) * CharHeight .. mode.h - 1 : l \in DOMAIN fb
      BY <2>1 DEF ConsoleInv, VideoInv
    <2>3. \A l \in DOMAIN fb : fb'[l] = Line(Blank)
      BY DEF Clear
    <2>4. Rows' = Rows /\ mode' = mode /\ Line(Blank)' = Line(Blank)
      BY DEF Clear, Rows, Line, Cols
    <2> QED BY <2>2, <2>3, <2>4 DEF BottomRowBlank
  <1> QED BY <1>1, <1>2, <1>3, <1>4 DEF ConsoleInv

LEMMA KeepsConvert == ASSUME NEW t \in Tasks PROVE ConsoleInv /\ Convert(t) => ConsoleInv'
  BY KeepVideo, KeepBottom, KeepWords, KeepPutc DEF ConsoleInv, Convert, putcVars, video

LEMMA KeepsPutc == ASSUME NEW t \in Tasks PROVE ConsoleInv /\ Putc(t) => ConsoleInv'
  <1> SUFFICES ASSUME ConsoleInv, Putc(t) PROVE ConsoleInv'
    OBVIOUS
  <1>1. VideoInv' /\ BottomRowBlank'
    BY KeepVideo, KeepBottom DEF ConsoleInv, Putc
  <1>2. WordsInRange'
    BY DEF ConsoleInv, WordsInRange, Putc, video, XRange, YRange, Rows, Cols, Unread
  <1>3. PutcInv'
    BY DEF ConsoleInv, WordsInRange, PutcInv, Putc, Goto, video
  <1> QED BY <1>1, <1>2, <1>3 DEF ConsoleInv

LEMMA KeepsLoad ==
  ASSUME NEW t \in Tasks, NEW f \in {"x", "y"} PROVE ConsoleInv /\ Load(t, f) => ConsoleInv'
  <1> SUFFICES ASSUME ConsoleInv, Load(t, f) PROVE ConsoleInv'
    OBVIOUS
  <1>1. VideoInv' /\ BottomRowBlank'
    BY KeepVideo, KeepBottom DEF ConsoleInv, Load
  <1>2. /\ cursor_pos.x \in XRange /\ cursor_pos.y \in YRange
        /\ XRange' = XRange /\ YRange' = YRange
    BY DEF ConsoleInv, WordsInRange, Load, video, XRange, YRange, Rows, Cols
  <1>3. WordsInRange'
    <2>1. CASE f = "x"
      BY <2>1, <1>2 DEF ConsoleInv, WordsInRange, Load
    <2>2. CASE f = "y"
      BY <2>2, <1>2 DEF ConsoleInv, WordsInRange, Load
    <2> QED BY <2>1, <2>2
  <1>4. None \notin XRange /\ None \notin YRange
    BY Sizes DEF ConsoleInv, VideoInv, XRange, YRange, None
  <1>5. PutcInv'
    <2>1. /\ pc' \in [Tasks -> {"ready", "load", "draw", "move", "scroll", "store"}]
          /\ line' \in [Tasks -> Nat] /\ boot' = boot /\ mode' = mode /\ boot = "up"
      BY DEF ConsoleInv, PutcInv, Load, video
    <2>2. \A u \in Tasks \ {t} : pc'[u] = pc[u] /\ pos'[u] = pos[u] /\ line'[u] = line[u]
      BY DEF ConsoleInv, WordsInRange, PutcInv, Load
    <2>3. pc'[t] \in {"load", "draw"} /\ line'[t] = 0
      BY DEF ConsoleInv, PutcInv, Load
    <2>4. pc'[t] = "draw" => pos'[t].x # None /\ pos'[t].y # None
      <3>1. CASE f = "x"
        BY <3>1, <1>2, <1>4 DEF ConsoleInv, WordsInRange, PutcInv, Load
      <3>2. CASE f = "y"
        BY <3>2, <1>2, <1>4 DEF ConsoleInv, WordsInRange, PutcInv, Load
      <3> QED BY <3>1, <3>2
    <2> QED BY <2>1, <2>2, <2>3, <2>4, Granularity DEF ConsoleInv, PutcInv
  <1> QED BY <1>1, <1>3, <1>5 DEF ConsoleInv

\* The pixel line a glyph is drawn on lies above the bottom row.
LEMMA DrawnAboveBottom ==
  ASSUME ConsoleInv, NEW t \in Tasks, pc[t] = "draw"
  PROVE  /\ pos[t].x \in XRange /\ pos[t].y \in YRange
         /\ pos[t].y * CharHeight + line[t] \in Nat
         /\ pos[t].y * CharHeight + line[t] < (Rows - 1) * CharHeight
  <1>1. pos[t].x \in XRange /\ pos[t].y \in YRange /\ line[t] \in Nat /\ line[t] < CharHeight
    BY DEF ConsoleInv, WordsInRange, PutcInv
  <1>2. Rows \in Nat /\ Rows >= 2
    BY Sizes DEF ConsoleInv, VideoInv
  <1>3. pos[t].y \in Nat /\ pos[t].y + 1 \in Nat /\ pos[t].y + 1 <= Rows - 1 /\ Rows - 1 \in Nat
    BY <1>1, <1>2 DEF YRange
  <1>4. (pos[t].y + 1) * CharHeight <= (Rows - 1) * CharHeight
    BY <1>3, TimesMonotone, Granularity
  <1>5. (pos[t].y + 1) * CharHeight = pos[t].y * CharHeight + CharHeight
    BY <1>3, Granularity
  <1>6. pos[t].y * CharHeight \in Nat /\ (Rows - 1) * CharHeight \in Nat
    BY <1>3, TimesMonotone, Granularity
  <1> QED BY <1>1, <1>4, <1>5, <1>6, Granularity

LEMMA KeepsDraw == ASSUME NEW t \in Tasks PROVE ConsoleInv /\ Draw(t) => ConsoleInv'
  <1> SUFFICES ASSUME ConsoleInv, Draw(t) PROVE ConsoleInv'
    OBVIOUS
  <1>1. VideoInv'
    BY DEF ConsoleInv, VideoInv, Draw, video, Pages, FrameBytes
  <1>2. WordsInRange'
    BY KeepWords DEF ConsoleInv, Draw
  <1>3. PutcInv'
    BY Granularity DEF ConsoleInv, PutcInv, Draw, video
  <1>4. BottomRowBlank'
    <2> DEFINE k == pos[t].y * CharHeight + line[t]
    <2>1. k \in Nat /\ k < (Rows - 1) * CharHeight /\ (Rows - 1) * CharHeight \in Nat
      <3>1. k \in Nat /\ k < (Rows - 1) * CharHeight
        BY DrawnAboveBottom DEF Draw
      <3>2. Rows \in Nat /\ Rows >= 2
        BY Sizes DEF ConsoleInv, VideoInv
      <3>3. Rows - 1 \in Nat
        BY <3>2
      <3> HIDE DEF k
      <3> QED BY <3>1, <3>3, TimesMonotone, Granularity
    <2>2. \A l \in (Rows - 1) * CharHeight .. mode.h - 1 : l \in DOMAIN fb /\ l # k
      BY <2>1, Sizes DEF ConsoleInv, VideoInv
    <2>3. \A l \in DOMAIN fb : l # k => fb'[l] = fb[l]
      BY DEF Draw
    <2>4. Rows' = Rows /\ mode' = mode /\ boot' = boot /\ Line(Blank)' = Line(Blank)
      BY DEF Draw, video, Rows, Line, Cols
    <2> QED BY <2>2, <2>3, <2>4 DEF BottomRowBlank, ConsoleInv
  <1> QED BY <1>1, <1>2, <1>3, <1>4 DEF ConsoleInv

LEMMA KeepsMove == ASSUME NEW t \in Tasks PROVE ConsoleInv /\ Move(t) => ConsoleInv'
  <1> SUFFICES ASSUME ConsoleInv, Move(t) PROVE ConsoleInv'
    OBVIOUS
  <1> DEFINE p == Advance(pos[t], ch[t])
             q == IF Scrolls(p) THEN [p EXCEPT !.y = p.y - 1] ELSE p
  <1>1. VideoInv' /\ BottomRowBlank'
    BY KeepVideo, KeepBottom DEF ConsoleInv, Move
  <1>2. Cols \in Nat /\ Cols >= 1 /\ Rows \in Nat /\ Rows >= 2
    BY Sizes DEF ConsoleInv, VideoInv
  <1>3. pos[t].x \in XRange /\ pos[t].y \in YRange
    BY DEF ConsoleInv, WordsInRange, PutcInv, Move
  <1>4. p \in [x : XRange, y : 0 .. Rows - 1]
    BY <1>2, <1>3 DEF Advance, XRange, YRange
  <1>5. q \in [x : XRange, y : YRange]
    BY <1>2, <1>4 DEF Scrolls, XRange, YRange
  <1>6. pos' = [pos EXCEPT ![t] = q]
    BY DEF Move
  <1>7. WordsInRange'
    <2>1. cursor_pos' = cursor_pos /\ XRange' = XRange /\ YRange' = YRange
      BY DEF Move, video, XRange, YRange, Rows, Cols
    <2> HIDE DEF q
    <2> QED BY <1>5, <1>6, <2>1 DEF ConsoleInv, WordsInRange
  <1>8. PutcInv'
    <2>1. /\ pc' \in [Tasks -> {"ready", "load", "draw", "move", "scroll", "store"}]
          /\ line' \in [Tasks -> Nat] /\ boot' = boot /\ mode' = mode /\ boot = "up"
      BY DEF ConsoleInv, PutcInv, Move, video
    <2>2. \A u \in Tasks \ {t} : pc'[u] = pc[u] /\ pos'[u] = pos[u] /\ line'[u] = line[u]
      BY DEF ConsoleInv, WordsInRange, PutcInv, Move
    <2>3. pc'[t] \in {"scroll", "store"} /\ line'[t] = 0
      BY DEF ConsoleInv, PutcInv, Move
    <2>4. 0 < mode.h - CharHeight
      BY Sizes, Granularity DEF ConsoleInv, VideoInv
    <2> QED BY <2>1, <2>2, <2>3, <2>4 DEF ConsoleInv, PutcInv
  <1> QED BY <1>1, <1>7, <1>8 DEF ConsoleInv

LEMMA KeepsScroll == ASSUME NEW t \in Tasks PROVE ConsoleInv /\ Scroll(t) => ConsoleInv'
  <1> SUFFICES ASSUME ConsoleInv, Scroll(t) PROVE ConsoleInv'
    OBVIOUS
  <1>1. VideoInv'
    BY DEF ConsoleInv, VideoInv, Scroll, video, Pages, FrameBytes
  <1>2. WordsInRange'
    BY KeepWords DEF ConsoleInv, Scroll
  <1>3. PutcInv'
    BY DEF ConsoleInv, PutcInv, Scroll, video
  <1>4. BottomRowBlank'
    <2> DEFINE bottom == (Rows - 1) * CharHeight .. mode.h - 1
    <2>1. (Rows - 1) * CharHeight \in Nat /\ mode.h \in Nat
      BY Sizes, TimesMonotone, Granularity DEF ConsoleInv, VideoInv
    <2>2. line[t] \in Nat /\ line[t] < mode.h - CharHeight /\ boot = "up"
      BY DEF ConsoleInv, PutcInv, Scroll
    <2>3. \A l \in bottom : l \in DOMAIN fb /\ fb[l] = Line(Blank)
      BY <2>1, <2>2 DEF ConsoleInv, VideoInv, BottomRowBlank
    <2>4. line[t] \in bottom => line[t] + CharHeight \in bottom
      BY <2>1, <2>2, Granularity
    <2>5. \A l \in DOMAIN fb : fb'[l] = IF l = line[t] THEN fb[line[t] + CharHeight] ELSE fb[l]
      BY DEF Scroll
    <2>6. Rows' = Rows /\ mode' = mode /\ Line(Blank)' = Line(Blank)
      BY DEF Scroll, video, Rows, Line, Cols
    <2>7. \A l \in bottom : fb'[l] = Line(Blank)
      BY <2>3, <2>4, <2>5
    <2> QED BY <2>6, <2>7 DEF BottomRowBlank
  <1> QED BY <1>1, <1>2, <1>3, <1>4 DEF ConsoleInv

LEMMA KeepsStore ==
  ASSUME NEW t \in Tasks, NEW f \in {"x", "y"} PROVE ConsoleInv /\ Store(t, f) => ConsoleInv'
  <1> SUFFICES ASSUME ConsoleInv, Store(t, f) PROVE ConsoleInv'
    OBVIOUS
  <1>1. VideoInv' /\ BottomRowBlank'
    BY KeepVideo, KeepBottom DEF ConsoleInv, Store
  <1>2. XRange' = XRange /\ YRange' = YRange
    BY DEF Store, video, XRange, YRange, Rows, Cols
  <1>3. WordsInRange'
    <2>1. CASE f = "x"
      BY <2>1, <1>2 DEF ConsoleInv, WordsInRange, Store
    <2>2. CASE f = "y"
      BY <2>2, <1>2 DEF ConsoleInv, WordsInRange, Store
    <2> QED BY <2>1, <2>2
  <1>4. PutcInv'
    <2>1. /\ pc' \in [Tasks -> {"ready", "load", "draw", "move", "scroll", "store"}]
          /\ line' = line /\ boot' = boot /\ mode' = mode /\ boot = "up"
      BY DEF ConsoleInv, PutcInv, Store, video
    <2>2. \A u \in Tasks \ {t} : pc'[u] = pc[u] /\ pos'[u] = pos[u]
      BY DEF ConsoleInv, WordsInRange, PutcInv, Store
    <2>3. pc'[t] \in {"ready", "store"}
      BY DEF ConsoleInv, PutcInv, Store
    <2> QED BY <2>1, <2>2, <2>3 DEF ConsoleInv, PutcInv
  <1> QED BY <1>1, <1>3, <1>4 DEF ConsoleInv

----------------------------------------------------------------------------
(* The theorems.                                                           *)

\* However the tasks' calls of putc interleave, each word of the cursor stays
\* on the text rows and columns, each step of putc stays on the screen, and
\* the bottom row stays blank: the inductive invariant of the console.
THEOREM ConsoleInvariant == Spec => []ConsoleInv
  <1>1. ConsoleInv /\ [Next]_vars => ConsoleInv'
    BY KeepsStutter, KeepsVideoInit, KeepsClear, KeepsConvert, KeepsPutc, KeepsLoad,
       KeepsDraw, KeepsMove, KeepsScroll, KeepsStore DEF Next
  <1> QED BY Initially, <1>1, PTL DEF Spec

\* No interleaving of putc makes draw_char or scroll leave anything on the
\* bottom row of text.
THEOREM BottomRowSafe == Spec => []BottomRowBlank
  <1>1. ConsoleInv => BottomRowBlank
    BY DEF ConsoleInv
  <1> QED BY ConsoleInvariant, <1>1, PTL

\* The pages video::init maps hold all of the framebuffer.
LEMMA FrameMapped ==
  ASSUME VideoInv, boot # "off"
  PROVE  /\ mapped * PageSize \in Nat /\ FrameBytes \in Nat /\ FrameBytes < mapped * PageSize
         /\ mode.h * mode.pitch <= FrameBytes /\ mode.h * mode.pitch \in Nat
  <1>1. /\ mode.h \in Nat /\ mode.pitch \in Nat /\ mode.bpp \div 8 \in {3, 4}
    BY Sizes DEF VideoInv
  <1> DEFINE n == mode.pitch * mode.h
             b == mode.bpp \div 8
  <1>2. n \in Nat /\ mode.h * mode.pitch = n
    BY <1>1
  <1>3. n * b \in Nat /\ n <= n * b
    <2> HIDE DEF n
    <2>1. CASE b = 3
      BY <1>2, <2>1
    <2>2. CASE b = 4
      BY <1>2, <2>2
    <2> QED BY <1>1, <2>1, <2>2
  <1>4. FrameBytes = n * b
    BY DEF FrameBytes
  <1>5. FrameBytes < Pages * PageSize /\ Pages \in Nat
    BY <1>3, <1>4, DivBounds, Granularity DEF Pages
  <1>6. mapped = Pages
    BY DEF VideoInv
  <1>7. Pages * PageSize \in Nat
    BY <1>5, TimesMonotone, Granularity
  <1> QED BY <1>2, <1>3, <1>4, <1>5, <1>6, <1>7

LEMMA BytesMapped == ConsoleInv => WritesMapped
  <1> SUFFICES ASSUME ConsoleInv PROVE WritesMapped
    OBVIOUS
  <1>0. VideoInv
    BY DEF ConsoleInv
  <1>1. boot = "clear" => FrameBytes <= mapped * PageSize
    BY <1>0, FrameMapped
  <1>2. ASSUME NEW t \in Tasks PROVE LastByte(t) < mapped * PageSize
    <2>1. CASE pc[t] = "draw"
      <3> DEFINE k == pos[t].y * CharHeight + line[t]
                 e == (pos[t].x * 8 + 7) * (mode.bpp \div 8) + 2
      <3>1. boot = "up"
        BY <2>1 DEF ConsoleInv, PutcInv
      <3>2. /\ mode.w \in Nat /\ mode.h \in Nat /\ mode.pitch \in Nat
            /\ mode.bpp \div 8 \in {3, 4}
            /\ Cols \in Nat /\ Cols * 8 <= mode.w /\ Rows \in Nat /\ Rows >= 2
            /\ Rows * CharHeight <= mode.h /\ mode.pitch >= mode.w * (mode.bpp \div 8)
        BY <1>0, Sizes DEF VideoInv
      <3>3. pos[t].x \in 0 .. Cols - 1 /\ k \in Nat /\ k < (Rows - 1) * CharHeight
        BY <2>1, DrawnAboveBottom DEF XRange
      <3>4. k + 1 <= mode.h
        <4>1. (Rows - 1) * CharHeight <= Rows * CharHeight
          BY <3>2, TimesMonotone, Granularity
        <4>2. (Rows - 1) * CharHeight \in Nat /\ Rows * CharHeight \in Nat
          BY <3>2, TimesMonotone, Granularity
        <4> HIDE DEF k
        <4> QED BY <4>1, <4>2, <3>2, <3>3
      <3>5. e \in Nat /\ e < mode.pitch
        <4>1. CASE mode.bpp \div 8 = 3
          BY <4>1, <3>2, <3>3
        <4>2. CASE mode.bpp \div 8 = 4
          BY <4>2, <3>2, <3>3
        <4> QED BY <4>1, <4>2, <3>2
      <3>6. (k + 1) * mode.pitch <= mode.h * mode.pitch
        <4> HIDE DEF k
        <4> QED BY <3>2, <3>3, <3>4, TimesMonotone
      <3>7. (k + 1) * mode.pitch = k * mode.pitch + mode.pitch /\ k * mode.pitch \in Nat
        <4> HIDE DEF k
        <4> QED BY <3>2, <3>3
      <3>8. LastByte(t) = k * mode.pitch + e
        <4>1. LastByte(t) = k * mode.pitch + (pos[t].x * 8 + 7) * (mode.bpp \div 8) + 2
          BY <2>1 DEF LastByte
        <4>2. (pos[t].x * 8 + 7) * (mode.bpp \div 8) \in Nat
          BY <3>2, <3>3
        <4> HIDE DEF k
        <4> QED BY <4>1, <4>2, <3>7
      <3>9. mode.h * mode.pitch < mapped * PageSize /\ mapped * PageSize \in Nat
        BY <1>0, <3>1, FrameMapped
      <3>10. mode.h * mode.pitch \in Nat
        BY <3>2, TimesMonotone
      <3> HIDE DEF k, e
      <3> QED BY <3>2, <3>5, <3>6, <3>7, <3>8, <3>9, <3>10
    <2>2. CASE pc[t] = "scroll"
      <3> DEFINE k == line[t] + CharHeight + 1
      <3>1. boot = "up" /\ line[t] \in Nat /\ line[t] < mode.h - CharHeight
        BY <2>2 DEF ConsoleInv, PutcInv
      <3>2. mode.h \in Nat /\ mode.pitch \in Nat /\ mode.bpp \div 8 \in {3, 4}
        BY <1>0, Sizes DEF VideoInv
      <3>3. k \in Nat /\ k <= mode.h
        BY <3>1, <3>2, Granularity
      <3>4. LastByte(t) = k * mode.pitch - 1
        BY <2>2 DEF LastByte
      <3> HIDE DEF k
      <3>5. k * mode.pitch <= mode.h * mode.pitch /\ k * mode.pitch \in Nat
        BY <3>2, <3>3, TimesMonotone
      <3> QED BY <1>0, <3>1, <3>4, <3>5, FrameMapped
    <2>3. CASE pc[t] \notin {"draw", "scroll"}
      <3>1. LastByte(t) = -1
        BY <2>3 DEF LastByte
      <3>2. mapped * PageSize \in Nat
        BY <1>0, FrameMapped, Granularity DEF VideoInv
      <3> QED BY <3>1, <3>2
    <2> QED BY <2>1, <2>2, <2>3
  <1> QED BY <1>1, <1>2 DEF WritesMapped

\* Nothing putc draws, scroll copies or clear clears lies behind the pages that
\* video::init has mapped, for every mode of at least two rows of text.
THEOREM WritesSafe == Spec => []WritesMapped
  BY ConsoleInvariant, BytesMapped, PTL
----------------------------------------------------------------------------
(* printf: what a task has printed and what it still has to print are,     *)
(* together, what the items it has taken stand for.                        *)

\* The characters of s as items of a format; s without its first i members.
Lits(s) == [k \in 1 .. Len(s) |-> Lit(s[k])]
Rest(s, i) == [k \in 1 .. Len(s) - i |-> s[k + i]]

\* Task t has taken the first i items of its format; rem is what is left to be
\* printed of the last one taken.
Printed(t, i, rem) ==
    /\ i \in 0 .. Len(call[t].fmt) /\ rem \in Seq(Chars) /\ out[t] \in Seq(Chars)
    /\ todo[t] = Lits(rem) \o Rest(call[t].fmt, i)
    /\ args[t] = Rest(call[t].args, Nth(call[t], i))
    /\ IF pc[t] = "ready" THEN out[t] \o rem = Flat(call[t], i)
       ELSE ch[t] \in Chars /\ Append(out[t], ch[t]) \o rem = Flat(call[t], i)

\* Every task is somewhere in its call, and all it prints belongs there.
PrintInv ==
    /\ ~smashed /\ call \in Calls
    /\ out \in [Tasks -> Seq(Chars)] /\ DOMAIN todo = Tasks /\ DOMAIN args = Tasks /\ DOMAIN ch = Tasks
    /\ \A t \in Tasks : \E i, rem : Printed(t, i, rem)

----------------------------------------------------------------------------
LEMMA RestIs ==
  ASSUME NEW A, NEW s \in Seq(A), NEW i \in 0 .. Len(s)
  PROVE  /\ Rest(s, i) \in Seq(A) /\ Len(Rest(s, i)) = Len(s) - i
         /\ i = Len(s) => Rest(s, i) = << >>
         /\ i < Len(s) => /\ Rest(s, i) # << >> /\ Head(Rest(s, i)) = s[i + 1]
                          /\ Tail(Rest(s, i)) = Rest(s, i + 1)
  <1>1. Len(s) \in Nat /\ Len(s) - i \in Nat
    OBVIOUS
  <1>2. Rest(s, i) \in Seq(A) /\ Len(Rest(s, i)) = Len(s) - i
    BY <1>1 DEF Rest
  <1>3. i = Len(s) => Rest(s, i) = << >>
    BY <1>1, <1>2, EmptySeq
  <1>4. ASSUME i < Len(s)
        PROVE  /\ Rest(s, i) # << >> /\ Head(Rest(s, i)) = s[i + 1]
               /\ Tail(Rest(s, i)) = Rest(s, i + 1)
    <2> DEFINE r == Rest(s, i)
               u == Rest(s, i + 1)
    <2>1. \A k \in 1 .. Len(s) - i : r[k] = s[k + i]
      BY <1>1 DEF Rest
    <2>2. i + 1 \in 0 .. Len(s) /\ Len(s) - (i + 1) \in Nat
      BY <1>1, <1>4
    <2>3. u \in Seq(A) /\ Len(u) = Len(s) - (i + 1) /\ \A k \in 1 .. Len(s) - (i + 1) : u[k] = s[k + (i + 1)]
      BY <1>1, <2>2 DEF Rest
    <2> HIDE DEF r, u
    <2>4. r \in Seq(A) /\ Len(r) = Len(s) - i
      BY <1>2 DEF r
    <2>5. r # << >>
      BY <1>1, <1>4, <2>4
    <2>6. Head(r) = s[i + 1]
      BY <1>1, <1>4, <2>1, <2>4, <2>5
    <2>7. Tail(r) = u
      <3>1. Tail(r) \in Seq(A) /\ Len(Tail(r)) = Len(r) - 1 /\ \A k \in 1 .. Len(r) - 1 : Tail(r)[k] = r[k + 1]
        BY <2>4, <2>5, HeadTailProperties
      <3> DEFINE v == Tail(r)
      <3> HIDE DEF v
      <3>2. \A k \in 1 .. Len(s) - (i + 1) : v[k] = u[k]
        <4> SUFFICES ASSUME NEW k \in 1 .. Len(s) - (i + 1) PROVE v[k] = u[k]
          OBVIOUS
        <4>1. k \in 1 .. Len(r) - 1 /\ k + 1 \in 1 .. Len(s) - i /\ (k + 1) + i = k + (i + 1)
          BY <1>1, <2>4
        <4> QED BY <4>1, <2>1, <2>3, <3>1 DEF v
      <3>3. v \in Seq(A) /\ Len(v) = Len(r) - 1
        BY <3>1 DEF v
      <3>4. Len(r) - 1 = Len(u)
        BY <1>1, <2>3, <2>4
      <3>5. v = u
        BY <2>3, <3>2, <3>3, <3>4, SeqEqual
      <3> QED BY <3>5 DEF v
    <2> QED BY <2>5, <2>6, <2>7 DEF r, u
  <1> QED BY <1>2, <1>3, <1>4

LEMMA LitsIs ==
  ASSUME NEW s \in Seq(Chars)
  PROVE  /\ Lits(s) \in Seq(Items) /\ Len(Lits(s)) = Len(s)
         /\ s = << >> => Lits(s) = << >>
         /\ s # << >> => /\ Lits(s) # << >> /\ Head(Lits(s)) = Lit(Head(s))
                         /\ Tail(Lits(s)) = Lits(Tail(s))
  <1>1. Len(s) \in Nat /\ \A k \in 1 .. Len(s) : Lit(s[k]) \in Items
    BY DEF Items
  <1>2. Lits(s) \in Seq(Items) /\ Len(Lits(s)) = Len(s) /\ \A k \in 1 .. Len(s) : Lits(s)[k] = Lit(s[k])
    BY <1>1 DEF Lits
  <1>3. s = << >> => Lits(s) = << >>
    BY <1>2, EmptySeq
  <1>4. ASSUME s # << >>
        PROVE  Lits(s) # << >> /\ Head(Lits(s)) = Lit(Head(s)) /\ Tail(Lits(s)) = Lits(Tail(s))
    <2> DEFINE r == Lits(s)
               u == Lits(Tail(s))
    <2>1. Tail(s) \in Seq(Chars) /\ Len(Tail(s)) = Len(s) - 1 /\ \A k \in 1 .. Len(s) - 1 : Tail(s)[k] = s[k + 1]
      BY <1>4, HeadTailProperties
    <2>2. Len(s) # 0
      BY <1>1, <1>4, EmptySeq
    <2>3. u \in Seq(Items) /\ Len(u) = Len(s) - 1 /\ \A k \in 1 .. Len(s) - 1 : u[k] = Lit(s[k + 1])
      <3>1. \A k \in 1 .. Len(s) - 1 : Lit(Tail(s)[k]) \in Items /\ Tail(s)[k] = s[k + 1]
        BY <1>1, <2>1
      <3> QED BY <1>1, <2>1, <2>2, <3>1 DEF Lits
    <2> HIDE DEF r, u
    <2>4. r \in Seq(Items) /\ Len(r) = Len(s) /\ \A k \in 1 .. Len(s) : r[k] = Lit(s[k])
      BY <1>2 DEF r
    <2>5. r # << >>
      BY <1>1, <2>2, <2>4
    <2>6. Head(r) = Lit(Head(s))
      BY <1>1, <1>4, <2>2, <2>4, <2>5
    <2>7. Tail(r) = u
      <3>1. Tail(r) \in Seq(Items) /\ Len(Tail(r)) = Len(r) - 1 /\ \A k \in 1 .. Len(r) - 1 : Tail(r)[k] = r[k + 1]
        BY <2>4, <2>5, HeadTailProperties
      <3> DEFINE v == Tail(r)
      <3> HIDE DEF v
      <3>2. \A k \in 1 .. Len(s) - 1 : v[k] = u[k]
        BY <1>1, <2>3, <2>4, <3>1 DEF v
      <3>3. v \in Seq(Items) /\ Len(v) = Len(u)
        BY <1>1, <2>3, <2>4, <3>1 DEF v
      <3>4. v = u
        BY <2>3, <3>2, <3>3, SeqEqual
      <3> QED BY <3>4 DEF v
    <2> QED BY <2>5, <2>6, <2>7 DEF r, u
  <1> QED BY <1>2, <1>3, <1>4

LEMMA HeadOfConcat ==
  ASSUME NEW A, NEW s \in Seq(A), NEW u \in Seq(A)
  PROVE  /\ s = << >> => s \o u = u
         /\ s # << >> => s \o u # << >> /\ Head(s \o u) = Head(s) /\ Tail(s \o u) = Tail(s) \o u
  <1>1. s = << >> => s \o u = u
    OBVIOUS
  <1>2. ASSUME s # << >>
        PROVE s \o u # << >> /\ Head(s \o u) = Head(s) /\ Tail(s \o u) = Tail(s) \o u
    <2>1. Len(s) \in Nat /\ Len(u) \in Nat /\ Len(s) # 0
      BY <1>2, EmptySeq
    <2> DEFINE c == s \o u
               v == Tail(c)
               w == Tail(s) \o u
    <2>2. /\ c \in Seq(A) /\ Len(c) = Len(s) + Len(u)
          /\ \A k \in 1 .. Len(s) + Len(u) : c[k] = IF k <= Len(s) THEN s[k] ELSE u[k - Len(s)]
      BY ConcatProperties
    <2>3. Tail(s) \in Seq(A) /\ Len(Tail(s)) = Len(s) - 1 /\ \A k \in 1 .. Len(s) - 1 : Tail(s)[k] = s[k + 1]
      BY <1>2, HeadTailProperties
    <2> DEFINE r == Tail(s)
    <2>4. w \in Seq(A) /\ Len(w) = Len(r) + Len(u)
          /\ \A k \in 1 .. Len(r) + Len(u) : w[k] = IF k <= Len(r) THEN r[k] ELSE u[k - Len(r)]
      <3> HIDE DEF r
      <3> QED BY <2>3, ConcatProperties DEF r
    <2> HIDE DEF c, w, r
    <2>5. c # << >>
      BY <2>1, <2>2
    <2>6. v \in Seq(A) /\ Len(v) = Len(c) - 1 /\ (\A k \in 1 .. Len(c) - 1 : v[k] = c[k + 1]) /\ Head(c) = c[1]
      BY <2>2, <2>5, HeadTailProperties
    <2> HIDE DEF v
    <2>7. Len(r) = Len(s) - 1 /\ \A k \in 1 .. Len(s) - 1 : r[k] = s[k + 1]
      BY <2>3 DEF r
    <2>8. Len(v) = Len(w) /\ Len(v) = (Len(s) - 1) + Len(u)
      BY <2>1, <2>2, <2>4, <2>6, <2>7
    <2>9. \A k \in 1 .. Len(v) : v[k] = w[k]
      <3> SUFFICES ASSUME NEW k \in 1 .. Len(v) PROVE v[k] = w[k]
        OBVIOUS
      <3>1. v[k] = c[k + 1] /\ k \in Nat /\ k + 1 \in 1 .. Len(s) + Len(u)
        BY <2>1, <2>2, <2>6, <2>8
      <3>2. CASE k <= Len(s) - 1
        <4>1. c[k + 1] = s[k + 1] /\ w[k] = r[k] /\ r[k] = s[k + 1]
          BY <2>1, <2>2, <2>4, <2>7, <2>8, <3>1, <3>2
        <4> QED BY <3>1, <4>1
      <3>3. CASE ~(k <= Len(s) - 1)
        <4>1. c[k + 1] = u[(k + 1) - Len(s)] /\ w[k] = u[k - (Len(s) - 1)]
          BY <2>1, <2>2, <2>4, <2>7, <2>8, <3>1, <3>3
        <4>2. (k + 1) - Len(s) = k - (Len(s) - 1)
          BY <2>1, <3>1
        <4> QED BY <3>1, <4>1, <4>2
      <3> QED BY <3>2, <3>3
    <2>10. v = w
      BY <2>4, <2>6, <2>8, <2>9, SeqEqual
    <2>11. Head(c) = Head(s)
      BY <2>1, <2>2, <2>6, <1>2
    <2> QED BY <2>5, <2>10, <2>11 DEF c, v, w, r
  <1> QED BY <1>1, <1>2

LEMMA CallsOK ==
  ASSUME call \in Calls, NEW t \in Tasks
  PROVE  /\ CallOK(call[t]) /\ call[t].fmt \in Seq(Items) /\ call[t].args \in Seq(Nat)
         /\ Len(call[t].fmt) \in Nat /\ Len(call[t].args) \in Nat
  <1>1. CallOK(call[t])
    BY ConsoleAssumption
  <1>2. call[t].fmt \in Seq(Items) /\ call[t].args \in Seq(Nat)
    BY <1>1 DEF CallOK
  <1> QED BY <1>1, <1>2, LenProperties

LEMMA NoLits == Lits(<< >>) = << >> /\ << >> \in Seq(Chars)
  <1>1. << >> \in Seq(Chars)
    OBVIOUS
  <1> QED BY <1>1, LitsIs

LEMMA PrintInitially == Init => PrintInv
  <1> SUFFICES ASSUME Init PROVE PrintInv
    OBVIOUS
  <1>1. /\ ~smashed /\ call \in Calls /\ DOMAIN todo = Tasks /\ DOMAIN args = Tasks /\ DOMAIN ch = Tasks
        /\ out \in [Tasks -> Seq(Chars)]
    BY DEF Init
  <1>2. ASSUME NEW t \in Tasks PROVE Printed(t, 0, << >>)
    <2> DEFINE c == call[t]
    <2>1. CallOK(c) /\ c.fmt \in Seq(Items) /\ c.args \in Seq(Nat)
      BY <1>1, CallsOK
    <2>2. todo[t] = c.fmt /\ args[t] = c.args /\ out[t] = << >> /\ pc[t] = "ready"
      BY DEF Init
    <2> HIDE DEF c
    <2>3. Rest(c.fmt, 0) = c.fmt /\ Rest(c.args, 0) = c.args
      BY <2>1 DEF Rest
    <2>4. Nth(c, 0) = 0
      <3>1. {j \in 1 .. 0 : IsConversion(c.fmt[j])} = {}
        OBVIOUS
      <3> QED BY <3>1, FS_EmptySet DEF Nth
    <2>5. Flat(c, 0) = << >>
      BY <2>1, FlatGrows
    <2>6. Lits(<< >>) \o c.fmt = c.fmt /\ << >> \in Seq(Chars) /\ 0 \in 0 .. Len(c.fmt)
      <3>1. Lits(<< >>) = << >>
        BY NoLits
      <3> QED BY <2>1, <3>1
    <2>7. << >> \o << >> = << >>
      OBVIOUS
    <2> QED BY <2>2, <2>3, <2>4, <2>5, <2>6, <2>7 DEF Printed, c
  <1> QED BY <1>1, <1>2 DEF PrintInv

\* What another task does to its own call leaves the call of t alone.
LEMMA PrintedAlone ==
  ASSUME NEW t \in Tasks, NEW i, NEW rem, Printed(t, i, rem), call' = call,
         todo'[t] = todo[t], args'[t] = args[t], out'[t] = out[t], ch'[t] = ch[t],
         pc'[t] = "ready" <=> pc[t] = "ready"
  PROVE  Printed(t, i, rem)'
  BY DEF Printed

LEMMA PrintStutter ==
  ASSUME PrintInv, UNCHANGED <<printVars, ch>>,
         \A t \in Tasks : pc'[t] = "ready" <=> pc[t] = "ready"
  PROVE  PrintInv'
  <1>1. ASSUME NEW t \in Tasks PROVE \E i, rem : Printed(t, i, rem)'
    <2>1. PICK i, rem : Printed(t, i, rem)
      BY DEF PrintInv
    <2>2. Printed(t, i, rem)'
      BY <2>1, PrintedAlone DEF printVars
    <2> QED BY <2>2
  <1> QED BY <1>1 DEF PrintInv, printVars

\* A step of task t leaves the calls of the other tasks alone.
LEMMA OthersPrinted ==
  ASSUME PrintInv, NEW t \in Tasks, call' = call, ~smashed',
         DOMAIN todo' = Tasks, DOMAIN args' = Tasks, DOMAIN ch' = Tasks,
         out' \in [Tasks -> Seq(Chars)],
         \A u \in Tasks \ {t} : /\ todo'[u] = todo[u] /\ args'[u] = args[u]
                                /\ out'[u] = out[u] /\ ch'[u] = ch[u]
                                /\ pc'[u] = "ready" <=> pc[u] = "ready",
         NEW i, NEW rem, Printed(t, i, rem)'
  PROVE  PrintInv'
  <1>1. ASSUME NEW u \in Tasks PROVE \E j, r : Printed(u, j, r)'
    <2>1. CASE u = t
      BY <2>1
    <2>2. CASE u # t
      <3>1. PICK j, r : Printed(u, j, r)
        BY DEF PrintInv
      <3>2. Printed(u, j, r)'
        BY <2>2, <3>1, PrintedAlone
      <3> QED BY <3>2
    <2> QED BY <2>1, <2>2
  <1>2. call' \in Calls
    BY DEF PrintInv
  <1> QED BY <1>1, <1>2 DEF PrintInv

LEMMA PrintsConvert ==
  ASSUME ConsoleInv, PrintInv, NEW t \in Tasks, Convert(t) PROVE PrintInv'
  <1> DEFINE c == call[t]
             n == Len(c.fmt)
  <1>1. CallOK(c) /\ c.fmt \in Seq(Items) /\ c.args \in Seq(Nat) /\ n \in Nat /\ Len(c.args) \in Nat
    BY CallsOK DEF PrintInv
  <1>2. PICK i, rem : Printed(t, i, rem)
    BY DEF PrintInv
  <1>3. /\ pc[t] = "ready" /\ todo[t] # << >> /\ IsConversion(Head(todo[t]))
        /\ i \in 0 .. n /\ rem \in Seq(Chars) /\ out[t] \in Seq(Chars)
        /\ todo[t] = Lits(rem) \o Rest(c.fmt, i)
        /\ args[t] = Rest(c.args, Nth(c, i)) /\ out[t] \o rem = Flat(c, i)
    BY <1>2 DEF Convert, Printed
  <1>4. Rest(c.fmt, i) \in Seq(Items) /\ Lits(rem) \in Seq(Items)
    BY <1>1, <1>3, RestIs, LitsIs
  <1>5. rem = << >>
    <2> SUFFICES ASSUME rem # << >> PROVE FALSE
      OBVIOUS
    <2>1. Lits(rem) # << >> /\ Head(Lits(rem)) = Lit(Head(rem))
      BY <1>3, LitsIs
    <2>2. Head(todo[t]) = Lit(Head(rem))
      BY <1>3, <1>4, <2>1, HeadOfConcat
    <2> QED BY <1>3, <2>2 DEF IsConversion, Lit
  <1>6. todo[t] = Rest(c.fmt, i)
    <2>1. Lits(rem) = << >>
      BY <1>3, <1>5, LitsIs
    <2> QED BY <1>3, <1>4, <2>1
  <1>7. i < n
    <2> SUFFICES ASSUME ~(i < n) PROVE FALSE
      OBVIOUS
    <2>1. i = Len(c.fmt)
      BY <1>1, <1>3
    <2>2. Rest(c.fmt, i) = << >>
      BY <1>1, <1>3, <2>1, RestIs
    <2> QED BY <1>3, <1>6, <2>2
  <1>8. Head(todo[t]) = c.fmt[i + 1] /\ Tail(todo[t]) = Rest(c.fmt, i + 1)
    BY <1>1, <1>3, <1>6, <1>7, RestIs
  <1>9. i \in 0 .. n - 1 /\ i + 1 \in 1 .. n /\ i + 1 \in 0 .. n
    BY <1>1, <1>3, <1>7
  <1>10. IsConversion(c.fmt[i + 1])
    BY <1>3, <1>8
  <1> DEFINE k == Nth(c, i)
  <1>d. PICK d : d = Meaning(c, i + 1)
    OBVIOUS
  <1>11. k \in Nat /\ Nth(c, i + 1) = k + 1 /\ k + 1 \in 1 .. Len(c.args)
    BY <1>1, <1>9, <1>10, NthGrows
  <1>12. Head(args[t]) = c.args[k + 1] /\ Tail(args[t]) = Rest(c.args, k + 1)
    <2>1. k \in 0 .. Len(c.args) /\ k < Len(c.args)
      BY <1>1, <1>11
    <2> HIDE DEF k
    <2> QED BY <1>1, <1>3, <2>1, RestIs DEF k
  <1>13. /\ Converted(c.fmt[i + 1], c.args[k + 1]) = d
         /\ d \in Seq(Chars) /\ Len(d) <= Room(c.fmt[i + 1])
    BY <1>d, <1>1, <1>9, <1>10, <1>11, MeaningIs
  <1> HIDE DEF c, n, k
  <1>14. Converted(Head(todo[t]), Head(args[t])) = d
    BY <1>8, <1>12, <1>13
  <1>15. [j \in DOMAIN d |-> Lit(d[j])] = Lits(d)
    BY <1>13 DEF Lits
  <1>16. /\ todo' = [todo EXCEPT ![t] = Lits(d) \o Tail(todo[t])]
         /\ args' = [args EXCEPT ![t] = Tail(args[t])]
         /\ smashed' = (smashed \/ Len(d) > Room(Head(todo[t])))
         /\ pc' = pc /\ ch' = ch /\ call' = call /\ out' = out
    BY <1>14, <1>15 DEF Convert, putcVars
  <1>17. ~smashed'
    <2>1. ~(Len(d) > Room(c.fmt[i + 1]))
      <3>1. Room(c.fmt[i + 1]) \in Nat /\ Len(d) \in Nat
        BY <1>13 DEF Room
      <3> QED BY <1>13, <3>1
    <2> QED BY <1>8, <1>16, <2>1 DEF PrintInv
  <1>18. todo'[t] = Lits(d) \o Rest(c.fmt, i + 1) /\ args'[t] = Rest(c.args, Nth(c, i + 1))
    BY <1>8, <1>11, <1>12, <1>16 DEF PrintInv
  <1>19. out[t] \o d = Flat(c, i + 1)
    <2>1. out[t] = Flat(c, i)
      BY <1>3, <1>5
    <2>2. Flat(c, i + 1) = Flat(c, i) \o d
      BY <1>d, <1>1, <1>9, FlatGrows DEF n
    <2> QED BY <2>1, <2>2
  <1>20. Printed(t, i + 1, d)'
    <2>1. call'[t] = c /\ out'[t] = out[t] /\ pc'[t] = "ready" /\ i + 1 \in 0 .. Len(c.fmt)
      BY <1>3, <1>9, <1>16 DEF c, n
    <2>2. /\ todo'[t] = Lits(d) \o Rest(call'[t].fmt, i + 1)
          /\ args'[t] = Rest(call'[t].args, Nth(call'[t], i + 1))
      BY <1>18, <2>1
    <2>3. out'[t] \o d = Flat(call'[t], i + 1)
      BY <1>19, <2>1
    <2>4. i + 1 \in 0 .. Len(call'[t].fmt) /\ d \in Seq(Chars) /\ out'[t] \in Seq(Chars)
      BY <2>1, <1>3, <1>13
    <2> QED BY <2>1, <2>2, <2>3, <2>4 DEF Printed
  <1>21. /\ DOMAIN todo' = Tasks /\ DOMAIN args' = Tasks /\ DOMAIN ch' = Tasks
         /\ out' \in [Tasks -> Seq(Chars)]
         /\ \A u \in Tasks \ {t} : todo'[u] = todo[u] /\ args'[u] = args[u]
    BY <1>16 DEF PrintInv
  <1> QED BY <1>16, <1>17, <1>20, <1>21, OthersPrinted

\* A character moves from what is left to what is under way.
LEMMA TakesOne ==
  ASSUME NEW A, NEW s \in Seq(A), NEW r \in Seq(A), r # << >>
  PROVE  Append(s, Head(r)) \o Tail(r) = s \o r /\ Head(r) \in A /\ Tail(r) \in Seq(A)
  <1>1. Head(r) \in A /\ Tail(r) \in Seq(A) /\ r = <<Head(r)>> \o Tail(r)
    BY HeadTailProperties
  <1>2. Append(s, Head(r)) = s \o <<Head(r)>>
    BY <1>1
  <1>3. (s \o <<Head(r)>>) \o Tail(r) = s \o (<<Head(r)>> \o Tail(r))
    <2> DEFINE u == <<Head(r)>>
               v == Tail(r)
    <2>1. u \in Seq(A) /\ v \in Seq(A)
      BY <1>1
    <2> HIDE DEF u, v
    <2>2. (s \o u) \o v = s \o (u \o v)
      BY <2>1, ConcatAssociative
    <2> QED BY <2>2 DEF u, v
  <1> QED BY <1>1, <1>2, <1>3

LEMMA AppendThenNothing ==
  ASSUME NEW A, NEW s \in Seq(A), NEW e \in A
  PROVE  Append(s, e) \o << >> = s \o <<e>>
  <1>1. Append(s, e) \in Seq(A) /\ Append(s, e) = s \o <<e>>
    OBVIOUS
  <1> DEFINE u == Append(s, e)
  <1> HIDE DEF u
  <1>2. u \in Seq(A)
    BY <1>1 DEF u
  <1>3. u \o << >> = u
    BY <1>2
  <1> QED BY <1>1, <1>3 DEF u

LEMMA PrintsPutc ==
  ASSUME ConsoleInv, PrintInv, NEW t \in Tasks, Putc(t) PROVE PrintInv'
  <1> DEFINE c == call[t]
             n == Len(c.fmt)
  <1>1. CallOK(c) /\ c.fmt \in Seq(Items) /\ c.args \in Seq(Nat) /\ n \in Nat
    BY CallsOK DEF PrintInv
  <1>2. PICK i, rem : Printed(t, i, rem)
    BY DEF PrintInv
  <1>3. /\ pc[t] = "ready" /\ todo[t] # << >> /\ ~IsConversion(Head(todo[t]))
        /\ i \in 0 .. n /\ rem \in Seq(Chars) /\ out[t] \in Seq(Chars)
        /\ todo[t] = Lits(rem) \o Rest(c.fmt, i)
        /\ args[t] = Rest(c.args, Nth(c, i)) /\ out[t] \o rem = Flat(c, i)
    BY <1>2 DEF Putc, Goto, Printed
  <1>4. Rest(c.fmt, i) \in Seq(Items) /\ Lits(rem) \in Seq(Items)
    BY <1>1, <1>3, RestIs, LitsIs
  <1>5. /\ ch' = [ch EXCEPT ![t] = Head(todo[t]).param]
        /\ todo' = [todo EXCEPT ![t] = Tail(todo[t])]
        /\ pc' = [pc EXCEPT ![t] = "load"]
        /\ args' = args /\ call' = call /\ out' = out /\ smashed' = smashed
    BY DEF Putc, Goto
  <1>6. /\ pc'[t] = "load" /\ todo'[t] = Tail(todo[t]) /\ ch'[t] = Head(todo[t]).param
        /\ \A u \in Tasks \ {t} : /\ todo'[u] = todo[u] /\ args'[u] = args[u]
                                  /\ out'[u] = out[u] /\ ch'[u] = ch[u] /\ pc'[u] = pc[u]
        /\ DOMAIN todo' = Tasks /\ DOMAIN args' = Tasks /\ DOMAIN ch' = Tasks
        /\ out' \in [Tasks -> Seq(Chars)] /\ ~smashed'
    BY <1>5 DEF PrintInv, ConsoleInv, PutcInv
  <1>7. CASE rem # << >>
    <2> DEFINE h == Head(rem)
               r == Tail(rem)
    <2>1. Lits(rem) # << >> /\ Head(Lits(rem)) = Lit(h) /\ Tail(Lits(rem)) = Lits(r)
      BY <1>3, <1>7, LitsIs
    <2>2. Head(todo[t]) = Lit(h) /\ Tail(todo[t]) = Lits(r) \o Rest(c.fmt, i)
      <3> DEFINE x == Lits(rem)
                 y == Rest(c.fmt, i)
      <3>1. x \in Seq(Items) /\ y \in Seq(Items) /\ x # << >>
        BY <1>4, <2>1
      <3>2. todo[t] = x \o y
        BY <1>3
      <3>3. Head(x) = Lit(h) /\ Tail(x) = Lits(r)
        BY <2>1
      <3> HIDE DEF x, y, h, r
      <3>4. Head(x \o y) = Head(x) /\ Tail(x \o y) = Tail(x) \o y
        BY <3>1, HeadOfConcat
      <3>5. Head(todo[t]) = Lit(h) /\ Tail(todo[t]) = Lits(r) \o y
        BY <3>2, <3>3, <3>4
      <3> QED BY <3>5 DEF y
    <2>3. Append(out[t], h) \o r = out[t] \o rem /\ h \in Chars /\ r \in Seq(Chars)
      BY <1>3, <1>7, TakesOne
    <2>4. ch'[t] = h
      BY <1>6, <2>2 DEF Lit
    <2> HIDE DEF h, r
    <2>5. Printed(t, i, r)'
      <3>1. call'[t] = c /\ out'[t] = out[t] /\ args'[t] = args[t] /\ todo'[t] = Lits(r) \o Rest(c.fmt, i)
        BY <1>5, <1>6, <2>2
      <3>2. Append(out[t], ch'[t]) \o r = Flat(c, i) /\ ch'[t] \in Chars
        BY <1>3, <2>3, <2>4
      <3> QED BY <1>3, <1>6, <2>3, <3>1, <3>2 DEF Printed
    <2> QED BY <1>5, <1>6, <2>5, OthersPrinted
  <1>8. CASE rem = << >>
    <2>1. todo[t] = Rest(c.fmt, i)
      <3>1. Lits(rem) = << >>
        BY <1>3, <1>8, LitsIs
      <3> QED BY <1>3, <1>4, <3>1
    <2>2. i < n
      <3> SUFFICES ASSUME ~(i < n) PROVE FALSE
        OBVIOUS
      <3>1. i = Len(c.fmt)
        BY <1>1, <1>3
      <3>2. Rest(c.fmt, i) = << >>
        BY <1>1, <1>3, <3>1, RestIs
      <3> QED BY <1>3, <2>1, <3>2
    <2>3. Head(todo[t]) = c.fmt[i + 1] /\ Tail(todo[t]) = Rest(c.fmt, i + 1)
      BY <1>1, <1>3, <2>1, <2>2, RestIs
    <2>4. i \in 0 .. n - 1 /\ i + 1 \in 1 .. n /\ i + 1 \in 0 .. n
      BY <1>1, <1>3, <2>2
    <2>5. ~IsConversion(c.fmt[i + 1])
      BY <1>3, <2>3
    <2> DEFINE p == c.fmt[i + 1].param
    <2>6. Nth(c, i + 1) = Nth(c, i)
      BY <1>1, <2>4, <2>5, NthGrows
    <2>7. Meaning(c, i + 1) = <<p>> /\ p \in Chars
      BY <1>1, <2>4, <2>5, MeaningIs
    <2>8. Flat(c, i + 1) = Flat(c, i) \o <<p>>
      BY <1>1, <2>4, <2>7, FlatGrows
    <2>9. Append(out[t], p) \o << >> = Flat(c, i + 1)
      <3>1. Flat(c, i) = out[t]
        BY <1>3, <1>8
      <3> HIDE DEF p
      <3>2. Append(out[t], p) \o << >> = out[t] \o <<p>>
        BY <1>3, <2>7, AppendThenNothing
      <3> QED BY <2>8, <3>1, <3>2
    <2>10. Lits(<< >>) \o Rest(c.fmt, i + 1) = Rest(c.fmt, i + 1)
      <3>1. Lits(<< >>) = << >>
        BY NoLits
      <3>2. Rest(c.fmt, i + 1) \in Seq(Items)
        BY <1>1, <2>4, RestIs
      <3> QED BY <3>1, <3>2
    <2>11. Printed(t, i + 1, << >>)'
      <3>1. /\ call'[t] = c /\ out'[t] = out[t] /\ args'[t] = Rest(c.args, Nth(c, i + 1))
            /\ todo'[t] = Lits(<< >>) \o Rest(c.fmt, i + 1) /\ ch'[t] = p
        BY <1>3, <1>5, <1>6, <2>3, <2>6, <2>10
      <3>2. << >> \in Seq(Chars) /\ i + 1 \in 0 .. Len(c.fmt)
        BY <2>4
      <3> HIDE DEF p, c
      <3> QED BY <1>3, <1>6, <2>7, <2>9, <3>1, <3>2 DEF Printed
    <2> QED BY <1>5, <1>6, <2>11, OthersPrinted
  <1> QED BY <1>7, <1>8

LEMMA PrintsStore ==
  ASSUME ConsoleInv, PrintInv, NEW t \in Tasks, NEW f \in {"x", "y"}, Store(t, f) PROVE PrintInv'
  <1>1. CASE pos'[t] # Unread
    BY <1>1, PrintStutter DEF Store, printVars
  <1>2. CASE pos'[t] = Unread
    <2>1. PICK i, rem : Printed(t, i, rem)
      BY DEF PrintInv
    <2>2. /\ pc' = [pc EXCEPT ![t] = "ready"] /\ out' = [out EXCEPT ![t] = Append(out[t], ch[t])]
          /\ ch' = ch /\ call' = call /\ todo' = todo /\ args' = args /\ smashed' = smashed
          /\ pc[t] = "store"
      BY <1>2 DEF Store
    <2>3. ch[t] \in Chars /\ out[t] \in Seq(Chars)
      BY <2>1, <2>2 DEF Printed
    <2>4. out' \in [Tasks -> Seq(Chars)] /\ out'[t] = Append(out[t], ch[t]) /\ pc'[t] = "ready"
      BY <2>2, <2>3 DEF PrintInv, ConsoleInv, PutcInv
    <2>5. Printed(t, i, rem)'
      <3>1. out'[t] \in Seq(Chars)
        BY <2>4
      <3> QED BY <2>1, <2>2, <2>4, <3>1 DEF Printed
    <2>6. \A u \in Tasks \ {t} : out'[u] = out[u] /\ pc'[u] = pc[u]
      BY <2>2 DEF PrintInv, ConsoleInv, PutcInv
    <2>7. DOMAIN todo' = Tasks /\ DOMAIN args' = Tasks /\ DOMAIN ch' = Tasks /\ ~smashed'
      BY <2>2 DEF PrintInv
    <2> QED BY <2>2, <2>4, <2>5, <2>6, <2>7, OthersPrinted
  <1> QED BY <1>1, <1>2

LEMMA PrintStep == ConsoleInv /\ PrintInv /\ [Next]_vars => PrintInv'
  <1> SUFFICES ASSUME ConsoleInv, PrintInv, [Next]_vars PROVE PrintInv'
    OBVIOUS
  <1>0. pc \in [Tasks -> {"ready", "load", "draw", "move", "scroll", "store"}]
    BY DEF ConsoleInv, PutcInv
  <1>1. CASE UNCHANGED vars
    BY <1>1, PrintStutter DEF vars, putcVars
  <1>2. CASE VideoInit
    BY <1>2, PrintStutter DEF VideoInit, putcVars
  <1>3. CASE Clear
    BY <1>3, PrintStutter DEF Clear, putcVars
  <1>4. ASSUME NEW t \in Tasks, Draw(t) PROVE PrintInv'
    <2>1. /\ \A u \in Tasks : pc'[u] = "ready" <=> pc[u] = "ready"
          /\ UNCHANGED <<printVars, ch>>
      BY <1>0, <1>4 DEF Draw
    <2> QED BY <2>1, PrintStutter
  <1>5. ASSUME NEW t \in Tasks, Move(t) PROVE PrintInv'
    <2>1. /\ \A u \in Tasks : pc'[u] = "ready" <=> pc[u] = "ready"
          /\ UNCHANGED <<printVars, ch>>
      BY <1>0, <1>5 DEF Move
    <2> QED BY <2>1, PrintStutter
  <1>6. ASSUME NEW t \in Tasks, Scroll(t) PROVE PrintInv'
    <2>1. /\ \A u \in Tasks : pc'[u] = "ready" <=> pc[u] = "ready"
          /\ UNCHANGED <<printVars, ch>>
      BY <1>0, <1>6 DEF Scroll
    <2> QED BY <2>1, PrintStutter
  <1>7. ASSUME NEW t \in Tasks, NEW f \in {"x", "y"}, Load(t, f) PROVE PrintInv'
    <2>1. /\ \A u \in Tasks : pc'[u] = "ready" <=> pc[u] = "ready"
          /\ UNCHANGED <<printVars, ch>>
      BY <1>0, <1>7 DEF Load
    <2> QED BY <2>1, PrintStutter
  <1>8. ASSUME NEW t \in Tasks, Convert(t) PROVE PrintInv'
    BY <1>8, PrintsConvert
  <1>9. ASSUME NEW t \in Tasks, Putc(t) PROVE PrintInv'
    BY <1>9, PrintsPutc
  <1>10. ASSUME NEW t \in Tasks, NEW f \in {"x", "y"}, Store(t, f) PROVE PrintInv'
    BY <1>10, PrintsStore
  <1> QED BY <1>1, <1>2, <1>3, <1>4, <1>5, <1>6, <1>7, <1>8, <1>9, <1>10 DEF Next

LEMMA PrintIs == PrintInv => PrintedExact
  <1> SUFFICES ASSUME PrintInv PROVE PrintedExact
    OBVIOUS
  <1>1. ASSUME NEW t \in Tasks, pc[t] = "ready", todo[t] = << >> PROVE out[t] = Reference(call[t])
    <2> DEFINE c == call[t]
    <2>1. CallOK(c) /\ c.fmt \in Seq(Items) /\ Len(c.fmt) \in Nat
      BY CallsOK DEF PrintInv
    <2>2. PICK i, rem : Printed(t, i, rem)
      BY DEF PrintInv
    <2>3. /\ i \in 0 .. Len(c.fmt) /\ rem \in Seq(Chars) /\ out[t] \in Seq(Chars)
          /\ Lits(rem) \o Rest(c.fmt, i) = << >> /\ out[t] \o rem = Flat(c, i)
      BY <1>1, <2>2 DEF Printed
    <2>4. /\ Lits(rem) \in Seq(Items) /\ Rest(c.fmt, i) \in Seq(Items)
          /\ Len(Lits(rem)) = Len(rem) /\ Len(Rest(c.fmt, i)) = Len(c.fmt) - i
      BY <2>1, <2>3, LitsIs, RestIs
    <2>5. Len(rem) = 0 /\ Len(c.fmt) - i = 0
      <3>1. Len(Lits(rem) \o Rest(c.fmt, i)) = Len(Lits(rem)) + Len(Rest(c.fmt, i))
        BY <2>4, ConcatProperties
      <3>2. Len(rem) \in Nat /\ Len(c.fmt) - i \in Nat
        BY <2>1, <2>3
      <3>3. Len(rem) + (Len(c.fmt) - i) = 0
        BY <2>3, <2>4, <3>1
      <3> QED BY <3>2, <3>3
    <2>6. i = Len(c.fmt) /\ rem = << >>
      BY <2>1, <2>3, <2>5, EmptySeq
    <2>7. out[t] = Flat(c, Len(c.fmt))
      BY <2>3, <2>6
    <2> QED BY <2>1, <2>7, FlatGrows
  <1> QED BY <1>1 DEF PrintInv, PrintedExact

\* What printf has printed and what is left agree with its format at every step.
THEOREM PrintInvariant == Spec => []PrintInv
  BY PrintInitially, PrintStep, ConsoleInvariant, PTL DEF Spec

\* printf prints what its format and arguments say, each number in full and no
\* wider than asked, and no number overruns its array: PrintedExact, for every
\* format and all arguments of 32 bits.
THEOREM PrintingExact == Spec => []PrintedExact
  BY PrintInvariant, PrintIs, PTL
----------------------------------------------------------------------------
(* The terminal. The paper of module Terminal is laid over the             *)
(* framebuffer: which line of it each pixel line shows, at every step of   *)
(* putc.                                                                   *)

\* Line i of the paper, as wide as the screen, and column k of it.
Sheet(q, i, k) == IF i <= Len(q) /\ k < Len(q[i]) THEN q[i][k + 1] ELSE Blank
Row(q, i) == [k \in 0 .. Cols - 1 |-> Sheet(q, i, k)]

\* The lines of the paper above the screen, and where the next character goes.
Top(q) == IF Len(q) <= Rows - 1 THEN 0 ELSE Len(q) - (Rows - 1)
Cur(q) == [x |-> Len(q[Len(q)]), y |-> (Len(q) - 1) - Top(q)]

\* The pixel lines of the rows with text; one of them shows its line of the paper.
TextLines == 0 .. (Rows - 1) * CharHeight - 1
Shows(q, top, l) == fb[l] = Row(q, top + (l \div CharHeight) + 1)

\* Between two calls of putc, q on the screen.
Still(q) ==
    /\ cursor_pos = Cur(q)
    /\ boot = "up" => \A l \in TextLines : Shows(q, Top(q), l)

\* Task t is in putc, q is the paper before and r the paper behind the call.
Writing(t, q, r) ==
    /\ pc[t] # "store" => cursor_pos = Cur(q)
    /\ pc[t] = "load" => /\ \A f \in {"x", "y"} : pos[t][f] \in {None, Cur(q)[f]}
                         /\ \A l \in TextLines : Shows(q, Top(q), l)
    /\ pc[t] = "draw" => /\ pos[t] = Cur(q)
                         /\ \A l \in TextLines : IF l < Cur(q).y * CharHeight + line[t]
                                                 THEN Shows(r, Top(q), l) ELSE Shows(q, Top(q), l)
    /\ pc[t] = "move" => /\ pos[t] = Cur(q)
                         /\ \A l \in TextLines : Shows(r, Top(q), l)
    /\ pc[t] = "scroll" => /\ pos[t] = Cur(r) /\ Top(r) = Top(q) + 1
                           /\ \A l \in TextLines : IF l < line[t] THEN Shows(r, Top(r), l)
                                                                  ELSE Shows(r, Top(q), l)
    /\ pc[t] = "store" => /\ \A f \in {"x", "y"} : \/ pos[t][f] = Cur(r)[f]
                                                   \/ pos[t][f] = None /\ cursor_pos[f] = Cur(r)[f]
                          /\ \A l \in TextLines : Shows(r, Top(r), l)

\* The paper as it is, and as the character of task t will leave it.
Before == Term!Paper(text)
After(t) == Term!Type(Before, ch[t])

TextInv ==
    ~torn =>
      /\ text \in Seq(Chars) /\ (boot # "up" => text = << >>)
      /\ \A t, u \in Tasks : pc[t] # "ready" /\ pc[u] # "ready" => t = u
      /\ (\A t \in Tasks : pc[t] = "ready") => Still(Before)
      /\ \A t \in Tasks : pc[t] # "ready" => Writing(t, Before, After(t))

\* Papers as Type leaves them: the last line has room for a character.
Papers == {q \in Seq(Seq(Chars)) : Len(q) >= 1 /\ Len(q[Len(q)]) < Cols}

\* A character ends its line.
EndsLine(q, c) == c = Newline \/ Len(q[Len(q)]) + 1 >= Cols

\* What Type does, seen on the sheet: only the cell at the cursor changes.
Typed(q, c, r) ==
    /\ r \in Papers
    /\ \A i \in Nat \ {0}, k \in 0 .. Cols - 1 :
         Sheet(r, i, k) = IF c # Newline /\ i = Len(q) /\ k = Len(q[Len(q)]) THEN c
                                                                            ELSE Sheet(q, i, k)
    /\ EndsLine(q, c) => Len(r) = Len(q) + 1 /\ r[Len(r)] = << >>
    /\ ~EndsLine(q, c) => Len(r) = Len(q) /\ Len(r[Len(r)]) = Len(q[Len(q)]) + 1

\* Type does what Typed says.
LEMMA TypeIs ==
  ASSUME mode \in Modes, NEW q \in Papers, NEW c \in Chars
  PROVE  Typed(q, c, Term!Type(q, c))
  <1> DEFINE n == Len(q)
             last == q[n]
             w == Append(last, c)
             r == Term!Type(q, c)
  <1>1. Cols \in Nat /\ Cols >= 1
    BY Sizes
  <1>2. q \in Seq(Seq(Chars)) /\ n \in Nat /\ n >= 1 /\ last \in Seq(Chars) /\ Len(last) \in Nat /\ Len(last) < Cols
    <2>1. q \in Seq(Seq(Chars)) /\ n >= 1 /\ Len(last) < Cols
      BY DEF Papers
    <2>2. n \in Nat
      BY <2>1
    <2>3. last \in Seq(Chars)
      BY <2>1, <2>2
    <2> QED BY <2>1, <2>2, <2>3
  <1>3. \A i \in 1 .. n : q[i] \in Seq(Chars) /\ Len(q[i]) \in Nat
    BY <1>2
  <1>4. /\ w \in Seq(Chars) /\ Len(w) = Len(last) + 1 /\ w[Len(last) + 1] = c
        /\ \A j \in 1 .. Len(last) : w[j] = last[j]
    BY <1>2, AppendProperties
  <1> DEFINE q1 == [q EXCEPT ![n] = w]
  <1>5. CASE c = Newline
    <2>1. r = Append(q, << >>)
      BY <1>5 DEF Term!Type
    <2> HIDE DEF r
    <2>2. << >> \in Seq(Chars) /\ Len(<< >>) = 0
      OBVIOUS
    <2>3. /\ r \in Seq(Seq(Chars)) /\ Len(r) = n + 1 /\ r[n + 1] = << >>
          /\ \A i \in 1 .. n : r[i] = q[i]
      BY <1>2, <2>1, <2>2, AppendProperties
    <2>4. r \in Papers
      BY <1>1, <1>2, <2>2, <2>3 DEF Papers
    <2>5. ASSUME NEW i \in Nat \ {0}, NEW k \in 0 .. Cols - 1 PROVE Sheet(r, i, k) = Sheet(q, i, k)
      <3>1. CASE i <= n
        <4>1. i \in 1 .. n
          BY <1>2, <3>1
        <4>2. r[i] = q[i]
          BY ONLY <2>3, <4>1
        <4>3. i <= Len(r) /\ i <= Len(q)
          BY <1>2, <2>3, <4>1
        <4> QED BY <4>2, <4>3 DEF Sheet
      <3>2. CASE i = n + 1
        BY <1>1, <1>2, <2>2, <2>3, <3>2 DEF Sheet
      <3>3. CASE i > n + 1
        BY <1>2, <2>3, <3>3 DEF Sheet
      <3> QED BY <1>2, <3>1, <3>2, <3>3
    <2>6. \A i \in Nat \ {0}, k \in 0 .. Cols - 1 :
            Sheet(r, i, k) = IF c # Newline /\ i = n /\ k = Len(last) THEN c ELSE Sheet(q, i, k)
      BY <1>5, <2>5
    <2>7. Len(r) = Len(q) + 1 /\ r[Len(r)] = << >> /\ EndsLine(q, c)
      BY <1>5, <2>3 DEF EndsLine
    <2> HIDE DEF last
    <2>8. Typed(q, c, r)
      BY <2>4, <2>6, <2>7 DEF Typed, last
    <2> QED BY <2>8 DEF r
  <1>6. CASE c # Newline
    <2> HIDE DEF w
    <2>1. /\ q1 \in Seq(Seq(Chars)) /\ Len(q1) = n /\ q1[n] = w
          /\ \A i \in 1 .. n - 1 : q1[i] = q[i]
      BY <1>2, <1>4
    <2>2. r = IF Len(w) = Cols THEN Append(q1, << >>) ELSE q1
      BY <1>6 DEF Term!Type, w
    <2> HIDE DEF r, q1
    <2>3. ASSUME NEW i \in Nat \ {0}, NEW k \in 0 .. Cols - 1
          PROVE  Sheet(q1, i, k) = IF c # Newline /\ i = n /\ k = Len(last) THEN c ELSE Sheet(q, i, k)
      <3>1. CASE i > n
        BY <1>2, <2>1, <3>1 DEF Sheet
      <3>2. CASE i < n
        <4>1. i \in 1 .. n - 1
          BY <1>2, <3>2
        <4>2. q1[i] = q[i]
          BY <2>1, <4>1
        <4> QED BY <1>2, <2>1, <3>2, <4>2 DEF Sheet
      <3>3. CASE i = n
        <4>1. CASE k < Len(last)
          <5>1. k + 1 \in 1 .. Len(last)
            BY <1>2, <4>1
          <5>2. w[k + 1] = last[k + 1]
            BY <1>4, <5>1
          <5> QED BY <1>2, <1>4, <2>1, <3>3, <4>1, <5>2 DEF Sheet
        <4>2. CASE k = Len(last)
          BY <1>2, <1>4, <1>6, <2>1, <3>3, <4>2 DEF Sheet
        <4>3. CASE k > Len(last)
          BY <1>2, <1>4, <2>1, <3>3, <4>3 DEF Sheet
        <4> QED BY <1>2, <4>1, <4>2, <4>3
      <3> QED BY <1>2, <3>1, <3>2, <3>3
    <2>4. CASE Len(w) = Cols
      <3>1. r = Append(q1, << >>)
        BY <2>2, <2>4
      <3>2. << >> \in Seq(Chars) /\ Len(<< >>) = 0
        OBVIOUS
      <3>3. /\ r \in Seq(Seq(Chars)) /\ Len(r) = n + 1 /\ r[n + 1] = << >>
            /\ \A i \in 1 .. n : r[i] = q1[i]
        BY <1>2, <2>1, <3>1, <3>2, AppendProperties
      <3>4. r \in Papers
        BY <1>1, <1>2, <3>2, <3>3 DEF Papers
      <3>5. ASSUME NEW i \in Nat \ {0}, NEW k \in 0 .. Cols - 1 PROVE Sheet(r, i, k) = Sheet(q1, i, k)
        <4>1. CASE i <= n
          <5>1. i \in 1 .. n
            BY <1>2, <4>1
          <5>2. r[i] = q1[i]
            BY ONLY <3>3, <5>1
          <5>3. i <= Len(r) /\ i <= Len(q1)
            BY <1>2, <2>1, <3>3, <5>1
          <5> QED BY <5>2, <5>3 DEF Sheet
        <4>2. CASE i = n + 1
          BY <1>1, <1>2, <2>1, <3>2, <3>3, <4>2 DEF Sheet
        <4>3. CASE i > n + 1
          <5>0. Len(r) = n + 1 /\ Len(q1) = n /\ n \in Nat
            BY <1>2, <2>1, <3>3
          <5>1. ~(i <= Len(r)) /\ ~(i <= Len(q1))
            <6> HIDE DEF n
            <6> QED BY <5>0, <4>3
          <5> QED BY <5>1 DEF Sheet
        <4> QED BY <1>2, <4>1, <4>2, <4>3
      <3>6. EndsLine(q, c)
        BY <1>1, <1>2, <1>4, <2>4 DEF EndsLine
      <3>7. \A i \in Nat \ {0}, k \in 0 .. Cols - 1 :
              Sheet(r, i, k) = IF c # Newline /\ i = n /\ k = Len(last) THEN c ELSE Sheet(q, i, k)
        BY <2>3, <3>5
      <3>8. Len(r) = Len(q) + 1 /\ r[Len(r)] = << >>
        BY <3>3
      <3> HIDE DEF last
      <3>9. Typed(q, c, r)
        BY <3>4, <3>6, <3>7, <3>8 DEF Typed, last
      <3> QED BY <3>9 DEF r
    <2>5. CASE Len(w) # Cols
      <3>1. r = q1
        BY <2>2, <2>5
      <3>2. ~EndsLine(q, c) /\ Len(w) < Cols
        BY <1>1, <1>2, <1>4, <1>6, <2>5 DEF EndsLine
      <3>3. r \in Papers
        BY <1>2, <2>1, <3>1, <3>2 DEF Papers
      <3>4. \A i \in Nat \ {0}, k \in 0 .. Cols - 1 :
              Sheet(r, i, k) = IF c # Newline /\ i = n /\ k = Len(last) THEN c ELSE Sheet(q, i, k)
        BY <2>3, <3>1
      <3>5. Len(r) = Len(q) /\ Len(r[Len(r)]) = Len(q[Len(q)]) + 1
        BY <1>4, <2>1, <3>1
      <3> HIDE DEF last
      <3>6. Typed(q, c, r)
        BY <3>2, <3>3, <3>4, <3>5 DEF Typed, last
      <3> QED BY <3>6 DEF r
    <2> QED BY <2>4, <2>5
  <1> QED BY <1>5, <1>6

LEMMA BlankPaper ==
  ASSUME mode \in Modes
  PROVE  << << >> >> \in Papers
  <1>1. Cols \in Nat /\ Cols >= 1
    BY Sizes
  <1>2. << << >> >> \in Seq(Seq(Chars)) /\ Len(<< << >> >>) = 1 /\ << << >> >>[1] = << >> /\ Len(<< >>) = 0
    OBVIOUS
  <1> QED BY <1>1, <1>2 DEF Papers

LEMMA PaperOfPrefix ==
  ASSUME mode \in Modes, NEW g \in [Nat -> Chars]
  PROVE  /\ Term!Paper([j \in 1 .. 0 |-> g[j]]) = << << >> >>
         /\ \A i \in Nat : Term!Paper([j \in 1 .. i |-> g[j]]) \in Papers
         /\ \A i \in Nat : Term!Paper([j \in 1 .. i + 1 |-> g[j]])
                             = Term!Type(Term!Paper([j \in 1 .. i |-> g[j]]), g[i + 1])
  <1> DEFINE typ(q, c) == Term!Type(q, c)
             B == Papers
             a == << << >> >>
             h == [x \in Nat \X B |-> typ(x[2], g[x[1] + 1])]
  <1>0. (\A q \in B : \A c \in Chars : typ(q, c) \in B) /\ a \in B
    BY TypeIs, BlankPaper DEF Typed
  <1> HIDE DEF typ, B, a
  <1>1. h \in [Nat \X B -> B]
    BY <1>0
  <1>2. \A n \in Nat, q \in B : h[<<n, q>>] = typ(q, g[n + 1])
    BY <1>0
  <1> HIDE DEF h
  <1>3. \E f : Follows(f, B, a, h)
    BY <1>0, <1>1, NatRecursion
  <1>4. PICK F : F \in [Nat -> B] /\ F[0] = a /\ \A n \in Nat : F[n + 1] = h[<<n, F[n]>>]
    BY <1>3 DEF Follows
  <1>5. \A n \in Nat : F[n] \in B /\ F[n + 1] = typ(F[n], g[n + 1])
    BY <1>2, <1>4
  <1>6. ASSUME NEW i \in Nat PROVE Term!Paper([j \in 1 .. i |-> g[j]]) = F[i]
    <2> DEFINE s == [j \in 1 .. i |-> g[j]]
    <2>1. Len(s) = i /\ \A k \in 1 .. i : s[k] = g[k]
      OBVIOUS
    <2> HIDE DEF s
    <2> DEFINE E(f, k) == IF k = 0 THEN a ELSE typ(f[k - 1], s[k])
               Body(f) == [k \in 0 .. i |-> E(f, k)]
               D == CHOOSE f : f = Body(f)
               G == [k \in 0 .. i |-> F[k]]
    <2>2. Term!Paper(s) = D[i]
      BY <2>1 DEF Term!Paper, typ, a
    <2>3. \A k \in 0 .. i : G[k] = E(G, k)
      <3> SUFFICES ASSUME NEW k \in 0 .. i PROVE G[k] = E(G, k)
        OBVIOUS
      <3>1. CASE k = 0
        BY <3>1, <1>4
      <3>2. CASE k # 0
        <4>1. k - 1 \in Nat /\ (k - 1) + 1 = k /\ k \in 1 .. i /\ k - 1 \in 0 .. i
          BY <3>2
        <4>2. F[k] = typ(F[k - 1], g[k])
          BY <4>1, <1>5
        <4>3. G[k - 1] = F[k - 1] /\ G[k] = F[k] /\ s[k] = g[k]
          BY <4>1, <2>1
        <4> QED BY <3>2, <4>2, <4>3
      <3> QED BY <3>1, <3>2
    <2>4. G = Body(G)
      <3>1. G = [k \in 0 .. i |-> G[k]]
        OBVIOUS
      <3> HIDE DEF G, E
      <3> QED BY <2>3, <3>1
    <2>5. D = Body(D)
      <3> HIDE DEF Body, G
      <3> QED BY <2>4
    <2>6. \A k \in 0 .. i : D[k] = E(D, k)
      <3> HIDE DEF D, E
      <3> QED BY <2>5
    <2> HIDE DEF D
    <2> DEFINE U == {k \in Nat : k \in 0 .. i => D[k] = F[k]}
    <2>7. 0 \in U
      BY <1>4, <2>6
    <2>8. ASSUME NEW k \in Nat, k \in U PROVE k + 1 \in U
      <3> SUFFICES ASSUME k + 1 \in 0 .. i PROVE D[k + 1] = F[k + 1]
        OBVIOUS
      <3>1. k \in 0 .. i /\ k + 1 \in 1 .. i /\ k + 1 # 0 /\ (k + 1) - 1 = k
        OBVIOUS
      <3>2. D[k + 1] = typ(D[k], s[k + 1])
        BY <2>6, <3>1
      <3>3. D[k] = F[k]
        BY <2>8, <3>1
      <3>4. F[k + 1] = typ(F[k], s[k + 1])
        BY <1>5, <2>1, <3>1
      <3> QED BY <3>2, <3>3, <3>4
    <2>9. i \in U
      <3> HIDE DEF U
      <3>1. Nat \subseteq U
        BY <2>7, <2>8, AllNumbers
      <3> QED BY <3>1
    <2>10. D[i] = F[i]
      BY <2>9
    <2> QED BY <2>2, <2>10 DEF s
  <1> DEFINE Pp(i) == Term!Paper([j \in 1 .. i |-> g[j]])
  <1>7. \A i \in Nat : Pp(i) = F[i]
    BY <1>6
  <1> HIDE DEF Pp
  <1>8. Pp(0) = a
    BY <1>4, <1>7
  <1>9. \A i \in Nat : Pp(i) \in B /\ Pp(i + 1) = typ(Pp(i), g[i + 1])
    <2> SUFFICES ASSUME NEW i \in Nat PROVE Pp(i) \in B /\ Pp(i + 1) = typ(Pp(i), g[i + 1])
      OBVIOUS
    <2>1. i + 1 \in Nat
      OBVIOUS
    <2> QED BY <2>1, <1>5, <1>7
  <1> QED BY <1>8, <1>9 DEF Pp, typ, B, a

\* Paper, one character after the other.
LEMMA PaperGrows ==
  ASSUME mode \in Modes, NEW s \in Seq(Chars), NEW c \in Chars
  PROVE  /\ Term!Paper(<< >>) = << << >> >>
         /\ Term!Paper(s) \in Papers
         /\ Term!Paper(Append(s, c)) = Term!Type(Term!Paper(s), c)
  <1> DEFINE n == Len(s)
             g == [j \in Nat |-> IF j \in 1 .. n THEN s[j] ELSE c]
             Pre(i) == [j \in 1 .. i |-> g[j]]
  <1>1. n \in Nat /\ g \in [Nat -> Chars]
    OBVIOUS
  <1>2. Pre(0) = << >>
    OBVIOUS
  <1>3. Pre(n) = s
    <2>1. s = [j \in 1 .. n |-> s[j]]
      OBVIOUS
    <2>2. \A j \in 1 .. n : g[j] = s[j]
      BY <1>1
    <2> QED BY <2>1, <2>2
  <1>4. Pre(n + 1) = Append(s, c)
    <2>1. Append(s, c) \in Seq(Chars) /\ Len(Append(s, c)) = n + 1
      BY AppendProperties
    <2>2. \A j \in 1 .. n + 1 : Append(s, c)[j] = g[j]
      <3>1. (\A j \in 1 .. n : Append(s, c)[j] = s[j]) /\ Append(s, c)[n + 1] = c
        BY AppendProperties
      <3>2. (\A j \in 1 .. n : g[j] = s[j]) /\ g[n + 1] = c
        BY <1>1
      <3>3. \A j \in 1 .. n + 1 : j \in 1 .. n \/ j = n + 1
        BY <1>1
      <3> DEFINE v == Append(s, c)
      <3> HIDE DEF v, g
      <3> QED BY <3>1, <3>2, <3>3 DEF v
    <2> DEFINE v == Append(s, c)
    <2> HIDE DEF v, g
    <2>3. v \in Seq(Chars) /\ Len(v) = n + 1 /\ \A j \in 1 .. n + 1 : v[j] = g[j]
      BY <2>1, <2>2 DEF v
    <2>4. v = [j \in 1 .. n + 1 |-> v[j]]
      BY <2>3
    <2>5. v = Pre(n + 1)
      BY <2>3, <2>4
    <2> QED BY <2>5 DEF v
  <1>5. g[n + 1] = c
    BY <1>1
  <1> HIDE DEF g
  <1> DEFINE Pp(i) == Term!Paper(Pre(i))
  <1>6. Pp(0) = << << >> >>
    BY <1>1, PaperOfPrefix
  <1>7. \A i \in Nat : Pp(i) \in Papers
    BY <1>1, PaperOfPrefix
  <1>8. \A i \in Nat : Pp(i + 1) = Term!Type(Pp(i), g[i + 1])
    BY <1>1, PaperOfPrefix
  <1> HIDE DEF Pre
  <1>9. Pp(n) = Term!Paper(s) /\ Pp(n + 1) = Term!Paper(Append(s, c)) /\ Pp(0) = Term!Paper(<< >>)
    BY <1>2, <1>3, <1>4
  <1> HIDE DEF Pp
  <1>10. Pp(n) \in Papers /\ Pp(n + 1) = Term!Type(Pp(n), c)
    BY <1>1, <1>5, <1>7, <1>8
  <1> QED BY <1>6, <1>9, <1>10

\* Where Type moves the end of the text, putc moves the cursor; a scroll is due
\* when the line that is begun lies below the screen.
LEMMA CursorMoves ==
  ASSUME mode \in Modes, NEW q \in Papers, NEW c \in Chars, NEW r, Typed(q, c, r),
         NEW p, p = Advance(Cur(q), c)
  PROVE  /\ Cur(q).x \in 0 .. Cols - 1 /\ Cur(q).y \in 0 .. Rows - 2
         /\ Top(q) \in Nat /\ Top(q) + Cur(q).y + 1 = Len(q)
         /\ Scrolls(p) => /\ Top(r) = Top(q) + 1 /\ Cur(r) = [p EXCEPT !.y = p.y - 1]
                          /\ r[Len(r)] = << >> /\ Len(r) = Top(r) + (Rows - 1)
         /\ ~Scrolls(p) => Top(r) = Top(q) /\ Cur(r) = p
  <1>1. Cols \in Nat /\ Cols >= 1 /\ Rows \in Nat /\ Rows >= 2
    BY Sizes
  <1>2. /\ Len(q) \in Nat /\ Len(q) >= 1
        /\ Len(q[Len(q)]) \in Nat /\ Len(q[Len(q)]) < Cols
    <2>1. q \in Seq(Seq(Chars)) /\ Len(q) >= 1 /\ Len(q[Len(q)]) < Cols
      BY DEF Papers
    <2>2. Len(q) \in Nat
      BY <2>1
    <2>3. q[Len(q)] \in Seq(Chars)
      BY <2>1, <2>2
    <2> QED BY <2>1, <2>2, <2>3
  <1> DEFINE n == Len(q)
             x == Len(q[n])
             y == (n - 1) - Top(q)
  <1>3. Cur(q) = [x |-> x, y |-> y]
    BY DEF Cur
  <1>4. Top(q) \in Nat /\ y \in 0 .. Rows - 2 /\ Top(q) + y + 1 = n
    BY <1>1, <1>2 DEF Top
  <1>7. /\ Cur(q).x \in 0 .. Cols - 1 /\ Cur(q).y \in 0 .. Rows - 2
        /\ Top(q) \in Nat /\ Top(q) + Cur(q).y + 1 = Len(q)
    <2>1. Cur(q).x = x /\ Cur(q).y = y
      BY <1>3
    <2>2. x \in 0 .. Cols - 1
      BY <1>1, <1>2
    <2> HIDE DEF x, y
    <2> QED BY <1>4, <2>1, <2>2
  <1>5. CASE EndsLine(q, c)
    <2>1. p = [x |-> 0, y |-> y + 1]
      <3> HIDE DEF x, y
      <3>1. c = Newline \/ x + 1 >= Cols
        BY <1>5 DEF EndsLine, x
      <3> QED BY <1>3, <3>1 DEF Advance
    <2>2. Len(r) = n + 1 /\ r[Len(r)] = << >> /\ Len(r[Len(r)]) = 0
      <3>1. Len(r) = n + 1 /\ r[Len(r)] = << >>
        BY <1>5 DEF Typed
      <3> QED BY <3>1
    <2>3. Cur(r) = [x |-> 0, y |-> n - Top(r)]
      BY <1>2, <2>2 DEF Cur
    <2>4. CASE Scrolls(p)
      <3>1. y + 1 >= Rows - 1
        BY <2>1, <2>4 DEF Scrolls
      <3>2. Top(r) = Top(q) + 1 /\ n - Top(r) = y /\ n + 1 = Top(r) + (Rows - 1)
        BY <1>1, <1>2, <1>4, <2>2, <3>1 DEF Top
      <3>3. Cur(r) = [p EXCEPT !.y = p.y - 1]
        <4> HIDE DEF y
        <4>1. [p EXCEPT !.y = p.y - 1] = [x |-> 0, y |-> (y + 1) - 1]
          BY <2>1
        <4>2. (y + 1) - 1 = y
          BY <1>4
        <4> QED BY <2>3, <3>2, <4>1, <4>2
      <3> QED BY <1>7, <2>2, <2>4, <3>2, <3>3
    <2>5. CASE ~Scrolls(p)
      <3>1. ~(y + 1 >= Rows - 1)
        BY <2>1, <2>5 DEF Scrolls
      <3>2. Top(r) = Top(q) /\ n - Top(r) = y + 1
        BY <1>1, <1>2, <1>4, <2>2, <3>1 DEF Top
      <3>3. Cur(r) = p
        BY <2>1, <2>3, <3>2
      <3> QED BY <1>7, <2>5, <3>2, <3>3
    <2> QED BY <2>4, <2>5
  <1>6. CASE ~EndsLine(q, c)
    <2>1. p = [x |-> x + 1, y |-> y]
      <3> HIDE DEF x, y
      <3>1. c # Newline /\ ~(x + 1 >= Cols)
        BY <1>6 DEF EndsLine, x
      <3> QED BY <1>3, <3>1 DEF Advance
    <2>2. Len(r) = n /\ Len(r[Len(r)]) = x + 1
      BY <1>6 DEF Typed
    <2>3. Top(r) = Top(q)
      BY <2>2 DEF Top
    <2>4. Cur(r) = p
      BY <2>1, <2>2, <2>3 DEF Cur
    <2>5. ~Scrolls(p)
      <3> HIDE DEF y
      <3>1. y \in Int /\ y <= Rows - 2
        BY <1>1, <1>4
      <3> QED BY <1>1, <2>1, <3>1 DEF Scrolls
    <2> QED BY <1>7, <2>3, <2>4, <2>5
  <1> QED BY <1>5, <1>6

\* The pixel lines of a row of text, and the row of a pixel line.
LEMMA PixelLine ==
  ASSUME NEW r \in Nat, NEW l \in 0 .. CharHeight - 1
  PROVE  (r * CharHeight + l) \div CharHeight = r /\ r * CharHeight + l \in Nat
  <1>1. CharHeight \in Nat \ {0}
    BY Granularity
  <1>2. r * CharHeight \in Nat
    BY <1>1
  <1> DEFINE n == r * CharHeight + l
  <1>3. n \in Nat /\ r * CharHeight <= n /\ n < r * CharHeight + CharHeight
    <2> DEFINE s == r * CharHeight
    <2> HIDE DEF s
    <2> QED BY <1>1, <1>2 DEF s
  <1>4. r * CharHeight + CharHeight = (r + 1) * CharHeight
    BY <1>1
  <1> HIDE DEF n
  <1>5. n \div CharHeight = r
    BY <1>1, <1>3, <1>4
  <1> QED BY <1>3, <1>5 DEF n

LEMMA RowOfLine ==
  ASSUME mode \in Modes, NEW l \in TextLines
  PROVE  /\ l \in Nat /\ l \in 0 .. mode.h - 1
         /\ l \div CharHeight \in 0 .. Rows - 2
         /\ (l \div CharHeight) * CharHeight <= l
         /\ l < (l \div CharHeight) * CharHeight + CharHeight
  <1>1. CharHeight \in Nat \ {0} /\ Rows \in Nat /\ Rows >= 2 /\ Rows * CharHeight <= mode.h /\ mode.h \in Nat
    BY Granularity, Sizes
  <1>2. (Rows - 1) * CharHeight \in Nat /\ (Rows - 1) * CharHeight <= Rows * CharHeight /\ Rows * CharHeight \in Nat
    BY <1>1, TimesMonotone
  <1>3. l \in Nat /\ l < (Rows - 1) * CharHeight
    BY <1>2 DEF TextLines
  <1> DEFINE d == l \div CharHeight
  <1>4. d \in Nat /\ d * CharHeight <= l /\ l < (d + 1) * CharHeight
    BY <1>1, <1>3, DivBounds
  <1> HIDE DEF d
  <1>5. (d + 1) * CharHeight = d * CharHeight + CharHeight /\ d * CharHeight \in Nat
    BY <1>1, <1>4
  <1>6. d <= Rows - 2
    <2> SUFFICES ASSUME ~(d <= Rows - 2) PROVE FALSE
      OBVIOUS
    <2>1. Rows - 1 \in Nat /\ Rows - 1 <= d
      BY <1>1, <1>4
    <2>2. (Rows - 1) * CharHeight <= d * CharHeight
      BY <2>1, <1>1, <1>4, TimesMonotone
    <2> QED BY <2>2, <1>2, <1>3, <1>4, <1>5
  <1>7. l \in 0 .. mode.h - 1
    BY <1>1, <1>2, <1>3
  <1> QED BY <1>1, <1>3, <1>4, <1>5, <1>6, <1>7 DEF d

LEMMA LineOfRow ==
  ASSUME mode \in Modes, NEW r \in 0 .. Rows - 2, NEW l \in 0 .. CharHeight - 1
  PROVE  r * CharHeight + l \in TextLines /\ (r * CharHeight + l) \div CharHeight = r
  <1>1. CharHeight \in Nat \ {0} /\ Rows \in Nat /\ Rows >= 2
    BY Granularity, Sizes
  <1>2. r \in Nat /\ r + 1 \in Nat /\ Rows - 1 \in Nat /\ r + 1 <= Rows - 1
    BY <1>1
  <1>3. (r + 1) * CharHeight <= (Rows - 1) * CharHeight
    BY <1>1, <1>2, TimesMonotone
  <1>4. (r + 1) * CharHeight = r * CharHeight + CharHeight /\ r * CharHeight \in Nat /\ (Rows - 1) * CharHeight \in Nat
    BY <1>1, <1>2
  <1>5. r * CharHeight + l < (Rows - 1) * CharHeight /\ r * CharHeight + l \in Nat
    <2> DEFINE s == r * CharHeight
               u == (Rows - 1) * CharHeight
    <2>1. s + CharHeight <= u /\ s \in Nat /\ u \in Nat
      BY <1>3, <1>4
    <2> HIDE DEF s, u
    <2>2. s + l < u /\ s + l \in Nat
      BY <1>1, <2>1
    <2> QED BY <2>2 DEF s, u
  <1>6. r * CharHeight + l \in TextLines
    BY <1>4, <1>5 DEF TextLines
  <1> QED BY <1>2, <1>6, PixelLine

\* When every pixel line shows its line of the paper, the screen shows the end
\* of the paper.
LEMMA ScreenIs ==
  ASSUME mode \in Modes, NEW q \in Papers, \A l \in TextLines : Shows(q, Top(q), l)
  PROVE  Screen = Term!Window(q)
  <1>1. Cols \in Nat /\ Cols >= 1 /\ Rows \in Nat /\ Rows >= 2 /\ CharHeight \in Nat \ {0}
    BY Sizes, Granularity
  <1>2. Len(q) \in Nat
    BY DEF Papers
  <1>3. Top(q) \in Nat /\ Max({0, Len(q) - (Rows - 1)}) = Top(q)
    <2>1. 0 \in Int /\ Len(q) - (Rows - 1) \in Int
      BY <1>1, <1>2
    <2>2. Max({0, Len(q) - (Rows - 1)}) = IF 0 <= Len(q) - (Rows - 1) THEN Len(q) - (Rows - 1) ELSE 0
      BY <2>1, MaxOfTwo
    <2> QED BY <1>1, <1>2, <2>2 DEF Top
  <1>4. Term!Window(q) = [r \in 0 .. Rows - 2 |-> [k \in 0 .. Cols - 1 |->
            IF Top(q) + r < Len(q) /\ k < Len(q[Top(q) + r + 1])
            THEN q[Top(q) + r + 1][k + 1] ELSE Blank]]
    <2> DEFINE G(top) == [r \in 0 .. Rows - 2 |-> [k \in 0 .. Cols - 1 |->
                              IF top + r < Len(q) /\ k < Len(q[top + r + 1])
                              THEN q[top + r + 1][k + 1] ELSE Blank]]
    <2>0. Term!Max({0, Len(q) - (Rows - 1)}) = Max({0, Len(q) - (Rows - 1)})
      BY DEF Term!Max, Max
    <2>1. Term!Window(q) = G(Term!Max({0, Len(q) - (Rows - 1)}))
      BY DEF Term!Window
    <2>2. Term!Window(q) = G(Top(q))
      <3> HIDE DEF G
      <3> QED BY <1>3, <2>0, <2>1
    <2> QED BY <2>2
  <1>5. ASSUME NEW r \in 0 .. Rows - 2, NEW k \in 0 .. Cols - 1
        PROVE  Cell(r, k) = IF Top(q) + r < Len(q) /\ k < Len(q[Top(q) + r + 1])
                            THEN q[Top(q) + r + 1][k + 1] ELSE Blank
    <2> DEFINE i == Top(q) + r + 1
               v == Sheet(q, i, k)
    <2>1. \A l \in 0 .. CharHeight - 1 : fb[r * CharHeight + l][k] = v
      <3> SUFFICES ASSUME NEW l \in 0 .. CharHeight - 1 PROVE fb[r * CharHeight + l][k] = v
        OBVIOUS
      <3>1. r * CharHeight + l \in TextLines /\ (r * CharHeight + l) \div CharHeight = r
        BY LineOfRow
      <3>2. fb[r * CharHeight + l] = Row(q, i)
        BY <3>1 DEF Shows
      <3> QED BY <3>2 DEF Row
    <2>2. 0 \in 0 .. CharHeight - 1 /\ r * CharHeight + 0 = r * CharHeight
      BY <1>1
    <2>3. fb[r * CharHeight][k] = v
      BY <2>1, <2>2
    <2>4. Cell(r, k) = v
      <3> HIDE DEF v
      <3> QED BY <2>1, <2>3 DEF Cell
    <2>5. Top(q) + r < Len(q) <=> i <= Len(q)
      BY <1>1, <1>2, <1>3
    <2> QED BY <2>4, <2>5 DEF Sheet
  <1>6. Screen = [r \in 0 .. Rows - 2 |-> [k \in 0 .. Cols - 1 |-> Cell(r, k)]]
    BY DEF Screen
  <1> DEFINE V(r, k) == IF Top(q) + r < Len(q) /\ k < Len(q[Top(q) + r + 1])
                        THEN q[Top(q) + r + 1][k + 1] ELSE Blank
  <1>7. \A r \in 0 .. Rows - 2 : \A k \in 0 .. Cols - 1 : Cell(r, k) = V(r, k)
    BY <1>5
  <1>8. Term!Window(q) = [r \in 0 .. Rows - 2 |-> [k \in 0 .. Cols - 1 |-> V(r, k)]]
    BY <1>4
  <1> HIDE DEF V
  <1>9. \A r \in 0 .. Rows - 2 : [k \in 0 .. Cols - 1 |-> Cell(r, k)] = [k \in 0 .. Cols - 1 |-> V(r, k)]
    BY <1>7
  <1> QED BY <1>6, <1>8, <1>9

\* What a character changes on the paper: one cell, or nothing but a new line.
LEMMA RowsTyped ==
  ASSUME mode \in Modes, NEW q \in Papers, NEW c \in Chars, NEW r, Typed(q, c, r)
  PROVE  /\ \A i \in Nat \ {0} : c = Newline \/ i # Len(q) => Row(r, i) = Row(q, i)
         /\ c # Newline => Row(r, Len(q)) = [Row(q, Len(q)) EXCEPT ![Cur(q).x] = c]
         /\ r[Len(r)] = << >> => Row(r, Len(r)) = Line(Blank)
  <1>1. ASSUME NEW i \in Nat \ {0}, c = Newline \/ i # Len(q) PROVE Row(r, i) = Row(q, i)
    <2>1. \A k \in 0 .. Cols - 1 : Sheet(r, i, k) = Sheet(q, i, k)
      BY <1>1 DEF Typed
    <2> QED BY <2>1 DEF Row
  <1>2. ASSUME c # Newline PROVE Row(r, Len(q)) = [Row(q, Len(q)) EXCEPT ![Cur(q).x] = c]
    <2> DEFINE n == Len(q)
               x == Len(q[n])
    <2>1. n \in Nat \ {0}
      <3>1. q \in Seq(Seq(Chars)) /\ Len(q) >= 1
        BY DEF Papers
      <3> QED BY <3>1
    <2>2. Cur(q).x = x
      BY DEF Cur
    <2>3. \A k \in 0 .. Cols - 1 : Sheet(r, n, k) = IF k = x THEN c ELSE Sheet(q, n, k)
      BY <1>2, <2>1 DEF Typed
    <2>4. Row(r, n) = [k \in 0 .. Cols - 1 |-> IF k = x THEN c ELSE Sheet(q, n, k)]
      BY <2>3 DEF Row
    <2>5. [Row(q, n) EXCEPT ![x] = c] = [k \in 0 .. Cols - 1 |-> IF k = x THEN c ELSE Sheet(q, n, k)]
      BY DEF Row
    <2> HIDE DEF n, x
    <2>6. Row(r, n) = [Row(q, n) EXCEPT ![Cur(q).x] = c]
      BY <2>2, <2>4, <2>5
    <2> QED BY <2>6 DEF n
  <1>3. ASSUME r[Len(r)] = << >> PROVE Row(r, Len(r)) = Line(Blank)
    <2>1. Len(r[Len(r)]) = 0
      BY <1>3
    <2>2. \A k \in 0 .. Cols - 1 : Sheet(r, Len(r), k) = Blank
      <3>1. \A k \in 0 .. Cols - 1 : ~(k < Len(r[Len(r)]))
        <4>1. \A k \in 0 .. Cols - 1 : ~(k < 0)
          <5>1. Cols \in Nat
            BY Sizes
          <5> QED BY <5>1
        <4> QED BY <2>1, <4>1
      <3> QED BY <3>1 DEF Sheet
    <2> QED BY <2>2 DEF Row, Line
  <1> QED BY <1>1, <1>2, <1>3

\* Before the first character the paper is blank, the cursor at its start.
LEMMA BlankRows ==
  ASSUME mode \in Modes, NEW i \in Nat \ {0}
  PROVE  Row(<< << >> >>, i) = Line(Blank) /\ Top(<< << >> >>) = 0 /\ Cur(<< << >> >>) = [x |-> 0, y |-> 0]
  <1> DEFINE q == << << >> >>
  <1>1. Cols \in Nat /\ Rows \in Nat /\ Rows >= 2
    BY Sizes
  <1>2. Len(q) = 1 /\ q[1] = << >> /\ Len(q[1]) = 0
    OBVIOUS
  <1> HIDE DEF q
  <1>3. \A k \in 0 .. Cols - 1 : Sheet(q, i, k) = Blank
    <2>1. \A k \in 0 .. Cols - 1 : ~(i <= Len(q) /\ k < Len(q[i]))
      BY <1>1, <1>2
    <2> QED BY <2>1 DEF Sheet
  <1>4. Row(q, i) = Line(Blank)
    BY <1>3 DEF Row, Line
  <1>5. Top(q) = 0
    BY <1>1, <1>2 DEF Top
  <1>6. Cur(q) = [x |-> 0, y |-> 0]
    BY <1>2, <1>5 DEF Cur
  <1> QED BY <1>4, <1>5, <1>6 DEF q

\* Type and Paper with the width of the screen as a parameter.
TypeOn(w, q, c) ==
    LET n    == Len(q)
        row  == Append(q[n], c)
        full == c # Newline /\ Len(row) = w
    IN  CASE c = Newline -> Append(q, << >>)
          [] full        -> Append([q EXCEPT ![n] = row], << >>)
          [] OTHER       -> [q EXCEPT ![n] = row]
PaperOn(w, s) ==
    LET paper[n \in 0 .. Len(s)] == IF n = 0 THEN << << >> >> ELSE TypeOn(w, paper[n - 1], s[n])
    IN  paper[Len(s)]

\* The size of the screen does not change, and the paper only with the text.
LEMMA PaperKept ==
  ASSUME mode' = mode, NEW s, text' = s
  PROVE  Before' = Term!Paper(s) /\ \A t : After(t)' = Term!Type(Term!Paper(s), ch'[t])
  <1>1. Cols' = Cols
    BY DEF Cols
  <1>2. \A q, c : Term!Type(q, c) = TypeOn(Cols, q, c)
    BY DEF Term!Type, TypeOn
  <1>3. Term!Paper(s) = PaperOn(Cols, s)
    BY DEF Term!Paper, PaperOn, Term!Type, TypeOn
  <1>4. Before' = PaperOn(Cols', s)
    BY DEF Before, Term!Paper, PaperOn, Term!Type, TypeOn
  <1>5. ASSUME NEW t PROVE After(t)' = TypeOn(Cols', Before', ch'[t])
    BY DEF After, Term!Type, TypeOn
  <1> QED BY <1>1, <1>2, <1>3, <1>4, <1>5

LEMMA ScreenKept ==
  ASSUME mode' = mode
  PROVE  /\ Rows' = Rows /\ Cols' = Cols /\ TextLines' = TextLines /\ Papers' = Papers
         /\ \A q, i : Row(q, i)' = Row(q, i)
         /\ \A q : Top(q)' = Top(q) /\ Cur(q)' = Cur(q)
  <1>1. Rows' = Rows /\ Cols' = Cols
    BY DEF Rows, Cols
  <1>2. TextLines' = TextLines
    BY <1>1 DEF TextLines
  <1>3. ASSUME NEW q, NEW i PROVE Row(q, i)' = Row(q, i)
    BY <1>1 DEF Row
  <1>4. ASSUME NEW q PROVE Top(q)' = Top(q)
    BY <1>1 DEF Top
  <1>5. ASSUME NEW q PROVE Cur(q)' = Cur(q)
    BY <1>4 DEF Cur
  <1>6. Papers' = Papers
    BY <1>1 DEF Papers
  <1> QED BY <1>1, <1>2, <1>3, <1>4, <1>5, <1>6

\* What is known of a task in putc.
LEMMA WhileWriting ==
  ASSUME ConsoleInv, PrintInv, TextInv, ~torn, NEW t \in Tasks, pc[t] # "ready"
  PROVE  /\ mode \in Modes /\ Before \in Papers /\ ch[t] \in Chars
         /\ Typed(Before, ch[t], After(t)) /\ Writing(t, Before, After(t))
         /\ boot = "up" /\ \A u \in Tasks \ {t} : pc[u] = "ready"
         /\ text \in Seq(Chars)
  <1>1. mode \in Modes /\ boot = "up"
    BY DEF ConsoleInv, VideoInv, PutcInv
  <1>2. ch[t] \in Chars
    <2>1. PICK i, rem : Printed(t, i, rem)
      BY DEF PrintInv
    <2> QED BY <2>1 DEF Printed
  <1>3. text \in Seq(Chars) /\ Writing(t, Before, After(t)) /\ \A u \in Tasks \ {t} : pc[u] = "ready"
    BY DEF TextInv
  <1>4. Before \in Papers
    BY <1>1, <1>2, <1>3, PaperGrows DEF Before
  <1>5. Typed(Before, ch[t], After(t))
    BY <1>1, <1>2, <1>4, TypeIs DEF After
  <1> QED BY <1>1, <1>2, <1>3, <1>4, <1>5

\* A step of putc that leaves the text alone.
LEMMA StaysWriting ==
  ASSUME ConsoleInv, PrintInv, TextInv, ~torn, NEW t \in Tasks, pc[t] # "ready",
         mode' = mode, boot' = boot, text' = text, ch' = ch,
         \A u \in Tasks \ {t} : pc'[u] = pc[u], pc'[t] # "ready",
         NEW q, NEW r, q = Before, r = After(t), Writing(t, q, r)'
  PROVE  TextInv'
  <1>1. boot = "up" /\ text \in Seq(Chars) /\ \A u \in Tasks \ {t} : pc[u] = "ready"
    BY WhileWriting
  <1>2. Before' = q /\ After(t)' = r
    <2>1. PICK s : s = text
      OBVIOUS
    <2>2. Before' = Term!Paper(s) /\ After(t)' = Term!Type(Term!Paper(s), ch'[t])
      BY <2>1, PaperKept
    <2> QED BY <2>1, <2>2 DEF Before, After
  <1>3. \A u \in Tasks : pc'[u] # "ready" => u = t
    BY <1>1
  <1>4. Writing(t, Before, After(t))'
    BY <1>2
  <1>5. text' \in Seq(Chars) /\ boot' = "up"
    BY <1>1
  <1> QED BY <1>3, <1>4, <1>5 DEF TextInv

\* A step that leaves putc, the screen and the text alone.
LEMMA TextStutter ==
  ASSUME TextInv, UNCHANGED <<video, cursor_pos, fb, putcVars, ghosts>>
  PROVE  TextInv'
  <1> SUFFICES ASSUME ~torn' PROVE TextInv'
    BY DEF TextInv
  <1>1. /\ mode' = mode /\ boot' = boot /\ text' = text /\ ch' = ch /\ pc' = pc /\ pos' = pos
        /\ line' = line /\ fb' = fb /\ cursor_pos' = cursor_pos /\ ~torn
    BY DEF video, putcVars, ghosts
  <1>2. Before' = Before /\ \A t \in Tasks : After(t)' = After(t)
    <2>1. PICK s : s = text
      OBVIOUS
    <2>2. Before' = Term!Paper(s) /\ \A t : After(t)' = Term!Type(Term!Paper(s), ch'[t])
      BY <1>1, <2>1, PaperKept
    <2> QED BY <1>1, <2>1, <2>2 DEF Before, After
  <1>3. ASSUME NEW q, Still(q) PROVE Still(q)'
    BY <1>1, <1>3, ScreenKept DEF Still, Shows
  <1>4. ASSUME NEW t \in Tasks, NEW q, NEW r, Writing(t, q, r) PROVE Writing(t, q, r)'
    BY <1>1, <1>4, ScreenKept DEF Writing, Shows
  <1>5. ASSUME \A t \in Tasks : pc'[t] = "ready" PROVE Still(Before)'
    <2>1. PICK q : q = Before
      OBVIOUS
    <2>2. Still(q)
      BY <1>1, <1>5, <2>1 DEF TextInv
    <2>3. Still(q)'
      BY <1>3, <2>2
    <2> QED BY <1>2, <2>1, <2>3
  <1>6. ASSUME NEW t \in Tasks, pc'[t] # "ready" PROVE Writing(t, Before, After(t))'
    <2>1. PICK q, r : q = Before /\ r = After(t)
      OBVIOUS
    <2>2. Writing(t, q, r)
      BY <1>1, <1>6, <2>1 DEF TextInv
    <2>3. Writing(t, q, r)'
      BY <1>4, <2>2
    <2> QED BY <1>2, <2>1, <2>3
  <1> QED BY <1>1, <1>5, <1>6 DEF TextInv

\* The invariant holds at first.
LEMMA TextInitially == Init => TextInv
  <1> SUFFICES ASSUME Init PROVE TextInv
    OBVIOUS
  <1>1. /\ mode \in Modes /\ text = << >> /\ boot = "off" /\ cursor_pos = [x |-> 0, y |-> 0]
        /\ \A t \in Tasks : pc[t] = "ready"
    BY DEF Init
  <1>2. Before = << << >> >>
    <2>1. << >> \in Seq(Chars)
      OBVIOUS
    <2>2. PICK c \in Chars : c = Newline
      BY DEF Chars
    <2>3. Term!Paper(<< >>) = << << >> >>
      BY <1>1, <2>1, <2>2, PaperGrows
    <2> QED BY <1>1, <2>3 DEF Before
  <1>3. Still(Before)
    BY <1>1, <1>2, BlankRows DEF Still
  <1>4. text \in Seq(Chars)
    BY <1>1
  <1> QED BY <1>1, <1>3, <1>4 DEF TextInv

\* The paper before anything is printed.
LEMMA NothingWritten ==
  ASSUME ConsoleInv, TextInv, ~torn, boot # "up"
  PROVE  /\ mode \in Modes /\ text = << >> /\ Before = << << >> >>
         /\ (\A t \in Tasks : pc[t] = "ready") /\ cursor_pos = Cur(<< << >> >>)
  <1>1. mode \in Modes /\ \A t \in Tasks : pc[t] = "ready"
    BY DEF ConsoleInv, VideoInv, PutcInv
  <1>2. text = << >> /\ Still(Before)
    BY <1>1 DEF TextInv
  <1>3. Before = << << >> >>
    <2>1. << >> \in Seq(Chars)
      OBVIOUS
    <2>2. PICK c \in Chars : c = Newline
      BY DEF Chars
    <2>3. Term!Paper(<< >>) = << << >> >>
      BY <1>1, <2>1, <2>2, PaperGrows
    <2> QED BY <1>2, <2>3 DEF Before
  <1>4. cursor_pos = Cur(Before)
    BY <1>2 DEF Still
  <1> QED BY <1>1, <1>2, <1>3, <1>4

\* The steps before the first character.
LEMMA BootKept ==
  ASSUME ConsoleInv, TextInv, ~torn, boot # "up", mode' = mode, text' = text, pc' = pc,
         NEW q, q = << << >> >>, Still(q)'
  PROVE  TextInv'
  <1>1. mode \in Modes /\ text = << >> /\ Before = q /\ \A t \in Tasks : pc[t] = "ready"
    BY NothingWritten
  <1>2. Before' = q
    <2>1. PICK s : s = text
      OBVIOUS
    <2>2. Before' = Term!Paper(s)
      BY <2>1, PaperKept
    <2> QED BY <1>1, <2>1, <2>2 DEF Before
  <1>3. Still(Before)' /\ text' = << >> /\ text' \in Seq(Chars) /\ \A t \in Tasks : pc'[t] = "ready"
    BY <1>1, <1>2
  <1> QED BY <1>3 DEF TextInv

LEMMA TextVideoInit == ASSUME ConsoleInv, TextInv, VideoInit, ~torn' PROVE TextInv'
  <1>1. /\ mode' = mode /\ text' = text /\ pc' = pc /\ ~torn /\ boot = "off" /\ boot' = "clear"
        /\ cursor_pos' = [x |-> 0, y |-> 0]
    BY DEF VideoInit, putcVars, ghosts
  <1>2. PICK q : q = << << >> >>
    OBVIOUS
  <1>3. mode \in Modes
    BY <1>1, NothingWritten
  <1>4. Cur(q) = [x |-> 0, y |-> 0] /\ Cur(q)' = Cur(q)
    BY <1>1, <1>2, <1>3, BlankRows, ScreenKept
  <1>5. Still(q)'
    BY <1>1, <1>4 DEF Still
  <1> QED BY <1>1, <1>2, <1>5, BootKept

LEMMA TextClear == ASSUME ConsoleInv, TextInv, Clear, ~torn' PROVE TextInv'
  <1>1. /\ mode' = mode /\ text' = text /\ pc' = pc /\ ~torn /\ boot = "clear"
        /\ cursor_pos' = cursor_pos /\ fb' = [l \in DOMAIN fb |-> Line(Blank)]
    BY DEF Clear, putcVars, ghosts
  <1>2. PICK q : q = << << >> >>
    OBVIOUS
  <1>3. mode \in Modes /\ cursor_pos = Cur(q)
    BY <1>1, <1>2, NothingWritten
  <1>4. ASSUME NEW l \in TextLines PROVE fb'[l] = Row(q, Top(q) + (l \div CharHeight) + 1)
    <2>1. l \in DOMAIN fb /\ l \div CharHeight \in Nat
      BY <1>3, RowOfLine DEF ConsoleInv, VideoInv
    <2>2. (l \div CharHeight) + 1 \in Nat \ {0}
      BY <2>1
    <2>3. Top(q) = 0 /\ Row(q, (l \div CharHeight) + 1) = Line(Blank)
      BY <1>2, <1>3, <2>2, BlankRows
    <2>4. Top(q) + (l \div CharHeight) + 1 = (l \div CharHeight) + 1
      BY <2>1, <2>3
    <2> QED BY <1>1, <2>1, <2>3, <2>4
  <1>5. Still(q)'
    BY <1>1, <1>3, <1>4, ScreenKept DEF Still, Shows
  <1> QED BY <1>1, <1>2, <1>5, BootKept

\* putc is called: nothing is under way, the screen shows the paper.
LEMMA TextPutc ==
  ASSUME ConsoleInv, PrintInv, TextInv, NEW t \in Tasks, Putc(t), ~torn' PROVE TextInv'
  <1>1. /\ mode' = mode /\ boot' = boot /\ text' = text /\ fb' = fb /\ cursor_pos' = cursor_pos
        /\ pc' = [pc EXCEPT ![t] = "load"] /\ pos' = [pos EXCEPT ![t] = Unread]
        /\ ~torn /\ boot = "up" /\ \A u \in Tasks : pc[u] = "ready"
    BY DEF Putc, Goto, video
  <1>2. pc'[t] = "load" /\ pos'[t] = Unread /\ \A u \in Tasks \ {t} : pc'[u] = "ready"
    BY <1>1 DEF ConsoleInv, PutcInv, WordsInRange
  <1>3. PICK q : q = Before
    OBVIOUS
  <1>4. PICK s : s = text
    OBVIOUS
  <1>5. PICK r : r = Term!Type(q, ch'[t])
    OBVIOUS
  <1>6. Before' = q /\ After(t)' = r
    <2>1. Before' = Term!Paper(s) /\ After(t)' = Term!Type(Term!Paper(s), ch'[t])
      BY <1>1, <1>4, PaperKept
    <2> QED BY <1>3, <1>4, <1>5, <2>1 DEF Before
  <1>7. text \in Seq(Chars) /\ Still(q)
    BY <1>1, <1>3 DEF TextInv
  <1>8. Writing(t, q, r)'
    <2>1. \A f \in {"x", "y"} : pos'[t][f] = None
      BY <1>2 DEF Unread
    <2>2. cursor_pos' = Cur(q) /\ \A l \in TextLines : fb'[l] = Row(q, Top(q) + (l \div CharHeight) + 1)
      BY <1>1, <1>7 DEF Still, Shows
    <2> QED BY <1>1, <1>2, <2>1, <2>2, ScreenKept DEF Writing, Shows, None
  <1>9. Writing(t, Before, After(t))'
    BY <1>6, <1>8
  <1>10. \A u \in Tasks : pc'[u] # "ready" => u = t
    BY <1>2
  <1>11. text' \in Seq(Chars) /\ boot' = "up"
    BY <1>1, <1>7
  <1> QED BY <1>2, <1>9, <1>10, <1>11 DEF TextInv

\* The lines of the paper that pixel line l belongs to, seen from the cursor.
LEMMA LineOfPaper ==
  ASSUME mode \in Modes, NEW q \in Papers, NEW c \in Chars, NEW r, Typed(q, c, r), NEW l \in TextLines
  PROVE  /\ Top(q) \in Nat /\ Cur(q).y \in Nat /\ l \in Nat /\ l \div CharHeight \in Nat
         /\ Top(q) + (l \div CharHeight) + 1 \in Nat \ {0}
         /\ l < Cur(q).y * CharHeight => Top(q) + (l \div CharHeight) + 1 # Len(q)
         /\ l >= Cur(q).y * CharHeight + CharHeight => Top(q) + (l \div CharHeight) + 1 # Len(q)
         /\ Cur(q).y * CharHeight \in Nat
  <1>1. Top(q) \in Nat /\ Cur(q).y \in 0 .. Rows - 2 /\ Top(q) + Cur(q).y + 1 = Len(q)
    <2>1. PICK p : p = Advance(Cur(q), c)
      OBVIOUS
    <2> QED BY <2>1, CursorMoves
  <1>2. Rows \in Nat /\ CharHeight \in Nat \ {0}
    BY Sizes, Granularity
  <1> DEFINE y == Cur(q).y
             d == l \div CharHeight
  <1>3. y \in Nat
    BY <1>1, <1>2
  <1>4. l \in Nat /\ d \in Nat /\ d * CharHeight <= l /\ l < d * CharHeight + CharHeight
    BY <1>2, RowOfLine
  <1> HIDE DEF y, d
  <1>5. y * CharHeight \in Nat /\ d * CharHeight \in Nat
    BY <1>2, <1>3, <1>4
  <1>6. l < y * CharHeight => d # y
    BY <1>2, <1>3, <1>4, <1>5
  <1>7. l >= y * CharHeight + CharHeight => d # y
    BY <1>2, <1>3, <1>4, <1>5
  <1>8. Top(q) + y + 1 = Len(q)
    BY <1>1 DEF y
  <1>9. d # y => Top(q) + d + 1 # Len(q)
    BY <1>1, <1>3, <1>4, <1>8
  <1>10. Top(q) + d + 1 \in Nat \ {0}
    BY <1>1, <1>4
  <1> QED BY <1>1, <1>3, <1>4, <1>5, <1>6, <1>7, <1>9, <1>10 DEF y, d

\* The two words of the cursor are read: nobody else is writing them.
LEMMA TextLoad ==
  ASSUME ConsoleInv, PrintInv, TextInv, NEW t \in Tasks, NEW f \in {"x", "y"}, Load(t, f), ~torn'
  PROVE  TextInv'
  <1>1. /\ mode' = mode /\ boot' = boot /\ text' = text /\ ch' = ch /\ fb' = fb
        /\ cursor_pos' = cursor_pos /\ ~torn /\ pc[t] = "load" /\ pos[t][f] = None
        /\ pos' = [pos EXCEPT ![t][f] = cursor_pos[f]]
        /\ line' = [line EXCEPT ![t] = 0]
        /\ pc' = [pc EXCEPT ![t] = IF \A g \in {"x", "y"} \ {f} : pos[t][g] # None
                                   THEN "draw" ELSE "load"]
    BY DEF Load, video, ghosts
  <1>2. PICK q, r : q = Before /\ r = After(t)
    OBVIOUS
  <1>3. /\ mode \in Modes /\ q \in Papers /\ ch[t] \in Chars /\ Typed(q, ch[t], r) /\ Writing(t, q, r)
    BY <1>1, <1>2, WhileWriting
  <1>4. /\ cursor_pos = Cur(q) /\ \A g \in {"x", "y"} : pos[t][g] \in {None, Cur(q)[g]}
        /\ \A l \in TextLines : fb[l] = Row(q, Top(q) + (l \div CharHeight) + 1)
    BY <1>1, <1>3 DEF Writing, Shows
  <1>5. /\ pos[t] = [x |-> pos[t].x, y |-> pos[t].y] /\ pos \in [Tasks -> [x : XRange \cup {None}, y : YRange \cup {None}]]
        /\ pc'[t] = IF \A g \in {"x", "y"} \ {f} : pos[t][g] # None THEN "draw" ELSE "load"
        /\ line'[t] = 0 /\ \A u \in Tasks \ {t} : pc'[u] = pc[u]
    BY <1>1 DEF ConsoleInv, WordsInRange, PutcInv
  <1>6. pos'[t][f] = Cur(q)[f] /\ \A g \in {"x", "y"} \ {f} : pos'[t][g] = pos[t][g]
    <2>1. CASE f = "x"
      BY <1>1, <1>4, <1>5, <2>1
    <2>2. CASE f = "y"
      BY <1>1, <1>4, <1>5, <2>2
    <2> QED BY <2>1, <2>2
  <1>7. pos'[t] = [x |-> pos'[t].x, y |-> pos'[t].y]
    <2>1. CASE f = "x"
      BY <1>1, <1>4, <1>5, <2>1
    <2>2. CASE f = "y"
      BY <1>1, <1>4, <1>5, <2>2
    <2> QED BY <2>1, <2>2
  <1>8. CASE pc'[t] = "load"
    <2>1. \A g \in {"x", "y"} : pos'[t][g] \in {None, Cur(q)[g]}
      BY <1>4, <1>6
    <2>2. Writing(t, q, r)'
      BY <1>1, <1>4, <1>8, <2>1, ScreenKept DEF Writing, Shows, None
    <2> QED BY <1>1, <1>2, <1>5, <1>8, <2>2, StaysWriting
  <1>9. CASE pc'[t] = "draw"
    <2>1. \A g \in {"x", "y"} \ {f} : pos[t][g] # None
      BY <1>5, <1>9
    <2>2. \A g \in {"x", "y"} : pos'[t][g] = Cur(q)[g]
      BY <1>4, <1>6, <2>1
    <2>3. pos'[t] = Cur(q)
      <3>1. Cur(q) = [x |-> Cur(q).x, y |-> Cur(q).y]
        BY DEF Cur
      <3>2. pos'[t].x = Cur(q).x /\ pos'[t].y = Cur(q).y
        BY <2>2
      <3> QED BY <1>7, <3>1, <3>2
    <2>4. ASSUME NEW l \in TextLines, l < Cur(q).y * CharHeight + line'[t]
          PROVE  fb'[l] = Row(r, Top(q) + (l \div CharHeight) + 1)
      <3>1. l < Cur(q).y * CharHeight
        <4>1. Cur(q).y * CharHeight \in Nat
          BY <1>3, LineOfPaper
        <4> QED BY <1>5, <2>4, <4>1
      <3> DEFINE i == Top(q) + (l \div CharHeight) + 1
      <3>2. i \in Nat \ {0} /\ i # Len(q)
        BY <1>3, <3>1, LineOfPaper
      <3> HIDE DEF i
      <3>3. Row(r, i) = Row(q, i)
        BY <1>3, <3>2, RowsTyped
      <3> QED BY <1>1, <1>4, <3>3 DEF i
    <2>5. Writing(t, q, r)'
      BY <1>1, <1>4, <1>9, <2>3, <2>4, ScreenKept DEF Writing, Shows
    <2> QED BY <1>1, <1>2, <1>5, <1>9, <2>5, StaysWriting
  <1> QED BY <1>5, <1>8, <1>9

\* One pixel line more shows the paper with the new character.
LEMMA TextDraw ==
  ASSUME ConsoleInv, PrintInv, TextInv, NEW t \in Tasks, Draw(t), ~torn'
  PROVE  TextInv'
  <1>1. /\ mode' = mode /\ boot' = boot /\ text' = text /\ ch' = ch /\ pos' = pos
        /\ cursor_pos' = cursor_pos /\ ~torn /\ pc[t] = "draw" /\ ch[t] # Newline
        /\ fb' = [fb EXCEPT ![pos[t].y * CharHeight + line[t]][pos[t].x] = ch[t]]
        /\ line' = [line EXCEPT ![t] = line[t] + 1]
        /\ pc' = [pc EXCEPT ![t] = IF line[t] + 1 < CharHeight THEN "draw" ELSE "move"]
    BY DEF Draw, video, ghosts
  <1>2. PICK q, r : q = Before /\ r = After(t)
    OBVIOUS
  <1>3. /\ mode \in Modes /\ q \in Papers /\ ch[t] \in Chars /\ Typed(q, ch[t], r) /\ Writing(t, q, r)
    BY <1>1, <1>2, WhileWriting
  <1>4. /\ cursor_pos = Cur(q) /\ pos[t] = Cur(q)
        /\ \A l \in TextLines : IF l < Cur(q).y * CharHeight + line[t]
                                THEN fb[l] = Row(r, Top(q) + (l \div CharHeight) + 1)
                                ELSE fb[l] = Row(q, Top(q) + (l \div CharHeight) + 1)
    BY <1>1, <1>3 DEF Writing, Shows
  <1>5. /\ pc'[t] = IF line[t] + 1 < CharHeight THEN "draw" ELSE "move"
        /\ line'[t] = line[t] + 1 /\ line[t] \in Nat /\ line[t] < CharHeight
        /\ \A u \in Tasks \ {t} : pc'[u] = pc[u]
    BY <1>1 DEF ConsoleInv, PutcInv
  <1>6. CharHeight \in Nat \ {0} /\ line[t] \in 0 .. CharHeight - 1
    BY <1>5, Granularity
  <1> DEFINE y == Cur(q).y
             L == y * CharHeight + line[t]
  <1>7. /\ y \in 0 .. Rows - 2 /\ Top(q) \in Nat /\ Top(q) + y + 1 = Len(q)
    <2>1. PICK p : p = Advance(Cur(q), ch[t])
      OBVIOUS
    <2> QED BY <1>3, <2>1, CursorMoves
  <1>8. L \in TextLines /\ L \div CharHeight = y
    BY <1>3, <1>6, <1>7, LineOfRow
  <1>9. L \in Nat /\ L \in DOMAIN fb
    BY <1>3, <1>8, RowOfLine DEF ConsoleInv, VideoInv
  <1>10. fb'[L] = [fb[L] EXCEPT ![Cur(q).x] = ch[t]] /\ \A l \in TextLines : l # L => fb'[l] = fb[l]
    <2>1. \A l \in TextLines : l \in DOMAIN fb
      BY <1>3, RowOfLine DEF ConsoleInv, VideoInv
    <2>2. fb' = [fb EXCEPT ![L] = [fb[L] EXCEPT ![Cur(q).x] = ch[t]]]
      BY <1>1, <1>4, Zenon
    <2> HIDE DEF L
    <2> QED BY <1>9, <2>1, <2>2
  <1>11. fb'[L] = Row(r, Top(q) + (L \div CharHeight) + 1)
    <2>1. fb[L] = Row(q, Top(q) + (L \div CharHeight) + 1)
      BY <1>4, <1>8, <1>9
    <2>2. Row(r, Len(q)) = [Row(q, Len(q)) EXCEPT ![Cur(q).x] = ch[t]]
      BY <1>1, <1>3, RowsTyped
    <2> HIDE DEF L, y
    <2>3. Top(q) + (L \div CharHeight) + 1 = Len(q)
      BY <1>7, <1>8
    <2> QED BY <1>10, <2>1, <2>2, <2>3
  <1>12. \A l \in TextLines : IF l < L + 1 THEN fb'[l] = Row(r, Top(q) + (l \div CharHeight) + 1)
                                           ELSE fb'[l] = Row(q, Top(q) + (l \div CharHeight) + 1)
    <2>1. \A l \in TextLines : l \in Nat
      BY <1>3, RowOfLine
    <2>2. \A l \in TextLines : IF l < L THEN fb[l] = Row(r, Top(q) + (l \div CharHeight) + 1)
                                        ELSE fb[l] = Row(q, Top(q) + (l \div CharHeight) + 1)
      BY <1>4
    <2> HIDE DEF L
    <2> TAKE l \in TextLines
    <2> DEFINE d == Top(q) + (l \div CharHeight) + 1
    <2>3. IF l < L THEN fb[l] = Row(r, d) ELSE fb[l] = Row(q, d)
      BY <2>2
    <2>4. l = L => fb'[l] = Row(r, d)
      BY <1>11
    <2>5. l # L => fb'[l] = fb[l]
      BY <1>10
    <2> HIDE DEF d
    <2>6. IF l < L + 1 THEN fb'[l] = Row(r, d) ELSE fb'[l] = Row(q, d)
      BY <1>9, <2>1, <2>3, <2>4, <2>5
    <2> QED BY <2>6 DEF d
  <1>13. y * CharHeight \in Nat
    <2>1. y \in Nat
      BY <1>7
    <2> HIDE DEF y
    <2> QED BY <1>6, <2>1
  <1>14. CASE pc'[t] = "draw"
    <2>1. L + 1 = Cur(q).y * CharHeight + line'[t]
      BY <1>5, <1>13
    <2>2. \A l \in TextLines : IF l < Cur(q).y * CharHeight + line'[t]
                                THEN fb'[l] = Row(r, Top(q) + (l \div CharHeight) + 1)
                                ELSE fb'[l] = Row(q, Top(q) + (l \div CharHeight) + 1)
      BY <1>12, <2>1
    <2>3. Writing(t, q, r)'
      BY <1>1, <1>4, <1>14, <2>2, ScreenKept DEF Writing, Shows
    <2> QED BY <1>1, <1>2, <1>5, <1>14, <2>3, StaysWriting
  <1>15. CASE pc'[t] = "move"
    <2>1. L + 1 = Cur(q).y * CharHeight + CharHeight
      BY <1>5, <1>6, <1>13, <1>15
    <2>2. \A l \in TextLines : fb'[l] = Row(r, Top(q) + (l \div CharHeight) + 1)
      <3> TAKE l \in TextLines
      <3> DEFINE i == Top(q) + (l \div CharHeight) + 1
      <3>1. /\ i \in Nat \ {0} /\ l \in Nat
            /\ (l >= Cur(q).y * CharHeight + CharHeight => i # Len(q))
        BY <1>3, LineOfPaper
      <3>2. IF l < L + 1 THEN fb'[l] = Row(r, i) ELSE fb'[l] = Row(q, i)
        BY <1>12
      <3> HIDE DEF i, L
      <3>3. ~(l < L + 1) => l >= Cur(q).y * CharHeight + CharHeight
        BY <1>9, <2>1, <3>1
      <3>4. i # Len(q) => Row(r, i) = Row(q, i)
        BY <1>3, <3>1, RowsTyped
      <3>5. fb'[l] = Row(r, i)
        BY <3>1, <3>2, <3>3, <3>4
      <3> QED BY <3>5 DEF i
    <2>3. Writing(t, q, r)'
      BY <1>1, <1>4, <1>15, <2>2, ScreenKept DEF Writing, Shows
    <2> QED BY <1>1, <1>2, <1>5, <1>15, <2>3, StaysWriting
  <1> QED BY <1>5, <1>14, <1>15

\* The cursor moves to the end of the new paper, or one row below the screen.
LEMMA TextMove ==
  ASSUME ConsoleInv, PrintInv, TextInv, NEW t \in Tasks, Move(t), ~torn'
  PROVE  TextInv'
  <1> DEFINE p == Advance(pos[t], ch[t])
  <1>1. /\ mode' = mode /\ boot' = boot /\ text' = text /\ ch' = ch /\ fb' = fb
        /\ cursor_pos' = cursor_pos /\ ~torn
        /\ pc[t] = "move" \/ (pc[t] = "draw" /\ ch[t] = Newline)
        /\ line' = [line EXCEPT ![t] = 0]
        /\ IF Scrolls(p)
           THEN /\ pos' = [pos EXCEPT ![t] = [p EXCEPT !.y = p.y - 1]]
                /\ pc' = [pc EXCEPT ![t] = "scroll"]
           ELSE /\ pos' = [pos EXCEPT ![t] = p]
                /\ pc' = [pc EXCEPT ![t] = "store"]
    BY DEF Move, video, ghosts
  <1>2. PICK q, r : q = Before /\ r = After(t)
    OBVIOUS
  <1>3. /\ mode \in Modes /\ q \in Papers /\ ch[t] \in Chars /\ Typed(q, ch[t], r) /\ Writing(t, q, r)
    BY <1>1, <1>2, WhileWriting
  <1>4. cursor_pos = Cur(q) /\ pos[t] = Cur(q)
    BY <1>1, <1>3 DEF Writing
  <1>5. \A l \in TextLines : fb[l] = Row(r, Top(q) + (l \div CharHeight) + 1)
    <2>1. CASE pc[t] = "move"
      BY <1>3, <2>1 DEF Writing, Shows
    <2>2. CASE pc[t] = "draw" /\ ch[t] = Newline
      <3> TAKE l \in TextLines
      <3> DEFINE i == Top(q) + (l \div CharHeight) + 1
      <3>1. i \in Nat \ {0}
        BY <1>3, LineOfPaper
      <3>2. Row(r, i) = Row(q, i)
        <4> HIDE DEF i
        <4> QED BY <1>3, <2>2, <3>1, RowsTyped
      <3>3. fb[l] = Row(r, i) \/ fb[l] = Row(q, i)
        BY <1>3, <2>2 DEF Writing, Shows
      <3> QED BY <3>2, <3>3
    <2> QED BY <1>1, <2>1, <2>2
  <1>6. /\ Scrolls(p) => Top(r) = Top(q) + 1 /\ Cur(r) = [p EXCEPT !.y = p.y - 1]
        /\ ~Scrolls(p) => Top(r) = Top(q) /\ Cur(r) = p
    BY <1>3, <1>4, CursorMoves
  <1>7. /\ \A u \in Tasks \ {t} : pc'[u] = pc[u]
        /\ pc'[t] = IF Scrolls(p) THEN "scroll" ELSE "store"
        /\ pos'[t] = Cur(r) /\ line'[t] = 0
    <2> HIDE DEF p
    <2>1. pc \in [Tasks -> {"ready", "load", "draw", "move", "scroll", "store"}] /\ DOMAIN line = Tasks /\ DOMAIN pos = Tasks
      BY DEF ConsoleInv, PutcInv, WordsInRange
    <2> QED BY <1>1, <1>6, <2>1
  <1> HIDE DEF p
  <1>8. CASE Scrolls(p)
    <2>1. \A l \in TextLines : ~(l < line'[t])
      BY <1>3, <1>7, RowOfLine
    <2>2. Writing(t, q, r)'
      BY <1>1, <1>4, <1>5, <1>6, <1>7, <1>8, <2>1, ScreenKept DEF Writing, Shows
    <2> QED BY <1>1, <1>2, <1>7, <1>8, <2>2, StaysWriting
  <1>9. CASE ~Scrolls(p)
    <2>1. Writing(t, q, r)'
      BY <1>1, <1>4, <1>5, <1>6, <1>7, <1>9, ScreenKept DEF Writing, Shows
    <2> QED BY <1>1, <1>2, <1>7, <1>9, <2>1, StaysWriting
  <1> QED BY <1>8, <1>9

\* The pixel line a scroll copies from: one line of text further down, and below
\* the last such line the blank bottom row.
LEMMA CopiedFrom ==
  ASSUME mode \in Modes, NEW l \in TextLines
  PROVE  /\ l + CharHeight \in TextLines => (l + CharHeight) \div CharHeight = (l \div CharHeight) + 1
         /\ l + CharHeight \notin TextLines =>
              l \div CharHeight = Rows - 2 /\ l + CharHeight >= (Rows - 1) * CharHeight
  <1>1. CharHeight \in Nat \ {0} /\ Rows \in Nat /\ Rows >= 2
    BY Granularity, Sizes
  <1> DEFINE d == l \div CharHeight
             m == l - d * CharHeight
  <1>2. l \in Nat /\ d \in Nat /\ d <= Rows - 2 /\ d * CharHeight <= l /\ l < d * CharHeight + CharHeight
    BY <1>1, RowOfLine
  <1> HIDE DEF d
  <1>3. d * CharHeight \in Nat /\ (d + 1) * CharHeight = d * CharHeight + CharHeight
    BY <1>1, <1>2
  <1>4. m \in 0 .. CharHeight - 1 /\ l + CharHeight = (d + 1) * CharHeight + m
    BY <1>1, <1>2, <1>3
  <1>5. ((d + 1) * CharHeight + m) \div CharHeight = d + 1
    <2> HIDE DEF m
    <2> QED BY <1>2, <1>4, PixelLine
  <1>6. ASSUME l + CharHeight \notin TextLines
        PROVE  d = Rows - 2 /\ l + CharHeight >= (Rows - 1) * CharHeight
    <2>1. (Rows - 1) * CharHeight \in Nat
      BY <1>1
    <2>2. l + CharHeight >= (Rows - 1) * CharHeight
      BY <1>1, <1>2, <1>6, <2>1 DEF TextLines
    <2>3. ASSUME d < Rows - 2 PROVE FALSE
      <3>1. d + 1 \in 0 .. Rows - 2
        BY <1>1, <1>2, <2>3
      <3>2. (d + 1) * CharHeight + m \in TextLines
        <4> HIDE DEF m
        <4> QED BY <1>4, <3>1, LineOfRow
      <3> QED BY <1>4, <1>6, <3>2
    <2> QED BY <1>1, <1>2, <2>2, <2>3
  <1> QED BY <1>4, <1>5, <1>6 DEF d

\* One pixel line more shows the paper a line further down.
LEMMA TextScroll ==
  ASSUME ConsoleInv, PrintInv, TextInv, NEW t \in Tasks, Scroll(t), ~torn'
  PROVE  TextInv'
  <1>1. /\ mode' = mode /\ boot' = boot /\ text' = text /\ ch' = ch /\ pos' = pos
        /\ cursor_pos' = cursor_pos /\ ~torn /\ pc[t] = "scroll"
        /\ fb' = [fb EXCEPT ![line[t]] = fb[line[t] + CharHeight]]
        /\ line' = [line EXCEPT ![t] = line[t] + 1]
        /\ pc' = [pc EXCEPT ![t] = IF line[t] + 1 < mode.h - CharHeight THEN "scroll" ELSE "store"]
    BY DEF Scroll, video, ghosts
  <1>2. PICK q, r : q = Before /\ r = After(t)
    OBVIOUS
  <1>3. /\ mode \in Modes /\ q \in Papers /\ ch[t] \in Chars /\ Typed(q, ch[t], r) /\ Writing(t, q, r)
        /\ boot = "up"
    BY <1>1, <1>2, WhileWriting
  <1>4. /\ cursor_pos = Cur(q) /\ pos[t] = Cur(r) /\ Top(r) = Top(q) + 1
        /\ \A l \in TextLines : IF l < line[t]
                                THEN fb[l] = Row(r, Top(r) + (l \div CharHeight) + 1)
                                ELSE fb[l] = Row(r, Top(q) + (l \div CharHeight) + 1)
    BY <1>1, <1>3 DEF Writing, Shows
  <1>5. PICK k \in Nat : k = line[t]
    BY DEF ConsoleInv, PutcInv
  <1>6. /\ pc'[t] = IF k + 1 < mode.h - CharHeight THEN "scroll" ELSE "store"
        /\ line'[t] = k + 1 /\ k < mode.h - CharHeight
        /\ \A u \in Tasks \ {t} : pc'[u] = pc[u]
    BY <1>1, <1>5 DEF ConsoleInv, PutcInv
  <1>7. /\ CharHeight \in Nat \ {0} /\ Rows \in Nat /\ Rows >= 2 /\ mode.h \in Nat
        /\ Rows * CharHeight <= mode.h /\ Rows * CharHeight \in Nat
        /\ (Rows - 1) * CharHeight \in Nat /\ (Rows - 1) * CharHeight + CharHeight = Rows * CharHeight
    <2>1. /\ CharHeight \in Nat \ {0} /\ Rows \in Nat /\ Rows >= 2 /\ mode.h \in Nat
          /\ Rows * CharHeight <= mode.h
      BY <1>3, Granularity, Sizes
    <2> QED BY <2>1
  <1>8. /\ Len(r) = Top(r) + (Rows - 1) /\ Row(r, Len(r)) = Line(Blank)
        /\ Top(r) \in Nat /\ Top(q) \in Nat
    <2>1. PICK p : p = Advance(Cur(q), ch[t])
      OBVIOUS
    <2>2. /\ Top(q) \in Nat
          /\ Scrolls(p) => r[Len(r)] = << >> /\ Len(r) = Top(r) + (Rows - 1)
          /\ ~Scrolls(p) => Top(r) = Top(q)
      BY <1>3, <2>1, CursorMoves
    <2>3. r[Len(r)] = << >> /\ Len(r) = Top(r) + (Rows - 1)
      BY <1>4, <2>2
    <2>4. Row(r, Len(r)) = Line(Blank)
      BY <1>3, <2>3, RowsTyped
    <2> QED BY <1>4, <2>2, <2>3, <2>4
  <1>9. DOMAIN fb = 0 .. mode.h - 1
    BY DEF ConsoleInv, VideoInv
  <1>10. \A l \in TextLines : l \in Nat /\ l \in DOMAIN fb /\ l \div CharHeight \in Nat
    BY <1>3, <1>9, RowOfLine
  <1>11. ASSUME k \in TextLines PROVE fb'[k] = Row(r, Top(r) + (k \div CharHeight) + 1)
    <2>1. fb'[k] = fb[k + CharHeight]
      BY <1>1, <1>5, <1>10, <1>11
    <2>2. CASE k + CharHeight \in TextLines
      <3>1. (k + CharHeight) \div CharHeight = (k \div CharHeight) + 1
        BY <1>3, <1>11, <2>2, CopiedFrom
      <3>2. ~(k + CharHeight < line[t])
        BY <1>5, <1>7
      <3>3. fb[k + CharHeight] = Row(r, Top(q) + ((k + CharHeight) \div CharHeight) + 1)
        BY <1>4, <2>2, <3>2
      <3>4. Top(q) + ((k + CharHeight) \div CharHeight) + 1 = Top(r) + (k \div CharHeight) + 1
        <4> DEFINE a == k \div CharHeight
                   b == (k + CharHeight) \div CharHeight
        <4>1. a \in Nat /\ b = a + 1
          BY <1>10, <1>11, <3>1
        <4> HIDE DEF a, b
        <4>2. Top(q) + b + 1 = Top(r) + a + 1
          BY <1>4, <1>8, <4>1
        <4> QED BY <4>2 DEF a, b
      <3> QED BY <2>1, <3>3, <3>4
    <2>3. CASE k + CharHeight \notin TextLines
      <3>1. k \div CharHeight = Rows - 2 /\ k + CharHeight >= (Rows - 1) * CharHeight
        BY <1>3, <1>11, <2>3, CopiedFrom
      <3>2. k + CharHeight \in (Rows - 1) * CharHeight .. mode.h - 1
        BY <1>6, <1>7, <3>1
      <3>3. fb[k + CharHeight] = Line(Blank)
        BY <1>3, <3>2 DEF ConsoleInv, BottomRowBlank
      <3>4. Top(r) + (k \div CharHeight) + 1 = Len(r)
        BY <1>7, <1>8, <3>1
      <3> QED BY <1>8, <2>1, <3>3, <3>4
    <2> QED BY <2>2, <2>3
  <1>12. \A l \in TextLines : IF l < k + 1
                              THEN fb'[l] = Row(r, Top(r) + (l \div CharHeight) + 1)
                              ELSE fb'[l] = Row(r, Top(q) + (l \div CharHeight) + 1)
    <2> TAKE l \in TextLines
    <2>1. l # k => fb'[l] = fb[l]
      BY <1>1, <1>5, <1>10
    <2> DEFINE a == Row(r, Top(r) + (l \div CharHeight) + 1)
               b == Row(r, Top(q) + (l \div CharHeight) + 1)
    <2>2. IF l < k THEN fb[l] = a ELSE fb[l] = b
      BY <1>4, <1>5
    <2>3. l = k => fb'[l] = a
      BY <1>11
    <2>4. l \in Nat
      BY <1>10
    <2> HIDE DEF a, b
    <2>5. IF l < k + 1 THEN fb'[l] = a ELSE fb'[l] = b
      BY <2>1, <2>2, <2>3, <2>4
    <2> QED BY <2>5 DEF a, b
  <1>13. CASE pc'[t] = "scroll"
    <2>1. \A l \in TextLines : IF l < line'[t]
                               THEN fb'[l] = Row(r, Top(r) + (l \div CharHeight) + 1)
                               ELSE fb'[l] = Row(r, Top(q) + (l \div CharHeight) + 1)
      BY <1>6, <1>12
    <2>2. Writing(t, q, r)'
      BY <1>1, <1>4, <1>13, <2>1, ScreenKept DEF Writing, Shows
    <2> QED BY <1>1, <1>2, <1>6, <1>13, <2>2, StaysWriting
  <1>14. CASE pc'[t] = "store"
    <2>1. ASSUME NEW l \in TextLines PROVE l < k + 1
      <3>1. l \in Nat /\ l < (Rows - 1) * CharHeight
        BY <1>7 DEF TextLines
      <3>2. ~(k + 1 < mode.h - CharHeight)
        BY <1>6, <1>14
      <3> QED BY <1>7, <3>1, <3>2
    <2>2. \A l \in TextLines : fb'[l] = Row(r, Top(r) + (l \div CharHeight) + 1)
      BY <1>12, <2>1
    <2>3. Writing(t, q, r)'
      BY <1>1, <1>4, <1>14, <2>2, ScreenKept DEF Writing, Shows
    <2> QED BY <1>1, <1>2, <1>6, <1>14, <2>3, StaysWriting
  <1> QED BY <1>6, <1>13, <1>14

\* The last store completes the call: the screen is the terminal's.
LEMMA StoreEnds ==
  ASSUME ConsoleInv, PrintInv, TextInv, NEW t \in Tasks, NEW f \in {"x", "y"}, Store(t, f), ~torn,
         pos'[t] = Unread
  PROVE  TextInv' /\ Term!Put(ch[t])
  <1>1. /\ mode' = mode /\ boot' = boot /\ ch' = ch /\ fb' = fb /\ torn' = torn
        /\ pc[t] = "store" /\ pos[t][f] # None
        /\ cursor_pos' = [cursor_pos EXCEPT ![f] = pos[t][f]]
        /\ pos' = [pos EXCEPT ![t][f] = None]
        /\ pc' = [pc EXCEPT ![t] = "ready"]
        /\ text' = Append(text, ch[t]) /\ shown' = Screen
    BY DEF Store, video
  <1>2. PICK q, r : q = Before /\ r = After(t)
    OBVIOUS
  <1>3. /\ mode \in Modes /\ q \in Papers /\ ch[t] \in Chars /\ Typed(q, ch[t], r) /\ Writing(t, q, r)
        /\ boot = "up" /\ text \in Seq(Chars) /\ \A u \in Tasks \ {t} : pc[u] = "ready"
    BY <1>1, <1>2, WhileWriting
  <1>4. /\ \A g \in {"x", "y"} : \/ pos[t][g] = Cur(r)[g]
                                 \/ pos[t][g] = None /\ cursor_pos[g] = Cur(r)[g]
        /\ \A l \in TextLines : Shows(r, Top(r), l)
    BY <1>1, <1>3 DEF Writing
  <1>5. /\ cursor_pos = [x |-> cursor_pos.x, y |-> cursor_pos.y]
        /\ pos[t] = [x |-> pos[t].x, y |-> pos[t].y] /\ t \in DOMAIN pos
        /\ pc \in [Tasks -> {"ready", "load", "draw", "move", "scroll", "store"}]
    BY DEF ConsoleInv, WordsInRange, PutcInv
  <1>6. \A u \in Tasks : pc'[u] = "ready"
    BY <1>1, <1>3, <1>5
  <1>7. cursor_pos' = Cur(r)
    <2>1. Cur(r) = [x |-> Cur(r).x, y |-> Cur(r).y]
      BY DEF Cur
    <2>2. CASE f = "x"
      <3>1. cursor_pos' = [x |-> pos[t].x, y |-> cursor_pos.y] /\ pos'[t].y = pos[t].y
        BY <1>1, <1>5, <2>2
      <3>2. pos[t].y = None
        BY <3>1 DEF Unread
      <3>3. pos[t].x = Cur(r).x /\ (pos[t].y = Cur(r).y \/ cursor_pos.y = Cur(r).y)
        BY <1>1, <1>4, <2>2
      <3>4. Cur(r).y # None
        <4>1. Len(r) \in Nat /\ Len(r) >= 1 /\ Rows \in Nat
          BY <1>3, Sizes DEF Typed, Papers
        <4>2. Top(r) \in Nat /\ Top(r) <= Len(r) - 1
          <5>1. Rows >= 2
            BY <1>3, Sizes
          <5> QED BY <4>1, <5>1 DEF Top
        <4>3. Cur(r).y = (Len(r) - 1) - Top(r)
          BY DEF Cur
        <4> QED BY <4>1, <4>2, <4>3 DEF None
      <3> QED BY <2>1, <3>1, <3>2, <3>3, <3>4
    <2>3. CASE f = "y"
      <3>1. cursor_pos' = [x |-> cursor_pos.x, y |-> pos[t].y] /\ pos'[t].x = pos[t].x
        BY <1>1, <1>5, <2>3
      <3>2. pos[t].x = None
        BY <3>1 DEF Unread
      <3>3. pos[t].y = Cur(r).y /\ (pos[t].x = Cur(r).x \/ cursor_pos.x = Cur(r).x)
        BY <1>1, <1>4, <2>3
      <3>4. Cur(r).x # None
        <4>1. r \in Papers
          BY <1>3 DEF Typed
        <4>2. r \in Seq(Seq(Chars)) /\ Len(r) \in Nat /\ Len(r) >= 1
          BY <4>1 DEF Papers
        <4>3. r[Len(r)] \in Seq(Chars)
          BY <4>2
        <4>4. Len(r[Len(r)]) \in Nat
          BY <4>3
        <4> QED BY <4>4 DEF Cur, None
      <3> QED BY <2>1, <3>1, <3>2, <3>3, <3>4
    <2> QED BY <2>2, <2>3
  <1>8. PICK s \in Seq(Chars) : s = Append(text, ch[t])
    <2>1. ASSUME NEW w \in Seq(Chars), NEW c \in Chars PROVE Append(w, c) \in Seq(Chars)
      OBVIOUS
    <2>2. Append(text, ch[t]) \in Seq(Chars)
      BY <1>3, <2>1
    <2> QED BY <2>2
  <1>9. Term!Paper(s) = r
    BY <1>2, <1>3, <1>8, PaperGrows DEF Before, After
  <1>10. text' = s /\ Before' = r
    BY <1>1, <1>8, <1>9, PaperKept
  <1>11. Still(r)'
    BY <1>1, <1>4, <1>7, ScreenKept DEF Still, Shows
  <1>12. TextInv'
    <2>1. Still(Before)'
      BY <1>10, <1>11
    <2>2. text' \in Seq(Chars) /\ boot' = "up"
      BY <1>1, <1>3, <1>10
    <2> QED BY <1>6, <2>1, <2>2 DEF TextInv
  <1>13. Screen = Term!Window(r)
    BY <1>3, <1>4, ScreenIs DEF Typed
  <1>14. shown' = Term!Window(Term!Paper(text'))
    <2>1. shown' = Term!Window(Term!Paper(s))
      BY <1>1, <1>9, <1>13
    <2> QED BY <1>10, <2>1
  <1> QED BY <1>1, <1>12, <1>14 DEF Term!Put

\* The first of the two stores.
LEMMA StoreHalf ==
  ASSUME ConsoleInv, PrintInv, TextInv, NEW t \in Tasks, NEW f \in {"x", "y"}, Store(t, f), ~torn,
         pos'[t] # Unread
  PROVE  TextInv' /\ text' = text /\ shown' = shown
  <1>1. /\ mode' = mode /\ boot' = boot /\ ch' = ch /\ fb' = fb /\ torn' = torn
        /\ pc[t] = "store" /\ pos[t][f] # None
        /\ cursor_pos' = [cursor_pos EXCEPT ![f] = pos[t][f]]
        /\ pos' = [pos EXCEPT ![t][f] = None]
        /\ pc' = pc /\ text' = text /\ shown' = shown
    BY DEF Store, video
  <1>2. PICK q, r : q = Before /\ r = After(t)
    OBVIOUS
  <1>3. Writing(t, q, r)
    BY <1>1, <1>2, WhileWriting
  <1>4. /\ \A g \in {"x", "y"} : \/ pos[t][g] = Cur(r)[g]
                                 \/ pos[t][g] = None /\ cursor_pos[g] = Cur(r)[g]
        /\ \A l \in TextLines : fb[l] = Row(r, Top(r) + (l \div CharHeight) + 1)
    BY <1>1, <1>3 DEF Writing, Shows
  <1>5. /\ cursor_pos = [x |-> cursor_pos.x, y |-> cursor_pos.y]
        /\ pos[t] = [x |-> pos[t].x, y |-> pos[t].y] /\ t \in DOMAIN pos
    BY DEF ConsoleInv, WordsInRange
  <1>6. /\ pos'[t][f] = None /\ cursor_pos'[f] = pos[t][f]
        /\ \A g \in {"x", "y"} \ {f} : pos'[t][g] = pos[t][g] /\ cursor_pos'[g] = cursor_pos[g]
    <2>1. CASE f = "x"
      BY <1>1, <1>5, <2>1
    <2>2. CASE f = "y"
      BY <1>1, <1>5, <2>2
    <2> QED BY <2>1, <2>2
  <1>7. \A g \in {"x", "y"} : \/ pos'[t][g] = Cur(r)[g]
                              \/ pos'[t][g] = None /\ cursor_pos'[g] = Cur(r)[g]
    BY <1>1, <1>4, <1>6
  <1>8. Writing(t, q, r)'
    BY <1>1, <1>4, <1>7, ScreenKept DEF Writing, Shows
  <1> QED BY <1>1, <1>2, <1>8, StaysWriting

\* Every step preserves the invariant of the text.
LEMMA TextStep == ConsoleInv /\ PrintInv /\ TextInv /\ [Next]_vars => TextInv'
  <1> SUFFICES ASSUME ConsoleInv, PrintInv, TextInv, [Next]_vars, ~torn' PROVE TextInv'
    BY DEF TextInv
  <1>1. CASE UNCHANGED vars
    BY <1>1, TextStutter DEF vars
  <1>2. CASE VideoInit
    BY <1>2, TextVideoInit
  <1>3. CASE Clear
    BY <1>3, TextClear
  <1>4. ASSUME NEW t \in Tasks, Convert(t) PROVE TextInv'
    BY <1>4, TextStutter DEF Convert
  <1>5. ASSUME NEW t \in Tasks, Putc(t) PROVE TextInv'
    BY <1>5, TextPutc
  <1>6. ASSUME NEW t \in Tasks, Draw(t) PROVE TextInv'
    BY <1>6, TextDraw
  <1>7. ASSUME NEW t \in Tasks, Move(t) PROVE TextInv'
    BY <1>7, TextMove
  <1>8. ASSUME NEW t \in Tasks, Scroll(t) PROVE TextInv'
    BY <1>8, TextScroll
  <1>9. ASSUME NEW t \in Tasks, NEW f \in {"x", "y"}, Load(t, f) PROVE TextInv'
    BY <1>9, TextLoad
  <1>10. ASSUME NEW t \in Tasks, NEW f \in {"x", "y"}, Store(t, f) PROVE TextInv'
    <2>1. ~torn
      BY <1>10 DEF Store
    <2> QED BY <1>10, <2>1, StoreHalf, StoreEnds
  <1> QED BY <1>1, <1>2, <1>3, <1>4, <1>5, <1>6, <1>7, <1>8, <1>9, <1>10 DEF Next

\* At every step of putc the framebuffer shows the paper, as far as it is drawn,
\* moved or scrolled, unless two calls have overlapped.
THEOREM TextInvariant == Spec => []TextInv
  <1>1. Init => TextInv
    BY TextInitially
  <1>2. ConsoleInv /\ PrintInv /\ TextInv /\ [Next]_vars => TextInv'
    BY TextStep
  <1> QED BY <1>1, <1>2, ConsoleInvariant, PrintInvariant, PTL DEF Spec

TornType == torn \in BOOLEAN

\* torn is a truth value: a call that does not overlap leaves it alone.
LEMMA TornTyped == Spec => []TornType
  <1>1. Init => TornType
    BY DEF Init, TornType
  <1>2. TornType /\ [Next]_vars => TornType'
    <2> SUFFICES ASSUME torn \in BOOLEAN, [Next]_vars, torn' # torn PROVE torn' \in BOOLEAN
      BY DEF TornType
    <2>1. ASSUME NEW t \in Tasks, Putc(t) PROVE torn' \in BOOLEAN
      BY <2>1 DEF Putc
    <2>2. \E t \in Tasks : Putc(t)
      BY DEF Next, vars, ghosts, VideoInit, Clear, Convert, Load, Draw, Move, Scroll, Store
    <2> QED BY <2>1, <2>2
  <1> QED BY <1>1, <1>2, PTL DEF Spec

\* The blank screen is the terminal before the first character.
LEMMA TerminalInitially == Init => Term!AbsInit
  <1> SUFFICES ASSUME Init PROVE Term!AbsInit
    OBVIOUS
  <1>1. /\ mode \in Modes /\ text = << >> /\ torn = FALSE
        /\ shown = [r \in 0 .. Rows - 2 |-> [k \in 0 .. Cols - 1 |-> Blank]]
    BY DEF Init
  <1>2. Rows \in Nat /\ Rows >= 2 /\ Cols \in Nat
    BY <1>1, Sizes
  <1>3. Term!Paper(<< >>) = << << >> >>
    <2>1. << >> \in Seq(Chars)
      OBVIOUS
    <2>2. PICK c \in Chars : c = Newline
      BY DEF Chars
    <2> QED BY <1>1, <2>1, <2>2, PaperGrows
  <1>4. shown = Term!Window(<< << >> >>)
    <2> DEFINE q == << << >> >>
               top == Term!Max({0, Len(q) - (Rows - 1)})
    <2>1. Len(q) = 1 /\ q[1] = << >> /\ Len(q[1]) = 0
      OBVIOUS
    <2> HIDE DEF q
    <2>2. top = 0
      <3>1. 1 - (Rows - 1) \in Int /\ 1 - (Rows - 1) <= 0
        BY <1>2
      <3>2. \A n \in Int : n <= 0 => Term!Max({0, n}) = 0
        BY DEF Term!Max
      <3> QED BY <2>1, <3>1, <3>2
    <2> HIDE DEF top
    <2>3. ASSUME NEW r \in 0 .. Rows - 2, NEW k \in 0 .. Cols - 1
          PROVE  ~(top + r < Len(q) /\ k < Len(q[top + r + 1]))
      <3>1. r \in Nat /\ k \in Nat
        OBVIOUS
      <3>2. r # 0 => ~(top + r < Len(q))
        BY <2>1, <2>2, <3>1
      <3>3. r = 0 => ~(k < Len(q[top + r + 1]))
        BY <2>1, <2>2, <3>1
      <3> QED BY <3>2, <3>3
    <2>4. Term!Window(q) = [r \in 0 .. Rows - 2 |-> [k \in 0 .. Cols - 1 |->
            IF top + r < Len(q) /\ k < Len(q[top + r + 1]) THEN q[top + r + 1][k + 1] ELSE Blank]]
      BY DEF Term!Window, top
    <2>5. Term!Window(q) = shown
      BY <1>1, <2>3, <2>4
    <2> QED BY <2>5 DEF q
  <1> QED BY <1>1, <1>3, <1>4 DEF Term!AbsInit

\* Every step is one of the terminal or changes nothing it has.
LEMMA TerminalStep ==
  ConsoleInv /\ PrintInv /\ TextInv /\ TornType /\ [Next]_vars => [Term!AbsNext]_(Term!absVars)
  <1> SUFFICES ASSUME ConsoleInv, PrintInv, TextInv, torn \in BOOLEAN, [Next]_vars
               PROVE  [Term!AbsNext]_(Term!absVars)
    BY DEF TornType
  <1>1. mode' = mode
    BY DEF Next, vars, video, VideoInit, Clear, Convert, Putc, Load, Draw, Move, Scroll, Store
  <1>2. Cols' = Cols /\ Rows' = Rows
    BY <1>1 DEF Cols, Rows
  <1>3. CASE torn'
    BY <1>2, <1>3 DEF Term!AbsNext
  <1>4. CASE UNCHANGED ghosts
    BY <1>2, <1>4 DEF Term!absVars, ghosts
  <1>5. ASSUME NEW t \in Tasks, Putc(t), ~torn' PROVE UNCHANGED ghosts
    <2>1. torn' = (torn \/ \E u \in Tasks : pc[u] # "ready") /\ text' = text /\ shown' = shown
      BY <1>5 DEF Putc
    <2>2. torn' = torn
      BY <1>5, <2>1
    <2> QED BY <2>1, <2>2 DEF ghosts
  <1>6. ASSUME NEW t \in Tasks, NEW f \in {"x", "y"}, Store(t, f), ~torn' 
        PROVE [Term!AbsNext]_(Term!absVars)
    <2>1. ~torn /\ torn' = torn
      BY <1>6 DEF Store
    <2>2. CASE pos'[t] # Unread
      BY <1>2, <1>6, <2>1, <2>2, StoreHalf DEF Term!absVars
    <2>3. CASE pos'[t] = Unread
      <3>1. Term!Put(ch[t])
        BY <1>6, <2>1, <2>3, StoreEnds
      <3>2. ch[t] \in Glyphs \cup {Newline}
        <4>1. pc[t] # "ready"
          BY <1>6 DEF Store
        <4> QED BY <2>1, <4>1, WhileWriting DEF Chars
      <3> QED BY <1>2, <3>1, <3>2 DEF Term!AbsNext
    <2> QED BY <2>2, <2>3
  <1>7. CASE UNCHANGED vars
    BY <1>4, <1>7 DEF vars
  <1>8. CASE VideoInit \/ Clear
    BY <1>4, <1>8 DEF VideoInit, Clear
  <1>9. ASSUME NEW t \in Tasks, Convert(t) \/ Draw(t) \/ Move(t) \/ Scroll(t) PROVE UNCHANGED ghosts
    BY <1>9 DEF Convert, Draw, Move, Scroll
  <1>10. ASSUME NEW t \in Tasks, NEW f \in {"x", "y"}, Load(t, f) PROVE UNCHANGED ghosts
    BY <1>10 DEF Load
  <1> QED BY <1>3, <1>4, <1>5, <1>6, <1>7, <1>8, <1>9, <1>10 DEF Next

\* putc implements the terminal: cursor, wrapping and scrolling show the end of
\* the text after every call, as long as no two calls overlap.
THEOREM TerminalRefinement == Spec => ImplementsTerminal
  <1>1. Init => Term!AbsInit
    BY TerminalInitially
  <1>2. ConsoleInv /\ PrintInv /\ TextInv /\ TornType /\ [Next]_vars => [Term!AbsNext]_(Term!absVars)
    BY TerminalStep
  <1> QED BY <1>1, <1>2, ConsoleInvariant, PrintInvariant, TextInvariant, TornTyped, PTL
          DEF Spec, ImplementsTerminal, Term!AbsSpec
=============================================================================

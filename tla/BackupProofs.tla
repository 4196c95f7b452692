---------------------------- MODULE BackupProofs ----------------------------
(***************************************************************************)
(* Backups for any prime field, any number of shares and any options: what *)
(* the two bindings make of the same options, that a restore gives back    *)
(* the keypair that was backed up or nothing, that enough shares do give   *)
(* it back and that fewer say nothing of the secret.                       *)
(*                                                                         *)
(* The first two are the cipher's doing.  The last two are the arithmetic  *)
(* of the shares, from the ground up: numbers up to multiples of the order *)
(* of the field; reciprocals, because the order is prime; polynomials,     *)
(* which are divided by x - m; Lagrange's formula.  What is defined by      *)
(* recursion is reached by induction over sets of numbers, which have a    *)
(* least element.                                                          *)
(***************************************************************************)
EXTENDS Backup, WellFoundedInduction, FiniteSetTheorems, TLAPS

-----------------------------------------------------------------------------
(* Numbers up to multiples of the order.                                   *)

\* Equal but for a multiple of the order.
Congruent(a, b) == \E k \in Int : a = b + k * Prime

\* The field has 0, 1, and more.
LEMMA PrimeFacts == Prime \in Nat /\ Prime > 3 /\ Field \subseteq Int /\ 0 \in Field /\ 1 \in Field
BY BackupAssumption DEF Field

\* Sets of members of the field are finite.
LEMMA FieldFinite == \A S \in SUBSET Field : IsFiniteSet(S)
<1>1. IsFiniteSet(Field)
  BY PrimeFacts, FS_Interval DEF Field
<1>2. QED BY <1>1, FS_Subset

\* A number and its remainder differ by a multiple.
LEMMA ModOf ==
  ASSUME NEW a \in Int
  PROVE  a % Prime \in Field /\ Congruent(a, a % Prime)
<1>1. a % Prime \in 0..(Prime - 1) /\ a \div Prime \in Int
  BY PrimeFacts
<1>2. a = Prime * (a \div Prime) + (a % Prime)
  BY PrimeFacts
<1>3. a = (a % Prime) + (a \div Prime) * Prime
  BY <1>1, <1>2, PrimeFacts
<1>4. QED BY <1>1, <1>3 DEF Field, Congruent

\* Members of the field that differ by a multiple are the same.
LEMMA SameInField ==
  ASSUME NEW a \in Field, NEW b \in Field, Congruent(a, b)
  PROVE  a = b
<1>1. PICK k \in Int : a = b + k * Prime
  BY DEF Congruent
<1>2. a \in Int /\ b \in Int /\ Prime \in Int /\ 0 <= a /\ a < Prime /\ 0 <= b /\ b < Prime
  BY PrimeFacts DEF Field
<1>3. k >= 1 => k * Prime >= Prime
  BY <1>2
<1>4. k <= -1 => k * Prime <= -Prime
  BY <1>2
<1>5. k = 0
  BY <1>1, <1>2, <1>3, <1>4
<1>6. QED BY <1>1, <1>2, <1>5

\* Congruent is symmetric,
LEMMA CongruentBack ==
  ASSUME NEW a \in Int, NEW b \in Int, Congruent(a, b)
  PROVE  Congruent(b, a)
<1>1. PICK k \in Int : a = b + k * Prime
  BY DEF Congruent
<1>2. b = a + (-k) * Prime /\ -k \in Int
  BY <1>1, PrimeFacts
<1>3. QED BY <1>2 DEF Congruent

\* transitive,
LEMMA CongruentOn ==
  ASSUME NEW a \in Int, NEW b \in Int, NEW c \in Int, Congruent(a, b), Congruent(b, c)
  PROVE  Congruent(a, c)
<1>1. PICK k \in Int : a = b + k * Prime
  BY DEF Congruent
<1>2. PICK l \in Int : b = c + l * Prime
  BY DEF Congruent
<1>3. a = c + (k + l) * Prime /\ k + l \in Int
  BY <1>1, <1>2, PrimeFacts
<1>4. QED BY <1>3 DEF Congruent

\* kept by sums, differences and products,
LEMMA CongruentOps ==
  ASSUME NEW a \in Int, NEW b \in Int, NEW c \in Int, NEW d \in Int,
         Congruent(a, b), Congruent(c, d)
  PROVE  Congruent(a + c, b + d) /\ Congruent(a - c, b - d) /\ Congruent(a * c, b * d)
<1>1. PICK k \in Int : a = b + k * Prime
  BY DEF Congruent
<1>2. PICK l \in Int : c = d + l * Prime
  BY DEF Congruent
<1>3. a + c = (b + d) + (k + l) * Prime /\ k + l \in Int
  BY <1>1, <1>2, PrimeFacts
<1>4. a - c = (b - d) + (k - l) * Prime /\ k - l \in Int
  BY <1>1, <1>2, PrimeFacts
<1>5. a * c = b * d + (b * l + k * d + k * l * Prime) * Prime
  <2>1. a * c = (b + k * Prime) * (d + l * Prime)
    BY <1>1, <1>2
  <2>2. QED BY <2>1, PrimeFacts
<1>6. b * l + k * d + k * l * Prime \in Int
  BY PrimeFacts
<1>7. QED BY <1>3, <1>4, <1>5, <1>6 DEF Congruent

\* and equality of the remainders.
LEMMA CongruentMod ==
  ASSUME NEW a \in Int, NEW b \in Int
  PROVE  Congruent(a, b) <=> a % Prime = b % Prime
<1>1. /\ a % Prime \in Field /\ b % Prime \in Field
      /\ Congruent(a, a % Prime) /\ Congruent(b, b % Prime)
      /\ a % Prime \in Int /\ b % Prime \in Int
  BY ModOf, PrimeFacts
<1>2. Congruent(a % Prime, a) /\ Congruent(b % Prime, b)
  BY <1>1, CongruentBack
<1>3. ASSUME Congruent(a, b) PROVE a % Prime = b % Prime
  <2>1. Congruent(a % Prime, b)
    BY <1>1, <1>2, <1>3, CongruentOn
  <2>2. Congruent(a % Prime, b % Prime)
    BY <1>1, <2>1, CongruentOn
  <2>3. QED BY <1>1, <2>2, SameInField
<1>4. ASSUME a % Prime = b % Prime PROVE Congruent(a, b)
  BY <1>1, <1>2, <1>4, CongruentOn
<1>5. QED BY <1>3, <1>4

-----------------------------------------------------------------------------
(* Induction and recursion over the natural numbers.                       *)

\* A set of numbers that is not empty has a least one.
LEMMA Least ==
  ASSUME NEW T \in SUBSET Nat, T # {}
  PROVE  \E x \in T : \A y \in T : x <= y
<1> DEFINE R == OpToRel(<, Nat)
<1>1. IsWellFoundedOn(R, Nat)
  BY NatLessThanWellFounded
<1>2. \A i, j \in Nat : <<i, j>> \in R <=> i < j
  BY DEF OpToRel
<1> HIDE DEF R
<1>3. PICK x \in T : \A y \in T : ~ (<<y, x>> \in R)
  BY <1>1, WFMin
<1>4. ASSUME NEW y \in T PROVE x <= y
  <2>1. x \in Nat /\ y \in Nat /\ ~(y < x)
    BY <1>2, <1>3
  <2>2. QED BY <2>1
<1>5. QED BY <1>4

\* Induction: a set of numbers that has 0, and with each number the next, has all.
LEMMA Induct ==
  ASSUME NEW T \in SUBSET Nat, 0 \in T, \A n \in T : n + 1 \in T
  PROVE  T = Nat
<1> SUFFICES ASSUME Nat \ T # {} PROVE FALSE
  OBVIOUS
<1>1. PICK x \in Nat \ T : \A y \in Nat \ T : x <= y
  <2>1. Nat \ T \in SUBSET Nat
    OBVIOUS
  <2>2. QED BY <2>1, Least
<1>2. x # 0 /\ x - 1 \in Nat /\ ~(x <= x - 1) /\ (x - 1) + 1 = x
  OBVIOUS
<1>3. x - 1 \in T
  BY <1>1, <1>2
<1>4. QED BY <1>2, <1>3

\* Induction up to a bound.
LEMMA InductTo ==
  ASSUME NEW n \in Nat, NEW T, 0 \in T, \A k \in 0..(n - 1) : k \in T => k + 1 \in T
  PROVE  \A k \in 0..n : k \in T
<1> DEFINE U == {k \in Nat : k <= n => k \in T}
<1>1. 0 \in U
  OBVIOUS
<1>2. ASSUME NEW k \in U PROVE k + 1 \in U
  <2>1. ASSUME k + 1 <= n PROVE k + 1 \in T
    <3>1. k \in 0..(n - 1) /\ k \in T
      BY <2>1
    <3>2. QED BY <3>1
  <2>2. QED BY <2>1
<1>3. U = Nat
  <2>1. U \in SUBSET Nat
    OBVIOUS
  <2> HIDE DEF U
  <2>2. QED BY <1>1, <1>2, <2>1, Induct
<1>4. QED BY <1>3

\* h starts with base, and step leads from each value to the next.
Follows(h, D, base, step) ==
  /\ h \in [Nat -> D] /\ h[0] = base
  /\ \A n \in Nat : h[n + 1] = step[<<n, h[n]>>]

\* A function may be defined by recursion.
LEMMA Recursion ==
  ASSUME NEW D, NEW base \in D, NEW step \in [Nat \X D -> D]
  PROVE  \E h : Follows(h, D, base, step)
<1> DEFINE Starts(n, g) == /\ g \in [0..n -> D] /\ g[0] = base
                           /\ \A k \in 0..(n - 1) : g[k + 1] = step[<<k, g[k]>>]
<1>1. \A n \in Nat : \E g : Starts(n, g)
  <2> DEFINE T == {n \in Nat : \E g : Starts(n, g)}
  <2>1. 0 \in T
    <3>1. Starts(0, [k \in 0..0 |-> base])
      OBVIOUS
    <3>2. QED BY <3>1
  <2>2. ASSUME NEW n \in T PROVE n + 1 \in T
    <3>1. n \in Nat
      OBVIOUS
    <3>2. PICK g : Starts(n, g)
      OBVIOUS
    <3> DEFINE e == [k \in 0..(n + 1) |-> IF k = n + 1 THEN step[<<n, g[n]>>] ELSE g[k]]
    <3>3. g[n] \in D /\ step[<<n, g[n]>>] \in D
      BY <3>1, <3>2
    <3>4. e \in [0..(n + 1) -> D] /\ e[0] = base
      BY <3>1, <3>2, <3>3
    <3>5. ASSUME NEW k \in 0..n PROVE e[k + 1] = step[<<k, e[k]>>]
      <4>1. e[k] = g[k]
        BY <3>1
      <4>2. CASE k = n
        <5>1. e[n + 1] = step[<<n, g[n]>>]
          BY <3>1
        <5>2. QED BY <4>1, <4>2, <5>1
      <4>3. CASE k # n
        <5>1. k \in 0..(n - 1) /\ k + 1 \in 0..n /\ k + 1 # n + 1
          BY <3>1, <4>3
        <5>2. e[k + 1] = g[k + 1]
          BY <3>1, <5>1
        <5>3. QED BY <3>2, <4>1, <5>1, <5>2
      <4>4. QED BY <4>2, <4>3
    <3> HIDE DEF e
    <3>6. Starts(n + 1, e)
      BY <3>1, <3>4, <3>5
    <3>7. QED BY <3>1, <3>6
  <2> HIDE DEF T
  <2>3. T \in SUBSET Nat
    BY DEF T
  <2>4. T = Nat
    BY <2>1, <2>2, <2>3, Induct
  <2>5. QED BY <2>4 DEF T
<1>2. ASSUME NEW n \in Nat, NEW g, NEW f, Starts(n, g), Starts(n + 1, f)
      PROVE  \A k \in 0..n : f[k] = g[k]
  <2> DEFINE T == {k \in Nat : k <= n => f[k] = g[k]}
  <2>1. 0 \in T
    BY <1>2
  <2>2. ASSUME NEW k \in T PROVE k + 1 \in T
    <3>1. k \in Nat
      OBVIOUS
    <3>2. ASSUME k + 1 <= n PROVE f[k + 1] = g[k + 1]
      <4>1. k \in 0..(n - 1) /\ k \in 0..((n + 1) - 1) /\ f[k] = g[k]
        BY <3>1, <3>2
      <4>2. QED BY <1>2, <4>1
    <3>3. QED BY <3>1, <3>2
  <2>3. T = Nat
    <3> HIDE DEF T
    <3>1. T \in SUBSET Nat
      BY DEF T
    <3>2. QED BY <2>1, <2>2, <3>1, Induct
  <2>4. QED BY <2>3
<1> DEFINE G == [n \in Nat |-> CHOOSE g : Starts(n, g)]
           h == [n \in Nat |-> G[n][n]]
<1>3. \A n \in Nat : Starts(n, G[n])
  BY <1>1
<1> HIDE DEF G
<1>4. \A n \in Nat : h[n] = G[n][n] /\ h[n] \in D
  <2> TAKE n \in Nat
  <2>1. Starts(n, G[n])
    BY <1>3
  <2>2. QED BY <2>1
<1>5. h[0] = base
  BY <1>3, <1>4
<1>6. ASSUME NEW n \in Nat PROVE h[n + 1] = step[<<n, h[n]>>]
  <2>1. n + 1 \in Nat /\ n \in 0..n /\ n \in 0..((n + 1) - 1)
    OBVIOUS
  <2>2. Starts(n, G[n]) /\ Starts(n + 1, G[n + 1])
    BY <1>3, <2>1
  <2>3. G[n + 1][n] = G[n][n]
    <3> HIDE DEF Starts
    <3>1. \A k \in 0..n : G[n + 1][k] = G[n][k]
      BY <1>2, <2>2
    <3>2. QED BY <2>1, <3>1
  <2>4. G[n + 1][n + 1] = step[<<n, G[n + 1][n]>>]
    BY <2>1, <2>2
  <2>5. QED BY <1>4, <2>1, <2>3, <2>4
<1>7. h \in [Nat -> D]
  BY <1>4
<1>8. QED BY <1>5, <1>6, <1>7 DEF Follows

-----------------------------------------------------------------------------
(* Reciprocals.                                                            *)

\* A product of two numbers between 0 and Prime is not a multiple of Prime.
LEMMA NoZeroDivisors ==
  ASSUME NEW a \in 1..(Prime - 1), NEW b \in 1..(Prime - 1)
  PROVE  ~Congruent(a * b, 0)
<1> DEFINE T == {n \in 1..(Prime - 1) : Congruent(a * n, 0)}
<1> SUFFICES ASSUME T # {} PROVE FALSE
  OBVIOUS
<1>1. PICK n \in T : \A y \in T : n <= y
  <2>1. T \in SUBSET Nat
    OBVIOUS
  <2> HIDE DEF T
  <2>2. QED BY <2>1, Least
<1>2. n \in Int /\ 1 <= n /\ n < Prime /\ a \in Int /\ 1 <= a /\ a < Prime
      /\ Congruent(a * n, 0) /\ Prime \in Int
  BY PrimeFacts
<1>3. n # 1
  <2> SUFFICES ASSUME n = 1 PROVE FALSE
    OBVIOUS
  <2>1. Congruent(a, 0) /\ a \in Field /\ 0 \in Field
    BY <1>2, PrimeFacts DEF Field
  <2>2. QED BY <1>2, <2>1, SameInField
<1> DEFINE q == Prime \div n
           r == Prime % n
<1>4. /\ q \in Int /\ r \in Int /\ 0 <= r /\ r < n
      /\ Prime = n * q + r
  BY <1>2, PrimeFacts
<1> HIDE DEF q, r, T
<1>5. r # 0
  <2> SUFFICES ASSUME r = 0 PROVE FALSE
    OBVIOUS
  <2>1. Prime = n * q
    BY <1>2, <1>4
  <2>2. q >= 1
    BY <1>2, <2>1, <1>4, PrimeFacts
  <2>3. q # 1
    BY <1>2, <2>1
  <2>4. q < Prime
    <3>1. n >= 2
      BY <1>2, <1>3
    <3>2. n * q >= 2 * q
      <4>1. (n - 2) * q >= 0
        BY <1>2, <1>4, <2>2, <3>1
      <4>2. n * q = 2 * q + (n - 2) * q
        BY <1>2, <1>4
      <4>3. QED BY <1>2, <1>4, <4>1, <4>2
    <3>3. QED BY <1>2, <1>4, <2>1, <2>2, <3>2
  <2>5. q \in 2..(Prime - 1) /\ n \in 2..(Prime - 1)
    BY <1>2, <1>3, <1>4, <2>2, <2>3, <2>4
  <2>6. QED BY <2>1, <2>5, BackupAssumption
<1>6. Congruent(a * r, 0)
  <2>1. PICK k \in Int : a * n = 0 + k * Prime
    BY <1>2 DEF Congruent
  <2>2. a * r = a * Prime - (a * n) * q
    <3>1. r = Prime - n * q
      BY <1>2, <1>4
    <3>2. QED BY <1>2, <1>4, <3>1
  <2>3. a * r = 0 + (a - k * q) * Prime
    <3>1. (a * n) * q = (k * Prime) * q
      BY <1>2, <1>4, <2>1
    <3>2. QED BY <1>2, <1>4, <2>2, <3>1
  <2>4. a - k * q \in Int
    BY <1>2, <1>4
  <2>5. QED BY <2>3, <2>4 DEF Congruent
<1>7. r \in T
  BY <1>2, <1>4, <1>5, <1>6 DEF T
<1>8. QED BY <1>1, <1>2, <1>4, <1>7

\* So each of them has a reciprocal.
LEMMA ReciprocalOf ==
  ASSUME NEW a \in 1..(Prime - 1)
  PROVE  Reciprocal[a] \in Field /\ Congruent(a * Reciprocal[a], 1)
<1> DEFINE times == [b \in Field |-> (a * b) % Prime]
<1>1. times \in [Field -> Field]
  <2>1. ASSUME NEW b \in Field PROVE (a * b) % Prime \in Field
    <3>1. a * b \in Int
      BY PrimeFacts
    <3>2. QED BY <3>1, ModOf
  <2>2. QED BY <2>1
<1>2. ASSUME NEW b \in Field, NEW c \in Field, times[b] = times[c]
      PROVE  b = c
  <2>1. a \in Int /\ b \in Int /\ c \in Int /\ a * b \in Int /\ a * c \in Int
        /\ Prime \in Int
    BY PrimeFacts
  <2>2. Congruent(a * b, a * c)
    BY <1>2, <2>1, CongruentMod
  <2>3. PICK k \in Int : a * b = a * c + k * Prime
    BY <2>2 DEF Congruent
  <2>4. ASSUME c < b PROVE FALSE
    <3>1. b - c \in 1..(Prime - 1)
      BY <2>1, <2>4 DEF Field
    <3>2. a * (b - c) = 0 + k * Prime
      BY <2>1, <2>3
    <3>3. QED BY <3>1, <3>2, NoZeroDivisors DEF Congruent
  <2>5. ASSUME b < c PROVE FALSE
    <3>1. c - b \in 1..(Prime - 1)
      BY <2>1, <2>5 DEF Field
    <3>2. a * (c - b) = 0 + (-k) * Prime /\ -k \in Int
      BY <2>1, <2>3
    <3>3. QED BY <3>1, <3>2, NoZeroDivisors DEF Congruent
  <2>6. QED BY <2>1, <2>4, <2>5
<1>3. IsFiniteSet(Field)
  BY PrimeFacts, FS_Interval DEF Field
<1>4. times \in Injection(Field, Field)
  BY <1>1, <1>2 DEF Injection, IsInjective
<1>5. times \in Surjection(Field, Field)
  BY <1>3, <1>4, FS_Injection
<1>6. PICK b \in Field : times[b] = 1
  BY <1>5, PrimeFacts DEF Surjection
<1>7. \E b1 \in Field : (a * b1) % Prime = 1
  BY <1>6
<1>8. Reciprocal[a] \in Field /\ (a * Reciprocal[a]) % Prime = 1
  BY <1>7 DEF Reciprocal
<1>9. a * Reciprocal[a] \in Int
  <2>1. a \in Int
    OBVIOUS
  <2>2. Reciprocal[a] \in Int
    BY <1>8, PrimeFacts
  <2>3. QED BY <2>1, <2>2
<1>10. QED BY <1>8, <1>9, ModOf

-----------------------------------------------------------------------------
(* Polynomials.                                                            *)

Coefficients(d) == [0..(d - 1) -> Field]

\* The value that Horner's rule has after k of the coefficients.
Horner(c, d, x) ==
  CHOOSE value : value = [k \in 0..d |->
    IF k = 0 THEN 0 ELSE (c[d - k] + x * value[k - 1]) % Prime]

\* At is what Horner's rule comes to, one coefficient at a time.
LEMMA HornerSteps ==
  ASSUME NEW d \in Nat, NEW c \in Coefficients(d), NEW x \in Field
  PROVE  /\ At(c, x) = Horner(c, d, x)[d]
         /\ Horner(c, d, x) \in [0..d -> Field]
         /\ Horner(c, d, x)[0] = 0
         /\ \A k \in 0..(d - 1) :
              Horner(c, d, x)[k + 1] = (c[d - (k + 1)] + x * Horner(c, d, x)[k]) % Prime
<1> DEFINE next(k, v) == IF k < d THEN (c[d - (k + 1)] + x * v) % Prime ELSE 0
           step == [p \in Nat \X Field |-> next(p[1], p[2])]
<1>1. step \in [Nat \X Field -> Field]
  <2>1. ASSUME NEW k \in Nat, NEW v \in Field PROVE next(k, v) \in Field
    <3>1. CASE k < d
      <4>1. d - (k + 1) \in 0..(d - 1)
        BY <3>1
      <4>2. c[d - (k + 1)] \in Int /\ x \in Int /\ v \in Int
        BY <4>1, PrimeFacts DEF Coefficients
      <4>3. c[d - (k + 1)] + x * v \in Int
        BY <4>2
      <4>4. QED BY <3>1, <4>3, ModOf
    <3>2. CASE ~(k < d)
      BY <3>2, PrimeFacts
    <3>3. QED BY <3>1, <3>2
  <2> HIDE DEF next
  <2>2. QED BY <2>1
<1>2. PICK h \in [Nat -> Field] : h[0] = 0 /\ \A n \in Nat : h[n + 1] = step[<<n, h[n]>>]
  <2> HIDE DEF step
  <2>1. 0 \in Field
    BY PrimeFacts
  <2>2. \E h : Follows(h, Field, 0, step)
    BY <1>1, <2>1, Recursion
  <2>3. QED BY <2>2 DEF Follows
<1>3. ASSUME NEW k \in 0..(d - 1)
      PROVE  h[k + 1] = (c[d - (k + 1)] + x * h[k]) % Prime
  <2>1. k \in Nat /\ h[k] \in Field /\ k < d
    BY <1>2
  <2>2. h[k + 1] = step[<<k, h[k]>>]
    BY <1>2, <2>1
  <2>3. QED BY <2>1, <2>2
<1> HIDE DEF step
<1> DEFINE hd == [k \in 0..d |-> h[k]]
<1>4. hd = [k \in 0..d |-> IF k = 0 THEN 0 ELSE (c[d - k] + x * hd[k - 1]) % Prime]
  <2>1. ASSUME NEW k \in 0..d
        PROVE  hd[k] = IF k = 0 THEN 0 ELSE (c[d - k] + x * hd[k - 1]) % Prime
    <3>1. CASE k = 0
      BY <1>2, <3>1
    <3>2. CASE k # 0
      <4>1. k - 1 \in 0..(d - 1) /\ (k - 1) + 1 = k /\ k - 1 \in 0..d
        BY <3>2
      <4>2. h[k] = (c[d - k] + x * h[k - 1]) % Prime
        BY <1>3, <4>1
      <4>3. QED BY <3>2, <4>1, <4>2
    <3>3. QED BY <3>1, <3>2
  <2>2. QED BY <2>1
<1> HIDE DEF hd
<1>5. Horner(c, d, x) = [k \in 0..d |->
        IF k = 0 THEN 0 ELSE (c[d - k] + x * Horner(c, d, x)[k - 1]) % Prime]
  BY <1>4, Zenon DEF Horner
<1>6. At(c, x) = Horner(c, d, x)[d]
  <2>1. Cardinality(DOMAIN c) = d
    <3>1. DOMAIN c = 0..(d - 1)
      BY DEF Coefficients
    <3>2. Cardinality(0..(d - 1)) = d
      BY FS_Interval
    <3>3. QED BY <3>1, <3>2
  <2>2. QED BY <2>1, Zenon DEF At, Horner
<1> DEFINE H == Horner(c, d, x)
<1>7. \A k \in 0..d : H[k] = IF k = 0 THEN 0 ELSE (c[d - k] + x * H[k - 1]) % Prime
  BY <1>5
<1>8. H[0] = 0
  BY <1>7
<1>9. ASSUME NEW k \in 0..(d - 1) PROVE H[k + 1] = (c[d - (k + 1)] + x * H[k]) % Prime
  <2>1. k + 1 \in 0..d /\ k + 1 # 0 /\ (k + 1) - 1 = k
    OBVIOUS
  <2> HIDE DEF H
  <2>2. QED BY <1>7, <2>1
<1>10. \A k \in 0..d : H[k] \in Field
  <2> HIDE DEF H
  <2> DEFINE T == {k \in 0..d : H[k] \in Field}
  <2>1. 0 \in T
    BY <1>8, PrimeFacts
  <2>2. ASSUME NEW k \in 0..(d - 1), k \in T PROVE k + 1 \in T
    <3>1. d - (k + 1) \in 0..(d - 1) /\ H[k] \in Field
      BY <2>2
    <3>2. c[d - (k + 1)] \in Int /\ x \in Int /\ H[k] \in Int
      BY <3>1, PrimeFacts DEF Coefficients
    <3>3. c[d - (k + 1)] + x * H[k] \in Int
      BY <3>2
    <3>4. H[k + 1] \in Field
      BY <1>9, <3>3, ModOf
    <3>5. QED BY <3>4
  <2> HIDE DEF T
  <2>3. \A k \in 0..d : k \in T
    BY <2>1, <2>2, InductTo
  <2>4. QED BY <2>3 DEF T
<1>11. H \in [0..d -> Field]
  <2>1. H = [k \in 0..d |-> H[k]]
    BY <1>5
  <2> HIDE DEF H
  <2>2. QED BY <1>10, <2>1
<1>12. QED BY <1>6, <1>8, <1>9, <1>11

\* The polynomial functions with d coefficients.
Pol(d) == {[x \in Field |-> At(c, x)] : c \in Coefficients(d)}

\* One more coefficient, in front.
AddTerm(a, h) == [x \in Field |-> (a + x * h[x]) % Prime]

\* AddTerm makes a function of the field.
LEMMA AddTermType ==
  ASSUME NEW a \in Field, NEW h \in [Field -> Field]
  PROVE  AddTerm(a, h) \in [Field -> Field]
<1>1. ASSUME NEW x \in Field PROVE (a + x * h[x]) % Prime \in Field
  <2>1. a \in Int /\ x \in Int /\ h[x] \in Int
    BY PrimeFacts
  <2>2. a + x * h[x] \in Int
    BY <2>1
  <2>3. QED BY <2>2, ModOf
<1>2. QED BY <1>1 DEF AddTerm

\* So is every polynomial.
LEMMA PolType ==
  ASSUME NEW d \in Nat
  PROVE  Pol(d) \subseteq [Field -> Field]
<1>1. ASSUME NEW c \in Coefficients(d), NEW x \in Field PROVE At(c, x) \in Field
  <2>1. d \in 0..d
    OBVIOUS
  <2>2. QED BY <2>1, HornerSteps
<1>2. QED BY <1>1 DEF Pol

\* A further coefficient in front: the last step of Horner's rule.
LEMMA AtMore ==
  ASSUME NEW d \in Nat, NEW e \in Coefficients(d + 1), NEW c \in Coefficients(d),
         \A k \in 0..(d - 1) : c[k] = e[k + 1], NEW x \in Field
  PROVE  At(e, x) = (e[0] + x * At(c, x)) % Prime
<1> DEFINE HE == Horner(e, d + 1, x)
           HC == Horner(c, d, x)
<1>1. /\ At(e, x) = HE[d + 1] /\ HE[0] = 0
      /\ \A k \in 0..d : HE[k + 1] = (e[(d + 1) - (k + 1)] + x * HE[k]) % Prime
  <2>1. d + 1 \in Nat /\ (d + 1) - 1 = d
    OBVIOUS
  <2>2. QED BY <2>1, HornerSteps
<1>2. /\ At(c, x) = HC[d] /\ HC[0] = 0
      /\ \A k \in 0..(d - 1) : HC[k + 1] = (c[d - (k + 1)] + x * HC[k]) % Prime
  BY HornerSteps
<1> HIDE DEF HE, HC
<1>3. \A k \in 0..d : HE[k] = HC[k]
  <2> DEFINE T == {k \in 0..d : HE[k] = HC[k]}
  <2>1. 0 \in T
    BY <1>1, <1>2
  <2>2. ASSUME NEW k \in 0..(d - 1), k \in T PROVE k + 1 \in T
    <3>1. /\ d - (k + 1) \in 0..(d - 1) /\ (d - (k + 1)) + 1 = (d + 1) - (k + 1)
          /\ k \in 0..d /\ k + 1 \in 0..d /\ HE[k] = HC[k]
      BY <2>2
    <3>2. c[d - (k + 1)] = e[(d + 1) - (k + 1)]
      BY <3>1
    <3>3. HE[k + 1] = HC[k + 1]
      BY <1>1, <1>2, <3>1, <3>2
    <3>4. QED BY <3>1, <3>3
  <2> HIDE DEF T
  <2>3. \A k \in 0..d : k \in T
    BY <2>1, <2>2, InductTo
  <2>4. QED BY <2>3 DEF T
<1>4. HE[d + 1] = (e[0] + x * HE[d]) % Prime
  <2>1. d \in 0..d /\ (d + 1) - (d + 1) = 0
    OBVIOUS
  <2>2. QED BY <1>1, <2>1
<1>5. HE[d] = HC[d]
  <2>1. d \in 0..d
    OBVIOUS
  <2>2. QED BY <1>3, <2>1
<1>6. QED BY <1>1, <1>2, <1>4, <1>5

\* A polynomial function with d + 1 coefficients is one with d, times x, plus one.
LEMMA PolParts ==
  ASSUME NEW d \in Nat
  PROVE  /\ \A g \in Pol(d + 1) : \E a \in Field, h \in Pol(d) : g = AddTerm(a, h)
         /\ \A a \in Field, h \in Pol(d) : AddTerm(a, h) \in Pol(d + 1)
<1> USE PrimeFacts
<1>1. ASSUME NEW e \in Coefficients(d + 1)
      PROVE  \E a \in Field, h \in Pol(d) : [x \in Field |-> At(e, x)] = AddTerm(a, h)
  <2> DEFINE c == [k \in 0..(d - 1) |-> e[k + 1]]
             h == [x \in Field |-> At(c, x)]
  <2>1. e[0] \in Field /\ c \in Coefficients(d)
    <3>1. 0 \in 0..((d + 1) - 1) /\ \A k \in 0..(d - 1) : k + 1 \in 0..((d + 1) - 1)
      OBVIOUS
    <3>2. QED BY <3>1 DEF Coefficients
  <2>2. \A k \in 0..(d - 1) : c[k] = e[k + 1]
    OBVIOUS
  <2> HIDE DEF c
  <2>3. h \in Pol(d)
    BY <2>1 DEF Pol
  <2>4. \A x \in Field : At(e, x) = (e[0] + x * h[x]) % Prime
    BY <2>1, <2>2, AtMore
  <2>5. [x \in Field |-> At(e, x)] = AddTerm(e[0], h)
    BY <2>4 DEF AddTerm
  <2>6. QED BY <2>1, <2>3, <2>5
<1>2. ASSUME NEW a \in Field, NEW c \in Coefficients(d)
      PROVE  AddTerm(a, [x \in Field |-> At(c, x)]) \in Pol(d + 1)
  <2> DEFINE e == [k \in 0..d |-> IF k = 0 THEN a ELSE c[k - 1]]
             h == [x \in Field |-> At(c, x)]
  <2>1. e \in Coefficients(d + 1)
    <3>1. (d + 1) - 1 = d /\ \A k \in 0..d : k # 0 => k - 1 \in 0..(d - 1)
      OBVIOUS
    <3>2. QED BY <3>1 DEF Coefficients
  <2>2. e[0] = a /\ \A k \in 0..(d - 1) : c[k] = e[k + 1]
    <3>1. \A k \in 0..(d - 1) : k + 1 \in 0..d /\ k + 1 # 0 /\ (k + 1) - 1 = k
      OBVIOUS
    <3>2. QED BY <3>1
  <2> HIDE DEF e
  <2>3. \A x \in Field : At(e, x) = (a + x * h[x]) % Prime
    BY <2>1, <2>2, AtMore
  <2>4. AddTerm(a, h) = [x \in Field |-> At(e, x)]
    BY <2>3 DEF AddTerm
  <2>5. QED BY <2>1, <2>4 DEF Pol
<1>3. ASSUME NEW g \in Pol(d + 1) PROVE \E a \in Field, h \in Pol(d) : g = AddTerm(a, h)
  <2>1. PICK e \in Coefficients(d + 1) : g = [x \in Field |-> At(e, x)]
    BY DEF Pol
  <2>2. QED BY <1>1, <2>1
<1>4. ASSUME NEW a \in Field, NEW h \in Pol(d) PROVE AddTerm(a, h) \in Pol(d + 1)
  <2>1. PICK c \in Coefficients(d) : h = [x \in Field |-> At(c, x)]
    BY DEF Pol
  <2>2. QED BY <1>2, <2>1
<1>5. QED BY <1>3, <1>4

\* Without coefficients there is 0 only.
LEMMA PolNone == Pol(0) = {[x \in Field |-> 0]}
<1>1. ASSUME NEW c \in Coefficients(0), NEW x \in Field PROVE At(c, x) = 0
  BY HornerSteps
<1>2. \E c : c \in Coefficients(0)
  <2>1. [k \in 0..(0 - 1) |-> 0] \in Coefficients(0)
    BY DEF Coefficients
  <2>2. QED BY <2>1
<1>3. \A c \in Coefficients(0) : [x \in Field |-> At(c, x)] = [x \in Field |-> 0]
  BY <1>1
<1>4. QED BY <1>2, <1>3 DEF Pol

\* What % leaves out.
LEMMA Multiple ==
  ASSUME NEW a \in Int
  PROVE  /\ a % Prime \in Field /\ a % Prime \in Int
         /\ \E k \in Int : a % Prime = a + k * Prime
<1>1. a % Prime \in Field /\ Congruent(a, a % Prime)
  BY ModOf
<1>2. a % Prime \in Int
  BY <1>1, PrimeFacts
<1>3. Congruent(a % Prime, a)
  BY <1>1, <1>2, CongruentBack
<1>4. QED BY <1>1, <1>2, <1>3 DEF Congruent

\* Numbers and values of functions of the field are integers.
LEMMA ValueInt ==
  /\ Prime \in Int /\ \A x \in Field : x \in Int
  /\ \A f \in [Field -> Field] : \A x \in Field : f[x] \in Int
<1>1. Prime \in Int
  BY PrimeFacts
<1>2. \A x \in Field : x \in Int
  BY PrimeFacts
<1>3. ASSUME NEW f \in [Field -> Field], NEW x \in Field PROVE f[x] \in Int
  <2>1. f[x] \in Field
    OBVIOUS
  <2>2. QED BY <1>2, <2>1
<1>4. QED BY <1>1, <1>2, <1>3

\* c + (x - m) * h[x]
Above(c, m, h) == [x \in Field |-> (c + (x - m) * h[x]) % Prime]

\* Above makes a function of the field.
LEMMA AboveType ==
  ASSUME NEW c \in Field, NEW m \in Field, NEW h \in [Field -> Field]
  PROVE  Above(c, m, h) \in [Field -> Field]
<1>1. ASSUME NEW x \in Field PROVE (c + (x - m) * h[x]) % Prime \in Field
  <2>1. c \in Int /\ m \in Int /\ x \in Int /\ h[x] \in Int
    BY PrimeFacts
  <2>2. c + (x - m) * h[x] \in Int
    BY <2>1
  <2>3. QED BY <2>2, ModOf
<1>2. QED BY <1>1 DEF Above

\* Above a polynomial is one with a coefficient more.
LEMMA PolAbove ==
  ASSUME NEW d \in Nat
  PROVE  \A h \in Pol(d), c \in Field, m \in Field : Above(c, m, h) \in Pol(d + 1)
<1> DEFINE T == {n \in Nat : \A h \in Pol(n), c \in Field, m \in Field :
                               Above(c, m, h) \in Pol(n + 1)}
<1>1. 0 \in T
  <2>1. ASSUME NEW h \in Pol(0), NEW c \in Field, NEW m \in Field
        PROVE  Above(c, m, h) \in Pol(0 + 1)
    <3>1. h = [x \in Field |-> 0]
      BY PolNone
    <3>2. \A x \in Field : c + (x - m) * h[x] = c + x * h[x]
      <4>1. ASSUME NEW x \in Field PROVE c + (x - m) * h[x] = c + x * h[x]
        <5>1. x \in Int /\ m \in Int /\ c \in Int /\ h[x] = 0
          BY <3>1, PrimeFacts
        <5>2. QED BY <5>1
      <4>2. QED BY <4>1
    <3>3. Above(c, m, h) = AddTerm(c, h)
      BY <3>2 DEF Above, AddTerm
    <3>4. QED BY <3>3, PolParts
  <2>2. QED BY <2>1
<1>2. ASSUME NEW n \in T PROVE n + 1 \in T
  <2>1. n \in Nat /\ n + 1 \in Nat
    OBVIOUS
  <2>2. ASSUME NEW h \in Pol(n + 1), NEW c \in Field, NEW m \in Field
        PROVE  Above(c, m, h) \in Pol((n + 1) + 1)
    <3>1. PICK a \in Field, r \in Pol(n) : h = AddTerm(a, r)
      BY <2>1, PolParts
    <3>2. r \in [Field -> Field] /\ h \in [Field -> Field]
      BY <2>1, <3>1, PolType, AddTermType
    <3> DEFINE first == (c - m * a) % Prime
               rest  == Above(a, m, r)
    <3>3. rest \in Pol(n + 1) /\ rest \in [Field -> Field]
      BY <3>2, AboveType
    <3>4. c \in Int /\ m \in Int /\ a \in Int /\ c - m * a \in Int
      <4>1. c \in Int /\ m \in Int /\ a \in Int
        BY PrimeFacts
      <4>2. QED BY <4>1
    <3>5. first \in Field /\ first \in Int
      BY <3>4, Multiple
    <3>6. ASSUME NEW x \in Field
          PROVE  (c + (x - m) * h[x]) % Prime = (first + x * rest[x]) % Prime
      <4>1. x \in Int /\ r[x] \in Int /\ h[x] \in Int /\ rest[x] \in Int /\ Prime \in Int
        <5> HIDE DEF rest, first
        <5>1. r[x] \in Int /\ h[x] \in Int /\ rest[x] \in Int
          BY <3>2, <3>3, ValueInt
        <5>2. QED BY <5>1, ValueInt
      <4>2. PICK k1 \in Int : h[x] = (a + x * r[x]) + k1 * Prime
        <5>1. h[x] = (a + x * r[x]) % Prime /\ a + x * r[x] \in Int
          BY <3>1, <3>4, <4>1 DEF AddTerm
        <5>2. QED BY <5>1, Multiple
      <4>3. PICK k2 \in Int : rest[x] = (a + (x - m) * r[x]) + k2 * Prime
        <5>1. rest[x] = (a + (x - m) * r[x]) % Prime /\ a + (x - m) * r[x] \in Int
          BY <3>4, <4>1 DEF Above
        <5>2. QED BY <5>1, Multiple
      <4>4. PICK k3 \in Int : first = (c - m * a) + k3 * Prime
        BY <3>4, Multiple
      <4> HIDE DEF first, rest
      <4>5. c + (x - m) * h[x] = (c + (x - m) * (a + x * r[x])) + ((x - m) * k1) * Prime
        BY <3>4, <4>1, <4>2
      <4>6. first + x * rest[x]
              = ((c - m * a) + x * (a + (x - m) * r[x])) + (k3 + x * k2) * Prime
        BY <3>4, <3>5, <4>1, <4>3, <4>4
      <4>7. c + (x - m) * (a + x * r[x]) = (c - m * a) + x * (a + (x - m) * r[x])
        BY <3>4, <4>1
      <4>8. c + (x - m) * h[x]
              = (first + x * rest[x]) + ((x - m) * k1 - (k3 + x * k2)) * Prime
        <5> DEFINE A == c + (x - m) * h[x]
                   B == first + x * rest[x]
                   C == (c - m * a) + x * (a + (x - m) * r[x])
                   k == (x - m) * k1
                   l == k3 + x * k2
        <5>1. A = C + k * Prime /\ B = C + l * Prime
          BY <4>5, <4>6, <4>7
        <5>2. A \in Int /\ B \in Int /\ C \in Int /\ k \in Int /\ l \in Int
          BY <3>4, <3>5, <4>1
        <5> HIDE DEF A, B, C, k, l
        <5>3. A = B + (k - l) * Prime
          BY <4>1, <5>1, <5>2
        <5>4. QED BY <5>3 DEF A, B, k, l
      <4>9. /\ c + (x - m) * h[x] \in Int /\ first + x * rest[x] \in Int
            /\ (x - m) * k1 - (k3 + x * k2) \in Int
        BY <3>4, <3>5, <4>1
      <4>10. Congruent(c + (x - m) * h[x], first + x * rest[x])
        BY <4>8, <4>9 DEF Congruent
      <4>11. QED BY <4>9, <4>10, CongruentMod
    <3>7. Above(c, m, h) = AddTerm(first, rest)
      BY <3>6 DEF Above, AddTerm
    <3> HIDE DEF first, rest
    <3>8. QED BY <2>1, <3>3, <3>5, <3>7, PolParts
  <2>3. QED BY <2>1, <2>2
<1>3. T = Nat
  <2>1. T \in SUBSET Nat
    OBVIOUS
  <2> HIDE DEF T
  <2>2. QED BY <1>1, <1>2, <2>1, Induct
<1>4. QED BY <1>3

\* Two numbers with a third in common have the same remainder.
LEMMA SameRest ==
  ASSUME NEW A \in Int, NEW B \in Int, NEW C \in Int, NEW k \in Int, NEW l \in Int,
         A = C + k * Prime, B = C + l * Prime
  PROVE  A % Prime = B % Prime
<1>1. k * Prime \in Int /\ l * Prime \in Int /\ (k - l) * Prime = k * Prime - l * Prime
      /\ k - l \in Int
  BY ValueInt
<1>2. A = B + (k - l) * Prime
  BY <1>1
<1>3. Congruent(A, B)
  BY <1>1, <1>2 DEF Congruent
<1>4. QED BY <1>3, CongruentMod

\* A member of the field is its own remainder.
LEMMA FieldMod ==
  ASSUME NEW a \in Field
  PROVE  a % Prime = a
<1>1. a \in Int /\ a % Prime \in Field /\ Congruent(a, a % Prime)
  BY ModOf, ValueInt
<1>2. QED BY <1>1, SameInField

\* A polynomial function less its value at m has the factor x - m.
LEMMA Divide ==
  ASSUME NEW d \in Nat
  PROVE  \A g \in Pol(d + 1), m \in Field : \E q \in Pol(d) : g = Above(g[m], m, q)
<1> DEFINE T == {n \in Nat : \A g \in Pol(n + 1), m \in Field :
                               \E q \in Pol(n) : g = Above(g[m], m, q)}
<1>1. 0 \in T
  <2>1. ASSUME NEW g \in Pol(0 + 1), NEW m \in Field
        PROVE  \E q \in Pol(0) : g = Above(g[m], m, q)
    <3>1. PICK a \in Field, h \in Pol(0) : g = AddTerm(a, h)
      BY PolParts
    <3>2. h = [x \in Field |-> 0]
      BY <3>1, PolNone
    <3>3. ASSUME NEW x \in Field PROVE g[x] = a
      <4>1. x \in Int /\ a \in Int /\ h[x] = 0
        BY <3>2, ValueInt
      <4>2. a + x * h[x] = a
        BY <4>1
      <4>3. g[x] = a % Prime
        BY <3>1, <4>2 DEF AddTerm
      <4>4. QED BY <4>3, FieldMod
    <3>4. ASSUME NEW x \in Field PROVE (g[m] + (x - m) * h[x]) % Prime = a
      <4>1. x \in Int /\ m \in Int /\ a \in Int /\ h[x] = 0
        BY <3>2, ValueInt
      <4>2. a + (x - m) * h[x] = a
        BY <4>1
      <4>3. QED BY <3>3, <4>2, FieldMod
    <3>5. g \in [Field -> Field]
      BY PolType
    <3>6. g = Above(g[m], m, h)
      BY <3>3, <3>4, <3>5 DEF Above
    <3>7. QED BY <3>1, <3>6
  <2>2. QED BY <2>1
<1>2. ASSUME NEW n \in T PROVE n + 1 \in T
  <2>1. n \in Nat /\ n + 1 \in Nat
    OBVIOUS
  <2>2. ASSUME NEW g \in Pol((n + 1) + 1), NEW m \in Field
        PROVE  \E q \in Pol(n + 1) : g = Above(g[m], m, q)
    <3>1. PICK a \in Field, h \in Pol(n + 1) : g = AddTerm(a, h)
      BY <2>1, PolParts
    <3>2. PICK r \in Pol(n) : h = Above(h[m], m, r)
      OBVIOUS
    <3> HIDE DEF T
    <3>3. /\ r \in [Field -> Field] /\ h \in [Field -> Field] /\ g \in [Field -> Field]
          /\ h[m] \in Field
      BY <2>1, <3>1, PolType, AddTermType
    <3> DEFINE b == h[m]
               q == AddTerm(b, r)
    <3>4. q \in Pol(n + 1) /\ q \in [Field -> Field]
      BY <2>1, <3>3, PolParts, AddTermType
    <3>5. a \in Int /\ m \in Int /\ b \in Int /\ g[m] \in Int /\ Prime \in Int
      BY <3>3, ValueInt
    <3>6. ASSUME NEW x \in Field PROVE g[x] = (g[m] + (x - m) * q[x]) % Prime
      <4>1. x \in Int /\ r[x] \in Int /\ h[x] \in Int /\ g[x] \in Int /\ q[x] \in Int
        BY <3>3, <3>4, ValueInt
      <4> HIDE DEF q, b
      <4>2. PICK k1 \in Int : h[x] = (b + (x - m) * r[x]) + k1 * Prime
        <5>1. h[x] = (b + (x - m) * r[x]) % Prime /\ b + (x - m) * r[x] \in Int
          <6>1. h[x] = (b + (x - m) * r[x]) % Prime
            BY <3>2 DEF Above, b
          <6>2. QED BY <3>5, <4>1, <6>1
        <5>2. QED BY <5>1, Multiple
      <4>3. PICK k2 \in Int : q[x] = (b + x * r[x]) + k2 * Prime
        <5>1. q[x] = (b + x * r[x]) % Prime /\ b + x * r[x] \in Int
          <6>1. q[x] = (b + x * r[x]) % Prime
            BY DEF AddTerm, q
          <6>2. QED BY <3>5, <4>1, <6>1
        <5>2. QED BY <5>1, Multiple
      <4>4. PICK k3 \in Int : g[m] = (a + m * b) + k3 * Prime
        <5>1. g[m] = (a + m * b) % Prime
          BY <3>1 DEF AddTerm, b
        <5>2. a + m * b \in Int
          BY <3>5
        <5>3. QED BY <5>1, <5>2, Multiple
      <4>5. g[x] = (a + x * h[x]) % Prime
        BY <3>1 DEF AddTerm
      <4> DEFINE C == a + x * (b + (x - m) * r[x])
      <4>6. a + x * h[x] = C + (x * k1) * Prime
        BY <3>5, <4>1, <4>2
      <4>7. (a + m * b) + (x - m) * (b + x * r[x]) = C
        BY <3>5, <4>1
      <4>8. g[m] + (x - m) * q[x]
              = ((a + m * b) + (x - m) * (b + x * r[x])) + (k3 + (x - m) * k2) * Prime
        <5> HIDE DEF C
        <5>1. (x - m) * q[x] = (x - m) * (b + x * r[x]) + ((x - m) * k2) * Prime
          BY <3>5, <4>1, <4>3
        <5>2. QED BY <3>5, <4>1, <4>4, <5>1
      <4>9. /\ a + x * h[x] \in Int /\ g[m] + (x - m) * q[x] \in Int /\ C \in Int
            /\ x * k1 \in Int /\ k3 + (x - m) * k2 \in Int
        BY <3>5, <4>1
      <4> HIDE DEF C
      <4>10. g[m] + (x - m) * q[x] = C + (k3 + (x - m) * k2) * Prime
        BY <4>7, <4>8
      <4>11. QED BY <4>5, <4>6, <4>9, <4>10, SameRest
    <3>7. g = Above(g[m], m, q)
      BY <3>3, <3>6 DEF Above
    <3>8. QED BY <3>4, <3>7
  <2>3. QED BY <2>1, <2>2
<1>3. T = Nat
  <2>1. T \in SUBSET Nat
    OBVIOUS
  <2> HIDE DEF T
  <2>2. QED BY <1>1, <1>2, <2>1, Induct
<1>4. QED BY <1>3

\* A coefficient more does no harm,
LEMMA PolMore ==
  ASSUME NEW d \in Nat
  PROVE  Pol(d) \subseteq Pol(d + 1)
<1> DEFINE T == {n \in Nat : Pol(n) \subseteq Pol(n + 1)}
           zero == [x \in Field |-> 0]
<1>1. 0 \in T
  <2>1. AddTerm(0, zero) \in Pol(0 + 1)
    BY PolNone, PolParts, PrimeFacts
  <2>2. \A x \in Field : (0 + x * zero[x]) % Prime = 0
    <3>1. ASSUME NEW x \in Field PROVE (0 + x * zero[x]) % Prime = 0
      <4>1. x \in Int /\ 0 + x * zero[x] = 0
        BY ValueInt
      <4>2. 0 % Prime = 0
        BY PrimeFacts, FieldMod
      <4>3. QED BY <4>1, <4>2
    <3>2. QED BY <3>1
  <2>3. AddTerm(0, zero) = zero
    BY <2>2 DEF AddTerm
  <2>4. QED BY <2>1, <2>3, PolNone
<1>2. ASSUME NEW n \in T PROVE n + 1 \in T
  <2>1. n \in Nat /\ n + 1 \in Nat /\ Pol(n) \subseteq Pol(n + 1)
    OBVIOUS
  <2>2. ASSUME NEW g \in Pol(n + 1) PROVE g \in Pol((n + 1) + 1)
    <3>1. PICK a \in Field, h \in Pol(n) : g = AddTerm(a, h)
      BY <2>1, PolParts
    <3>2. QED BY <2>1, <3>1, PolParts
  <2>3. QED BY <2>1, <2>2
<1>3. T = Nat
  <2>1. T \in SUBSET Nat
    OBVIOUS
  <2> HIDE DEF T
  <2>2. QED BY <1>1, <1>2, <2>1, Induct
<1>4. QED BY <1>3

\* nor do several.
LEMMA PolUpTo ==
  ASSUME NEW d \in Nat, NEW e \in Nat, d <= e
  PROVE  Pol(d) \subseteq Pol(e)
<1> DEFINE T == {k \in Nat : Pol(d) \subseteq Pol(d + k)}
<1>1. 0 \in T
  OBVIOUS
<1>2. ASSUME NEW k \in T PROVE k + 1 \in T
  <2>1. k \in Nat /\ d + k \in Nat /\ d + (k + 1) = (d + k) + 1 /\ Pol(d) \subseteq Pol(d + k)
    OBVIOUS
  <2>2. Pol(d + k) \subseteq Pol((d + k) + 1)
    BY <2>1, PolMore
  <2>3. QED BY <2>1, <2>2
<1>3. T = Nat
  <2>1. T \in SUBSET Nat
    OBVIOUS
  <2> HIDE DEF T
  <2>2. QED BY <1>1, <1>2, <2>1, Induct
<1>4. e - d \in Nat /\ d + (e - d) = e
  OBVIOUS
<1>5. QED BY <1>3, <1>4

\* The constant 1 is a polynomial.
LEMMA PolOne ==
  ASSUME NEW d \in Nat, d # 0
  PROVE  [x \in Field |-> 1] \in Pol(d)
<1> DEFINE zero == [x \in Field |-> 0]
<1>1. AddTerm(1, zero) \in Pol(0 + 1)
  BY PolNone, PolParts, PrimeFacts
<1>2. \A x \in Field : (1 + x * zero[x]) % Prime = 1
  <2>1. ASSUME NEW x \in Field PROVE (1 + x * zero[x]) % Prime = 1
    <3>1. x \in Int /\ 1 + x * zero[x] = 1
      BY ValueInt
    <3>2. 1 % Prime = 1
      BY PrimeFacts, FieldMod
    <3>3. QED BY <3>1, <3>2
  <2>2. QED BY <2>1
<1>3. AddTerm(1, zero) = [x \in Field |-> 1]
  BY <1>2 DEF AddTerm
<1>4. Pol(1) \subseteq Pol(d)
  BY PolUpTo
<1>5. QED BY <1>1, <1>3, <1>4

\* The values of a polynomial are in the field.
LEMMA AtType ==
  ASSUME NEW d \in Nat, NEW c \in Coefficients(d), NEW x \in Field
  PROVE  At(c, x) \in Field
<1>1. d \in 0..d
  OBVIOUS
<1>2. QED BY <1>1, HornerSteps

\* The first coefficient is the value at 0.
LEMMA AtNought ==
  ASSUME NEW d \in Nat, NEW e \in Coefficients(d + 1)
  PROVE  At(e, 0) = e[0]
<1> DEFINE c == [k \in 0..(d - 1) |-> e[k + 1]]
<1>1. e[0] \in Field /\ c \in Coefficients(d)
  <2>1. 0 \in 0..((d + 1) - 1) /\ \A k \in 0..(d - 1) : k + 1 \in 0..((d + 1) - 1)
    OBVIOUS
  <2>2. QED BY <2>1 DEF Coefficients
<1>2. \A k \in 0..(d - 1) : c[k] = e[k + 1]
  OBVIOUS
<1> HIDE DEF c
<1>3. 0 \in Field
  BY PrimeFacts
<1>4. At(e, 0) = (e[0] + 0 * At(c, 0)) % Prime
  BY <1>1, <1>2, <1>3, AtMore
<1>5. At(c, 0) \in Int
  <2>2. At(c, 0) \in Field
    BY <1>1, <1>3, AtType
  <2>3. QED BY <2>2, ValueInt
<1>6. e[0] + 0 * At(c, 0) = e[0]
  <2>1. e[0] \in Int
    BY <1>1, ValueInt
  <2>2. QED BY <1>5, <2>1
<1>7. QED BY <1>1, <1>4, <1>6, FieldMod

\* Two numbers that differ have a difference with a reciprocal.
LEMMA Difference ==
  ASSUME NEW i \in Field, NEW m \in Field, i # m
  PROVE  /\ (i - m) % Prime \in 1..(Prime - 1)
         /\ Reciprocal[(i - m) % Prime] \in Int
         /\ Congruent((i - m) * Reciprocal[(i - m) % Prime], 1)
<1> DEFINE a == (i - m) % Prime
           r == Reciprocal[a]
<1>1. i \in Int /\ m \in Int /\ i - m \in Int /\ Prime \in Int
  BY ValueInt
<1>2. a \in Field /\ a \in Int /\ Congruent(i - m, a)
  BY <1>1, Multiple, ModOf
<1>3. a # 0
  <2> SUFFICES ASSUME a = 0 PROVE FALSE
    OBVIOUS
  <2>1. Congruent(i - m, 0)
    BY <1>2
  <2>2. PICK k \in Int : i - m = 0 + k * Prime
    BY <2>1 DEF Congruent
  <2>3. i = m + k * Prime
    <3>1. k * Prime \in Int
      BY <1>1
    <3>2. QED BY <1>1, <2>2, <3>1
  <2>4. QED BY <2>3, SameInField DEF Congruent
<1>4. a \in 1..(Prime - 1)
  BY <1>2, <1>3 DEF Field
<1> HIDE DEF a
<1>5. r \in Field /\ Congruent(a * r, 1) /\ r \in Int
  BY <1>4, ReciprocalOf, ValueInt
<1> HIDE DEF r
<1>6. Congruent(r, r)
  <2>1. r = r + 0 * Prime
    BY <1>1, <1>5
  <2>2. QED BY <2>1 DEF Congruent
<1>7. Congruent((i - m) * r, a * r)
  BY <1>1, <1>2, <1>5, <1>6, CongruentOps
<1>8. (i - m) * r \in Int /\ a * r \in Int
  BY <1>1, <1>2, <1>5
<1>9. Congruent((i - m) * r, 1)
  BY <1>5, <1>7, <1>8, CongruentOn
<1>10. QED BY <1>4, <1>5, <1>9 DEF a, r

\* Through as many points as it has coefficients there is a polynomial.
LEMMA Through ==
  ASSUME NEW d \in Nat
  PROVE  \A S \in SUBSET Field : Cardinality(S) = d =>
           \A y \in [Field -> Field] : \E g \in Pol(d) : \A i \in S : g[i] = y[i]
<1> DEFINE Fits(n) == \A S \in SUBSET Field : Cardinality(S) = n =>
             \A y \in [Field -> Field] : \E g \in Pol(n) : \A i \in S : g[i] = y[i]
           T == {n \in Nat : Fits(n)}
<1>0. ASSUME NEW S \in SUBSET Field PROVE IsFiniteSet(S)
  BY FieldFinite
<1>1. Fits(0)
  <2>1. ASSUME NEW S \in SUBSET Field, Cardinality(S) = 0 PROVE S = {}
    BY <1>0, <2>1, FS_EmptySet
  <2>2. \E g : g \in Pol(0)
    BY PolNone
  <2>3. QED BY <2>1, <2>2
<1>2. ASSUME NEW n \in Nat, Fits(n) PROVE Fits(n + 1)
  <2>1. ASSUME NEW S \in SUBSET Field, Cardinality(S) = n + 1, NEW y \in [Field -> Field]
        PROVE  \E g \in Pol(n + 1) : \A i \in S : g[i] = y[i]
    <3>1. PICK m \in S : TRUE
      <4>1. S # {}
        BY <2>1, FS_EmptySet
      <4>2. QED BY <4>1
    <3>2. Cardinality(S \ {m}) = n
      <4>1. Cardinality(S \ {m}) = Cardinality(S) - 1
        BY <1>0, FS_RemoveElement
      <4>2. QED BY <2>1, <4>1
    <3> DEFINE r(i) == Reciprocal[(i - m) % Prime]
               z == [i \in Field |-> IF i \in S \ {m} THEN ((y[i] - y[m]) * r(i)) % Prime
                                     ELSE 0]
    <3>3. m \in Field /\ m \in Int /\ y[m] \in Field /\ y[m] \in Int /\ Prime \in Int
      BY <2>1, ValueInt
    <3>4. ASSUME NEW i \in S \ {m}
          PROVE  /\ i \in Field /\ i \in Int /\ y[i] \in Field /\ y[i] \in Int
                 /\ r(i) \in Int /\ Congruent((i - m) * r(i), 1)
                 /\ (y[i] - y[m]) * r(i) \in Int
      <4>1. i \in Field /\ i # m /\ y[i] \in Field
        OBVIOUS
      <4>2. i \in Int /\ y[i] \in Int /\ r(i) \in Int
        BY <3>3, <4>1, ValueInt, Difference
      <4>3. Congruent((i - m) * r(i), 1)
        BY <3>3, <4>1, Difference
      <4> HIDE DEF r
      <4>4. (y[i] - y[m]) * r(i) \in Int
        BY <3>3, <4>2
      <4>5. QED BY <4>1, <4>2, <4>3, <4>4
    <3> HIDE DEF r
    <3>5. z \in [Field -> Field]
      <4>1. \A i \in S \ {m} : ((y[i] - y[m]) * r(i)) % Prime \in Field
        BY <3>4, ModOf
      <4>2. QED BY <4>1, PrimeFacts
    <3>6. PICK h \in Pol(n) : \A i \in S \ {m} : h[i] = z[i]
      <4>1. S \ {m} \in SUBSET Field
        OBVIOUS
      <4> HIDE DEF z
      <4>2. QED BY <1>2, <3>2, <3>5, <4>1
    <3>7. \A i \in S \ {m} : h[i] = ((y[i] - y[m]) * r(i)) % Prime
      BY <3>6
    <3> HIDE DEF z
    <3>8. h \in [Field -> Field]
      BY PolType
    <3> DEFINE g == Above(y[m], m, h)
    <3>9. g \in Pol(n + 1)
      BY <3>3, PolAbove
    <3>10. g[m] = y[m]
      <4>1. h[m] \in Int
        BY <3>3, <3>8, ValueInt
      <4>2. y[m] + (m - m) * h[m] = y[m]
        BY <3>3, <4>1
      <4>3. QED BY <3>3, <4>2, FieldMod DEF Above
    <3>11. ASSUME NEW i \in S \ {m} PROVE g[i] = y[i]
      <4>1. h[i] \in Int
        BY <3>4, <3>8, ValueInt
      <4>2. PICK k1 \in Int : h[i] = ((y[i] - y[m]) * r(i)) + k1 * Prime
        BY <3>4, <3>7, Multiple
      <4>3. PICK k2 \in Int : (i - m) * r(i) = 1 + k2 * Prime
        BY <3>4 DEF Congruent
      <4>4. g[i] = (y[m] + (i - m) * h[i]) % Prime
        BY <3>4 DEF Above
      <4> DEFINE yi == y[i]
                 ym == y[m]
                 ri == r(i)
                 hi == h[i]
      <4>5. /\ i \in Int /\ m \in Int /\ yi \in Int /\ ym \in Int /\ ri \in Int /\ hi \in Int
            /\ hi = (yi - ym) * ri + k1 * Prime
            /\ (i - m) * ri = 1 + k2 * Prime
            /\ g[i] = (ym + (i - m) * hi) % Prime
        BY <3>3, <3>4, <4>1, <4>2, <4>3, <4>4
      <4> HIDE DEF yi, ym, ri, hi, g
      <4>6. (i - m) * hi = ((i - m) * ri) * (yi - ym) + ((i - m) * k1) * Prime
        BY <3>3, <4>5
      <4>7. ((i - m) * ri) * (yi - ym) = (yi - ym) + (k2 * (yi - ym)) * Prime
        BY <3>3, <4>5
      <4>8. ym + (i - m) * hi = yi + (k2 * (yi - ym) + (i - m) * k1) * Prime
        BY <3>3, <4>5, <4>6, <4>7
      <4>9. ym + (i - m) * hi \in Int /\ k2 * (yi - ym) + (i - m) * k1 \in Int
            /\ yi = yi + 0 * Prime
        BY <3>3, <4>5
      <4>10. (ym + (i - m) * hi) % Prime = yi % Prime
        BY <4>5, <4>8, <4>9, SameRest
      <4>11. yi % Prime = yi
        BY <3>4, FieldMod DEF yi
      <4>12. QED BY <4>5, <4>10, <4>11 DEF yi
    <3>12. QED BY <3>9, <3>10, <3>11
  <2> HIDE DEF Fits
  <2>2. QED BY <2>1 DEF Fits
<1> HIDE DEF Fits
<1>3. T = Nat
  <2>1. T \in SUBSET Nat /\ 0 \in T /\ \A n \in T : n + 1 \in T
    BY <1>1, <1>2
  <2> HIDE DEF T
  <2>2. QED BY <2>1, Induct
<1>4. Fits(d)
  BY <1>3
<1>5. QED BY <1>4 DEF Fits

-----------------------------------------------------------------------------
(* Sums and products.                                                      *)

\* The sum of a[0], ..., a[k - 1].
SumTo(a) ==
  CHOOSE sum : sum = [k \in 0..Prime |->
    IF k = 0 THEN 0 ELSE (sum[k - 1] + a[k - 1]) % Prime]

\* Sum is what SumTo comes to, one summand at a time.
LEMMA SumSteps ==
  ASSUME NEW a \in [Field -> Int]
  PROVE  /\ Sum(a) = SumTo(a)[Prime]
         /\ SumTo(a)[0] = 0
         /\ \A k \in Field : SumTo(a)[k + 1] = (SumTo(a)[k] + a[k]) % Prime
         /\ \A k \in 0..Prime : SumTo(a)[k] \in Field
<1> DEFINE next(k, v) == IF k < Prime THEN (v + a[k]) % Prime ELSE 0
           step == [p \in Nat \X Field |-> next(p[1], p[2])]
<1>0. Prime \in Nat /\ \A k \in Field : k \in Nat /\ k < Prime /\ a[k] \in Int
  BY PrimeFacts DEF Field
<1>1. step \in [Nat \X Field -> Field]
  <2>1. ASSUME NEW k \in Nat, NEW v \in Field PROVE next(k, v) \in Field
    <3>1. CASE k < Prime
      <4>1. k \in Field
        BY <1>0, <3>1 DEF Field
      <4>2. v \in Int /\ a[k] \in Int
        BY <1>0, <4>1, ValueInt
      <4>3. v + a[k] \in Int
        BY <4>2
      <4>4. QED BY <3>1, <4>3, ModOf
    <3>2. CASE ~(k < Prime)
      BY <3>2, PrimeFacts
    <3>3. QED BY <3>1, <3>2
  <2> HIDE DEF next
  <2>2. QED BY <2>1
<1>2. PICK h \in [Nat -> Field] : h[0] = 0 /\ \A n \in Nat : h[n + 1] = step[<<n, h[n]>>]
  <2> HIDE DEF step
  <2>1. 0 \in Field
    BY PrimeFacts
  <2>2. \E h : Follows(h, Field, 0, step)
    BY <1>1, <2>1, Recursion
  <2>3. QED BY <2>2 DEF Follows
<1>3. ASSUME NEW k \in Field
      PROVE  h[k + 1] = (h[k] + a[k]) % Prime
  <2>1. k \in Nat /\ h[k] \in Field /\ k < Prime
    BY <1>0, <1>2
  <2>2. h[k + 1] = step[<<k, h[k]>>]
    BY <1>2, <2>1
  <2>3. QED BY <2>1, <2>2
<1> HIDE DEF step
<1> DEFINE hd == [k \in 0..Prime |-> h[k]]
<1>4. hd = [k \in 0..Prime |-> IF k = 0 THEN 0 ELSE (hd[k - 1] + a[k - 1]) % Prime]
  <2>1. ASSUME NEW k \in 0..Prime
        PROVE  hd[k] = IF k = 0 THEN 0 ELSE (hd[k - 1] + a[k - 1]) % Prime
    <3>1. CASE k = 0
      BY <1>2, <3>1
    <3>2. CASE k # 0
      <4>1. k - 1 \in 0..(Prime - 1) /\ (k - 1) + 1 = k /\ k - 1 \in 0..Prime
        BY <1>0, <3>2
      <4>2. h[k] = (h[k - 1] + a[k - 1]) % Prime
        BY <1>3, <4>1 DEF Field
      <4>3. QED BY <3>2, <4>1, <4>2
    <3>3. QED BY <3>1, <3>2
  <2>2. QED BY <2>1
<1> HIDE DEF hd
<1>5. SumTo(a) = [k \in 0..Prime |->
        IF k = 0 THEN 0 ELSE (SumTo(a)[k - 1] + a[k - 1]) % Prime]
  BY <1>4, Zenon DEF SumTo
<1>6. Sum(a) = SumTo(a)[Prime]
  BY Zenon DEF Sum, SumTo
<1> DEFINE H == SumTo(a)
<1>7. \A k \in 0..Prime : H[k] = IF k = 0 THEN 0 ELSE (H[k - 1] + a[k - 1]) % Prime
  BY <1>5
<1>8. H[0] = 0
  BY <1>0, <1>7
<1>9. ASSUME NEW k \in Field PROVE H[k + 1] = (H[k] + a[k]) % Prime
  <2>1. k + 1 \in 0..Prime /\ k + 1 # 0 /\ (k + 1) - 1 = k
    BY <1>0 DEF Field
  <2> HIDE DEF H
  <2>2. QED BY <1>7, <2>1
<1>10. \A k \in 0..Prime : H[k] \in Field
  <2> HIDE DEF H
  <2> DEFINE T == {k \in 0..Prime : H[k] \in Field}
  <2>1. 0 \in T
    BY <1>0, <1>8, PrimeFacts
  <2>2. ASSUME NEW k \in 0..(Prime - 1), k \in T PROVE k + 1 \in T
    <3>1. k \in Field /\ H[k] \in Field /\ k + 1 \in 0..Prime
      BY <1>0, <2>2 DEF Field
    <3>2. H[k] \in Int /\ a[k] \in Int
      BY <1>0, <3>1, ValueInt
    <3>3. H[k] + a[k] \in Int
      BY <3>2
    <3>4. H[k + 1] \in Field
      BY <1>9, <3>1, <3>3, ModOf
    <3>5. QED BY <3>1, <3>4
  <2> HIDE DEF T
  <2>3. \A k \in 0..Prime : k \in T
    BY <1>0, <2>1, <2>2, InductTo
  <2>4. QED BY <2>3 DEF T
<1>11. QED BY <1>6, <1>8, <1>9, <1>10

\* The product of a[0], ..., a[k - 1].
ProductTo(a) ==
  CHOOSE product : product = [k \in 0..Prime |->
    IF k = 0 THEN 1 ELSE (product[k - 1] * a[k - 1]) % Prime]

\* Product is what ProductTo comes to, one factor at a time.
LEMMA ProductSteps ==
  ASSUME NEW a \in [Field -> Int]
  PROVE  /\ Product(a) = ProductTo(a)[Prime]
         /\ ProductTo(a)[0] = 1
         /\ \A k \in Field : ProductTo(a)[k + 1] = (ProductTo(a)[k] * a[k]) % Prime
         /\ \A k \in 0..Prime : ProductTo(a)[k] \in Field
<1> DEFINE next(k, v) == IF k < Prime THEN (v * a[k]) % Prime ELSE 0
           step == [p \in Nat \X Field |-> next(p[1], p[2])]
<1>0. Prime \in Nat /\ \A k \in Field : k \in Nat /\ k < Prime /\ a[k] \in Int
  BY PrimeFacts DEF Field
<1>1. step \in [Nat \X Field -> Field]
  <2>1. ASSUME NEW k \in Nat, NEW v \in Field PROVE next(k, v) \in Field
    <3>1. CASE k < Prime
      <4>1. k \in Field
        BY <1>0, <3>1 DEF Field
      <4>2. v \in Int /\ a[k] \in Int
        BY <1>0, <4>1, ValueInt
      <4>3. v * a[k] \in Int
        BY <4>2
      <4>4. QED BY <3>1, <4>3, ModOf
    <3>2. CASE ~(k < Prime)
      BY <3>2, PrimeFacts
    <3>3. QED BY <3>1, <3>2
  <2> HIDE DEF next
  <2>2. QED BY <2>1
<1>2. PICK h \in [Nat -> Field] : h[0] = 1 /\ \A n \in Nat : h[n + 1] = step[<<n, h[n]>>]
  <2> HIDE DEF step
  <2>1. 1 \in Field
    BY PrimeFacts
  <2>2. \E h : Follows(h, Field, 1, step)
    BY <1>1, <2>1, Recursion
  <2>3. QED BY <2>2 DEF Follows
<1>3. ASSUME NEW k \in Field
      PROVE  h[k + 1] = (h[k] * a[k]) % Prime
  <2>1. k \in Nat /\ h[k] \in Field /\ k < Prime
    BY <1>0, <1>2
  <2>2. h[k + 1] = step[<<k, h[k]>>]
    BY <1>2, <2>1
  <2>3. QED BY <2>1, <2>2
<1> HIDE DEF step
<1> DEFINE hd == [k \in 0..Prime |-> h[k]]
<1>4. hd = [k \in 0..Prime |-> IF k = 0 THEN 1 ELSE (hd[k - 1] * a[k - 1]) % Prime]
  <2>1. ASSUME NEW k \in 0..Prime
        PROVE  hd[k] = IF k = 0 THEN 1 ELSE (hd[k - 1] * a[k - 1]) % Prime
    <3>1. CASE k = 0
      BY <1>2, <3>1
    <3>2. CASE k # 0
      <4>1. k - 1 \in 0..(Prime - 1) /\ (k - 1) + 1 = k /\ k - 1 \in 0..Prime
        BY <1>0, <3>2
      <4>2. h[k] = (h[k - 1] * a[k - 1]) % Prime
        BY <1>3, <4>1 DEF Field
      <4>3. QED BY <3>2, <4>1, <4>2
    <3>3. QED BY <3>1, <3>2
  <2>2. QED BY <2>1
<1> HIDE DEF hd
<1>5. ProductTo(a) = [k \in 0..Prime |->
        IF k = 0 THEN 1 ELSE (ProductTo(a)[k - 1] * a[k - 1]) % Prime]
  BY <1>4, Zenon DEF ProductTo
<1>6. Product(a) = ProductTo(a)[Prime]
  BY Zenon DEF Product, ProductTo
<1> DEFINE H == ProductTo(a)
<1>7. \A k \in 0..Prime : H[k] = IF k = 0 THEN 1 ELSE (H[k - 1] * a[k - 1]) % Prime
  BY <1>5
<1>8. H[0] = 1
  BY <1>0, <1>7
<1>9. ASSUME NEW k \in Field PROVE H[k + 1] = (H[k] * a[k]) % Prime
  <2>1. k + 1 \in 0..Prime /\ k + 1 # 0 /\ (k + 1) - 1 = k
    BY <1>0 DEF Field
  <2> HIDE DEF H
  <2>2. QED BY <1>7, <2>1
<1>10. \A k \in 0..Prime : H[k] \in Field
  <2> HIDE DEF H
  <2> DEFINE T == {k \in 0..Prime : H[k] \in Field}
  <2>1. 0 \in T
    BY <1>0, <1>8, PrimeFacts
  <2>2. ASSUME NEW k \in 0..(Prime - 1), k \in T PROVE k + 1 \in T
    <3>1. k \in Field /\ H[k] \in Field /\ k + 1 \in 0..Prime
      BY <1>0, <2>2 DEF Field
    <3>2. H[k] \in Int /\ a[k] \in Int
      BY <1>0, <3>1, ValueInt
    <3>3. H[k] * a[k] \in Int
      BY <3>2
    <3>4. H[k + 1] \in Field
      BY <1>9, <3>1, <3>3, ModOf
    <3>5. QED BY <3>1, <3>4
  <2> HIDE DEF T
  <2>3. \A k \in 0..Prime : k \in T
    BY <1>0, <2>1, <2>2, InductTo
  <2>4. QED BY <2>3 DEF T
<1>11. QED BY <1>6, <1>8, <1>9, <1>10

\* Induction over the numbers of the field and the order itself.
LEMMA InductField ==
  ASSUME NEW T, 0 \in T, \A k \in Field : k \in T => k + 1 \in T
  PROVE  \A k \in 0..Prime : k \in T
<1>1. Prime \in Nat /\ \A k \in 0..(Prime - 1) : k \in T => k + 1 \in T
  BY PrimeFacts DEF Field
<1>2. QED BY <1>1, InductTo

\* Where SumTo and ProductTo are defined.
LEMMA FieldIndex ==
  /\ Prime \in Nat /\ Prime \in 0..Prime /\ 0 \in 0..Prime
  /\ \A k \in Field : /\ k \in Int /\ k \in Nat /\ k \in 0..Prime /\ k + 1 \in 0..Prime
                      /\ k < Prime
BY PrimeFacts DEF Field

\* A product with a number known up to a multiple.
LEMMA Spread ==
  ASSUME NEW c \in Int, NEW x \in Int, NEW y \in Int, NEW n \in Int
  PROVE  /\ c * ((x + y) + n * Prime) = c * x + c * y + (c * n) * Prime
         /\ c * (x * y + n * Prime) = (c * y) * x + (c * n) * Prime
<1>1. Prime \in Int
  BY ValueInt
<1> DEFINE z == n * Prime  w == x * y
<1>2. z \in Int /\ w \in Int /\ c * z = (c * n) * Prime /\ c * w = (c * y) * x
  BY <1>1
<1> HIDE DEF z, w
<1>3. c * ((x + y) + z) = c * x + c * y + c * z
  BY <1>2
<1>4. c * (w + z) = c * w + c * z
  BY <1>2
<1>5. QED BY <1>2, <1>3, <1>4 DEF z, w

\* Sums are linear.
LEMMA SumLinear ==
  ASSUME NEW a \in [Field -> Int], NEW b \in [Field -> Int], NEW e \in [Field -> Int],
         NEW c \in Int, NEW f \in Int,
         \A i \in Field : Congruent(a[i], c * b[i] + f * e[i])
  PROVE  Congruent(Sum(a), c * Sum(b) + f * Sum(e))
<1> DEFINE A == SumTo(a)  B == SumTo(b)  E == SumTo(e)
<1>1. /\ Sum(a) = A[Prime] /\ A[0] = 0 /\ Sum(b) = B[Prime] /\ B[0] = 0
      /\ Sum(e) = E[Prime] /\ E[0] = 0
  BY SumSteps
<1>2. \A k \in Field : /\ A[k + 1] = (A[k] + a[k]) % Prime
                       /\ B[k + 1] = (B[k] + b[k]) % Prime
                       /\ E[k + 1] = (E[k] + e[k]) % Prime
  BY SumSteps
<1>3. \A k \in 0..Prime : A[k] \in Int /\ B[k] \in Int /\ E[k] \in Int
  BY SumSteps, ValueInt
<1> HIDE DEF A, B, E
<1> DEFINE T == {k \in 0..Prime : Congruent(A[k], c * B[k] + f * E[k])}
<1>4. 0 \in T
  <2>1. A[0] = (c * B[0] + f * E[0]) + 0 * Prime
    BY <1>1, FieldIndex
  <2>2. Congruent(A[0], c * B[0] + f * E[0])
    BY <2>1 DEF Congruent
  <2>3. QED BY <2>2, FieldIndex
<1>5. ASSUME NEW k \in Field, k \in T PROVE k + 1 \in T
  <2>1. /\ k \in 0..Prime /\ k + 1 \in 0..Prime /\ Congruent(A[k], c * B[k] + f * E[k])
    BY <1>5, FieldIndex
  <2> HIDE DEF T
  <2>2. PICK k1 \in Int : A[k] = (c * B[k] + f * E[k]) + k1 * Prime
    BY <2>1 DEF Congruent
  <2>3. PICK k2 \in Int : a[k] = (c * b[k] + f * e[k]) + k2 * Prime
    BY DEF Congruent
  <2> DEFINE Ak == A[k]  Bk == B[k]  Ek == E[k]  ak == a[k]  bk == b[k]  ek == e[k]
             A1 == A[k + 1]  B1 == B[k + 1]  E1 == E[k + 1]
  <2>4. /\ Ak \in Int /\ Bk \in Int /\ Ek \in Int /\ ak \in Int /\ bk \in Int /\ ek \in Int
        /\ A1 = (Ak + ak) % Prime /\ B1 = (Bk + bk) % Prime /\ E1 = (Ek + ek) % Prime
        /\ Ak = (c * Bk + f * Ek) + k1 * Prime
        /\ ak = (c * bk + f * ek) + k2 * Prime
    BY <1>2, <1>3, <2>1, <2>2, <2>3
  <2> HIDE DEF Ak, Bk, Ek, ak, bk, ek, A1, B1, E1
  <2>5. Ak + ak \in Int /\ Bk + bk \in Int /\ Ek + ek \in Int /\ Prime \in Int
    BY <2>4, ValueInt
  <2>6. /\ A1 \in Int /\ B1 \in Int /\ E1 \in Int
        /\ \E n \in Int : A1 = (Ak + ak) + n * Prime
        /\ \E n \in Int : B1 = (Bk + bk) + n * Prime
        /\ \E n \in Int : E1 = (Ek + ek) + n * Prime
    BY <2>4, <2>5, Multiple
  <2>7. PICK n1 \in Int : A1 = (Ak + ak) + n1 * Prime
    BY <2>6
  <2>8. PICK n2 \in Int : B1 = (Bk + bk) + n2 * Prime
    BY <2>6
  <2>9. PICK n3 \in Int : E1 = (Ek + ek) + n3 * Prime
    BY <2>6
  <2>10. c * B1 = c * Bk + c * bk + (c * n2) * Prime
    <3>1. Bk \in Int /\ bk \in Int
      BY <2>4
    <3>2. c * ((Bk + bk) + n2 * Prime) = c * Bk + c * bk + (c * n2) * Prime
      BY <3>1, Spread
    <3>3. QED BY <3>2, <2>8
  <2>11. f * E1 = f * Ek + f * ek + (f * n3) * Prime
    <3>1. Ek \in Int /\ ek \in Int
      BY <2>4
    <3>2. f * ((Ek + ek) + n3 * Prime) = f * Ek + f * ek + (f * n3) * Prime
      BY <3>1, Spread
    <3>3. QED BY <3>2, <2>9
  <2>12. A1 = (c * Bk + f * Ek) + (c * bk + f * ek) + (k1 + k2 + n1) * Prime
    <3> DEFINE x == c * Bk + f * Ek  y == c * bk + f * ek
    <3>1. x \in Int /\ y \in Int
      BY <2>4
    <3>2. Ak = x + k1 * Prime /\ ak = y + k2 * Prime
      BY <2>4
    <3> HIDE DEF x, y
    <3>3. A1 = x + y + (k1 + k2 + n1) * Prime
      BY <2>5, <2>7, <3>1, <3>2
    <3>4. QED BY <3>3 DEF x, y
  <2> DEFINE p == c * Bk  q == c * bk  r == f * Ek  s == f * ek  u == c * n2  v == f * n3
             cB == c * B1  fE == f * E1
  <2>13. p \in Int /\ q \in Int /\ r \in Int /\ s \in Int /\ u \in Int /\ v \in Int
         /\ cB = p + q + u * Prime /\ fE = r + s + v * Prime
         /\ A1 = (p + r) + (q + s) + (k1 + k2 + n1) * Prime
    BY <2>4, <2>10, <2>11, <2>12
  <2> HIDE DEF p, q, r, s, u, v, cB, fE
  <2>14. A1 = (cB + fE) + (k1 + k2 + n1 - u - v) * Prime /\ k1 + k2 + n1 - u - v \in Int
    BY <2>5, <2>13
  <2>15. Congruent(A1, c * B1 + f * E1)
    BY <2>14 DEF Congruent, cB, fE
  <2>16. QED BY <2>1, <2>15 DEF T, A1, B1, E1
<1>6. \A k \in 0..Prime : k \in T
  <2> HIDE DEF T
  <2>1. QED BY <1>4, <1>5, InductField
<1>7. Congruent(A[Prime], c * B[Prime] + f * E[Prime])
  BY <1>6, FieldIndex
<1>8. QED BY <1>1, <1>7

\* A sum with one summand.
LEMMA SumSingle ==
  ASSUME NEW a \in [Field -> Int], NEW m \in Field, \A i \in Field : i # m => a[i] = 0
  PROVE  Congruent(Sum(a), a[m])
<1> DEFINE A == SumTo(a)
<1>1. Sum(a) = A[Prime] /\ A[0] = 0
  BY SumSteps
<1>2. \A k \in Field : A[k + 1] = (A[k] + a[k]) % Prime
  BY SumSteps
<1> HIDE DEF A
<1>3. a[m] \in Int /\ m \in Int /\ a[m] % Prime \in Field
  BY ValueInt, ModOf
<1> DEFINE T == {k \in 0..Prime : A[k] = IF k <= m THEN 0 ELSE a[m] % Prime}
<1>4. 0 \in T
  <2>1. 0 <= m
    BY FieldIndex
  <2>2. QED BY <1>1, <2>1, FieldIndex
<1>5. ASSUME NEW k \in Field, k \in T PROVE k + 1 \in T
  <2>1. /\ k \in Int /\ k + 1 \in 0..Prime /\ A[k] = (IF k <= m THEN 0 ELSE a[m] % Prime)
    BY <1>5, FieldIndex
  <2>2. A[k + 1] = (A[k] + a[k]) % Prime
    BY <1>2
  <2>3. CASE k < m
    <3>1. A[k] + a[k] = 0 /\ k + 1 <= m
      BY <1>3, <2>1, <2>3
    <3>2. 0 % Prime = 0
      BY PrimeFacts, FieldMod
    <3>3. QED BY <2>1, <2>2, <3>1, <3>2
  <2>4. CASE k = m
    <3>1. A[k] + a[k] = a[m] /\ ~(k + 1 <= m)
      BY <1>3, <2>1, <2>4
    <3>2. QED BY <2>1, <2>2, <3>1
  <2>5. CASE k > m
    <3>1. a[k] = 0 /\ ~(k <= m) /\ ~(k + 1 <= m)
      BY <1>3, <2>1, <2>5
    <3>2. A[k] = a[m] % Prime /\ A[k] \in Int
      BY <1>3, <2>1, <3>1, ValueInt
    <3>3. A[k] + a[k] = a[m] % Prime
      BY <3>1, <3>2
    <3>4. QED BY <1>3, <2>1, <2>2, <3>1, <3>3, FieldMod
  <2>6. QED BY <1>3, <2>1, <2>3, <2>4, <2>5
<1>6. \A k \in 0..Prime : k \in T
  <2> HIDE DEF T
  <2>1. QED BY <1>4, <1>5, InductField
<1>7. A[Prime] = a[m] % Prime
  <2>1. ~(Prime <= m)
    BY <1>3, FieldIndex
  <2>2. QED BY <1>6, <2>1, FieldIndex
<1>8. Congruent(a[m] % Prime, a[m])
  BY <1>3, ModOf, ValueInt, CongruentBack
<1>9. QED BY <1>1, <1>7, <1>8

\* A product of ones.
LEMMA ProductOnes ==
  ASSUME NEW a \in [Field -> Int], \A i \in Field : a[i] = 1
  PROVE  Product(a) = 1
<1> DEFINE A == ProductTo(a)
<1>1. Product(a) = A[Prime] /\ A[0] = 1
  BY ProductSteps
<1>2. \A k \in Field : A[k + 1] = (A[k] * a[k]) % Prime
  BY ProductSteps
<1> HIDE DEF A
<1> DEFINE T == {k \in 0..Prime : A[k] = 1}
<1>3. 0 \in T
  BY <1>1, FieldIndex
<1>4. ASSUME NEW k \in Field, k \in T PROVE k + 1 \in T
  <2>1. k + 1 \in 0..Prime /\ A[k] * a[k] = 1
    BY <1>4, FieldIndex
  <2>2. A[k + 1] = 1
    BY <1>2, <2>1, PrimeFacts, FieldMod
  <2>3. QED BY <2>1, <2>2
<1>5. \A k \in 0..Prime : k \in T
  <2> HIDE DEF T
  <2>1. QED BY <1>3, <1>4, InductField
<1>6. QED BY <1>1, <1>5, FieldIndex

\* A factor taken out of a product.
LEMMA ProductWithout ==
  ASSUME NEW a \in [Field -> Int], NEW b \in [Field -> Int], NEW m \in Field,
         b[m] = 1, \A i \in Field : i # m => a[i] = b[i]
  PROVE  Congruent(Product(a), a[m] * Product(b)) /\ Product(a) \in Int /\ Product(b) \in Int
<1> DEFINE A == ProductTo(a)  B == ProductTo(b)
<1>1. Product(a) = A[Prime] /\ A[0] = 1 /\ Product(b) = B[Prime] /\ B[0] = 1
  BY ProductSteps
<1>2. \A k \in Field : A[k + 1] = (A[k] * a[k]) % Prime /\ B[k + 1] = (B[k] * b[k]) % Prime
  BY ProductSteps
<1>3. \A k \in 0..Prime : A[k] \in Int /\ B[k] \in Int
  BY ProductSteps, ValueInt
<1> HIDE DEF A, B
<1> DEFINE am == a[m]
<1>4. am \in Int /\ m \in Int /\ 0 <= m /\ m < Prime
  BY FieldIndex
<1> DEFINE T == {k \in 0..Prime : Congruent(A[k], (IF k <= m THEN 1 ELSE am) * B[k])}
<1>5. 0 \in T
  <2>1. A[0] = 1 * B[0] + 0 * Prime
    BY <1>1, FieldIndex
  <2>2. Congruent(A[0], 1 * B[0])
    BY <2>1 DEF Congruent
  <2>3. QED BY <1>4, <2>2, FieldIndex
<1>6. ASSUME NEW k \in Field, k \in T PROVE k + 1 \in T
  <2> DEFINE f == IF k <= m THEN 1 ELSE am
             f1 == IF k + 1 <= m THEN 1 ELSE am
  <2>1. k \in Int /\ k \in 0..Prime /\ k + 1 \in 0..Prime /\ Congruent(A[k], f * B[k])
    BY <1>6, FieldIndex
  <2>2. f \in Int /\ f1 \in Int /\ f * a[k] = f1 * b[k]
    <3>1. CASE k < m
      <4>1. f = 1 /\ f1 = 1 /\ a[k] = b[k]
        BY <1>4, <2>1, <3>1
      <4>2. QED BY <4>1
    <3>2. CASE k = m
      <4>1. f = 1 /\ f1 = am /\ a[k] = am /\ b[k] = 1
        BY <1>4, <2>1, <3>2
      <4>2. QED BY <1>4, <4>1
    <3>3. CASE k > m
      <4>1. f = am /\ f1 = am /\ a[k] = b[k]
        BY <1>4, <2>1, <3>3
      <4>2. QED BY <1>4, <4>1
    <3>4. QED BY <1>4, <2>1, <3>1, <3>2, <3>3
  <2> DEFINE Ak == A[k]  Bk == B[k]  ak == a[k]  bk == b[k]
             A1 == A[k + 1]  B1 == B[k + 1]
  <2>3. /\ Ak \in Int /\ Bk \in Int /\ ak \in Int /\ bk \in Int /\ Prime \in Int
        /\ A1 = (Ak * ak) % Prime /\ B1 = (Bk * bk) % Prime
        /\ f * ak = f1 * bk /\ Congruent(Ak, f * Bk) /\ A1 \in Int /\ B1 \in Int
    BY <1>2, <1>3, <2>1, <2>2, ValueInt
  <2>4. Congruent(A1, f1 * B1)
    <3> HIDE DEF f, f1, Ak, Bk, ak, bk, A1, B1, T
    <3>1. PICK k1 \in Int : Ak = f * Bk + k1 * Prime
      BY <2>3 DEF Congruent
    <3>2. Ak * ak \in Int /\ Bk * bk \in Int
      BY <2>3
    <3>3. PICK n1 \in Int : A1 = Ak * ak + n1 * Prime
      BY <2>3, <3>2, Multiple
    <3>4. PICK n2 \in Int : B1 = Bk * bk + n2 * Prime
      BY <2>3, <3>2, Multiple
    <3>5. Ak * ak = (f * ak) * Bk + (k1 * ak) * Prime
      BY <2>2, <2>3, <3>1
    <3>6. f1 * B1 = (f1 * bk) * Bk + (f1 * n2) * Prime
      <4>1. f1 \in Int /\ Bk \in Int /\ bk \in Int
        BY <2>2, <2>3
      <4>2. f1 * (Bk * bk + n2 * Prime) = (f1 * bk) * Bk + (f1 * n2) * Prime
        BY <4>1, Spread
      <4>3. QED BY <3>4, <4>2
    <3> DEFINE p == (f * ak) * Bk  q == k1 * ak  r == f1 * n2  fB == f1 * B1  AA == Ak * ak
    <3>7. p \in Int /\ q \in Int /\ r \in Int
      BY <2>2, <2>3
    <3>8. AA = p + q * Prime /\ A1 = AA + n1 * Prime
      BY <3>3, <3>5
    <3>9. fB = p + r * Prime
      BY <2>3, <3>6
    <3> HIDE DEF p, q, r, fB, AA
    <3>10. A1 = fB + (q + n1 - r) * Prime /\ q + n1 - r \in Int
      BY <2>3, <3>7, <3>8, <3>9
    <3>11. QED BY <3>10 DEF Congruent, fB
  <2>5. QED BY <2>1, <2>4
<1>7. \A k \in 0..Prime : k \in T
  <2> HIDE DEF T
  <2>1. QED BY <1>5, <1>6, InductField
<1>8. Congruent(A[Prime], am * B[Prime])
  <2>1. Prime \in T /\ ~(Prime <= m)
    BY <1>4, <1>7, FieldIndex
  <2>2. QED BY <2>1
<1>9. QED BY <1>1, <1>3, <1>8, FieldIndex

-----------------------------------------------------------------------------
(* Lagrange's formula.                                                     *)

One == [x \in Field |-> 1]

\* What Factor multiplies, and what Interpolate adds for the values of g.
Factors(pids, i) ==
  [j \in Field |-> IF j \in pids \ {i} THEN (Prime - j) * Reciprocal[(i - j) % Prime] ELSE 1]

Terms(pids, g) == [i \in Field |-> IF i \in pids THEN g[i] * Factor(pids, i) ELSE 0]

\* Factor multiplies Factors.
LEMMA FactorType ==
  ASSUME NEW pids \in SUBSET Field, NEW i \in Field
  PROVE  /\ Factors(pids, i) \in [Field -> Int]
         /\ Factor(pids, i) = Product(Factors(pids, i)) /\ Factor(pids, i) \in Int
<1>1. ASSUME NEW j \in pids \ {i} PROVE (Prime - j) * Reciprocal[(i - j) % Prime] \in Int
  <2>1. j \in Field /\ i # j
    OBVIOUS
  <2>2. Prime - j \in Int /\ Reciprocal[(i - j) % Prime] \in Int
    BY <2>1, ValueInt, Difference
  <2>3. QED BY <2>2
<1>2. Factors(pids, i) \in [Field -> Int]
  BY <1>1 DEF Factors
<1>3. Factor(pids, i) = Product(Factors(pids, i))
  BY DEF Factor, Factors
<1>4. Product(Factors(pids, i)) \in Int
  BY <1>2, ProductSteps, FieldIndex, ValueInt
<1>5. QED BY <1>2, <1>3, <1>4

\* Times i - m, a factor is the one without m, times -m.
LEMMA FactorWithout ==
  ASSUME NEW pids \in SUBSET Field, NEW i \in pids, NEW m \in pids, i # m
  PROVE  Congruent((i - m) * Factor(pids, i), (-m) * Factor(pids \ {m}, i))
<1> DEFINE a == Factors(pids, i)
           b == Factors(pids \ {m}, i)
           R == Reciprocal[(i - m) % Prime]
           F == Factor(pids, i)
           G == Factor(pids \ {m}, i)
<1>1. i \in Field /\ m \in Field /\ pids \ {m} \in SUBSET Field
  OBVIOUS
<1>2. /\ a \in [Field -> Int] /\ b \in [Field -> Int]
      /\ F = Product(a) /\ G = Product(b) /\ F \in Int /\ G \in Int
  BY <1>1, FactorType
<1>3. a[m] = (Prime - m) * R /\ b[m] = 1 /\ \A j \in Field : j # m => a[j] = b[j]
  BY <1>1 DEF Factors
<1>4. R \in Int /\ Congruent((i - m) * R, 1)
  BY <1>1, Difference
<1>5. i \in Int /\ m \in Int /\ Prime \in Int
  BY <1>1, ValueInt
<1> HIDE DEF a, b, F, G, R
<1>6. Congruent(F, a[m] * G)
  BY <1>1, <1>2, <1>3, ProductWithout
<1>7. PICK k \in Int : F = ((Prime - m) * R) * G + k * Prime
  BY <1>3, <1>6 DEF Congruent
<1>8. PICK l \in Int : (i - m) * R = 1 + l * Prime
  BY <1>4 DEF Congruent
<1>9. (i - m) * F = ((i - m) * R) * ((Prime - m) * G) + ((i - m) * k) * Prime
  <2> DEFINE u == i - m  v == Prime - m
  <2>1. u \in Int /\ v \in Int /\ F = (v * R) * G + k * Prime
    BY <1>5, <1>7
  <2> HIDE DEF u, v
  <2>2. u * ((v * R) * G) = (u * R) * (v * G)
    BY <1>2, <1>4, <2>1
  <2> DEFINE w == (v * R) * G
  <2>3. w \in Int /\ F = w + k * Prime /\ u * w = (u * R) * (v * G)
    BY <1>2, <1>4, <2>1, <2>2
  <2> HIDE DEF w
  <2>4. u * F = u * w + (u * k) * Prime
    BY <1>5, <2>1, <2>3
  <2>5. QED BY <2>3, <2>4 DEF u, v
<1>10. ((i - m) * R) * ((Prime - m) * G)
         = (-m) * G + (G + l * ((Prime - m) * G)) * Prime
  <2> DEFINE z == (Prime - m) * G
  <2>1. z \in Int /\ z = (-m) * G + G * Prime
    BY <1>2, <1>5
  <2> DEFINE y == (-m) * G  x == (i - m) * R
  <2>2. y \in Int /\ x = 1 + l * Prime /\ z = y + G * Prime
    BY <1>2, <1>5, <1>8, <2>1
  <2> HIDE DEF z, y, x
  <2>3. x * z = z + (l * z) * Prime
    BY <1>5, <2>1, <2>2
  <2> DEFINE w == l * z
  <2>4. w \in Int /\ x * z = z + w * Prime
    BY <2>1, <2>3
  <2> HIDE DEF w
  <2>5. x * z = y + (G + w) * Prime
    BY <1>2, <1>5, <2>1, <2>2, <2>4
  <2>6. QED BY <2>5 DEF w, x, y, z
<1> DEFINE p == (i - m) * F  q == (-m) * G  c == (i - m) * k  d == G + l * ((Prime - m) * G)
<1>11. p = (q + d * Prime) + c * Prime
  BY <1>9, <1>10
<1>12. q \in Int /\ c \in Int /\ d \in Int
  BY <1>2, <1>5
<1> HIDE DEF p, q, c, d
<1>13. p = q + (d + c) * Prime /\ d + c \in Int
  BY <1>5, <1>11, <1>12
<1>14. QED BY <1>13 DEF Congruent, p, q, F, G

\* Terms are integers.
LEMMA TermsType ==
  ASSUME NEW pids \in SUBSET Field, NEW g \in [Field -> Field]
  PROVE  Terms(pids, g) \in [Field -> Int] /\ Sum(Terms(pids, g)) \in Int
<1>1. ASSUME NEW i \in Field PROVE g[i] * Factor(pids, i) \in Int
  <2>1. g[i] \in Int /\ Factor(pids, i) \in Int
    BY ValueInt, FactorType
  <2>2. QED BY <2>1
<1>2. Terms(pids, g) \in [Field -> Int]
  BY <1>1 DEF Terms
<1>3. Sum(Terms(pids, g)) \in Int
  BY <1>2, SumSteps, FieldIndex, ValueInt
<1>4. QED BY <1>2, <1>3

\* With Lagrange's formula for g divided by x - m, all that is left of g is its
\* value at 0 and the sum for the constant 1.
LEMMA LagrangeStep ==
  ASSUME NEW pids \in SUBSET Field, NEW m \in pids, NEW g \in [Field -> Field],
         NEW q \in [Field -> Field], g = Above(g[m], m, q),
         Congruent(Sum(Terms(pids \ {m}, q)), q[0])
  PROVE  Congruent(Sum(Terms(pids, g)), g[0] + g[m] * (Sum(Terms(pids, One)) - 1))
<1> DEFINE a == Terms(pids, g)
           b == Terms(pids, One)
           e == Terms(pids \ {m}, q)
           c == g[m]
<1>1. /\ m \in Field /\ m \in Int /\ Prime \in Int /\ c \in Int /\ -m \in Int
      /\ 0 \in Field /\ g[0] \in Int /\ q[0] \in Int
  <2>1. m \in Field /\ 0 \in Field
    BY PrimeFacts
  <2>2. m \in Int
    BY <2>1, ValueInt
  <2>3. QED BY <2>1, <2>2, ValueInt
<1>2. One \in [Field -> Field] /\ \A i \in Field : One[i] = 1
  BY PrimeFacts DEF One
<1>3. /\ a \in [Field -> Int] /\ b \in [Field -> Int] /\ e \in [Field -> Int]
      /\ Sum(a) \in Int /\ Sum(b) \in Int /\ Sum(e) \in Int
  <2>1. pids \ {m} \in SUBSET Field
    OBVIOUS
  <2>2. QED BY <1>2, <2>1, TermsType
<1>4. ASSUME NEW i \in Field
      PROVE  \E k \in Int : g[i] = (c + (i - m) * q[i]) + k * Prime
  <2>1. g[i] = (c + (i - m) * q[i]) % Prime
    BY DEF Above
  <2>2. i \in Int /\ q[i] \in Int
    BY ValueInt
  <2>3. c + (i - m) * q[i] \in Int
    BY <1>1, <2>2
  <2>4. QED BY <2>1, <2>3, Multiple
<1>5. ASSUME NEW i \in Field PROVE Congruent(a[i], c * b[i] + (-m) * e[i])
  <2>1. CASE i \notin pids
    <3>1. a[i] = 0 /\ b[i] = 0 /\ e[i] = 0
      BY <2>1 DEF Terms
    <3>2. a[i] = (c * b[i] + (-m) * e[i]) + 0 * Prime
      BY <1>1, <3>1
    <3>3. QED BY <3>2 DEF Congruent
  <2>2. CASE i = m
    <3>1. a[i] = c * Factor(pids, m) /\ b[i] = 1 * Factor(pids, m) /\ e[i] = 0
      BY <1>2, <2>2 DEF Terms
    <3>2. Factor(pids, m) \in Int
      BY <1>1, FactorType
    <3>3. a[i] = (c * b[i] + (-m) * e[i]) + 0 * Prime
      BY <1>1, <3>1, <3>2
    <3>4. QED BY <3>3 DEF Congruent
  <2>3. CASE i \in pids /\ i # m
    <3> DEFINE F == Factor(pids, i)
               G == Factor(pids \ {m}, i)
               gi == g[i]
               qi == q[i]
    <3>1. a[i] = gi * F /\ b[i] = 1 * F /\ e[i] = qi * G
      BY <1>2, <2>3 DEF Terms
    <3>2. Congruent((i - m) * F, (-m) * G)
      BY <2>3, FactorWithout
    <3>3. F \in Int /\ G \in Int /\ i \in Int /\ gi \in Int /\ qi \in Int
      <4>1. pids \ {m} \in SUBSET Field
        OBVIOUS
      <4>2. QED BY <4>1, FactorType, ValueInt
    <3>4. PICK k1 \in Int : gi = (c + (i - m) * qi) + k1 * Prime
      BY <1>4
    <3>5. PICK k2 \in Int : (i - m) * F = (-m) * G + k2 * Prime
      BY <3>2 DEF Congruent
    <3> HIDE DEF F, G, gi, qi, a, b, e, c
    <3> DEFINE x == i - m  u == x * qi
    <3>6. x \in Int /\ u \in Int /\ gi = c + u + k1 * Prime
      BY <1>1, <3>3, <3>4
    <3>7. gi * F = c * F + u * F + (k1 * F) * Prime
      <4> HIDE DEF u
      <4>1. QED BY <1>1, <3>3, <3>6
    <3>8. u * F = qi * (x * F)
      <4> HIDE DEF x
      <4>1. QED BY <3>3, <3>6
    <3>9. qi * (x * F) = (-m) * (qi * G) + (qi * k2) * Prime
      <4> DEFINE y == (-m) * G
      <4>1. y \in Int /\ x * F = y + k2 * Prime
        BY <1>1, <3>3, <3>5
      <4>2. qi * y = (-m) * (qi * G)
        BY <1>1, <3>3
      <4> DEFINE w == x * F
      <4> HIDE DEF y, w
      <4>3. w = y + k2 * Prime
        BY <4>1 DEF w
      <4>4. qi * w = qi * y + (qi * k2) * Prime
        BY <1>1, <3>3, <4>1, <4>3
      <4>5. QED BY <4>2, <4>4 DEF w
    <3> DEFINE A == gi * F  B == c * F  E == (-m) * (qi * G)  k == k1 * F  l == qi * k2
    <3>10. A = B + (E + l * Prime) + k * Prime
      BY <3>7, <3>8, <3>9
    <3>11. B \in Int /\ E \in Int /\ k \in Int /\ l \in Int
      BY <1>1, <3>3
    <3>12. b[i] = F
      BY <3>1, <3>3
    <3> HIDE DEF A, B, E, k, l
    <3>13. A = (B + E) + (l + k) * Prime /\ l + k \in Int
      BY <1>1, <3>10, <3>11
    <3>14. QED BY <3>1, <3>12, <3>13 DEF Congruent, A, B, E
  <2>4. QED BY <2>1, <2>2, <2>3
<1> DEFINE W == Sum(b)  V == Sum(e)  U == Sum(a)
<1>6. Congruent(U, c * W + (-m) * V)
  <2> HIDE DEF a, b, e, c
  <2>1. QED BY <1>1, <1>3, <1>5, SumLinear
<1>7. PICK k1 \in Int : U = (c * W + (-m) * V) + k1 * Prime
  BY <1>6 DEF Congruent
<1>8. PICK k2 \in Int : V = q[0] + k2 * Prime
  BY DEF Congruent
<1>9. PICK k3 \in Int : g[0] = (c + (0 - m) * q[0]) + k3 * Prime
  BY <1>1, <1>4
<1>10. U \in Int /\ V \in Int /\ W \in Int
  BY <1>3
<1> DEFINE g0 == g[0]  q0 == q[0]
<1>11. /\ g0 \in Int /\ q0 \in Int /\ V = q0 + k2 * Prime
       /\ g0 = (c + (0 - m) * q0) + k3 * Prime
  BY <1>1, <1>8, <1>9
<1> HIDE DEF U, V, W, c, g0, q0
<1>12. (-m) * V = (-m) * q0 + ((-m) * k2) * Prime
  BY <1>1, <1>11
<1>13. (0 - m) * q0 = (-m) * q0
  BY <1>1, <1>11
<1>14. c * (W - 1) = c * W - c
  BY <1>1, <1>10
<1> DEFINE p == (-m) * V  r == (-m) * q0  s == (-m) * k2  t == c * W  w == c * (W - 1)
<1>15. /\ p = r + s * Prime /\ U = t + p + k1 * Prime /\ g0 = c + r + k3 * Prime /\ w = t - c
  BY <1>7, <1>11, <1>12, <1>13, <1>14
<1>16. p \in Int /\ r \in Int /\ s \in Int /\ t \in Int /\ w \in Int
  BY <1>1, <1>10, <1>11
<1> HIDE DEF p, r, s, t, w
<1>17. U = (g0 + w) + (s + k1 - k3) * Prime /\ s + k1 - k3 \in Int
  BY <1>1, <1>10, <1>11, <1>15, <1>16
<1>18. QED BY <1>17 DEF Congruent, U, g0, w, c, W

\* If it is the same whichever of the numbers is divided by, that sum is 1.
LEMMA OneCounts ==
  ASSUME NEW n \in Nat, NEW pids \in SUBSET Field, Cardinality(pids) = n + 1,
         \A g \in Pol(n + 1), m \in pids :
           Congruent(Sum(Terms(pids, g)), g[0] + g[m] * (Sum(Terms(pids, One)) - 1))
  PROVE  Congruent(Sum(Terms(pids, One)), 1)
<1> DEFINE W == Sum(Terms(pids, One))
<1>1. IsFiniteSet(pids)
  BY FieldFinite
<1>2. PICK m \in pids : TRUE
  <2>1. pids # {}
    BY FS_EmptySet
  <2>2. QED BY <2>1
<1>3. One \in [Field -> Field] /\ m \in Field /\ \A i \in Field : One[i] = 1
  BY PrimeFacts DEF One
<1>4. Terms(pids, One) \in [Field -> Int] /\ W \in Int /\ m \in Int /\ Prime \in Int
  BY <1>3, TermsType, ValueInt
<1>5. CASE pids = {m}
  <2>1. \A i \in Field : i # m => Terms(pids, One)[i] = 0
    BY <1>5 DEF Terms
  <2>2. Terms(pids, One)[m] = 1 * Factor(pids, m)
    BY <1>3 DEF Terms
  <2>3. \A j \in Field : Factors(pids, m)[j] = 1
    BY <1>5 DEF Factors
  <2>4. Factor(pids, m) = 1
    BY <1>3, <2>3, FactorType, ProductOnes
  <2>5. Terms(pids, One)[m] = 1
    BY <2>2, <2>4
  <2>6. QED BY <1>3, <1>4, <2>1, <2>5, SumSingle
<1>6. CASE pids # {m}
  <2>1. PICK i \in pids : i # m
    BY <1>6
  <2>2. n # 0
    <3>1. Cardinality(pids \ {m}) = n
      <4>1. Cardinality(pids \ {m}) = Cardinality(pids) - 1
        BY <1>1, FS_RemoveElement
      <4>2. QED BY <4>1
    <3>2. IsFiniteSet(pids \ {m}) /\ pids \ {m} # {}
      BY <1>1, <2>1, FS_Subset
    <3>3. QED BY <3>1, <3>2, FS_EmptySet
  <2> DEFINE g == Above(0, m, One)
  <2>3. g \in Pol(n + 1) /\ g \in [Field -> Field]
    <3>1. One \in Pol(n)
      BY <2>2, PolOne DEF One
    <3>2. QED BY <1>3, <3>1, PrimeFacts, PolAbove, AboveType
  <2>4. \A x \in Field : g[x] = (x - m) % Prime
    <3>1. ASSUME NEW x \in Field PROVE g[x] = (x - m) % Prime
      <4>1. x \in Int /\ 0 + (x - m) * 1 = x - m
        BY <1>4, ValueInt
      <4>2. QED BY <1>3, <4>1 DEF Above
    <3>2. QED BY <3>1
  <2>5. g[m] = 0
    <3>1. m - m = 0 /\ 0 % Prime = 0
      BY <1>4, PrimeFacts, FieldMod
    <3>2. QED BY <1>3, <2>4, <3>1
  <2>6. i \in Field /\ g[i] \in 1..(Prime - 1) /\ 0 \in Field
    <3>1. i \in Field /\ i # m /\ 0 \in Field
      BY <2>1, PrimeFacts
    <3>2. (i - m) % Prime \in 1..(Prime - 1)
      BY <1>3, <3>1, Difference
    <3>3. QED BY <2>4, <3>1, <3>2
  <2> DEFINE L == Sum(Terms(pids, g))  g0 == g[0]  gi == g[i]
  <2>7. L \in Int /\ g0 \in Int /\ gi \in Int
    BY <2>3, <2>6, TermsType, ValueInt
  <2>8. Congruent(L, g0 + 0 * (W - 1)) /\ Congruent(L, g0 + gi * (W - 1))
    BY <2>1, <2>3, <2>5
  <2> HIDE DEF g, L, g0, W
  <2>9. PICK k1 \in Int : L = (g0 + 0 * (W - 1)) + k1 * Prime
    BY <2>8 DEF Congruent
  <2>10. PICK k2 \in Int : L = (g0 + gi * (W - 1)) + k2 * Prime
    BY <2>8 DEF Congruent
  <2>11. Congruent(gi * (W - 1), 0)
    <3> HIDE DEF gi
    <3> DEFINE p == gi * (W - 1)
    <3>1. p \in Int /\ L = g0 + p + k2 * Prime
      BY <1>4, <2>7, <2>10
    <3>2. L = g0 + k1 * Prime
      BY <1>4, <2>7, <2>9
    <3> HIDE DEF p
    <3>3. p = 0 + (k1 - k2) * Prime /\ k1 - k2 \in Int
      BY <1>4, <2>7, <3>1, <3>2
    <3>4. QED BY <3>3 DEF Congruent, p
  <2> DEFINE v == (W - 1) % Prime
  <2>12. W - 1 \in Int /\ v \in Field /\ v \in Int /\ Congruent(W - 1, v)
    BY <1>4, Multiple, ModOf
  <2> HIDE DEF v
  <2>13. v = 0
    <3> SUFFICES ASSUME v # 0 PROVE FALSE
      OBVIOUS
    <3>1. v \in 1..(Prime - 1)
      BY <2>12 DEF Field
    <3> HIDE DEF gi
    <3>2. PICK k \in Int : W - 1 = v + k * Prime
      BY <2>12 DEF Congruent
    <3>3. PICK l \in Int : gi * (W - 1) = 0 + l * Prime
      BY <2>11 DEF Congruent
    <3> DEFINE u == W - 1
    <3>4. u \in Int /\ u = v + k * Prime /\ gi * u = 0 + l * Prime
      BY <2>12, <3>2, <3>3
    <3> HIDE DEF u
    <3>5. gi * u = gi * v + (gi * k) * Prime
      BY <1>4, <2>7, <2>12, <3>4
    <3> DEFINE p == gi * v  q == gi * k  r == gi * u
    <3>6. p \in Int /\ q \in Int /\ r = p + q * Prime /\ r = 0 + l * Prime
      BY <2>7, <2>12, <3>4, <3>5
    <3> HIDE DEF p, q, r
    <3>7. p = 0 + (l - q) * Prime /\ l - q \in Int
      BY <1>4, <3>6
    <3>8. Congruent(gi * v, 0)
      BY <3>7 DEF Congruent, p
    <3>9. gi \in 1..(Prime - 1)
      BY <2>6 DEF gi
    <3>10. QED BY <3>1, <3>8, <3>9, NoZeroDivisors
  <2>14. PICK k \in Int : W - 1 = 0 + k * Prime
    BY <2>12, <2>13 DEF Congruent
  <2>15. W = 1 + k * Prime
    <3>1. k * Prime \in Int
      BY <1>4
    <3>2. QED BY <1>4, <2>14, <3>1
  <2>16. QED BY <2>15 DEF Congruent, W
<1>7. QED BY <1>5, <1>6

\* Lagrange's formula: a polynomial with n coefficients, at n different numbers,
\* adds up to its value at 0.
LEMMA Lagrange ==
  ASSUME NEW d \in Nat
  PROVE  \A pids \in SUBSET Field : Cardinality(pids) = d =>
           \A g \in Pol(d) : Congruent(Sum(Terms(pids, g)), g[0])
<1> DEFINE Holds(n) == \A pids \in SUBSET Field : Cardinality(pids) = n =>
             \A g \in Pol(n) : Congruent(Sum(Terms(pids, g)), g[0])
           T == {n \in Nat : Holds(n)}
<1>0. ASSUME NEW pids \in SUBSET Field PROVE IsFiniteSet(pids)
  BY FieldFinite
<1>1. Holds(0)
  <2>1. ASSUME NEW pids \in SUBSET Field, Cardinality(pids) = 0, NEW g \in Pol(0)
        PROVE  Congruent(Sum(Terms(pids, g)), g[0])
    <3> DEFINE a == Terms(pids, g)
    <3>1. pids = {}
      BY <1>0, <2>1, FS_EmptySet
    <3>2. g \in [Field -> Field] /\ g[0] = 0 /\ 0 \in Field
      BY PolNone, PolType, PrimeFacts
    <3>3. a \in [Field -> Int] /\ Sum(a) \in Int
      BY <3>2, TermsType
    <3>4. \A i \in Field : a[i] = 0
      BY <3>1 DEF Terms
    <3> HIDE DEF a
    <3>5. Congruent(Sum(a), a[0])
      BY <3>2, <3>3, <3>4, SumSingle
    <3>6. a[0] = 0
      BY <3>2, <3>4
    <3>7. QED BY <3>2, <3>5, <3>6 DEF a
  <2>2. QED BY <2>1
<1>2. ASSUME NEW n \in Nat, Holds(n) PROVE Holds(n + 1)
  <2>1. ASSUME NEW pids \in SUBSET Field, Cardinality(pids) = n + 1
        PROVE  \A g \in Pol(n + 1), m \in pids :
                 Congruent(Sum(Terms(pids, g)), g[0] + g[m] * (Sum(Terms(pids, One)) - 1))
    <3>1. SUFFICES ASSUME NEW g \in Pol(n + 1), NEW m \in pids
          PROVE  Congruent(Sum(Terms(pids, g)), g[0] + g[m] * (Sum(Terms(pids, One)) - 1))
      OBVIOUS
    <3>2. m \in Field /\ n + 1 \in Nat /\ pids \ {m} \in SUBSET Field
      OBVIOUS
    <3>3. PICK q \in Pol(n) : g = Above(g[m], m, q)
      BY <3>2, Divide
    <3>4. g \in [Field -> Field] /\ q \in [Field -> Field]
      BY <3>2, PolType
    <3>5. Cardinality(pids \ {m}) = n
      <4>1. Cardinality(pids \ {m}) = Cardinality(pids) - 1
        BY <1>0, FS_RemoveElement
      <4>2. QED BY <2>1, <4>1
    <3>6. Congruent(Sum(Terms(pids \ {m}, q)), q[0])
      BY <1>2, <3>2, <3>5
    <3> HIDE DEF Holds
    <3>7. QED BY <3>3, <3>4, <3>6, LagrangeStep
  <2>2. ASSUME NEW pids \in SUBSET Field, Cardinality(pids) = n + 1, NEW g \in Pol(n + 1)
        PROVE  Congruent(Sum(Terms(pids, g)), g[0])
    <3> HIDE DEF Holds
    <3> DEFINE L == Sum(Terms(pids, g))
               W == Sum(Terms(pids, One))
    <3>1. Congruent(W, 1)
      BY <2>1, <2>2, OneCounts
    <3>2. PICK m \in pids : TRUE
      <4>1. pids # {}
        BY <2>2, FS_EmptySet
      <4>2. QED BY <4>1
    <3>3. Congruent(L, g[0] + g[m] * (W - 1))
      BY <2>1, <2>2
    <3>4. /\ g \in [Field -> Field] /\ One \in [Field -> Field]
          /\ m \in Field /\ 0 \in Field
      BY PolType, PrimeFacts DEF One
    <3> DEFINE g0 == g[0]  gm == g[m]
    <3>5. L \in Int /\ W \in Int /\ g0 \in Int /\ gm \in Int /\ Prime \in Int
      BY <3>4, TermsType, ValueInt
    <3> HIDE DEF L, W, g0, gm
    <3>6. PICK k \in Int : W = 1 + k * Prime
      BY <3>1 DEF Congruent
    <3>7. PICK l \in Int : L = (g0 + gm * (W - 1)) + l * Prime
      BY <3>3 DEF Congruent, g0, gm
    <3>8. gm * (W - 1) = (gm * k) * Prime
      <4>1. W - 1 = k * Prime
        <5> DEFINE z == k * Prime
        <5>1. z \in Int /\ W = 1 + z
          BY <3>5, <3>6
        <5> HIDE DEF z
        <5>2. W - 1 = z
          BY <5>1
        <5>3. QED BY <5>2 DEF z
      <4>2. gm * (k * Prime) = (gm * k) * Prime
        BY <3>5
      <4>3. QED BY <4>1, <4>2
    <3> DEFINE u == gm * k
    <3>9. u \in Int /\ L = (g0 + u * Prime) + l * Prime
      BY <3>5, <3>7, <3>8
    <3> HIDE DEF u
    <3>10. L = g0 + (u + l) * Prime /\ u + l \in Int
      BY <3>5, <3>9
    <3>11. QED BY <3>10 DEF Congruent, g0, L
  <2> HIDE DEF Holds
  <2>3. QED BY <2>2 DEF Holds
<1> HIDE DEF Holds
<1>3. T = Nat
  <2>1. T \in SUBSET Nat /\ 0 \in T /\ \A n \in T : n + 1 \in T
    BY <1>1, <1>2
  <2> HIDE DEF T
  <2>2. QED BY <2>1, Induct
<1>4. Holds(d)
  BY <1>3
<1>5. QED BY <1>4 DEF Holds

\* As many values of a polynomial as it has coefficients, or more, give its
\* first coefficient back.
THEOREM InterpolateBack ==
  ASSUME NEW d \in Nat, NEW c \in Coefficients(d + 1), NEW pids \in SUBSET Field,
         Cardinality(pids) >= d + 1
  PROVE  Interpolate([i \in pids |-> At(c, i)]) = c[0]
<1> DEFINE g == [x \in Field |-> At(c, x)]
           n == Cardinality(pids)
           shares == [i \in pids |-> At(c, i)]
<1>1. n \in Nat /\ d + 1 \in Nat /\ 0 \in Field
  <2>1. IsFiniteSet(pids)
    BY FieldFinite
  <2>2. QED BY <2>1, FS_CardinalityType, PrimeFacts
<1>2. g \in Pol(n)
  <2>1. g \in Pol(d + 1)
    BY DEF Pol
  <2>2. Pol(d + 1) \subseteq Pol(n)
    BY <1>1, PolUpTo
  <2>3. QED BY <2>1, <2>2
<1>3. g[0] = c[0] /\ c[0] \in Field
  <2>1. 0 \in 0..((d + 1) - 1)
    OBVIOUS
  <2>2. QED BY <1>1, <2>1, AtNought DEF Coefficients
<1>4. g \in [Field -> Field]
  BY <1>1, <1>2, PolType
<1>5. Interpolate(shares) = Sum(Terms(pids, g))
  <2>1. DOMAIN shares = pids
    OBVIOUS
  <2>2. [i \in Field |-> IF i \in pids THEN shares[i] * Factor(pids, i) ELSE 0]
          = Terms(pids, g)
    BY DEF Terms
  <2> HIDE DEF shares, g
  <2>3. QED BY <2>1, <2>2 DEF Interpolate
<1> HIDE DEF g, shares
<1>6. Congruent(Sum(Terms(pids, g)), c[0])
  BY <1>1, <1>2, <1>3, Lagrange
<1>7. Sum(Terms(pids, g)) \in Field
  <2>1. Terms(pids, g) \in [Field -> Int]
    BY <1>4, TermsType
  <2>2. QED BY <2>1, SumSteps, FieldIndex
<1>8. QED BY <1>3, <1>5, <1>6, <1>7, SameInField DEF shares

\* Fewer values go with any first coefficient.
LEMMA FewGoWithAny ==
  ASSUME NEW d \in Nat, NEW few \in SUBSET (Field \ {0}), Cardinality(few) <= d,
         NEW y \in [Field -> Field], NEW secret \in Field
  PROVE  \E c \in Coefficients(d + 1) : c[0] = secret /\ \A i \in few : At(c, i) = y[i]
<1> DEFINE S == few \cup {0}
           n == Cardinality(S)
           z == [x \in Field |-> IF x = 0 THEN secret ELSE y[x]]
<1>1. 0 \in Field /\ S \in SUBSET Field /\ z \in [Field -> Field] /\ d + 1 \in Nat
  BY PrimeFacts
<1>2. n \in Nat /\ n <= d + 1
  <2>1. IsFiniteSet(few)
    BY FieldFinite
  <2>2. Cardinality(S) = Cardinality(few) + 1 /\ Cardinality(few) \in Nat
    BY <2>1, FS_AddElement, FS_CardinalityType
  <2>3. QED BY <2>2
<1>3. z[0] = secret /\ \A i \in few : z[i] = y[i] /\ i \in S /\ i \in Field
  BY <1>1
<1>4. 0 \in S
  OBVIOUS
<1> HIDE DEF S, z
<1>5. PICK g \in Pol(n) : \A i \in S : g[i] = z[i]
  BY <1>1, <1>2, Through
<1>6. g \in Pol(d + 1)
  BY <1>1, <1>2, PolUpTo
<1>7. PICK c \in Coefficients(d + 1) : g = [x \in Field |-> At(c, x)]
  BY <1>6 DEF Pol
<1>8. c[0] = secret
  BY <1>1, <1>3, <1>4, <1>5, <1>7, AtNought
<1>9. \A i \in few : At(c, i) = y[i]
  BY <1>3, <1>5, <1>7
<1>10. QED BY <1>8, <1>9

-----------------------------------------------------------------------------
(* The invariant.                                                          *)

\* The payload is sealed with the label and holds the key, and no second
\* backup replaces it.
Sealed ==
  /\ artifact # Nothing =>
       /\ request = Nothing
       /\ artifact.payload.label = artifact.label
       /\ artifact.payload.blob = ExportKey(kp)
  /\ attempt # Nothing => artifact # Nothing

\* The shares are the values of one polynomial, with as many coefficients as
\* the threshold says, at numbers that differ from each other and from 0; the
\* first of its coefficients is the key of the payload.
Dealt(n, coefficients) ==
  /\ artifact.threshold \in 1..n
  /\ artifact.shares = [i \in 1..n |-> At(coefficients, i)]
  /\ artifact.payload.key = coefficients[0]

Shared ==
  /\ request # Nothing => request.size[2] < Prime
  /\ artifact # Nothing =>
       \E n \in Field : \E coefficients \in [0..(artifact.threshold - 1) -> Field] :
         Dealt(n, coefficients)

BInv == BTypeOK /\ BindingsAgree /\ Sealed /\ Shared /\ RestoreSound /\ RestoreComplete

-----------------------------------------------------------------------------
(* Options.                                                                *)

\* What Node makes of a number, React Native makes of it too, and what becomes
\* of a number is below the order of the field.
LEMMA NumbersAgree ==
  ASSUME NEW h \in Numbers, NEW default \in Field
  PROVE  /\ NodeNumber(h) \subseteq HostNumber(h, default)
         /\ NodeNumber(h) \subseteq Truncate(h)
         /\ HostNumber(h, default) \subseteq Field
         /\ h # Absent => Truncate(h) \subseteq Field
         /\ NodeNumber(Absent) = {}
<1> USE BackupAssumption
<1>0. 0..MaxShares \subseteq Field
  BY DEF Field
<1>1. h # Absent => Truncate(h) \subseteq Field
  <2>1. CASE h = NaN
    BY <1>0, <2>1 DEF Truncate
  <2>2. CASE h \in Halves
    <3>1. h \in Int /\ h < 2 * Prime
      BY <2>2, OrderAssumption
    <3>2. h >= 0 => h \div 2 \in Field
      BY <3>1 DEF Field
    <3>3. 0 \in Field
      BY DEF Field
    <3>4. QED BY <1>0, <3>1, <3>2, <3>3 DEF Truncate
  <2>3. QED BY <2>1, <2>2 DEF Numbers
<1>2. NodeNumber(Absent) = {}
  BY DEF NodeNumber
<1>3. NodeNumber(h) \subseteq Truncate(h)
  BY DEF NodeNumber, Truncate
<1>4. QED BY <1>1, <1>2, <1>3 DEF HostNumber, NodeNumber

\* The sizes a binding takes options for; Node's are React Native's.
LEMMA OptionsAgree ==
  ASSUME NEW o \in Options
  PROVE  /\ NodeOptions(o) \subseteq HostOptions(o)
         /\ HostOptions(o) \subseteq Field \X Field
<1>0. 2 \in Field /\ 3 \in Field
  BY PrimeFacts DEF Field
<1>1. CASE o = Nothing
  BY <1>0, <1>1 DEF NodeOptions, HostOptions
<1>2. CASE o # Nothing
  <2>1. o.threshold \in Numbers /\ o.shareCount \in Numbers /\ o.shares \in Numbers
    BY <1>2 DEF Options
  <2>2. /\ NodeNumber(o.threshold) \subseteq HostNumber(o.threshold, 2)
        /\ HostNumber(o.threshold, 2) \subseteq Field
    BY <1>0, <2>1, NumbersAgree
  <2>3. /\ NodeNumber(o.shareCount) \subseteq Truncate(o.shareCount)
        /\ NodeNumber(Absent) = {}
        /\ o.shareCount # Absent => Truncate(o.shareCount) \subseteq Field
        /\ HostNumber(o.shares, 3) \subseteq Field
    BY <1>0, <2>1, NumbersAgree
  <2> DEFINE shares == IF o.shareCount = Absent THEN HostNumber(o.shares, 3)
                       ELSE Truncate(o.shareCount)
  <2>4. NodeNumber(o.shareCount) \subseteq shares /\ shares \subseteq Field
    BY <2>3
  <2>5. HostOptions(o) = {size \in HostNumber(o.threshold, 2) \X shares : size[2] >= size[1]}
    BY <1>2 DEF HostOptions
  <2>6. NodeOptions(o) = {size \in NodeNumber(o.threshold) \X NodeNumber(o.shareCount) :
                            size[2] >= size[1]}
    BY <1>2 DEF NodeOptions
  <2> HIDE DEF shares
  <2>7. QED BY <2>2, <2>4, <2>5, <2>6
<1>3. QED BY <1>1, <1>2

-----------------------------------------------------------------------------
(* The steps.                                                              *)

\* At the start.
LEMMA BInitInv == BInit => BInv
BY DEF BInit, BInv, BTypeOK, BindingsAgree, Sealed, Shared, RestoreSound, RestoreComplete

\* A binding is asked for a backup.
LEMMA BackupCreateInv ==
  ASSUME BInv, NEW binding \in {"node", "host"}, NEW o \in Options,
         BackupCreate(binding, o), artifact = Nothing
  PROVE  BInv'
<1>1. UNCHANGED <<kp, artifact, attempt>>
  BY DEF BackupCreate
<1>2. PICK size \in Field \X Field, status \in {"asked", "thrown"} :
        /\ request' = [by |-> binding, options |-> o, size |-> size, status |-> status]
        /\ status = "asked" => size \in Takes(binding, o)
  <2>1. CASE \E size \in Takes(binding, o) :
               request' = [by |-> binding, options |-> o, size |-> size, status |-> "asked"]
    BY <2>1, OptionsAgree DEF Takes
  <2>2. CASE request' = [by |-> binding, options |-> o, size |-> <<0, 0>>,
                         status |-> "thrown"]
    <3>1. <<0, 0>> \in Field \X Field
      BY PrimeFacts
    <3>2. QED BY <2>2, <3>1
  <2>3. QED BY <2>1, <2>2 DEF BackupCreate
<1>3. /\ request'.by = binding /\ request'.options = o
      /\ request'.size = size /\ request'.status = status
  BY <1>2
<1>4. size \in Nat \X Nat /\ size[2] < Prime
  BY FieldIndex
<1>5. request' \in Requests
  BY <1>2, <1>4 DEF Requests
<1>6. BindingsAgree'
  <2>1. binding = "node" /\ status = "asked" => size \in HostOptions(o)
    BY <1>2, OptionsAgree DEF Takes
  <2>2. QED BY <1>3, <2>1 DEF BindingsAgree
<1>7. attempt = Nothing
  BY DEF BInv, Sealed
<1>8. Shared'
  BY <1>1, <1>3, <1>4 DEF Shared
<1>9. QED
  BY <1>1, <1>5, <1>6, <1>7, <1>8 DEF BInv, BTypeOK, Sealed, RestoreSound, RestoreComplete

\* The key is sealed, and its key shared out.
LEMMA CreateBackupInv ==
  ASSUME BInv, CreateBackup
  PROVE  BInv'
<1>1. /\ request # Nothing /\ request.status = "asked"
      /\ UNCHANGED <<kp, attempt>>
  BY DEF CreateBackup
<1>2. artifact = Nothing /\ attempt = Nothing
  BY <1>1 DEF BInv, Sealed
<1>3. PICK t \in Nat, n \in Nat : t = request.size[1] /\ n = request.size[2] /\ n < Prime
  BY <1>1 DEF BInv, BTypeOK, Requests, Shared
<1>4. CASE request' = [request EXCEPT !.status = "thrown"] /\ UNCHANGED artifact
  <2>1. request' \in Requests /\ request'.status = "thrown" /\ request'.size = request.size
    BY <1>1, <1>4 DEF BInv, BTypeOK, Requests
  <2>2. QED
    BY <1>1, <1>2, <1>3, <1>4, <2>1 DEF BInv, BTypeOK, Sealed, Shared, BindingsAgree,
       RestoreSound, RestoreComplete
<1>5. ASSUME 1 <= t, t <= n, NEW coefficients \in [0..Degree(t) -> Field],
             request' = Nothing,
             artifact' = [kind |-> kp.kind, keyId |-> kp.keyId, threshold |-> t,
                          label |-> "label",
                          payload |-> AesGcmEncrypt(coefficients[0], "label", ExportKey(kp)),
                          shares |-> [i \in FirstPid..(FirstPid + n - 1)
                                        |-> At(coefficients, i)]]
      PROVE  BInv'
  <2>1. /\ artifact'.kind = kp.kind /\ artifact'.keyId = kp.keyId
        /\ artifact'.label = "label" /\ artifact'.threshold = t
        /\ artifact'.payload.label = "label"
        /\ artifact'.payload.blob = ExportKey(kp)
        /\ artifact'.payload.key = coefficients[0]
    BY <1>5 DEF AesGcmEncrypt
  <2>2. artifact'.shares = [i \in 1..n |-> At(coefficients, i)]
    <3>1. FirstPid..(FirstPid + n - 1) = 1..n
      BY <1>3 DEF FirstPid
    <3>2. QED BY <1>5, <3>1
  <2>3. Dealt(n, coefficients)'
    BY <1>1, <1>3, <1>5, <2>1, <2>2 DEF Dealt
  <2>4. Shared'
    <3>1. n \in Field
      BY <1>3, PrimeFacts DEF Field
    <3>2. QED BY <1>3, <1>5, <2>1, <2>3, <3>1 DEF Shared, Degree
  <2>5. RestoreComplete'
    <3>1. DOMAIN artifact'.shares = 1..n /\ t \in 1..n
      BY <1>3, <1>5, <2>2
    <3>2. Cardinality(1..n) = n
      BY <1>3, FS_Interval
    <3>3. QED BY <1>1, <1>2, <2>1, <3>1, <3>2 DEF RestoreComplete
  <2>6. QED
    BY <1>1, <1>2, <1>5, <2>1, <2>4, <2>5 DEF BInv, BTypeOK, Sealed, BindingsAgree,
       RestoreSound, Labels, ExportKey
<1>6. QED BY <1>3, <1>4, <1>5 DEF CreateBackup

\* What opens is what was sealed.
LEMMA RestoredIsOwn ==
  ASSUME BInv, artifact # Nothing, NEW record, NEW key,
         Restored(record, key) # Nothing
  PROVE  Restored(record, key) = kp /\ record.label = artifact.label
<1> DEFINE blob == AesGcmDecrypt(key, record.label, artifact.payload)
<1>1. blob.magic
  BY DEF Restored
<1>2. blob = ExportKey(kp) /\ record.label = artifact.label
  BY <1>1 DEF AesGcmDecrypt, BInv, Sealed
<1>3. kp = [kind |-> kp.kind, keyId |-> kp.keyId]
  BY DEF BInv, BTypeOK
<1>4. Restored(record, key) = ImportKey(ExportKey(kp))
  BY <1>2 DEF Restored, ExportKey, Blob
<1>5. QED BY <1>2, <1>3, <1>4 DEF ImportKey, ExportKey, Blob

\* The key and the label open it.
LEMMA OwnIsRestored ==
  ASSUME BInv, artifact # Nothing, NEW record, record.label = artifact.label
  PROVE  Restored(record, artifact.payload.key) = kp
<1>1. AesGcmDecrypt(artifact.payload.key, record.label, artifact.payload) = ExportKey(kp)
  BY DEF AesGcmDecrypt, BInv, Sealed
<1>2. kp = [kind |-> kp.kind, keyId |-> kp.keyId]
  BY DEF BInv, BTypeOK
<1>3. QED BY <1>1, <1>2 DEF Restored, ImportKey, ExportKey, Blob

\* Shares of the backup, as many as its threshold or more, have its key.
LEMMA KeyIsOwn ==
  ASSUME BInv, artifact # Nothing, NEW brought \in SUBSET DOMAIN artifact.shares,
         Cardinality(brought) >= artifact.threshold
  PROVE  Keys(brought, Nothing) = {artifact.payload.key} /\ artifact.threshold >= 1
<1>1. PICK n \in Field : \E coefficients \in [0..(artifact.threshold - 1) -> Field] :
        Dealt(n, coefficients)
  BY DEF BInv, Shared
<1>2. PICK coefficients \in [0..(artifact.threshold - 1) -> Field] :
        Dealt(n, coefficients)
  BY <1>1
<1> DEFINE t == artifact.threshold
<1>3. /\ t \in 1..n /\ artifact.payload.key = coefficients[0]
      /\ artifact.shares = [i \in 1..n |-> At(coefficients, i)]
      /\ n \in Nat /\ n < Prime
  BY <1>2, FieldIndex DEF Dealt
<1>4. t - 1 \in Nat /\ (t - 1) + 1 = t /\ t >= 1
  BY <1>3
<1>5. coefficients \in Coefficients((t - 1) + 1)
  BY <1>4 DEF Coefficients
<1>6. brought \in SUBSET Field /\ \A i \in brought : artifact.shares[i] = At(coefficients, i)
  <2>1. brought \in SUBSET (1..n)
    BY <1>3
  <2>2. 1..n \subseteq Field
    BY <1>3, PrimeFacts DEF Field
  <2>3. QED BY <1>3, <2>1, <2>2
<1> HIDE DEF t
<1>7. Interpolate([i \in brought |-> At(coefficients, i)]) = coefficients[0]
  <2>1. Cardinality(brought) >= (t - 1) + 1
    BY <1>4 DEF t
  <2>2. QED BY <1>4, <1>5, <1>6, <2>1, InterpolateBack
<1>8. [i \in brought |-> artifact.shares[i]] = [i \in brought |-> At(coefficients, i)]
  BY <1>6
<1>9. Given(brought, Nothing) = {[i \in brought |-> At(coefficients, i)]}
  BY <1>8 DEF Given
<1>10. QED BY <1>3, <1>4, <1>7, <1>9 DEF Keys, t

\* Sets of shares have a size, and the threshold is one.
LEMMA ArtifactSize ==
  ASSUME BInv, artifact # Nothing
  PROVE  /\ artifact.threshold \in Nat /\ artifact.threshold >= 1
         /\ \A few \in SUBSET DOMAIN artifact.shares : Cardinality(few) \in Nat
<1>1. PICK n \in Field : \E coefficients \in [0..(artifact.threshold - 1) -> Field] :
        Dealt(n, coefficients)
  BY DEF BInv, Shared
<1>2. artifact.threshold \in 1..n /\ DOMAIN artifact.shares = 1..n /\ n \in Nat
  BY <1>1, FieldIndex DEF Dealt
<1>3. IsFiniteSet(1..n)
  BY <1>2, FS_Interval
<1>4. ASSUME NEW few \in SUBSET DOMAIN artifact.shares PROVE Cardinality(few) \in Nat
  <2>1. IsFiniteSet(few)
    BY <1>2, <1>3, FS_Subset
  <2>2. QED BY <2>1, FS_CardinalityType
<1>5. QED BY <1>2, <1>4

\* A restore is tried.
LEMMA RestoreInv ==
  ASSUME BInv, artifact # Nothing, NEW brought \in SUBSET DOMAIN artifact.shares, NEW stray,
         RestoreBackup(brought, stray)
  PROVE  BInv'
<1> DEFINE Enough(record) == /\ stray = Nothing /\ record.label = artifact.label
                             /\ Cardinality(brought) >= artifact.threshold
           Right(record, keypair) ==
             /\ keypair # Nothing => keypair = kp /\ record.label = artifact.label
             /\ Enough(record) => keypair = kp
<1>1. UNCHANGED <<kp, request, artifact>>
  BY DEF RestoreBackup
<1>2. \E record \in Records : \E keypair :
        Ends(brought, stray, record, keypair) /\ Right(record, keypair)
  <2> DEFINE count == Cardinality(brought) + (IF stray = Nothing THEN 0 ELSE 1)
  <2>1. CASE \E record \in Records :
               /\ count < record.threshold \/ record.threshold < 1 \/ ~Decodes(stray)
               /\ Ends(brought, stray, record, Nothing)
    <3>1. PICK record \in Records :
            /\ count < record.threshold \/ record.threshold < 1 \/ ~Decodes(stray)
            /\ Ends(brought, stray, record, Nothing)
      BY <2>1
    <3>2. ~Enough(record)
      <4> SUFFICES ASSUME Enough(record) PROVE FALSE
        OBVIOUS
      <4>1. artifact.threshold \in Nat /\ artifact.threshold >= 1
        BY ArtifactSize
      <4>2. record.threshold \in {1, artifact.threshold}
        BY DEF Records
      <4>3. Decodes(stray)
        BY DEF Decodes
      <4>4. Cardinality(brought) \in Nat
        BY ArtifactSize
      <4>5. count = Cardinality(brought)
        BY <4>4
      <4>6. QED BY <3>1, <4>1, <4>2, <4>3, <4>4, <4>5
    <3>3. QED BY <3>1, <3>2
  <2>2. CASE \E key \in Keys(brought, stray), record \in Records :
               Ends(brought, stray, record, Restored(record, key))
    <3>1. PICK key \in Keys(brought, stray), record \in Records :
            Ends(brought, stray, record, Restored(record, key))
      BY <2>2
    <3>2. Enough(record) => Restored(record, key) = kp
      BY KeyIsOwn, OwnIsRestored
    <3>3. Right(record, Restored(record, key))
      BY <3>2, RestoredIsOwn
    <3>4. QED BY <3>1, <3>3
  <2>3. QED BY <2>1, <2>2 DEF RestoreBackup
<1>3. PICK record \in Records : \E keypair :
        Ends(brought, stray, record, keypair) /\ Right(record, keypair)
  BY <1>2
<1>4. PICK keypair : Ends(brought, stray, record, keypair) /\ Right(record, keypair)
  BY <1>3
<1>5. record.label \in Labels
  BY DEF Records
<1>6. attempt'.record = record /\ attempt'.restored = keypair
      /\ attempt'.pure = (stray = Nothing) /\ attempt'.brought = brought
  BY <1>4 DEF Ends
<1>7. RestoreComplete'
  BY <1>1, <1>4, <1>6 DEF BInv, RestoreComplete
<1>8. Shared'
  BY <1>1 DEF BInv, Shared, Dealt
<1>9. QED
  BY <1>1, <1>4, <1>5, <1>6, <1>7, <1>8 DEF BInv, BTypeOK, BindingsAgree, Sealed,
     RestoreSound, ExportKey

-----------------------------------------------------------------------------
(* The theorems.                                                           *)

\* Every step keeps the invariant.
LEMMA BNextInv ==
  ASSUME BInv, [BNext]_backupVars
  PROVE  BInv'
<1>1. CASE UNCHANGED backupVars
  BY <1>1 DEF backupVars, BInv, BTypeOK, BindingsAgree, Sealed, Shared, Dealt, RestoreSound,
     RestoreComplete, ExportKey
<1>2. QED
  BY <1>1, BackupCreateInv, CreateBackupInv, RestoreInv DEF BNext

\* BInv is an invariant of every backup.
THEOREM BackupInvariant == BSpec => []BInv
BY BInitInv, BNextInv, PTL DEF BSpec

\* The type invariant holds for any field, options and number of shares.
THEOREM BackupTypeCorrect == BSpec => []BTypeOK
<1>1. BInv => BTypeOK
  BY DEF BInv
<1>2. QED BY <1>1, BackupInvariant, PTL

\* The React Native binding asks for the same backup wherever Node asks for one.
THEOREM BindingsCorrect == BSpec => []BindingsAgree
<1>1. BInv => BindingsAgree
  BY DEF BInv
<1>2. QED BY <1>1, BackupInvariant, PTL

\* A restored keypair is the one that was backed up.
THEOREM RestoreCorrect == BSpec => []RestoreSound
<1>1. BInv => RestoreSound
  BY DEF BInv
<1>2. QED BY <1>1, BackupInvariant, PTL

\* A backup that was made can be restored from any of its shares, as many as its
\* threshold or more: over any prime field, Lagrange's formula gives back the
\* secret of the polynomial that CreateBackup drew.
THEOREM RestoreCompleteCorrect == BSpec => []RestoreComplete
<1>1. BInv => RestoreComplete
  BY DEF BInv
<1>2. QED BY <1>1, BackupInvariant, PTL

\* Fewer shares than the threshold, however many that is and whichever they are,
\* leave every secret possible.
THEOREM FewSharesCorrect == BSpec => []FewSharesTellNothing
<1>1. BInv => FewSharesTellNothing
  <2> SUFFICES ASSUME BInv, artifact # Nothing,
                      NEW few \in SUBSET DOMAIN artifact.shares,
                      Cardinality(few) < artifact.threshold,
                      NEW secret \in Field
               PROVE  \E coefficients \in [0..(artifact.threshold - 1) -> Field] :
                        /\ coefficients[0] = secret
                        /\ \A i \in few : At(coefficients, i) = artifact.shares[i]
    BY DEF FewSharesTellNothing
  <2> DEFINE t == artifact.threshold
  <2>1. PICK n \in Field : \E coefficients \in [0..(t - 1) -> Field] : Dealt(n, coefficients)
    BY DEF BInv, Shared
  <2>2. PICK dealt \in [0..(t - 1) -> Field] : Dealt(n, dealt)
    BY <2>1
  <2>3. /\ t \in 1..n /\ n \in Nat /\ n < Prime
        /\ artifact.shares = [i \in 1..n |-> At(dealt, i)]
    BY <2>2, FieldIndex DEF Dealt
  <2>4. t - 1 \in Nat /\ (t - 1) + 1 = t /\ t \in Nat
    BY <2>3
  <2> DEFINE y == [x \in Field |-> At(dealt, x)]
  <2>5. y \in [Field -> Field]
    BY <2>4, AtType DEF Coefficients
  <2>6. few \in SUBSET (1..n)
    BY <2>3
  <2>7. /\ few \in SUBSET (Field \ {0})
        /\ \A i \in few : i \in Field /\ artifact.shares[i] = y[i]
    <3>1. 1..n \subseteq Field \ {0}
      BY <2>3, PrimeFacts DEF Field
    <3>2. QED BY <2>3, <2>6, <3>1
  <2>8. Cardinality(few) \in Nat
    BY ArtifactSize
  <2>9. Cardinality(few) <= t - 1
    BY <2>4, <2>8
  <2> HIDE DEF y, t
  <2>10. PICK c \in Coefficients((t - 1) + 1) :
           c[0] = secret /\ \A i \in few : At(c, i) = y[i]
    BY <2>4, <2>5, <2>7, <2>9, FewGoWithAny
  <2>11. c \in [0..(t - 1) -> Field]
    BY <2>4, <2>10 DEF Coefficients
  <2>12. QED BY <2>7, <2>10, <2>11 DEF t
<1>2. QED BY <1>1, BackupInvariant, PTL

=============================================================================

---------------------------- MODULE FiniteLemmas ----------------------------
(***************************************************************************)
(* Facts about finite sets of positions, and about division with           *)
(* remainder, that the proofs of several components use.                   *)
(***************************************************************************)
EXTENDS Integers, FiniteSets, FiniteSetTheorems, WellFoundedInduction, TLAPS

-----------------------------------------------------------------------------
(* Sets of positions                                                       *)

\* A non-empty set of positions has a largest element: the youngest writer of
\* a register, the last slot that is ready, ... exist.
LEMMA MaxExists ==
    ASSUME NEW n \in Int, NEW S \in SUBSET (1..n), S # {}
    PROVE  \E m \in S : \A x \in S : x <= m
<1> DEFINE Above(x) == {y \in S : y > x}
           T == {Above(x) : x \in S}
<1>1. IsFiniteSet(S)
    <2>1. IsFiniteSet(1..n)
        BY FS_Interval
    <2> QED BY <2>1, FS_Subset
<1>2. T \subseteq FiniteSubsetsOf(S) /\ T # {}
    <2>1. T \subseteq SUBSET S /\ T # {}
        OBVIOUS
    <2>2. FiniteSubsetsOf(S) = SUBSET S
        BY <1>1, FS_FiniteSubsetsOfFinite
    <2> QED BY <2>1, <2>2
<1>3. PICK t \in T : \A u \in T : <<u, t>> \notin StrictSubsetOrdering(S)
    <2> HIDE DEF T
    <2> QED BY <1>1, <1>2, FS_StrictSubsetOrderingWellFounded, WFMin
<1>4. PICK m \in S : t = Above(m)
    OBVIOUS
<1>5. ASSUME NEW x \in S, x > m
      PROVE  FALSE
    <2>0. x \in Int /\ m \in Int
        OBVIOUS
    <2>1. x \in Above(m) /\ x \notin Above(x)
        BY <1>5, <2>0
    <2>2. ASSUME NEW y \in Above(x)
          PROVE  y \in Above(m)
        <3>1. y \in S /\ y > x /\ y \in Int
            OBVIOUS
        <3> QED BY <3>1, <1>5, <2>0
    <2>3. <<Above(x), Above(m)>> \in StrictSubsetOrdering(S)
        BY <2>1, <2>2 DEF StrictSubsetOrdering
    <2> QED BY <2>3, <1>3, <1>4
<1>6. \A x \in S : x <= m
    BY <1>5
<1> QED BY <1>6

\* The image of a finite set under a function is finite and no larger: n
\* instructions own at most n registers.
LEMMA ImageBound ==
    ASSUME NEW S, IsFiniteSet(S), NEW f
    PROVE  /\ IsFiniteSet({f[x] : x \in S})
           /\ Cardinality({f[x] : x \in S}) <= Cardinality(S)
<1> DEFINE g == [x \in S |-> f[x]]
           T == {f[x] : x \in S}
<1>1. g \in Surjection(S, T)
    BY DEF Surjection
<1> HIDE DEF g
<1>2. IsFiniteSet(T) /\ Cardinality(T) <= Cardinality(S)
    BY <1>1, FS_Surjection
<1> QED BY <1>2

\* As many positions as the count says.
LEMMA CountUpTo ==
    ASSUME NEW r \in Nat
    PROVE  IsFiniteSet(0..(r - 1)) /\ Cardinality(0..(r - 1)) = r
<1>1. 0 \in Int /\ r - 1 \in Int
    OBVIOUS
<1>2. /\ IsFiniteSet(0..(r - 1))
      /\ Cardinality(0..(r - 1)) = IF 0 > r - 1 THEN 0 ELSE (r - 1) - 0 + 1
    BY <1>1, FS_Interval
<1> QED BY <1>2

\* A loop that stops at the first way it cannot serve has served a prefix of
\* the ways, and their number is where it stopped.
LEMMA PrefixOfWays ==
    ASSUME NEW n \in Nat, NEW S \in SUBSET (0..(n - 1)),
           \A i \in S : \A j \in 0..i : j \in S
    PROVE  \E r \in 0..n : S = 0..(r - 1) /\ Cardinality(S) = r
<1>1. CASE S = {}
    <2>1. S = 0..(0 - 1) /\ 0 \in 0..n
        BY <1>1
    <2>2. Cardinality(S) = 0
        BY <1>1, FS_EmptySet
    <2> QED BY <2>1, <2>2
<1>2. CASE S # {}
    <2> DEFINE T == {i + 1 : i \in S}
    <2>0. \A i \in S : i \in Int /\ i >= 0 /\ i + 1 \in 1..n
        OBVIOUS
    <2>1. T \in SUBSET (1..n) /\ T # {} /\ n \in Int
        <3>1. \A x \in T : x \in 1..n
            BY <2>0
        <3>2. T # {}
            BY <1>2
        <3> HIDE DEF T
        <3> QED BY <3>1, <3>2
    <2>2. PICK r \in T : \A x \in T : x <= r
        BY <2>1, MaxExists
    <2>3. r \in 1..n /\ r - 1 \in S
        BY <2>1, <2>2
    <2>4. S \subseteq 0..(r - 1)
        BY <2>0, <2>2, <2>3
    <2>5. S = 0..(r - 1)
        BY <2>3, <2>4
    <2>6. Cardinality(S) = r
        BY <2>3, <2>5, CountUpTo
    <2> QED BY <2>3, <2>5, <2>6
<1> QED BY <1>1, <1>2

\* A one-to-one image is as large as what it is the image of.
LEMMA ImageExact ==
    ASSUME NEW S, IsFiniteSet(S), NEW f,
           \A x, y \in S : f[x] = f[y] => x = y
    PROVE  /\ IsFiniteSet({f[x] : x \in S})
           /\ Cardinality({f[x] : x \in S}) = Cardinality(S)
<1> DEFINE g == [x \in S |-> f[x]]
           T == {f[x] : x \in S}
<1>1. g \in Surjection(S, T) /\ g \in Injection(S, T)
    BY DEF Surjection, Injection, IsInjective
<1> HIDE DEF g
<1>2. IsFiniteSet(T) /\ Cardinality(T) = Cardinality(S)
    BY <1>1, FS_Surjection
<1> QED BY <1>2

\* And a smallest one: the first way that is predicted taken, that has no
\* instruction, ...
LEMMA MinExists ==
    ASSUME NEW n \in Nat, NEW S \in SUBSET (0..(n - 1)), S # {}
    PROVE  \E m \in S : \A x \in S : m <= x
<1> DEFINE T == {n - x : x \in S}
<1>1. \A x \in S : x \in Int /\ n - x \in 1..n
    OBVIOUS
<1>2. T \in SUBSET (1..n) /\ T # {} /\ n \in Int
    <2>1. \A y \in T : y \in 1..n
        BY <1>1
    <2>2. T # {}
        OBVIOUS
    <2> HIDE DEF T
    <2> QED BY <2>1, <2>2
<1>3. PICK y \in T : \A z \in T : z <= y
    BY <1>2, MaxExists
<1>4. PICK m \in S : y = n - m
    BY <1>3
<1>5. \A x \in S : n - x <= n - m
    BY <1>3, <1>4
<1>6. \A x \in S : m <= x
    BY <1>1, <1>5
<1> QED BY <1>6

\* A set of at most one element: the instruction a unit works on.
LEMMA AtMostOne ==
    ASSUME NEW S, IsFiniteSet(S)
    PROVE  Cardinality(S) <= 1 <=> \A x, y \in S : x = y
<1>1. ASSUME Cardinality(S) <= 1, NEW x \in S, NEW y \in S
      PROVE  x = y
    <2>1. Cardinality(S) \in Nat /\ Cardinality(S) # 0
        BY FS_CardinalityType, FS_EmptySet
    <2>2. Cardinality(S) = 1
        BY <1>1, <2>1
    <2>3. \E z : S = {z}
        BY <2>2, FS_Singleton
    <2> QED BY <2>3
<1>2. ASSUME \A x, y \in S : x = y
      PROVE  Cardinality(S) <= 1
    <2>1. CASE S = {}
        BY <2>1, FS_EmptySet
    <2>2. CASE S # {}
        <3>1. PICK z \in S : S = {z}
            BY <1>2, <2>2
        <3>2. Cardinality({z}) = 1
            BY FS_Singleton
        <3>3. Cardinality(S) = 1
            BY <3>1, <3>2
        <3> QED BY <3>3
    <2> QED BY <2>1, <2>2
<1> QED BY <1>1, <1>2

-----------------------------------------------------------------------------
(* Division with remainder: the address arithmetic wraps, a line of the    *)
(* branch target buffer keeps only part of the PC, and a selector turns    *)
(* its vector.                                                             *)

LEMMA DivMod ==
    ASSUME NEW a \in Int, NEW n \in Nat \ {0}
    PROVE  a % n \in 0..(n - 1) /\ a \div n \in Int /\ a = n * (a \div n) + (a % n)
OBVIOUS

LEMMA AtLeastOnce ==
    ASSUME NEW n \in Nat \ {0}, NEW d \in Int, d > 0
    PROVE  n * d >= n /\ n * d >= d
OBVIOUS

\* There is one quotient and one remainder.
LEMMA QuotientUnique ==
    ASSUME NEW n \in Nat \ {0}, NEW p \in Int, NEW q \in Int,
           NEW r \in 0..(n - 1), NEW t \in 0..(n - 1), n * p + r = n * q + t
    PROVE  p = q
<1>1. n * (p - q) = n * p - n * q /\ n * (q - p) = n * q - n * p
    OBVIOUS
<1>2. CASE p > q
    <2>1. n * (p - q) >= n
        BY <1>2, AtLeastOnce
    <2> QED BY <1>1, <2>1
<1>3. CASE q > p
    <2>1. n * (q - p) >= n
        BY <1>3, AtLeastOnce
    <2> QED BY <1>1, <2>1
<1> QED BY <1>2, <1>3

LEMMA ModUnique ==
    ASSUME NEW n \in Nat \ {0}, NEW q \in Int, NEW r \in 0..(n - 1)
    PROVE  (n * q + r) % n = r
<1>1. n * q + r \in Int
    OBVIOUS
<1> DEFINE a == n * q + r
<1>2. a % n \in 0..(n - 1) /\ a \div n \in Int /\ a = n * (a \div n) + (a % n)
    BY <1>1, DivMod
<1>3. n * q + r = n * (a \div n) + (a % n)
    BY <1>2
<1> HIDE DEF a
<1>4. q = a \div n
    BY <1>2, <1>3, QuotientUnique
<1> QED BY <1>2, <1>3, <1>4 DEF a

LEMMA ModAdd ==
    ASSUME NEW a \in Int, NEW n \in Nat \ {0}, NEW b \in Int
    PROVE  ((a % n) + b) % n = (a + b) % n
<1> DEFINE q == a \div n
           s == (a % n) + b
           p == s \div n
           t == s % n
<1>1. q \in Int /\ a % n \in Int /\ a = n * q + (a % n)
    BY DivMod
<1>2. s \in Int
    BY <1>1
<1>3. p \in Int /\ t \in 0..(n - 1) /\ s = n * p + t
    BY <1>2, DivMod
<1>4. q + p \in Int /\ n * (q + p) = n * q + n * p
    BY <1>1, <1>3
<1>5. a + b = n * q + s
    BY <1>1
<1> HIDE DEF q, p, t, s
<1>6. a + b = n * (q + p) + t
    BY <1>1, <1>3, <1>4, <1>5
<1>7. (n * (q + p) + t) % n = t
    BY <1>3, <1>4, ModUnique
<1> QED BY <1>6, <1>7 DEF t, s
=============================================================================

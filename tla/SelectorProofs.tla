--------------------------- MODULE SelectorProofs ---------------------------
(***************************************************************************)
(* The contract of the priority selector (GrantContract), for every number *)
(* of requests granted, every width and every turn of the vector.          *)
(*                                                                         *)
(* The lines are defined one from the other.  What they are is said at     *)
(* once with the rank of a request: how many requests are higher than it.  *)
(* Of n requests, the one of rank r is granted by even line 2r, counting   *)
(* from above, or by odd line 2(n - 1 - r) + 1, counting from below,       *)
(* whichever comes first; the other line, at n or beyond, is masked.       *)
(***************************************************************************)
EXTENDS PrioritySelector, FiniteLemmas

USE SelectorAssumption

-----------------------------------------------------------------------------
(* Turning the vector                                                      *)

\* The counter and the requests are inside the vector.
TypeOK == cnt \in Positions /\ req \in SUBSET Positions

\* They stay inside: the counter wraps, and only places of the vector ask.
LEMMA TypeInvariant == Spec => []TypeOK
<1>1. Init => TypeOK
    BY DEF Init, TypeOK, Positions
<1>2. TypeOK /\ [Next]_vars => TypeOK'
    <2>1. ASSUME TypeOK, NEW new \in SUBSET Positions, Clock(new)
          PROVE  TypeOK'
        <3>1. cnt' \in Positions
            BY <2>1 DEF TypeOK, Clock, Turn, Positions
        <3>2. req' \in SUBSET Positions
            BY <2>1 DEF TypeOK, Clock
        <3> QED BY <3>1, <3>2 DEF TypeOK, Positions
    <2>2. ASSUME TypeOK, UNCHANGED vars
          PROVE  TypeOK'
        BY <2>2 DEF TypeOK, vars
    <2> QED BY <2>1, <2>2 DEF Next
<1> QED BY <1>1, <1>2, PTL DEF Spec

\* What a turn to the left does is undone by the turn to the right.
LEMMA TurnedBack ==
    ASSUME TypeOK, NEW i \in Positions
    PROVE  /\ (i + cnt) % WIDTH \in Positions
           /\ (((i + cnt) % WIDTH) + WIDTH - cnt) % WIDTH = i
<1>0. WIDTH \in Nat \ {0} /\ i \in Int /\ cnt \in Int /\ i + cnt \in Int
    BY DEF TypeOK, Positions
<1>1. (i + cnt) % WIDTH \in 0..(WIDTH - 1)
    BY <1>0, DivMod
<1> DEFINE m == (i + cnt) % WIDTH
<1>2. ((m + (WIDTH - cnt)) % WIDTH) = ((i + cnt) + (WIDTH - cnt)) % WIDTH
    <2>1. WIDTH - cnt \in Int
        BY <1>0
    <2> QED BY <1>0, <2>1, ModAdd
<1>3. (WIDTH * 1 + i) % WIDTH = i
    BY <1>0, ModUnique DEF Positions
<1>4. (i + cnt) + (WIDTH - cnt) = WIDTH * 1 + i
    BY <1>0
<1>5. m + WIDTH - cnt = m + (WIDTH - cnt)
    BY <1>0, <1>1
<1> QED BY <1>1, <1>2, <1>3, <1>4, <1>5 DEF Positions

\* The turned vector has as many requests, and the request at place p of it is
\* found again.
LEMMA Turned ==
    ASSUME TypeOK
    PROVE  /\ IsFiniteSet(Left(req)) /\ Left(req) \subseteq Positions
           /\ Cardinality(Left(req)) = Cardinality(req)
           /\ \A p \in Left(req) : (p + WIDTH - cnt) % WIDTH \in req
           /\ \A p, q \in Left(req) :
                (p + WIDTH - cnt) % WIDTH = (q + WIDTH - cnt) % WIDTH => p = q
<1>0. req \subseteq Positions
    BY DEF TypeOK
<1>1. IsFiniteSet(req)
    <2>1. IsFiniteSet(Positions)
        BY FS_Interval DEF Positions
    <2> QED BY <1>0, <2>1, FS_Subset
<1> DEFINE turn == [i \in Positions |-> (i + cnt) % WIDTH]
<1>2. Left(req) = {turn[i] : i \in req}
    BY <1>0 DEF Left
<1>3. \A i \in Positions : turn[i] \in Positions
    BY TurnedBack
<1>4. \A i \in Positions : (turn[i] + WIDTH - cnt) % WIDTH = i
    BY TurnedBack
<1> HIDE DEF turn
<1>5. \A x, y \in req : turn[x] = turn[y] => x = y
    <2>1. ASSUME NEW x \in req, NEW y \in req, turn[x] = turn[y]
          PROVE  x = y
        <3>1. x = (turn[x] + WIDTH - cnt) % WIDTH /\ y = (turn[y] + WIDTH - cnt) % WIDTH
            BY <1>0, <1>4
        <3> QED BY Zenon, <2>1, <3>1
    <2> QED BY <2>1
<1>6. IsFiniteSet(Left(req)) /\ Cardinality(Left(req)) = Cardinality(req)
    BY <1>1, <1>2, <1>5, ImageExact
<1>7. \A p \in Left(req) : \E i \in req : p = turn[i] /\ (p + WIDTH - cnt) % WIDTH = i
    BY Zenon, <1>0, <1>2, <1>4
<1>8. \A p \in Left(req) : (p + WIDTH - cnt) % WIDTH \in req
    BY Zenon, <1>7
<1>9. \A p, q \in Left(req) :
        (p + WIDTH - cnt) % WIDTH = (q + WIDTH - cnt) % WIDTH => p = q
    BY Zenon, <1>7
<1>10. Left(req) \subseteq Positions
    BY Zenon, <1>0, <1>2, <1>3
<1> QED BY <1>6, <1>8, <1>9, <1>10

-----------------------------------------------------------------------------
(* Ranks                                                                   *)

\* r ranks the n elements of v: none is higher than the one of rank 0.
Ranks(v, n, r) ==
    /\ \A x \in v : x \in Int /\ r[x] \in 0..(n - 1)
    /\ \A x, y \in v : x < y <=> r[y] < r[x]
    /\ \A m \in 0..(n - 1) : \E x \in v : r[x] = m

\* The number of higher requests is such a ranking.
LEMMA RankExists ==
    ASSUME NEW v \in SUBSET Positions, IsFiniteSet(v)
    PROVE  \E r : Ranks(v, Cardinality(v), r)
<1> DEFINE n == Cardinality(v)
           Above(x) == {y \in v : x < y}
           r == [x \in v |-> Cardinality(Above(x))]
<1>0. n \in Nat /\ \A x \in v : x \in Int
    BY FS_CardinalityType DEF Positions
<1>1. ASSUME NEW x \in v
      PROVE  IsFiniteSet(Above(x)) /\ Cardinality(Above(x)) \in 0..(n - 1)
    <2>1. Above(x) \subseteq v /\ x \notin Above(x)
        BY <1>0
    <2>2. IsFiniteSet(Above(x)) /\ Cardinality(Above(x)) <= n /\ Cardinality(Above(x)) # n
        BY <2>1, FS_Subset
    <2>3. Cardinality(Above(x)) \in Nat
        BY <2>2, FS_CardinalityType
    <2> QED BY <1>0, <2>2, <2>3
<1>2. ASSUME NEW x \in v, NEW y \in v, x < y
      PROVE  Cardinality(Above(y)) < Cardinality(Above(x))
    <2>1. Above(y) \subseteq Above(x) /\ y \in Above(x) /\ y \notin Above(y)
        BY <1>0, <1>2
    <2>2. IsFiniteSet(Above(x))
        BY <1>1
    <2>3. Cardinality(Above(y)) <= Cardinality(Above(x))
          /\ Cardinality(Above(x)) # Cardinality(Above(y))
        <3> HIDE DEF Above
        <3> QED BY <2>1, <2>2, FS_Subset
    <2>4. Cardinality(Above(x)) \in 0..(n - 1) /\ Cardinality(Above(y)) \in 0..(n - 1)
        BY <1>1
    <2> HIDE DEF Above, n
    <2>5. Cardinality(Above(x)) \in Int /\ Cardinality(Above(y)) \in Int
        BY <1>0, <2>4
    <2> QED BY <2>3, <2>4, <2>5
<1>3. \A x \in v : r[x] = Cardinality(Above(x))
    OBVIOUS
<1> HIDE DEF r, Above
<1>4. \A x \in v : x \in Int /\ r[x] \in 0..(n - 1)
    BY <1>0, <1>1, <1>3
<1>5. \A x, y \in v : x < y <=> r[y] < r[x]
    <2>1. ASSUME NEW x \in v, NEW y \in v
          PROVE  x < y <=> r[y] < r[x]
        <3>1. x < y => r[y] < r[x]
            BY <1>2, <1>3
        <3>2. y < x => r[x] < r[y]
            BY <1>2, <1>3
        <3>3. x \in Int /\ y \in Int /\ r[x] \in Int /\ r[y] \in Int
            BY <1>0, <1>4
        <3> QED BY <3>1, <3>2, <3>3
    <2> QED BY <2>1
<1>6. \A m \in 0..(n - 1) : \E x \in v : r[x] = m
    <2> DEFINE T == {r[x] : x \in v}
    <2>1. \A x, y \in v : r[x] = r[y] => x = y
        BY <1>0, <1>4, <1>5
    <2>2. Cardinality(T) = n
        BY <2>1, ImageExact
    <2>3. IsFiniteSet(0..(n - 1)) /\ Cardinality(0..(n - 1)) = n
        BY <1>0, CountUpTo
    <2>4. T \in SUBSET (0..(n - 1))
        BY <1>4
    <2>5. T = 0..(n - 1)
        <3> HIDE DEF T, n
        <3> QED BY <2>2, <2>3, <2>4, FS_Subset
    <2> QED BY <2>5
<1> QED BY <1>4, <1>5, <1>6 DEF Ranks

-----------------------------------------------------------------------------
(* The lines                                                               *)

\* The line of the parity of j that chooses x, of n requests with ranks r.
Line(n, r, x, j) == IF j % 2 = 0 THEN 2 * r[x] ELSE 2 * (n - 1 - r[x]) + 1
Choice(v, n, r, j) == {x \in v : Line(n, r, x, j) = j}
LeftOver(v, n, r, j) == {x \in v : Line(n, r, x, j) > j}

\* Every other line starts with what the line two before has left over, or with
\* all; what it chooses is the one whose turn it is.
LEMMA LineChooses ==
    ASSUME NEW v, NEW n \in Nat, NEW r, Ranks(v, n, r), NEW j \in Nat, NEW s,
           s = IF j < 2 THEN v ELSE LeftOver(v, n, r, j - 2)
    PROVE  /\ psel(j, s) = Choice(v, n, r, j)
           /\ s \ Choice(v, n, r, j) = LeftOver(v, n, r, j)
<1>0. /\ \A x \in v : x \in Int /\ r[x] \in Int /\ 0 <= r[x] /\ r[x] <= n - 1
      /\ \A x, y \in v : x < y <=> r[y] < r[x]
    BY DEF Ranks
<1>1. CASE j % 2 = 0
    <2>1. s = {x \in v : 2 * r[x] >= j}
        <3>1. CASE j < 2
            BY <1>0, <1>1, <3>1
        <3>2. CASE ~(j < 2)
            <4>1. (j - 2) % 2 = 0
                BY <1>1, <3>2
            <4>2. s = {x \in v : 2 * r[x] > j - 2}
                BY <3>2, <4>1 DEF LeftOver, Line
            <4> QED BY <1>0, <1>1, <4>2
        <3> QED BY <3>1, <3>2
    <2>2. Choice(v, n, r, j) = {x \in v : 2 * r[x] = j}
        BY <1>1 DEF Choice, Line
    <2>3. LeftOver(v, n, r, j) = {x \in v : 2 * r[x] > j}
        BY <1>1 DEF LeftOver, Line
    <2>4. wand_sel(s) = {x \in v : 2 * r[x] = j}
        <3>1. ASSUME NEW x \in v, 2 * r[x] = j
              PROVE  x \in wand_sel(s)
            BY <1>0, <2>1, <3>1 DEF wand_sel
        <3>2. ASSUME NEW x \in wand_sel(s)
              PROVE  x \in v /\ 2 * r[x] = j
            <4>1. x \in v /\ 2 * r[x] >= j /\ \A y \in s : y <= x
                BY <2>1 DEF wand_sel
            <4>2. PICK m \in Int : j = 2 * m /\ m >= 0
                BY <1>1
            <4>3. m \in 0..(n - 1)
                BY <1>0, <4>1, <4>2
            <4>4. PICK y \in v : r[y] = m
                BY <4>3 DEF Ranks
            <4>5. y \in s /\ y <= x
                BY <2>1, <4>1, <4>2, <4>4
            <4>6. r[x] <= r[y]
                BY <1>0, <4>1, <4>5
            <4> QED BY <1>0, <4>1, <4>2, <4>4, <4>6
        <3> QED BY <3>1, <3>2
    <2>5. s \ {x \in v : 2 * r[x] = j} = {x \in v : 2 * r[x] > j}
        BY <1>0, <2>1
    <2> QED BY <1>1, <2>2, <2>3, <2>4, <2>5 DEF psel
<1>2. CASE j % 2 # 0
    <2> DEFINE d == [x \in v |-> n - 1 - r[x]]
    <2>0. \A x \in v : d[x] = n - 1 - r[x] /\ d[x] \in Int /\ 0 <= d[x] /\ d[x] <= n - 1
        BY <1>0
    <2>a. \A x, y \in v : x < y <=> d[x] < d[y]
        BY <1>0, <2>0
    <2> HIDE DEF d
    <2>1. s = {x \in v : 2 * d[x] + 1 >= j}
        <3>1. CASE j < 2
            BY <2>0, <1>2, <3>1
        <3>2. CASE ~(j < 2)
            <4>1. (j - 2) % 2 # 0
                BY <1>2, <3>2
            <4>2. s = {x \in v : 2 * d[x] + 1 > j - 2}
                BY <2>0, <3>2, <4>1 DEF LeftOver, Line
            <4> QED BY <2>0, <1>2, <4>2
        <3> QED BY <3>1, <3>2
    <2>2. Choice(v, n, r, j) = {x \in v : 2 * d[x] + 1 = j}
        BY <1>2, <2>0 DEF Choice, Line
    <2>3. LeftOver(v, n, r, j) = {x \in v : 2 * d[x] + 1 > j}
        BY <1>2, <2>0 DEF LeftOver, Line
    <2>4. Lowest(s) = {x \in v : 2 * d[x] + 1 = j}
        <3>1. ASSUME NEW x \in v, 2 * d[x] + 1 = j
              PROVE  x \in Lowest(s)
            <4>1. x \in s
                BY <2>0, <2>1, <3>1
            <4>2. ASSUME NEW y \in s PROVE x <= y
                <5>1. y \in v /\ d[x] <= d[y]
                    BY <2>0, <2>1, <3>1
                <5> QED BY <1>0, <2>0, <2>a, <5>1
            <4> QED BY <4>1, <4>2 DEF Lowest
        <3>2. ASSUME NEW x \in Lowest(s)
              PROVE  x \in v /\ 2 * d[x] + 1 = j
            <4>1. x \in v /\ 2 * d[x] + 1 >= j /\ \A y \in s : x <= y
                BY <2>1 DEF Lowest
            <4>2. PICK m \in Int : j = 2 * m + 1 /\ m >= 0
                BY <1>2
            <4>3. n - 1 - m \in 0..(n - 1)
                BY <2>0, <4>1, <4>2
            <4>4. PICK y \in v : r[y] = n - 1 - m
                BY <4>3 DEF Ranks
            <4>5. d[y] = m
                BY <2>0, <4>2, <4>4
            <4>6. y \in s /\ x <= y
                BY <2>1, <4>1, <4>2, <4>5
            <4>7. d[x] <= d[y]
                BY <1>0, <2>0, <2>a, <4>1, <4>6
            <4> QED BY <2>0, <4>1, <4>2, <4>5, <4>7
        <3> QED BY <3>1, <3>2
    <2>5. s \ {x \in v : 2 * d[x] + 1 = j} = {x \in v : 2 * d[x] + 1 > j}
        BY <2>0, <2>1
    <2> QED BY <1>2, <2>2, <2>3, <2>4, <2>5 DEF psel
<1> QED BY <1>1, <1>2

\* What the lines choose from, and what the masks leave of their grants.
Asked(f, j) == IF j < 2 THEN Left(req) ELSE f[j - 2] \ psel(j - 2, f[j - 2])
LineStates(f) == f = [j \in Lines |-> Asked(f, j)]
Masked(gnts, b, j) == gnts[j] \ UNION {b[i] : i \in {i \in 0..(j - 1) : i % 2 # j % 2}}
BusStates(gnts, b) == b = [j \in Lines |-> Masked(gnts, b, j)]

\* What the interval of the lines contains.
LEMMA LinesAre ==
    /\ REQS \in Nat
    /\ \A j \in Lines : j \in Nat /\ j < REQS
    /\ \A j \in Lines : j >= 2 => j - 2 \in Lines
    /\ \A j \in Lines : \A i \in 0..(j - 1) : i \in Lines
BY DEF Lines

\* There is only one way for the lines to choose, ...
LEMMA LinesResult ==
    ASSUME NEW f, LineStates(f)
    PROVE  tmp_gnts = [j \in Lines |-> psel(j, f[j])]
<1>1. PICK g : g = CHOOSE s : LineStates(s)
    OBVIOUS
<1>2. LineStates(g)
    BY <1>1
<1>3. tmp_gnts = [j \in Lines |-> psel(j, g[j])]
    <2> DEFINE c == CHOOSE s : LineStates(s)
    <2>1. tmp_gnts = [j \in Lines |-> psel(j, c[j])]
        BY Zenon DEF tmp_gnts, LineStates, Asked
    <2>2. c = g
        BY <1>1
    <2> HIDE DEF c
    <2> QED BY <2>1, <2>2
<1>4. /\ \A j \in Lines : f[j] = Asked(f, j)
      /\ \A j \in Lines : g[j] = Asked(g, j)
    BY <1>2, Zenon DEF LineStates
<1> DEFINE S == {j \in Lines : f[j] # g[j]}
<1>5. CASE S # {}
    <2>1. S \in SUBSET (0..(REQS - 1))
        BY DEF Lines
    <2>2. PICK j \in S : \A x \in S : j <= x
        BY <1>5, <2>1, LinesAre, MinExists
    <2>3. j \in Lines /\ j \in Nat
        BY LinesAre
    <2>4. Asked(f, j) = Asked(g, j)
        <3>1. CASE j < 2
            BY <3>1 DEF Asked
        <3>2. CASE ~(j < 2)
            <4>1. j - 2 \in Lines /\ ~(j <= j - 2)
                BY <2>3, <3>2, LinesAre
            <4>2. f[j - 2] = g[j - 2]
                BY <2>2, <4>1
            <4> QED BY Zenon, <4>2 DEF Asked
        <3> QED BY <3>1, <3>2
    <2> QED BY Zenon, <1>4, <2>3, <2>4
<1>6. CASE S = {}
    <2>1. \A j \in Lines : f[j] = g[j]
        BY <1>6
    <2> QED BY Zenon, <1>3, <2>1
<1> QED BY <1>5, <1>6

\* ... and one way for the masks to come out.
LEMMA BusResult ==
    ASSUME NEW b, BusStates(tmp_gnts, b)
    PROVE  bus_tmp = b
<1>1. PICK c : c = CHOOSE s : BusStates(tmp_gnts, s)
    OBVIOUS
<1>2. BusStates(tmp_gnts, c)
    BY <1>1
<1>3. bus_tmp = c
    BY Zenon, <1>1 DEF bus_tmp, BusStates, Masked
<1>4. /\ \A j \in Lines : b[j] = Masked(tmp_gnts, b, j)
      /\ \A j \in Lines : c[j] = Masked(tmp_gnts, c, j)
      /\ b = [j \in Lines |-> b[j]] /\ c = [j \in Lines |-> c[j]]
    <2>1. /\ \A j \in Lines : b[j] = Masked(tmp_gnts, b, j)
          /\ \A j \in Lines : c[j] = Masked(tmp_gnts, c, j)
        BY <1>2, Zenon DEF BusStates
    <2>2. b = [j \in Lines |-> b[j]]
        BY Zenon DEF BusStates
    <2>3. c = [j \in Lines |-> c[j]]
        BY Zenon, <1>2 DEF BusStates
    <2> QED BY <2>1, <2>2, <2>3
<1> DEFINE S == {j \in Lines : b[j] # c[j]}
<1>5. CASE S # {}
    <2>1. S \in SUBSET (0..(REQS - 1))
        BY DEF Lines
    <2>2. PICK j \in S : \A x \in S : j <= x
        BY <1>5, <2>1, LinesAre, MinExists
    <2>3. j \in Lines /\ j \in Nat
        BY LinesAre
    <2> DEFINE I == {i \in 0..(j - 1) : i % 2 # j % 2}
    <2>4. ASSUME NEW i \in I
          PROVE  b[i] = c[i]
        <3>1. i \in Lines /\ ~(j <= i)
            BY <2>3, LinesAre
        <3> QED BY <2>2, <3>1
    <2>5. {b[i] : i \in I} = {c[i] : i \in I}
        <3> HIDE DEF I
        <3> QED BY <2>4
    <2>6. Masked(tmp_gnts, b, j) = Masked(tmp_gnts, c, j)
        BY Zenon, <2>5 DEF Masked
    <2> QED BY Zenon, <1>4, <2>3, <2>6
<1>6. CASE S = {}
    <2>1. \A j \in Lines : b[j] = c[j]
        BY <1>6
    <2>2. b = c
        BY Zenon, <1>4, <2>1
    <2> QED BY <1>3, <2>2
<1> QED BY <1>5, <1>6

-----------------------------------------------------------------------------
(* The grants                                                              *)

\* Line j grants the request whose turn it is, as long as there are requests.
LEMMA LinesGrant ==
    ASSUME NEW n \in Nat, NEW r, Ranks(Left(req), n, r)
    PROVE  tmp_gnts = [j \in Lines |-> Choice(Left(req), n, r, j)]
<1> DEFINE v == Left(req)
           f == [j \in Lines |-> IF j < 2 THEN v ELSE LeftOver(v, n, r, j - 2)]
<1>1. ASSUME NEW j \in Lines
      PROVE  f[j] = Asked(f, j) /\ psel(j, f[j]) = Choice(v, n, r, j)
    <2>0. j \in Nat
        BY LinesAre
    <2>1. psel(j, f[j]) = Choice(v, n, r, j)
        BY <2>0, LineChooses
    <2>2. CASE j < 2
        BY <2>1, <2>2 DEF Asked
    <2>3. CASE ~(j < 2)
        <3>1. j - 2 \in Lines /\ j - 2 \in Nat
            BY <2>0, <2>3, LinesAre
        <3>2. PICK k : k = j - 2
            OBVIOUS
        <3>3. f[k] = IF k < 2 THEN v ELSE LeftOver(v, n, r, k - 2)
            BY <3>1, <3>2
        <3>4. psel(k, f[k]) = Choice(v, n, r, k) /\ f[k] \ Choice(v, n, r, k) = LeftOver(v, n, r, k)
            <4> HIDE DEF f, v
            <4> QED BY <3>1, <3>2, <3>3, LineChooses DEF v
        <3>5. f[j] = LeftOver(v, n, r, k)
            BY <2>3, <3>2
        <3> HIDE DEF f
        <3>6. Asked(f, j) = f[k] \ psel(k, f[k])
            BY <2>3, <3>2 DEF Asked
        <3> QED BY Zenon, <2>1, <3>4, <3>5, <3>6
    <2> QED BY <2>2, <2>3
<1>2. f = [j \in Lines |-> f[j]]
    OBVIOUS
<1> HIDE DEF f
<1>3. LineStates(f)
    BY Zenon, <1>1, <1>2 DEF LineStates
<1>4. tmp_gnts = [j \in Lines |-> psel(j, f[j])]
    BY <1>3, LinesResult
<1> QED BY Zenon, <1>1, <1>4

\* The first n lines keep what they grant and the others keep nothing: all of
\* it has been granted on a line of the other parity.
LEMMA BusGrants ==
    ASSUME NEW v, NEW n \in Nat, NEW r, Ranks(v, n, r),
           tmp_gnts = [j \in Lines |-> Choice(v, n, r, j)]
    PROVE  bus_tmp = [j \in Lines |-> IF j < n THEN Choice(v, n, r, j) ELSE {}]
<1> DEFINE b == [j \in Lines |-> IF j < n THEN Choice(v, n, r, j) ELSE {}]
<1>0. \A x \in v : r[x] \in Int /\ 0 <= r[x] /\ r[x] <= n - 1
    BY DEF Ranks
<1>1. ASSUME NEW j \in Lines
      PROVE  b[j] = Masked(tmp_gnts, b, j)
    <2> DEFINE I == {i \in 0..(j - 1) : i % 2 # j % 2}
    <2>0. j \in Nat /\ \A i \in I : i \in Nat /\ i < j /\ i % 2 # j % 2 /\ i \in Lines
        BY LinesAre
    <2>1. tmp_gnts[j] = Choice(v, n, r, j)
        BY Zenon
    <2>2. CASE j < n
        <3>1. ASSUME NEW i \in I, NEW x \in b[i], x \in Choice(v, n, r, j)
              PROVE  FALSE
            <4>1. i < n /\ x \in Choice(v, n, r, i)
                BY <2>0, <2>2, <3>1
            <4>2. x \in v /\ Line(n, r, x, i) = i /\ Line(n, r, x, j) = j
                BY <3>1, <4>1 DEF Choice
            <4> QED BY <1>0, <2>0, <2>2, <4>2 DEF Line
        <3>2. Masked(tmp_gnts, b, j) = Choice(v, n, r, j)
            <4> HIDE DEF b
            <4> QED BY <2>1, <3>1 DEF Masked
        <3> QED BY <2>2, <3>2
    <2>3. CASE ~(j < n)
        <3>1. ASSUME NEW x \in Choice(v, n, r, j)
              PROVE  \E i \in I : x \in b[i]
            <4>1. x \in v /\ Line(n, r, x, j) = j
                BY DEF Choice
            <4> DEFINE i == 2 * n - 1 - j
            <4>2. i \in Int /\ 0 <= i /\ i < n /\ i < j /\ i % 2 # j % 2
                BY <1>0, <2>0, <2>3, <4>1 DEF Line
            <4>3. i \in I /\ i \in Lines
                BY <2>0, <4>2
            <4>4. Line(n, r, x, i) = i
                BY <1>0, <2>0, <4>1, <4>2 DEF Line
            <4>5. x \in b[i]
                BY <4>1, <4>2, <4>3, <4>4 DEF Choice
            <4> QED BY <4>3, <4>5
        <3>2. Masked(tmp_gnts, b, j) = {}
            <4> HIDE DEF b
            <4> QED BY <2>1, <3>1 DEF Masked
        <3> QED BY <2>3, <3>2
    <2> QED BY <2>2, <2>3
<1>2. b = [j \in Lines |-> b[j]]
    OBVIOUS
<1> HIDE DEF b
<1>3. BusStates(tmp_gnts, b)
    BY Zenon, <1>1, <1>2 DEF BusStates
<1>4. bus_tmp = b
    BY <1>3, BusResult
<1> QED BY <1>4 DEF b

\* One of the first n lines grants exactly one request, no two the same.
LEMMA OneEach ==
    ASSUME NEW v, NEW n \in Nat, NEW r, Ranks(v, n, r), NEW j \in Nat, j < n
    PROVE  \E x \in v : Choice(v, n, r, j) = {x}
<1>0. /\ \A x \in v : x \in Int /\ r[x] \in Int /\ 0 <= r[x] /\ r[x] <= n - 1
      /\ \A x, y \in v : r[x] = r[y] => x = y
    BY DEF Ranks
<1>1. PICK m \in 0..(n - 1) : \A x \in v : Line(n, r, x, j) = j <=> r[x] = m
    <2>1. CASE j % 2 = 0
        <3>1. PICK k \in Nat : j = 2 * k
            BY <2>1
        <3>2. k \in 0..(n - 1) /\ \A x \in v : Line(n, r, x, j) = j <=> r[x] = k
            BY <1>0, <2>1, <3>1 DEF Line
        <3> QED BY <3>2
    <2>2. CASE j % 2 # 0
        <3>1. PICK k \in Nat : j = 2 * k + 1
            BY <2>2
        <3>2. /\ n - 1 - k \in 0..(n - 1)
              /\ \A x \in v : Line(n, r, x, j) = j <=> r[x] = n - 1 - k
            BY <1>0, <2>2, <3>1 DEF Line
        <3> QED BY <3>2
    <2> QED BY <2>1, <2>2
<1>2. PICK x \in v : r[x] = m
    BY <1>1 DEF Ranks
<1>3. \A y \in v : r[y] = m <=> y = x
    BY <1>0, <1>2
<1> QED BY <1>1, <1>2, <1>3 DEF Choice

\* Two lines never grant the same request.
LEMMA Disjoint ==
    ASSUME NEW v, NEW n \in Nat, NEW r, Ranks(v, n, r),
           NEW i \in Nat, i < n, NEW j \in Nat, j < n, i # j
    PROVE  Choice(v, n, r, i) \cap Choice(v, n, r, j) = {}
<1>0. \A x \in v : r[x] \in Int /\ 0 <= r[x] /\ r[x] <= n - 1
    BY DEF Ranks
<1> SUFFICES ASSUME NEW x \in v, Line(n, r, x, i) = i, Line(n, r, x, j) = j
             PROVE  FALSE
    BY DEF Choice
<1> QED BY <1>0 DEF Line

\* What rename, the stations, the units, the buses and the queues rely on: in
\* every cycle, however the vector is turned and whatever is requested, line j
\* grants a request of its own if there are more than j requests, and nothing
\* otherwise.
THEOREM SelectorKeepsContract == Spec => []GrantContract
<1>1. TypeOK => GrantContract
    <2> SUFFICES ASSUME TypeOK PROVE GrantContract
        OBVIOUS
    <2> DEFINE v == Left(req)
               n == Cardinality(req)
               back(p) == (p + WIDTH - cnt) % WIDTH
    <2>1. /\ IsFiniteSet(v) /\ v \in SUBSET Positions /\ Cardinality(v) = n
          /\ \A p \in v : back(p) \in req
          /\ \A p, q \in v : back(p) = back(q) => p = q
        BY Turned
    <2>2. n \in Nat
        BY <2>1, FS_CardinalityType
    <2>3. PICK r : Ranks(v, n, r)
        BY <2>1, RankExists
    <2>4. bus_tmp = [j \in Lines |-> IF j < n THEN Choice(v, n, r, j) ELSE {}]
        BY <2>2, <2>3, LinesGrant, BusGrants
    <2> DEFINE granted(j) == IF j < n THEN Choice(v, n, r, j) ELSE {}
    <2>5. ASSUME NEW j \in Lines
          PROVE  gnt_bus[j] = {back(p) : p \in granted(j)}
        BY <2>4 DEF gnt_bus, Right
    <2>6. ASSUME NEW j \in Lines
          PROVE  j \in Nat /\ granted(j) \subseteq v
        BY LinesAre DEF Choice
    <2>7. ASSUME NEW j \in Lines, j < n
          PROVE  \E p \in v : gnt_bus[j] = {back(p)}
        <3>1. PICK p \in v : Choice(v, n, r, j) = {p}
            BY <2>2, <2>3, <2>6, <2>7, OneEach
        <3>2. granted(j) = {p}
            BY <2>7, <3>1
        <3> HIDE DEF granted, back
        <3> QED BY <2>5, <3>2
    <2>8. ASSUME NEW j \in Lines, ~(j < n)
          PROVE  gnt_bus[j] = {}
        BY <2>5, <2>8
    <2>9. ASSUME NEW j \in Lines
          PROVE  gnt_bus[j] \subseteq req
        <3> HIDE DEF granted, back
        <3> QED BY <2>1, <2>5, <2>6
    <2>10. ASSUME NEW j \in Lines
           PROVE  Cardinality(gnt_bus[j]) = IF j < n THEN 1 ELSE 0
        <3>1. CASE j < n
            BY <2>7, <3>1, FS_Singleton
        <3>2. CASE ~(j < n)
            BY <2>8, <3>2, FS_EmptySet
        <3> QED BY <3>1, <3>2
    <2>11. ASSUME NEW j \in Lines, NEW i \in Lines \ {j}
           PROVE  gnt_bus[i] \cap gnt_bus[j] = {}
        <3>1. granted(i) \cap granted(j) = {}
            BY <2>2, <2>3, <2>6, Disjoint
        <3> HIDE DEF granted, back
        <3> QED BY <2>1, <2>5, <2>6, <3>1
    <2> QED BY <2>9, <2>10, <2>11 DEF GrantContract
<1> QED BY <1>1, TypeInvariant, PTL
=============================================================================

---------------------------- MODULE FrontEndProofs ----------------------------
(***************************************************************************)
(* Theorems about the front end: the fetch PCs and the branch target       *)
(* buffer, for every superscalar degree, address space, program and table  *)
(* size; the instruction buffer, its cache and what decode is given, for   *)
(* every buffer size, cache, number of memory tags and program.            *)
(***************************************************************************)
EXTENDS FrontEnd, FiniteLemmas

-----------------------------------------------------------------------------
(* Addresses                                                               *)

\* What the assumption on the constants says, unfolded.
LEMMA FetchConstants ==
    /\ N \in Nat \ {0} /\ NUM_PCS \in Nat \ {0} /\ BTB_NUM_LINES \in Nat \ {0}
    /\ NoPC \notin F!PC /\ 0 \in F!PC
    /\ \A pc \in F!PC : Targets[pc] \subseteq F!PC
    /\ \A i : i \in Ways <=> i \in Int /\ 0 <= i /\ i < N
    /\ \A committed \in Commits : committed \in Seq(TakenBranches)
BY FrontEndAssumption DEF F!FetchAssumption, F!PC, F!Ways, Ways

LEMMA Plus4Type ==
    ASSUME NEW pc \in F!PC, NEW i \in Int
    PROVE  F!Plus4(pc, i) \in F!PC
<1>1. pc + i \in Int
    BY FetchConstants DEF F!PC
<1> QED BY <1>1, DivMod, FetchConstants DEF F!Plus4, F!PC

LEMMA Plus4Zero ==
    ASSUME NEW pc \in F!PC
    PROVE  F!Plus4(pc, 0) = pc
<1>1. NUM_PCS \in Nat \ {0} /\ 0 \in Int /\ pc \in 0..(NUM_PCS - 1)
    BY FetchConstants DEF F!PC
<1>2. (NUM_PCS * 0 + pc) % NUM_PCS = pc
    BY <1>1, ModUnique
<1>3. NUM_PCS * 0 + pc = pc /\ pc + 0 = pc
    BY <1>1
<1> QED BY <1>2, <1>3 DEF F!Plus4

LEMMA Plus4Next ==
    ASSUME NEW pc \in F!PC, NEW i \in Int
    PROVE  F!Plus4(pc, i + 1) = F!Plus4(F!Plus4(pc, i), 1)
<1>1. NUM_PCS \in Nat \ {0} /\ pc + i \in Int /\ 1 \in Int
    BY FetchConstants DEF F!PC
<1>2. (((pc + i) % NUM_PCS) + 1) % NUM_PCS = ((pc + i) + 1) % NUM_PCS
    BY <1>1, ModAdd
<1>3. (pc + i) + 1 = pc + (i + 1)
    BY <1>1 DEF F!PC
<1> QED BY <1>2, <1>3 DEF F!Plus4

-----------------------------------------------------------------------------
(* The fetch PCs                                                           *)

\* A group whose last way was predicted taken goes on at a target of that way:
\* what makes FollowsPath inductive.
LastTaken ==
    num_taken_reg = N - 1 => first_tk_addr_reg \in Targets[PCs_reg[N - 1]]

LEMMA LookedUp ==
    ASSUME F!TypeOK, NEW i \in Int
    PROVE  /\ F!PCs_plus_4N(i) \in F!PC
           /\ F!PCs_plus_4N(i + 1) = F!Plus4(F!PCs_plus_4N(i), 1)
<1>1. first_tk_addr_reg \in F!PC /\ PCs_reg[N - 1] \in F!PC
    BY FetchConstants DEF F!TypeOK, F!Ways, Ways
<1>2. i + 1 \in Int /\ (i + 1) + 1 \in Int
    OBVIOUS
<1>3. CASE num_taken_reg = N - 1
    BY <1>1, <1>2, <1>3, Plus4Type, Plus4Next DEF F!PCs_plus_4N
<1>4. CASE num_taken_reg # N - 1
    BY <1>1, <1>2, <1>4, Plus4Type, Plus4Next DEF F!PCs_plus_4N
<1> QED BY <1>3, <1>4

\* The group after this one starts where this one goes on.
LEMMA GoesOn ==
    ASSUME F!TypeOK, LastTaken
    PROVE  F!PCs_plus_4N(0) \in F!Successors(PCs_reg[N - 1])
<1>1. first_tk_addr_reg \in F!PC
    BY DEF F!TypeOK
<1>2. CASE num_taken_reg = N - 1
    BY <1>1, <1>2, Plus4Zero DEF F!PCs_plus_4N, F!Successors, LastTaken
<1>3. CASE num_taken_reg # N - 1
    <2>1. 0 + 1 = 1
        OBVIOUS
    <2> QED BY <1>3, <2>1 DEF F!PCs_plus_4N, F!Successors
<1> QED BY <1>2, <1>3

\* The first way predicted taken.
LEMMA FirstTaken ==
    ASSUME F!TypeOK, NEW predicted \in F!Predictions
    PROVE  /\ F!num_taken(predicted) \in 0..N
           /\ F!first_tk_addr(predicted) \in F!PC
           /\ F!num_taken(predicted) # N =>
                F!first_tk_addr(predicted)
                    \in Targets[F!PCs_plus_4N(F!num_taken(predicted))]
<1>1. CASE F!Hits(predicted) = {}
    BY <1>1, FetchConstants DEF F!num_taken, F!first_tk_addr
<1>2. CASE F!Hits(predicted) # {}
    <2>1. F!Hits(predicted) \in SUBSET (0..(N - 1)) /\ N \in Nat
        BY FetchConstants DEF F!Hits, F!Ways
    <2>2. \E m \in F!Hits(predicted) : \A x \in F!Hits(predicted) : m <= x
        BY <1>2, <2>1, MinExists
    <2>3. F!num_taken(predicted) \in F!Hits(predicted)
        BY <1>2, <2>2 DEF F!num_taken
    <2>4. F!first_tk_addr(predicted) = predicted[F!num_taken(predicted)]
        BY <1>2 DEF F!first_tk_addr
    <2> DEFINE m == F!num_taken(predicted)
    <2>5. m \in F!Ways /\ predicted[m] # NoPC /\ m \in Int
        BY <2>1, <2>3 DEF F!Hits
    <2>6. predicted[m] \in Targets[F!PCs_plus_4N(m)]
        BY <2>5 DEF F!Predictions
    <2>7. F!PCs_plus_4N(m) \in F!PC
        BY <2>5, LookedUp
    <2>8. predicted[m] \in F!PC
        BY <2>6, <2>7, FetchConstants
    <2>9. m \in 0..N
        BY <2>1, <2>3
    <2> QED BY <2>4, <2>6, <2>8, <2>9
<1> QED BY <1>1, <1>2

\* The group after a look-up is a path.
LEMMA NextGroup ==
    ASSUME F!TypeOK, NEW predicted \in F!Predictions
    PROVE  /\ F!n_PCs_reg(predicted) \in [F!Ways -> F!PC]
           /\ \A i \in 0..(N - 2) : F!n_PCs_reg(predicted)[i + 1]
                                        \in F!Successors(F!n_PCs_reg(predicted)[i])
           /\ F!n_PCs_reg(predicted)[0] = F!PCs_plus_4N(0)
           /\ F!num_taken(predicted) = N - 1 =>
                F!first_tk_addr(predicted) \in Targets[F!n_PCs_reg(predicted)[N - 1]]
<1> DEFINE m == F!num_taken(predicted)
           tk == F!first_tk_addr(predicted)
           g == F!n_PCs_reg(predicted)
<1>1. /\ m \in 0..N /\ m \in Int /\ tk \in F!PC /\ N \in Int /\ N >= 1
      /\ m # N => tk \in Targets[F!PCs_plus_4N(m)]
    BY FirstTaken, FetchConstants
<1>2. /\ \A i \in F!Ways : i \in Int /\ 0 <= i /\ i < N
      /\ \A i \in F!Ways : g[i] = IF i > m THEN F!Plus4(tk, i - m - 1) ELSE F!PCs_plus_4N(i)
      /\ g = [i \in F!Ways |-> g[i]]
    BY FetchConstants DEF F!n_PCs_reg, Ways
<1> HIDE DEF m, tk, g
<1>3. ASSUME NEW i \in F!Ways
      PROVE  g[i] \in F!PC
    <2>1. i - m - 1 \in Int /\ i \in Int
        BY <1>1, <1>2
    <2>2. F!Plus4(tk, i - m - 1) \in F!PC /\ F!PCs_plus_4N(i) \in F!PC
        BY <1>1, <2>1, Plus4Type, LookedUp
    <2> QED BY <1>2, <2>2
<1>4. ASSUME NEW i \in 0..(N - 2)
      PROVE  g[i + 1] \in F!Successors(g[i])
    <2>1. i \in F!Ways /\ i + 1 \in F!Ways /\ i \in Int
        BY <1>1, FetchConstants DEF Ways
    <2>2. CASE i > m
        <3>1. g[i + 1] = F!Plus4(tk, (i + 1) - m - 1) /\ g[i] = F!Plus4(tk, i - m - 1)
            BY <1>1, <1>2, <2>1, <2>2
        <3>2. (i + 1) - m - 1 = (i - m - 1) + 1 /\ i - m - 1 \in Int
            BY <1>1, <2>1
        <3>3. g[i + 1] = F!Plus4(g[i], 1)
            BY <1>1, <3>1, <3>2, Plus4Next
        <3> QED BY <3>3 DEF F!Successors
    <2>3. CASE i = m
        <3>1. g[i + 1] = F!Plus4(tk, (i + 1) - m - 1) /\ g[i] = F!PCs_plus_4N(m)
            BY <1>1, <1>2, <2>1, <2>3
        <3>2. (i + 1) - m - 1 = 0 /\ m # N
            BY <1>1, <2>1, <2>3
        <3>3. g[i + 1] = tk
            BY <1>1, <3>1, <3>2, Plus4Zero
        <3> QED BY <1>1, <3>1, <3>2, <3>3 DEF F!Successors
    <2>4. CASE i < m
        <3>1. g[i + 1] = F!PCs_plus_4N(i + 1) /\ g[i] = F!PCs_plus_4N(i)
            BY <1>1, <1>2, <2>1, <2>4
        <3>2. g[i + 1] = F!Plus4(g[i], 1)
            BY <2>1, <3>1, LookedUp
        <3> QED BY <3>2 DEF F!Successors
    <2> QED BY <1>1, <2>1, <2>2, <2>3, <2>4
<1>5. g[0] = F!PCs_plus_4N(0)
    <2>1. 0 \in F!Ways /\ ~(0 > m)
        BY <1>1, FetchConstants DEF Ways
    <2> QED BY <1>2, <2>1
<1>6. m = N - 1 => tk \in Targets[g[N - 1]]
    <2>1. N - 1 \in F!Ways /\ N # N - 1
        BY <1>1, FetchConstants DEF Ways
    <2>2. m = N - 1 => g[N - 1] = F!PCs_plus_4N(m)
        BY <1>1, <1>2, <2>1
    <2> QED BY <1>1, <2>1, <2>2
<1>7. g \in [F!Ways -> F!PC]
    BY <1>2, <1>3
<1> QED BY <1>4, <1>5, <1>6, <1>7 DEF g, m, tk

\* The inductive invariant of the fetch PCs: the group being fetched is a path,
\* the youngest instruction in the buffer names its first PC as the next one,
\* and the next group goes on from its last.
PathInv ==
    /\ F!TypeOK
    /\ LastTaken
    /\ NPC \in {NoPC, PCs_reg[0]}
    /\ \A i \in 0..(N - 2) : PCs_reg[i + 1] \in F!Successors(PCs_reg[i])

LEMMA PathInvFollows == PathInv => F!FollowsPath
<1> SUFFICES ASSUME PathInv PROVE F!FollowsPath
    OBVIOUS
<1>1. ASSUME NEW predicted \in F!Predictions
      PROVE  F!NPCs_reg(N - 1, predicted) \in F!Successors(PCs_reg[N - 1])
    <2>1. F!NPCs_reg(N - 1, predicted) = F!n_PCs_reg(predicted)[0]
        BY FetchConstants DEF F!NPCs_reg
    <2> QED BY <2>1, NextGroup, GoesOn DEF PathInv
<1> QED BY <1>1 DEF F!FollowsPath, PathInv

\* A group of consecutive PCs.
LEMMA StraightGroup ==
    ASSUME NEW pc \in F!PC, NEW g, g = [i \in F!Ways |-> F!Plus4(pc, i)]
    PROVE  /\ g \in [F!Ways -> F!PC]
           /\ \A i \in 0..(N - 2) : g[i + 1] \in F!Successors(g[i])
<1>1. \A i \in F!Ways : i \in Int /\ F!Plus4(pc, i) \in F!PC
    BY Plus4Type, FetchConstants DEF Ways
<1>2. ASSUME NEW i \in 0..(N - 2)
      PROVE  g[i + 1] = F!Plus4(g[i], 1)
    <2>1. i \in F!Ways /\ i + 1 \in F!Ways /\ i \in Int
        BY FetchConstants DEF Ways
    <2> QED BY <2>1, Plus4Next
<1> QED BY <1>1, <1>2 DEF F!Successors

LEMMA PathInit == F!Init => PathInv
<1> SUFFICES ASSUME F!Init PROVE PathInv
    OBVIOUS
<1>1. ASSUME NEW i \in F!Ways PROVE i % NUM_PCS = F!Plus4(0, i)
    <2>1. 0 + i = i
        BY FetchConstants DEF Ways
    <2> QED BY <2>1 DEF F!Plus4
<1>2. PCs_reg = [i \in F!Ways |-> F!Plus4(0, i)]
    BY <1>1 DEF F!Init
<1>3. /\ PCs_reg \in [F!Ways -> F!PC]
      /\ \A i \in 0..(N - 2) : PCs_reg[i + 1] \in F!Successors(PCs_reg[i])
    BY <1>2, StraightGroup, FetchConstants
<1>4. N \in 0..N /\ N # N - 1
    BY FetchConstants
<1> QED BY <1>3, <1>4, FetchConstants DEF F!Init, PathInv, F!TypeOK, LastTaken

LEMMA FetchKeepsPath ==
    ASSUME PathInv, NEW predicted \in F!Predictions, F!Fetch(predicted)
    PROVE  PathInv' /\ NPC' = PCs_reg'[0]
<1>0. F!TypeOK
    BY DEF PathInv
<1>1. F!NPCs_reg(N - 1, predicted) = F!n_PCs_reg(predicted)[0]
    BY FetchConstants DEF F!NPCs_reg
<1>2. PICK g : g = F!n_PCs_reg(predicted)
    OBVIOUS
<1>3. /\ PCs_reg' = g /\ num_taken_reg' = F!num_taken(predicted)
      /\ first_tk_addr_reg' = F!first_tk_addr(predicted) /\ NPC' = g[0]
    BY <1>1, <1>2 DEF F!Fetch
<1>4. /\ g \in [F!Ways -> F!PC]
      /\ \A i \in 0..(N - 2) : g[i + 1] \in F!Successors(g[i])
      /\ F!num_taken(predicted) = N - 1 => F!first_tk_addr(predicted) \in Targets[g[N - 1]]
    BY <1>0, <1>2, NextGroup
<1>5. g[0] \in F!PC
    BY <1>4, FetchConstants DEF Ways
<1>6. F!TypeOK'
    BY <1>0, <1>3, <1>4, <1>5, FirstTaken DEF F!TypeOK
<1> QED BY <1>3, <1>4, <1>6 DEF PathInv, LastTaken, F!Successors

LEMMA RedirectKeepsPath ==
    ASSUME PathInv, NEW pc \in F!PC, F!Redirect(pc)
    PROVE  PathInv'
<1>1. PICK g : g = [i \in F!Ways |-> F!Plus4(pc, i)]
    OBVIOUS
<1>2. PCs_reg' = g /\ num_taken_reg' = N /\ first_tk_addr_reg' = 0 /\ NPC' = NoPC
    BY <1>1 DEF F!Redirect
<1>3. /\ g \in [F!Ways -> F!PC]
      /\ \A i \in 0..(N - 2) : g[i + 1] \in F!Successors(g[i])
    BY <1>1, StraightGroup
<1>4. N \in 0..N /\ N # N - 1
    BY FetchConstants
<1>5. F!TypeOK'
    BY <1>2, <1>3, <1>4, FetchConstants DEF F!TypeOK
<1> QED BY <1>2, <1>3, <1>4, <1>5 DEF PathInv, LastTaken, F!Successors

-----------------------------------------------------------------------------
(* The branch target buffer                                                *)

\* A line was written by a taken branch.
LineOK(line, l) ==
    /\ line \in [valid : BOOLEAN, tag : F!PC, addr : F!PC]
    /\ line.valid => \E b \in TakenBranches :
                        /\ l = T!Idx(b.pc)
                        /\ line.tag = T!Tag(b.pc)
                        /\ line.addr = b.branch_address
TableOK(table) ==
    /\ table \in [T!Indices -> [valid : BOOLEAN, tag : F!PC, addr : F!PC]]
    /\ \A l \in T!Indices : LineOK(table[l], l)

\* Index and tag together name the PC.
LEMMA WholePC ==
    ASSUME NEW p \in F!PC, NEW q \in F!PC, T!Idx(p) = T!Idx(q), T!Tag(p) = T!Tag(q)
    PROVE  p = q
<1>1. p \in Int /\ q \in Int /\ BTB_NUM_LINES \in Nat \ {0}
    BY FetchConstants DEF F!PC
<1>2. /\ p = BTB_NUM_LINES * (p \div BTB_NUM_LINES) + (p % BTB_NUM_LINES)
      /\ q = BTB_NUM_LINES * (q \div BTB_NUM_LINES) + (q % BTB_NUM_LINES)
    BY <1>1, DivMod
<1> QED BY <1>2 DEF T!Idx, T!Tag

LEMMA IndexAndTag ==
    ASSUME NEW p \in F!PC
    PROVE  T!Idx(p) \in T!Indices /\ T!Tag(p) \in F!PC
<1>1. p \in Int /\ 0 <= p /\ p < NUM_PCS /\ BTB_NUM_LINES \in Nat \ {0} /\ NUM_PCS \in Int
    BY FetchConstants DEF F!PC
<1> DEFINE q == p \div BTB_NUM_LINES
           r == p % BTB_NUM_LINES
<1>2. p = BTB_NUM_LINES * q + r /\ q \in Int /\ r \in 0..(BTB_NUM_LINES - 1)
    BY <1>1, DivMod
<1> HIDE DEF q, r
<1>3. q > 0 => BTB_NUM_LINES * q >= q
    BY <1>1, <1>2, AtLeastOnce
<1>4. q < 0 => BTB_NUM_LINES * q <= -BTB_NUM_LINES
    <2>1. -q \in Int /\ BTB_NUM_LINES * (-q) = -(BTB_NUM_LINES * q)
        BY <1>1, <1>2
    <2>2. q < 0 => BTB_NUM_LINES * (-q) >= BTB_NUM_LINES
        BY <1>1, <1>2, <2>1, AtLeastOnce
    <2>3. BTB_NUM_LINES * q \in Int
        BY <1>1, <1>2
    <2> QED BY <1>1, <2>1, <2>2, <2>3
<1>5. BTB_NUM_LINES * q \in Int
    BY <1>1, <1>2
<1>6. 0 <= q /\ q <= p
    BY <1>1, <1>2, <1>3, <1>4, <1>5
<1>7. q \in F!PC
    BY <1>1, <1>2, <1>6 DEF F!PC
<1> QED BY <1>2, <1>7 DEF q, r, T!Idx, T!Tag, T!Indices

LEMMA TakenBranchType ==
    ASSUME NEW b \in TakenBranches
    PROVE  b.pc \in F!PC /\ b.branch_address \in F!PC /\ b.branch_address \in Targets[b.pc]
BY DEF TakenBranches

LEMMA TableWritten ==
    ASSUME TableOK(cachemen), NEW committed \in Commits
    PROVE  TableOK(T!n_cachemen(committed))
<1>1. PICK table : table = T!n_cachemen(committed)
    OBVIOUS
<1>2. ASSUME NEW l \in T!Indices
      PROVE  LineOK(table[l], l)
    <2> DEFINE W == T!Writers(committed, l)
    <2>1. table[l] = IF W = {} THEN cachemen[l]
                     ELSE T!Write(committed[T!LastWriter(committed, l)])
        BY <1>1 DEF T!n_cachemen
    <2>2. CASE W = {}
        BY <2>1, <2>2 DEF TableOK
    <2>3. CASE W # {}
        <3>1. committed \in Seq(TakenBranches)
            BY FetchConstants
        <3>2. W \in SUBSET (1..Len(committed)) /\ Len(committed) \in Int
            BY <3>1 DEF T!Writers
        <3>3. \E m \in W : \A x \in W : x <= m
            <4> HIDE DEF W
            <4> QED BY <2>3, <3>2, MaxExists
        <3>4. T!LastWriter(committed, l) \in W
            BY <3>3 DEF T!LastWriter
        <3>5. PICK i \in 1..Len(committed) :
                i = T!LastWriter(committed, l) /\ T!Idx(committed[i].pc) = l
            BY <3>4 DEF T!Writers
        <3>6. PICK b \in TakenBranches : b = committed[i]
            BY <3>1, <3>5
        <3>7. table[l] = [valid |-> TRUE, tag |-> T!Tag(b.pc), addr |-> b.branch_address]
            BY <2>1, <2>3, <3>5, <3>6 DEF T!Write
        <3>8. T!Tag(b.pc) \in F!PC /\ b.branch_address \in F!PC
            BY TakenBranchType, IndexAndTag
        <3> QED BY <3>5, <3>6, <3>7, <3>8 DEF LineOK
    <2> QED BY <2>2, <2>3
<1>3. table = [l \in T!Indices |-> table[l]]
    BY <1>1 DEF T!n_cachemen
<1>4. table \in [T!Indices -> [valid : BOOLEAN, tag : F!PC, addr : F!PC]]
    BY <1>2, <1>3 DEF LineOK
<1> QED BY <1>1, <1>2, <1>4 DEF TableOK

\* A hit is for the very branch that is looked up, whatever the aliases.
LEMMA HitIsTarget ==
    ASSUME TableOK(cachemen), NEW committed \in Commits, NEW pc \in F!PC
    PROVE  T!predicted_address(pc, committed) \in Targets[pc] \cup {NoPC}
<1>1. PICK table : table = T!n_cachemen(committed) /\ TableOK(table)
    BY TableWritten
<1>2. PICK line : line = table[T!Idx(pc)] /\ LineOK(line, T!Idx(pc))
    BY <1>1, IndexAndTag DEF TableOK
<1>3. T!predicted_address(pc, committed) =
        IF line.valid /\ line.tag = T!Tag(pc) THEN line.addr ELSE NoPC
    BY <1>1, <1>2 DEF T!predicted_address
<1>4. CASE line.valid /\ line.tag = T!Tag(pc)
    <2>1. PICK b \in TakenBranches : /\ T!Idx(pc) = T!Idx(b.pc)
                                     /\ line.tag = T!Tag(b.pc)
                                     /\ line.addr = b.branch_address
        BY <1>2, <1>4 DEF LineOK
    <2>2. pc = b.pc
        BY <1>4, <2>1, WholePC, TakenBranchType
    <2> QED BY <1>3, <1>4, <2>1, <2>2, TakenBranchType
<1>5. CASE ~(line.valid /\ line.tag = T!Tag(pc))
    BY <1>3, <1>5
<1> QED BY <1>4, <1>5

\* So the predictions of the buffer are among those FetchPC allows.
LEMMA PredictedAllowed ==
    ASSUME F!TypeOK, TableOK(cachemen), NEW committed \in Commits, NEW taken
    PROVE  Predicted(taken, committed) \in F!Predictions
<1>1. ASSUME NEW i \in F!Ways
      PROVE  /\ Predicted(taken, committed)[i] \in Targets[F!PCs_plus_4N(i)] \cup {NoPC}
             /\ F!PCs_plus_4N(i) \in F!PC
    <2>1. i \in Int /\ i \in Ways
        BY FetchConstants DEF Ways
    <2>2. F!PCs_plus_4N(i) \in F!PC
        BY <2>1, LookedUp
    <2>3. Predicted(taken, committed)[i] =
            IF i \in taken THEN T!predicted_address(F!PCs_plus_4N(i), committed) ELSE NoPC
        BY <2>1 DEF Predicted
    <2> QED BY <2>2, <2>3, HitIsTarget
<1>2. Predicted(taken, committed) = [i \in F!Ways |-> Predicted(taken, committed)[i]]
    BY DEF Predicted, Ways
<1>3. Predicted(taken, committed)
        \in [F!Ways -> (UNION {Targets[pc] : pc \in F!PC}) \cup {NoPC}]
    BY <1>1, <1>2
<1> QED BY <1>1, <1>3 DEF F!Predictions

-----------------------------------------------------------------------------
(* The fetch stage with its branch target buffer                           *)

FetchInv == PathInv /\ TableOK(cachemen)

LEMMA DestinationType ==
    ASSUME NEW committed \in Commits, NEW pc \in Destinations(committed)
    PROVE  pc \in F!PC
<1>1. CASE pc \in {F!Plus4(p, 1) : p \in {p \in F!PC : Targets[p] # {}}}
    BY <1>1, Plus4Type
<1>2. CASE committed # <<>> /\ pc = committed[Len(committed)].branch_address
    <2>1. committed \in Seq(TakenBranches)
        BY FetchConstants
    <2>2. committed[Len(committed)] \in TakenBranches
        BY <1>2, <2>1
    <2> QED BY <1>2, <2>2, TakenBranchType
<1> QED BY <1>1, <1>2 DEF Destinations

LEMMA FetchInit == Init => FetchInv
<1> SUFFICES ASSUME Init PROVE FetchInv
    OBVIOUS
<1>1. TableOK(cachemen)
    BY FetchConstants DEF Init, T!Init, TableOK, LineOK
<1> QED BY <1>1, PathInit DEF Init, FetchInv

\* What a step does to the fetch PCs.
LEMMA FetchStepShape ==
    ASSUME FetchInv, [Next]_vars
    PROVE  FetchInv' /\ [F!Next]_fetchVars
<1>1. CASE UNCHANGED vars
    BY <1>1 DEF vars, fetchVars, FetchInv, PathInv, F!TypeOK, LastTaken, TableOK, F!Successors
<1>2. ASSUME NEW stall, NEW resp, NEW ret, NEW committed \in Commits, NEW taken,
             Cycle(stall, resp, ret, committed, taken)
      PROVE  FetchInv' /\ [F!Next]_fetchVars
    <2>1. PICK p \in F!Predictions : p = Predicted(taken, committed)
        BY PredictedAllowed DEF FetchInv, PathInv
    <2>2. TableOK(cachemen)'
        <3>1. cachemen' = T!n_cachemen(committed)
            BY <1>2 DEF Cycle, T!Update
        <3>2. TableOK(cachemen')
            BY <3>1, TableWritten DEF FetchInv
        <3> QED BY <3>2 DEF TableOK
    <2>3. F!Fetch(p) \/ UNCHANGED fetchVars
        BY <1>2, <2>1 DEF Cycle, FetchStep
    <2>4. CASE F!Fetch(p)
        BY <2>2, <2>4, FetchKeepsPath DEF FetchInv, F!Next
    <2>5. CASE UNCHANGED fetchVars
        BY <2>2, <2>5 DEF fetchVars, FetchInv, PathInv, F!TypeOK, LastTaken, F!Successors
    <2> QED BY <2>3, <2>4, <2>5
<1>3. ASSUME NEW stall, NEW resp, NEW ret, NEW committed \in Commits,
             NEW pc \in Destinations(committed),
             BranchMispredict(stall, resp, ret, committed, pc)
      PROVE  FetchInv' /\ [F!Next]_fetchVars
    <2>1. TableOK(cachemen)'
        <3>1. cachemen' = T!n_cachemen(committed)
            BY <1>3 DEF BranchMispredict, T!Update
        <3>2. TableOK(cachemen')
            BY <3>1, TableWritten DEF FetchInv
        <3> QED BY <3>2 DEF TableOK
    <2>2. F!Redirect(pc) /\ pc \in F!PC
        BY <1>3, DestinationType DEF BranchMispredict, PC_enable
    <2> QED BY <2>1, <2>2, RedirectKeepsPath DEF FetchInv, F!Next
<1> QED BY <1>1, <1>2, <1>3 DEF Next

LEMMA FetchInvariant == Init /\ [][Next]_vars => []FetchInv
BY FetchInit, FetchStepShape, PTL

\* The PCs that enter the buffer are a path of the program, for every program,
\* table size and address space: each is followed by the next one or by one its
\* instruction can branch to, and carries the PC that follows it as its NPC.
THEOREM PathFollowed == Spec => []FollowsPath
BY FetchInvariant, PathInvFollows, PTL DEF Spec, FetchInv, FollowsPath

\* The fetch stage with its branch target buffer implements the one whose
\* predictions are always somewhere the instruction can go: an alias is no hit,
\* and what retires in the cycle of the look-up counts.
THEOREM BtbImplementsFetch == Spec => ImplementsFetch
<1>1. Init => F!Init
    BY DEF Init
<1>2. fetchVars = F!vars
    BY DEF fetchVars, F!vars
<1>3. FetchInv /\ [Next]_vars => [F!Next]_F!vars
    BY FetchStepShape DEF fetchVars, F!vars
<1> QED BY <1>1, <1>3, FetchInvariant, PTL DEF Spec, ImplementsFetch, F!Spec

-----------------------------------------------------------------------------
(* Going round the buffer                                                  *)

\* What the assumption on the constants says, unfolded.
LEMMA BufferConstants ==
    /\ N \in Int /\ 1 <= N
    /\ INSTR_BUFFER_LEN \in Int /\ INSTR_BUFFER_LEN >= 3 * N
    /\ \A pc \in F!PC : Block[pc] \in Blocks /\ Line[Block[pc]] \in Lines
    /\ \A b \in Blocks : b # NoData /\ b # DataBlock
    /\ NoData # DataBlock /\ NoTag \notin Tags
    /\ \A s : s \in B!Slots <=> s \in Int /\ 0 <= s /\ s < INSTR_BUFFER_LEN
    /\ \A i : i \in B!Ways <=> i \in Int /\ 0 <= i /\ i < N
    /\ Ways = B!Ways
BY FrontEndAssumption
   DEF B!BufferAssumption, F!FetchAssumption, B!Slots, B!Ways, Ways, F!Ways

\* B!Age, counted from a given head.
AgeFrom(h, s) == IF s >= h THEN s - h ELSE s - h + INSTR_BUFFER_LEN

LEMMA AgeIs == \A s : B!Age(s) = AgeFrom(ib_head, s)
BY DEF B!Age, AgeFrom

LEMMA AgeOfSlot ==
    ASSUME NEW h \in B!Slots, NEW s \in B!Slots
    PROVE  AgeFrom(h, s) \in B!Slots /\ B!Wrap(h + AgeFrom(h, s)) = s
BY BufferConstants DEF AgeFrom, B!Wrap

LEMMA SlotOfAge ==
    ASSUME NEW h \in B!Slots, NEW a \in B!Slots
    PROVE  B!Wrap(h + a) \in B!Slots /\ AgeFrom(h, B!Wrap(h + a)) = a
BY BufferConstants DEF AgeFrom, B!Wrap

LEMMA HeadMoves ==
    ASSUME NEW h \in B!Slots, NEW r \in B!Slots, NEW s \in B!Slots
    PROVE  /\ B!Wrap(h + r) \in B!Slots
           /\ AgeFrom(B!Wrap(h + r), s) =
                IF AgeFrom(h, s) >= r THEN AgeFrom(h, s) - r
                                      ELSE AgeFrom(h, s) - r + INSTR_BUFFER_LEN
BY BufferConstants DEF AgeFrom, B!Wrap

LEMMA WrapTwice ==
    ASSUME NEW h \in B!Slots, NEW a \in Nat, NEW b \in Nat, a + b <= INSTR_BUFFER_LEN
    PROVE  B!Wrap(B!Wrap(h + a) + b) = B!Wrap(h + (a + b))
BY BufferConstants DEF B!Wrap

\* The slots between head and tail, and their number.
SizeOf(h, t) == IF h > t THEN INSTR_BUFFER_LEN - (h - t) ELSE t - h
UsedBy(h, t) ==
    IF h > t THEN {s \in B!Slots : s >= h \/ s < t}
             ELSE {s \in B!Slots : s >= h /\ s < t}

LEMMA SizeIs == B!ib_size = SizeOf(ib_head, ib_tail) /\ B!valid = UsedBy(ib_head, ib_tail)
BY DEF B!ib_size, B!valid, SizeOf, UsedBy

LEMMA SizeShape ==
    ASSUME NEW h \in B!Slots, NEW t \in B!Slots
    PROVE  /\ SizeOf(h, t) \in B!Slots
           /\ t = B!Wrap(h + SizeOf(h, t))
           /\ \A s \in B!Slots : s \in UsedBy(h, t) <=> AgeFrom(h, s) < SizeOf(h, t)
           /\ UsedBy(h, t) \subseteq B!Slots
BY BufferConstants DEF SizeOf, UsedBy, B!Wrap, AgeFrom

LEMMA SizeFrom ==
    ASSUME NEW h \in B!Slots, NEW c \in B!Slots
    PROVE  SizeOf(h, B!Wrap(h + c)) = c
BY BufferConstants DEF SizeOf, B!Wrap

\* The oldest of some slots is one of them.
LEMMA OldestExists ==
    ASSUME ib_head \in B!Slots, NEW S \in SUBSET B!Slots, S # {}
    PROVE  B!Oldest(S) \in S
<1> DEFINE A == {B!Age(s) : s \in S}
<1>1. \A s \in S : B!Age(s) \in 0..(INSTR_BUFFER_LEN - 1)
    BY AgeIs, AgeOfSlot, BufferConstants
<1>2. A \in SUBSET (0..(INSTR_BUFFER_LEN - 1)) /\ A # {}
    BY <1>1
<1>3. INSTR_BUFFER_LEN \in Nat
    BY BufferConstants
<1>4. PICK m \in A : \A x \in A : m <= x
    <2> HIDE DEF A
    <2> QED BY <1>2, <1>3, MinExists
<1>5. \E s \in S : \A t \in S : B!Age(s) <= B!Age(t)
    BY <1>4
<1> QED BY <1>5 DEF B!Oldest

-----------------------------------------------------------------------------
(* Cache, answers and requests                                             *)

\* A slot is ready exactly when it holds its instruction, and waits for no tag
\* then.
SlotFaithful(e) ==
    /\ e.ready => e.mem_tag = NoTag /\ e.inst = Block[e.pc]
    /\ ~e.ready => e.inst = NoData
SlotsFaithful == \A s \in B!Slots : SlotFaithful(instr_buffer[s])

\* A cache line holds the data of the block it is tagged with.
CacheFaithful == \A l \in Lines : icache[l].block # NoData => icache[l].data = icache[l].block

\* The inductive invariant of the buffer.
BufferInv ==
    /\ B!TypeOK
    /\ B!Occupancy
    /\ SlotsFaithful
    /\ CacheFaithful
    /\ B!AnswersAwaited

LEMMA StationFields ==
    ASSUME B!TypeOK, NEW s \in B!Slots
    PROVE  /\ instr_buffer[s] \in B!Station
           /\ instr_buffer[s].pc \in F!PC /\ instr_buffer[s].ready \in BOOLEAN
           /\ instr_buffer[s].mem_tag \in Tags \cup {NoTag}
           /\ B!BlockOf(s) = Block[instr_buffer[s].pc] /\ B!BlockOf(s) \in Blocks
BY BufferConstants DEF B!TypeOK, B!Station, B!BlockOf

\* An answer is for the block of every slot that takes it, and of the cache
\* line that it fills.
LEMMA AnswerIsRight ==
    ASSUME BufferInv, NEW ret
    PROVE  /\ B!Matching(ret) # {} =>
                /\ ret \in Tags
                /\ outstanding[ret] \in Blocks
                /\ B!updated_mem_address(ret) = outstanding[ret]
           /\ \A s \in B!Receiving(ret) :
                s \in B!valid /\ B!Matching(ret) # {} /\ B!BlockOf(s) = outstanding[ret]
<1>0. B!TypeOK /\ ib_head \in B!Slots /\ ib_tail \in B!Slots
    BY DEF BufferInv, B!TypeOK
<1>1. B!valid \subseteq B!Slots
    BY <1>0, SizeIs, SizeShape
<1>2. \A s \in B!Matching(ret) : /\ s \in B!valid /\ s \in B!Slots /\ ret # NoTag
                                 /\ instr_buffer[s].mem_tag = ret
    BY <1>1 DEF B!Matching
<1>3. \A s \in B!Matching(ret) : outstanding[ret] = B!BlockOf(s) /\ ret \in Tags
    BY <1>0, <1>2, StationFields DEF BufferInv, B!AnswersAwaited
<1>4. ASSUME B!Matching(ret) # {}
      PROVE  /\ ret \in Tags
             /\ outstanding[ret] \in Blocks
             /\ B!updated_mem_address(ret) = outstanding[ret]
    <2>1. B!Matching(ret) \in SUBSET B!Slots
        BY <1>2
    <2>2. B!Oldest(B!Matching(ret)) \in B!Matching(ret)
        BY <1>0, <1>4, <2>1, OldestExists
    <2> QED BY <1>0, <1>2, <1>3, <2>2, StationFields DEF B!updated_mem_address
<1>5. ASSUME NEW s \in B!Receiving(ret)
      PROVE  s \in B!valid /\ B!Matching(ret) # {} /\ B!BlockOf(s) = outstanding[ret]
    <2>1. CASE s \in B!Matching(ret)
        BY <1>2, <1>3, <2>1
    <2>2. CASE /\ s \in B!valid /\ B!updated_mem_valid(ret)
               /\ B!BlockOf(s) = B!updated_mem_address(ret)
        BY <1>4, <2>2 DEF B!updated_mem_valid
    <2> QED BY <2>1, <2>2 DEF B!Receiving
<1> QED BY <1>4, <1>5

CacheLine == [block : Blocks \cup {NoData}, data : B!AnyBlock]

LEMMA CacheAfter ==
    ASSUME BufferInv, NEW ret
    PROVE  /\ B!n_icache(ret) \in [Lines -> CacheLine]
           /\ \A l \in Lines : B!n_icache(ret)[l].block # NoData =>
                                B!n_icache(ret)[l].data = B!n_icache(ret)[l].block
<1>1. ASSUME NEW l \in Lines
      PROVE  /\ B!n_icache(ret)[l] \in CacheLine
             /\ B!n_icache(ret)[l].block # NoData =>
                    B!n_icache(ret)[l].data = B!n_icache(ret)[l].block
    <2>1. CASE B!Matching(ret) # {} /\ l = Line[B!updated_mem_address(ret)]
        <3>1. B!n_icache(ret)[l] = [block |-> outstanding[ret], data |-> outstanding[ret]]
            BY <2>1, AnswerIsRight DEF B!n_icache, B!updated_mem_valid
        <3>2. outstanding[ret] \in Blocks
            BY <2>1, AnswerIsRight
        <3> QED BY <3>1, <3>2 DEF CacheLine, B!AnyBlock
    <2>2. CASE ~(B!Matching(ret) # {} /\ l = Line[B!updated_mem_address(ret)])
        <3>1. B!n_icache(ret)[l] = icache[l]
            BY <2>2 DEF B!n_icache, B!updated_mem_valid
        <3> QED BY <3>1 DEF BufferInv, B!TypeOK, CacheFaithful, CacheLine
    <2> QED BY <2>1, <2>2
<1>2. B!n_icache(ret) = [l \in Lines |-> B!n_icache(ret)[l]]
    BY DEF B!n_icache
<1> QED BY <1>1, <1>2

\* What is put into a slot is right from the start.
LEMMA InsertedShape ==
    ASSUME BufferInv, NEW ret, NEW pc \in F!PC
    PROVE  /\ B!Inserted(pc, ret) \in B!Station
           /\ B!Inserted(pc, ret).pc = pc
           /\ B!Inserted(pc, ret).mem_tag = NoTag
           /\ SlotFaithful(B!Inserted(pc, ret))
<1>0. Block[pc] \in Blocks /\ Line[Block[pc]] \in Lines /\ Block[pc] # NoData
    BY BufferConstants
<1>1. PICK line : line = B!n_icache(ret)[Line[Block[pc]]]
    OBVIOUS
<1>2. line.block # NoData => line.data = line.block
    BY <1>0, <1>1, CacheAfter
<1>3. CASE line.block = Block[pc]
    <2>1. B!Inserted(pc, ret) = [pc |-> pc, ready |-> TRUE, mem_tag |-> NoTag, inst |-> Block[pc]]
        BY <1>0, <1>1, <1>2, <1>3 DEF B!Inserted, B!Fetched
    <2> QED BY <1>0, <2>1 DEF B!Station, B!AnyBlock, SlotFaithful
<1>4. CASE line.block # Block[pc]
    <2>1. B!Inserted(pc, ret) = [pc |-> pc, ready |-> FALSE, mem_tag |-> NoTag, inst |-> NoData]
        BY <1>1, <1>4 DEF B!Inserted, B!Fetching
    <2> QED BY <2>1 DEF B!Station, B!AnyBlock, SlotFaithful
<1> QED BY <1>3, <1>4

\* A request is for the block of every slot that records its tag.
LEMMA RequestIsRight ==
    ASSUME B!TypeOK, NEW stall
    PROVE  /\ B!Requests(stall) => ~stall /\ B!proc2mem_addr \in Blocks
           /\ \A s \in B!Requesting(stall) :
                /\ s \in B!Slots /\ B!Requests(stall)
                /\ ~instr_buffer[s].ready
                /\ B!BlockOf(s) = B!proc2mem_addr
<1>0. ib_head \in B!Slots /\ ib_tail \in B!Slots
    BY DEF B!TypeOK
<1>1. B!Unrequested \in SUBSET B!Slots
    BY <1>0, SizeIs, SizeShape DEF B!Unrequested
<1>2. B!Unrequested # {} => B!proc2mem_addr \in Blocks
    <2>1. B!Unrequested # {} => B!Oldest(B!Unrequested) \in B!Unrequested
        BY <1>0, <1>1, OldestExists
    <2> QED BY <1>1, <2>1, StationFields DEF B!proc2mem_addr
<1> QED BY <1>1, <1>2 DEF B!Requests, B!Requesting, B!Unrequested

-----------------------------------------------------------------------------
(* Memory                                                                  *)

LEMMA MemoryShape ==
    ASSUME BufferInv, NEW stall \in BOOLEAN, NEW resp \in AnyTags, NEW ret \in AnyTags,
           B!Memory(stall, resp, ret)
    PROVE  /\ outstanding' \in [Tags -> B!AnyBlock]
           /\ resp \in Tags /\ ~stall => outstanding'[resp] = B!proc2mem_addr
           /\ resp \in Tags => outstanding[resp] = NoData
           /\ \A t \in Tags : t # resp /\ t # ret => outstanding'[t] = outstanding[t]
<1>1. outstanding' = [t \in Tags |->
            IF t = resp THEN (IF stall THEN DataBlock ELSE B!proc2mem_addr)
            ELSE IF t = ret THEN NoData
            ELSE outstanding[t]]
    BY DEF B!Memory
<1>2. resp \in Tags => outstanding[resp] = NoData /\ (stall \/ B!Requests(stall))
    BY BufferConstants DEF B!Memory
<1>3. outstanding \in [Tags -> B!AnyBlock] /\ B!TypeOK
    BY DEF BufferInv, B!TypeOK
<1>4. resp \in Tags /\ ~stall => B!proc2mem_addr \in Blocks
    BY <1>2, <1>3, RequestIsRight
<1>5. ASSUME NEW t \in Tags PROVE outstanding'[t] \in B!AnyBlock
    BY <1>1, <1>3, <1>4 DEF B!AnyBlock
<1> QED BY <1>1, <1>2, <1>5

-----------------------------------------------------------------------------
(* Delivery and insertion                                                  *)

\* Exactly the ready ones at the head are delivered, and there are that many.
LEMMA DeliveredShape ==
    ASSUME BufferInv, NEW stall \in BOOLEAN
    PROVE  /\ B!Delivered(stall) \in 0..N
           /\ B!Delivered(stall) <= B!ib_size
           /\ \A i \in 0..(B!Delivered(stall) - 1) : instr_buffer[B!index(i)].ready
           /\ stall => B!Delivered(stall) = 0
           /\ ~stall => \A i \in Ways :
                (\A j \in 0..i : instr_buffer[B!index(j)].ready) <=> i < B!Delivered(stall)
<1> DEFINE k == B!Delivered(stall)
           G == {i \in B!Ways : ~B!ready_for_decode(i)}
           r(i) == instr_buffer[B!index(i)].ready
<1>0. /\ ib_head \in B!Slots /\ ib_tail \in B!Slots /\ N \in Int /\ N >= 1
      /\ B!ib_size \in Int /\ B!ib_size >= 0
    BY SizeIs, SizeShape, BufferConstants DEF BufferInv, B!TypeOK
<1>1. /\ ib_head = ib_tail => \A i \in B!Ways : ~r(i)
      /\ ib_head # ib_tail => N <= B!ib_size
    <2>1. ib_head = ib_tail => B!ib_size = 0
        BY <1>0, SizeIs, BufferConstants DEF SizeOf
    <2>2. \A i \in B!Ways : B!index(i) \in B!Slots
        BY <1>0, SlotOfAge, BufferConstants DEF B!index
    <2> QED BY <1>0, <2>1, <2>2 DEF BufferInv, B!Occupancy
<1>2. CASE stall
    <2>1. k = 0
        BY <1>2 DEF B!Delivered
    <2>2. 0 \in 0..N /\ \A i : ~(i \in 0..(0 - 1))
        BY <1>0
    <2> HIDE DEF k
    <2>3. \A i \in 0..(k - 1) : r(i)
        BY <2>1, <2>2
    <2>4. k \in 0..N /\ k <= B!ib_size
        BY <1>0, <2>1, <2>2
    <2> QED BY <1>2, <2>1, <2>3, <2>4 DEF k
<1>3. CASE ~stall /\ B!all_ready
    <2>1. k = N
        BY <1>3 DEF B!Delivered, B!all_ready, B!ready_for_decode
    <2>2. ib_head # ib_tail /\ \A i \in B!Ways : r(i)
        BY <1>3 DEF B!all_ready, B!ready_for_decode
    <2>3. \A i \in Ways : i < N /\ \A j \in 0..i : j \in B!Ways
        BY BufferConstants
    <2>4. \A i \in 0..(N - 1) : i \in B!Ways
        BY BufferConstants
    <2> HIDE DEF k
    <2>5. k \in 0..N /\ k <= B!ib_size
        BY <1>0, <1>1, <2>1, <2>2
    <2>6. \A i \in 0..(k - 1) : r(i)
        BY <2>1, <2>2, <2>4
    <2>7. \A i \in Ways : (\A j \in 0..i : r(j)) <=> i < k
        BY <2>1, <2>2, <2>3
    <2> QED BY <1>3, <2>5, <2>6, <2>7 DEF k
<1>4. CASE ~stall /\ ~B!all_ready
    <2>1. G # {}
        <3>1. CASE ib_head = ib_tail
            <4>1. 0 \in B!Ways
                BY BufferConstants
            <4> QED BY <1>1, <3>1, <4>1 DEF B!ready_for_decode
        <3>2. CASE ib_head # ib_tail
            BY <1>4, <3>2 DEF B!all_ready
        <3> QED BY <3>1, <3>2
    <2>2. G \in SUBSET (0..(N - 1)) /\ N \in Nat
        BY <1>0 DEF B!Ways
    <2>3. PICK m \in G : \A x \in G : m <= x
        <3> HIDE DEF G
        <3> QED BY <2>1, <2>2, MinExists
    <2>4. m \in B!Ways /\ ~B!ready_for_decode(m) /\ m \in Int /\ m >= 0
        BY <2>2, <2>3
    <2>5. \A j \in 0..(m - 1) : B!ready_for_decode(j)
        <3> SUFFICES ASSUME NEW j \in 0..(m - 1) PROVE B!ready_for_decode(j)
            OBVIOUS
        <3>1. j \in B!Ways /\ ~(m <= j)
            BY <2>4, BufferConstants
        <3> QED BY <2>3, <3>1
    <2>6. k = B!FirstNotReady
        <3>1. \E i \in B!Ways : ~B!ready_for_decode(i)
            BY <2>4
        <3> QED BY <1>4, <3>1 DEF B!Delivered
    <2>7. /\ k \in B!Ways /\ ~B!ready_for_decode(k)
          /\ \A j \in 0..(k - 1) : B!ready_for_decode(j)
        BY <2>4, <2>5, <2>6 DEF B!FirstNotReady
    <2> HIDE DEF k
    <2>8. k \in Int /\ 0 <= k /\ k < N
        BY <2>7, BufferConstants
    <2>9. k <= B!ib_size
        <3>1. CASE ib_head = ib_tail
            <4>1. k > 0 => 0 \in 0..(k - 1) /\ 0 \in B!Ways
                BY <2>8, BufferConstants
            <4>2. k = 0
                BY <1>1, <2>7, <2>8, <3>1, <4>1 DEF B!ready_for_decode
            <4> QED BY <1>0, <4>2
        <3>2. CASE ib_head # ib_tail
            BY <1>0, <1>1, <2>8, <3>2
        <3> QED BY <3>1, <3>2
    <2>10. ASSUME NEW i \in Ways
           PROVE  (\A j \in 0..i : r(j)) <=> i < k
        <3>1. i \in Int /\ 0 <= i
            BY BufferConstants
        <3>2. CASE i < k
            <4>1. \A j \in 0..i : j \in 0..(k - 1)
                BY <2>8, <3>1, <3>2
            <4> QED BY <2>7, <3>2, <4>1 DEF B!ready_for_decode
        <3>3. CASE ~(i < k)
            <4>1. k \in 0..i
                BY <2>8, <3>1, <3>3
            <4> QED BY <2>7, <3>3, <4>1 DEF B!ready_for_decode
        <3> QED BY <3>2, <3>3
    <2>11. k \in 0..N
        BY <2>8, <1>0
    <2>12. \A i \in 0..(k - 1) : r(i)
        BY <2>7 DEF B!ready_for_decode
    <2> QED BY <1>4, <2>9, <2>10, <2>11, <2>12 DEF k
<1> QED BY <1>2, <1>3, <1>4

\* How many are inserted.
Inserting == IF B!ib_structural_hazard THEN 0 ELSE N

LEMMA TargetShape ==
    ASSUME ib_head \in B!Slots, ib_tail \in B!Slots, NEW s \in B!Slots, NEW i \in Ways
    PROVE  i \in B!Target(s) <=>
                /\ ~B!ib_structural_hazard
                /\ AgeFrom(ib_head, s) = B!ib_size + i
<1>1. B!ib_size \in B!Slots /\ ib_tail = B!Wrap(ib_head + B!ib_size)
    BY SizeIs, SizeShape
<1>2. i \in B!Ways /\ i \in Nat /\ i < N /\ B!ib_size \in Nat
    BY <1>1, BufferConstants
<1> SUFFICES ASSUME ~B!ib_structural_hazard
             PROVE  B!insert_indices(i) = s <=> AgeFrom(ib_head, s) = B!ib_size + i
    BY <1>2 DEF B!Target
<1>3. B!ib_size + N < INSTR_BUFFER_LEN
    BY <1>1, BufferConstants DEF B!ib_structural_hazard
<1>4. B!ib_size + i <= INSTR_BUFFER_LEN /\ B!ib_size + i \in B!Slots
    BY <1>2, <1>3, BufferConstants
<1>5. B!insert_indices(i) = B!Wrap(ib_head + (B!ib_size + i))
    BY <1>1, <1>2, <1>4, WrapTwice DEF B!insert_indices
<1> QED BY <1>4, <1>5, AgeOfSlot, SlotOfAge

\* Where an insertion goes to: the slot whose age is the old size plus the way.
LEMMA TargetIs ==
    ASSUME ib_head \in B!Slots, ib_tail \in B!Slots, NEW s \in B!Slots
    PROVE  LET a == AgeFrom(ib_head, s)
           IN /\ B!Target(s) # {} <=> B!ib_size <= a /\ a < B!ib_size + Inserting
              /\ B!Target(s) # {} =>
                    /\ (CHOOSE i \in B!Target(s) : TRUE) = a - B!ib_size
                    /\ a - B!ib_size \in Ways
<1> DEFINE a == AgeFrom(ib_head, s)
<1>1. a \in Int /\ B!ib_size \in Int /\ N \in Int /\ N >= 1
    BY AgeOfSlot, SizeIs, SizeShape, BufferConstants
<1>2. ASSUME NEW i \in B!Target(s)
      PROVE  i \in Ways /\ i = a - B!ib_size /\ ~B!ib_structural_hazard
    <2>1. i \in Ways /\ i \in Int
        BY BufferConstants DEF B!Target
    <2>2. ~B!ib_structural_hazard /\ a = B!ib_size + i
        BY <2>1, TargetShape
    <2> HIDE DEF a
    <2> QED BY <1>1, <2>1, <2>2
<1>3. ASSUME B!ib_size <= a, a < B!ib_size + Inserting
      PROVE  a - B!ib_size \in B!Target(s)
    <2> HIDE DEF a
    <2>1. ~B!ib_structural_hazard
        BY <1>1, <1>3 DEF Inserting
    <2>2. a - B!ib_size \in Ways /\ a = B!ib_size + (a - B!ib_size)
        BY <1>1, <1>3, <2>1, BufferConstants DEF Inserting
    <2> QED BY <2>1, <2>2, TargetShape DEF a
<1>4. B!Target(s) # {} <=> B!ib_size <= a /\ a < B!ib_size + Inserting
    <2>1. ASSUME NEW i \in B!Target(s)
          PROVE  B!ib_size <= a /\ a < B!ib_size + Inserting
        <3>1. i \in Ways /\ i \in Int /\ 0 <= i /\ i < N
            BY <1>2, BufferConstants
        <3>2. i = a - B!ib_size /\ ~B!ib_structural_hazard
            BY <1>2
        <3> HIDE DEF a
        <3> QED BY <1>1, <3>1, <3>2 DEF Inserting
    <2> QED BY <1>3, <2>1
<1>5. B!Target(s) # {} => (CHOOSE i \in B!Target(s) : TRUE) \in B!Target(s)
    OBVIOUS
<1> HIDE DEF a
<1> QED BY <1>2, <1>4, <1>5 DEF a

-----------------------------------------------------------------------------
(* The buffer after an edge                                                *)

\* A slot after the edge by its age before it: those behind the tail take the
\* group, the others keep their PC, and only take an answer or record a tag.
SlotAfter(s, group, stall, resp, ret) ==
    LET a == AgeFrom(ib_head, s)
        e == instr_buffer[s]
    IN IF B!ib_size <= a /\ a < B!ib_size + Inserting
       THEN instr_buffer'[s] = B!Inserted(group[a - B!ib_size], ret)
       ELSE \/ s \in B!Receiving(ret) /\ instr_buffer'[s] = B!Fetched(e.pc, outstanding[ret])
            \/ /\ s \notin B!Receiving(ret) /\ s \in B!Requesting(stall)
               /\ instr_buffer'[s] = [e EXCEPT !.mem_tag = resp]
            \/ s \notin B!Receiving(ret) /\ instr_buffer'[s] = e

LEMMA AdvanceShape ==
    ASSUME BufferInv, NEW group, NEW stall \in BOOLEAN, NEW resp, NEW ret,
           B!Advance(group, stall, resp, ret)
    PROVE  LET k == B!Delivered(stall)
               c == B!ib_size
           IN /\ k \in 0..N /\ k <= c /\ c \in B!Slots
              /\ c + Inserting \in B!Slots
              /\ ib_head' = B!Wrap(ib_head + k) /\ ib_head' \in B!Slots
              /\ ib_tail' = B!Wrap(ib_head + (c + Inserting)) /\ ib_tail' \in B!Slots
              /\ SizeOf(ib_head', ib_tail') = c + Inserting - k
              /\ c + Inserting - k >= N /\ c + Inserting - k \in B!Slots
              /\ \A s \in B!Slots : SlotAfter(s, group, stall, resp, ret)
<1> DEFINE k == B!Delivered(stall)
           c == B!ib_size
<1>0. ib_head \in B!Slots /\ ib_tail \in B!Slots
    BY DEF BufferInv, B!TypeOK
<1>1. k \in 0..N /\ k <= c /\ c \in B!Slots /\ ib_tail = B!Wrap(ib_head + c)
    BY <1>0, DeliveredShape, SizeIs, SizeShape
<1>2. B!ib_structural_hazard <=> INSTR_BUFFER_LEN - c <= N
    BY DEF B!ib_structural_hazard
<1>3. c = 0 \/ N <= c
    <2>1. ib_head = ib_tail => c = 0
        BY <1>0, SizeIs, BufferConstants DEF SizeOf
    <2> QED BY <2>1, BufferConstants DEF BufferInv, B!Occupancy
<1>4. ib_head' = B!Wrap(ib_head + k) /\ ib_tail' = B!n_ib_tail
    BY DEF B!Advance, B!n_ib_head
<1> HIDE DEF k, c
<1>5. /\ c + Inserting \in B!Slots /\ c + Inserting - k \in B!Slots
      /\ c + Inserting - k >= N /\ k \in B!Slots
      /\ k \in Nat /\ c \in Nat /\ N \in Nat /\ c + Inserting - k \in Nat
    BY <1>1, <1>2, <1>3, BufferConstants DEF Inserting
<1>6. ib_tail' = B!Wrap(ib_head + (c + Inserting))
    <2>1. CASE B!ib_structural_hazard
        <3>1. c + Inserting = c
            BY <1>5, <2>1 DEF Inserting
        <3> QED BY <1>1, <1>4, <2>1, <3>1 DEF B!n_ib_tail
    <2>2. CASE ~B!ib_structural_hazard
        <3>1. c + N <= INSTR_BUFFER_LEN /\ Inserting = N
            BY <1>5, <2>2, BufferConstants DEF Inserting
        <3>2. B!Wrap(B!Wrap(ib_head + c) + N) = B!Wrap(ib_head + (c + N))
            BY <1>0, <1>5, <3>1, WrapTwice
        <3> QED BY <1>1, <1>4, <2>2, <3>1, <3>2 DEF B!n_ib_tail
    <2> QED BY <2>1, <2>2
<1>7. ib_head' \in B!Slots /\ ib_tail' \in B!Slots
    BY <1>0, <1>4, <1>5, <1>6, SlotOfAge
<1>8. ib_tail' = B!Wrap(ib_head' + (c + Inserting - k))
    <2>1. PICK b \in Nat : b = c + Inserting - k
        BY <1>5
    <2>2. k + b = c + Inserting /\ k + b <= INSTR_BUFFER_LEN
        BY <1>5, <2>1, BufferConstants DEF Inserting
    <2>3. B!Wrap(B!Wrap(ib_head + k) + b) = B!Wrap(ib_head + (k + b))
        BY <1>0, <1>5, <2>2, WrapTwice
    <2> QED BY <1>4, <1>6, <2>1, <2>2, <2>3
<1>9. SizeOf(ib_head', ib_tail') = c + Inserting - k
    BY <1>5, <1>7, <1>8, SizeFrom
<1>10. ASSUME NEW s \in B!Slots
       PROVE  SlotAfter(s, group, stall, resp, ret)
    <2> DEFINE e == instr_buffer[s]
               a == AgeFrom(ib_head, s)
               requesting == B!Requesting(stall) \ B!Receiving(ret)
    <2>1. instr_buffer'[s] =
            CASE B!Target(s) # {} ->
                    B!Inserted(group[CHOOSE i \in B!Target(s) : TRUE], ret)
              [] B!Target(s) = {} /\ s \in B!Receiving(ret) ->
                    B!Fetched(e.pc, outstanding[ret])
              [] B!Target(s) = {} /\ s \in requesting -> [e EXCEPT !.mem_tag = resp]
              [] OTHER -> e
        BY DEF B!Advance, B!n_instr_buffer
    <2>2. /\ B!Target(s) # {} <=> B!ib_size <= a /\ a < B!ib_size + Inserting
          /\ B!Target(s) # {} => (CHOOSE i \in B!Target(s) : TRUE) = a - B!ib_size
        BY <1>0, TargetIs
    <2> HIDE DEF a
    <2>3. CASE B!Target(s) # {}
        <3>1. instr_buffer'[s] = B!Inserted(group[a - B!ib_size], ret)
            BY <2>1, <2>2, <2>3
        <3> QED BY <2>2, <2>3, <3>1 DEF SlotAfter, a
    <2>4. CASE B!Target(s) = {}
        <3>1. \/ s \in B!Receiving(ret) /\ instr_buffer'[s] = B!Fetched(e.pc, outstanding[ret])
              \/ /\ s \notin B!Receiving(ret) /\ s \in B!Requesting(stall)
                 /\ instr_buffer'[s] = [e EXCEPT !.mem_tag = resp]
              \/ s \notin B!Receiving(ret) /\ instr_buffer'[s] = e
            <4>1. CASE s \in B!Receiving(ret)
                BY <2>1, <2>4, <4>1
            <4>2. CASE s \in requesting
                BY <2>1, <2>4, <4>2
            <4>3. CASE s \notin B!Receiving(ret) /\ s \notin requesting
                BY <2>1, <2>4, <4>3
            <4> QED BY <4>1, <4>2, <4>3
        <3> QED BY <2>2, <2>4, <3>1 DEF SlotAfter, a
    <2> QED BY <2>3, <2>4
<1> QED BY <1>1, <1>4, <1>5, <1>6, <1>7, <1>9, <1>10 DEF k, c

\* Is s one of the slots the group goes to?
Entering(s) ==
    LET a == AgeFrom(ib_head, s) IN B!ib_size <= a /\ a < B!ib_size + Inserting

\* A slot that no instruction enters keeps its PC, and its instruction once it
\* has it.
LEMMA KeptSlot ==
    ASSUME BufferInv, NEW s \in B!Slots, ~Entering(s), NEW group, NEW stall \in BOOLEAN,
           NEW resp \in AnyTags, NEW ret \in AnyTags,
           SlotAfter(s, group, stall, resp, ret)
    PROVE  /\ instr_buffer'[s] \in B!Station
           /\ SlotFaithful(instr_buffer'[s])
           /\ instr_buffer'[s].pc = instr_buffer[s].pc
           /\ instr_buffer[s].ready => /\ instr_buffer'[s].ready
                                       /\ instr_buffer'[s].inst = instr_buffer[s].inst
<1> DEFINE e == instr_buffer[s]
<1>0. /\ B!TypeOK /\ e \in B!Station /\ SlotFaithful(e) /\ e.pc \in F!PC
      /\ Block[e.pc] \in Blocks /\ B!BlockOf(s) = Block[e.pc]
    BY StationFields DEF BufferInv, SlotsFaithful
<1>1. \/ s \in B!Receiving(ret) /\ instr_buffer'[s] = B!Fetched(e.pc, outstanding[ret])
      \/ /\ s \notin B!Receiving(ret) /\ s \in B!Requesting(stall)
         /\ instr_buffer'[s] = [e EXCEPT !.mem_tag = resp]
      \/ s \notin B!Receiving(ret) /\ instr_buffer'[s] = e
    BY DEF SlotAfter, Entering
<1>2. CASE s \in B!Receiving(ret) /\ instr_buffer'[s] = B!Fetched(e.pc, outstanding[ret])
    <2>1. outstanding[ret] = Block[e.pc]
        BY <1>0, <1>2, AnswerIsRight
    <2>2. instr_buffer'[s] = [pc |-> e.pc, ready |-> TRUE, mem_tag |-> NoTag, inst |-> Block[e.pc]]
        BY <1>2, <2>1 DEF B!Fetched
    <2> QED BY <1>0, <2>2 DEF B!Station, B!AnyBlock, SlotFaithful
<1>3. CASE s \in B!Requesting(stall) /\ instr_buffer'[s] = [e EXCEPT !.mem_tag = resp]
    <2>1. ~e.ready
        BY <1>0, <1>3, RequestIsRight
    <2> QED BY <1>0, <1>3, <2>1 DEF B!Station, SlotFaithful, AnyTags
<1>4. CASE instr_buffer'[s] = e
    BY <1>0, <1>4
<1> QED BY <1>1, <1>2, <1>3, <1>4

LEMMA EnteredSlot ==
    ASSUME BufferInv, NEW s \in B!Slots, Entering(s), NEW group \in Groups, NEW stall,
           NEW resp, NEW ret, SlotAfter(s, group, stall, resp, ret)
    PROVE  /\ instr_buffer'[s] \in B!Station
           /\ SlotFaithful(instr_buffer'[s])
           /\ instr_buffer'[s].mem_tag = NoTag
           /\ AgeFrom(ib_head, s) - B!ib_size \in Ways
           /\ instr_buffer'[s].pc = group[AgeFrom(ib_head, s) - B!ib_size]
<1>1. ib_head \in B!Slots /\ ib_tail \in B!Slots
    BY DEF BufferInv, B!TypeOK
<1>2. AgeFrom(ib_head, s) - B!ib_size \in Ways
    BY <1>1, TargetIs DEF Entering
<1>3. PICK i \in Ways : i = AgeFrom(ib_head, s) - B!ib_size
    BY <1>2
<1>4. instr_buffer'[s] = B!Inserted(group[i], ret)
    BY <1>3 DEF SlotAfter, Entering
<1>5. group[i] \in F!PC
    <2>1. i \in 0..(N - 1)
        BY BufferConstants
    <2> QED BY <2>1 DEF Groups
<1> QED BY <1>3, <1>4, <1>5, InsertedShape

\* The slots in use after an edge.
LEMMA UsedAfter ==
    ASSUME BufferInv, NEW group, NEW stall \in BOOLEAN, NEW resp, NEW ret,
           B!Advance(group, stall, resp, ret), NEW s \in B!valid'
    PROVE  /\ s \in B!Slots
           /\ s \in B!valid \/ Entering(s)
<1> DEFINE k == B!Delivered(stall)
           c == B!ib_size
<1>1. /\ k \in 0..N /\ k <= c /\ c \in B!Slots /\ c + Inserting \in B!Slots
      /\ ib_head' = B!Wrap(ib_head + k) /\ ib_head' \in B!Slots /\ ib_tail' \in B!Slots
      /\ SizeOf(ib_head', ib_tail') = c + Inserting - k
    BY AdvanceShape
<1>2. ib_head \in B!Slots /\ ib_tail \in B!Slots
    BY DEF BufferInv, B!TypeOK
<1>3. s \in UsedBy(ib_head', ib_tail')
    BY DEF B!valid, UsedBy
<1>4. s \in B!Slots /\ AgeFrom(ib_head', s) < c + Inserting - k
    BY <1>1, <1>3, SizeShape
<1>5. k \in B!Slots
    BY <1>1, BufferConstants
<1>6. AgeFrom(ib_head', s) =
        IF AgeFrom(ib_head, s) >= k THEN AgeFrom(ib_head, s) - k
                                    ELSE AgeFrom(ib_head, s) - k + INSTR_BUFFER_LEN
    BY <1>1, <1>2, <1>4, <1>5, HeadMoves
<1>7. AgeFrom(ib_head, s) \in B!Slots
    BY <1>2, <1>4, AgeOfSlot
<1>8. AgeFrom(ib_head, s) < c + Inserting
    <2> DEFINE a == AgeFrom(ib_head, s)
               b == AgeFrom(ib_head', s)
    <2>1. b \in Int /\ a \in Int /\ k \in Int /\ c \in Int /\ Inserting \in Int
        BY <1>1, <1>4, <1>7, AgeOfSlot, BufferConstants DEF Inserting
    <2>2. b < c + Inserting - k /\ k <= c /\ 0 <= Inserting
        BY <1>1, <1>4, BufferConstants DEF Inserting
    <2>3. b = IF a >= k THEN a - k ELSE a - k + INSTR_BUFFER_LEN
        BY <1>6
    <2> HIDE DEF k, c, a, b
    <2>4. a < c + Inserting
        BY <2>1, <2>2, <2>3, BufferConstants
    <2> QED BY <2>4 DEF a
<1>9. s \in B!valid <=> AgeFrom(ib_head, s) < c
    BY <1>2, <1>4, SizeIs, SizeShape
<1>10. AgeFrom(ib_head, s) < c \/ c <= AgeFrom(ib_head, s)
    <2> HIDE DEF k, c
    <2> QED BY <1>1, <1>7, BufferConstants
<1> QED BY <1>4, <1>8, <1>9, <1>10 DEF Entering

LEMMA AdvanceKeepsInv ==
    ASSUME BufferInv, NEW group \in Groups, NEW stall \in BOOLEAN,
           NEW resp \in AnyTags, NEW ret \in AnyTags,
           B!Advance(group, stall, resp, ret)
    PROVE  BufferInv'
<1>0. B!TypeOK /\ ib_head \in B!Slots /\ ib_tail \in B!Slots
    BY DEF BufferInv, B!TypeOK
<1>1. /\ ib_head' \in B!Slots /\ ib_tail' \in B!Slots
      /\ SizeOf(ib_head', ib_tail') >= N /\ SizeOf(ib_head', ib_tail') \in B!Slots
      /\ \A s \in B!Slots : SlotAfter(s, group, stall, resp, ret)
    BY AdvanceShape
<1>2. ASSUME NEW s \in B!Slots
      PROVE  instr_buffer'[s] \in B!Station /\ SlotFaithful(instr_buffer'[s])
    <2>1. CASE Entering(s)
        BY <1>1, <2>1, EnteredSlot
    <2>2. CASE ~Entering(s)
        BY <1>1, <2>2, KeptSlot
    <2> QED BY <2>1, <2>2
<1>3. /\ icache' \in [Lines -> CacheLine]
      /\ \A l \in Lines : icache'[l].block # NoData => icache'[l].data = icache'[l].block
    BY CacheAfter DEF B!Advance
<1>4. /\ outstanding' \in [Tags -> B!AnyBlock]
      /\ resp \in Tags /\ ~stall => outstanding'[resp] = B!proc2mem_addr
      /\ resp \in Tags => outstanding[resp] = NoData
      /\ \A t \in Tags : t # resp /\ t # ret => outstanding'[t] = outstanding[t]
    BY MemoryShape DEF B!Advance
<1>5. instr_buffer' \in [B!Slots -> B!Station]
    <2>1. instr_buffer' = [s \in B!Slots |-> instr_buffer'[s]]
        BY DEF B!Advance, B!n_instr_buffer
    <2> QED BY <1>2, <2>1
<1>6. B!TypeOK'
    BY <1>1, <1>3, <1>4, <1>5 DEF B!TypeOK, CacheLine
<1>7. B!Occupancy'
    <2>1. B!ib_size' = SizeOf(ib_head', ib_tail')
        BY DEF B!ib_size, SizeOf
    <2>2. B!ib_size' \in N..(INSTR_BUFFER_LEN - 1)
        BY <1>1, <2>1, BufferConstants
    <2> QED BY <2>2 DEF B!Occupancy
<1>8. SlotsFaithful'
    BY <1>2 DEF SlotsFaithful, SlotFaithful
<1>9. CacheFaithful'
    BY <1>3 DEF CacheFaithful
<1>10. ASSUME NEW s \in B!valid', instr_buffer'[s].mem_tag # NoTag
       PROVE  outstanding'[instr_buffer'[s].mem_tag] = B!BlockOf(s)'
    <2>1. s \in B!Slots /\ (s \in B!valid \/ Entering(s))
        BY UsedAfter
    <2>2. ~Entering(s)
        BY <1>1, <1>10, <2>1, EnteredSlot
    <2>3. /\ instr_buffer'[s].pc = instr_buffer[s].pc
          /\ SlotAfter(s, group, stall, resp, ret)
        BY <1>1, <2>1, <2>2, KeptSlot
    <2>4. B!BlockOf(s)' = B!BlockOf(s)
        BY <2>3 DEF B!BlockOf
    <2>5. CASE s \in B!Receiving(ret)
        <3>1. instr_buffer'[s] = B!Fetched(instr_buffer[s].pc, outstanding[ret])
            BY <2>2, <2>3, <2>5 DEF SlotAfter, Entering
        <3> QED BY <1>10, <3>1 DEF B!Fetched
    <2>6. CASE /\ s \in B!Requesting(stall)
               /\ instr_buffer'[s] = [instr_buffer[s] EXCEPT !.mem_tag = resp]
        <3>1. instr_buffer[s] \in B!Station
            BY <1>0, <2>1, StationFields
        <3>2. instr_buffer'[s].mem_tag = resp
            BY <2>6, <3>1 DEF B!Station
        <3>3. resp \in Tags
            BY <1>10, <3>2 DEF AnyTags
        <3>4. ~stall /\ B!BlockOf(s) = B!proc2mem_addr
            BY <1>0, <2>6, RequestIsRight
        <3> QED BY <1>4, <2>4, <3>2, <3>3, <3>4
    <2>7. CASE s \notin B!Receiving(ret) /\ instr_buffer'[s] = instr_buffer[s]
        <3> DEFINE tag == instr_buffer[s].mem_tag
        <3>1. tag # NoTag /\ tag \in Tags
            BY <1>0, <1>10, <2>1, <2>7, StationFields
        <3>2. outstanding[tag] = B!BlockOf(s)
            BY <2>1, <2>2, <3>1 DEF BufferInv, B!AnswersAwaited
        <3>3. B!BlockOf(s) \in Blocks /\ outstanding[tag] # NoData
            BY <1>0, <2>1, <3>2, StationFields, BufferConstants
        <3>4. ~instr_buffer[s].ready
            BY <2>1, <3>1 DEF BufferInv, SlotsFaithful, SlotFaithful
        <3>5. tag # ret
            BY <2>1, <2>2, <2>7, <3>1, <3>4 DEF B!Receiving, B!Matching
        <3>6. tag # resp
            BY <1>4, <3>1, <3>3
        <3> QED BY <1>4, <2>4, <2>7, <3>1, <3>2, <3>5, <3>6
    <2> QED BY <2>2, <2>3, <2>5, <2>6, <2>7 DEF SlotAfter, Entering
<1>11. B!AnswersAwaited'
    BY <1>10 DEF B!AnswersAwaited
<1> QED BY <1>6, <1>7, <1>8, <1>9, <1>11 DEF BufferInv

\* A cleared buffer.
LEMMA ClearedShape ==
    ASSUME NEW b, b = B!Cleared
    PROVE  /\ b \in [B!Slots -> B!Station]
           /\ \A s \in B!Slots : SlotFaithful(b[s]) /\ ~b[s].ready
<1>1. \A s \in B!Slots : b[s] = [pc |-> 0, ready |-> FALSE, mem_tag |-> NoTag, inst |-> NoData]
    BY DEF B!Cleared, B!Fetching
<1>2. b = [s \in B!Slots |-> b[s]]
    BY DEF B!Cleared
<1>3. [pc |-> 0, ready |-> FALSE, mem_tag |-> NoTag, inst |-> NoData] \in B!Station
    <2>1. 0 \in F!PC
        BY FetchConstants
    <2> QED BY <2>1 DEF B!Station, B!AnyBlock
<1>4. \A s \in B!Slots : SlotFaithful(b[s]) /\ ~b[s].ready
    BY <1>1 DEF SlotFaithful
<1>5. \A s \in B!Slots : b[s] \in B!Station
    BY <1>1, <1>3
<1> QED BY <1>2, <1>4, <1>5

LEMMA NukeKeepsInv ==
    ASSUME BufferInv, NEW stall \in BOOLEAN, NEW resp \in AnyTags, NEW ret \in AnyTags,
           B!Nuke(stall, resp, ret)
    PROVE  BufferInv'
<1>1. ib_head' = 0 /\ ib_tail' = 0 /\ 0 \in B!Slots /\ 0 \in Int
    BY BufferConstants DEF B!Nuke
<1>2. /\ instr_buffer' \in [B!Slots -> B!Station]
      /\ \A s \in B!Slots : SlotFaithful(instr_buffer'[s]) /\ ~instr_buffer'[s].ready
    <2>1. instr_buffer' = B!Cleared
        BY DEF B!Nuke
    <2> QED BY <2>1, ClearedShape
<1>3. /\ icache' \in [Lines -> CacheLine]
      /\ \A l \in Lines : icache'[l].block # NoData => icache'[l].data = icache'[l].block
    BY CacheAfter DEF B!Nuke
<1>4. outstanding' \in [Tags -> B!AnyBlock]
    BY MemoryShape DEF B!Nuke
<1>5. B!TypeOK'
    BY <1>1, <1>2, <1>3, <1>4 DEF B!TypeOK, CacheLine
<1>6. B!Occupancy'
    BY <1>1, <1>2 DEF B!Occupancy
<1>7. SlotsFaithful'
    BY <1>2 DEF SlotsFaithful, SlotFaithful
<1>8. CacheFaithful'
    BY <1>3 DEF CacheFaithful
<1>9. B!valid' = {}
    <2>1. B!valid' = {s \in B!Slots : s >= 0 /\ s < 0}
        BY <1>1 DEF B!valid
    <2> QED BY <2>1, BufferConstants
<1>10. B!AnswersAwaited'
    BY <1>9 DEF B!AnswersAwaited
<1> QED BY <1>5, <1>6, <1>7, <1>8, <1>10 DEF BufferInv

LEMMA BufferInit == B!Init => BufferInv
<1> SUFFICES ASSUME B!Init PROVE BufferInv
    OBVIOUS
<1>1. ib_head = 0 /\ ib_tail = 0 /\ 0 \in B!Slots
    BY BufferConstants DEF B!Init
<1>2. /\ instr_buffer \in [B!Slots -> B!Station]
      /\ \A s \in B!Slots : SlotFaithful(instr_buffer[s]) /\ ~instr_buffer[s].ready
    BY ClearedShape DEF B!Init
<1>3. icache = [l \in Lines |-> [block |-> NoData, data |-> NoData]]
    BY DEF B!Init
<1>4. icache \in [Lines -> CacheLine] /\ CacheFaithful
    BY <1>3 DEF CacheLine, CacheFaithful, B!AnyBlock
<1>5. outstanding \in [Tags -> B!AnyBlock]
    BY DEF B!Init, B!AnyBlock
<1>6. B!TypeOK
    BY <1>1, <1>2, <1>4, <1>5 DEF B!TypeOK, CacheLine
<1>7. B!valid = {}
    <2>1. B!valid = {s \in B!Slots : s >= 0 /\ s < 0}
        BY <1>1 DEF B!valid
    <2> QED BY <2>1, BufferConstants
<1> QED BY <1>1, <1>2, <1>4, <1>6, <1>7
        DEF BufferInv, B!Occupancy, SlotsFaithful, B!AnswersAwaited

-----------------------------------------------------------------------------
(* The path through the buffer to decode                                   *)

\* The NPC of every buffered instruction is the PC of the one behind it, and
\* that of the youngest is the first PC being fetched.
Chained ==
    \A s \in B!valid :
        /\ buffer_NPC[s] \in F!Successors(instr_buffer[s].pc)
        /\ buffer_NPC[s] = IF B!Wrap(s + 1) = ib_tail THEN PCs_reg[0]
                           ELSE instr_buffer[B!Wrap(s + 1)].pc

\* Decode waits for the oldest instruction in the buffer, once it has taken
\* what IF/ID holds.
HeadAwaited ==
    n_awaited = IF ib_head = ib_tail THEN PCs_reg[0] ELSE instr_buffer[ib_head].pc

Packet == [valid : BOOLEAN, PC : F!PC, NPC : F!PC, inst : B!AnyBlock]

DecodeInv ==
    /\ buffer_NPC \in [B!Slots -> F!PC]
    /\ if_id_packet_out \in [Ways -> Packet]
    /\ awaited \in F!PC
    /\ Chained
    /\ HeadAwaited
    /\ DecodeFollowsPath

\* Sequential, n_awaited and DecodeFollowsPath of a given IF/ID register.
SequentialOf(p) == {i \in Ways : \A j \in 0..i : p[j].valid}
AwaitedOf(p, aw) ==
    IF SequentialOf(p) = {} THEN aw
    ELSE p[CHOOSE i \in SequentialOf(p) : \A j \in SequentialOf(p) : j <= i].NPC
DecodedOK(p, aw) ==
    \A i \in SequentialOf(p) :
        /\ p[i].PC = IF i = 0 THEN aw ELSE p[i - 1].NPC
        /\ p[i].NPC \in F!Successors(p[i].PC)
        /\ p[i].inst = Block[p[i].PC]

LEMMA DecodeOf ==
    /\ n_awaited = AwaitedOf(if_id_packet_out, awaited)
    /\ DecodeFollowsPath <=> DecodedOK(if_id_packet_out, awaited)
    /\ n_awaited' = AwaitedOf(if_id_packet_out', awaited')
    /\ DecodeFollowsPath' <=> DecodedOK(if_id_packet_out', awaited')
BY DEF n_awaited, AwaitedOf, Sequential, SequentialOf, Youngest, DecodeFollowsPath,
       DecodedOK, F!Successors

LEMMA AwaitedShape ==
    ASSUME NEW p, NEW aw, NEW m \in 0..N, SequentialOf(p) = 0..(m - 1)
    PROVE  AwaitedOf(p, aw) = IF m = 0 THEN aw ELSE p[m - 1].NPC
<1>1. CASE m = 0
    <2>1. SequentialOf(p) = {}
        BY <1>1
    <2> QED BY <1>1, <2>1 DEF AwaitedOf
<1>2. CASE m # 0
    <2>1. m \in Int /\ m >= 1 /\ m - 1 \in 0..(m - 1) /\ \A j \in 0..(m - 1) : j <= m - 1
        BY <1>2, BufferConstants
    <2>2. (CHOOSE i \in 0..(m - 1) : \A j \in 0..(m - 1) : j <= i) = m - 1
        <3>1. \A i \in 0..(m - 1) : (\A j \in 0..(m - 1) : j <= i) => i = m - 1
            BY <2>1
        <3> QED BY <2>1, <3>1
    <2>3. SequentialOf(p) # {}
        BY <2>1
    <2> QED BY <1>2, <2>2, <2>3 DEF AwaitedOf
<1> QED BY <1>1, <1>2

LEMMA AwaitedType ==
    ASSUME NEW p \in [Ways -> Packet], NEW aw \in F!PC
    PROVE  AwaitedOf(p, aw) \in F!PC
<1>1. SequentialOf(p) \in SUBSET (0..(N - 1)) /\ N \in Nat
    BY BufferConstants DEF SequentialOf
<1>2. \A i \in SequentialOf(p) : \A j \in 0..i : j \in SequentialOf(p)
    <2> SUFFICES ASSUME NEW i \in SequentialOf(p), NEW j \in 0..i
                 PROVE  j \in SequentialOf(p)
        OBVIOUS
    <2>1. i \in Ways /\ i \in 0..(N - 1)
        BY <1>1 DEF SequentialOf
    <2>2. j \in Ways /\ \A l \in 0..j : l \in 0..i
        BY <2>1, BufferConstants
    <2> QED BY <2>2 DEF SequentialOf
<1>3. PICK m \in 0..N : SequentialOf(p) = 0..(m - 1)
    BY <1>1, <1>2, PrefixOfWays
<1>4. m # 0 => m - 1 \in Ways
    BY BufferConstants
<1> QED BY <1>3, <1>4, AwaitedShape DEF Packet

\* The slot behind a slot.
LEMMA NextSlot ==
    ASSUME NEW h \in B!Slots, NEW s \in B!Slots, AgeFrom(h, s) + 1 < INSTR_BUFFER_LEN
    PROVE  /\ B!Wrap(s + 1) \in B!Slots
           /\ AgeFrom(h, B!Wrap(s + 1)) = AgeFrom(h, s) + 1
BY BufferConstants DEF AgeFrom, B!Wrap

LEMMA SameAge ==
    ASSUME NEW h \in B!Slots, NEW s \in B!Slots, NEW t \in B!Slots
    PROVE  s = t <=> AgeFrom(h, s) = AgeFrom(h, t)
BY AgeOfSlot

\* Where tail and head are after an edge, in ages from the old head.
LEMMA EndsAfter ==
    ASSUME BufferInv, NEW group, NEW stall \in BOOLEAN, NEW resp, NEW ret,
           B!Advance(group, stall, resp, ret)
    PROVE  LET k == B!Delivered(stall)
               c == B!ib_size
           IN /\ ib_head \in B!Slots /\ ib_tail \in B!Slots
              /\ ib_head' \in B!Slots /\ ib_tail' \in B!Slots
              /\ AgeFrom(ib_head, ib_tail) = c
              /\ AgeFrom(ib_head, ib_head') = k
              /\ AgeFrom(ib_head, ib_tail') = c + Inserting
              /\ k \in Int /\ c \in Int /\ 0 <= k /\ k <= c
              /\ Inserting \in {0, N} /\ c + Inserting < INSTR_BUFFER_LEN
              /\ k = c => Inserting = N
              /\ ib_head' # ib_tail'
<1> DEFINE k == B!Delivered(stall)
           c == B!ib_size
<1>1. /\ k \in 0..N /\ k <= c /\ c \in B!Slots /\ c + Inserting \in B!Slots
      /\ ib_head' = B!Wrap(ib_head + k) /\ ib_head' \in B!Slots
      /\ ib_tail' = B!Wrap(ib_head + (c + Inserting)) /\ ib_tail' \in B!Slots
      /\ c + Inserting - k >= N
    BY AdvanceShape
<1>2. ib_head \in B!Slots /\ ib_tail \in B!Slots
    BY DEF BufferInv, B!TypeOK
<1>3. ib_tail = B!Wrap(ib_head + c)
    BY <1>2, SizeIs, SizeShape
<1>4. k \in B!Slots
    BY <1>1, BufferConstants
<1>5. /\ AgeFrom(ib_head, ib_tail) = c
      /\ AgeFrom(ib_head, ib_head') = k
      /\ AgeFrom(ib_head, ib_tail') = c + Inserting
    BY <1>1, <1>2, <1>3, <1>4, SlotOfAge
<1> HIDE DEF k, c
<1>6. /\ k \in Int /\ c \in Int /\ 0 <= k /\ Inserting \in {0, N}
      /\ c + Inserting < INSTR_BUFFER_LEN
      /\ k = c => Inserting = N
      /\ k # c + Inserting
    BY <1>1, BufferConstants DEF Inserting
<1>7. ib_head' # ib_tail'
    BY <1>5, <1>6
<1> QED BY <1>1, <1>2, <1>5, <1>6, <1>7 DEF k, c

\* The oldest instruction after an edge.
LEMMA HeadPC ==
    ASSUME BufferInv, PCs_reg \in Groups, NEW stall \in BOOLEAN,
           NEW resp \in AnyTags, NEW ret \in AnyTags,
           B!Advance(PCs_reg, stall, resp, ret)
    PROVE  instr_buffer'[ib_head'].pc =
                IF ib_head' = ib_tail THEN PCs_reg[0] ELSE instr_buffer[ib_head'].pc
<1> DEFINE k == B!Delivered(stall)
           c == B!ib_size
<1>1. /\ ib_head \in B!Slots /\ ib_tail \in B!Slots /\ ib_head' \in B!Slots
      /\ AgeFrom(ib_head, ib_tail) = c /\ AgeFrom(ib_head, ib_head') = k
      /\ k \in Int /\ c \in Int /\ k <= c
      /\ k = c => Inserting = N
    BY EndsAfter
<1>2. SlotAfter(ib_head', PCs_reg, stall, resp, ret)
    BY <1>1, AdvanceShape
<1>3. ib_head' = ib_tail <=> k = c
    BY <1>1, SameAge
<1>4. CASE k = c
    <2>1. Entering(ib_head')
        BY <1>1, <1>4, BufferConstants DEF Entering
    <2>2. AgeFrom(ib_head, ib_head') - B!ib_size = 0
        BY <1>1, <1>4
    <2>3. instr_buffer'[ib_head'].pc = PCs_reg[0]
        BY <1>1, <1>2, <2>1, <2>2, EnteredSlot
    <2> QED BY <1>3, <1>4, <2>3
<1>5. CASE k # c
    <2>1. ~Entering(ib_head')
        BY <1>1, <1>5 DEF Entering
    <2>2. instr_buffer'[ib_head'].pc = instr_buffer[ib_head'].pc
        BY <1>1, <1>2, <2>1, KeptSlot
    <2> QED BY <1>3, <1>5, <2>2
<1> QED BY <1>4, <1>5

LEMMA ChainedAfter ==
    ASSUME BufferInv, PathInv, DecodeInv, NEW stall \in BOOLEAN,
           NEW resp \in AnyTags, NEW ret \in AnyTags,
           NEW predicted \in F!Predictions,
           B!Advance(PCs_reg, stall, resp, ret), FetchStep(predicted),
           buffer_NPC' = n_buffer_NPC(predicted)
    PROVE  Chained' /\ buffer_NPC' \in [B!Slots -> F!PC]
<1> DEFINE c == B!ib_size
<1>0. /\ ib_head \in B!Slots /\ ib_tail \in B!Slots /\ ib_tail' \in B!Slots
      /\ AgeFrom(ib_head, ib_tail) = c /\ AgeFrom(ib_head, ib_tail') = c + Inserting
      /\ c \in Int /\ Inserting \in {0, N} /\ c + Inserting < INSTR_BUFFER_LEN
      /\ N \in Int /\ 1 <= N
    BY EndsAfter, BufferConstants
<1>1. PCs_reg \in Groups /\ F!TypeOK
    BY DEF PathInv, F!TypeOK, Groups, F!Ways
<1>2. /\ B!ib_structural_hazard => Inserting = 0 /\ PCs_reg' = PCs_reg
      /\ ~B!ib_structural_hazard => Inserting = N /\ F!Fetch(predicted)
    BY DEF FetchStep, PC_enable, Inserting, fetchVars
<1>3. ~B!ib_structural_hazard => /\ PCs_reg' = F!n_PCs_reg(predicted)
                                 /\ PCs_reg'[0] = F!PCs_plus_4N(0)
    BY <1>1, <1>2, NextGroup DEF F!Fetch
<1>4. ASSUME NEW s \in B!Slots
      PROVE  buffer_NPC'[s] = IF Entering(s)
                              THEN F!NPCs_reg(AgeFrom(ib_head, s) - c, predicted)
                              ELSE buffer_NPC[s]
    <2>1. buffer_NPC'[s] =
            IF B!Target(s) # {} THEN F!NPCs_reg(CHOOSE i \in B!Target(s) : TRUE, predicted)
            ELSE buffer_NPC[s]
        BY DEF n_buffer_NPC
    <2> QED BY <1>0, <2>1, TargetIs DEF Entering
<1>5. ASSUME NEW s \in B!Slots
      PROVE  /\ ~Entering(s) => instr_buffer'[s].pc = instr_buffer[s].pc
             /\ Entering(s) => /\ AgeFrom(ib_head, s) - c \in Ways
                               /\ instr_buffer'[s].pc = PCs_reg[AgeFrom(ib_head, s) - c]
    <2>1. SlotAfter(s, PCs_reg, stall, resp, ret)
        BY AdvanceShape
    <2> QED BY <1>1, <2>1, KeptSlot, EnteredSlot
<1>6. ASSUME NEW i \in Ways
      PROVE  /\ i < N - 1 => /\ F!NPCs_reg(i, predicted) = PCs_reg[i + 1]
                             /\ i + 1 \in Ways
             /\ i = N - 1 => F!NPCs_reg(i, predicted) = F!PCs_plus_4N(0)
             /\ F!NPCs_reg(i, predicted) \in F!Successors(PCs_reg[i])
             /\ F!NPCs_reg(i, predicted) \in F!PC
    <2>1. i \in Int /\ 0 <= i /\ i < N
        BY BufferConstants
    <2>2. CASE i < N - 1
        <3>1. F!NPCs_reg(i, predicted) = PCs_reg[i + 1]
            BY <2>2 DEF F!NPCs_reg
        <3>2. i \in 0..(N - 2) /\ i + 1 \in Ways /\ i # N - 1
            BY <1>0, <2>1, <2>2, BufferConstants
        <3>3. PCs_reg[i + 1] \in F!PC
            BY <1>1, <3>2 DEF F!TypeOK, Ways
        <3> QED BY <2>2, <3>1, <3>2, <3>3 DEF PathInv
    <2>3. CASE i = N - 1
        <3>1. F!NPCs_reg(i, predicted) = F!PCs_plus_4N(0) /\ ~(i < N - 1)
            BY <1>0, <1>1, <2>3, NextGroup DEF F!NPCs_reg
        <3>2. F!PCs_plus_4N(0) \in F!Successors(PCs_reg[N - 1])
            BY GoesOn DEF PathInv
        <3>3. F!PCs_plus_4N(0) \in F!PC
            BY <1>1, LookedUp
        <3> QED BY <2>3, <3>1, <3>2, <3>3
    <2> QED BY <1>0, <2>1, <2>2, <2>3
<1>7. buffer_NPC' \in [B!Slots -> F!PC]
    <2>1. \A s \in B!Slots : buffer_NPC'[s] \in F!PC
        BY <1>4, <1>5, <1>6 DEF DecodeInv
    <2>2. buffer_NPC' = [s \in B!Slots |-> buffer_NPC'[s]]
        BY DEF n_buffer_NPC
    <2> QED BY <2>1, <2>2
<1>8. ASSUME NEW s \in B!valid'
      PROVE  /\ buffer_NPC'[s] \in F!Successors(instr_buffer'[s].pc)
             /\ buffer_NPC'[s] = IF B!Wrap(s + 1) = ib_tail' THEN PCs_reg'[0]
                                 ELSE instr_buffer'[B!Wrap(s + 1)].pc
    <2> DEFINE a == AgeFrom(ib_head, s)
               t == B!Wrap(s + 1)
    <2>1. s \in B!Slots /\ (s \in B!valid \/ Entering(s))
        BY UsedAfter
    <2>2. a \in Int /\ 0 <= a /\ a < c + Inserting /\ (Entering(s) <=> c <= a)
        <3>1. a \in Int /\ 0 <= a
            BY <1>0, <2>1, AgeOfSlot, BufferConstants
        <3>2. s \in B!valid => a < c
            BY <1>0, <2>1, SizeIs, SizeShape
        <3>3. Entering(s) <=> c <= a /\ a < c + Inserting
            BY DEF Entering
        <3> HIDE DEF a, c
        <3> QED BY <1>0, <2>1, <3>1, <3>2, <3>3
    <2>3. t \in B!Slots /\ AgeFrom(ib_head, t) = a + 1
        <3>1. a + 1 < INSTR_BUFFER_LEN
            <4> HIDE DEF a, c
            <4> QED BY <1>0, <2>2, BufferConstants
        <3> QED BY <1>0, <2>1, <3>1, NextSlot
    <2> HIDE DEF t
    <2>4. t = ib_tail <=> a + 1 = c
        BY <1>0, <2>3, SameAge
    <2>5. t = ib_tail' <=> a + 1 = c + Inserting
        BY <1>0, <2>3, SameAge
    <2>6. Entering(t) <=> c <= a + 1 /\ a + 1 < c + Inserting
        BY <2>3 DEF Entering
    <2>7. CASE a < c
        <3>1. ~Entering(s) /\ s \in B!valid
            BY <1>0, <2>1, <2>2, <2>7
        <3>2. /\ buffer_NPC'[s] = buffer_NPC[s]
              /\ instr_buffer'[s].pc = instr_buffer[s].pc
            BY <1>4, <1>5, <2>1, <3>1
        <3>3. /\ buffer_NPC[s] \in F!Successors(instr_buffer[s].pc)
              /\ buffer_NPC[s] = IF t = ib_tail THEN PCs_reg[0] ELSE instr_buffer[t].pc
            BY <3>1 DEF DecodeInv, Chained, t
        <3>4. CASE a + 1 = c
            <4>1. CASE B!ib_structural_hazard
                <5>1. t = ib_tail' /\ PCs_reg'[0] = PCs_reg[0]
                    BY <1>0, <1>2, <2>5, <3>4, <4>1
                <5> QED BY <2>4, <3>2, <3>3, <3>4, <5>1 DEF t
            <4>2. CASE ~B!ib_structural_hazard
                <5>1. t # ib_tail' /\ Entering(t) /\ AgeFrom(ib_head, t) - c = 0
                    <6> HIDE DEF a, c
                    <6> QED BY <1>0, <1>2, <2>2, <2>3, <2>5, <2>6, <3>4, <4>2
                <5>2. instr_buffer'[t].pc = PCs_reg[0]
                    BY <1>5, <2>3, <5>1
                <5> QED BY <2>4, <3>2, <3>3, <3>4, <5>1, <5>2 DEF t
            <4> QED BY <4>1, <4>2
        <3>5. CASE a + 1 # c
            <4>1. ~Entering(t) /\ t # ib_tail /\ t # ib_tail'
                <5> HIDE DEF a, c
                <5> QED BY <1>0, <2>2, <2>4, <2>5, <2>6, <2>7, <3>5
            <4>2. instr_buffer'[t].pc = instr_buffer[t].pc
                BY <1>5, <2>3, <4>1
            <4> QED BY <3>2, <3>3, <4>1, <4>2 DEF t
        <3> QED BY <3>4, <3>5
    <2>8. CASE c <= a
        <3>1. Entering(s) /\ ~B!ib_structural_hazard /\ Inserting = N
            <4> HIDE DEF a, c
            <4> QED BY <1>0, <1>2, <2>2, <2>8
        <3>2. PICK i \in Ways : i = a - c
            BY <1>5, <2>1, <3>1
        <3>3. buffer_NPC'[s] = F!NPCs_reg(i, predicted) /\ instr_buffer'[s].pc = PCs_reg[i]
            BY <1>4, <1>5, <2>1, <3>1, <3>2
        <3>4. buffer_NPC'[s] \in F!Successors(instr_buffer'[s].pc)
            BY <1>6, <3>3
        <3>5. i \in Int /\ 0 <= i /\ i < N
            BY BufferConstants
        <3>6. CASE i < N - 1
            <4>1. t # ib_tail' /\ Entering(t) /\ AgeFrom(ib_head, t) - c = i + 1
                <5> HIDE DEF a, c
                <5> QED BY <1>0, <2>2, <2>3, <2>5, <2>6, <3>1, <3>2, <3>5, <3>6
            <4>2. instr_buffer'[t].pc = PCs_reg[i + 1]
                BY <1>5, <2>3, <4>1
            <4>3. F!NPCs_reg(i, predicted) = PCs_reg[i + 1]
                BY <1>6, <3>6
            <4> QED BY <3>3, <3>4, <4>1, <4>2, <4>3 DEF t
        <3>7. CASE i = N - 1
            <4>1. t = ib_tail'
                <5> HIDE DEF a, c
                <5> QED BY <1>0, <2>2, <2>5, <3>1, <3>2, <3>7
            <4>2. F!NPCs_reg(i, predicted) = PCs_reg'[0]
                BY <1>3, <1>6, <3>1, <3>7
            <4> QED BY <3>3, <3>4, <4>1, <4>2 DEF t
        <3> QED BY <1>0, <3>5, <3>6, <3>7
    <2>9. a < c \/ c <= a
        <3> HIDE DEF a, c
        <3> QED BY <1>0, <2>2
    <2> QED BY <2>7, <2>8, <2>9
<1>9. Chained'
    BY <1>8 DEF Chained, F!Successors, F!Plus4, B!Wrap
<1> QED BY <1>7, <1>9

\* What the buffer offers to IF/ID.
LEMMA OfferedShape ==
    ASSUME BufferInv, DecodeInv, ~(ib_head = ib_tail /\ B!Delivered(FALSE) # 0)
    PROVE  /\ if_packet_out \in [Ways -> Packet]
           /\ SequentialOf(if_packet_out) = 0..(B!Delivered(FALSE) - 1)
           /\ DecodedOK(if_packet_out, n_awaited)
           /\ B!Delivered(FALSE) # 0 =>
                if_packet_out[B!Delivered(FALSE) - 1].NPC
                    = buffer_NPC[B!index(B!Delivered(FALSE) - 1)]
<1>a. PICK k : k = B!Delivered(FALSE)
    OBVIOUS
<1>b. PICK p : p = if_packet_out
    OBVIOUS
<1>0. /\ B!TypeOK /\ ib_head \in B!Slots /\ ib_tail \in B!Slots /\ N \in Int /\ 1 <= N
      /\ \A i : i \in Ways <=> i \in Int /\ 0 <= i /\ i < N
    BY BufferConstants DEF BufferInv, B!TypeOK
<1>1. /\ k \in 0..N /\ k <= B!ib_size
      /\ \A i \in 0..(k - 1) : instr_buffer[B!index(i)].ready
      /\ \A i \in Ways : (\A j \in 0..i : instr_buffer[B!index(j)].ready) <=> i < k
    BY <1>a, DeliveredShape
<1>2. /\ B!ib_size \in B!Slots /\ ib_tail = B!Wrap(ib_head + B!ib_size)
      /\ B!ib_size \in Int /\ B!ib_size < INSTR_BUFFER_LEN /\ k \in Int
    BY <1>0, <1>1, SizeIs, SizeShape, BufferConstants
<1>3. ASSUME NEW i \in Ways
      PROVE  /\ B!index(i) \in B!Slots /\ AgeFrom(ib_head, B!index(i)) = i
             /\ p[i] \in Packet
             /\ p[i].valid <=> instr_buffer[B!index(i)].ready
             /\ instr_buffer[B!index(i)].ready =>
                    /\ p[i].PC = instr_buffer[B!index(i)].pc
                    /\ p[i].NPC = buffer_NPC[B!index(i)]
                    /\ p[i].inst = instr_buffer[B!index(i)].inst
    <2>1. i \in B!Slots
        BY <1>0, BufferConstants
    <2>2. PICK s \in B!Slots : s = B!index(i) /\ AgeFrom(ib_head, s) = i
        BY <1>0, <2>1, SlotOfAge DEF B!index
    <2>3. p[i] = IF instr_buffer[s].ready
                 THEN [valid |-> TRUE, PC |-> instr_buffer[s].pc, NPC |-> buffer_NPC[s],
                       inst |-> instr_buffer[s].inst]
                 ELSE NoPacket
        BY <1>b, <2>2 DEF if_packet_out
    <2>4. CASE instr_buffer[s].ready
        <3>1. instr_buffer[s].pc \in F!PC /\ instr_buffer[s].inst \in B!AnyBlock
            BY <1>0, StationFields DEF B!Station
        <3>2. buffer_NPC[s] \in F!PC
            BY DEF DecodeInv
        <3>3. p[i] = [valid |-> TRUE, PC |-> instr_buffer[s].pc, NPC |-> buffer_NPC[s],
                      inst |-> instr_buffer[s].inst]
            BY <2>3, <2>4
        <3>4. p[i] \in Packet
            BY <3>1, <3>2, <3>3 DEF Packet
        <3> QED BY <2>2, <2>4, <3>3, <3>4
    <2>5. CASE ~instr_buffer[s].ready
        <3>1. p[i] = [valid |-> FALSE, PC |-> 0, NPC |-> 0, inst |-> NoData]
            BY <2>3, <2>5 DEF NoPacket
        <3>2. p[i] \in Packet
            BY <3>1, FetchConstants DEF Packet, B!AnyBlock
        <3> QED BY <2>2, <2>5, <3>1, <3>2
    <2> QED BY <2>4, <2>5
<1>5. p \in [Ways -> Packet]
    <2>1. p = [i \in Ways |-> p[i]]
        BY <1>b DEF if_packet_out
    <2> QED BY <1>3, <2>1
<1>6. SequentialOf(p) = 0..(k - 1)
    <2>1. ASSUME NEW i \in Ways
          PROVE  i \in SequentialOf(p) <=> i < k
        <3>1. \A j \in 0..i : j \in Ways
            BY <1>0
        <3>2. (\A j \in 0..i : p[j].valid) <=> (\A j \in 0..i : instr_buffer[B!index(j)].ready)
            BY <1>3, <3>1
        <3> QED BY <1>1, <3>2 DEF SequentialOf
    <2>2. \A i \in SequentialOf(p) : i \in Ways
        BY DEF SequentialOf
    <2>3. \A i \in 0..(k - 1) : i \in Ways /\ i < k
        BY <1>0, <1>1, <1>2
    <2>4. \A i \in Ways : i < k => i \in 0..(k - 1)
        BY <1>0, <1>1, <1>2
    <2> QED BY <2>1, <2>2, <2>3, <2>4
<1>7. ASSUME NEW i \in 0..(k - 1)
      PROVE  /\ i \in Ways /\ i \in Int /\ 0 <= i /\ i < B!ib_size /\ k # 0
             /\ B!index(i) \in B!valid /\ instr_buffer[B!index(i)].ready
             /\ p[i].PC = instr_buffer[B!index(i)].pc
             /\ p[i].NPC = buffer_NPC[B!index(i)]
             /\ p[i].inst = instr_buffer[B!index(i)].inst
    <2>1. i \in Ways /\ i \in Int /\ 0 <= i /\ i < B!ib_size /\ k # 0
        BY <1>0, <1>1, <1>2
    <2>2. instr_buffer[B!index(i)].ready
        BY <1>1
    <2>3. B!index(i) \in B!valid
        BY <1>0, <1>3, <2>1, SizeIs, SizeShape
    <2> QED BY <1>3, <2>1, <2>2, <2>3
<1>8. ASSUME NEW i \in 0..(k - 1)
      PROVE  /\ p[i].PC = IF i = 0 THEN n_awaited ELSE p[i - 1].NPC
             /\ p[i].NPC \in F!Successors(p[i].PC)
             /\ p[i].inst = Block[p[i].PC]
    <2>1. PICK x : x = B!index(i)
        OBVIOUS
    <2>2. /\ x \in B!valid /\ x \in B!Slots /\ AgeFrom(ib_head, x) = i
          /\ instr_buffer[x].ready /\ p[i].PC = instr_buffer[x].pc
          /\ p[i].NPC = buffer_NPC[x] /\ p[i].inst = instr_buffer[x].inst
          /\ i \in Int /\ 0 <= i /\ i < B!ib_size /\ i \in Ways
        BY <1>3, <1>7, <2>1
    <2>3. p[i].NPC \in F!Successors(p[i].PC)
        BY <2>2 DEF DecodeInv, Chained
    <2>4. p[i].inst = Block[p[i].PC]
        <3>1. SlotFaithful(instr_buffer[x])
            BY <2>2 DEF BufferInv, SlotsFaithful
        <3> QED BY <2>2, <3>1 DEF SlotFaithful
    <2>5. CASE i = 0
        <3>1. x = ib_head
            <4>1. AgeFrom(ib_head, ib_head) = 0
                BY <1>0, BufferConstants DEF AgeFrom
            <4> QED BY <1>0, <2>2, <2>5, <4>1, SameAge
        <3>2. n_awaited = instr_buffer[ib_head].pc
            BY <1>7, <1>a DEF DecodeInv, HeadAwaited
        <3> QED BY <2>2, <2>3, <2>4, <2>5, <3>1, <3>2
    <2>6. CASE i # 0
        <3>1. i - 1 \in 0..(k - 1) /\ (i - 1) + 1 = i /\ i < INSTR_BUFFER_LEN
            BY <1>1, <1>2, <2>2, <2>6, BufferConstants
        <3>2. PICK s \in B!Slots : /\ s \in B!valid /\ AgeFrom(ib_head, s) = i - 1
                                   /\ p[i - 1].NPC = buffer_NPC[s]
            BY <1>3, <1>7, <3>1
        <3>3. B!Wrap(s + 1) \in B!Slots /\ AgeFrom(ib_head, B!Wrap(s + 1)) = i
            BY <1>0, <3>1, <3>2, NextSlot
        <3>4. B!Wrap(s + 1) = x
            BY <1>0, <2>2, <3>3, SameAge
        <3>5. x # ib_tail
            <4>1. AgeFrom(ib_head, ib_tail) = B!ib_size
                BY <1>0, <1>2, SlotOfAge
            <4> QED BY <1>2, <2>2, <4>1
        <3>6. buffer_NPC[s] = instr_buffer[x].pc
            BY <3>2, <3>4, <3>5 DEF DecodeInv, Chained
        <3> QED BY <2>2, <2>3, <2>4, <2>6, <3>2, <3>6
    <2> QED BY <2>5, <2>6
<1>9. DecodedOK(p, n_awaited)
    BY <1>6, <1>8 DEF DecodedOK
<1>10. k # 0 => p[k - 1].NPC = buffer_NPC[B!index(k - 1)]
    <2>1. k # 0 => k - 1 \in 0..(k - 1)
        BY <1>1, <1>2
    <2> QED BY <1>7, <2>1
<1> QED BY <1>a, <1>b, <1>5, <1>6, <1>9, <1>10

\* An empty buffer offers nothing.
LEMMA EmptyOffersNothing ==
    ASSUME BufferInv, ib_head = ib_tail, NEW stall \in BOOLEAN
    PROVE  B!Delivered(stall) = 0
<1>1. B!ib_size = 0
    BY SizeIs, BufferConstants DEF SizeOf, BufferInv, B!TypeOK
<1>2. B!Delivered(stall) \in 0..N /\ B!Delivered(stall) <= B!ib_size
    BY DeliveredShape
<1> QED BY <1>1, <1>2, BufferConstants

LEMMA DecodeAfter ==
    ASSUME BufferInv, BufferInv', PathInv, PathInv', DecodeInv, NEW stall \in BOOLEAN,
           NEW resp \in AnyTags, NEW ret \in AnyTags, NEW committed \in Commits,
           NEW taken, TableOK(cachemen), Cycle(stall, resp, ret, committed, taken)
    PROVE  DecodeInv'
<1> DEFINE k == B!Delivered(stall)
<1>0. /\ F!TypeOK /\ PCs_reg \in Groups
      /\ B!Advance(PCs_reg, stall, resp, ret)
      /\ if_id_packet_out' = IF stall THEN if_id_packet_out ELSE if_packet_out
      /\ awaited' = IF stall THEN awaited ELSE n_awaited
    BY DEF PathInv, F!TypeOK, Groups, F!Ways, Cycle
<1>1. PICK p \in F!Predictions :
        FetchStep(p) /\ buffer_NPC' = n_buffer_NPC(p)
    BY <1>0, PredictedAllowed DEF Cycle
<1>2. Chained' /\ buffer_NPC' \in [B!Slots -> F!PC]
    BY <1>0, <1>1, ChainedAfter
<1>3. /\ ib_head \in B!Slots /\ ib_tail \in B!Slots /\ ib_head' \in B!Slots
      /\ AgeFrom(ib_head, ib_head') = k /\ AgeFrom(ib_head, ib_tail) = B!ib_size
      /\ k \in Int /\ B!ib_size \in Int /\ 0 <= k /\ k <= B!ib_size
      /\ ib_head' # ib_tail'
    BY <1>0, EndsAfter
<1>4. k \in 0..N
    BY DeliveredShape
<1>5. instr_buffer'[ib_head'].pc =
        IF ib_head' = ib_tail THEN PCs_reg[0] ELSE instr_buffer[ib_head'].pc
    BY <1>0, HeadPC
<1>6. n_awaited \in F!PC
    BY AwaitedType, DecodeOf DEF DecodeInv
<1>7. n_awaited = AwaitedOf(if_id_packet_out, awaited)
      /\ DecodedOK(if_id_packet_out, awaited)
    BY DecodeOf DEF DecodeInv
<1>8. CASE k = 0 /\ AwaitedOf(if_id_packet_out', awaited') = n_awaited
    <2>1. ib_head' = ib_head
        <3>1. AgeFrom(ib_head, ib_head) = 0
            BY <1>3, BufferConstants DEF AgeFrom
        <3> QED BY <1>3, <1>8, <3>1, SameAge
    <2>2. AwaitedOf(if_id_packet_out', awaited') =
            IF ib_head = ib_tail THEN PCs_reg[0] ELSE instr_buffer[ib_head].pc
        BY <1>8 DEF DecodeInv, HeadAwaited
    <2>3. AwaitedOf(if_id_packet_out', awaited') = instr_buffer'[ib_head'].pc
        BY <1>5, <2>1, <2>2
    <2>4. HeadAwaited'
        BY <1>3, <2>3, DecodeOf DEF HeadAwaited
    <2>5. CASE stall
        BY <1>0, <1>2, <1>7, <2>4, <2>5, DecodeOf DEF DecodeInv
    <2>6. CASE ~stall
        <3>1. stall = FALSE
            BY <2>6
        <3>2. if_packet_out \in [Ways -> Packet] /\ DecodedOK(if_packet_out, n_awaited)
            BY <1>8, <3>1, OfferedShape
        <3> QED BY <1>0, <1>2, <1>6, <2>4, <2>6, <3>2, DecodeOf DEF DecodeInv
    <2> QED BY <2>5, <2>6
<1>9. stall => k = 0 /\ AwaitedOf(if_id_packet_out', awaited') = n_awaited
    BY <1>0, <1>7, DeliveredShape
<1>10. CASE ~stall
    <2>1. stall = FALSE /\ if_id_packet_out' = if_packet_out /\ awaited' = n_awaited
        BY <1>0, <1>10
    <2>2. /\ if_packet_out \in [Ways -> Packet]
          /\ SequentialOf(if_packet_out) = 0..(k - 1)
          /\ DecodedOK(if_packet_out, n_awaited)
          /\ k # 0 => if_packet_out[k - 1].NPC = buffer_NPC[B!index(k - 1)]
        BY <2>1, OfferedShape, EmptyOffersNothing
    <2>3. AwaitedOf(if_packet_out, n_awaited) = IF k = 0 THEN n_awaited
                                                ELSE if_packet_out[k - 1].NPC
        BY <1>4, <2>2, AwaitedShape
    <2>4. CASE k = 0
        BY <1>8, <2>1, <2>3, <2>4
    <2>5. CASE k # 0
        <3> DEFINE s == B!index(k - 1)
        <3>1. k - 1 \in B!Slots /\ (k - 1) + 1 = k /\ k - 1 < B!ib_size
              /\ k < INSTR_BUFFER_LEN
            <4> HIDE DEF k
            <4> QED BY <1>3, <1>4, <2>5, BufferConstants
        <3>2. s \in B!Slots /\ AgeFrom(ib_head, s) = k - 1
            BY <1>3, <3>1, SlotOfAge DEF B!index
        <3>3. s \in B!valid
            BY <1>3, <3>1, <3>2, SizeIs, SizeShape
        <3>4. B!Wrap(s + 1) = ib_head'
            <4>1. B!Wrap(s + 1) \in B!Slots /\ AgeFrom(ib_head, B!Wrap(s + 1)) = k
                BY <1>3, <3>1, <3>2, NextSlot
            <4> QED BY <1>3, <4>1, SameAge
        <3>5. buffer_NPC[s] = IF ib_head' = ib_tail THEN PCs_reg[0]
                              ELSE instr_buffer[ib_head'].pc
            BY <3>3, <3>4 DEF DecodeInv, Chained
        <3>6. AwaitedOf(if_id_packet_out', awaited') = instr_buffer'[ib_head'].pc
            BY <1>5, <2>1, <2>2, <2>3, <2>5, <3>5
        <3>7. HeadAwaited'
            BY <1>3, <3>6, DecodeOf DEF HeadAwaited
        <3> QED BY <1>2, <1>6, <2>1, <2>2, <3>7, DecodeOf DEF DecodeInv
    <2> QED BY <2>4, <2>5
<1> QED BY <1>8, <1>9, <1>10

\* After a redirection IF/ID and the buffer are empty, and decode waits for
\* the PC that is being fetched.
LEMMA FlushedShape ==
    ASSUME NEW p, p = Flushed, NEW aw
    PROVE  /\ p \in [Ways -> Packet] /\ AwaitedOf(p, aw) = aw /\ DecodedOK(p, aw)
<1>1. NoPacket \in Packet /\ ~NoPacket.valid
    BY FetchConstants DEF NoPacket, Packet, B!AnyBlock
<1>2. p \in [Ways -> Packet] /\ \A i \in Ways : ~p[i].valid
    BY <1>1 DEF Flushed
<1>3. SequentialOf(p) = {}
    <2>1. \A i \in Ways : i \in 0..i
        BY BufferConstants
    <2> QED BY <1>2, <2>1 DEF SequentialOf
<1> QED BY <1>2, <1>3 DEF AwaitedOf, DecodedOK

LEMMA NothingBuffered ==
    ASSUME ib_head = 0, ib_tail = 0, buffer_NPC = [s \in B!Slots |-> 0],
           if_id_packet_out = Flushed, awaited \in F!PC, PCs_reg[0] = awaited
    PROVE  DecodeInv
<1>1. B!valid = {}
    <2>1. B!valid = {s \in B!Slots : s >= 0 /\ s < 0}
        BY BufferConstants DEF B!valid
    <2> QED BY <2>1, BufferConstants
<1>2. Chained
    BY <1>1 DEF Chained
<1>3. /\ if_id_packet_out \in [Ways -> Packet] /\ n_awaited = awaited
      /\ DecodeFollowsPath
    BY FlushedShape, DecodeOf
<1>4. buffer_NPC \in [B!Slots -> F!PC]
    BY FetchConstants
<1> QED BY <1>2, <1>3, <1>4 DEF DecodeInv, HeadAwaited

-----------------------------------------------------------------------------
(* The invariants of the fetch stage                                       *)

FrontInv == FetchInv /\ BufferInv /\ DecodeInv

LEMMA FrontInit == Init => FrontInv
<1> SUFFICES ASSUME Init PROVE FrontInv
    OBVIOUS
<1>1. FetchInv /\ BufferInv
    BY FetchInit, BufferInit DEF Init
<1>2. PCs_reg[0] = 0
    <2>1. 0 \in F!Ways /\ 0 + 0 = 0
        BY FetchConstants DEF Ways
    <2>2. PCs_reg[0] = 0 % NUM_PCS
        BY <2>1 DEF Init, F!Init
    <2> QED BY <2>1, <2>2, Plus4Zero, FetchConstants DEF F!Plus4
<1>3. DecodeInv
    BY <1>2, NothingBuffered, FetchConstants DEF Init, B!Init
<1> QED BY <1>1, <1>3 DEF FrontInv

LEMMA RedirectedDecode ==
    ASSUME NEW stall, NEW resp, NEW ret, NEW committed \in Commits,
           NEW pc \in Destinations(committed),
           BranchMispredict(stall, resp, ret, committed, pc)
    PROVE  DecodeInv'
<1>1. pc \in F!PC
    BY DestinationType
<1>2. /\ ib_head' = 0 /\ ib_tail' = 0 /\ buffer_NPC' = [s \in B!Slots |-> 0]
      /\ if_id_packet_out' = Flushed /\ awaited' = pc
      /\ PCs_reg' = [i \in F!Ways |-> F!Plus4(pc, i)]
    BY DEF BranchMispredict, B!Nuke, PC_enable, F!Redirect
<1>3. PCs_reg'[0] = pc
    BY <1>1, <1>2, Plus4Zero, FetchConstants DEF Ways
<1>4. B!valid' = {}
    <2>1. B!valid' = {s \in B!Slots : s >= 0 /\ s < 0}
        BY <1>2, BufferConstants DEF B!valid
    <2> QED BY <2>1, BufferConstants
<1>5. Chained'
    BY <1>4 DEF Chained
<1>6. /\ if_id_packet_out' \in [Ways -> Packet] /\ n_awaited' = pc /\ DecodeFollowsPath'
    BY <1>2, FlushedShape, DecodeOf
<1>7. buffer_NPC' \in [B!Slots -> F!PC]
    BY <1>2, FetchConstants
<1> QED BY <1>1, <1>2, <1>3, <1>5, <1>6, <1>7 DEF DecodeInv, HeadAwaited

LEMMA FrontStep == FrontInv /\ [Next]_vars => FrontInv'
<1> SUFFICES ASSUME FrontInv, [Next]_vars PROVE FrontInv'
    OBVIOUS
<1>0. FetchInv /\ PathInv /\ BufferInv /\ DecodeInv /\ TableOK(cachemen)
    BY DEF FrontInv, FetchInv
<1>1. FetchInv' /\ PathInv'
    BY <1>0, FetchStepShape DEF FetchInv
<1>2. CASE UNCHANGED vars
    <2>1. BufferInv'
        BY <1>0, <1>2 DEF vars, BufferInv, B!TypeOK, B!Occupancy, B!ib_size, SlotsFaithful,
                          CacheFaithful, B!AnswersAwaited, B!valid, B!BlockOf
    <2>2. n_awaited' = n_awaited /\ (DecodeFollowsPath' <=> DecodeFollowsPath)
        BY <1>2, DecodeOf DEF vars
    <2>3. DecodeInv'
        BY <1>0, <1>2, <2>2 DEF vars, fetchVars, DecodeInv, Chained, HeadAwaited, B!valid
    <2> QED BY <1>1, <2>1, <2>3 DEF FrontInv
<1>3. ASSUME NEW stall \in BOOLEAN, NEW resp \in AnyTags, NEW ret \in AnyTags,
             NEW committed \in Commits, NEW taken,
             Cycle(stall, resp, ret, committed, taken)
      PROVE  FrontInv'
    <2>1. PCs_reg \in Groups
        BY <1>0 DEF PathInv, F!TypeOK, Groups, F!Ways
    <2>2. BufferInv'
        BY <1>0, <1>3, <2>1, AdvanceKeepsInv DEF Cycle
    <2>3. DecodeInv'
        BY <1>0, <1>1, <1>3, <2>2, DecodeAfter
    <2> QED BY <1>1, <2>2, <2>3 DEF FrontInv
<1>4. ASSUME NEW stall \in BOOLEAN, NEW resp \in AnyTags, NEW ret \in AnyTags,
             NEW committed \in Commits, NEW pc \in Destinations(committed),
             BranchMispredict(stall, resp, ret, committed, pc)
      PROVE  FrontInv'
    <2>1. BufferInv'
        BY <1>0, <1>4, NukeKeepsInv DEF BranchMispredict
    <2> QED BY <1>1, <1>4, <2>1, RedirectedDecode DEF FrontInv
<1> QED BY <1>2, <1>3, <1>4 DEF Next

LEMMA FrontInvariant == Spec => []FrontInv
BY FrontInit, FrontStep, PTL DEF Spec

LEMMA FrontInvImplies ==
    FrontInv => TypeOK /\ Occupancy /\ AnswersAwaited /\ DecodeFollowsPath
BY DEF FrontInv, FetchInv, PathInv, BufferInv, DecodeInv, TableOK, Packet, TypeOK,
       Occupancy, AnswersAwaited, AnyTags

\* Every register of the fetch stage stays what it is declared to be.
THEOREM FrontEndTypeCorrect == Spec => []TypeOK
BY FrontInvariant, FrontInvImplies, PTL

\* Delivery never outruns insertion and the tail never catches up with the
\* head, for every buffer that holds three groups: the ready bits looked at
\* without regard to the tail are always those of buffered instructions.
THEOREM BufferOccupancy == Spec => []Occupancy
BY FrontInvariant, FrontInvImplies, PTL

\* An instruction that waits for memory waits for a transaction under way for
\* its own block, whatever is flushed, reused or asked for by the data cache in
\* between: no answer is missed and none is taken by mistake.
THEOREM AnswersAreAwaited == Spec => []AnswersAwaited
BY FrontInvariant, FrontInvImplies, PTL

\* Decode is given a path of the program, without a gap or a repetition: it
\* starts where the last redirection sent fetch, goes on where each
\* instruction's NPC says, and each instruction is what memory holds at its PC.
THEOREM DecodeGetsPath == Spec => []DecodeFollowsPath
BY FrontInvariant, FrontInvImplies, PTL

-----------------------------------------------------------------------------
(* The buffer is a queue                                                   *)

Seen(e) == [pc |-> e.pc, inst |-> e.inst]
ContentsOf(b, h, c) == [i \in 1..c |-> Seen(b[B!Wrap(h + (i - 1))])]

LEMMA ContentsIs ==
    /\ B!Contents = ContentsOf(instr_buffer, ib_head, B!ib_size)
    /\ B!Contents' = ContentsOf(instr_buffer', ib_head', SizeOf(ib_head', ib_tail'))
BY DEF B!Contents, ContentsOf, Seen, B!index, B!ib_size, SizeOf

LEMMA ContentsShape ==
    ASSUME NEW b, NEW h, NEW c \in Nat
    PROVE  /\ Len(ContentsOf(b, h, c)) = c
           /\ \A i \in 1..c : ContentsOf(b, h, c)[i] = Seen(b[B!Wrap(h + (i - 1))])
           /\ c = 0 => ContentsOf(b, h, c) = <<>>
BY DEF ContentsOf

\* What a slot shows is faithful.
LEMMA FaithfulSlot ==
    ASSUME NEW e \in B!Station, SlotFaithful(e)
    PROVE  /\ B!Queue!Faithful(Seen(e))
           /\ Seen(e).pc = e.pc /\ Seen(e).inst = e.inst
           /\ e.ready <=> Seen(e).inst # NoData
<1>1. e.pc \in F!PC /\ Block[e.pc] # NoData /\ e.ready \in BOOLEAN
    BY BufferConstants DEF B!Station
<1> QED BY <1>1 DEF B!Queue!Faithful, Seen, SlotFaithful

LEMMA AdvanceIsStep ==
    ASSUME BufferInv, BufferInv', NEW group, NEW stall \in BOOLEAN,
           NEW resp \in AnyTags, NEW ret \in AnyTags,
           B!Advance(group, stall, resp, ret)
    PROVE  B!Queue!Step
<1>a. PICK k : k = B!Delivered(stall)
    OBVIOUS
<1>b. PICK c : c = B!ib_size
    OBVIOUS
<1>c. PICK d : d = SizeOf(ib_head', ib_tail')
    OBVIOUS
<1>0. /\ B!TypeOK /\ ib_head \in B!Slots /\ ib_tail \in B!Slots
      /\ N \in Int /\ 1 <= N /\ INSTR_BUFFER_LEN \in Int
      /\ \A s \in B!Slots : instr_buffer[s] \in B!Station /\ SlotFaithful(instr_buffer[s])
      /\ \A s \in B!Slots : instr_buffer'[s] \in B!Station /\ SlotFaithful(instr_buffer'[s])
    BY BufferConstants DEF BufferInv, B!TypeOK, SlotsFaithful
<1>1. /\ k \in 0..N /\ k <= c /\ c \in B!Slots
      /\ ib_head' = B!Wrap(ib_head + k) /\ ib_head' \in B!Slots
      /\ d = c + Inserting - k /\ d \in B!Slots
      /\ \A s \in B!Slots : SlotAfter(s, group, stall, resp, ret)
    BY <1>a, <1>b, <1>c, AdvanceShape
<1>2. /\ k \in Int /\ 0 <= k /\ c \in Nat /\ c < INSTR_BUFFER_LEN /\ d \in Nat
      /\ d < INSTR_BUFFER_LEN /\ Inserting \in {0, N} /\ k \in Nat
    BY <1>1, BufferConstants DEF Inserting
<1>3. PICK q : q = B!Contents
    OBVIOUS
<1>4. PICK qq : qq = B!Contents'
    OBVIOUS
<1>5. Len(q) = c /\ \A i \in 1..c : q[i] = Seen(instr_buffer[B!Wrap(ib_head + (i - 1))])
    BY <1>b, <1>2, <1>3, ContentsIs, ContentsShape
<1>6. Len(qq) = d /\ \A i \in 1..d : qq[i] = Seen(instr_buffer'[B!Wrap(ib_head' + (i - 1))])
    BY <1>c, <1>2, <1>4, ContentsIs, ContentsShape
<1>7. ASSUME NEW i \in 1..k
      PROVE  q[i].inst # NoData
    <2>1. i \in 1..c /\ i - 1 \in 0..(k - 1) /\ i - 1 \in B!Slots
        BY <1>1, <1>2, BufferConstants
    <2>2. PICK s \in B!Slots : s = B!Wrap(ib_head + (i - 1))
        BY <1>0, <2>1, SlotOfAge
    <2>3. instr_buffer[s].ready
        BY <1>a, <2>1, <2>2, DeliveredShape DEF B!index
    <2> QED BY <1>0, <1>5, <2>1, <2>2, <2>3, FaithfulSlot
<1>8. ASSUME NEW i \in 1..(c - k)
      PROVE  /\ qq[i].pc = q[k + i].pc
             /\ q[k + i].inst # NoData => qq[i] = q[k + i]
    <2>1. /\ i \in Int /\ 1 <= i /\ i <= c - k /\ k + i \in 1..c /\ i \in 1..d
          /\ i - 1 \in Nat /\ k + (i - 1) \in B!Slots /\ k + (i - 1) < c
          /\ (k + i) - 1 = k + (i - 1) /\ k + (i - 1) <= INSTR_BUFFER_LEN
        BY <1>1, <1>2, BufferConstants
    <2>2. PICK s \in B!Slots : /\ s = B!Wrap(ib_head + (k + (i - 1)))
                               /\ AgeFrom(ib_head, s) = k + (i - 1)
        BY <1>0, <2>1, SlotOfAge
    <2>3. B!Wrap(ib_head' + (i - 1)) = s
        BY <1>0, <1>1, <1>2, <2>1, <2>2, WrapTwice
    <2>4. q[k + i] = Seen(instr_buffer[s]) /\ qq[i] = Seen(instr_buffer'[s])
        BY <1>5, <1>6, <2>1, <2>2, <2>3
    <2>5. ~Entering(s)
        BY <1>b, <1>2, <2>1, <2>2 DEF Entering
    <2>6. /\ instr_buffer'[s].pc = instr_buffer[s].pc
          /\ instr_buffer[s].ready => instr_buffer'[s].inst = instr_buffer[s].inst
        BY <1>1, <2>5, KeptSlot
    <2>7. q[k + i].inst # NoData => instr_buffer[s].ready
        BY <1>0, <2>4, FaithfulSlot
    <2> QED BY <2>4, <2>6, <2>7 DEF Seen
<1>9. ASSUME NEW i \in 1..d
      PROVE  B!Queue!Faithful(qq[i])
    <2>1. i - 1 \in B!Slots
        BY <1>2, BufferConstants
    <2>2. B!Wrap(ib_head' + (i - 1)) \in B!Slots
        BY <1>1, <2>1, SlotOfAge
    <2> QED BY <1>0, <1>6, <2>2, FaithfulSlot
<1>10. /\ k <= Len(q) /\ Len(qq) \in {Len(q) - k, Len(q) - k + N}
       /\ Len(qq) <= INSTR_BUFFER_LEN - 1
    <2>1. PICK I : I = Inserting
        OBVIOUS
    <2>2. d = c + I - k /\ I \in {0, N}
        BY <1>1, <1>2, <2>1
    <2>3. d \in {c - k, c - k + N}
        BY <1>0, <1>2, <2>2
    <2>4. d <= INSTR_BUFFER_LEN - 1
        BY <1>0, <1>2
    <2> QED BY <1>1, <1>5, <1>6, <2>3, <2>4
<1>11. /\ \A i \in 1..(Len(q) - k) : /\ qq[i].pc = q[k + i].pc
                                     /\ q[k + i].inst # NoData => qq[i] = q[k + i]
       /\ \A i \in 1..Len(qq) : B!Queue!Faithful(qq[i])
    BY <1>5, <1>6, <1>8, <1>9
<1> QED BY <1>1, <1>3, <1>4, <1>7, <1>10, <1>11 DEF B!Queue!Step

LEMMA EmptyContents ==
    /\ ib_head = 0 /\ ib_tail = 0 => B!Contents = <<>>
    /\ ib_head' = 0 /\ ib_tail' = 0 => B!Contents' = <<>>
<1>1. SizeOf(0, 0) = 0 /\ 0 \in Nat
    BY DEF SizeOf
<1> QED BY <1>1, ContentsIs, SizeIs, ContentsShape

\* The instruction buffer implements the fetch queue: decode gets every fetched
\* PC once, in order, with the instruction that memory holds there, whatever
\* order the answers come in.
THEOREM BufferImplementsQueue == Spec => ImplementsQueue
<1>1. Init => B!Queue!Init
    BY EmptyContents DEF Init, B!Init, B!Queue!Init
<1>2. FrontInv /\ FrontInv' /\ [Next]_vars => [B!Queue!Next]_B!Contents
    <2> SUFFICES ASSUME FrontInv, FrontInv', [Next]_vars
                 PROVE  [B!Queue!Next]_B!Contents
        OBVIOUS
    <2>1. CASE UNCHANGED vars
        BY <2>1 DEF vars, B!Contents, B!ib_size, B!index
    <2>2. ASSUME NEW stall \in BOOLEAN, NEW resp \in AnyTags, NEW ret \in AnyTags,
                 NEW committed, NEW taken, Cycle(stall, resp, ret, committed, taken)
          PROVE  B!Queue!Next
        BY <2>2, AdvanceIsStep DEF Cycle, FrontInv, B!Queue!Next
    <2>3. ASSUME NEW stall \in BOOLEAN, NEW resp \in AnyTags, NEW ret \in AnyTags,
                 NEW committed, NEW pc, BranchMispredict(stall, resp, ret, committed, pc)
          PROVE  B!Queue!Next
        BY <2>3, EmptyContents DEF BranchMispredict, B!Nuke, B!Queue!Next, B!Queue!Flush
    <2> QED BY <2>1, <2>2, <2>3 DEF Next
<1> QED BY <1>1, <1>2, FrontInvariant, PTL
        DEF Spec, ImplementsQueue, B!ImplementsQueue, B!Queue!Spec
=============================================================================

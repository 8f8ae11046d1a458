------------------------------ MODULE RobProofs ------------------------------
(***************************************************************************)
(* Theorems about the reorder buffer for every number of slots, every      *)
(* superscalar degree that fits in them and every program.                 *)
(***************************************************************************)
EXTENDS Rob, FiniteLemmas, Sequences

USE RobAssumption

-----------------------------------------------------------------------------
(* Going round the buffer                                                  *)

\* Age, counted from a given head.
AgeFrom(h, s) == IF s >= h THEN s - h ELSE s - h + ROB_NUM_ENTRIES

LEMMA AgeIs == \A s : Age(s) = AgeFrom(head_index, s)
BY DEF Age, AgeFrom

LEMMA SlotsNat ==
    /\ 0 \in Slots
    /\ \A s : s \in Slots <=> s \in Int /\ 0 <= s /\ s < ROB_NUM_ENTRIES
    /\ \A i : i \in Ways <=> i \in Int /\ 0 <= i /\ i < N
    /\ ROB_NUM_ENTRIES \in Int /\ N \in Int /\ 1 <= N /\ N <= ROB_NUM_ENTRIES
BY DEF Slots, Ways

\* A slot and its age determine each other.
LEMMA AgeOfSlot ==
    ASSUME NEW h \in Slots, NEW s \in Slots
    PROVE  AgeFrom(h, s) \in Slots /\ Wrap(h + AgeFrom(h, s)) = s
BY SlotsNat DEF AgeFrom, Wrap

LEMMA SlotOfAge ==
    ASSUME NEW h \in Slots, NEW a \in Slots
    PROVE  Wrap(h + a) \in Slots /\ AgeFrom(h, Wrap(h + a)) = a
BY SlotsNat DEF AgeFrom, Wrap

\* Moving the head by r makes the r oldest slots the youngest.
LEMMA HeadMoves ==
    ASSUME NEW h \in Slots, NEW r \in 0..ROB_NUM_ENTRIES, NEW s \in Slots
    PROVE  /\ Wrap(h + r) \in Slots
           /\ AgeFrom(Wrap(h + r), s) =
                IF AgeFrom(h, s) >= r THEN AgeFrom(h, s) - r
                                      ELSE AgeFrom(h, s) - r + ROB_NUM_ENTRIES
BY SlotsNat DEF AgeFrom, Wrap

LEMMA WrapTwice ==
    ASSUME NEW h \in Slots, NEW a \in Nat, NEW b \in Nat, a + b <= ROB_NUM_ENTRIES
    PROVE  Wrap(Wrap(h + a) + b) = Wrap(h + (a + b))
BY SlotsNat DEF Wrap

-----------------------------------------------------------------------------
(* The valid slots                                                         *)

\* The c oldest slots are the valid ones, and the tail is behind them.
Holding(c) ==
    /\ tail_index = Wrap(head_index + c)
    /\ \A s \in Slots : entries[s].valid <=> AgeFrom(head_index, s) < c

\* Occupancy without the cardinality: what makes it inductive.
Contiguous == ~halt => \E c \in 0..ROB_NUM_ENTRIES : Holding(c)

\* As many slots are valid as are younger than the c-th from slot o.
LEMMA CountFrom ==
    ASSUME NEW e, NEW o \in Slots, NEW c \in 0..ROB_NUM_ENTRIES,
           \A s \in Slots : e[s].valid <=> AgeFrom(o, s) < c
    PROVE  Cardinality({s \in Slots : e[s].valid}) = c
<1> DEFINE V == {s \in Slots : e[s].valid}
           A == 0..(c - 1)
           f == [a \in A |-> Wrap(o + a)]
<1>1. \A a \in A : a \in Slots /\ a < c
    BY SlotsNat
<1>2. \A a, b \in A : f[a] = f[b] => a = b
    BY <1>1, SlotOfAge
<1>3. V = {f[a] : a \in A}
    <2>1. \A a \in A : f[a] \in V
        BY <1>1, SlotOfAge
    <2>2. ASSUME NEW s \in V
          PROVE  \E a \in A : s = f[a]
        <3>1. s \in Slots /\ AgeFrom(o, s) < c
            OBVIOUS
        <3>2. AgeFrom(o, s) \in A /\ f[AgeFrom(o, s)] = s
            BY <3>1, AgeOfSlot, SlotsNat
        <3> QED BY <3>2
    <2> QED BY <2>1, <2>2
<1>4. IsFiniteSet(A) /\ Cardinality(A) = c
    BY CountUpTo
<1> HIDE DEF A, f, V
<1>5. Cardinality(V) = c
    BY <1>2, <1>3, <1>4, ImageExact
<1> QED BY <1>5 DEF V

LEMMA HoldingCount ==
    ASSUME TypeOK, NEW c \in 0..ROB_NUM_ENTRIES, Holding(c)
    PROVE  /\ ValidSlots = {s \in Slots : AgeFrom(head_index, s) < c}
           /\ Cardinality(ValidSlots) = c
<1>1. head_index \in Slots
    BY DEF TypeOK
<1>2. \A s \in Slots : entries[s].valid <=> AgeFrom(head_index, s) < c
    BY DEF Holding
<1> QED BY <1>1, <1>2, CountFrom DEF ValidSlots

LEMMA HoldingFull ==
    ASSUME TypeOK, NEW c \in 0..ROB_NUM_ENTRIES, Holding(c)
    PROVE  rob_full <=> ROB_NUM_ENTRIES - c < N
<1>1. head_index \in Slots /\ AgeFrom(head_index, head_index) = 0
    BY SlotsNat DEF TypeOK, AgeFrom
<1>2. entries[head_index].valid <=> 0 < c
    BY <1>1 DEF Holding
<1>3. tail_index = Wrap(head_index + c)
    BY DEF Holding
<1> QED BY <1>1, <1>2, <1>3, SlotsNat DEF rob_full, Wrap

LEMMA HoldingOccupancy ==
    ASSUME TypeOK, Contiguous
    PROVE  Occupancy
<1> SUFFICES ASSUME ~halt PROVE Occupancy
    BY DEF Occupancy
<1>1. PICK c \in 0..ROB_NUM_ENTRIES : Holding(c)
    BY DEF Contiguous
<1>2. Cardinality(ValidSlots) = c
      /\ ValidSlots = {s \in Slots : Age(s) < c}
    BY <1>1, HoldingCount, AgeIs
<1>3. rob_full <=> ROB_NUM_ENTRIES - c < N
    BY <1>1, HoldingFull
<1>4. tail_index = Wrap(head_index + c)
    BY <1>1 DEF Holding
<1> QED BY <1>2, <1>3, <1>4 DEF Occupancy

-----------------------------------------------------------------------------
(* Dispatch and retirement in terms of ages                                *)

LEMMA ArrivingType ==
    ASSUME NEW kind \in Kinds, NEW valid \in BOOLEAN
    PROVE  /\ Arriving(kind, valid) \in Entry
           /\ Arriving(kind, valid).valid = valid
           /\ Arriving(kind, valid).kind = kind
<1>1. CASE Executes(kind)
    <2>1. (~Executes(kind)) = FALSE
        BY <1>1
    <2>2. Arriving(kind, valid) = [valid |-> valid, executed |-> FALSE,
                                   correct |-> FALSE, kind |-> kind]
        BY <2>1 DEF Arriving
    <2> QED BY <2>2 DEF Entry
<1>2. CASE ~Executes(kind)
    <2>1. (~Executes(kind)) = TRUE
        BY <1>2
    <2>2. Arriving(kind, valid) = [valid |-> valid, executed |-> TRUE,
                                   correct |-> FALSE, kind |-> kind]
        BY <2>1 DEF Arriving
    <2> QED BY <2>2 DEF Entry
<1> QED BY <1>1, <1>2

\* The valid ways of a group are its first ones.
LEMMA GroupShape ==
    ASSUME NEW d \in Groups
    PROVE  \E g \in 0..N : /\ Count(d) = g
                           /\ \A i \in Ways : d[i] \in Entry /\ (d[i].valid <=> i < g)
<1>1. PICK n \in 0..N, k \in [Ways -> Kinds] :
        d = [i \in Ways |-> Arriving(IF i < n \/ n = 0 THEN k[i] ELSE "nop", i < n)]
    BY DEF Groups
<1>2. ASSUME NEW i \in Ways
      PROVE  d[i] \in Entry /\ (d[i].valid <=> i < n)
    <2> DEFINE kind == IF i < n \/ n = 0 THEN k[i] ELSE "nop"
    <2>1. kind \in Kinds
        OBVIOUS
    <2>2. d[i] = Arriving(kind, i < n)
        BY <1>1
    <2> HIDE DEF kind
    <2>3. (i < n) \in BOOLEAN
        OBVIOUS
    <2>4. Arriving(kind, i < n) \in Entry /\ Arriving(kind, i < n).valid = (i < n)
        BY <2>1, <2>3, ArrivingType
    <2> QED BY <2>2, <2>4
<1>3. {i \in Ways : d[i].valid} = 0..(n - 1)
    BY <1>2, SlotsNat
<1>4. Count(d) = n
    <2>1. Cardinality(0..(n - 1)) = n
        BY CountUpTo
    <2> QED BY <1>3, <2>1 DEF Count
<1> QED BY <1>2, <1>4

\* The retiring ways are the first r, all of them hold instructions, and only
\* the last of them can be a wfi or a mispredicted branch.
Leaving(r) ==
    /\ Retiring = 0..(r - 1) /\ Cardinality(Retiring) = r
    /\ \A s \in Slots : s \in RetiringSlots <=> AgeFrom(head_index, s) < r
    /\ \A i \in 0..(r - 1) : Index(i) \in Slots /\ entries[Index(i)].executed
    /\ \A i \in 0..(r - 2) : /\ ~Halting(entries[Index(i)])
                             /\ ~Mispredicted(entries[Index(i)])

LEMMA RetiringShape ==
    ASSUME TypeOK, NEW c \in 0..ROB_NUM_ENTRIES, Holding(c)
    PROVE  \E r \in 0..N : r <= c /\ Leaving(r)
<1>1. head_index \in Slots
    BY DEF TypeOK
<1>2. PICK r \in 0..N : Retiring = 0..(r - 1) /\ Cardinality(Retiring) = r
    <2>1. Retiring \in SUBSET (0..(N - 1)) /\ N \in Nat
        BY DEF Retiring, Ways
    <2>2. ASSUME NEW i \in Retiring, NEW j \in 0..i
          PROVE  j \in Retiring
        <3>1. i \in Ways /\ j \in Ways /\ \A l \in 0..j : l \in 0..i
            BY SlotsNat DEF Retiring
        <3> QED BY <3>1, SlotsNat DEF Retiring
    <2> QED BY <2>1, <2>2, PrefixOfWays
<1>3. \A i \in 0..(r - 1) : i \in Retiring /\ i \in Slots /\ i \in Ways
    BY <1>2, SlotsNat
<1>4. \A i \in 0..(r - 1) : Index(i) \in Slots /\ AgeFrom(head_index, Index(i)) = i
    BY <1>1, <1>3, SlotOfAge DEF Index
<1>5. r <= c
    <2> SUFFICES ASSUME r > c PROVE FALSE
        OBVIOUS
    <2>1. c \in 0..(r - 1) /\ c \in 0..c /\ c < ROB_NUM_ENTRIES
        BY SlotsNat
    <2>2. Index(c) = tail_index /\ ~entries[Index(c)].valid
        BY <2>1, <1>4 DEF Holding, Index
    <2> QED BY <1>3, <2>1, <2>2 DEF Retiring
<1>6. ASSUME NEW s \in Slots
      PROVE  s \in RetiringSlots <=> AgeFrom(head_index, s) < r
    <2>1. ASSUME s \in RetiringSlots
          PROVE  AgeFrom(head_index, s) < r
        <3>1. PICK i \in Retiring : s = Index(i)
            BY <2>1 DEF RetiringSlots
        <3> QED BY <3>1, <1>2, <1>4
    <2>2. ASSUME AgeFrom(head_index, s) < r
          PROVE  s \in RetiringSlots
        <3>1. AgeFrom(head_index, s) \in 0..(r - 1)
            BY <2>2, <1>1, AgeOfSlot, SlotsNat
        <3>2. Index(AgeFrom(head_index, s)) = s
            BY <1>1, AgeOfSlot DEF Index
        <3> QED BY <3>1, <3>2, <1>3 DEF RetiringSlots
    <2> QED BY <2>1, <2>2
<1>7. ASSUME NEW i \in 0..(r - 1)
      PROVE  entries[Index(i)].executed
    <2>1. i \in Retiring /\ i \in 0..i
        BY <1>3
    <2> QED BY <2>1 DEF Retiring
<1>8. ASSUME NEW i \in 0..(r - 2)
      PROVE  ~Halting(entries[Index(i)]) /\ ~Mispredicted(entries[Index(i)])
    <2>1. i + 1 \in Retiring /\ i \in 0..(i + 1) /\ i < i + 1
        BY <1>3
    <2> QED BY <2>1 DEF Retiring
<1> QED BY <1>2, <1>4, <1>5, <1>6, <1>7, <1>8 DEF Leaving

\* Where the head goes: over all that retires, except a wfi.
LEMMA HeadShape ==
    ASSUME TypeOK, NEW r \in 0..N, Leaving(r)
    PROVE  /\ n_head_index \in Slots
           /\ (\A i \in 0..(r - 1) : ~Halting(entries[Index(i)]))
                => n_head_index = Wrap(head_index + r)
           /\ (\E i \in 0..(r - 1) : Halting(entries[Index(i)]))
                => r > 0 /\ n_head_index = Wrap(head_index + (r - 1))
                   /\ Halting(entries[Index(r - 1)])
<1> DEFINE S == {i \in Retiring : ~Halting(entries[Index(i)])}
<1>0. /\ head_index \in Slots /\ r \in 0..ROB_NUM_ENTRIES
      /\ r > 0 => r - 1 \in 0..ROB_NUM_ENTRIES
    BY SlotsNat DEF TypeOK
<1>1. Retiring = 0..(r - 1)
    BY DEF Leaving
<1>2. CASE \A i \in 0..(r - 1) : ~Halting(entries[Index(i)])
    <2>1. S = 0..(r - 1)
        BY <1>1, <1>2
    <2>2. Cardinality(0..(r - 1)) = r
        BY CountUpTo
    <2>3. n_head_index = Wrap(head_index + r)
        BY <2>1, <2>2 DEF n_head_index
    <2>4. n_head_index \in Slots
        BY <1>0, <2>3, HeadMoves
    <2> QED BY <1>2, <2>3, <2>4
<1>3. CASE \E i \in 0..(r - 1) : Halting(entries[Index(i)])
    <2>1. PICK i \in 0..(r - 1) : Halting(entries[Index(i)])
        BY <1>3
    <2>2. i = r - 1 /\ r > 0
        BY <2>1 DEF Leaving
    <2>3. S = 0..((r - 1) - 1) /\ r - 1 \in Nat
        BY <1>1, <2>1, <2>2 DEF Leaving
    <2>4. Cardinality(0..((r - 1) - 1)) = r - 1
        BY <2>3, CountUpTo
    <2>5. n_head_index = Wrap(head_index + (r - 1))
        BY <2>3, <2>4 DEF n_head_index
    <2>6. n_head_index \in Slots
        BY <1>0, <2>2, <2>5, HeadMoves
    <2> QED BY <1>3, <2>1, <2>2, <2>5, <2>6
<1> QED BY <1>2, <1>3

\* The slots dispatch writes are the N behind the tail.
LEMMA WrittenShape ==
    ASSUME TypeOK, NEW c \in 0..ROB_NUM_ENTRIES, Holding(c), NEW s \in Slots, NEW i \in Ways
    PROVE  i \in Written(s) <=> ~rob_full /\ AgeFrom(head_index, s) = c + i
<1>1. head_index \in Slots
    BY DEF TypeOK
<1> SUFFICES ASSUME ~rob_full
             PROVE  next_entries_index(i) = s <=> AgeFrom(head_index, s) = c + i
    BY DEF Written
<1>2. c + N <= ROB_NUM_ENTRIES
    BY HoldingFull, SlotsNat
<1>3. c \in Nat /\ i \in Nat /\ c + i <= ROB_NUM_ENTRIES /\ c + i \in Slots
    BY <1>2, SlotsNat
<1>4. next_entries_index(i) = Wrap(head_index + (c + i))
    BY <1>1, <1>3, WrapTwice DEF next_entries_index, Holding
<1> QED BY <1>1, <1>3, <1>4, AgeOfSlot, SlotOfAge

\* A slot after the edge, by its age before it: the r oldest are left, the
\* instructions that stay keep their kind and can only complete, and g new ones
\* are behind them.
SlotAfter(s, c, r, g, done) ==
    LET a == AgeFrom(head_index, s)
    IN /\ entries'[s] \in Entry
       /\ entries'[s].valid <=> r <= a /\ a < c + g
       /\ a < c => entries'[s].kind = entries[s].kind
       /\ r <= a /\ a < c =>
            /\ entries'[s].executed <=> (entries[s].executed \/ s \in done)
            /\ s \notin done => entries'[s].correct = entries[s].correct

LEMMA AdvanceShape ==
    ASSUME TypeOK, NEW c \in 0..ROB_NUM_ENTRIES, Holding(c),
           NEW r \in 0..N, r <= c, Leaving(r),
           NEW d \in Groups, NEW done \in SUBSET Pending, NEW right,
           Advance(d, done, right)
    PROVE  \E g \in 0..N :
             /\ c + g <= ROB_NUM_ENTRIES
             /\ tail_index' = Wrap(head_index + (c + g))
             /\ \A s \in Slots : SlotAfter(s, c, r, g, done)
<1>1. head_index \in Slots /\ \A s \in Slots : entries[s] \in Entry
    BY DEF TypeOK
<1>2. PICK g \in 0..N : /\ Count(d) = g
                        /\ \A i \in Ways : d[i] \in Entry /\ (d[i].valid <=> i < g)
    BY GroupShape
<1>3. rob_full <=> ROB_NUM_ENTRIES - c < N
    BY HoldingFull
<1>4. c + g <= ROB_NUM_ENTRIES /\ (rob_full => g = 0)
    BY <1>2, <1>3, SlotsNat DEF Advance
<1>5. tail_index' = Wrap(head_index + (c + g))
    <2>1. n_tail_index(d) = Wrap(Wrap(head_index + c) + g)
        BY <1>2 DEF n_tail_index, Holding
    <2>2. c \in Nat /\ g \in Nat
        OBVIOUS
    <2>3. n_tail_index(d) = Wrap(head_index + (c + g))
        BY <2>1, <2>2, <1>1, <1>4, WrapTwice
    <2> QED BY <2>3 DEF Advance
<1>6. ASSUME NEW s \in Slots
      PROVE  SlotAfter(s, c, r, g, done)
    <2> DEFINE a == AgeFrom(head_index, s)
               wfi == s \in RetiringSlots /\ Halting(entries[s])
    <2>1. a \in Slots /\ a \in Int /\ 0 <= a /\ a < ROB_NUM_ENTRIES
        BY <1>1, AgeOfSlot, SlotsNat
    <2>2. s \in RetiringSlots <=> a < r
        BY DEF Leaving
    <2>3. entries[s].valid <=> a < c
        BY DEF Holding
    <2>4. PICK e : e = IF Written(s) = {} THEN entries[s]
                                          ELSE d[CHOOSE i \in Written(s) : TRUE]
        OBVIOUS
    <2>5. entries'[s] = [valid    |-> e.valid /\ s \notin RetiringSlots,
                         executed |-> (e.executed \/ s \in done) /\ ~wfi,
                         correct  |-> IF s \in done THEN s \in right ELSE e.correct,
                         kind     |-> e.kind]
        BY <2>4 DEF Advance, n_entries
    <2>6. e \in Entry /\ (e.valid <=> a < c + g) /\ (a < c => e = entries[s])
        <3>1. CASE Written(s) = {}
            <4>1. ~(c <= a /\ a < c + g)
                <5> SUFFICES ASSUME c <= a, a < c + g PROVE FALSE
                    OBVIOUS
                <5>1. a - c \in Ways /\ a = c + (a - c) /\ ~rob_full
                    BY <1>4, <2>1, SlotsNat
                <5>2. a - c \in Written(s)
                    BY <5>1, WrittenShape
                <5> QED BY <5>2, <3>1
            <4>2. e = entries[s]
                BY <2>4, <3>1
            <4> QED BY <4>1, <4>2, <2>1, <2>3, <1>1
        <3>2. CASE Written(s) # {}
            <4>1. PICK i \in Written(s) : e = d[i]
                BY <2>4, <3>2
            <4>2. i \in Ways /\ a = c + i
                <5>1. i \in Ways
                    BY DEF Written
                <5> QED BY <5>1, WrittenShape
            <4>3. e \in Entry /\ (e.valid <=> i < g)
                BY <1>2, <4>1, <4>2
            <4>4. i < g <=> a < c + g
                BY <4>2, SlotsNat
            <4>5. ~(a < c)
                BY <4>2, SlotsNat
            <4> QED BY <4>3, <4>4, <4>5
        <3> QED BY <3>1, <3>2
    <2>7. e.valid \in BOOLEAN /\ e.executed \in BOOLEAN /\ e.correct \in BOOLEAN /\ e.kind \in Kinds
        BY <2>6 DEF Entry
    <2>11. (e.valid /\ s \notin RetiringSlots) \in BOOLEAN
        BY <2>7
    <2>12. ((e.executed \/ s \in done) /\ ~wfi) \in BOOLEAN
        BY <2>7 DEF Halting
    <2>13. (IF s \in done THEN s \in right ELSE e.correct) \in BOOLEAN
        <3>1. CASE s \in done
            BY <3>1
        <3>2. CASE s \notin done
            BY <3>2, <2>7
        <3> QED BY <3>1, <3>2
    <2>14. entries'[s] \in Entry
        BY <2>5, <2>7, <2>11, <2>12, <2>13 DEF Entry
    <2>15. entries'[s].valid = (e.valid /\ s \notin RetiringSlots)
        BY <2>5
    <2>8. entries'[s].valid <=> r <= a /\ a < c + g
        <3>1. entries'[s].valid <=> e.valid /\ s \notin RetiringSlots
            BY <2>15
        <3> HIDE DEF a
        <3> QED BY <3>1, <2>1, <2>2, <2>6
    <2>9. a < c => entries'[s].kind = entries[s].kind
        BY <2>5, <2>6
    <2>10. ASSUME r <= a, a < c
           PROVE  /\ entries'[s].executed <=> (entries[s].executed \/ s \in done)
                  /\ s \notin done => entries'[s].correct = entries[s].correct
        <3>1. ~wfi /\ e = entries[s]
            BY <2>1, <2>2, <2>6, <2>10
        <3>2. entries'[s].executed = ((e.executed \/ s \in done) /\ ~wfi)
            BY <2>5
        <3>3. s \notin done => entries'[s].correct = e.correct
            BY <2>5
        <3> QED BY <3>1, <3>2, <3>3
    <2> QED BY <2>14, <2>8, <2>9, <2>10 DEF SlotAfter
<1> QED BY <1>4, <1>5, <1>6

-----------------------------------------------------------------------------
(* Type correctness and occupancy                                          *)

LEMMA StoresReadyType ==
    ASSUME NEW e, NEW h \in Slots, NEW tl
    PROVE  n_stores_ready(e, h, tl) \in [Ways -> Slots \cup {NoStore}]
<1>1. \A i \in Ways : Wrap(h + i) \in Slots
    BY SlotOfAge, SlotsNat
<1> QED BY <1>1 DEF n_stores_ready

\* What retires in an edge, and where the next head is.
LEMMA HaltShape ==
    ASSUME TypeOK, ~halt, NEW r \in 0..N, Leaving(r)
    PROVE  n_halt <=> \E i \in 0..(r - 1) : Halting(entries[Index(i)])
BY DEF Leaving, n_halt, RetiringSlots

LEMMA AdvanceType ==
    ASSUME TypeOK, Contiguous, ~halt, NEW d \in Groups, NEW done \in SUBSET Pending,
           NEW right, Advance(d, done, right)
    PROVE  TypeOK' /\ Contiguous'
<1>1. PICK c \in 0..ROB_NUM_ENTRIES : Holding(c)
    BY DEF Contiguous
<1>2. PICK r \in 0..N : r <= c /\ Leaving(r)
    BY <1>1, RetiringShape
<1>3. PICK g \in 0..N :
        /\ c + g <= ROB_NUM_ENTRIES
        /\ tail_index' = Wrap(head_index + (c + g))
        /\ \A s \in Slots : SlotAfter(s, c, r, g, done)
    BY <1>1, <1>2, AdvanceShape
<1>4. head_index \in Slots /\ head_index' = n_head_index /\ halt' = n_halt
    BY DEF TypeOK, Advance
<1>5. /\ head_index' \in Slots
      /\ ~halt' => head_index' = Wrap(head_index + r)
    BY <1>2, <1>4, HeadShape, HaltShape
<1>6. tail_index' \in Slots
    <2>1. c + g \in 0..ROB_NUM_ENTRIES
        BY <1>3
    <2> QED BY <1>3, <1>4, <2>1, HeadMoves
<1>7. entries' \in [Slots -> Entry]
    <2>1. \A s \in Slots : entries'[s] \in Entry
        BY <1>3 DEF SlotAfter
    <2>2. entries' = n_entries(d, done, right)
        BY DEF Advance
    <2>3. entries' = [s \in Slots |-> entries'[s]]
        BY <2>2 DEF n_entries
    <2> QED BY <2>1, <2>3
<1>8. stores_ready' \in [Ways -> Slots \cup {NoStore}]
    BY <1>5, StoresReadyType DEF Advance
<1>9. rob_commit' \in 0..N
    BY <1>2 DEF Advance, Leaving
<1>10. halt' \in BOOLEAN
    BY <1>2, <1>4, HaltShape DEF TypeOK, n_halt
<1>11. TypeOK'
    BY <1>5, <1>6, <1>7, <1>8, <1>9, <1>10 DEF TypeOK
<1>12. ASSUME ~halt' PROVE \E b \in 0..ROB_NUM_ENTRIES : Holding(b)'
    <2> DEFINE b == c + g - r
    <2>1. b \in 0..ROB_NUM_ENTRIES /\ b \in Nat /\ r \in Nat /\ r + b = c + g
        BY <1>2, <1>3
    <2>2. head_index' = Wrap(head_index + r)
        BY <1>5, <1>12
    <2>3. tail_index' = Wrap(head_index' + b)
        BY <1>3, <1>4, <2>1, <2>2, WrapTwice
    <2>4. ASSUME NEW s \in Slots
          PROVE  entries'[s].valid <=> AgeFrom(head_index', s) < b
        <3> DEFINE a == AgeFrom(head_index, s)
        <3>1. entries'[s].valid <=> r <= a /\ a < c + g
            BY <1>3 DEF SlotAfter
        <3>2. r \in 0..ROB_NUM_ENTRIES /\ a \in Slots
            BY <1>4, AgeOfSlot, SlotsNat
        <3>3. AgeFrom(head_index', s) = IF a >= r THEN a - r ELSE a - r + ROB_NUM_ENTRIES
            BY <1>4, <2>2, <3>2, HeadMoves
        <3> HIDE DEF a
        <3> QED BY <1>3, <3>1, <3>2, <3>3, SlotsNat
    <2> HIDE DEF b
    <2>5. Holding(b)'
        BY <2>3, <2>4 DEF Holding
    <2> QED BY <2>1, <2>5
<1>13. Contiguous'
    BY <1>12 DEF Contiguous
<1> QED BY <1>11, <1>13

\* A flushed buffer is empty, with head and tail together.
LEMMA EmptyBuffer ==
    ASSUME NEW e, e = [s \in Slots |-> Arriving("alu", FALSE)]
    PROVE  e \in [Slots -> Entry] /\ \A s \in Slots : ~e[s].valid
<1>1. /\ Arriving("alu", FALSE) \in Entry
      /\ Arriving("alu", FALSE).valid = FALSE
    BY ArrivingType
<1> QED BY <1>1

LEMMA EmptyHolding ==
    ASSUME head_index = 0, tail_index = 0, \A s \in Slots : ~entries[s].valid
    PROVE  Holding(0)
<1>1. Wrap(0 + 0) = 0
    BY SlotsNat DEF Wrap
<1>2. \A s \in Slots : ~(AgeFrom(0, s) < 0)
    BY SlotsNat, AgeOfSlot
<1> QED BY <1>1, <1>2 DEF Holding

LEMMA InitType == Init => TypeOK /\ Contiguous
<1> SUFFICES ASSUME Init PROVE TypeOK /\ Contiguous
    OBVIOUS
<1>1. entries \in [Slots -> Entry] /\ \A s \in Slots : ~entries[s].valid
    BY EmptyBuffer DEF Init
<1>2. TypeOK
    <2>1. stores_ready \in [Ways -> Slots \cup {NoStore}]
        BY DEF Init
    <2>2. rob_commit \in 0..N
        BY SlotsNat DEF Init
    <2>3. head_index \in Slots /\ tail_index \in Slots /\ halt \in BOOLEAN
        BY SlotsNat DEF Init
    <2> QED BY <1>1, <2>1, <2>2, <2>3 DEF TypeOK
<1>3. Holding(0)
    BY <1>1, EmptyHolding DEF Init
<1> QED BY <1>2, <1>3, SlotsNat DEF Contiguous

LEMMA FlushType ==
    ASSUME TypeOK, Contiguous, ~halt, Flush
    PROVE  TypeOK' /\ Contiguous'
<1>1. entries' \in [Slots -> Entry] /\ \A s \in Slots : ~entries'[s].valid
    <2>1. entries' = [s \in Slots |-> Arriving("alu", FALSE)]
        BY DEF Flush
    <2> QED BY <2>1, EmptyBuffer
<1>2. PICK c \in 0..ROB_NUM_ENTRIES : Holding(c)
    BY DEF Contiguous
<1>3. PICK r \in 0..N : r <= c /\ Leaving(r)
    BY <1>2, RetiringShape
<1>4. TypeOK'
    BY <1>1, <1>3, SlotsNat DEF Flush, TypeOK, Leaving
<1>5. Holding(0)'
    <2>1. Wrap(0 + 0) = 0
        BY SlotsNat DEF Wrap
    <2>2. \A s \in Slots : ~(AgeFrom(0, s) < 0)
        BY SlotsNat, AgeOfSlot
    <2>3. head_index' = 0 /\ tail_index' = 0
        BY DEF Flush
    <2> QED BY <1>1, <2>1, <2>2, <2>3 DEF Holding
<1> QED BY <1>4, <1>5, SlotsNat DEF Contiguous

LEMMA ContiguousInvariant == Spec => [](TypeOK /\ Contiguous)
<1>1. TypeOK /\ Contiguous /\ [Next]_vars => (TypeOK /\ Contiguous)'
    <2> SUFFICES ASSUME TypeOK, Contiguous, [Next]_vars PROVE TypeOK' /\ Contiguous'
        OBVIOUS
    <2>1. CASE UNCHANGED vars
        BY <2>1 DEF vars, TypeOK, Contiguous, Holding
    <2>2. CASE Next
        BY <2>2, AdvanceType, FlushType DEF Next
    <2> QED BY <2>1, <2>2
<1> QED BY <1>1, InitType, PTL DEF Spec

\* Head, tail and every slot stay what they are declared to be, whatever mix of
\* dispatch, completion, retirement and flush wraps around the buffer.
THEOREM RobTypeCorrect == Spec => []TypeOK
BY ContiguousInvariant, PTL

\* The valid slots are always the ones from the head up to the tail, the tail
\* never overtakes the head, and the structural hazard is raised exactly when a
\* whole group no longer fits.
THEOREM RobOccupancy == Spec => []Occupancy
BY ContiguousInvariant, HoldingOccupancy, PTL
-----------------------------------------------------------------------------
(* Stores stay released                                                    *)

\* Way i of the store release logic finds a store, and nothing up to it that
\* may still discard it.
ReleasedAt(e, h, tl, i) ==
    /\ \A j \in 0..i : /\ ~(Wrap(h + j) = tl /\ ~e[tl].valid)
                       /\ ~Blocks(e[Wrap(h + j)])
    /\ e[Wrap(h + i)].kind = "store"

\* The register holds what the logic computes from the registered slots: it is
\* computed from the next state of the slots and clocked with them.
ReleaseUpToDate == stores_ready = n_stores_ready(entries, head_index, tail_index)

LEMMA ReleasedIs ==
    ASSUME NEW e, NEW h \in Slots, NEW tl,
           NEW sr, sr = n_stores_ready(e, h, tl), NEW s \in Slots
    PROVE  (\E i \in Ways : sr[i] = s) <=>
               \E i \in Ways : s = Wrap(h + i) /\ ReleasedAt(e, h, tl, i)
<1>1. \A i \in Ways :
        sr[i] = IF ReleasedAt(e, h, tl, i) THEN Wrap(h + i) ELSE NoStore
    BY DEF n_stores_ready, ReleasedAt
<1>2. s # NoStore
    BY DEF Slots
<1> QED BY <1>1, <1>2

\* Nothing at or behind the tail is released.
LEMMA ReleasedInside ==
    ASSUME TypeOK, NEW c \in 0..ROB_NUM_ENTRIES, Holding(c), NEW i \in Ways,
           ReleasedAt(entries, head_index, tail_index, i)
    PROVE  i < c
<1> SUFFICES ASSUME c <= i PROVE FALSE
    BY SlotsNat
<1>1. c \in 0..i /\ c \in Slots /\ head_index \in Slots
    BY SlotsNat DEF TypeOK
<1>2. AgeFrom(head_index, Wrap(head_index + c)) = c /\ Wrap(head_index + c) \in Slots
    BY <1>1, SlotOfAge
<1>3. Wrap(head_index + c) = tail_index /\ ~entries[tail_index].valid
    BY <1>2 DEF Holding
<1> QED BY <1>1, <1>3 DEF ReleasedAt

\* A slot that does not hold back the stores behind it does not come to do so.
LEMMA StaysOpen ==
    ASSUME TypeOK, NEW c \in 0..ROB_NUM_ENTRIES, NEW r \in 0..N, NEW g \in 0..N,
           NEW done \in SUBSET Pending, NEW s \in Slots,
           SlotAfter(s, c, r, g, done),
           r <= AgeFrom(head_index, s), AgeFrom(head_index, s) < c,
           ~Blocks(entries[s])
    PROVE  ~Blocks(entries'[s]) /\ entries'[s].valid
<1>1. AgeFrom(head_index, s) < c + g
    BY AgeOfSlot, SlotsNat DEF TypeOK
<1>2. /\ entries'[s].valid
      /\ entries'[s].kind = entries[s].kind
      /\ entries'[s].executed <=> (entries[s].executed \/ s \in done)
      /\ s \notin done => entries'[s].correct = entries[s].correct
    BY <1>1 DEF SlotAfter
<1>3. s \in done => ~entries[s].executed
    BY DEF Pending
<1> QED BY <1>2, <1>3 DEF Blocks, Halting, Mispredicted

LEMMA AdvanceKeepsReleased ==
    ASSUME TypeOK, Contiguous, ~halt, NEW d \in Groups, NEW done \in SUBSET Pending,
           NEW right, Advance(d, done, right),
           NEW i \in Ways, ReleasedAt(entries, head_index, tail_index, i),
           Index(i) \notin RetiringSlots
    PROVE  \E k \in Ways : /\ Index(i) = Wrap(head_index' + k)
                           /\ ReleasedAt(entries', head_index', tail_index', k)
<1>1. PICK c \in 0..ROB_NUM_ENTRIES : Holding(c)
    BY DEF Contiguous
<1>2. PICK r \in 0..N : r <= c /\ Leaving(r)
    BY <1>1, RetiringShape
<1>3. PICK g \in 0..N : \A s \in Slots : SlotAfter(s, c, r, g, done)
    BY <1>1, <1>2, AdvanceShape
<1>4. head_index \in Slots /\ i < c /\ head_index' = n_head_index
    BY <1>1, ReleasedInside DEF TypeOK, Advance
<1>5. \A a \in 0..i : Wrap(head_index + a) \in Slots /\ AgeFrom(head_index, Wrap(head_index + a)) = a
    <2>1. \A a \in 0..i : a \in Slots
        BY SlotsNat
    <2> QED BY <2>1, <1>4, SlotOfAge
<1>6. r <= i
    <2>1. i \in 0..i
        BY SlotsNat
    <2>2. Index(i) \in Slots /\ AgeFrom(head_index, Index(i)) = i
        BY <1>5, <2>1 DEF Index
    <2>3. ~(i < r)
        BY <1>2, <2>2 DEF Leaving
    <2> QED BY <2>3, SlotsNat
<1>7. head_index' = Wrap(head_index + r)
    <2>1. \A a \in 0..(r - 1) : ~Halting(entries[Index(a)])
        <3>1. \A a \in 0..(r - 1) : a \in 0..i
            BY <1>6, SlotsNat
        <3> QED BY <3>1 DEF ReleasedAt, Index, Blocks
    <2> QED BY <2>1, <1>2, <1>4, HeadShape
<1>8. ASSUME NEW j \in 0..(i - r)
      PROVE  /\ Wrap(head_index' + j) = Wrap(head_index + (r + j))
             /\ r + j \in 0..i
    <2>1. j \in Nat /\ r \in Nat /\ r + j <= ROB_NUM_ENTRIES /\ r + j \in 0..i
        BY <1>6, SlotsNat
    <2> QED BY <2>1, <1>4, <1>7, WrapTwice
<1>9. ASSUME NEW j \in 0..(i - r)
      PROVE  /\ entries'[Wrap(head_index' + j)].valid
             /\ ~Blocks(entries'[Wrap(head_index' + j)])
             /\ entries'[Wrap(head_index' + j)].kind = entries[Wrap(head_index + (r + j))].kind
    <2> DEFINE s == Wrap(head_index + (r + j))
    <2>1. s \in Slots /\ AgeFrom(head_index, s) = r + j /\ r + j \in 0..i
        BY <1>5, <1>8
    <2>2. r <= r + j /\ r + j < c
        BY <1>4, <2>1, SlotsNat
    <2>3. ~Blocks(entries[s])
        BY <2>1 DEF ReleasedAt
    <2>4. Wrap(head_index' + j) = s
        BY <1>8
    <2> HIDE DEF s
    <2>5. SlotAfter(s, c, r, g, done)
        BY <1>3, <2>1
    <2>6. ~Blocks(entries'[s]) /\ entries'[s].valid
        BY <2>1, <2>2, <2>3, <2>5, StaysOpen
    <2>7. entries'[s].kind = entries[s].kind
        BY <2>1, <2>2, <2>5 DEF SlotAfter
    <2> QED BY <2>4, <2>6, <2>7 DEF s
<1>10. i - r \in Ways /\ i - r \in 0..(i - r) /\ r + (i - r) = i
    BY <1>6, SlotsNat
<1>11. Index(i) = Wrap(head_index' + (i - r))
    BY <1>8, <1>10 DEF Index
<1>12. ReleasedAt(entries', head_index', tail_index', i - r)
    <2>1. entries'[Wrap(head_index' + (i - r))].kind = "store"
        BY <1>9, <1>10 DEF ReleasedAt
    <2>2. \A j \in 0..(i - r) :
            /\ ~(Wrap(head_index' + j) = tail_index' /\ ~entries'[tail_index'].valid)
            /\ ~Blocks(entries'[Wrap(head_index' + j)])
        BY <1>9
    <2> QED BY <2>1, <2>2 DEF ReleasedAt
<1> QED BY <1>10, <1>11, <1>12

LEMMA ReleaseInvariant == Spec => []ReleaseUpToDate
<1>1. Init => ReleaseUpToDate
    <2> SUFFICES ASSUME Init PROVE ReleaseUpToDate
        OBVIOUS
    <2>1. Wrap(0 + 0) = 0
        BY SlotsNat DEF Wrap
    <2>2. ~entries[0].valid
        BY EmptyBuffer, SlotsNat DEF Init
    <2>3. \A i \in Ways : 0 \in 0..i
        BY SlotsNat
    <2>4. n_stores_ready(entries, 0, 0) = [i \in Ways |-> NoStore]
        BY <2>1, <2>2, <2>3 DEF n_stores_ready
    <2> QED BY <2>4 DEF Init, ReleaseUpToDate
<1>2. ReleaseUpToDate /\ [Next]_vars => ReleaseUpToDate'
    <2> SUFFICES ASSUME ReleaseUpToDate, [Next]_vars PROVE ReleaseUpToDate'
        OBVIOUS
    <2>1. CASE UNCHANGED vars
        BY <2>1 DEF vars, ReleaseUpToDate, n_stores_ready
    <2>2. ASSUME NEW d, NEW done, NEW right, Advance(d, done, right) PROVE ReleaseUpToDate'
        BY <2>2 DEF Advance, ReleaseUpToDate, n_stores_ready
    <2>3. CASE Flush
        <3>1. Wrap(0 + 0) = 0
            BY SlotsNat DEF Wrap
        <3>2. ~entries'[0].valid
            <4>1. entries' = [s \in Slots |-> Arriving("alu", FALSE)]
                BY <2>3 DEF Flush
            <4> QED BY <4>1, EmptyBuffer, SlotsNat
        <3>3. \A i \in Ways : 0 \in 0..i
            BY SlotsNat
        <3>4. n_stores_ready(entries', 0, 0) = [i \in Ways |-> NoStore]
            BY <3>1, <3>2, <3>3 DEF n_stores_ready
        <3> QED BY <3>4, <2>3 DEF Flush, ReleaseUpToDate, n_stores_ready
    <2> QED BY <2>1, <2>2, <2>3 DEF Next
<1> QED BY <1>1, <1>2, PTL DEF Spec

\* Once the buffer has released a store to memory, every later edge either
\* releases it again or retires it, for every buffer size and every program: the
\* load/store queue never has to undo a write.
THEOREM ReleasedStoresAreNotTakenBack == Spec => ReleasedStoresStay
<1> DEFINE Stays == \A s \in Announced :
                        \/ s \in Announced'
                        \/ s \in RetiringSlots /\ entries[s].kind = "store"
<1>1. ASSUME TypeOK, Contiguous, ReleaseUpToDate, ReleaseUpToDate', TypeOK', ~halt,
             [Next]_vars, NEW s \in Announced, ~(UNCHANGED vars)
      PROVE  s \in Announced' \/ (s \in RetiringSlots /\ entries[s].kind = "store")
    <2>1. s \in Slots /\ \E i \in Ways : stores_ready[i] = s
        BY <1>1 DEF Announced, TypeOK
    <2>2. PICK i \in Ways : s = Index(i) /\ ReleasedAt(entries, head_index, tail_index, i)
        BY <1>1, <2>1, ReleasedIs DEF TypeOK, ReleaseUpToDate, Index
    <2>3. CASE s \in RetiringSlots
        BY <2>2, <2>3 DEF ReleasedAt, Index
    <2>4. CASE s \notin RetiringSlots
        <3>1. ASSUME NEW d \in Groups, NEW done \in SUBSET Pending, NEW right,
                     Advance(d, done, right)
              PROVE  s \in Announced'
            <4>1. \E k \in Ways : /\ s = Wrap(head_index' + k)
                                  /\ ReleasedAt(entries', head_index', tail_index', k)
                BY <1>1, <2>2, <2>4, <3>1, AdvanceKeepsReleased
            <4>2. PICK sr : sr = stores_ready'
                OBVIOUS
            <4>3. sr = n_stores_ready(entries', head_index', tail_index')
                BY <4>2, <3>1 DEF Advance
            <4>4. head_index' \in Slots
                BY <1>1 DEF TypeOK
            <4>5. \E k \in Ways : sr[k] = s
                BY <2>1, <4>1, <4>3, <4>4, ReleasedIs
            <4>6. s # NoStore
                BY <2>1 DEF Slots
            <4> QED BY <4>2, <4>5, <4>6 DEF Announced
        <3>2. CASE Flush
            <4>1. PICK c \in 0..ROB_NUM_ENTRIES : Holding(c)
                BY <1>1 DEF Contiguous
            <4>2. PICK r \in 0..N : r <= c /\ Leaving(r)
                BY <1>1, <4>1, RetiringShape
            <4>3. PICK x \in Retiring : Mispredicted(entries[Index(x)])
                BY <3>2 DEF Flush, branch_mispredict, RetiringSlots
            <4>4. ~(x \in 0..i)
                BY <2>2, <4>3 DEF ReleasedAt, Index, Blocks, Mispredicted
            <4>5. i \in Retiring
                BY <4>2, <4>3, <4>4, SlotsNat DEF Leaving
            <4> QED BY <2>2, <2>4, <4>5 DEF RetiringSlots
        <3> QED BY <1>1, <3>1, <3>2 DEF Next
    <2> QED BY <2>3, <2>4
<1>2. TypeOK /\ Contiguous /\ ReleaseUpToDate /\ TypeOK' /\ ReleaseUpToDate' /\ [Next]_vars
        => [Stays]_vars
    <2>1. Next => ~halt
        BY DEF Next
    <2> QED BY <1>1, <2>1
<1> QED BY <1>2, ContiguousInvariant, ReleaseInvariant, PTL DEF Spec, ReleasedStoresStay
-----------------------------------------------------------------------------
(* The buffer is an in-order queue                                         *)

Seen(e) == [kind |-> e.kind, executed |-> e.executed, correct |-> e.correct]

\* The queue of the c instructions from slot o on.
QueueOf(e, o, c) == [i \in 1..c |-> Seen(e[Wrap(o + (i - 1))])]

LEMMA QueueOfShape ==
    ASSUME NEW e, NEW o, NEW c \in Nat
    PROVE  /\ Len(QueueOf(e, o, c)) = c
           /\ \A i \in 1..c : QueueOf(e, o, c)[i] = Seen(e[Wrap(o + (i - 1))])
           /\ c = 0 => QueueOf(e, o, c) = <<>>
BY DEF QueueOf

LEMMA SeenIs ==
    ASSUME NEW e
    PROVE  /\ Seen(e).kind = e.kind /\ Seen(e).executed = e.executed
           /\ Seen(e).correct = e.correct
           /\ e \in Entry => Seen(e) \in Queue!Instruction
BY DEF Seen, Entry, Queue!Instruction

LEMMA ContentsNow ==
    ASSUME TypeOK, ~halt, NEW c \in 0..ROB_NUM_ENTRIES, Holding(c)
    PROVE  Contents = QueueOf(entries, head_index, c)
<1>1. Cardinality(ValidSlots) = c
    BY HoldingCount
<1>2. Oldest = head_index
    BY DEF Oldest
<1> QED BY <1>1, <1>2 DEF Contents, QueueOf, Seen

LEMMA ContentsNext ==
    ASSUME NEW o \in Slots, Oldest' = o, NEW c \in 0..ROB_NUM_ENTRIES,
           \A s \in Slots : entries'[s].valid <=> AgeFrom(o, s) < c
    PROVE  Contents' = QueueOf(entries', o, c)
<1>1. Cardinality({s \in Slots : entries'[s].valid}) = c
    BY CountFrom
<1>2. Cardinality(ValidSlots') = c
    BY <1>1 DEF ValidSlots
<1> QED BY <1>2 DEF Contents, QueueOf, Seen

\* The r oldest instructions may leave the queue together.
LEMMA LeavingMayLeave ==
    ASSUME TypeOK, ~halt, NEW c \in 0..ROB_NUM_ENTRIES, Holding(c),
           NEW r \in 0..N, r <= c, Leaving(r)
    PROVE  /\ Len(Contents) = c
           /\ \A i \in 1..c : Contents[i] = Seen(entries[Index(i - 1)])
           /\ Queue!MayLeave(r)
<1>1. c \in Nat
    OBVIOUS
<1>2. Len(Contents) = c /\ \A i \in 1..c : Contents[i] = Seen(entries[Index(i - 1)])
    BY <1>1, ContentsNow, QueueOfShape DEF Index
<1>3. ASSUME NEW i \in 1..r
      PROVE  /\ Contents[i].executed
             /\ i < r => Contents[i].kind # "wfi" /\ ~Queue!Mispredicted(Contents[i])
    <2>1. i \in 1..c /\ i - 1 \in 0..(r - 1)
        BY SlotsNat
    <2>2. Contents[i] = Seen(entries[Index(i - 1)])
        BY <1>2, <2>1
    <2>3. Contents[i].executed
        BY <2>1, <2>2, SeenIs DEF Leaving
    <2>4. ASSUME i < r
          PROVE  Contents[i].kind # "wfi" /\ ~Queue!Mispredicted(Contents[i])
        <3>1. i - 1 \in 0..(r - 2)
            BY <2>4, SlotsNat
        <3>2. ~Halting(entries[Index(i - 1)]) /\ ~Mispredicted(entries[Index(i - 1)])
            BY <3>1 DEF Leaving
        <3> QED BY <3>2, <2>2, SeenIs DEF Halting, Mispredicted, Queue!Mispredicted
    <2> QED BY <2>3, <2>4
<1> QED BY <1>2, <1>3 DEF Queue!MayLeave

LEMMA AdvanceIsCycle ==
    ASSUME TypeOK, TypeOK', Contiguous, ~halt, NEW d \in Groups,
           NEW done \in SUBSET Pending, NEW right, Advance(d, done, right)
    PROVE  Queue!Cycle
<1>1. PICK c \in 0..ROB_NUM_ENTRIES : Holding(c)
    BY DEF Contiguous
<1>2. PICK r \in 0..N : r <= c /\ Leaving(r)
    BY <1>1, RetiringShape
<1>3. PICK g \in 0..N : /\ c + g <= ROB_NUM_ENTRIES
                        /\ \A s \in Slots : SlotAfter(s, c, r, g, done)
    BY <1>1, <1>2, AdvanceShape
<1> DEFINE o == Wrap(head_index + r)
           b == c + g - r
<1>4. head_index \in Slots /\ head_index' = n_head_index /\ halt' = n_halt
    BY DEF TypeOK, Advance
<1>5. o \in Slots /\ r \in 0..ROB_NUM_ENTRIES
    <2>1. r \in 0..ROB_NUM_ENTRIES
        BY SlotsNat
    <2>2. \A s \in Slots : Wrap(head_index + r) \in Slots
        BY <2>1, <1>4, HeadMoves
    <2> QED BY <2>1, <2>2, SlotsNat
<1>6. halt' <=> \E i \in 0..(r - 1) : Halting(entries[Index(i)])
    BY <1>2, <1>4, HaltShape
<1>7. Oldest' = o
    <2>1. CASE halt'
        <3>1. r > 0 /\ head_index' = Wrap(head_index + (r - 1))
            BY <1>2, <1>4, <1>6, <2>1, HeadShape
        <3>2. r - 1 \in Nat /\ 1 \in Nat /\ (r - 1) + 1 = r /\ r <= ROB_NUM_ENTRIES
            BY <3>1, SlotsNat
        <3>3. Wrap(Wrap(head_index + (r - 1)) + 1) = Wrap(head_index + ((r - 1) + 1))
            BY <1>4, <3>2, WrapTwice
        <3> QED BY <2>1, <3>1, <3>2, <3>3 DEF Oldest
    <2>2. CASE ~halt'
        BY <1>2, <1>4, <1>6, <2>2, HeadShape DEF Oldest
    <2> QED BY <2>1, <2>2
<1>8. b \in 0..ROB_NUM_ENTRIES /\ b \in Nat
    BY <1>2, <1>3, SlotsNat
<1>9. ASSUME NEW s \in Slots
      PROVE  entries'[s].valid <=> AgeFrom(o, s) < b
    <2> DEFINE a == AgeFrom(head_index, s)
    <2>1. entries'[s].valid <=> r <= a /\ a < c + g
        BY <1>3 DEF SlotAfter
    <2>2. a \in Slots /\ AgeFrom(o, s) = IF a >= r THEN a - r ELSE a - r + ROB_NUM_ENTRIES
        BY <1>4, <1>5, AgeOfSlot, HeadMoves
    <2> HIDE DEF a, o
    <2> QED BY <1>2, <1>3, <2>1, <2>2, SlotsNat
<1> HIDE DEF o, b
<1>10. Contents' = QueueOf(entries', o, b)
    BY <1>5, <1>7, <1>8, <1>9, ContentsNext
<1>11. Len(Contents') = b /\ \A i \in 1..b : Contents'[i] = Seen(entries'[Wrap(o + (i - 1))])
    BY <1>8, <1>10, QueueOfShape
<1>12. /\ Len(Contents) = c
       /\ \A i \in 1..c : Contents[i] = Seen(entries[Index(i - 1)])
       /\ Queue!MayLeave(r)
    BY <1>1, <1>2, LeavingMayLeave
<1>13. \A i \in 1..r : ~Queue!Mispredicted(Contents[i])
    <2> SUFFICES ASSUME NEW i \in 1..r PROVE ~Queue!Mispredicted(Contents[i])
        OBVIOUS
    <2>1. i \in 1..c /\ i - 1 \in Retiring
        BY <1>2, SlotsNat DEF Leaving
    <2>2. ~Mispredicted(entries[Index(i - 1)])
        BY <2>1 DEF Advance, branch_mispredict, RetiringSlots
    <2> QED BY <1>12, <2>1, <2>2, SeenIs DEF Mispredicted, Queue!Mispredicted
<1>14. ASSUME NEW i \in 1..(c - r)
       PROVE  Queue!Completes(Contents[r + i], Contents'[i])
    <2> DEFINE s == Index(r + i - 1)
    <2>1. /\ r + i - 1 \in Slots /\ r + i \in 1..c /\ i \in 1..b
          /\ r <= r + i - 1 /\ r + i - 1 < c
        BY <1>2, <1>3, SlotsNat DEF b
    <2>2. s \in Slots /\ AgeFrom(head_index, s) = r + i - 1
        BY <1>4, <2>1, SlotOfAge DEF Index
    <2>3. Contents[r + i] = Seen(entries[s])
        BY <1>12, <2>1
    <2>4. Contents'[i] = Seen(entries'[s])
        <3>1. r \in Nat /\ i - 1 \in Nat /\ r + (i - 1) = r + i - 1 /\ r + (i - 1) <= ROB_NUM_ENTRIES
            BY <2>1, SlotsNat
        <3>2. Wrap(o + (i - 1)) = s
            BY <1>4, <3>1, WrapTwice DEF o, Index
        <3> QED BY <1>11, <2>1, <3>2
    <2> HIDE DEF s
    <2>5. /\ entries'[s].kind = entries[s].kind
          /\ entries'[s].executed <=> (entries[s].executed \/ s \in done)
          /\ s \notin done => entries'[s].correct = entries[s].correct
          /\ entries'[s] \in Entry
        BY <1>3, <2>1, <2>2 DEF SlotAfter
    <2>6. entries[s] \in Entry
        BY <2>2 DEF TypeOK
    <2>7. CASE s \in done
        <3>1. ~entries[s].executed /\ entries'[s].executed
            BY <2>5, <2>7 DEF Pending
        <3> QED BY <2>3, <2>4, <2>5, <3>1, SeenIs DEF Queue!Completes
    <2>8. CASE s \notin done
        <3>1. entries'[s].executed = entries[s].executed
            BY <2>5, <2>6, <2>8 DEF Entry
        <3>2. Seen(entries'[s]) = Seen(entries[s])
            BY <2>5, <2>8, <3>1 DEF Seen
        <3> QED BY <2>3, <2>4, <3>2 DEF Queue!Completes
    <2> QED BY <2>7, <2>8
<1>15. \A i \in 1..b : Contents'[i] \in Queue!Instruction
    <2> SUFFICES ASSUME NEW i \in 1..b PROVE Contents'[i] \in Queue!Instruction
        OBVIOUS
    <2>1. i - 1 \in Slots
        BY <1>8, SlotsNat
    <2>2. Wrap(o + (i - 1)) \in Slots
        BY <2>1, <1>5, SlotOfAge
    <2>3. entries'[Wrap(o + (i - 1))] \in Entry
        BY <2>2 DEF TypeOK
    <2> QED BY <1>11, <2>3, SeenIs
<1>16. rob_commit' = r
    BY <1>2 DEF Advance, Leaving
<1>17. halt' = (halt \/ (r > 0 /\ Contents[r].kind = "wfi"))
    <2>1. CASE r = 0
        BY <1>6, <2>1 DEF TypeOK
    <2>2. CASE r # 0
        <3>1. r \in 1..c /\ r - 1 \in 0..(r - 1) /\ r > 0
              /\ \A i \in 0..(r - 1) : i = r - 1 \/ i \in 0..(r - 2)
            BY <1>2, <2>2, SlotsNat
        <3>2. halt' <=> Halting(entries[Index(r - 1)])
            BY <1>2, <1>6, <3>1 DEF Leaving
        <3>3. Contents[r].kind = entries[Index(r - 1)].kind
            BY <1>12, <3>1, SeenIs
        <3>4. halt' \in BOOLEAN
            BY DEF TypeOK
        <3> QED BY <3>1, <3>2, <3>3, <3>4 DEF Halting
    <2> QED BY <2>1, <2>2
<1>18. c - r <= b /\ b <= (c - r) + N /\ b <= ROB_NUM_ENTRIES /\ c - r \in Int
    BY <1>2, <1>3, SlotsNat DEF b
<1>19. /\ r <= Len(Contents)
       /\ Len(Contents') \in (Len(Contents) - r)..(Len(Contents) - r + N)
       /\ Len(Contents') <= ROB_NUM_ENTRIES
    BY <1>2, <1>8, <1>11, <1>12, <1>18, SlotsNat
<1>20. /\ \A i \in 1..(Len(Contents) - r) : Queue!Completes(Contents[r + i], Contents'[i])
       /\ \A i \in 1..Len(Contents') : Contents'[i] \in Queue!Instruction
    BY <1>11, <1>12, <1>14, <1>15
<1> QED BY <1>12, <1>13, <1>16, <1>17, <1>19, <1>20 DEF Queue!Cycle

LEMMA FlushIsSquash ==
    ASSUME TypeOK, Contiguous, ~halt, Flush
    PROVE  Queue!Squash
<1>1. PICK c \in 0..ROB_NUM_ENTRIES : Holding(c)
    BY DEF Contiguous
<1>2. PICK r \in 0..N : r <= c /\ Leaving(r)
    BY <1>1, RetiringShape
<1>3. /\ Len(Contents) = c
      /\ \A i \in 1..c : Contents[i] = Seen(entries[Index(i - 1)])
      /\ Queue!MayLeave(r)
    BY <1>1, <1>2, LeavingMayLeave
<1>4. PICK x \in Retiring : Mispredicted(entries[Index(x)])
    BY DEF Flush, branch_mispredict, RetiringSlots
<1>5. x = r - 1 /\ r \in 1..N /\ r \in 1..c
    BY <1>2, <1>4, SlotsNat DEF Leaving
<1>6. Queue!Mispredicted(Contents[r])
    BY <1>3, <1>4, <1>5, SeenIs DEF Mispredicted, Queue!Mispredicted
<1>7. rob_commit' = r /\ halt' = FALSE
    BY <1>2 DEF Flush, Leaving
<1>8. Contents' = <<>>
    <2>1. entries' = [s \in Slots |-> Arriving("alu", FALSE)] /\ head_index' = 0
        BY DEF Flush
    <2>2. \A s \in Slots : ~entries'[s].valid
        BY <2>1, EmptyBuffer
    <2>3. \A s \in Slots : ~(AgeFrom(0, s) < 0)
        BY SlotsNat, AgeOfSlot
    <2>4. Oldest' = 0 /\ 0 \in Slots /\ 0 \in 0..ROB_NUM_ENTRIES
        BY <1>7, <2>1, SlotsNat DEF Oldest
    <2>5. Contents' = QueueOf(entries', 0, 0)
        BY <2>2, <2>3, <2>4, ContentsNext
    <2> QED BY <2>5, QueueOfShape
<1> QED BY <1>2, <1>3, <1>5, <1>6, <1>7, <1>8 DEF Queue!Squash

LEMMA InitIsQueueInit == Init => Queue!Init
<1> SUFFICES ASSUME Init PROVE Queue!Init
    OBVIOUS
<1>1. entries \in [Slots -> Entry] /\ \A s \in Slots : ~entries[s].valid
    BY EmptyBuffer DEF Init
<1>2. Holding(0) /\ TypeOK /\ ~halt
    BY <1>1, EmptyHolding, InitType DEF Init
<1>4. 0 \in 0..ROB_NUM_ENTRIES /\ 0 \in Nat
    BY SlotsNat
<1>3. Contents = <<>>
    BY <1>2, <1>4, ContentsNow, QueueOfShape
<1> QED BY <1>3 DEF Init, Queue!Init

\* The buffer implements the in-order queue, for every size: instructions leave
\* in program order and only once executed, none leaves behind a wfi or a
\* mispredicted branch, and none is lost, duplicated or overwritten.
THEOREM RobImplementsQueue == Spec => ImplementsQueue
<1>1. TypeOK /\ Contiguous /\ TypeOK' /\ [Next]_vars
        => [Queue!Next]_<<Contents, halt, rob_commit>>
    <2> SUFFICES ASSUME TypeOK, Contiguous, TypeOK', [Next]_vars
                 PROVE  [Queue!Next]_<<Contents, halt, rob_commit>>
        OBVIOUS
    <2>1. CASE UNCHANGED vars
        BY <2>1 DEF vars, Contents, Oldest, ValidSlots
    <2>2. CASE Next
        <3>1. ~halt
            BY <2>2 DEF Next
        <3>2. Queue!Cycle \/ Queue!Squash
            BY <2>2, <3>1, AdvanceIsCycle, FlushIsSquash DEF Next
        <3> QED BY <3>1, <3>2 DEF Queue!Next
    <2> QED BY <2>1, <2>2
<1> QED BY <1>1, InitIsQueueInit, ContiguousInvariant, PTL DEF Spec, ImplementsQueue, Queue!Spec
=============================================================================

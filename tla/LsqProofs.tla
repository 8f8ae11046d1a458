------------------------------ MODULE LsqProofs ------------------------------
(***************************************************************************)
(* Theorems about the load/store queue, for every size of its two queues   *)
(* and of the reorder buffer, every superscalar degree and every program.  *)
(*                                                                         *)
(* First the stores: which slots are taken, by whom, and in which order    *)
(* they reach memory; then what loads read (LoadsReadProgramOrder).  Both  *)
(* for programs whose accesses are aligned and inside memory, and as long  *)
(* as no store slot is given again while its store is in flight (NoReuse): *)
(* which is to say, as is proved for every behaviour, as long as no more   *)
(* stores are in flight than the queue has slots (FewStores).              *)
(*                                                                         *)
(* That a slot is about one store only is an invariant of its own, and     *)
(* needs NoReuse (Claimed): what the edge does to a slot, it does after    *)
(* dispatch, to whatever is in the slot then.                              *)
(*                                                                         *)
(* The argument is about three ways a value can go.  A store in the queue  *)
(* is forwarded: it has to be the youngest older one that covers the load, *)
(* which the remaining bits of age_addr_match say (Ages).  A load goes to  *)
(* memory: no older store in the queue may cover it, and memory must hold  *)
(* the last one that has left (MemoryHolds).  And a store leaves between   *)
(* the two: what the program order says of the load (Values) changes from  *)
(* the one to the other.                                                   *)
(***************************************************************************)
EXTENDS Lsq, FiniteLemmas, SequenceTheorems

USE LsqAssumption

LEMMA LsqConstants ==
    /\ N \in Int /\ 1 <= N /\ N \in Ways
    /\ ROB_NUM_ENTRIES \in Int /\ ROB_NUM_ENTRIES >= N
    /\ STORE_QUEUE_SIZE \in Int /\ STORE_QUEUE_SIZE >= N
    /\ \A i : i \in Ways <=> i \in Int /\ 1 <= i /\ i <= N
    /\ \A s : s \in StoreSlots <=> s \in Int /\ 0 <= s /\ s < STORE_QUEUE_SIZE
    /\ NoSlot \notin StoreSlots /\ 0 \in StoreSlots
BY DEF Ways, StoreSlots, NoSlot

-----------------------------------------------------------------------------
(* What the records are                                                    *)

InstrFields == {"op", "lsq_index", "issued", "executed", "written", "expected"}
StoreFields == {"valid", "out_ready", "ready_for_mem", "has_address", "rob_entry",
                "at", "size", "value"}
LoadFields == StoreFields \cup {"age_addr_match"}
OutFields == {"valid", "rob_entry", "value"}

\* r is a reorder buffer.
Buffer(r) ==
    /\ Len(r) \in 0..ROB_NUM_ENTRIES /\ DOMAIN r = 1..Len(r)
    /\ \A i \in 1..Len(r) :
        /\ DOMAIN r[i] = InstrFields /\ r[i].op \in Ops
        /\ r[i].executed \in BOOLEAN /\ r[i].written \in BOOLEAN
        /\ r[i].op.kind = "store" => r[i].lsq_index \in StoreSlots

\* Entry e of r is an instruction of that kind which has no result yet.
Waits(r, e, kind) == e \in 1..Len(r) /\ r[e].op.kind = kind /\ ~r[e].executed

\* What is in the queues and the outputs waits in the reorder buffer.
Loads(r, lq) ==
    /\ DOMAIN lq = LoadSlots
    /\ \A l \in LoadSlots :
        /\ DOMAIN lq[l] = LoadFields /\ lq[l].valid \in BOOLEAN
        /\ lq[l].valid => /\ Waits(r, lq[l].rob_entry, "load")
                          /\ lq[l].age_addr_match \subseteq StoreSlots
Stores(r, sq) ==
    /\ DOMAIN sq = StoreSlots
    /\ \A s \in StoreSlots :
        /\ DOMAIN sq[s] = StoreFields
        /\ sq[s].valid \in BOOLEAN /\ sq[s].out_ready \in BOOLEAN
        /\ sq[s].ready_for_mem \in BOOLEAN /\ sq[s].value \in Int
        /\ sq[s].valid => Waits(r, sq[s].rob_entry, "store")
Results(r, o) ==
    /\ DOMAIN o = Ways
    /\ \A i \in Ways :
        /\ DOMAIN o[i] = OutFields /\ o[i].valid \in BOOLEAN
        /\ o[i].valid => \/ Waits(r, o[i].rob_entry, "load")
                         \/ Waits(r, o[i].rob_entry, "store")

\* Each of them waits for an instruction of its own.
Apart(lq, sq, o) ==
    /\ \A l, m \in LoadSlots :
        lq[l].valid /\ lq[m].valid /\ lq[l].rob_entry = lq[m].rob_entry => l = m
    /\ \A s, t \in StoreSlots :
        sq[s].valid /\ sq[t].valid /\ sq[s].rob_entry = sq[t].rob_entry => s = t
    /\ \A i, j \in Ways :
        o[i].valid /\ o[j].valid /\ o[i].rob_entry = o[j].rob_entry => i = j
    /\ \A l \in LoadSlots, i \in Ways :
        lq[l].valid /\ o[i].valid => lq[l].rob_entry # o[i].rob_entry
    /\ \A s \in StoreSlots, i \in Ways :
        sq[s].valid /\ o[i].valid => sq[s].rob_entry # o[i].rob_entry

\* The released stores are read off the reorder buffer, what was issued is of
\* the program, and memory and the ends of the store queue have their types.
Registers(r) ==
    /\ stores_ready = n_stores_ready(r)
    /\ str_head \in StoreSlots /\ str_tail \in StoreSlots
    /\ DOMAIN cur_instr \subseteq Ways
    /\ \A w \in DOMAIN cur_instr :
        \E op \in Ops : cur_instr[w].value = op.value /\ cur_instr[w].at = op.at
    /\ memory \in [Halves -> Int]

LsqInv ==
    /\ Buffer(rob) /\ Loads(rob, load_queue) /\ Stores(rob, store_queue)
    /\ Results(rob, out) /\ Apart(load_queue, store_queue, out)
    /\ Registers(rob)

LEMMA NoStoreFields ==
    /\ DOMAIN NoStore = StoreFields /\ ~NoStore.valid /\ NoStore.valid \in BOOLEAN
    /\ ~NoStore.out_ready /\ NoStore.out_ready \in BOOLEAN
    /\ ~NoStore.ready_for_mem /\ NoStore.ready_for_mem \in BOOLEAN
    /\ ~NoStore.has_address /\ NoStore.value \in Int
BY DEF NoStore, StoreFields

LEMMA LsqInvType == LsqInv => TypeOK
<1> SUFFICES ASSUME LsqInv PROVE TypeOK
    OBVIOUS
<1>1. Len(rob) <= ROB_NUM_ENTRIES /\ \A i \in DOMAIN rob : rob[i].op \in Ops
    BY DEF LsqInv, Buffer
<1>2. stores_ready \in [Ways -> StoreSlots \cup {NoSlot}]
    <2>1. \A i \in Ways : i <= Len(rob) => i \in 1..Len(rob)
        BY LsqConstants DEF LsqInv, Buffer
    <2> QED BY <2>1 DEF LsqInv, Buffer, Registers, n_stores_ready
<1>3. \A l \in LoadSlots :
        load_queue[l].valid => /\ load_queue[l].rob_entry \in DOMAIN rob
                               /\ load_queue[l].age_addr_match \subseteq StoreSlots
    BY DEF LsqInv, Buffer, Loads, Waits
<1>4. \A s \in StoreSlots :
        store_queue[s].valid => store_queue[s].rob_entry \in DOMAIN rob
    BY DEF LsqInv, Buffer, Stores, Waits
<1>5. \A i \in Ways : out[i].valid => out[i].rob_entry \in DOMAIN rob
    BY DEF LsqInv, Buffer, Results, Waits
<1> QED BY <1>1, <1>2, <1>3, <1>4, <1>5 DEF TypeOK, LsqInv, Registers

LEMMA LsqInit == Init => LsqInv
<1> SUFFICES ASSUME Init PROVE LsqInv
    OBVIOUS
<1>1. Buffer(rob) /\ Len(rob) = 0
    BY DEF Init, Buffer
<1>2. Loads(rob, load_queue)
    BY DEF Init, Loads, NoLoad, LoadFields, StoreFields
<1>3. Stores(rob, store_queue)
    <2>1. \A s \in StoreSlots : store_queue[s] = NoStore
        BY DEF Init
    <2>2. DOMAIN store_queue = StoreSlots
        BY DEF Init
    <2> QED BY <2>1, <2>2, NoStoreFields DEF Stores
<1>4. Results(rob, out)
    BY DEF Init, Results, NoOut, OutFields
<1>5. Apart(load_queue, store_queue, out)
    BY DEF Init, Apart, NoLoad, NoStore, NoOut
<1>6. Registers(rob)
    BY <1>1, LsqConstants DEF Init, Registers, n_stores_ready
<1> QED BY <1>1, <1>2, <1>3, <1>4, <1>5, <1>6 DEF LsqInv

-----------------------------------------------------------------------------
(* The reorder buffer after the edge                                       *)

LEMMA RetiringCount ==
    ASSUME Buffer(rob)
    PROVE  /\ Cardinality(Retiring) \in 0..Len(rob)
           /\ \A i \in 1..Cardinality(Retiring) : rob[i].executed
<1>0. Len(rob) \in Nat
    BY DEF Buffer
<1>1. CASE Retiring = {}
    <2>1. Cardinality(Retiring) = 0
        BY <1>1, FS_EmptySet
    <2> QED BY <1>0, <2>1
<1>2. CASE Retiring # {}
    <2>1. Retiring \in SUBSET (1..N) /\ N \in Int
        BY DEF Retiring, Ways
    <2>2. PICK k \in Retiring : \A x \in Retiring : x <= k
        BY <1>2, <2>1, MaxExists
    <2>3. k \in Int /\ 1 <= k /\ k <= Len(rob)
        BY <2>2, LsqConstants DEF Retiring
    <2>4. \A j \in 1..k : rob[j].executed
        BY <2>2 DEF Retiring
    <2>5. ASSUME NEW x \in 1..k
          PROVE  x \in Retiring
        <3>1. x \in Ways /\ x <= Len(rob)
            BY <2>1, <2>2, <2>3, <1>0, LsqConstants
        <3>2. ASSUME NEW j \in 1..x
              PROVE  rob[j].executed /\ (j < x => rob[j].op.kind # "mispredicted")
            <4>1. j \in 1..k /\ (j < x => j < k)
                BY <2>3
            <4> QED BY <2>2, <4>1 DEF Retiring
        <3> QED BY <3>1, <3>2 DEF Retiring
    <2>6. Retiring = 1..k
        <3>1. \A x \in Retiring : x \in 1..k
            BY <2>1, <2>2, <2>3
        <3> QED BY <2>5, <3>1
    <2>7. Cardinality(Retiring) = k
        BY <2>3, <2>6, FS_Interval
    <2> QED BY <1>0, <2>3, <2>4, <2>7
<1> QED BY <1>1, <1>2

\* A group that enters, and the room for it.
Group(d) ==
    /\ Len(d) \in 0..N /\ d \in [1..Len(d) -> Ops]
    /\ Len(d) > 0 => ~lsq_full /\ Len(rob) + Len(d) <= ROB_NUM_ENTRIES

LEMMA GroupType ==
    ASSUME Buffer(rob), NEW d \in (IF lsq_full \/ rob_full THEN {<<>>} ELSE Groups)
    PROVE  Group(d)
<1>1. CASE lsq_full \/ rob_full
    <2>1. d = <<>>
        BY <1>1
    <2>2. Len(d) = 0 /\ d \in [1..Len(d) -> Ops]
        BY <2>1
    <2> QED BY <2>2, LsqConstants DEF Group
<1>2. CASE ~(lsq_full \/ rob_full)
    <2>1. PICK n \in 0..N : d \in [1..n -> Ops]
        BY <1>2 DEF Groups
    <2>2. Len(d) = n
        BY <2>1
    <2>3. Len(rob) + n <= ROB_NUM_ENTRIES
        BY <1>2, LsqConstants DEF rob_full, Buffer
    <2> QED BY <1>2, <2>1, <2>2, <2>3 DEF Group
<1> QED BY <1>1, <1>2

\* r is the reorder buffer with the k oldest entries gone, done executed, the
\* stores in accepted written, and group d behind them.
Shifts(r, d, gnt, k, done, accepted) ==
    /\ Len(r) = Len(rob) - k + Len(d) /\ DOMAIN r = 1..Len(r)
    /\ \A i \in 1..(Len(rob) - k) :
        /\ i + k \in 1..Len(rob) /\ DOMAIN r[i] = InstrFields
        /\ r[i].op = rob[i + k].op /\ r[i].lsq_index = rob[i + k].lsq_index
        /\ r[i].executed \in BOOLEAN /\ r[i].written \in BOOLEAN
        /\ r[i].executed <=> (rob[i + k].executed \/ (i + k) \in done)
        /\ r[i].written <=> \/ rob[i + k].written
                            \/ \E s \in accepted : store_queue[s].rob_entry = i + k
    /\ \A i \in 1..Len(d) :
        /\ DOMAIN r[Len(rob) - k + i] = InstrFields
        /\ r[Len(rob) - k + i].op = d[i]
        /\ r[Len(rob) - k + i].lsq_index = n_lsq_idxs(d, gnt, i)
        /\ ~r[Len(rob) - k + i].executed /\ r[Len(rob) - k + i].executed \in BOOLEAN
        /\ ~r[Len(rob) - k + i].written /\ r[Len(rob) - k + i].written \in BOOLEAN

\* An instruction whose bits become x, y and z.
Becomes(e, x, y, z) == [e EXCEPT !.executed = x, !.issued = y, !.written = z]

LEMMA BecomesFields ==
    ASSUME NEW e, DOMAIN e = InstrFields, NEW x, NEW y, NEW z
    PROVE  /\ DOMAIN Becomes(e, x, y, z) = InstrFields
           /\ Becomes(e, x, y, z).op = e.op
           /\ Becomes(e, x, y, z).lsq_index = e.lsq_index
           /\ Becomes(e, x, y, z).executed = x
           /\ Becomes(e, x, y, z).written = z
BY DEF Becomes, InstrFields

LEMMA RobAfter ==
    ASSUME Buffer(rob), NEW d, Group(d), NEW gnt, NEW k \in 0..Len(rob),
           NEW done, NEW issue, NEW accepted,
           NEW r, r = n_rob(d, gnt, k, done, issue, accepted)
    PROVE  Shifts(r, d, gnt, k, done, accepted)
<1> DEFINE m == Len(rob) - k
           n == Len(d)
           Old(i) == [rob[i + k] EXCEPT
                        !.executed = @ \/ (i + k) \in done,
                        !.issued = @ \/ (i + k) \in Range(issue),
                        !.written = @ \/ \E s \in accepted :
                                            store_queue[s].rob_entry = i + k]
           New(i) == NewInstr(d, gnt, i)
           F == [i \in 1..m |-> Old(i)]
           G == [i \in 1..n |-> New(i)]
           S == {Old(i) : i \in 1..m} \cup {New(i) : i \in 1..n}
<1>1. m \in Nat /\ n \in Nat /\ DOMAIN d = 1..n
    BY DEF Buffer, Group
<1>2. r = F \o G
    BY <1>1 DEF n_rob
<1>3. F \in Seq(S) /\ G \in Seq(S) /\ Len(F) = m /\ Len(G) = n
    <2> HIDE DEF Old, New
    <2>1. F \in [1..m -> S] /\ G \in [1..n -> S]
        OBVIOUS
    <2> HIDE DEF F, G, S, m, n
    <2> QED BY <1>1, <2>1
<1>4. /\ Len(r) = m + n /\ DOMAIN r = 1..(m + n)
      /\ \A i \in 1..m : r[i] = Old(i)
      /\ \A i \in 1..n : r[m + i] = New(i)
    <2> HIDE DEF Old, New, S
    <2>1. /\ r \in Seq(S) /\ Len(r) = m + n
          /\ \A i \in 1..(m + n) : r[i] = IF i <= m THEN F[i] ELSE G[i - m]
        <3> HIDE DEF F, G, m, n
        <3> QED BY <1>2, <1>3, ConcatProperties
    <2>2. DOMAIN r = 1..(m + n)
        BY <2>1, LenProperties
    <2>3. ASSUME NEW i \in 1..m
          PROVE  r[i] = Old(i)
        <3>1. i \in 1..(m + n) /\ i <= m
            BY <1>1
        <3> QED BY <2>1, <3>1
    <2>4. ASSUME NEW i \in 1..n
          PROVE  r[m + i] = New(i)
        <3>1. m + i \in 1..(m + n) /\ ~(m + i <= m) /\ (m + i) - m = i
            BY <1>1
        <3>2. r[m + i] = G[i]
            BY <2>1, <3>1
        <3> QED BY <3>2
    <2> QED BY <2>1, <2>2, <2>3, <2>4
<1>5. ASSUME NEW i \in 1..m
      PROVE  /\ i + k \in 1..Len(rob) /\ DOMAIN r[i] = InstrFields
             /\ r[i].op = rob[i + k].op /\ r[i].lsq_index = rob[i + k].lsq_index
             /\ r[i].executed \in BOOLEAN /\ r[i].written \in BOOLEAN
             /\ r[i].executed <=> (rob[i + k].executed \/ (i + k) \in done)
             /\ r[i].written <=> \/ rob[i + k].written
                                 \/ \E s \in accepted : store_queue[s].rob_entry = i + k
    <2>1. i + k \in 1..Len(rob)
        BY <1>1
    <2>2. PICK x \in BOOLEAN : x = (rob[i + k].executed \/ (i + k) \in done)
        OBVIOUS
    <2>3. PICK y \in BOOLEAN : y = (rob[i + k].issued \/ (i + k) \in Range(issue))
        OBVIOUS
    <2>4. PICK z \in BOOLEAN : z = (\/ rob[i + k].written
                                    \/ \E s \in accepted : store_queue[s].rob_entry = i + k)
        OBVIOUS
    <2>5. Old(i) = Becomes(rob[i + k], x, y, z)
        BY <2>2, <2>3, <2>4, Zenon DEF Becomes
    <2>6. r[i] = Becomes(rob[i + k], x, y, z)
        BY <1>4, <2>5, Zenon
    <2>7. DOMAIN rob[i + k] = InstrFields
        BY <2>1 DEF Buffer
    <2> HIDE DEF Old
    <2>8. /\ DOMAIN r[i] = InstrFields
          /\ r[i].op = rob[i + k].op /\ r[i].lsq_index = rob[i + k].lsq_index
          /\ r[i].executed = x /\ r[i].written = z
        BY <2>6, <2>7, BecomesFields
    <2> QED BY <2>1, <2>2, <2>4, <2>8
<1>6. ASSUME NEW i \in 1..n
      PROVE  /\ DOMAIN r[m + i] = InstrFields
             /\ r[m + i].op = d[i]
             /\ r[m + i].lsq_index = n_lsq_idxs(d, gnt, i)
             /\ ~r[m + i].executed /\ r[m + i].executed \in BOOLEAN
             /\ ~r[m + i].written /\ r[m + i].written \in BOOLEAN
    <2> HIDE DEF Old
    <2>1. r[m + i] = NewInstr(d, gnt, i)
        BY <1>4
    <2>2. PICK x : x = IF d[i].kind = "load"
                       THEN Expected(InFlightOps \o SubSeq(d, 1, i - 1), d[i]) ELSE <<>>
        OBVIOUS
    <2>3. NewInstr(d, gnt, i) =
            [op |-> d[i], lsq_index |-> n_lsq_idxs(d, gnt, i), issued |-> FALSE,
             executed |-> FALSE, written |-> FALSE, expected |-> x]
        BY <2>2, Zenon DEF NewInstr
    <2> QED BY <2>1, <2>3 DEF InstrFields
<1> HIDE DEF F, G, S, Old, New
<1> QED BY <1>1, <1>4, <1>5, <1>6 DEF Shifts

-----------------------------------------------------------------------------
(* The slots a group of stores is given                                    *)

\* How many stores of the group are before way i.
Rank(d, i) == Cardinality({j \in Of(d, "store") : j < i})

LEMMA Ranks ==
    ASSUME NEW d, Group(d)
    PROVE  \E g \in 0..Len(d) :
            /\ Cardinality(Of(d, "store")) = g
            /\ \A i \in Of(d, "store") : Rank(d, i) \in 0..(g - 1)
            /\ \A i, j \in Of(d, "store") : i < j => Rank(d, i) < Rank(d, j)
            /\ \A a \in 0..(g - 1) : \E i \in Of(d, "store") : Rank(d, i) = a
<1> DEFINE S == Of(d, "store")
           g == Cardinality(S)
           Before(i) == {j \in S : j < i}
<1>1. S \subseteq 1..Len(d) /\ Len(d) \in Nat
    BY DEF Group, Of
<1>2. IsFiniteSet(1..Len(d)) /\ Cardinality(1..Len(d)) = Len(d)
    <2>1. 1 \in Int /\ Len(d) \in Int
        BY <1>1
    <2>2. /\ IsFiniteSet(1..Len(d))
          /\ Cardinality(1..Len(d)) = IF 1 > Len(d) THEN 0 ELSE Len(d) - 1 + 1
        BY <2>1, FS_Interval
    <2> QED BY <1>1, <2>2
<1>3. IsFiniteSet(S) /\ g \in 0..Len(d)
    <2> HIDE DEF S
    <2>1. IsFiniteSet(S) /\ Cardinality(S) <= Len(d)
        BY <1>1, <1>2, FS_Subset
    <2> QED BY <1>1, <2>1, FS_CardinalityType
<1>4. \A i : Rank(d, i) = Cardinality(Before(i))
    BY DEF Rank
<1> HIDE DEF S
<1>5. \A i \in S : i \in Int
    BY <1>1
<1>6. \A i \in S : IsFiniteSet(Before(i)) /\ Cardinality(Before(i)) \in Nat
    <2> TAKE i \in S
    <2>1. Before(i) \in SUBSET S
        OBVIOUS
    <2> HIDE DEF Before
    <2> QED BY <2>1, <1>3, FS_Subset, FS_CardinalityType
<1>7. ASSUME NEW i \in S, NEW T \in SUBSET S, IsFiniteSet(T), Before(i) \subseteq T, i \in T
      PROVE  Cardinality(Before(i)) < Cardinality(T)
    <2>1. i \notin Before(i)
        BY <1>5
    <2>2. Before(i) \cup {i} \in SUBSET T
        BY <1>7
    <2> HIDE DEF Before
    <2>3. Cardinality(Before(i) \cup {i}) = Cardinality(Before(i)) + 1
        BY <1>6, <2>1, FS_AddElement
    <2>4. Cardinality(Before(i) \cup {i}) <= Cardinality(T) /\ Cardinality(T) \in Nat
        BY <1>7, <2>2, FS_Subset, FS_CardinalityType
    <2> QED BY <1>6, <2>3, <2>4
<1>8. \A i \in S : Rank(d, i) \in 0..(g - 1)
    <2> TAKE i \in S
    <2>1. Before(i) \subseteq S
        OBVIOUS
    <2> HIDE DEF Before
    <2>2. Cardinality(Before(i)) < g
        BY <1>3, <1>7, <2>1
    <2> QED BY <1>3, <1>4, <1>6, <2>2
<1>9. \A i, j \in S : i < j => Rank(d, i) < Rank(d, j)
    <2> SUFFICES ASSUME NEW i \in S, NEW j \in S, i < j PROVE Rank(d, i) < Rank(d, j)
        OBVIOUS
    <2>1. Before(i) \subseteq Before(j) /\ i \in Before(j) /\ Before(j) \in SUBSET S
        BY <1>5
    <2> HIDE DEF Before
    <2> QED BY <1>4, <1>6, <1>7, <2>1
<1>10. \A a \in 0..(g - 1) : \E i \in S : Rank(d, i) = a
    <2> DEFINE f == [i \in S |-> Rank(d, i)]
               T == {f[i] : i \in S}
    <2>1. \A i, j \in S : f[i] = f[j] => i = j
        <3> SUFFICES ASSUME NEW i \in S, NEW j \in S, Rank(d, i) = Rank(d, j) PROVE i = j
            OBVIOUS
        <3>1. Rank(d, i) \in Int /\ Rank(d, j) \in Int
            BY <1>8
        <3>2. ~(i < j) /\ ~(j < i)
            BY <1>9, <3>1
        <3> QED BY <1>5, <3>2
    <2>2. T \in SUBSET (0..(g - 1))
        BY <1>8
    <2> HIDE DEF f
    <2>3. Cardinality(T) = g
        BY <1>3, <2>1, ImageExact
    <2>4. IsFiniteSet(0..(g - 1)) /\ Cardinality(0..(g - 1)) = g
        BY <1>3, CountUpTo
    <2> HIDE DEF T, g
    <2>5. T = 0..(g - 1)
        BY <2>2, <2>3, <2>4, FS_Subset
    <2> QED BY <2>5 DEF T, f
<1> QED BY <1>3, <1>8, <1>9, <1>10 DEF S

\* Slots less than a round apart differ.
LEMMA WrapApart ==
    ASSUME NEW t \in StoreSlots, NEW a \in Nat, NEW b \in Nat,
           a < STORE_QUEUE_SIZE, b < STORE_QUEUE_SIZE, Wrap(t + a) = Wrap(t + b)
    PROVE  a = b
BY LsqConstants DEF Wrap

\* The slots of a group are slots, and no two stores of it get the same one.
LEMMA SlotsOfGroup ==
    ASSUME str_tail \in StoreSlots, NEW d, Group(d)
    PROVE  /\ \A i \in Of(d, "store") : StoreSlot(d, i) \in StoreSlots
           /\ \A i, j \in Of(d, "store") : StoreSlot(d, i) = StoreSlot(d, j) => i = j
           /\ n_str_tail(d) \in StoreSlots
<1>1. PICK g \in 0..Len(d) :
            /\ Cardinality(Of(d, "store")) = g
            /\ \A i \in Of(d, "store") : Rank(d, i) \in 0..(g - 1)
            /\ \A i, j \in Of(d, "store") : i < j => Rank(d, i) < Rank(d, j)
    BY Ranks
<1>2. g \in Nat /\ g <= STORE_QUEUE_SIZE /\ Of(d, "store") \subseteq Int
    BY <1>1, LsqConstants DEF Group, Of
<1>3. \A i \in Of(d, "store") : StoreSlot(d, i) = Wrap(str_tail + Rank(d, i))
    BY DEF StoreSlot, Rank
<1>4. \A i \in Of(d, "store") : StoreSlot(d, i) \in StoreSlots
    BY <1>1, <1>2, <1>3, LsqConstants DEF Wrap
<1>5. ASSUME NEW i \in Of(d, "store"), NEW j \in Of(d, "store"),
             StoreSlot(d, i) = StoreSlot(d, j)
      PROVE  i = j
    <2>1. Rank(d, i) \in 0..(g - 1) /\ Rank(d, j) \in 0..(g - 1)
        BY <1>1
    <2>2. Rank(d, i) = Rank(d, j)
        <3>1. PICK a, b : a = Rank(d, i) /\ b = Rank(d, j)
            OBVIOUS
        <3>2. a \in Nat /\ b \in Nat /\ a < STORE_QUEUE_SIZE /\ b < STORE_QUEUE_SIZE
            BY <1>2, <2>1, <3>1, LsqConstants
        <3>3. Wrap(str_tail + a) = Wrap(str_tail + b)
            BY <1>3, <1>5, <3>1
        <3> QED BY <3>1, <3>2, <3>3, WrapApart
    <2>3. ~(i < j) /\ ~(j < i)
        BY <1>1, <2>1, <2>2
    <2> QED BY <1>2, <2>3
<1>6. n_str_tail(d) \in StoreSlots
    BY <1>1, <1>2, LsqConstants DEF n_str_tail, Wrap
<1> QED BY <1>4, <1>5, <1>6

-----------------------------------------------------------------------------
(* The store that leaves and the store that is written                     *)

LEMMA FirstIs ==
    ASSUME NEW S, NEW s \in First(S)
    PROVE  /\ s \in S
           /\ \E w \in Ways : /\ stores_ready[w] = s
                              /\ \A v \in Ways : v < w => stores_ready[v] \notin S
BY DEF First

LEMMA FirstUnique ==
    ASSUME NEW S, NEW s \in First(S), NEW t \in First(S)
    PROVE  s = t
<1>1. PICK v \in Ways : /\ stores_ready[v] = s
                        /\ \A x \in Ways : x < v => stores_ready[x] \notin S
    BY FirstIs
<1>2. PICK w \in Ways : /\ stores_ready[w] = t
                        /\ \A x \in Ways : x < w => stores_ready[x] \notin S
    BY FirstIs
<1>3. s \in S /\ t \in S
    BY FirstIs
<1>4. ~(v < w) /\ ~(w < v)
    BY <1>1, <1>2, <1>3
<1>5. v \in Int /\ w \in Int
    BY LsqConstants
<1> QED BY <1>1, <1>2, <1>4, <1>5

LEMMA LeavingIs ==
    /\ \A s \in Leaving : s \in ToLeave /\ s \in StoreSlots
                          /\ store_queue[s].valid /\ store_queue[s].out_ready
    /\ \A s, t \in Leaving : s = t
    /\ Leaving # {} => StoreOutput \in FreeOutputs
<1>1. ASSUME NEW s \in Leaving
      PROVE  s \in ToLeave /\ s \in StoreSlots
             /\ store_queue[s].valid /\ store_queue[s].out_ready
    <2>1. s \in ToLeave
        BY DEF Leaving
    <2>2. s \in {t \in StoreSlots : store_queue[t].out_ready}
        BY <2>1, FirstIs DEF ToLeave
    <2> QED BY <2>1, <2>2 DEF ToLeave
<1>2. ASSUME NEW s \in Leaving, NEW t \in Leaving
      PROVE  s = t
    BY <1>1, FirstUnique DEF ToLeave
<1> QED BY <1>1, <1>2 DEF Leaving

LEMMA ToWriteIs ==
    ASSUME NEW accepted \in {{}, ToWrite}
    PROVE  /\ \A s \in accepted :
                /\ s \in ToWrite /\ s \in StoreSlots
                /\ ~store_queue[s].out_ready /\ store_queue[s].ready_for_mem
           /\ \A s, t \in accepted : s = t
<1>1. ASSUME NEW s \in accepted
      PROVE  /\ s \in ToWrite /\ s \in StoreSlots
             /\ ~store_queue[s].out_ready /\ store_queue[s].ready_for_mem
    <2>1. s \in ToWrite
        OBVIOUS
    <2>2. s \in {t \in StoreSlots : ~store_queue[t].out_ready}
        BY <2>1, FirstIs DEF ToWrite
    <2>3. store_queue[s].ready_for_mem
        BY <2>1 DEF ToWrite
    <2> QED BY <2>1, <2>2, <2>3
<1>2. ASSUME NEW s \in accepted, NEW t \in accepted
      PROVE  s = t
    BY <1>1, FirstUnique DEF ToWrite
<1> QED BY <1>1, <1>2

-----------------------------------------------------------------------------
(* The ways that issue                                                     *)

\* The last of some ways is one of them.
LEMMA LastWayIs ==
    ASSUME Registers(rob), NEW kind, NEW index, NEW w, Issued(kind, index, w) # {}
    PROVE  /\ LastWay(Issued(kind, index, w)) \in Issued(kind, index, w)
           /\ \A v \in Issued(kind, index, w) : v <= LastWay(Issued(kind, index, w))
<1>1. PICK S : S = Issued(kind, index, w)
    OBVIOUS
<1>2. S \in SUBSET (1..N) /\ N \in Int /\ S # {}
    BY <1>1, LsqConstants DEF Registers, Issued, Ways
<1>3. \E v \in S : \A u \in S : u <= v
    BY <1>2, MaxExists
<1>4. LastWay(S) \in S /\ \A u \in S : u <= LastWay(S)
    BY <1>3 DEF LastWay
<1> QED BY <1>1, <1>4

-----------------------------------------------------------------------------
(* A slot of the store queue after the edge                                *)

Places(e, at, size, value, ready) ==
    [e EXCEPT !.at = at, !.size = size, !.has_address = TRUE,
              !.value = value, !.out_ready = ready]

LEMMA PlacesFields ==
    ASSUME NEW e, DOMAIN e = StoreFields, NEW at, NEW size, NEW value, NEW ready
    PROVE  /\ DOMAIN Places(e, at, size, value, ready) = StoreFields
           /\ Places(e, at, size, value, ready).valid = e.valid
           /\ Places(e, at, size, value, ready).rob_entry = e.rob_entry
           /\ Places(e, at, size, value, ready).ready_for_mem = e.ready_for_mem
           /\ Places(e, at, size, value, ready).value = value
           /\ Places(e, at, size, value, ready).out_ready = ready
BY DEF Places, StoreFields

\* What is in a store slot when the group has entered: the store that was
\* there, or one of the group.
LEMMA EnteringIs ==
    ASSUME NEW d, NEW s
    PROVE  \/ (\A i \in Of(d, "store") : StoreSlot(d, i) # s) /\ Entering(d, s) = store_queue[s]
           \/ \E i \in Of(d, "store") :
                StoreSlot(d, i) = s /\ Entering(d, s) = NewStore(s, Len(rob) + i)
<1> DEFINE T == {i \in Of(d, "store") : StoreSlot(d, i) = s}
           x == CHOOSE i \in T : TRUE
<1>1. Entering(d, s) = IF T = {} THEN store_queue[s] ELSE NewStore(s, Len(rob) + x)
    BY DEF Entering
<1>2. T # {} => x \in T
    OBVIOUS
<1>3. CASE T = {}
    BY <1>1, <1>3
<1>4. CASE T # {}
    <2>1. x \in Of(d, "store") /\ StoreSlot(d, x) = s
        BY <1>2, <1>4
    <2>2. Entering(d, s) = NewStore(s, Len(rob) + x)
        BY <1>1, <1>4
    <2> HIDE DEF x
    <2> QED BY <2>1, <2>2
<1> QED BY <1>3, <1>4

LEMMA NewStoreFields ==
    ASSUME Stores(rob, store_queue), NEW s \in StoreSlots, NEW e
    PROVE  /\ DOMAIN NewStore(s, e) = StoreFields
           /\ NewStore(s, e).valid /\ NewStore(s, e).valid \in BOOLEAN
           /\ NewStore(s, e).rob_entry = e
           /\ ~NewStore(s, e).out_ready /\ NewStore(s, e).out_ready \in BOOLEAN
           /\ ~NewStore(s, e).ready_for_mem /\ NewStore(s, e).ready_for_mem \in BOOLEAN
           /\ ~NewStore(s, e).has_address
           /\ NewStore(s, e).at = store_queue[s].at
           /\ NewStore(s, e).size = store_queue[s].size
           /\ NewStore(s, e).value = store_queue[s].value
<1>1. DOMAIN store_queue[s] = StoreFields
    BY DEF Stores
<1> QED BY <1>1 DEF NewStore, StoreFields

LEMMA EnteringFields ==
    ASSUME Stores(rob, store_queue), NEW d, NEW s \in StoreSlots, NEW b, b = Entering(d, s)
    PROVE  /\ DOMAIN b = StoreFields
           /\ b.valid \in BOOLEAN /\ b.out_ready \in BOOLEAN /\ b.ready_for_mem \in BOOLEAN
           /\ b.value \in Int
<1>1. CASE b = store_queue[s]
    BY <1>1 DEF Stores
<1>2. ASSUME NEW e, b = NewStore(s, e)
      PROVE  /\ DOMAIN b = StoreFields
             /\ b.valid \in BOOLEAN /\ b.out_ready \in BOOLEAN /\ b.ready_for_mem \in BOOLEAN
             /\ b.value \in Int
    <2>1. store_queue[s].value \in Int
        BY DEF Stores
    <2>2. /\ DOMAIN b = StoreFields /\ b.valid \in BOOLEAN
          /\ b.out_ready \in BOOLEAN /\ b.ready_for_mem \in BOOLEAN
          /\ b.value = store_queue[s].value
        BY <1>2, NewStoreFields
    <2> QED BY <2>1, <2>2
<1> QED BY <1>1, <1>2, EnteringIs

LEMMA AddressedFields ==
    ASSUME Stores(rob, store_queue), Registers(rob), NEW d, NEW s \in StoreSlots, NEW w,
           NEW a, a = AddressedBy(d, s, w), NEW b, b = Entering(d, s)
    PROVE  /\ DOMAIN a = StoreFields /\ a.valid = b.valid
           /\ a.rob_entry = b.rob_entry /\ a.ready_for_mem = b.ready_for_mem
           /\ a.out_ready \in BOOLEAN
           /\ b.out_ready => a.out_ready
           /\ a.out_ready => b.out_ready \/ \E v : Exception(s, v)
           /\ a.value \in Int
           /\ \/ Issued("store", s, w) = {} /\ a = b
              \/ \E v \in Issued("store", s, w) :
                    /\ a.at = cur_instr[v].at /\ a.size = cur_instr[v].size
                    /\ a.has_address
                    /\ ~Exception(s, v) => a.value = cur_instr[v].value
<1>0. /\ DOMAIN b = StoreFields
      /\ b.valid \in BOOLEAN /\ b.out_ready \in BOOLEAN /\ b.value \in Int
    BY EnteringFields
<1>1. CASE Issued("store", s, w) = {}
    <2>1. a = b
        BY <1>1 DEF AddressedBy
    <2> QED BY <1>0, <1>1, <2>1
<1>2. CASE Issued("store", s, w) # {}
    <2>1. PICK v : v = LastWay(Issued("store", s, w))
        OBVIOUS
    <2>2. v \in Issued("store", s, w) /\ v \in DOMAIN cur_instr
        <3>1. v \in Issued("store", s, w)
            BY <1>2, <2>1, LastWayIs, Zenon
        <3> QED BY <3>1 DEF Issued
    <2>3. PICK c : c = cur_instr[v]
        OBVIOUS
    <2>4. PICK ready \in BOOLEAN : ready = (b.out_ready \/ Exception(s, v))
        OBVIOUS
    <2>5. PICK value : value = IF Exception(s, v) THEN DeadBeef ELSE c.value
        OBVIOUS
    <2>6. a = Places(b, c.at, c.size, value, ready)
        <3>1. AddressedBy(d, s, w) =
                [Entering(d, s) EXCEPT
                    !.at = cur_instr[LastWay(Issued("store", s, w))].at,
                    !.size = cur_instr[LastWay(Issued("store", s, w))].size,
                    !.has_address = TRUE,
                    !.value = IF Exception(s, LastWay(Issued("store", s, w))) THEN DeadBeef
                              ELSE cur_instr[LastWay(Issued("store", s, w))].value,
                    !.out_ready = (Entering(d, s).out_ready \/
                                   Exception(s, LastWay(Issued("store", s, w))))]
            BY <1>2, Zenon DEF AddressedBy
        <3>2. AddressedBy(d, s, w) =
                [b EXCEPT !.at = c.at, !.size = c.size, !.has_address = TRUE,
                    !.value = IF Exception(s, v) THEN DeadBeef ELSE c.value,
                    !.out_ready = (b.out_ready \/ Exception(s, v))]
            BY <2>1, <2>3, <3>1, Zenon
        <3> QED BY <2>4, <2>5, <3>2, Zenon DEF Places
    <2>7. c.value \in Nat
        BY <2>2, <2>3 DEF Registers
    <2>8. DeadBeef \in Int
        BY DEF DeadBeef
    <2>9. Exception(s, v) \in BOOLEAN
        BY DEF Exception
    <2>10. /\ DOMAIN a = StoreFields /\ a.valid = b.valid
           /\ a.rob_entry = b.rob_entry /\ a.ready_for_mem = b.ready_for_mem
           /\ a.value = value /\ a.out_ready = ready
        BY <1>0, <2>6, PlacesFields
    <2>11. a.at = c.at /\ a.size = c.size /\ a.has_address = TRUE
        BY <1>0, <2>6 DEF Places, StoreFields
    <2>12. value \in Int /\ (~Exception(s, v) => value = c.value)
        BY <2>5, <2>7, <2>8, <2>9
    <2> QED BY <1>0, <2>2, <2>3, <2>4, <2>10, <2>11, <2>12
<1> QED BY <1>1, <1>2

Readies(e, mem, ready) == [e EXCEPT !.ready_for_mem = mem, !.out_ready = ready]

\* Slot s of the store queue after the edge is a, unless its store leaves.
LEMMA MarkedFields ==
    ASSUME Stores(rob, store_queue), Registers(rob), NEW d, NEW s \in StoreSlots,
           NEW accepted, NEW k, NEW a, a = Moved(n_store(d, s, accepted), k),
           NEW b, b = Entering(d, s), NEW c, c = Addressed(d, s)
    PROVE  /\ DOMAIN a = StoreFields /\ a.valid = b.valid
           /\ a.rob_entry = IF b.valid THEN b.rob_entry - k ELSE b.rob_entry
           /\ a.ready_for_mem \in BOOLEAN /\ a.out_ready \in BOOLEAN /\ a.value \in Int
           /\ b.out_ready \/ s \in accepted => a.out_ready
           /\ a.out_ready => b.out_ready \/ (\E v : Exception(s, v)) \/ s \in accepted
           /\ a.at = c.at /\ a.size = c.size /\ a.has_address = c.has_address
           /\ a.value = c.value
           /\ a.ready_for_mem => b.ready_for_mem \/ store_queue[s].has_address
<1>1. /\ DOMAIN c = StoreFields /\ c.valid = b.valid
      /\ c.rob_entry = b.rob_entry /\ c.ready_for_mem = b.ready_for_mem
      /\ c.out_ready \in BOOLEAN
      /\ b.out_ready => c.out_ready
      /\ c.out_ready => b.out_ready \/ \E v : Exception(s, v)
      /\ c.value \in Int
    BY AddressedFields DEF Addressed
<1>2. PICK mem \in BOOLEAN :
        mem = (c.ready_for_mem \/ /\ \E i \in Ways : stores_ready[i] = s
                                  /\ store_queue[s].has_address)
    OBVIOUS
<1>3. PICK ready \in BOOLEAN : ready = (c.out_ready \/ s \in accepted)
    OBVIOUS
<1>4. n_store(d, s, accepted) = Readies(c, mem, ready)
    <2>1. n_store(d, s, accepted) =
            [c EXCEPT !.ready_for_mem = (c.ready_for_mem \/
                            /\ \E i \in Ways : stores_ready[i] = s
                            /\ store_queue[s].has_address),
                      !.out_ready = (c.out_ready \/ s \in accepted)]
        BY Zenon DEF n_store
    <2> QED BY <2>1, <1>2, <1>3, Zenon DEF Readies
<1>5. a = Moved(Readies(c, mem, ready), k)
    BY <1>4, Zenon
<1>6. /\ DOMAIN a = StoreFields /\ a.valid = c.valid
      /\ a.rob_entry = IF c.valid THEN c.rob_entry - k ELSE c.rob_entry
      /\ a.ready_for_mem = mem /\ a.out_ready = ready
      /\ a.at = c.at /\ a.size = c.size /\ a.has_address = c.has_address
      /\ a.value = c.value
    <2>1. PICK e : e = Readies(c, mem, ready)
        OBVIOUS
    <2>2. /\ DOMAIN e = StoreFields /\ e.valid = c.valid /\ e.rob_entry = c.rob_entry
          /\ e.ready_for_mem = mem /\ e.out_ready = ready
          /\ e.at = c.at /\ e.size = c.size /\ e.has_address = c.has_address
          /\ e.value = c.value
        BY <1>1, <2>1 DEF Readies, StoreFields
    <2>3. PICK x : x = IF e.valid THEN e.rob_entry - k ELSE e.rob_entry
        OBVIOUS
    <2>4. a = [e EXCEPT !.rob_entry = x]
        BY <1>5, <2>1, <2>3, Zenon DEF Moved
    <2>5. /\ DOMAIN a = StoreFields /\ a.valid = e.valid /\ a.rob_entry = x
          /\ a.ready_for_mem = mem /\ a.out_ready = ready
          /\ a.at = e.at /\ a.size = e.size /\ a.has_address = e.has_address
          /\ a.value = e.value
        BY <2>2, <2>4 DEF StoreFields
    <2> QED BY <2>2, <2>3, <2>5
<1> QED BY <1>1, <1>2, <1>3, <1>6

\* The store in slot s stays, and is a in the slot after the edge.
StoreStays(s, a, accepted, k) ==
    /\ store_queue[s].valid /\ DOMAIN a = StoreFields
    /\ a.valid /\ a.valid \in BOOLEAN
    /\ a.rob_entry = store_queue[s].rob_entry - k
    /\ a.ready_for_mem \in BOOLEAN /\ a.out_ready \in BOOLEAN /\ a.value \in Int
    /\ store_queue[s].out_ready \/ s \in accepted => a.out_ready
    /\ a.out_ready => store_queue[s].out_ready \/ (\E v : Exception(s, v)) \/ s \in accepted

\* A store of the group, entry e of the reorder buffer.  It may already be
\* marked: what is done to a slot at the edge is done to the store that enters.
StoreArrives(a, e) ==
    /\ DOMAIN a = StoreFields /\ a.valid /\ a.valid \in BOOLEAN /\ a.rob_entry = e
    /\ a.ready_for_mem \in BOOLEAN /\ a.out_ready \in BOOLEAN /\ a.value \in Int

NotAStore(a) ==
    /\ DOMAIN a = StoreFields /\ ~a.valid /\ a.valid \in BOOLEAN
    /\ a.ready_for_mem \in BOOLEAN /\ a.out_ready \in BOOLEAN /\ a.value \in Int

LEMMA StoreAfter ==
    ASSUME Buffer(rob), Stores(rob, store_queue), Registers(rob),
           NEW d, Group(d), NEW accepted, NEW k \in Nat,
           NEW s \in StoreSlots, NEW a, a = n_store_queue(d, accepted, k)[s]
    PROVE  \/ s \in Leaving /\ NotAStore(a)
           \/ /\ s \notin Leaving
              /\ \E i \in Of(d, "store") :
                    StoreSlot(d, i) = s /\ StoreArrives(a, Len(rob) + i - k)
           \/ /\ s \notin Leaving /\ \A i \in Of(d, "store") : StoreSlot(d, i) # s
              /\ StoreStays(s, a, accepted, k)
           \/ /\ s \notin Leaving /\ \A i \in Of(d, "store") : StoreSlot(d, i) # s
              /\ ~store_queue[s].valid /\ NotAStore(a)
<1>1. a = IF s \in Leaving THEN NoStore ELSE Moved(n_store(d, s, accepted), k)
    BY DEF n_store_queue
<1>4. Len(rob) \in Int /\ \A i \in Of(d, "store") : i \in Int
    BY DEF Buffer, Group, Of
<1>2. CASE s \in Leaving
    BY <1>1, <1>2 DEF NotAStore, NoStore, StoreFields
<1>3. CASE s \notin Leaving
    <2>1. PICK b : b = Entering(d, s)
        OBVIOUS
    <2>2. a = Moved(n_store(d, s, accepted), k)
        BY <1>1, <1>3
    <2>3. /\ DOMAIN a = StoreFields /\ a.valid = b.valid
          /\ a.rob_entry = IF b.valid THEN b.rob_entry - k ELSE b.rob_entry
          /\ a.ready_for_mem \in BOOLEAN /\ a.out_ready \in BOOLEAN /\ a.value \in Int
          /\ b.out_ready \/ s \in accepted => a.out_ready
          /\ a.out_ready => b.out_ready \/ (\E v : Exception(s, v)) \/ s \in accepted
        BY <2>1, <2>2, MarkedFields
    <2>4. ASSUME NEW i \in Of(d, "store"), StoreSlot(d, i) = s, b = NewStore(s, Len(rob) + i)
          PROVE  StoreArrives(a, Len(rob) + i - k)
        <3>1. PICK e : e = Len(rob) + i
            OBVIOUS
        <3>2. b.valid /\ b.valid \in BOOLEAN /\ b.rob_entry = e
            BY <2>4, <3>1, NewStoreFields
        <3>3. a.valid /\ a.valid \in BOOLEAN
            BY <2>3, <3>2, Zenon
        <3>4. a.rob_entry = e - k
            BY <2>3, <3>2, Zenon
        <3>5. StoreArrives(a, e - k)
            BY <2>3, <3>3, <3>4, Zenon DEF StoreArrives
        <3>6. e - k = Len(rob) + i - k
            BY <1>4, <3>1
        <3> QED BY <3>5, <3>6, Zenon
    <2>5. ASSUME b = store_queue[s], store_queue[s].valid
          PROVE  StoreStays(s, a, accepted, k)
        <3>1. store_queue[s].valid \in BOOLEAN
            BY DEF Stores
        <3> QED BY <2>3, <2>5, <3>1 DEF StoreStays
    <2>6. ASSUME b = store_queue[s], ~store_queue[s].valid
          PROVE  NotAStore(a)
        <3>1. store_queue[s].valid \in BOOLEAN
            BY DEF Stores
        <3> QED BY <2>3, <2>6, <3>1 DEF NotAStore
    <2> QED BY <1>3, <2>1, <2>4, <2>5, <2>6, EnteringIs
<1> QED BY <1>2, <1>3

-----------------------------------------------------------------------------
(* A slot of the load queue, and an output, after the edge                 *)

\* a is load slot l after the ways up to w.
LocatedFrom(a, l, w) ==
    /\ DOMAIN a = LoadFields /\ a.valid = load_queue[l].valid
    /\ a.rob_entry = load_queue[l].rob_entry
    /\ a.age_addr_match = load_queue[l].age_addr_match
    /\ a.out_ready = load_queue[l].out_ready
    /\ a.ready_for_mem = load_queue[l].ready_for_mem
    /\ a.value = load_queue[l].value
    /\ \/ Issued("load", l, w) = {} /\ a = load_queue[l]
       \/ \E v \in Issued("load", l, w) :
             /\ a.at = cur_instr[v].at /\ a.size = cur_instr[v].size
             /\ a.has_address
    /\ a.at = load_queue[l].at \/ \E v \in DOMAIN cur_instr : a.at = cur_instr[v].at

LEMMA LocatedFields ==
    ASSUME Loads(rob, load_queue), Registers(rob), NEW l \in LoadSlots, NEW w,
           NEW a, a = LocatedBy(l, w)
    PROVE  LocatedFrom(a, l, w)
<1>1. CASE Issued("load", l, w) = {}
    <2>1. a = load_queue[l]
        BY <1>1 DEF LocatedBy
    <2> QED BY <1>1, <2>1 DEF Loads, LocatedFrom
<1>2. CASE Issued("load", l, w) # {}
    <2>1. PICK v : v = LastWay(Issued("load", l, w))
        OBVIOUS
    <2>2. v \in Issued("load", l, w)
        BY <1>2, <2>1, LastWayIs, Zenon
    <2>3. PICK c : c = cur_instr[v]
        OBVIOUS
    <2>4. a = [load_queue[l] EXCEPT !.at = c.at, !.size = c.size, !.has_address = TRUE]
        <3>1. LocatedBy(l, w) =
                [load_queue[l] EXCEPT
                    !.at = cur_instr[LastWay(Issued("load", l, w))].at,
                    !.size = cur_instr[LastWay(Issued("load", l, w))].size,
                    !.has_address = TRUE]
            BY <1>2, Zenon DEF LocatedBy
        <3> QED BY <2>1, <2>3, <3>1, Zenon
    <2>5. DOMAIN load_queue[l] = LoadFields
        BY DEF Loads
    <2>6. /\ DOMAIN a = LoadFields /\ a.valid = load_queue[l].valid
          /\ a.rob_entry = load_queue[l].rob_entry
          /\ a.age_addr_match = load_queue[l].age_addr_match
          /\ a.out_ready = load_queue[l].out_ready
          /\ a.ready_for_mem = load_queue[l].ready_for_mem
          /\ a.value = load_queue[l].value
          /\ a.at = c.at /\ a.size = c.size /\ a.has_address = TRUE
        BY <2>4, <2>5 DEF LoadFields, StoreFields
    <2>7. v \in DOMAIN cur_instr
        BY <2>2 DEF Issued
    <2> QED BY <2>2, <2>3, <2>6, <2>7 DEF LocatedFrom
<1> QED BY <1>1, <1>2

Answers(e, value, ready, mem, ages) ==
    [e EXCEPT !.value = value, !.out_ready = ready, !.ready_for_mem = mem,
              !.age_addr_match = ages]

\* The load in slot l stays, and is a in the slot after the edge.
LoadStays(l, a, k) ==
    /\ load_queue[l].valid /\ DOMAIN a = LoadFields
    /\ a.valid /\ a.valid \in BOOLEAN
    /\ a.rob_entry = load_queue[l].rob_entry - k
    /\ a.age_addr_match \subseteq load_queue[l].age_addr_match
    /\ a.at = load_queue[l].at \/ \E v \in DOMAIN cur_instr : a.at = cur_instr[v].at

\* The value that a load in slot l ends the cycle with.
n_value(l, accepted, hits) ==
    IF Issued("load", l, N) # {} /\ Located(l).at = Outside
    THEN [h \in {} |-> DeadBeef]
    ELSE IF l \in hits
    THEN [h \in Covered(Located(l).at, Located(l).size) |-> n_memory(accepted)[h]]
    ELSE IF Forwarding(l) # {}
    THEN [h \in Covered(Located(l).at, Located(l).size) |->
            store_queue[CHOOSE s \in Forwarding(l) : TRUE].value]
    ELSE Located(l).value

LEMMA LoadStaysIs ==
    ASSUME Loads(rob, load_queue), Registers(rob), NEW l \in LoadSlots, load_queue[l].valid,
           NEW d, NEW accepted, NEW hits, NEW k,
           NEW a, a = Moved(n_load(d, l, accepted, hits), k)
    PROVE  LoadStays(l, a, k)
<1>1. PICK b : b = Located(l) /\ b = LocatedBy(l, N)
    BY DEF Located
<1>2. /\ DOMAIN b = LoadFields /\ b.valid = load_queue[l].valid
      /\ b.rob_entry = load_queue[l].rob_entry
      /\ b.age_addr_match = load_queue[l].age_addr_match
      /\ b.at = load_queue[l].at \/ \E v \in DOMAIN cur_instr : b.at = cur_instr[v].at
    <2>1. LocatedFrom(b, l, N)
        BY <1>1, LocatedFields
    <2> QED BY <2>1 DEF LocatedFrom
<1>3. PICK value : value = n_value(l, accepted, hits)
    OBVIOUS
<1>4. PICK ready : ready = (\/ b.out_ready \/ l \in hits \/ Forwarding(l) # {}
                            \/ Issued("load", l, N) # {} /\ b.at = Outside)
    OBVIOUS
<1>5. PICK mem : mem = (b.ready_for_mem \/ GoesToMemory(l))
    OBVIOUS
<1>6. PICK ages : ages = (b.age_addr_match \ Elsewhere(d, l)) \ Leaving
    OBVIOUS
<1>7. n_load(d, l, accepted, hits) = Answers(b, value, ready, mem, ages)
    <2>1. n_load(d, l, accepted, hits) =
            [b EXCEPT !.value = n_value(l, accepted, hits),
                      !.out_ready = (\/ b.out_ready \/ l \in hits \/ Forwarding(l) # {}
                                     \/ Issued("load", l, N) # {} /\ b.at = Outside),
                      !.ready_for_mem = (b.ready_for_mem \/ GoesToMemory(l)),
                      !.age_addr_match = (b.age_addr_match \ Elsewhere(d, l)) \ Leaving]
        BY <1>1, Zenon DEF n_load, n_value
    <2> QED BY <2>1, <1>3, <1>4, <1>5, <1>6, Zenon DEF Answers
<1>8. a = Moved(Answers(b, value, ready, mem, ages), k)
    BY <1>7, Zenon
<1>9. /\ DOMAIN a = LoadFields /\ a.valid = b.valid
      /\ a.rob_entry = b.rob_entry - k /\ a.age_addr_match = ages /\ a.at = b.at
    <2>1. PICK e : e = Answers(b, value, ready, mem, ages)
        OBVIOUS
    <2>2. /\ DOMAIN e = LoadFields /\ e.valid = b.valid /\ e.rob_entry = b.rob_entry
          /\ e.age_addr_match = ages /\ e.at = b.at
        BY <1>2, <2>1 DEF Answers, LoadFields, StoreFields
    <2>3. a = [e EXCEPT !.rob_entry = IF e.valid THEN e.rob_entry - k ELSE e.rob_entry]
        BY <1>8, <2>1, Zenon DEF Moved
    <2>4. a = [e EXCEPT !.rob_entry = b.rob_entry - k]
        BY <1>2, <2>2, <2>3
    <2> QED BY <2>2, <2>4 DEF LoadFields, StoreFields
<1>10. load_queue[l].valid \in BOOLEAN
    BY DEF Loads
<1> QED BY <1>2, <1>6, <1>9, <1>10 DEF LoadStays

\* A load of the group, entry e of the reorder buffer.
LoadArrives(a, e) ==
    /\ DOMAIN a = LoadFields /\ a.valid /\ a.valid \in BOOLEAN
    /\ a.rob_entry = e /\ a.age_addr_match \subseteq StoreSlots /\ a.at = 0

\* What a in load slot l can be after the edge.
LoadFrom(d, gnt, give, k, l, a) ==
    \/ l \in Range(give) /\ a = NoLoad
    \/ /\ l \notin Range(give)
       /\ \E i \in Of(d, "load") : gnt[i] = l /\ LoadArrives(a, Len(rob) + i - k)
    \/ /\ l \notin Range(give) /\ \A i \in Of(d, "load") : gnt[i] # l
       /\ LoadStays(l, a, k)
    \/ l \notin Range(give) /\ ~load_queue[l].valid /\ a = NoLoad

LEMMA LoadAfter ==
    ASSUME Loads(rob, load_queue), Registers(rob),
           NEW d, \A i \in Of(d, "store") : StoreSlot(d, i) \in StoreSlots,
           NEW gnt, NEW accepted, NEW hits, NEW give, NEW k,
           NEW l \in LoadSlots, NEW a, a = n_load_queue(d, gnt, accepted, hits, give, k)[l]
    PROVE  LoadFrom(d, gnt, give, k, l, a)
<1> DEFINE T == DispatchedTo(d, gnt, l)
           i == CHOOSE w \in T : TRUE
           e == Len(rob) + i - k
           new == NewLoad(d, i, e)
<1>1. T = {j \in Of(d, "load") : gnt[j] = l}
    BY DEF DispatchedTo
<1>2. a = IF l \in Range(give) THEN NoLoad
          ELSE IF T # {} THEN [new EXCEPT !.age_addr_match = @ \ Leaving]
          ELSE IF load_queue[l].valid THEN Moved(n_load(d, l, accepted, hits), k)
          ELSE NoLoad
    BY DEF n_load_queue
<1>3. T # {} => i \in T
    OBVIOUS
<1>4. ASSUME l \notin Range(give), T # {}
      PROVE  LoadArrives(a, e)
    <2>1. OlderStores(d, i) \subseteq StoreSlots
        BY DEF OlderStores
    <2>2. PICK o : o = OlderStores(d, i)
        OBVIOUS
    <2>3. new = [NoLoad EXCEPT !.valid = TRUE, !.rob_entry = e, !.age_addr_match = o]
        BY <2>2 DEF NewLoad
    <2>4. a = [new EXCEPT !.age_addr_match = @ \ Leaving]
        BY <1>2, <1>4
    <2> HIDE DEF T, i, e, new
    <2> QED BY <2>1, <2>2, <2>3, <2>4 DEF LoadArrives, NoLoad, LoadFields, StoreFields
<1> HIDE DEF T, new
<1>5. CASE l \in Range(give)
    BY <1>2, <1>5 DEF LoadFrom
<1>6. CASE l \notin Range(give) /\ T # {}
    <2>1. i \in Of(d, "load") /\ gnt[i] = l
        BY <1>1, <1>3, <1>6
    <2> HIDE DEF i
    <2> QED BY <1>4, <1>6, <2>1 DEF LoadFrom
<1> HIDE DEF i, e
<1>7. CASE l \notin Range(give) /\ T = {} /\ load_queue[l].valid
    <2>1. a = Moved(n_load(d, l, accepted, hits), k)
        BY <1>2, <1>7
    <2>2. LoadStays(l, a, k)
        BY <1>7, <2>1, LoadStaysIs
    <2> QED BY <1>1, <1>7, <2>2 DEF LoadFrom
<1>8. CASE l \notin Range(give) /\ T = {} /\ ~load_queue[l].valid
    BY <1>2, <1>8 DEF LoadFrom
<1> QED BY <1>5, <1>6, <1>7, <1>8

\* Output a holds a result for entry e of the reorder buffer.
Holds(a, e) == DOMAIN a = OutFields /\ a.valid /\ a.valid \in BOOLEAN /\ a.rob_entry = e

LEMMA OutAfter ==
    ASSUME Results(rob, out), NEW give, NEW sel, NEW k,
           NEW i \in Ways, NEW a, a = n_out(give, sel, k)[i]
    PROVE  \/ a = NoOut
           \/ i \notin sel /\ out[i].valid /\ Holds(a, out[i].rob_entry - k)
           \/ /\ i \notin sel /\ ~out[i].valid /\ i = StoreOutput
              /\ \E s \in Leaving : Holds(a, store_queue[s].rob_entry - k)
           \/ /\ i \notin sel /\ ~out[i].valid /\ (i = StoreOutput => Leaving = {})
              /\ i \in DOMAIN give /\ Holds(a, load_queue[give[i]].rob_entry - k)
<1>1. a = IF i \in sel THEN NoOut
          ELSE IF out[i].valid THEN Moved(out[i], k)
          ELSE IF i = StoreOutput /\ Leaving # {}
          THEN [valid |-> TRUE, value |-> <<>>,
                rob_entry |-> store_queue[CHOOSE s \in Leaving : TRUE].rob_entry - k]
          ELSE IF i \in DOMAIN give
          THEN [valid |-> TRUE, value |-> load_queue[give[i]].value,
                rob_entry |-> load_queue[give[i]].rob_entry - k]
          ELSE NoOut
    BY DEF n_out
<1>2. CASE i \in sel
    BY <1>1, <1>2
<1>3. CASE i \notin sel /\ out[i].valid
    <2>1. a = [out[i] EXCEPT !.rob_entry = out[i].rob_entry - k]
        <3>1. a = [out[i] EXCEPT !.rob_entry =
                    IF out[i].valid THEN out[i].rob_entry - k ELSE out[i].rob_entry]
            BY <1>1, <1>3, Zenon DEF Moved
        <3> QED BY <1>3, <3>1
    <2>2. DOMAIN out[i] = OutFields /\ out[i].valid \in BOOLEAN
        BY DEF Results
    <2>3. Holds(a, out[i].rob_entry - k)
        BY <1>3, <2>1, <2>2 DEF Holds, OutFields
    <2> QED BY <1>3, <2>3
<1>4. CASE i \notin sel /\ ~out[i].valid /\ i = StoreOutput /\ Leaving # {}
    <2>1. PICK s : s = CHOOSE x \in Leaving : TRUE
        OBVIOUS
    <2>2. s \in Leaving
        BY <1>4, <2>1
    <2>3. a = [valid |-> TRUE, value |-> <<>>, rob_entry |-> store_queue[s].rob_entry - k]
        BY <1>1, <1>4, <2>1
    <2>4. Holds(a, store_queue[s].rob_entry - k)
        BY <2>3 DEF Holds, OutFields
    <2> QED BY <1>4, <2>2, <2>4
<1>5. CASE /\ i \notin sel /\ ~out[i].valid /\ (i = StoreOutput => Leaving = {})
           /\ i \in DOMAIN give
    <2>1. a = [valid |-> TRUE, value |-> load_queue[give[i]].value,
               rob_entry |-> load_queue[give[i]].rob_entry - k]
        BY <1>1, <1>5
    <2>2. Holds(a, load_queue[give[i]].rob_entry - k)
        BY <2>1 DEF Holds, OutFields
    <2> QED BY <1>5, <2>2
<1>6. CASE /\ i \notin sel /\ ~out[i].valid /\ (i = StoreOutput => Leaving = {})
           /\ i \notin DOMAIN give
    BY <1>1, <1>6
<1> QED BY <1>2, <1>3, <1>4, <1>5, <1>6

\* The outputs that are given to loads are free and not the store's, and each
\* gets a load of its own.
Given(give) ==
    /\ DOMAIN give \subseteq LoadOutputs
    /\ \A i \in DOMAIN give : give[i] \in LoadSlots /\ load_queue[give[i]].valid
    /\ \A i, j \in DOMAIN give : give[i] = give[j] => i = j

LEMMA OutputsGiven ==
    ASSUME NEW give \in Outputs
    PROVE  Given(give)
<1> DEFINE c == IF Cardinality(load_out_rdy) < N THEN Cardinality(load_out_rdy) ELSE N
           lines == 1..c
<1>1. PICK g \in Injection(lines, load_out_rdy) : give = Restrict(g, lines \cap LoadOutputs)
    BY DEF Outputs
<1> HIDE DEF c
<1>2. g \in [lines -> load_out_rdy] /\ \A i, j \in lines : g[i] = g[j] => i = j
    BY <1>1 DEF Injection, IsInjective
<1> HIDE DEF lines
<1>3. /\ DOMAIN give = lines \cap LoadOutputs
      /\ \A i \in lines \cap LoadOutputs : give[i] = g[i]
    BY <1>1 DEF Restrict
<1> QED BY <1>2, <1>3 DEF Given, load_out_rdy

-----------------------------------------------------------------------------
(* The steps                                                               *)

Executes(sel, others) == {out[i].rob_entry : i \in sel} \cup others

\* A clock edge at which no mispredicted branch retires, in terms of the k
\* oldest instructions that leave.
Edge(d, gnt, accepted, hits, give, sel, issue, others, k) ==
    /\ Group(d)
    /\ gnt \in [Of(d, "load") -> LoadSlots]
    /\ \A i, j \in Of(d, "load") : gnt[i] = gnt[j] => i = j
    /\ Given(give)
    /\ accepted \in {{}, ToWrite}
    /\ sel \subseteq Ways /\ \A i \in sel : out[i].valid
    /\ DOMAIN issue \subseteq Ways /\ \A w \in DOMAIN issue : issue[w] \in DOMAIN rob
    /\ \A i \in others : i \in 1..Len(rob) /\ ~Memory(rob[i].op)
    /\ k \in 0..Len(rob) /\ \A i \in 1..k : rob[i].executed
    /\ Shifts(rob', d, gnt, k, Executes(sel, others), accepted)
    /\ stores_ready' = n_stores_ready(rob')
    /\ load_queue' = n_load_queue(d, gnt, accepted, hits, give, k)
    /\ store_queue' = n_store_queue(d, accepted, k)
    /\ str_head' = IF Leaving = {} THEN str_head ELSE Wrap(str_head + 1)
    /\ str_tail' = n_str_tail(d)
    /\ cur_instr' = [w \in DOMAIN issue |-> Instr(issue[w])]
    /\ out' = n_out(give, sel, k)
    /\ memory' = n_memory(accepted)

LEMMA IssuesAre ==
    ASSUME NEW issue \in Issues
    PROVE  DOMAIN issue \subseteq Ways /\ \A w \in DOMAIN issue : issue[w] \in Issuable
<1>1. PICK n \in 0..N : issue \in Injection(1..n, Issuable)
    BY DEF Issues
<1>2. issue \in [1..n -> Issuable]
    BY <1>1 DEF Injection
<1>3. 1..n \subseteq Ways
    BY LsqConstants
<1> QED BY <1>2, <1>3

LEMMA AdvanceEdge ==
    ASSUME LsqInv, NEW accepted \in {{}, ToWrite},
           NEW d \in (IF lsq_full \/ rob_full THEN {<<>>} ELSE Groups),
           NEW hits, NEW give \in Outputs, NEW sel \in SUBSET (Ways \ FreeOutputs),
           NEW issue \in Issues, NEW others \in SUBSET Executable,
           NEW gnt \in Injection(Of(d, "load"), open_load_spaces),
           Advance(d, gnt, accepted, hits, give, sel, issue, others)
    PROVE  Edge(d, gnt, accepted, hits, give, sel, issue, others, Cardinality(Retiring))
<1>1. Group(d)
    BY GroupType DEF LsqInv
<1>2. /\ gnt \in [Of(d, "load") -> LoadSlots]
      /\ \A i, j \in Of(d, "load") : gnt[i] = gnt[j] => i = j
    BY DEF Injection, IsInjective, open_load_spaces
<1>3. Given(give)
    BY OutputsGiven
<1>4. sel \subseteq Ways /\ \A i \in sel : out[i].valid
    BY DEF FreeOutputs
<1>5. DOMAIN issue \subseteq Ways /\ \A w \in DOMAIN issue : issue[w] \in DOMAIN rob
    BY IssuesAre DEF Issuable
<1>6. \A i \in others : i \in 1..Len(rob) /\ ~Memory(rob[i].op)
    BY DEF Executable, LsqInv, Buffer
<1>7. /\ Cardinality(Retiring) \in 0..Len(rob)
      /\ \A i \in 1..Cardinality(Retiring) : rob[i].executed
    BY RetiringCount DEF LsqInv
<1>8. rob' = n_rob(d, gnt, Cardinality(Retiring), Executes(sel, others), issue, accepted)
    BY DEF Advance, Executes
<1>9. Shifts(rob', d, gnt, Cardinality(Retiring), Executes(sel, others), accepted)
    <2>1. Buffer(rob)
        BY DEF LsqInv
    <2> QED BY <1>1, <1>7, <1>8, <2>1, RobAfter
<1> QED BY <1>1, <1>2, <1>3, <1>4, <1>5, <1>6, <1>7, <1>9 DEF Edge, Advance

LEMMA NextSteps ==
    ASSUME LsqInv, Next
    PROVE  \/ \E d, gnt, accepted, hits, give, sel, issue, others, k :
                Edge(d, gnt, accepted, hits, give, sel, issue, others, k)
           \/ \E accepted \in {{}, ToWrite} : Nuke(accepted)
<1>1. PICK accepted \in {{}, ToWrite} :
        \/ \E d \in (IF lsq_full \/ rob_full THEN {<<>>} ELSE Groups),
              hits \in SUBSET load_mem_rdy, give \in Outputs,
              sel \in SUBSET (Ways \ FreeOutputs), issue \in Issues,
              others \in SUBSET Executable :
            \E gnt \in Injection(Of(d, "load"), open_load_spaces) :
                Advance(d, gnt, accepted, hits, give, sel, issue, others)
        \/ Nuke(accepted)
    BY Zenon DEF Next
<1>2. CASE Nuke(accepted)
    BY <1>2
<1>3. CASE ~Nuke(accepted)
    <2>1. PICK d \in (IF lsq_full \/ rob_full THEN {<<>>} ELSE Groups),
               hits \in SUBSET load_mem_rdy, give \in Outputs,
               sel \in SUBSET (Ways \ FreeOutputs), issue \in Issues,
               others \in SUBSET Executable :
            \E gnt \in Injection(Of(d, "load"), open_load_spaces) :
                Advance(d, gnt, accepted, hits, give, sel, issue, others)
        BY <1>1, <1>3, Zenon
    <2>2. PICK gnt \in Injection(Of(d, "load"), open_load_spaces) :
                Advance(d, gnt, accepted, hits, give, sel, issue, others)
        BY <2>1, Zenon
    <2>3. Edge(d, gnt, accepted, hits, give, sel, issue, others, Cardinality(Retiring))
        BY <2>2, AdvanceEdge
    <2> QED BY <2>3, Zenon
<1> QED BY <1>2, <1>3

-----------------------------------------------------------------------------
(* The invariant is inductive                                              *)

LEMMA StillWaits ==
    ASSUME LsqInv, NEW d, NEW gnt, NEW accepted, NEW hits, NEW give, NEW sel,
           NEW issue, NEW others, NEW k,
           Edge(d, gnt, accepted, hits, give, sel, issue, others, k),
           NEW kind \in {"load", "store"}, NEW e, Waits(rob, e, kind),
           \A i \in sel : out[i].rob_entry # e
    PROVE  e - k \in 1..(Len(rob) - k) /\ Waits(rob', e - k, kind)
<1>1. /\ e \in 1..Len(rob) /\ rob[e].op.kind = kind /\ ~rob[e].executed
      /\ k \in 0..Len(rob) /\ Len(rob) \in Nat
    BY DEF Waits, Edge, LsqInv, Buffer
<1>2. e \notin 1..k
    BY <1>1 DEF Edge
<1>3. e - k \in 1..(Len(rob) - k) /\ (e - k) + k = e
    BY <1>1, <1>2
<1>4. e \notin Executes(sel, others)
    BY <1>1 DEF Executes, Edge, Memory
<1>5. Shifts(rob', d, gnt, k, Executes(sel, others), accepted)
    BY DEF Edge
<1>6. rob'[e - k].op = rob[e].op /\ ~rob'[e - k].executed
    BY <1>1, <1>3, <1>4, <1>5 DEF Shifts
<1>7. e - k \in 1..Len(rob')
    BY <1>1, <1>3, <1>5 DEF Shifts, Edge, Group
<1> QED BY <1>1, <1>3, <1>6, <1>7 DEF Waits

LEMMA GroupWaits ==
    ASSUME LsqInv, NEW d, NEW gnt, NEW accepted, NEW hits, NEW give, NEW sel,
           NEW issue, NEW others, NEW k,
           Edge(d, gnt, accepted, hits, give, sel, issue, others, k),
           NEW kind, NEW i \in Of(d, kind)
    PROVE  Len(rob) + i - k \notin 1..(Len(rob) - k) /\ Waits(rob', Len(rob) + i - k, kind)
<1>1. /\ i \in 1..Len(d) /\ d[i].kind = kind /\ Len(d) \in Nat
      /\ k \in 0..Len(rob) /\ Len(rob) \in Nat
    BY DEF Of, Edge, Group, LsqInv, Buffer
<1>2. Shifts(rob', d, gnt, k, Executes(sel, others), accepted)
    BY DEF Edge
<1>3. PICK e : e = Len(rob) - k + i
    OBVIOUS
<1>4. rob'[e].op = d[i] /\ ~rob'[e].executed /\ Len(rob') = Len(rob) - k + Len(d)
    BY <1>1, <1>2, <1>3 DEF Shifts
<1>5. e \in 1..Len(rob') /\ e = Len(rob) + i - k /\ e \notin 1..(Len(rob) - k)
    BY <1>1, <1>3, <1>4
<1> QED BY <1>1, <1>4, <1>5 DEF Waits

LEMMA BufferAfter ==
    ASSUME LsqInv, NEW d, NEW gnt, NEW accepted, NEW hits, NEW give, NEW sel,
           NEW issue, NEW others, NEW k,
           Edge(d, gnt, accepted, hits, give, sel, issue, others, k)
    PROVE  Buffer(rob')
<1>1. /\ Len(d) \in Nat /\ Len(rob) \in 0..ROB_NUM_ENTRIES /\ k \in 0..Len(rob)
      /\ Len(d) > 0 => Len(rob) + Len(d) <= ROB_NUM_ENTRIES
    BY DEF Edge, Group, LsqInv, Buffer
<1>2. Shifts(rob', d, gnt, k, Executes(sel, others), accepted)
    BY DEF Edge
<1>3. Len(rob') = Len(rob) - k + Len(d) /\ DOMAIN rob' = 1..Len(rob')
    BY <1>2 DEF Shifts
<1>4. Len(rob') \in 0..ROB_NUM_ENTRIES
    BY <1>1, <1>3, LsqConstants
<1>5. ASSUME NEW i \in 1..Len(rob')
      PROVE  /\ DOMAIN rob'[i] = InstrFields /\ rob'[i].op \in Ops
             /\ rob'[i].executed \in BOOLEAN /\ rob'[i].written \in BOOLEAN
             /\ rob'[i].op.kind = "store" => rob'[i].lsq_index \in StoreSlots
    <2>1. CASE i \in 1..(Len(rob) - k)
        <3>1. /\ i + k \in 1..Len(rob) /\ DOMAIN rob'[i] = InstrFields
              /\ rob'[i].op = rob[i + k].op /\ rob'[i].lsq_index = rob[i + k].lsq_index
              /\ rob'[i].executed \in BOOLEAN /\ rob'[i].written \in BOOLEAN
            BY <1>2, <2>1 DEF Shifts
        <3>2. /\ rob[i + k].op \in Ops
              /\ rob[i + k].op.kind = "store" => rob[i + k].lsq_index \in StoreSlots
            BY <3>1 DEF LsqInv, Buffer
        <3> QED BY <3>1, <3>2
    <2>2. CASE i \notin 1..(Len(rob) - k)
        <3>1. PICK x \in 1..Len(d) : i = Len(rob) - k + x
            <4>1. i - (Len(rob) - k) \in 1..Len(d)
                BY <1>1, <1>3, <2>2
            <4>2. i = Len(rob) - k + (i - (Len(rob) - k))
                BY <1>1, <1>3
            <4> QED BY <4>1, <4>2
        <3>2. /\ DOMAIN rob'[i] = InstrFields /\ rob'[i].op = d[x]
              /\ rob'[i].lsq_index = n_lsq_idxs(d, gnt, x)
              /\ rob'[i].executed \in BOOLEAN /\ rob'[i].written \in BOOLEAN
            BY <1>2, <3>1 DEF Shifts
        <3>3. d[x] \in Ops /\ DOMAIN d = 1..Len(d)
            BY DEF Edge, Group
        <3>4. d[x].kind = "store" => n_lsq_idxs(d, gnt, x) \in StoreSlots
            <4>1. d[x].kind = "store" => x \in Of(d, "store")
                BY <3>3 DEF Of
            <4>2. str_tail \in StoreSlots /\ Group(d)
                BY DEF LsqInv, Registers, Edge
            <4> QED BY <4>1, <4>2, SlotsOfGroup DEF n_lsq_idxs
        <3> QED BY <3>2, <3>3, <3>4
    <2> QED BY <2>1, <2>2
<1> QED BY <1>3, <1>4, <1>5 DEF Buffer

\* Where what is in a slot or an output after the edge comes from.
LEMMA LoadOrigin ==
    ASSUME LsqInv, NEW d, NEW gnt, NEW accepted, NEW hits, NEW give, NEW sel,
           NEW issue, NEW others, NEW k,
           Edge(d, gnt, accepted, hits, give, sel, issue, others, k),
           NEW l \in LoadSlots
    PROVE  \/ load_queue'[l] = NoLoad
           \/ \E i \in Of(d, "load") :
                gnt[i] = l /\ LoadArrives(load_queue'[l], Len(rob) + i - k)
           \/ l \notin Range(give) /\ LoadStays(l, load_queue'[l], k)
<1>1. load_queue'[l] = n_load_queue(d, gnt, accepted, hits, give, k)[l]
    BY DEF Edge
<1>2. \A i \in Of(d, "store") : StoreSlot(d, i) \in StoreSlots
    BY SlotsOfGroup DEF LsqInv, Registers, Edge
<1>3. Loads(rob, load_queue) /\ Registers(rob)
    BY DEF LsqInv
<1>4. PICK a : a = load_queue'[l]
    OBVIOUS
<1>5. LoadFrom(d, gnt, give, k, l, a)
    BY <1>1, <1>2, <1>3, <1>4, LoadAfter
<1> QED BY <1>4, <1>5 DEF LoadFrom

LEMMA StoreOrigin ==
    ASSUME LsqInv, NEW d, NEW gnt, NEW accepted, NEW hits, NEW give, NEW sel,
           NEW issue, NEW others, NEW k,
           Edge(d, gnt, accepted, hits, give, sel, issue, others, k),
           NEW s \in StoreSlots
    PROVE  \/ NotAStore(store_queue'[s])
           \/ \E i \in Of(d, "store") :
                StoreSlot(d, i) = s /\ StoreArrives(store_queue'[s], Len(rob) + i - k)
           \/ s \notin Leaving /\ StoreStays(s, store_queue'[s], accepted, k)
<1>1. store_queue'[s] = n_store_queue(d, accepted, k)[s]
    BY DEF Edge
<1>2. Buffer(rob) /\ Stores(rob, store_queue) /\ Registers(rob) /\ Group(d) /\ k \in Nat
    BY DEF LsqInv, Edge, Buffer
<1>3. PICK a : a = store_queue'[s]
    OBVIOUS
<1>4. \/ s \in Leaving /\ NotAStore(a)
      \/ /\ s \notin Leaving
         /\ \E i \in Of(d, "store") :
                StoreSlot(d, i) = s /\ StoreArrives(a, Len(rob) + i - k)
      \/ /\ s \notin Leaving /\ \A i \in Of(d, "store") : StoreSlot(d, i) # s
         /\ StoreStays(s, a, accepted, k)
      \/ /\ s \notin Leaving /\ \A i \in Of(d, "store") : StoreSlot(d, i) # s
         /\ ~store_queue[s].valid /\ NotAStore(a)
    BY <1>1, <1>2, <1>3, StoreAfter
<1> QED BY <1>3, <1>4

LEMMA OutOrigin ==
    ASSUME LsqInv, NEW d, NEW gnt, NEW accepted, NEW hits, NEW give, NEW sel,
           NEW issue, NEW others, NEW k,
           Edge(d, gnt, accepted, hits, give, sel, issue, others, k),
           NEW i \in Ways
    PROVE  \/ out'[i] = NoOut
           \/ i \notin sel /\ out[i].valid /\ Holds(out'[i], out[i].rob_entry - k)
           \/ /\ i = StoreOutput
              /\ \E s \in Leaving : Holds(out'[i], store_queue[s].rob_entry - k)
           \/ i \in DOMAIN give /\ Holds(out'[i], load_queue[give[i]].rob_entry - k)
<1>1. out'[i] = n_out(give, sel, k)[i]
    BY DEF Edge
<1>2. Results(rob, out)
    BY DEF LsqInv
<1>3. PICK a : a = out'[i]
    OBVIOUS
<1>4. \/ a = NoOut
      \/ i \notin sel /\ out[i].valid /\ Holds(a, out[i].rob_entry - k)
      \/ /\ i \notin sel /\ ~out[i].valid /\ i = StoreOutput
         /\ \E s \in Leaving : Holds(a, store_queue[s].rob_entry - k)
      \/ /\ i \notin sel /\ ~out[i].valid /\ (i = StoreOutput => Leaving = {})
         /\ i \in DOMAIN give /\ Holds(a, load_queue[give[i]].rob_entry - k)
    BY <1>1, <1>2, <1>3, OutAfter
<1> QED BY <1>3, <1>4

LEMMA LoadsAfter ==
    ASSUME LsqInv, NEW d, NEW gnt, NEW accepted, NEW hits, NEW give, NEW sel,
           NEW issue, NEW others, NEW k,
           Edge(d, gnt, accepted, hits, give, sel, issue, others, k)
    PROVE  Loads(rob', load_queue')
<1>1. DOMAIN load_queue' = LoadSlots
    BY DEF Edge, n_load_queue
<1>2. ASSUME NEW l \in LoadSlots
      PROVE  /\ DOMAIN load_queue'[l] = LoadFields /\ load_queue'[l].valid \in BOOLEAN
             /\ load_queue'[l].valid => /\ Waits(rob', load_queue'[l].rob_entry, "load")
                                        /\ load_queue'[l].age_addr_match \subseteq StoreSlots
    <2>1. CASE load_queue'[l] = NoLoad
        BY <2>1 DEF NoLoad, LoadFields, StoreFields
    <2>2. ASSUME NEW i \in Of(d, "load"), LoadArrives(load_queue'[l], Len(rob) + i - k)
          PROVE  /\ DOMAIN load_queue'[l] = LoadFields /\ load_queue'[l].valid \in BOOLEAN
                 /\ Waits(rob', load_queue'[l].rob_entry, "load")
                 /\ load_queue'[l].age_addr_match \subseteq StoreSlots
        <3>1. Waits(rob', Len(rob) + i - k, "load")
            BY GroupWaits
        <3> QED BY <2>2, <3>1 DEF LoadArrives
    <2>3. ASSUME LoadStays(l, load_queue'[l], k)
          PROVE  /\ DOMAIN load_queue'[l] = LoadFields /\ load_queue'[l].valid \in BOOLEAN
                 /\ Waits(rob', load_queue'[l].rob_entry, "load")
                 /\ load_queue'[l].age_addr_match \subseteq StoreSlots
        <3>1. PICK e : e = load_queue[l].rob_entry
            OBVIOUS
        <3>2. /\ load_queue[l].valid /\ load_queue'[l].rob_entry = e - k
              /\ DOMAIN load_queue'[l] = LoadFields /\ load_queue'[l].valid \in BOOLEAN
              /\ load_queue'[l].age_addr_match \subseteq load_queue[l].age_addr_match
            BY <2>3, <3>1 DEF LoadStays
        <3>3. Waits(rob, e, "load") /\ load_queue[l].age_addr_match \subseteq StoreSlots
            BY <3>1, <3>2 DEF LsqInv, Loads
        <3>4. \A i \in sel : out[i].rob_entry # e
            BY <3>1, <3>2 DEF LsqInv, Apart, Edge
        <3>5. Waits(rob', e - k, "load")
            BY <3>3, <3>4, StillWaits
        <3> QED BY <3>2, <3>3, <3>5
    <2> QED BY <2>1, <2>2, <2>3, LoadOrigin
<1> QED BY <1>1, <1>2 DEF Loads

LEMMA StoresAfter ==
    ASSUME LsqInv, NEW d, NEW gnt, NEW accepted, NEW hits, NEW give, NEW sel,
           NEW issue, NEW others, NEW k,
           Edge(d, gnt, accepted, hits, give, sel, issue, others, k)
    PROVE  Stores(rob', store_queue')
<1>1. DOMAIN store_queue' = StoreSlots
    BY DEF Edge, n_store_queue
<1>2. ASSUME NEW s \in StoreSlots, NEW a, a = store_queue'[s]
      PROVE  /\ DOMAIN a = StoreFields
             /\ a.valid \in BOOLEAN /\ a.out_ready \in BOOLEAN
             /\ a.ready_for_mem \in BOOLEAN /\ a.value \in Int
             /\ a.valid => Waits(rob', a.rob_entry, "store")
    <2>1. CASE NotAStore(a)
        BY <2>1 DEF NotAStore
    <2>2. ASSUME NEW i \in Of(d, "store"), StoreArrives(a, Len(rob) + i - k)
          PROVE  /\ DOMAIN a = StoreFields
                 /\ a.valid \in BOOLEAN /\ a.out_ready \in BOOLEAN
                 /\ a.ready_for_mem \in BOOLEAN /\ a.value \in Int
                 /\ a.valid /\ Waits(rob', a.rob_entry, "store")
        <3>1. PICK e : e = Len(rob) + i - k
            OBVIOUS
        <3>2. Waits(rob', e, "store")
            BY <3>1, GroupWaits
        <3>3. StoreArrives(a, e)
            BY <2>2, <3>1
        <3> QED BY <3>2, <3>3 DEF StoreArrives
    <2>3. ASSUME StoreStays(s, a, accepted, k)
          PROVE  /\ DOMAIN a = StoreFields
                 /\ a.valid \in BOOLEAN /\ a.out_ready \in BOOLEAN
                 /\ a.ready_for_mem \in BOOLEAN /\ a.value \in Int
                 /\ a.valid /\ Waits(rob', a.rob_entry, "store")
        <3>1. PICK e : e = store_queue[s].rob_entry
            OBVIOUS
        <3>2. /\ store_queue[s].valid /\ a.rob_entry = e - k /\ a.valid
              /\ DOMAIN a = StoreFields /\ a.valid \in BOOLEAN /\ a.out_ready \in BOOLEAN
              /\ a.ready_for_mem \in BOOLEAN /\ a.value \in Int
            BY <2>3, <3>1 DEF StoreStays
        <3>3. Waits(rob, e, "store")
            BY <3>1, <3>2 DEF LsqInv, Stores
        <3>4. \A i \in sel : out[i].rob_entry # e
            BY <3>1, <3>2 DEF LsqInv, Apart, Edge
        <3>5. Waits(rob', e - k, "store")
            BY <3>3, <3>4, StillWaits
        <3> QED BY <3>2, <3>5
    <2>4. \/ NotAStore(a)
          \/ \E i \in Of(d, "store") :
                StoreSlot(d, i) = s /\ StoreArrives(a, Len(rob) + i - k)
          \/ s \notin Leaving /\ StoreStays(s, a, accepted, k)
        BY <1>2, StoreOrigin
    <2> QED BY <2>1, <2>2, <2>3, <2>4
<1> QED BY <1>1, <1>2 DEF Stores

LEMMA ResultsAfter ==
    ASSUME LsqInv, NEW d, NEW gnt, NEW accepted, NEW hits, NEW give, NEW sel,
           NEW issue, NEW others, NEW k,
           Edge(d, gnt, accepted, hits, give, sel, issue, others, k)
    PROVE  Results(rob', out')
<1>1. DOMAIN out' = Ways
    BY DEF Edge, n_out
<1>2. ASSUME NEW i \in Ways, NEW a, a = out'[i]
      PROVE  /\ DOMAIN a = OutFields /\ a.valid \in BOOLEAN
             /\ a.valid => \/ Waits(rob', a.rob_entry, "load")
                           \/ Waits(rob', a.rob_entry, "store")
    <2>1. CASE a = NoOut
        BY <2>1 DEF NoOut, OutFields
    <2>2. ASSUME NEW kind \in {"load", "store"}, NEW e, Waits(rob, e, kind),
                 \A j \in sel : out[j].rob_entry # e, Holds(a, e - k)
          PROVE  /\ DOMAIN a = OutFields /\ a.valid \in BOOLEAN
                 /\ Waits(rob', a.rob_entry, kind)
        <3>1. Waits(rob', e - k, kind)
            BY <2>2, StillWaits
        <3> QED BY <2>2, <3>1 DEF Holds
    <2>3. CASE i \notin sel /\ out[i].valid /\ Holds(a, out[i].rob_entry - k)
        <3>1. PICK e : e = out[i].rob_entry
            OBVIOUS
        <3>2. \E kind \in {"load", "store"} : Waits(rob, e, kind)
            BY <2>3, <3>1 DEF LsqInv, Results
        <3>3. \A j \in sel : out[j].rob_entry # e
            BY <2>3, <3>1 DEF LsqInv, Apart, Edge
        <3> QED BY <2>2, <2>3, <3>1, <3>2, <3>3
    <2>4. ASSUME NEW s \in Leaving, Holds(a, store_queue[s].rob_entry - k)
          PROVE  /\ DOMAIN a = OutFields /\ a.valid \in BOOLEAN
                 /\ Waits(rob', a.rob_entry, "store")
        <3>1. PICK e : e = store_queue[s].rob_entry
            OBVIOUS
        <3>2. s \in StoreSlots /\ store_queue[s].valid
            BY LeavingIs
        <3>3. Waits(rob, e, "store")
            BY <3>1, <3>2 DEF LsqInv, Stores
        <3>4. \A j \in sel : out[j].rob_entry # e
            BY <3>1, <3>2 DEF LsqInv, Apart, Edge
        <3> QED BY <2>2, <2>4, <3>1, <3>3, <3>4
    <2>5. CASE i \in DOMAIN give /\ Holds(a, load_queue[give[i]].rob_entry - k)
        <3>1. PICK l : l = give[i]
            OBVIOUS
        <3>2. l \in LoadSlots /\ load_queue[l].valid
            BY <2>5, <3>1 DEF Edge, Given
        <3>3. PICK e : e = load_queue[l].rob_entry
            OBVIOUS
        <3>4. Waits(rob, e, "load")
            BY <3>2, <3>3 DEF LsqInv, Loads
        <3>5. \A j \in sel : out[j].rob_entry # e
            BY <3>2, <3>3 DEF LsqInv, Apart, Edge
        <3> QED BY <2>2, <2>5, <3>1, <3>3, <3>4, <3>5
    <2>6. \/ a = NoOut
          \/ i \notin sel /\ out[i].valid /\ Holds(a, out[i].rob_entry - k)
          \/ /\ i = StoreOutput
             /\ \E s \in Leaving : Holds(a, store_queue[s].rob_entry - k)
          \/ i \in DOMAIN give /\ Holds(a, load_queue[give[i]].rob_entry - k)
        BY <1>2, OutOrigin
    <2> QED BY <2>1, <2>3, <2>4, <2>5, <2>6
<1> QED BY <1>1, <1>2 DEF Results

LEMMA ApartAfter ==
    ASSUME LsqInv, NEW d, NEW gnt, NEW accepted, NEW hits, NEW give, NEW sel,
           NEW issue, NEW others, NEW k,
           Edge(d, gnt, accepted, hits, give, sel, issue, others, k)
    PROVE  Apart(load_queue', store_queue', out')
<1>0. k \in Nat /\ Len(rob) \in Nat /\ Of(d, "load") \subseteq Int /\ Of(d, "store") \subseteq Int
      /\ (\A kind, i : i \in Of(d, kind) => i >= 1)
    BY DEF Edge, Group, Of, LsqInv, Buffer
<1>1. ASSUME NEW l \in LoadSlots, load_queue'[l].valid
      PROVE  \/ \E i \in Of(d, "load") :
                    gnt[i] = l /\ load_queue'[l].rob_entry = Len(rob) + i - k
             \/ /\ l \notin Range(give) /\ load_queue[l].valid
                /\ load_queue[l].rob_entry \in 1..Len(rob)
                /\ load_queue'[l].rob_entry = load_queue[l].rob_entry - k
    <2>1. load_queue'[l] # NoLoad
        BY <1>1 DEF NoLoad
    <2>2. load_queue[l].valid => load_queue[l].rob_entry \in 1..Len(rob)
        BY DEF LsqInv, Loads, Waits
    <2>3. CASE \E i \in Of(d, "load") :
                gnt[i] = l /\ LoadArrives(load_queue'[l], Len(rob) + i - k)
        BY <2>3 DEF LoadArrives
    <2>4. CASE l \notin Range(give) /\ LoadStays(l, load_queue'[l], k)
        BY <2>2, <2>4 DEF LoadStays
    <2> QED BY <2>1, <2>3, <2>4, LoadOrigin
<1>2. ASSUME NEW s \in StoreSlots, store_queue'[s].valid
      PROVE  \/ \E i \in Of(d, "store") :
                    StoreSlot(d, i) = s /\ store_queue'[s].rob_entry = Len(rob) + i - k
             \/ /\ s \notin Leaving /\ store_queue[s].valid
                /\ store_queue[s].rob_entry \in 1..Len(rob)
                /\ store_queue'[s].rob_entry = store_queue[s].rob_entry - k
    <2>1. ~NotAStore(store_queue'[s])
        BY <1>2 DEF NotAStore
    <2>2. store_queue[s].valid => store_queue[s].rob_entry \in 1..Len(rob)
        BY DEF LsqInv, Stores, Waits
    <2>3. CASE \E i \in Of(d, "store") :
                StoreSlot(d, i) = s /\ StoreArrives(store_queue'[s], Len(rob) + i - k)
        BY <2>3 DEF StoreArrives
    <2>4. CASE s \notin Leaving /\ StoreStays(s, store_queue'[s], accepted, k)
        BY <2>2, <2>4 DEF StoreStays
    <2> QED BY <2>1, <2>3, <2>4, StoreOrigin
\* a result was one, or was in a queue that it has left
<1>3. ASSUME NEW i \in Ways, out'[i].valid
      PROVE  \/ out[i].valid /\ out'[i].rob_entry = out[i].rob_entry - k
             \/ /\ i = StoreOutput
                /\ \E s \in Leaving : out'[i].rob_entry = store_queue[s].rob_entry - k
             \/ i \in DOMAIN give /\ out'[i].rob_entry = load_queue[give[i]].rob_entry - k
    <2>1. out'[i] # NoOut
        BY <1>3 DEF NoOut
    <2>2. CASE i \notin sel /\ out[i].valid /\ Holds(out'[i], out[i].rob_entry - k)
        BY <2>2 DEF Holds
    <2>3. CASE /\ i = StoreOutput
               /\ \E s \in Leaving : Holds(out'[i], store_queue[s].rob_entry - k)
        BY <2>3 DEF Holds
    <2>4. CASE i \in DOMAIN give /\ Holds(out'[i], load_queue[give[i]].rob_entry - k)
        BY <2>4 DEF Holds
    <2> QED BY <2>1, <2>2, <2>3, <2>4, OutOrigin
<1>4. /\ \A i \in Ways : out[i].valid => out[i].rob_entry \in 1..Len(rob)
      /\ \A s \in Leaving : /\ s \in StoreSlots /\ store_queue[s].valid
                            /\ store_queue[s].rob_entry \in 1..Len(rob)
                            /\ rob[store_queue[s].rob_entry].op.kind = "store"
      /\ \A i \in DOMAIN give : /\ give[i] \in LoadSlots /\ load_queue[give[i]].valid
                                /\ give[i] \in Range(give)
                                /\ load_queue[give[i]].rob_entry \in 1..Len(rob)
                                /\ rob[load_queue[give[i]].rob_entry].op.kind = "load"
    BY LeavingIs DEF LsqInv, Results, Stores, Loads, Waits, Edge, Given, Range
<1>5. ASSUME NEW l \in LoadSlots, NEW m \in LoadSlots,
             load_queue'[l].valid, load_queue'[m].valid,
             load_queue'[l].rob_entry = load_queue'[m].rob_entry
      PROVE  l = m
    <2>1. ASSUME NEW x, NEW y, x \in 1..Len(rob), NEW i \in Of(d, "load"),
                 y = x - k, y = Len(rob) + i - k
          PROVE  FALSE
        BY <1>0, <2>1
    <2>2. CASE \E i \in Of(d, "load") :
                gnt[i] = l /\ load_queue'[l].rob_entry = Len(rob) + i - k
        <3>1. PICK i \in Of(d, "load") :
                gnt[i] = l /\ load_queue'[l].rob_entry = Len(rob) + i - k
            BY <2>2
        <3>2. PICK j \in Of(d, "load") :
                gnt[j] = m /\ load_queue'[m].rob_entry = Len(rob) + j - k
            BY <1>1, <1>5, <2>1, <3>1
        <3>3. i = j
            <4>1. i \in Int /\ j \in Int /\ Len(rob) + i - k = Len(rob) + j - k
                BY <1>0, <1>5, <3>1, <3>2
            <4> QED BY <1>0, <4>1
        <3> QED BY <3>1, <3>2, <3>3
    <2>3. CASE /\ load_queue[l].valid /\ load_queue[l].rob_entry \in 1..Len(rob)
               /\ load_queue'[l].rob_entry = load_queue[l].rob_entry - k
        <3>1. /\ load_queue[m].valid /\ load_queue[m].rob_entry \in 1..Len(rob)
              /\ load_queue'[m].rob_entry = load_queue[m].rob_entry - k
            <4>1. CASE \E i \in Of(d, "load") :
                        gnt[i] = m /\ load_queue'[m].rob_entry = Len(rob) + i - k
                <5>1. PICK i \in Of(d, "load") :
                        load_queue'[m].rob_entry = Len(rob) + i - k
                    BY <4>1
                <5>2. PICK x, y : x = load_queue[l].rob_entry /\ y = load_queue'[m].rob_entry
                    OBVIOUS
                <5>3. x \in 1..Len(rob) /\ y = x - k /\ y = Len(rob) + i - k
                    BY <1>5, <2>3, <5>1, <5>2
                <5> QED BY <2>1, <5>3
            <4> QED BY <1>1, <1>5, <4>1
        <3>2. load_queue[l].rob_entry = load_queue[m].rob_entry
            <4>1. load_queue[l].rob_entry - k = load_queue[m].rob_entry - k
                BY <1>5, <2>3, <3>1
            <4>2. load_queue[l].rob_entry \in Int /\ load_queue[m].rob_entry \in Int
                BY <2>3, <3>1
            <4> QED BY <1>0, <4>1, <4>2
        <3> QED BY <2>3, <3>1, <3>2 DEF LsqInv, Apart
    <2> QED BY <1>1, <1>5, <2>2, <2>3
<1>6. ASSUME NEW s \in StoreSlots, NEW t \in StoreSlots,
             store_queue'[s].valid, store_queue'[t].valid,
             store_queue'[s].rob_entry = store_queue'[t].rob_entry
      PROVE  s = t
    <2>1. ASSUME NEW x, NEW y, x \in 1..Len(rob), NEW i \in Of(d, "store"),
                 y = x - k, y = Len(rob) + i - k
          PROVE  FALSE
        BY <1>0, <2>1
    <2>2. CASE \E i \in Of(d, "store") :
                StoreSlot(d, i) = s /\ store_queue'[s].rob_entry = Len(rob) + i - k
        <3>1. PICK i \in Of(d, "store") :
                StoreSlot(d, i) = s /\ store_queue'[s].rob_entry = Len(rob) + i - k
            BY <2>2
        <3>2. PICK j \in Of(d, "store") :
                StoreSlot(d, j) = t /\ store_queue'[t].rob_entry = Len(rob) + j - k
            BY <1>2, <1>6, <2>1, <3>1
        <3>3. i = j
            <4>1. i \in Int /\ j \in Int /\ Len(rob) + i - k = Len(rob) + j - k
                BY <1>0, <1>6, <3>1, <3>2
            <4> QED BY <1>0, <4>1
        <3> QED BY <3>1, <3>2, <3>3
    <2>3. CASE /\ store_queue[s].valid /\ store_queue[s].rob_entry \in 1..Len(rob)
               /\ store_queue'[s].rob_entry = store_queue[s].rob_entry - k
        <3>1. /\ store_queue[t].valid /\ store_queue[t].rob_entry \in 1..Len(rob)
              /\ store_queue'[t].rob_entry = store_queue[t].rob_entry - k
            <4>1. CASE \E i \in Of(d, "store") :
                        StoreSlot(d, i) = t /\ store_queue'[t].rob_entry = Len(rob) + i - k
                <5>1. PICK i \in Of(d, "store") :
                        store_queue'[t].rob_entry = Len(rob) + i - k
                    BY <4>1
                <5>2. PICK x, y : x = store_queue[s].rob_entry /\ y = store_queue'[t].rob_entry
                    OBVIOUS
                <5>3. x \in 1..Len(rob) /\ y = x - k /\ y = Len(rob) + i - k
                    BY <1>6, <2>3, <5>1, <5>2
                <5> QED BY <2>1, <5>3
            <4> QED BY <1>2, <1>6, <4>1
        <3>2. store_queue[s].rob_entry = store_queue[t].rob_entry
            <4>1. store_queue[s].rob_entry - k = store_queue[t].rob_entry - k
                BY <1>6, <2>3, <3>1
            <4>2. store_queue[s].rob_entry \in Int /\ store_queue[t].rob_entry \in Int
                BY <2>3, <3>1
            <4> QED BY <1>0, <4>1, <4>2
        <3> QED BY <2>3, <3>1, <3>2 DEF LsqInv, Apart
    <2> QED BY <1>2, <1>6, <2>2, <2>3
<1>7. ASSUME NEW i \in Ways, NEW j \in Ways, out'[i].valid, out'[j].valid,
             out'[i].rob_entry = out'[j].rob_entry
      PROVE  i = j
    <2>1. PICK e \in 1..Len(rob) : out'[i].rob_entry = e - k /\ out'[j].rob_entry = e - k
        BY <1>0, <1>3, <1>4, <1>7
    <2>2. /\ \/ out[i].valid /\ out[i].rob_entry = e
             \/ i = StoreOutput /\ \E s \in Leaving : store_queue[s].rob_entry = e
             \/ i \in DOMAIN give /\ load_queue[give[i]].rob_entry = e
          /\ \/ out[j].valid /\ out[j].rob_entry = e
             \/ j = StoreOutput /\ \E s \in Leaving : store_queue[s].rob_entry = e
             \/ j \in DOMAIN give /\ load_queue[give[j]].rob_entry = e
        BY <1>0, <1>3, <1>4, <1>7, <2>1
    <2> QED BY <1>4, <2>2 DEF LsqInv, Apart, Edge, Given
<1>8. ASSUME NEW l \in LoadSlots, NEW i \in Ways, load_queue'[l].valid, out'[i].valid
      PROVE  load_queue'[l].rob_entry # out'[i].rob_entry
    <2> SUFFICES ASSUME load_queue'[l].rob_entry = out'[i].rob_entry PROVE FALSE
        OBVIOUS
    <2>1. PICK e \in 1..Len(rob) :
            /\ out'[i].rob_entry = e - k
            /\ \/ out[i].valid /\ out[i].rob_entry = e
               \/ i = StoreOutput /\ \E s \in Leaving : store_queue[s].rob_entry = e
               \/ i \in DOMAIN give /\ load_queue[give[i]].rob_entry = e
        BY <1>3, <1>4, <1>8
    <2>2. l \notin Range(give) /\ load_queue[l].valid /\ load_queue[l].rob_entry = e
        BY <1>0, <1>1, <1>8, <2>1
    <2>3. rob[e].op.kind = "load"
        BY <2>2 DEF LsqInv, Loads, Waits
    <2> QED BY <1>4, <2>1, <2>2, <2>3 DEF LsqInv, Apart
<1>9. ASSUME NEW s \in StoreSlots, NEW i \in Ways, store_queue'[s].valid, out'[i].valid
      PROVE  store_queue'[s].rob_entry # out'[i].rob_entry
    <2> SUFFICES ASSUME store_queue'[s].rob_entry = out'[i].rob_entry PROVE FALSE
        OBVIOUS
    <2>1. PICK e \in 1..Len(rob) :
            /\ out'[i].rob_entry = e - k
            /\ \/ out[i].valid /\ out[i].rob_entry = e
               \/ i = StoreOutput /\ \E t \in Leaving : store_queue[t].rob_entry = e
               \/ i \in DOMAIN give /\ load_queue[give[i]].rob_entry = e
        BY <1>3, <1>4, <1>9
    <2>2. s \notin Leaving /\ store_queue[s].valid /\ store_queue[s].rob_entry = e
        BY <1>0, <1>2, <1>9, <2>1
    <2>3. rob[e].op.kind = "store"
        BY <2>2 DEF LsqInv, Stores, Waits
    <2> QED BY <1>4, <2>1, <2>2, <2>3 DEF LsqInv, Apart
<1> QED BY <1>5, <1>6, <1>7, <1>8, <1>9 DEF Apart

LEMMA WrittenValue ==
    ASSUME LsqInv, NEW accepted \in {{}, ToWrite}
    PROVE  n_memory(accepted) \in [Halves -> Int]
<1>1. \A s \in accepted : s \in StoreSlots
    BY ToWriteIs
<1>2. \A s \in accepted : store_queue[s].value \in Int
    BY <1>1 DEF LsqInv, Stores
<1>3. accepted # {} => store_queue[CHOOSE s \in accepted : TRUE].value \in Int
    BY <1>2
<1>4. memory \in [Halves -> Int]
    BY DEF LsqInv, Registers
<1> QED BY <1>3, <1>4 DEF n_memory

LEMMA RegistersAfter ==
    ASSUME LsqInv, NEW d, NEW gnt, NEW accepted, NEW hits, NEW give, NEW sel,
           NEW issue, NEW others, NEW k,
           Edge(d, gnt, accepted, hits, give, sel, issue, others, k)
    PROVE  Registers(rob)'
<1>1. str_head \in StoreSlots /\ str_tail \in StoreSlots
    BY DEF LsqInv, Registers
<1>2. str_head' \in StoreSlots
    <2>1. str_head' = IF Leaving = {} THEN str_head ELSE Wrap(str_head + 1)
        BY DEF Edge
    <2>2. Wrap(str_head + 1) \in StoreSlots
        BY <1>1, LsqConstants DEF Wrap
    <2> QED BY <1>1, <2>1, <2>2
<1>3. str_tail' \in StoreSlots
    BY <1>1, SlotsOfGroup DEF Edge
<1>4. memory' \in [Halves -> Int]
    BY WrittenValue DEF Edge
<1>5. /\ DOMAIN cur_instr' \subseteq Ways
      /\ \A w \in DOMAIN cur_instr' :
            \E op \in Ops : cur_instr'[w].value = op.value /\ cur_instr'[w].at = op.at
    <2>1. /\ DOMAIN cur_instr' = DOMAIN issue /\ DOMAIN issue \subseteq Ways
          /\ \A w \in DOMAIN issue : cur_instr'[w] = Instr(issue[w])
        BY DEF Edge
    <2>2. ASSUME NEW w \in DOMAIN issue
          PROVE  \E op \in Ops : cur_instr'[w].value = op.value /\ cur_instr'[w].at = op.at
        <3>1. PICK i : i = issue[w]
            OBVIOUS
        <3>2. i \in 1..Len(rob) /\ rob[i].op \in Ops
            BY <3>1 DEF Edge, LsqInv, Buffer
        <3>3. cur_instr'[w] = Instr(i)
            BY <2>1, <3>1
        <3> QED BY <3>2, <3>3 DEF Instr
    <2> QED BY <2>1, <2>2
<1>6. stores_ready' = n_stores_ready(rob')
    BY DEF Edge
<1> QED BY <1>2, <1>3, <1>4, <1>5, <1>6 DEF Registers

LEMMA NukeInv ==
    ASSUME LsqInv, NEW accepted \in {{}, ToWrite}, Nuke(accepted)
    PROVE  LsqInv'
<1>1. Buffer(rob') /\ Len(rob') = 0
    BY DEF Nuke, Buffer
<1>2. Loads(rob', load_queue')
    BY DEF Nuke, Loads, NoLoad, LoadFields, StoreFields
<1>3. Stores(rob', store_queue')
    <2>1. \A s \in StoreSlots : store_queue'[s] = NoStore
        BY DEF Nuke
    <2>2. DOMAIN store_queue' = StoreSlots
        BY DEF Nuke
    <2> QED BY <2>1, <2>2, NoStoreFields DEF Stores
<1>4. Results(rob', out')
    BY DEF Nuke, Results, NoOut, OutFields
<1>5. Apart(load_queue', store_queue', out')
    BY DEF Nuke, Apart, NoLoad, NoStore, NoOut
<1>6. Registers(rob)'
    <2>1. \A i \in Ways : ~(i <= Len(rob'))
        BY <1>1, LsqConstants
    <2>2. n_stores_ready(rob') = [i \in Ways |-> NoSlot]
        BY <2>1 DEF n_stores_ready
    <2>3. stores_ready' = n_stores_ready(rob')
        BY <2>2 DEF Nuke
    <2>4. memory' \in [Halves -> Int]
        BY WrittenValue DEF Nuke
    <2>5. str_head' \in StoreSlots /\ str_tail' \in StoreSlots /\ DOMAIN cur_instr' = {}
        BY LsqConstants DEF Nuke
    <2> QED BY <2>3, <2>4, <2>5 DEF Registers
<1> QED BY <1>1, <1>2, <1>3, <1>4, <1>5, <1>6 DEF LsqInv

LEMMA LsqInductive == LsqInv /\ [Next]_vars => LsqInv'
<1> SUFFICES ASSUME LsqInv, [Next]_vars PROVE LsqInv'
    OBVIOUS
<1>1. CASE UNCHANGED vars
    BY <1>1 DEF vars, LsqInv, Buffer, Loads, Stores, Results, Apart, Registers, Waits,
       n_stores_ready
<1>2. ASSUME NEW d, NEW gnt, NEW accepted, NEW hits, NEW give, NEW sel,
             NEW issue, NEW others, NEW k,
             Edge(d, gnt, accepted, hits, give, sel, issue, others, k)
      PROVE  LsqInv'
    <2>1. Buffer(rob') /\ Loads(rob', load_queue') /\ Stores(rob', store_queue')
        BY <1>2, BufferAfter, LoadsAfter, StoresAfter
    <2>2. Results(rob', out') /\ Apart(load_queue', store_queue', out') /\ Registers(rob)'
        BY <1>2, ResultsAfter, ApartAfter, RegistersAfter
    <2> QED BY <2>1, <2>2 DEF LsqInv
<1> QED BY <1>1, <1>2, NextSteps, NukeInv

\* In every state the instructions in the queues and behind them are in the
\* reorder buffer, the slots exist and memory holds what was stored, also when
\* a wrong path leads outside memory or a slot is used again too early.
THEOREM LsqTypeCorrect == Spec => []TypeOK
<1>1. Init => LsqInv
    BY LsqInit
<1>2. LsqInv /\ [Next]_vars => LsqInv'
    BY LsqInductive
<1>3. LsqInv => TypeOK
    BY LsqInvType
<1> QED BY <1>1, <1>2, <1>3, PTL DEF Spec

-----------------------------------------------------------------------------
(* Where the slots of the store queue are                                  *)

\* Age, counted from a given head.
AgeFrom(h, s) == IF s >= h THEN s - h ELSE s - h + STORE_QUEUE_SIZE

LEMMA AgeIs == \A s : Age(s) = AgeFrom(str_head, s)
BY DEF Age, AgeFrom

LEMMA AgeOfSlot ==
    ASSUME NEW h \in StoreSlots, NEW s \in StoreSlots
    PROVE  AgeFrom(h, s) \in StoreSlots /\ Wrap(h + AgeFrom(h, s)) = s
BY LsqConstants DEF AgeFrom, Wrap

LEMMA SlotOfAge ==
    ASSUME NEW h \in StoreSlots, NEW a \in StoreSlots
    PROVE  Wrap(h + a) \in StoreSlots /\ AgeFrom(h, Wrap(h + a)) = a
BY LsqConstants DEF AgeFrom, Wrap

LEMMA HeadMoves ==
    ASSUME NEW h \in StoreSlots, NEW r \in 0..1, NEW s \in StoreSlots
    PROVE  /\ Wrap(h + r) \in StoreSlots
           /\ AgeFrom(Wrap(h + r), s) =
                IF AgeFrom(h, s) >= r THEN AgeFrom(h, s) - r
                                      ELSE AgeFrom(h, s) - r + STORE_QUEUE_SIZE
BY LsqConstants DEF AgeFrom, Wrap

LEMMA WrapTwice ==
    ASSUME NEW h \in StoreSlots, NEW a \in Nat, NEW b \in Nat, a + b <= STORE_QUEUE_SIZE
    PROVE  Wrap(Wrap(h + a) + b) = Wrap(h + (a + b))
BY LsqConstants DEF Wrap

\* The c oldest slots hold stores, and the tail is behind them.
Holding(sq, h, t, c) ==
    /\ t = Wrap(h + c)
    /\ \A s \in StoreSlots : sq[s].valid <=> AgeFrom(h, s) < c

Ordered(sq, h) ==
    \A s, t \in StoreSlots :
        sq[s].valid /\ sq[t].valid /\ AgeFrom(h, s) < AgeFrom(h, t)
            => sq[s].rob_entry < sq[t].rob_entry

QueueInv ==
    /\ Ordered(store_queue, str_head)
    /\ \E c \in 0..STORE_QUEUE_SIZE : Holding(store_queue, str_head, str_tail, c)

\* A group that enters finds room for its stores.
LEMMA RoomForStores ==
    ASSUME LsqInv, NEW c \in 0..STORE_QUEUE_SIZE,
           Holding(store_queue, str_head, str_tail, c),
           NEW d, Group(d), NEW g \in 0..Len(d)
    PROVE  c + g <= STORE_QUEUE_SIZE
<1>0. Len(d) \in 0..N /\ str_head \in StoreSlots
    BY DEF Group, LsqInv, Registers
<1>1. CASE Len(d) = 0
    BY <1>0, <1>1, LsqConstants
<1>2. CASE Len(d) > 0
    <2>1. ~store_q_full
        BY <1>2 DEF Group, lsq_full
    <2>2. AgeFrom(str_head, str_head) = 0
        BY <1>0, LsqConstants DEF AgeFrom
    <2>3. str_tail = Wrap(str_head + c) /\ (store_queue[str_head].valid <=> 0 < c)
        BY <1>0, <2>2 DEF Holding
    <2>4. STORE_QUEUE_SIZE - c >= N
        BY <1>0, <2>1, <2>3, LsqConstants DEF store_q_full, Wrap
    <2> QED BY <1>0, <2>4, LsqConstants
<1> QED BY <1>0, <1>1, <1>2

-----------------------------------------------------------------------------
(* A clock edge, with the rest of what it does to the instructions         *)

\* The rest of what becomes of the instructions in the reorder buffer.
Keeps(r, d, gnt, k, issue) ==
    /\ \A i \in 1..(Len(rob) - k) :
        /\ r[i].expected = rob[i + k].expected
        /\ r[i].issued <=> (rob[i + k].issued \/ (i + k) \in Range(issue))
    /\ \A i \in 1..Len(d) :
        /\ r[Len(rob) - k + i].expected = NewInstr(d, gnt, i).expected
        /\ ~r[Len(rob) - k + i].issued

LEMMA BecomesOthers ==
    ASSUME NEW e, DOMAIN e = InstrFields, NEW x, NEW y, NEW z
    PROVE  /\ Becomes(e, x, y, z).expected = e.expected
           /\ Becomes(e, x, y, z).issued = y
BY DEF Becomes, InstrFields

LEMMA RobKeeps ==
    ASSUME Buffer(rob), NEW d, Group(d), NEW gnt, NEW k \in 0..Len(rob),
           NEW done, NEW issue, NEW accepted,
           NEW r, r = n_rob(d, gnt, k, done, issue, accepted)
    PROVE  Keeps(r, d, gnt, k, issue)
<1> DEFINE m == Len(rob) - k
           n == Len(d)
           Old(i) == [rob[i + k] EXCEPT
                        !.executed = @ \/ (i + k) \in done,
                        !.issued = @ \/ (i + k) \in Range(issue),
                        !.written = @ \/ \E s \in accepted :
                                            store_queue[s].rob_entry = i + k]
           New(i) == NewInstr(d, gnt, i)
           F == [i \in 1..m |-> Old(i)]
           G == [i \in 1..n |-> New(i)]
           S == {Old(i) : i \in 1..m} \cup {New(i) : i \in 1..n}
<1>1. m \in Nat /\ n \in Nat /\ DOMAIN d = 1..n
    BY DEF Buffer, Group
<1>2. r = F \o G
    BY <1>1 DEF n_rob
<1>3. F \in Seq(S) /\ G \in Seq(S) /\ Len(F) = m /\ Len(G) = n
    <2>1. \A i \in 1..m : Old(i) \in S
        OBVIOUS
    <2>2. \A i \in 1..n : New(i) \in S
        OBVIOUS
    <2> HIDE DEF S, Old, New
    <2>3. F \in [1..m -> S] /\ G \in [1..n -> S]
        BY <2>1, <2>2
    <2> QED BY <1>1, <2>3
<1> HIDE DEF S
<1>4. \A i \in 1..m : r[i] = Old(i)
    <2>1. \A i \in 1..m : F[i] = Old(i)
        OBVIOUS
    <2> HIDE DEF F, G, Old, m
    <2> QED BY <1>1, <1>2, <1>3, <2>1, ConcatProperties
<1>5. \A i \in 1..n : r[m + i] = New(i)
    <2>1. \A i \in 1..n : G[i] = New(i)
        OBVIOUS
    <2>2. \A i \in 1..n : m + i \in 1..(m + n) /\ m + i > m /\ (m + i) - m = i
        BY <1>1
    <2> HIDE DEF F, G, New, m
    <2> QED BY <1>1, <1>2, <1>3, <2>1, <2>2, ConcatProperties
<1>6. ASSUME NEW i \in 1..m
      PROVE  /\ r[i].expected = rob[i + k].expected
             /\ r[i].issued <=> (rob[i + k].issued \/ (i + k) \in Range(issue))
    <2>1. i + k \in 1..Len(rob)
        BY <1>1 DEF Buffer
    <2>2. DOMAIN rob[i + k] = InstrFields
        BY <2>1 DEF Buffer
    <2>3. PICK x : x = (rob[i + k].executed \/ (i + k) \in done)
        OBVIOUS
    <2>4. PICK y : y = (rob[i + k].issued \/ (i + k) \in Range(issue))
        OBVIOUS
    <2>5. PICK z : z = (rob[i + k].written \/ \E s \in accepted :
                                            store_queue[s].rob_entry = i + k)
        OBVIOUS
    <2>6. r[i] = Becomes(rob[i + k], x, y, z)
        <3>1. Old(i) = Becomes(rob[i + k], x, y, z)
            BY <2>3, <2>4, <2>5, Zenon DEF Becomes
        <3> QED BY <1>4, <3>1, Zenon
    <2>7. r[i].expected = rob[i + k].expected /\ r[i].issued = y
        BY <2>2, <2>6, BecomesOthers
    <2> QED BY <2>4, <2>7
<1>7. ASSUME NEW i \in 1..n
      PROVE  /\ r[m + i].expected = New(i).expected /\ ~r[m + i].issued
    <2>1. r[m + i] = New(i)
        BY <1>5
    <2>2. ~New(i).issued
        BY DEF NewInstr
    <2> HIDE DEF New
    <2> QED BY <2>1, <2>2
<1> QED BY <1>6, <1>7 DEF Keeps

LoadEdge(d, gnt, accepted, hits, give, sel, issue, others, k) ==
    /\ Edge(d, gnt, accepted, hits, give, sel, issue, others, k)
    /\ Keeps(rob', d, gnt, k, issue)
    /\ \A w \in DOMAIN issue :
        /\ issue[w] \in 1..Len(rob) /\ Memory(rob[issue[w]].op)
        /\ ~rob[issue[w]].issued
    /\ hits \subseteq load_mem_rdy
    /\ \A i \in DOMAIN give : load_queue[give[i]].out_ready
    /\ \A i \in Of(d, "load") : ~load_queue[gnt[i]].valid

LEMMA GivenReady ==
    ASSUME NEW give \in Outputs
    PROVE  \A i \in DOMAIN give : load_queue[give[i]].out_ready
<1> DEFINE c == IF Cardinality(load_out_rdy) < N THEN Cardinality(load_out_rdy) ELSE N
           lines == 1..c
<1>1. PICK g \in Injection(lines, load_out_rdy) : give = Restrict(g, lines \cap LoadOutputs)
    BY DEF Outputs
<1> HIDE DEF c
<1>2. g \in [lines -> load_out_rdy]
    BY <1>1 DEF Injection
<1> HIDE DEF lines
<1>3. \A i \in DOMAIN give : i \in lines /\ give[i] = g[i]
    BY <1>1 DEF Restrict
<1> QED BY <1>2, <1>3 DEF load_out_rdy

LEMMA AdvanceLoadEdge ==
    ASSUME LsqInv, NEW accepted \in {{}, ToWrite},
           NEW d \in (IF lsq_full \/ rob_full THEN {<<>>} ELSE Groups),
           NEW hits \in SUBSET load_mem_rdy, NEW give \in Outputs,
           NEW sel \in SUBSET (Ways \ FreeOutputs),
           NEW issue \in Issues, NEW others \in SUBSET Executable,
           NEW gnt \in Injection(Of(d, "load"), open_load_spaces),
           Advance(d, gnt, accepted, hits, give, sel, issue, others)
    PROVE  LoadEdge(d, gnt, accepted, hits, give, sel, issue, others, Cardinality(Retiring))
<1>1. Edge(d, gnt, accepted, hits, give, sel, issue, others, Cardinality(Retiring))
    BY AdvanceEdge
<1>2. rob' = n_rob(d, gnt, Cardinality(Retiring), Executes(sel, others), issue, accepted)
    BY DEF Advance, Executes
<1>3. Keeps(rob', d, gnt, Cardinality(Retiring), issue)
    <2>1. Buffer(rob) /\ Group(d) /\ Cardinality(Retiring) \in 0..Len(rob)
        BY <1>1 DEF LsqInv, Edge
    <2> QED BY <1>2, <2>1, RobKeeps
<1>4. \A w \in DOMAIN issue :
        /\ issue[w] \in 1..Len(rob) /\ Memory(rob[issue[w]].op)
        /\ ~rob[issue[w]].issued
    BY IssuesAre DEF Issuable, LsqInv, Buffer
<1>5. \A i \in Of(d, "load") : ~load_queue[gnt[i]].valid
    BY DEF Injection, open_load_spaces
<1> QED BY <1>1, <1>3, <1>4, <1>5, GivenReady DEF LoadEdge

LEMMA NextLoadSteps ==
    ASSUME LsqInv, Next
    PROVE  \/ \E d, gnt, accepted, hits, give, sel, issue, others, k :
                LoadEdge(d, gnt, accepted, hits, give, sel, issue, others, k)
           \/ \E accepted \in {{}, ToWrite} : Nuke(accepted)
<1>1. PICK accepted \in {{}, ToWrite} :
        \/ \E d \in (IF lsq_full \/ rob_full THEN {<<>>} ELSE Groups),
              hits \in SUBSET load_mem_rdy, give \in Outputs,
              sel \in SUBSET (Ways \ FreeOutputs), issue \in Issues,
              others \in SUBSET Executable :
            \E gnt \in Injection(Of(d, "load"), open_load_spaces) :
                Advance(d, gnt, accepted, hits, give, sel, issue, others)
        \/ Nuke(accepted)
    BY Zenon DEF Next
<1>2. CASE Nuke(accepted)
    BY <1>2
<1>3. CASE ~Nuke(accepted)
    <2>1. PICK d \in (IF lsq_full \/ rob_full THEN {<<>>} ELSE Groups),
               hits \in SUBSET load_mem_rdy, give \in Outputs,
               sel \in SUBSET (Ways \ FreeOutputs), issue \in Issues,
               others \in SUBSET Executable :
            \E gnt \in Injection(Of(d, "load"), open_load_spaces) :
                Advance(d, gnt, accepted, hits, give, sel, issue, others)
        BY <1>1, <1>3, Zenon
    <2>2. PICK gnt \in Injection(Of(d, "load"), open_load_spaces) :
                Advance(d, gnt, accepted, hits, give, sel, issue, others)
        BY <2>1, Zenon
    <2>3. LoadEdge(d, gnt, accepted, hits, give, sel, issue, others, Cardinality(Retiring))
        BY <2>2, AdvanceLoadEdge
    <2> QED BY <2>3, Zenon
<1> QED BY <1>2, <1>3

-----------------------------------------------------------------------------
(* The reorder buffer after the edge                                       *)

\* An entry is one that was there, or the instruction of a way of the group.
LEMMA EntryComes ==
    ASSUME LsqInv, NEW d, NEW gnt, NEW accepted, NEW hits, NEW give, NEW sel,
           NEW issue, NEW others, NEW k,
           LoadEdge(d, gnt, accepted, hits, give, sel, issue, others, k),
           NEW e \in 1..Len(rob')
    PROVE  \/ \E i \in 1..Len(rob) : k < i /\ e = i - k
           \/ \E x \in 1..Len(d) : e = Len(rob) + x - k
<1>1. /\ Len(rob') = Len(rob) - k + Len(d) /\ Len(rob) \in Nat /\ Len(d) \in Nat
      /\ k \in 0..Len(rob)
    BY DEF LoadEdge, Edge, Shifts, LsqInv, Buffer, Group
<1>2. CASE e <= Len(rob) - k
    <2>1. PICK i : i = e + k
        OBVIOUS
    <2>2. i \in 1..Len(rob) /\ k < i /\ e = i - k
        BY <1>1, <1>2, <2>1
    <2> QED BY <2>2
<1>3. CASE ~(e <= Len(rob) - k)
    <2>1. PICK x : x = e - (Len(rob) - k)
        OBVIOUS
    <2>2. x \in 1..Len(d) /\ e = Len(rob) + x - k
        BY <1>1, <1>3, <2>1
    <2> QED BY <2>2
<1> QED BY <1>2, <1>3

LEMMA EntryStays ==
    ASSUME LsqInv, NEW d, NEW gnt, NEW accepted, NEW hits, NEW give, NEW sel,
           NEW issue, NEW others, NEW k,
           LoadEdge(d, gnt, accepted, hits, give, sel, issue, others, k),
           NEW i \in 1..Len(rob), k < i, NEW e, e = i - k
    PROVE  /\ e \in 1..Len(rob')
           /\ rob'[e].op = rob[i].op /\ rob'[e].lsq_index = rob[i].lsq_index
           /\ rob'[e].expected = rob[i].expected
           /\ rob[i].executed => rob'[e].executed
           /\ rob'[e].issued <=> (rob[i].issued \/ i \in Range(issue))
           /\ rob'[e].written <=>
                (rob[i].written \/ \E s \in accepted : store_queue[s].rob_entry = i)
<1>1. /\ Len(rob') = Len(rob) - k + Len(d) /\ Len(rob) \in Nat /\ Len(d) \in Nat
      /\ k \in 0..Len(rob)
    BY DEF LoadEdge, Edge, Shifts, LsqInv, Buffer, Group
<1>2. e \in 1..(Len(rob) - k) /\ e + k = i /\ e \in 1..Len(rob')
    BY <1>1
<1>3. Shifts(rob', d, gnt, k, Executes(sel, others), accepted) /\ Keeps(rob', d, gnt, k, issue)
    BY DEF LoadEdge, Edge
<1>4. PICK j : j = e + k
    OBVIOUS
<1>5. /\ rob'[e].op = rob[j].op /\ rob'[e].lsq_index = rob[j].lsq_index
      /\ rob[j].executed => rob'[e].executed
      /\ rob'[e].written <=> \/ rob[j].written
                             \/ \E s \in accepted : store_queue[s].rob_entry = j
    BY <1>2, <1>3, <1>4 DEF Shifts
<1>6. /\ rob'[e].expected = rob[j].expected
      /\ rob'[e].issued <=> (rob[j].issued \/ j \in Range(issue))
    BY <1>2, <1>3, <1>4 DEF Keeps
<1> QED BY <1>2, <1>4, <1>5, <1>6

LEMMA EntryNew ==
    ASSUME LsqInv, NEW d, NEW gnt, NEW accepted, NEW hits, NEW give, NEW sel,
           NEW issue, NEW others, NEW k,
           LoadEdge(d, gnt, accepted, hits, give, sel, issue, others, k),
           NEW x \in 1..Len(d), NEW e, e = Len(rob) + x - k
    PROVE  /\ e \in 1..Len(rob') /\ e \in Nat /\ Len(rob) - k < e
           /\ rob'[e].op = d[x] /\ d[x] \in Ops
           /\ rob'[e].lsq_index = n_lsq_idxs(d, gnt, x)
           /\ rob'[e].expected = NewInstr(d, gnt, x).expected
           /\ ~rob'[e].issued /\ ~rob'[e].written /\ ~rob'[e].executed
<1>1. /\ Len(rob') = Len(rob) - k + Len(d) /\ Len(rob) \in Nat /\ Len(d) \in Nat
      /\ k \in 0..Len(rob) /\ d \in [1..Len(d) -> Ops]
    BY DEF LoadEdge, Edge, Shifts, LsqInv, Buffer, Group
<1>2. e = Len(rob) - k + x /\ e \in 1..Len(rob') /\ e \in Nat /\ Len(rob) - k < e
    BY <1>1
<1>3. Shifts(rob', d, gnt, k, Executes(sel, others), accepted) /\ Keeps(rob', d, gnt, k, issue)
    BY DEF LoadEdge, Edge
<1>4. PICK m : m = Len(rob) - k + x
    OBVIOUS
<1>5. /\ rob'[m].op = d[x] /\ rob'[m].lsq_index = n_lsq_idxs(d, gnt, x)
      /\ ~rob'[m].written /\ ~rob'[m].executed
    BY <1>3, <1>4 DEF Shifts
<1>6. rob'[m].expected = NewInstr(d, gnt, x).expected /\ ~rob'[m].issued
    BY <1>3, <1>4 DEF Keeps
<1> QED BY <1>1, <1>2, <1>4, <1>5, <1>6

\* What is in a queue is in flight, and does not retire at the edge.
LEMMA LoadIn ==
    ASSUME LsqInv, NEW d, NEW gnt, NEW accepted, NEW hits, NEW give, NEW sel,
           NEW issue, NEW others, NEW k,
           LoadEdge(d, gnt, accepted, hits, give, sel, issue, others, k),
           NEW l \in LoadSlots, load_queue[l].valid, NEW i, i = load_queue[l].rob_entry
    PROVE  /\ i \in 1..Len(rob) /\ k < i
           /\ rob[i].op.kind = "load" /\ ~rob[i].executed
<1>1. Waits(rob, i, "load") /\ Len(rob) \in Nat /\ k \in 0..Len(rob)
    BY DEF LsqInv, Loads, Buffer, LoadEdge, Edge
<1>2. i \notin 1..k
    BY <1>1 DEF Waits, LoadEdge, Edge
<1> QED BY <1>1, <1>2 DEF Waits

LEMMA StoreIn ==
    ASSUME LsqInv, NEW d, NEW gnt, NEW accepted, NEW hits, NEW give, NEW sel,
           NEW issue, NEW others, NEW k,
           LoadEdge(d, gnt, accepted, hits, give, sel, issue, others, k),
           NEW s \in StoreSlots, store_queue[s].valid, NEW i, i = store_queue[s].rob_entry
    PROVE  /\ i \in 1..Len(rob) /\ k < i
           /\ rob[i].op.kind = "store" /\ ~rob[i].executed
<1>1. Waits(rob, i, "store") /\ Len(rob) \in Nat /\ k \in 0..Len(rob)
    BY DEF LsqInv, Stores, Buffer, LoadEdge, Edge
<1>2. i \notin 1..k
    BY <1>1 DEF Waits, LoadEdge, Edge
<1> QED BY <1>1, <1>2 DEF Waits

LEMMA OfIs ==
    ASSUME NEW d, Group(d), NEW kind
    PROVE  \A x : x \in Of(d, kind) <=> x \in 1..Len(d) /\ d[x].kind = kind
BY DEF Of, Group

-----------------------------------------------------------------------------
(* The invariant of the stores                                             *)

\* No access of the program is outside memory.
Inside == \A op \in Ops : op.at # Outside
Near(lq) == \A l \in LoadSlots : lq[l].at # Outside

\* The stores in the queue are written when they are ready to leave it, and
\* those that have left it are written.
Written(r, sq, o) ==
    /\ \A s \in StoreSlots :
        sq[s].valid => (r[sq[s].rob_entry].written <=> sq[s].out_ready)
    /\ \A i \in Ways :
        o[i].valid /\ r[o[i].rob_entry].op.kind = "store" => r[o[i].rob_entry].written

\* The stores in the queue are in the slots they were given.
Named(r, sq) ==
    \A s \in StoreSlots : sq[s].valid => r[sq[s].rob_entry].lsq_index = s

WriteInv ==
    /\ LsqInv /\ Near(load_queue) /\ Written(rob, store_queue, out)
    /\ Named(rob, store_queue)

\* No store is given the slot of another one that is in flight.
NoReuse ==
    \A i, j \in DOMAIN rob :
        (/\ rob[i].op.kind = "store" /\ rob[j].op.kind = "store"
         /\ rob[i].lsq_index = rob[j].lsq_index) => i = j

Store(r, i) == i \in 1..Len(r) /\ r[i].op.kind = "store"
Load(r, i) == i \in 1..Len(r) /\ r[i].op.kind = "load"
Covers(op) == Covered(op.at, op.size)
SameAs(a, op) == a.at = op.at /\ a.size = op.size

\* Slot s of queue q holds entry i.
Has(q, s, i) == q[s].valid /\ q[s].rob_entry = i
InStores(sq, i) == \E s \in StoreSlots : Has(sq, s, i)

\* A slot that holds no store has no marks of an earlier one: what the edge
\* does to a slot, it does to whatever enters there.
Unmarked(a) == ~a.out_ready /\ ~a.ready_for_mem /\ ~a.has_address
Blank(sq) == \A s \in StoreSlots : ~sq[s].valid => Unmarked(sq[s])

\* What has not been issued is in the queue without an address.
StoresUnissued(r, sq) ==
    \A i \in 1..Len(r) : Store(r, i) /\ ~r[i].issued =>
        \E s \in StoreSlots : Has(sq, s, i) /\ ~sq[s].has_address

\* An address in the queue is that of the instruction, and so is what is to be
\* written; nothing goes on without an address.
StoresLocated(r, sq) ==
    \A s \in StoreSlots : sq[s].valid =>
        /\ sq[s].has_address => /\ SameAs(sq[s], r[sq[s].rob_entry].op)
                                /\ sq[s].value = r[sq[s].rob_entry].op.value
        /\ sq[s].ready_for_mem \/ sq[s].out_ready => sq[s].has_address

\* A store that has just been issued is on its way to its slot.
StoresIssued(r, sq, cur) ==
    \A w \in DOMAIN cur : cur[w].kind = "store" =>
        /\ cur[w].index \in StoreSlots
        /\ sq[cur[w].index].valid /\ ~sq[cur[w].index].has_address
        /\ SameAs(cur[w], r[sq[cur[w].index].rob_entry].op)
        /\ r[sq[cur[w].index].rob_entry].issued
        /\ cur[w].value = r[sq[cur[w].index].rob_entry].op.value

\* Each slot is about the one store that has it.
Claimed(r, sq, cur) ==
    /\ Blank(sq) /\ StoresUnissued(r, sq) /\ StoresLocated(r, sq)
    /\ StoresIssued(r, sq, cur)

OrderInv ==
    /\ WriteInv /\ StoresInProgramOrder /\ NoReuse /\ QueueInv
    /\ Claimed(rob, store_queue, cur_instr)

LEMMA NearAfter ==
    ASSUME Inside, LsqInv, Near(load_queue),
           NEW d, NEW gnt, NEW accepted, NEW hits, NEW give, NEW sel,
           NEW issue, NEW others, NEW k,
           Edge(d, gnt, accepted, hits, give, sel, issue, others, k)
    PROVE  Near(load_queue')
<1> SUFFICES ASSUME NEW l \in LoadSlots PROVE load_queue'[l].at # Outside
    BY DEF Near
<1>1. \A w \in DOMAIN cur_instr : cur_instr[w].at # Outside
    BY DEF Inside, LsqInv, Registers
<1>2. load_queue[l].at # Outside
    BY DEF Near
<1>3. CASE load_queue'[l] = NoLoad
    BY <1>3 DEF NoLoad, Outside
<1>4. CASE \E i \in Of(d, "load") :
                gnt[i] = l /\ LoadArrives(load_queue'[l], Len(rob) + i - k)
    BY <1>4 DEF LoadArrives, Outside
<1>5. CASE l \notin Range(give) /\ LoadStays(l, load_queue'[l], k)
    BY <1>1, <1>2, <1>5 DEF LoadStays
<1> QED BY <1>3, <1>4, <1>5, LoadOrigin

LEMMA NoException ==
    ASSUME Inside, LsqInv, Near(load_queue), NEW s, NEW w
    PROVE  ~Exception(s, w)
<1> SUFFICES ASSUME s \in LoadSlots PROVE LocatedBy(s, w).at # Outside
    BY DEF Exception
<1>1. \A v \in DOMAIN cur_instr : cur_instr[v].at # Outside
    BY DEF Inside, LsqInv, Registers
<1>2. PICK a : a = LocatedBy(s, w)
    OBVIOUS
<1>3. LocatedFrom(a, s, w)
    BY <1>2, LocatedFields DEF LsqInv
<1> QED BY <1>1, <1>2, <1>3 DEF LocatedFrom, Near

-----------------------------------------------------------------------------
(* A slot of the store queue after the edge, when no slot is used again    *)

\* The group is given slots that are free.
LEMMA FreshSlots ==
    ASSUME OrderInv, NEW d, Group(d), NEW i \in Of(d, "store")
    PROVE  StoreSlot(d, i) \in StoreSlots /\ ~store_queue[StoreSlot(d, i)].valid
<1>1. PICK c \in 0..STORE_QUEUE_SIZE : Holding(store_queue, str_head, str_tail, c)
    BY DEF OrderInv, QueueInv
<1>2. /\ LsqInv /\ str_head \in StoreSlots /\ str_tail \in StoreSlots
    BY DEF OrderInv, WriteInv, LsqInv, Registers
<1>3. PICK g \in 0..Len(d) :
        /\ Cardinality(Of(d, "store")) = g
        /\ \A j \in Of(d, "store") : Rank(d, j) \in 0..(g - 1)
    BY Ranks
<1>4. c \in Nat /\ g \in Nat /\ c + g <= STORE_QUEUE_SIZE
    <2>1. c + g <= STORE_QUEUE_SIZE
        BY <1>1, <1>2, <1>3, RoomForStores
    <2> QED BY <1>1, <1>3, <2>1, LsqConstants DEF Group
<1>5. Rank(d, i) \in Nat /\ Rank(d, i) < g
    BY <1>3, <1>4
<1>6. c + Rank(d, i) \in StoreSlots /\ c + Rank(d, i) <= STORE_QUEUE_SIZE
    BY <1>4, <1>5, LsqConstants
<1>7. StoreSlot(d, i) = Wrap(Wrap(str_head + c) + Rank(d, i))
    BY <1>1 DEF StoreSlot, Rank, Holding
<1>8. StoreSlot(d, i) = Wrap(str_head + (c + Rank(d, i)))
    BY <1>2, <1>4, <1>5, <1>6, <1>7, WrapTwice
<1>9. StoreSlot(d, i) \in StoreSlots /\ AgeFrom(str_head, StoreSlot(d, i)) = c + Rank(d, i)
    BY <1>2, <1>6, <1>8, SlotOfAge
<1>10. ~(c + Rank(d, i) < c)
    BY <1>4, <1>5
<1> QED BY <1>1, <1>9, <1>10 DEF Holding

\* So what is in the queue stays there.
LEMMA EnteringKept ==
    ASSUME OrderInv, NEW d, Group(d), NEW s \in StoreSlots, store_queue[s].valid
    PROVE  Entering(d, s) = store_queue[s]
<1>1. \A i \in Of(d, "store") : StoreSlot(d, i) # s
    BY FreshSlots
<1> QED BY <1>1, EnteringIs

\* A store whose address has just been issued has it in its slot, if no load
\* of a wrong path interferes.
LEMMA AddressedIs ==
    ASSUME Inside, OrderInv, NEW d, Group(d), NEW s \in StoreSlots,
           store_queue[s].valid, NEW w, NEW a, a = AddressedBy(d, s, w)
    PROVE  \/ Issued("store", s, w) = {} /\ a = store_queue[s]
           \/ \E v \in Issued("store", s, w) :
                /\ a.at = cur_instr[v].at /\ a.size = cur_instr[v].size
                /\ a.has_address /\ a.value = cur_instr[v].value
<1>1. LsqInv /\ Near(load_queue) /\ Stores(rob, store_queue) /\ Registers(rob)
    BY DEF OrderInv, WriteInv, LsqInv
<1>2. PICK b : b = Entering(d, s)
    OBVIOUS
<1>3. b = store_queue[s]
    BY <1>2, EnteringKept
<1>4. \/ Issued("store", s, w) = {} /\ a = b
      \/ \E v \in Issued("store", s, w) :
            /\ a.at = cur_instr[v].at /\ a.size = cur_instr[v].size
            /\ a.has_address
            /\ ~Exception(s, v) => a.value = cur_instr[v].value
    BY <1>1, <1>2, AddressedFields
<1>5. \A v : ~Exception(s, v)
    BY <1>1, NoException
<1> QED BY <1>3, <1>4, <1>5

\* An address comes once, and is kept.
LEMMA AddressedKept ==
    ASSUME OrderInv, NEW d, Group(d), NEW s \in StoreSlots,
           store_queue[s].has_address, NEW w
    PROVE  AddressedBy(d, s, w) = store_queue[s]
<1>1. Issued("store", s, w) = {}
    BY DEF OrderInv, Claimed, StoresIssued, Issued
<1>2. store_queue[s].valid
    BY DEF OrderInv, Claimed, Blank, Unmarked
<1> QED BY <1>1, <1>2, EnteringKept DEF AddressedBy

\* The rest of what becomes of a store that stays.
StoreGoesOn(d, s, a) ==
    /\ a.at = Addressed(d, s).at /\ a.size = Addressed(d, s).size
    /\ a.value = Addressed(d, s).value /\ a.has_address = Addressed(d, s).has_address
    /\ a.ready_for_mem => store_queue[s].ready_for_mem \/ store_queue[s].has_address

\* A store that has just entered.
StoreEnters(a, e) == a.valid /\ a.rob_entry = e /\ Unmarked(a)

\* What is in a slot without a store, or enters there, is not marked.
LEMMA UnmarkedIs ==
    ASSUME OrderInv, NEW d, NEW accepted \in {{}, ToWrite}, NEW k,
           NEW s \in StoreSlots, ~store_queue[s].valid,
           NEW a, a = Moved(n_store(d, s, accepted), k)
    PROVE  Unmarked(a)
<1>1. Unmarked(store_queue[s]) /\ Stores(rob, store_queue) /\ Registers(rob)
    BY DEF OrderInv, Claimed, Blank, WriteInv, LsqInv
<1>2. Issued("store", s, N) = {}
    BY DEF OrderInv, Claimed, StoresIssued, Issued
<1>3. Addressed(d, s) = Entering(d, s)
    BY <1>2 DEF Addressed, AddressedBy
<1>4. s \notin accepted
    BY <1>1, ToWriteIs DEF Unmarked
<1>5. PICK c : c = Entering(d, s)
    OBVIOUS
<1>6. Unmarked(c) /\ DOMAIN c = StoreFields
    <2>1. CASE c = store_queue[s]
        BY <1>1, <2>1 DEF Stores
    <2>2. ASSUME NEW e, c = NewStore(s, e)
          PROVE  Unmarked(c) /\ DOMAIN c = StoreFields
        BY <1>1, <2>2, NewStoreFields DEF Unmarked
    <2> QED BY <1>5, <2>1, <2>2, EnteringIs
<1>7. PICK mem \in BOOLEAN :
        mem = (c.ready_for_mem \/ /\ \E i \in Ways : stores_ready[i] = s
                                  /\ store_queue[s].has_address)
    OBVIOUS
<1>8. PICK ready \in BOOLEAN : ready = (c.out_ready \/ s \in accepted)
    OBVIOUS
<1>9. ~mem /\ ~ready
    BY <1>1, <1>4, <1>6, <1>7, <1>8 DEF Unmarked
<1>10. n_store(d, s, accepted) = Readies(c, mem, ready)
    <2>1. n_store(d, s, accepted) =
            [c EXCEPT !.ready_for_mem = (c.ready_for_mem \/
                            /\ \E i \in Ways : stores_ready[i] = s
                            /\ store_queue[s].has_address),
                      !.out_ready = (c.out_ready \/ s \in accepted)]
        BY <1>3, <1>5, Zenon DEF n_store
    <2> QED BY <2>1, <1>7, <1>8, Zenon DEF Readies
<1>11. a = Moved(Readies(c, mem, ready), k)
    BY <1>10, Zenon
<1>12. a.ready_for_mem = mem /\ a.out_ready = ready /\ a.has_address = c.has_address
    <2>1. PICK e : e = Readies(c, mem, ready)
        OBVIOUS
    <2>2. /\ DOMAIN e = StoreFields /\ e.ready_for_mem = mem /\ e.out_ready = ready
          /\ e.has_address = c.has_address
        BY <1>6, <2>1 DEF Readies, StoreFields
    <2>3. PICK x : x = IF e.valid THEN e.rob_entry - k ELSE e.rob_entry
        OBVIOUS
    <2>4. a = [e EXCEPT !.rob_entry = x]
        BY <1>11, <2>1, <2>3, Zenon DEF Moved
    <2> QED BY <2>2, <2>4 DEF StoreFields
<1> QED BY <1>6, <1>9, <1>12 DEF Unmarked

\* Where a slot of the store queue stands after the edge.
LEMMA StoreTable ==
    ASSUME OrderInv, NEW d, NEW gnt, NEW accepted, NEW hits, NEW give, NEW sel,
           NEW issue, NEW others, NEW k,
           LoadEdge(d, gnt, accepted, hits, give, sel, issue, others, k),
           NEW s \in StoreSlots
    PROVE  \/ /\ s \in Leaving /\ store_queue[s].valid
              /\ ~store_queue'[s].valid /\ Unmarked(store_queue'[s])
           \/ /\ s \notin Leaving /\ ~store_queue[s].valid
              /\ \E i \in Of(d, "store") :
                    StoreSlot(d, i) = s /\ StoreEnters(store_queue'[s], Len(rob) + i - k)
           \/ /\ s \notin Leaving /\ store_queue[s].valid
              /\ \A i \in Of(d, "store") : StoreSlot(d, i) # s
              /\ StoreStays(s, store_queue'[s], accepted, k)
              /\ StoreGoesOn(d, s, store_queue'[s])
           \/ /\ s \notin Leaving /\ ~store_queue[s].valid
              /\ ~store_queue'[s].valid /\ Unmarked(store_queue'[s])
              /\ \A i \in Of(d, "store") : StoreSlot(d, i) # s
<1>0. /\ LsqInv /\ Buffer(rob) /\ Stores(rob, store_queue) /\ Registers(rob) /\ Group(d)
      /\ accepted \in {{}, ToWrite} /\ k \in Nat /\ Len(rob) \in Nat
    <2>1. LsqInv
        BY DEF OrderInv, WriteInv
    <2>2. Buffer(rob) /\ Stores(rob, store_queue) /\ Registers(rob)
        BY <2>1 DEF LsqInv
    <2>3. Len(rob) \in Nat
        BY <2>2 DEF Buffer
    <2>4. Group(d) /\ accepted \in {{}, ToWrite} /\ k \in 0..Len(rob)
        BY DEF LoadEdge, Edge
    <2>5. k \in Nat
        BY <2>3, <2>4
    <2> QED BY <2>1, <2>2, <2>3, <2>4, <2>5
<1>1. store_queue'[s] = n_store_queue(d, accepted, k)[s]
    BY DEF LoadEdge, Edge
<1>2. store_queue'[s] = IF s \in Leaving THEN NoStore ELSE Moved(n_store(d, s, accepted), k)
    BY <1>1 DEF n_store_queue
<1>3. CASE s \in Leaving
    <2>1. store_queue[s].valid
        BY <1>0, <1>3, LeavingIs
    <2>2. ~NoStore.valid /\ Unmarked(NoStore)
        BY NoStoreFields DEF Unmarked
    <2> QED BY <1>2, <1>3, <2>1, <2>2
<1>4. CASE s \notin Leaving /\ store_queue[s].valid
    <2>1. \A i \in Of(d, "store") : StoreSlot(d, i) # s
        BY <1>0, <1>4, FreshSlots
    <2>2. PICK a : a = store_queue'[s]
        OBVIOUS
    <2>3. a = n_store_queue(d, accepted, k)[s] /\ a = Moved(n_store(d, s, accepted), k)
        BY <1>1, <1>2, <1>4, <2>2
    <2>4. StoreStays(s, a, accepted, k)
        BY <1>0, <1>4, <2>1, <2>3, StoreAfter
    <2>5. StoreGoesOn(d, s, a)
        <3>1. PICK b : b = Entering(d, s)
            OBVIOUS
        <3>2. PICK c : c = Addressed(d, s)
            OBVIOUS
        <3>3. /\ a.at = c.at /\ a.size = c.size /\ a.has_address = c.has_address
              /\ a.value = c.value
              /\ a.ready_for_mem => b.ready_for_mem \/ store_queue[s].has_address
            BY <1>0, <2>3, <3>1, <3>2, MarkedFields
        <3>4. b = store_queue[s]
            BY <1>0, <1>4, <3>1, EnteringKept
        <3> QED BY <3>2, <3>3, <3>4 DEF StoreGoesOn
    <2> QED BY <1>4, <2>1, <2>2, <2>4, <2>5
<1>5. CASE s \notin Leaving /\ ~store_queue[s].valid
    <2>1. PICK a : a = store_queue'[s]
        OBVIOUS
    <2>2. a = Moved(n_store(d, s, accepted), k)
        BY <1>2, <1>5, <2>1
    <2>3. Unmarked(a)
        BY <1>0, <1>5, <2>2, UnmarkedIs
    <2>4. a = n_store_queue(d, accepted, k)[s]
        BY <1>1, <2>1
    <2>5. \/ \E i \in Of(d, "store") :
                StoreSlot(d, i) = s /\ StoreArrives(a, Len(rob) + i - k)
          \/ (\A i \in Of(d, "store") : StoreSlot(d, i) # s) /\ NotAStore(a)
        BY <1>0, <1>5, <2>4, StoreAfter DEF StoreStays
    <2> QED BY <1>5, <2>1, <2>3, <2>5 DEF StoreArrives, StoreEnters, NotAStore
<1> QED BY <1>3, <1>4, <1>5

LEMMA StoreNew ==
    ASSUME OrderInv, NEW d, NEW gnt, NEW accepted, NEW hits, NEW give, NEW sel,
           NEW issue, NEW others, NEW k,
           LoadEdge(d, gnt, accepted, hits, give, sel, issue, others, k),
           NEW x \in Of(d, "store"), NEW s, s = StoreSlot(d, x)
    PROVE  s \in StoreSlots /\ StoreEnters(store_queue'[s], Len(rob) + x - k)
<1>1. Group(d) /\ str_tail \in StoreSlots
    BY DEF LoadEdge, Edge, OrderInv, WriteInv, LsqInv, Registers
<1>2. s \in StoreSlots /\ ~store_queue[s].valid
    BY <1>1, FreshSlots
<1>3. \A y \in Of(d, "store") : StoreSlot(d, y) = s => y = x
    BY <1>1, SlotsOfGroup
<1>4. \E y \in Of(d, "store") :
            StoreSlot(d, y) = s /\ StoreEnters(store_queue'[s], Len(rob) + y - k)
    BY <1>2, StoreTable
<1> QED BY <1>2, <1>3, <1>4

LEMMA StoreStill ==
    ASSUME OrderInv, NEW d, NEW gnt, NEW accepted, NEW hits, NEW give, NEW sel,
           NEW issue, NEW others, NEW k,
           LoadEdge(d, gnt, accepted, hits, give, sel, issue, others, k),
           NEW s \in StoreSlots, store_queue[s].valid, s \notin Leaving
    PROVE  /\ Has(store_queue', s, store_queue[s].rob_entry - k)
           /\ StoreStays(s, store_queue'[s], accepted, k)
           /\ StoreGoesOn(d, s, store_queue'[s])
<1>1. StoreStays(s, store_queue'[s], accepted, k) /\ StoreGoesOn(d, s, store_queue'[s])
    BY StoreTable
<1> QED BY <1>1 DEF StoreStays, Has

\* What a slot of the store queue holds after the edge was in it, or enters.
LEMMA StoreWas ==
    ASSUME OrderInv, NEW d, NEW gnt, NEW accepted, NEW hits, NEW give, NEW sel,
           NEW issue, NEW others, NEW k,
           LoadEdge(d, gnt, accepted, hits, give, sel, issue, others, k),
           NEW s \in StoreSlots, store_queue'[s].valid
    PROVE  \/ \E x \in Of(d, "store") :
                /\ StoreSlot(d, x) = s /\ StoreEnters(store_queue'[s], Len(rob) + x - k)
                /\ ~store_queue[s].valid
           \/ /\ store_queue[s].valid /\ s \notin Leaving
              /\ store_queue'[s].rob_entry = store_queue[s].rob_entry - k
              /\ StoreStays(s, store_queue'[s], accepted, k)
              /\ StoreGoesOn(d, s, store_queue'[s])
<1>1. StoreStays(s, store_queue'[s], accepted, k) =>
            store_queue'[s].rob_entry = store_queue[s].rob_entry - k
    BY DEF StoreStays
<1> QED BY <1>1, StoreTable

-----------------------------------------------------------------------------
(* Stores are written before they leave                                    *)

\* What is still in flight is what it was, but for the store just accepted.
LEMMA StillIs ==
    ASSUME LsqInv, NEW d, NEW gnt, NEW accepted, NEW hits, NEW give, NEW sel,
           NEW issue, NEW others, NEW k,
           Edge(d, gnt, accepted, hits, give, sel, issue, others, k),
           NEW kind \in {"load", "store"}, NEW e, Waits(rob, e, kind),
           \A i \in sel : out[i].rob_entry # e
    PROVE  /\ rob'[e - k].op = rob[e].op /\ rob'[e - k].lsq_index = rob[e].lsq_index
           /\ rob'[e - k].written <=>
                (rob[e].written \/ \E s \in accepted : store_queue[s].rob_entry = e)
<1>1. e - k \in 1..(Len(rob) - k)
    BY StillWaits
<1>2. (e - k) + k = e
    BY DEF Waits, Edge, LsqInv, Buffer
<1>3. Shifts(rob', d, gnt, k, Executes(sel, others), accepted)
    BY DEF Edge
<1>4. PICK i : i = e - k
    OBVIOUS
<1>5. /\ rob'[i].op = rob[i + k].op /\ rob'[i].lsq_index = rob[i + k].lsq_index
      /\ rob'[i].written <=> \/ rob[i + k].written
                             \/ \E s \in accepted : store_queue[s].rob_entry = i + k
    BY <1>1, <1>3, <1>4 DEF Shifts
<1>6. i + k = e
    BY <1>2, <1>4
<1> QED BY <1>4, <1>5, <1>6

LEMMA GroupIs ==
    ASSUME LsqInv, NEW d, NEW gnt, NEW accepted, NEW hits, NEW give, NEW sel,
           NEW issue, NEW others, NEW k,
           Edge(d, gnt, accepted, hits, give, sel, issue, others, k),
           NEW i \in Of(d, "store")
    PROVE  /\ rob'[Len(rob) + i - k].lsq_index = StoreSlot(d, i)
           /\ ~rob'[Len(rob) + i - k].written
<1>1. /\ i \in 1..Len(d) /\ d[i].kind = "store"
      /\ Len(rob) + i - k = Len(rob) - k + i
    BY DEF Of, Edge, Group, LsqInv, Buffer
<1>2. Shifts(rob', d, gnt, k, Executes(sel, others), accepted)
    BY DEF Edge
<1>3. PICK e : e = Len(rob) - k + i
    OBVIOUS
<1>4. rob'[e].lsq_index = n_lsq_idxs(d, gnt, i) /\ ~rob'[e].written
    BY <1>1, <1>2, <1>3 DEF Shifts
<1> QED BY <1>1, <1>3, <1>4 DEF n_lsq_idxs

LEMMA WrittenAfter ==
    ASSUME Inside, OrderInv,
           NEW d, NEW gnt, NEW accepted, NEW hits, NEW give, NEW sel,
           NEW issue, NEW others, NEW k,
           LoadEdge(d, gnt, accepted, hits, give, sel, issue, others, k)
    PROVE  Written(rob', store_queue', out')
<1> /\ LsqInv /\ WriteInv /\ StoresInProgramOrder /\ NoReuse /\ QueueInv
    /\ Edge(d, gnt, accepted, hits, give, sel, issue, others, k)
    BY DEF OrderInv, WriteInv, LoadEdge
<1> Near(load_queue) /\ Written(rob, store_queue, out)
    BY DEF WriteInv
<1>0. \A s \in accepted : s \in StoreSlots /\ store_queue[s].valid
    BY ToWriteIs DEF Edge, OrderInv, Claimed, Blank, Unmarked
<1>1. ASSUME NEW s \in StoreSlots, store_queue'[s].valid
      PROVE  rob'[store_queue'[s].rob_entry].written <=> store_queue'[s].out_ready
    <2>2. ASSUME NEW i \in Of(d, "store"), StoreEnters(store_queue'[s], Len(rob) + i - k)
          PROVE  rob'[store_queue'[s].rob_entry].written <=> store_queue'[s].out_ready
        <3>1. ~rob'[Len(rob) + i - k].written
            BY GroupIs
        <3> QED BY <2>2, <3>1 DEF StoreEnters, Unmarked
    <2>3. ASSUME StoreStays(s, store_queue'[s], accepted, k)
          PROVE  rob'[store_queue'[s].rob_entry].written <=> store_queue'[s].out_ready
        <3>1. PICK e : e = store_queue[s].rob_entry
            OBVIOUS
        <3>2. /\ store_queue[s].valid /\ store_queue'[s].rob_entry = e - k
              /\ store_queue'[s].out_ready <=> (store_queue[s].out_ready \/ s \in accepted)
            BY <2>3, <3>1, NoException DEF StoreStays
        <3>3. Waits(rob, e, "store")
            BY <3>1, <3>2 DEF LsqInv, Stores
        <3>4. \A i \in sel : out[i].rob_entry # e
            BY <3>1, <3>2 DEF LsqInv, Apart, Edge
        <3>5. rob'[e - k].written <=>
                (rob[e].written \/ \E t \in accepted : store_queue[t].rob_entry = e)
            BY <3>3, <3>4, StillIs
        <3>6. (\E t \in accepted : store_queue[t].rob_entry = e) <=> s \in accepted
            BY <1>0, <3>1, <3>2 DEF LsqInv, Apart
        <3>7. rob[e].written <=> store_queue[s].out_ready
            BY <3>1, <3>2 DEF Written
        <3> QED BY <3>2, <3>5, <3>6, <3>7
    <2> QED BY <1>1, <2>2, <2>3, StoreWas
<1>2. ASSUME NEW i \in Ways, out'[i].valid, rob'[out'[i].rob_entry].op.kind = "store"
      PROVE  rob'[out'[i].rob_entry].written
    <2>1. out'[i] # NoOut
        BY <1>2 DEF NoOut
    <2>2. ASSUME NEW kind \in {"load", "store"}, NEW e, Waits(rob, e, kind),
                 \A j \in sel : out[j].rob_entry # e, Holds(out'[i], e - k),
                 kind = "store" => rob[e].written
          PROVE  rob'[out'[i].rob_entry].written
        <3>1. /\ rob'[e - k].op = rob[e].op
              /\ rob[e].written => rob'[e - k].written
            BY <2>2, StillIs
        <3> QED BY <1>2, <2>2, <3>1 DEF Holds, Waits
    <2>3. CASE i \notin sel /\ out[i].valid /\ Holds(out'[i], out[i].rob_entry - k)
        <3>1. PICK e : e = out[i].rob_entry
            OBVIOUS
        <3>2. PICK kind \in {"load", "store"} : Waits(rob, e, kind)
            BY <2>3, <3>1 DEF LsqInv, Results
        <3>3. \A j \in sel : out[j].rob_entry # e
            BY <2>3, <3>1 DEF LsqInv, Apart, Edge
        <3>4. kind = "store" => rob[e].written
            BY <2>3, <3>1, <3>2 DEF Written, Waits
        <3> QED BY <2>2, <2>3, <3>1, <3>2, <3>3, <3>4
    <2>4. ASSUME NEW s \in Leaving, Holds(out'[i], store_queue[s].rob_entry - k)
          PROVE  rob'[out'[i].rob_entry].written
        <3>1. PICK e : e = store_queue[s].rob_entry
            OBVIOUS
        <3>2. s \in StoreSlots /\ store_queue[s].valid /\ store_queue[s].out_ready
            BY LeavingIs
        <3>3. Waits(rob, e, "store") /\ rob[e].written
            BY <3>1, <3>2 DEF LsqInv, Stores, Written
        <3>4. \A j \in sel : out[j].rob_entry # e
            BY <3>1, <3>2 DEF LsqInv, Apart, Edge
        <3> QED BY <2>2, <2>4, <3>1, <3>3, <3>4
    <2>5. CASE i \in DOMAIN give /\ Holds(out'[i], load_queue[give[i]].rob_entry - k)
        <3>1. PICK l : l = give[i]
            OBVIOUS
        <3>2. l \in LoadSlots /\ load_queue[l].valid
            BY <2>5, <3>1 DEF Edge, Given
        <3>3. PICK e : e = load_queue[l].rob_entry
            OBVIOUS
        <3>4. Waits(rob, e, "load")
            BY <3>2, <3>3 DEF LsqInv, Loads
        <3>5. \A j \in sel : out[j].rob_entry # e
            BY <3>2, <3>3 DEF LsqInv, Apart, Edge
        <3> QED BY <2>2, <2>5, <3>1, <3>3, <3>4, <3>5
    <2> QED BY <2>1, <2>3, <2>4, <2>5, OutOrigin
<1> QED BY <1>1, <1>2 DEF Written

LEMMA NamedAfter ==
    ASSUME OrderInv,
           NEW d, NEW gnt, NEW accepted, NEW hits, NEW give, NEW sel,
           NEW issue, NEW others, NEW k,
           LoadEdge(d, gnt, accepted, hits, give, sel, issue, others, k)
    PROVE  Named(rob', store_queue')
<1> /\ LsqInv /\ WriteInv /\ StoresInProgramOrder /\ NoReuse /\ QueueInv
    /\ Edge(d, gnt, accepted, hits, give, sel, issue, others, k)
    BY DEF OrderInv, WriteInv, LoadEdge
<1> Named(rob, store_queue)
    BY DEF WriteInv
<1> SUFFICES ASSUME NEW s \in StoreSlots, store_queue'[s].valid
             PROVE  rob'[store_queue'[s].rob_entry].lsq_index = s
    BY DEF Named
<1>1. ASSUME NEW i \in Of(d, "store"), StoreSlot(d, i) = s,
             StoreEnters(store_queue'[s], Len(rob) + i - k)
      PROVE  rob'[store_queue'[s].rob_entry].lsq_index = s
    <2>1. rob'[Len(rob) + i - k].lsq_index = StoreSlot(d, i)
        BY GroupIs
    <2> QED BY <1>1, <2>1 DEF StoreEnters
<1>2. ASSUME StoreStays(s, store_queue'[s], accepted, k)
      PROVE  rob'[store_queue'[s].rob_entry].lsq_index = s
    <2>1. PICK e : e = store_queue[s].rob_entry
        OBVIOUS
    <2>2. store_queue[s].valid /\ store_queue'[s].rob_entry = e - k
        BY <1>2, <2>1 DEF StoreStays
    <2>3. Waits(rob, e, "store") /\ rob[e].lsq_index = s
        BY <2>1, <2>2 DEF LsqInv, Stores, Named
    <2>4. \A i \in sel : out[i].rob_entry # e
        BY <2>1, <2>2 DEF LsqInv, Apart, Edge
    <2>5. rob'[e - k].lsq_index = rob[e].lsq_index
        BY <2>3, <2>4, StillIs
    <2> QED BY <2>2, <2>3, <2>5
<1> QED BY <1>1, <1>2, StoreWas

-----------------------------------------------------------------------------
(* Stores are written in program order                                     *)

\* Nothing before way w of the reorder buffer holds a store back.
Free(w) ==
    \A i \in 1..w : /\ rob[i].op.kind \in {"branch", "load"} => rob[i].executed
                    /\ rob[i].op.kind # "mispredicted"

\* A released slot that holds a store holds that of the way that released it,
\* and the stores before that way are released too.
LEMMA Released ==
    ASSUME WriteInv, NoReuse, NEW w \in Ways, NEW s \in StoreSlots,
           stores_ready[w] = s, store_queue[s].valid
    PROVE  /\ w \in 1..Len(rob) /\ store_queue[s].rob_entry = w /\ Free(w)
           /\ \A i \in 1..w : rob[i].op.kind = "store" =>
                /\ i \in Ways /\ stores_ready[i] = rob[i].lsq_index
                /\ rob[i].lsq_index \in StoreSlots
                /\ store_queue[rob[i].lsq_index].valid =>
                        store_queue[rob[i].lsq_index].rob_entry = i
<1> DEFINE blocks(e) == \/ e.op.kind \in {"branch", "load"} /\ ~e.executed
                        \/ e.op.kind = "mispredicted"
           released(i) == /\ i <= Len(rob) /\ \A j \in 1..i : ~blocks(rob[j])
                          /\ rob[i].op.kind = "store"
<1>0. Buffer(rob) /\ Len(rob) \in Nat /\ DOMAIN rob = 1..Len(rob)
    BY DEF WriteInv, LsqInv, Buffer
<1>1. \A i \in Ways : stores_ready[i] = IF released(i) THEN rob[i].lsq_index ELSE NoSlot
    BY DEF WriteInv, LsqInv, Registers, n_stores_ready
<1>2. released(w) /\ rob[w].lsq_index = s
    BY <1>1, LsqConstants
<1>3. w \in 1..Len(rob) /\ \A i \in 1..w : i \in Ways /\ i \in 1..Len(rob)
    BY <1>0, <1>2, LsqConstants
<1>4. \A i \in 1..w : ~blocks(rob[i]) /\ (rob[i].op.kind = "store" => released(i))
    <2> SUFFICES ASSUME NEW i \in 1..w
                 PROVE  ~blocks(rob[i]) /\ (rob[i].op.kind = "store" => released(i))
        OBVIOUS
    <2>1. i <= Len(rob) /\ \A j \in 1..i : j \in 1..w
        BY <1>0, <1>3
    <2> QED BY <1>2, <2>1
<1>5. Free(w)
    BY <1>4 DEF Free
<1>6. ASSUME NEW i \in 1..Len(rob), rob[i].op.kind = "store",
             store_queue[rob[i].lsq_index].valid
      PROVE  store_queue[rob[i].lsq_index].rob_entry = i
    <2>1. rob[i].lsq_index \in StoreSlots
        BY <1>0, <1>6 DEF Buffer
    <2>2. PICK e : e = store_queue[rob[i].lsq_index].rob_entry
        OBVIOUS
    <2>3. /\ e \in 1..Len(rob) /\ rob[e].op.kind = "store"
          /\ rob[e].lsq_index = rob[i].lsq_index
        BY <1>6, <2>1, <2>2 DEF WriteInv, LsqInv, Stores, Named, Waits
    <2>4. e = i
        BY <1>0, <1>6, <2>3 DEF NoReuse
    <2> QED BY <2>2, <2>4
<1>7. rob[w].op.kind = "store"
    BY <1>2
<1>8. \A i \in 1..w : rob[i].op.kind = "store" =>
            stores_ready[i] = rob[i].lsq_index /\ rob[i].lsq_index \in StoreSlots
    BY <1>0, <1>1, <1>3, <1>4 DEF Buffer
<1> HIDE DEF released, blocks
<1> QED BY <1>2, <1>3, <1>5, <1>6, <1>7, <1>8

LEMMA InOrderAfter ==
    ASSUME OrderInv,
           NEW d, NEW gnt, NEW accepted, NEW hits, NEW give, NEW sel,
           NEW issue, NEW others, NEW k,
           LoadEdge(d, gnt, accepted, hits, give, sel, issue, others, k)
    PROVE  StoresInProgramOrder'
<1> /\ LsqInv /\ WriteInv /\ StoresInProgramOrder /\ NoReuse /\ QueueInv
    /\ Edge(d, gnt, accepted, hits, give, sel, issue, others, k)
    BY DEF OrderInv, WriteInv, LoadEdge
<1> DEFINE Behind(r, i) == /\ r[i].op.kind = "store" => r[i].written
                           /\ r[i].op.kind \in {"load", "branch"} => r[i].executed
                           /\ r[i].op.kind # "mispredicted"
<1>0. /\ Len(rob) \in Nat /\ Len(d) \in Nat /\ k \in 0..Len(rob)
      /\ DOMAIN rob = 1..Len(rob)
    BY DEF WriteInv, LsqInv, Buffer, Edge, Group
<1>1. Shifts(rob', d, gnt, k, Executes(sel, others), accepted)
    BY DEF Edge
<1>2. DOMAIN rob' = 1..(Len(rob) - k + Len(d))
    BY <1>1 DEF Shifts
<1>3. ASSUME NEW q \in 1..Len(rob), NEW p \in 1..(q - 1),
             \/ rob[q].written \/ \E s \in accepted : store_queue[s].rob_entry = q
      PROVE  Behind(rob, p)
    <2>1. CASE rob[q].written
        BY <1>0, <2>1 DEF StoresInProgramOrder
    <2>2. ASSUME NEW s \in accepted, store_queue[s].rob_entry = q
          PROVE  Behind(rob, p)
        <3>1. s \in ToWrite /\ s \in StoreSlots /\ store_queue[s].valid
            BY ToWriteIs DEF Edge, OrderInv, Claimed, Blank, Unmarked
        <3>2. PICK w \in Ways :
                /\ stores_ready[w] = s
                /\ \A v \in Ways : v < w =>
                        stores_ready[v] \notin {t \in StoreSlots : ~store_queue[t].out_ready}
            BY <3>1, FirstIs DEF ToWrite
        <3>3. w = q /\ w \in 1..Len(rob) /\ Free(w)
            BY <2>2, <3>1, <3>2, Released
        <3>4. p \in 1..w /\ p < w
            BY <3>3
        <3>5. ASSUME rob[p].op.kind = "store"
              PROVE  rob[p].written
            <4>1. PICK t : t = rob[p].lsq_index
                OBVIOUS
            <4>2. /\ p \in Ways /\ stores_ready[p] = t /\ t \in StoreSlots
                  /\ store_queue[t].valid => store_queue[t].rob_entry = p
                BY <3>1, <3>2, <3>4, <3>5, <4>1, Released
            <4>3. store_queue[t].out_ready
                BY <3>2, <3>4, <4>2
            <4>4. store_queue[t].valid
                BY <4>2, <4>3 DEF OrderInv, Claimed, Blank, Unmarked
            <4> QED BY <4>2, <4>3, <4>4 DEF WriteInv, Written
        <3> QED BY <3>3, <3>4, <3>5 DEF Free
    <2> QED BY <1>3, <2>1, <2>2
<1>4. ASSUME NEW j \in DOMAIN rob', rob'[j].written, NEW i \in 1..(j - 1)
      PROVE  Behind(rob', i)
    <2>1. j \in 1..(Len(rob) - k)
        <3> SUFFICES ASSUME j \notin 1..(Len(rob) - k) PROVE FALSE
            OBVIOUS
        <3>1. PICK x : x = j - (Len(rob) - k)
            OBVIOUS
        <3>2. x \in 1..Len(d) /\ j = Len(rob) - k + x
            BY <1>0, <1>2, <3>1
        <3>3. ~rob'[Len(rob) - k + x].written
            BY <1>1, <3>2 DEF Shifts
        <3> QED BY <1>4, <3>2, <3>3
    <2>2. i \in 1..(Len(rob) - k)
        BY <1>0, <2>1
    <2>3. PICK q \in 1..Len(rob) : q = j + k
        BY <1>0, <2>1
    <2>4. PICK p \in 1..(q - 1) : p = i + k
        <3>1. i + k \in 1..(q - 1)
            BY <1>0, <2>1, <2>2, <2>3
        <3> QED BY <3>1
    <2>5. rob[q].written \/ \E s \in accepted : store_queue[s].rob_entry = q
        BY <1>1, <1>4, <2>1, <2>3 DEF Shifts
    <2>6. Behind(rob, p)
        BY <1>3, <2>5
    <2>7. /\ rob'[i].op = rob[p].op
          /\ rob[p].executed => rob'[i].executed
          /\ rob[p].written => rob'[i].written
        BY <1>1, <2>2, <2>4 DEF Shifts
    <2> QED BY <2>6, <2>7
<1> HIDE DEF Behind
<1>5. \A j \in DOMAIN rob' : rob'[j].written => \A i \in 1..(j - 1) : Behind(rob', i)
    BY <1>4
<1> QED BY <1>5 DEF StoresInProgramOrder, Behind

\* Only the oldest store leaves: one that is released and ready has been
\* written, so all before it have been.
LEMMA LeavingHead ==
    ASSUME WriteInv, StoresInProgramOrder, NoReuse, QueueInv, NEW s \in Leaving
    PROVE  s = str_head
<1> SUFFICES ASSUME s # str_head PROVE FALSE
    OBVIOUS
<1>1. /\ s \in ToLeave /\ s \in StoreSlots
      /\ store_queue[s].valid /\ store_queue[s].out_ready
    BY LeavingIs
<1>2. PICK w \in Ways :
        /\ stores_ready[w] = s
        /\ \A v \in Ways : v < w =>
                stores_ready[v] \notin {t \in StoreSlots : store_queue[t].out_ready}
    BY <1>1, FirstIs DEF ToLeave
<1>3. PICK c \in 0..STORE_QUEUE_SIZE : Holding(store_queue, str_head, str_tail, c)
    BY DEF QueueInv
<1>4. str_head \in StoreSlots
    BY DEF WriteInv, LsqInv, Registers
<1>5. AgeFrom(str_head, str_head) = 0 /\ AgeFrom(str_head, s) > 0
    BY <1>1, <1>4, LsqConstants DEF AgeFrom
<1>6. store_queue[str_head].valid
    <2>1. AgeFrom(str_head, s) < c
        BY <1>1, <1>3 DEF Holding
    <2>2. 0 < c
        BY <1>1, <1>4, <1>5, <2>1, AgeOfSlot, LsqConstants
    <2> QED BY <1>3, <1>4, <1>5, <2>2 DEF Holding
<1>7. w \in 1..Len(rob) /\ store_queue[s].rob_entry = w
    BY <1>1, <1>2, Released
<1>8. PICK v : v = store_queue[str_head].rob_entry
    OBVIOUS
<1>9. v < w /\ v \in 1..Len(rob) /\ rob[v].op.kind = "store" /\ rob[v].lsq_index = str_head
    BY <1>1, <1>4, <1>5, <1>6, <1>7, <1>8
       DEF QueueInv, Ordered, WriteInv, LsqInv, Stores, Named, Waits
<1>10. v \in 1..w /\ v \in 1..(w - 1)
    BY <1>7, <1>9
<1>11. v \in Ways /\ stores_ready[v] = str_head
    BY <1>1, <1>2, <1>9, <1>10, Released
<1>12. ~store_queue[str_head].out_ready
    BY <1>2, <1>4, <1>9, <1>11
<1>13. rob[w].written /\ w \in DOMAIN rob
    BY <1>1, <1>7 DEF WriteInv, Written, LsqInv, Buffer
<1>14. rob[v].written
    BY <1>9, <1>10, <1>13 DEF StoresInProgramOrder
<1> QED BY <1>4, <1>6, <1>8, <1>12, <1>14 DEF WriteInv, Written

LEMMA QueueAfter ==
    ASSUME OrderInv,
           NEW d, NEW gnt, NEW accepted, NEW hits, NEW give, NEW sel,
           NEW issue, NEW others, NEW k,
           LoadEdge(d, gnt, accepted, hits, give, sel, issue, others, k)
    PROVE  QueueInv'
<1> /\ LsqInv /\ WriteInv /\ StoresInProgramOrder /\ NoReuse /\ QueueInv
    /\ Edge(d, gnt, accepted, hits, give, sel, issue, others, k)
    BY DEF OrderInv, WriteInv, LoadEdge
<1> DEFINE A(s) == AgeFrom(str_head, s)
           B(s) == AgeFrom(str_head', s)
           S == Of(d, "store")
<1>0. /\ LsqInv /\ str_head \in StoreSlots /\ str_tail \in StoreSlots
      /\ Group(d) /\ k \in Nat /\ Len(rob) \in Nat /\ S \subseteq 1..Len(d)
    BY DEF WriteInv, LsqInv, Registers, Edge, Buffer, Group, Of
<1>1. PICK c \in 0..STORE_QUEUE_SIZE : Holding(store_queue, str_head, str_tail, c)
    BY DEF QueueInv
<1>2. PICK g \in 0..Len(d) :
        /\ Cardinality(S) = g
        /\ \A i \in S : Rank(d, i) \in 0..(g - 1)
        /\ \A i, j \in S : i < j => Rank(d, i) < Rank(d, j)
        /\ \A a \in 0..(g - 1) : \E i \in S : Rank(d, i) = a
    BY <1>0, Ranks
<1>3. c \in Nat /\ g \in Nat /\ c + g <= STORE_QUEUE_SIZE
    <2>1. c + g <= STORE_QUEUE_SIZE
        BY <1>0, <1>1, <1>2, RoomForStores
    <2> QED BY <1>0, <1>1, <1>2, <2>1, LsqConstants DEF Group
<1>4. PICK v \in 0..1 : v = IF Leaving = {} THEN 0 ELSE 1
    OBVIOUS
<1>5. str_head' = Wrap(str_head + v)
    <2>1. str_head' = IF Leaving = {} THEN str_head ELSE Wrap(str_head + 1)
        BY DEF Edge
    <2>2. Wrap(str_head + 0) = str_head
        BY <1>0, LsqConstants DEF Wrap
    <2> QED BY <1>4, <2>1, <2>2
<1>6. \A s \in StoreSlots : /\ A(s) \in StoreSlots /\ A(s) \in Int
                            /\ Wrap(str_head + A(s)) = s
                            /\ (store_queue[s].valid <=> A(s) < c)
    BY <1>0, <1>1, AgeOfSlot, LsqConstants DEF Holding
<1>7. \A s \in StoreSlots : B(s) = IF A(s) >= v THEN A(s) - v ELSE A(s) - v + STORE_QUEUE_SIZE
    BY <1>0, <1>4, <1>5, HeadMoves
\* the slot that leaves has age 0, and the slots of the group come last
<1>8. \A s \in StoreSlots : s \in Leaving <=> A(s) = 0 /\ v = 1
    <2>1. \A s \in Leaving : s = str_head
        BY LeavingHead
    <2>2. \A s \in StoreSlots : A(s) = 0 <=> s = str_head
        BY <1>0, LsqConstants DEF AgeFrom
    <2> QED BY <1>4, <2>1, <2>2
<1>9. v = 1 => c > 0
    <2> SUFFICES ASSUME v = 1 PROVE c > 0
        OBVIOUS
    <2>1. PICK s \in Leaving : TRUE
        BY <1>4
    <2>2. s \in StoreSlots /\ store_queue[s].valid
        BY LeavingIs
    <2> QED BY <1>3, <1>6, <2>2, LsqConstants
<1>10. \A i \in S : /\ StoreSlot(d, i) \in StoreSlots /\ A(StoreSlot(d, i)) = c + Rank(d, i)
                    /\ Rank(d, i) \in Nat /\ Rank(d, i) < g
    <2> SUFFICES ASSUME NEW i \in S
                 PROVE  /\ StoreSlot(d, i) \in StoreSlots
                        /\ A(StoreSlot(d, i)) = c + Rank(d, i)
                        /\ Rank(d, i) \in Nat /\ Rank(d, i) < g
        OBVIOUS
    <2>1. Rank(d, i) \in Nat /\ Rank(d, i) < g
        BY <1>2, <1>3
    <2>2. c + Rank(d, i) \in StoreSlots /\ c + Rank(d, i) <= STORE_QUEUE_SIZE
        BY <1>3, <2>1, LsqConstants
    <2>3. StoreSlot(d, i) = Wrap(Wrap(str_head + c) + Rank(d, i))
        BY <1>1 DEF StoreSlot, Rank, Holding
    <2>4. StoreSlot(d, i) = Wrap(str_head + (c + Rank(d, i)))
        BY <1>0, <1>3, <2>1, <2>2, <2>3, WrapTwice
    <2> QED BY <1>0, <2>1, <2>2, <2>4, SlotOfAge
<1>11. ASSUME NEW s \in StoreSlots, c <= A(s), A(s) < c + g
       PROVE  \E i \in S : StoreSlot(d, i) = s
    <2>1. A(s) - c \in 0..(g - 1)
        BY <1>3, <1>6, <1>11
    <2>2. PICK i \in S : Rank(d, i) = A(s) - c
        BY <1>2, <2>1
    <2>3. A(StoreSlot(d, i)) = A(s) /\ StoreSlot(d, i) \in StoreSlots
        BY <1>3, <1>6, <1>10, <2>2
    <2>4. StoreSlot(d, i) = s
        BY <1>6, <2>3
    <2> QED BY <2>4
\* what becomes of a slot, by its age
<1>12. ASSUME NEW s \in StoreSlots
       PROVE  \/ A(s) = 0 /\ v = 1 /\ ~store_queue'[s].valid
              \/ /\ A(s) < c /\ ~(A(s) = 0 /\ v = 1) /\ store_queue'[s].valid
                 /\ store_queue'[s].rob_entry = store_queue[s].rob_entry - k
              \/ \E i \in S : /\ A(s) = c + Rank(d, i) /\ store_queue'[s].valid
                              /\ store_queue'[s].rob_entry = Len(rob) + i - k
              \/ A(s) >= c + g /\ ~store_queue'[s].valid
    <2>1. CASE s \in Leaving /\ ~store_queue'[s].valid
        BY <1>8, <2>1
    <2>2. ASSUME NEW i \in S, StoreSlot(d, i) = s,
                 StoreEnters(store_queue'[s], Len(rob) + i - k)
          PROVE  /\ A(s) = c + Rank(d, i) /\ store_queue'[s].valid
                 /\ store_queue'[s].rob_entry = Len(rob) + i - k
        BY <1>10, <2>2 DEF StoreEnters
    <2>3. CASE s \notin Leaving /\ StoreStays(s, store_queue'[s], accepted, k)
        <3>1. /\ store_queue[s].valid /\ store_queue'[s].valid
              /\ store_queue'[s].rob_entry = store_queue[s].rob_entry - k
            BY <2>3 DEF StoreStays
        <3> QED BY <1>6, <1>8, <2>3, <3>1
    <2>4. CASE /\ s \notin Leaving /\ \A i \in Of(d, "store") : StoreSlot(d, i) # s
               /\ ~store_queue[s].valid /\ ~store_queue'[s].valid
        <3>1. A(s) >= c + g
            BY <1>3, <1>6, <1>11, <2>4
        <3> QED BY <2>4, <3>1
    <2>5. \/ s \in Leaving /\ ~store_queue'[s].valid
          \/ \E i \in S : StoreSlot(d, i) = s /\ StoreEnters(store_queue'[s], Len(rob) + i - k)
          \/ s \notin Leaving /\ StoreStays(s, store_queue'[s], accepted, k)
          \/ /\ s \notin Leaving /\ \A i \in Of(d, "store") : StoreSlot(d, i) # s
             /\ ~store_queue[s].valid /\ ~store_queue'[s].valid
        BY StoreTable
    <2> QED BY <2>1, <2>2, <2>3, <2>4, <2>5
<1> HIDE DEF A, B
<1>13. ASSUME NEW s \in StoreSlots
       PROVE  store_queue'[s].valid <=> B(s) < c - v + g
    <2>1. \A i \in S : c + Rank(d, i) >= c /\ c + Rank(d, i) < c + g
        BY <1>3, <1>10
    <2>2. A(s) \in Int /\ 0 <= A(s) /\ A(s) < STORE_QUEUE_SIZE
        BY <1>6, LsqConstants
    <2>3. \/ A(s) = 0 /\ v = 1 /\ ~store_queue'[s].valid
          \/ ~(A(s) = 0 /\ v = 1) /\ A(s) < c + g /\ store_queue'[s].valid
          \/ A(s) >= c + g /\ ~store_queue'[s].valid
        BY <1>3, <1>9, <1>12, <2>1, <2>2
    <2> QED BY <1>3, <1>4, <1>7, <1>9, <2>2, <2>3, LsqConstants
<1>14. str_tail' = Wrap(str_head' + (c - v + g)) /\ c - v + g \in 0..STORE_QUEUE_SIZE
    <2>1. str_tail' = Wrap(Wrap(str_head + c) + g)
        BY <1>1, <1>2 DEF Edge, n_str_tail, Holding
    <2>2. str_tail' = Wrap(str_head + (c + g))
        BY <1>0, <1>3, <2>1, WrapTwice
    <2>3. c - v + g \in Nat /\ v + (c - v + g) = c + g
        BY <1>3, <1>4, <1>9
    <2>4. Wrap(Wrap(str_head + v) + (c - v + g)) = Wrap(str_head + (c + g))
        BY <1>0, <1>3, <1>4, <2>3, WrapTwice
    <2> QED BY <1>3, <1>4, <1>5, <2>2, <2>3, <2>4
<1>15. Holding(store_queue', str_head', str_tail', c - v + g)
    BY <1>13, <1>14 DEF Holding, B
<1>16. ASSUME NEW s \in StoreSlots, NEW t \in StoreSlots,
              store_queue'[s].valid, store_queue'[t].valid, B(s) < B(t)
       PROVE  store_queue'[s].rob_entry < store_queue'[t].rob_entry
    <2>1. A(s) < A(t)
        <3>1. ~(A(s) = 0 /\ v = 1) /\ ~(A(t) = 0 /\ v = 1)
            BY <1>3, <1>10, <1>12, <1>16, <1>9
        <3>2. A(s) \in Int /\ 0 <= A(s) /\ A(t) \in Int /\ 0 <= A(t)
            BY <1>6, LsqConstants
        <3> QED BY <1>4, <1>7, <1>16, <3>1, <3>2
    <2>2. ASSUME NEW q \in {s, t}, A(q) < c
          PROVE  store_queue[q].rob_entry \in 1..Len(rob)
        <3>1. q \in StoreSlots /\ store_queue[q].valid
            BY <1>6, <2>2
        <3> QED BY <1>0, <3>1 DEF LsqInv, Stores, Waits
    <2>3. CASE A(t) < c
        <3>1. A(s) < c
            BY <1>3, <1>6, <2>1, <2>3
        <3>2. store_queue[s].rob_entry < store_queue[t].rob_entry
            BY <1>6, <2>1, <2>3, <3>1 DEF QueueInv, Ordered, A
        <3>3. \A i \in S : c + Rank(d, i) >= c
            BY <1>3, <1>10
        <3>4. /\ store_queue'[s].rob_entry = store_queue[s].rob_entry - k
              /\ store_queue'[t].rob_entry = store_queue[t].rob_entry - k
            BY <1>3, <1>6, <1>12, <1>16, <2>3, <3>1, <3>3
        <3>5. /\ store_queue[s].rob_entry \in 1..Len(rob)
              /\ store_queue[t].rob_entry \in 1..Len(rob)
            BY <2>2, <2>3, <3>1
        <3>6. store_queue[s].rob_entry \in Int /\ store_queue[t].rob_entry \in Int
            BY <3>5
        <3>7. k \in Int
            BY <1>0
        <3> QED BY <3>2, <3>4, <3>6, <3>7
    <2>4. CASE ~(A(t) < c)
        <3>1. PICK j \in S : A(t) = c + Rank(d, j) /\ store_queue'[t].rob_entry = Len(rob) + j - k
            BY <1>3, <1>6, <1>9, <1>12, <1>16, <2>4
        <3>2. CASE A(s) < c
            <4>1. \A i \in S : c + Rank(d, i) >= c
                BY <1>3, <1>10
            <4>2. store_queue'[s].rob_entry = store_queue[s].rob_entry - k
                BY <1>3, <1>6, <1>12, <1>16, <3>2, <4>1
            <4>3. store_queue[s].rob_entry \in 1..Len(rob) /\ j >= 1 /\ j \in Int
                BY <1>0, <2>2, <3>2
            <4> QED BY <1>0, <3>1, <4>2, <4>3
        <3>3. CASE ~(A(s) < c)
            <4>1. PICK i \in S :
                    A(s) = c + Rank(d, i) /\ store_queue'[s].rob_entry = Len(rob) + i - k
                BY <1>3, <1>6, <1>9, <1>12, <1>16, <3>3
            <4>2. Rank(d, i) < Rank(d, j)
                BY <1>3, <1>10, <2>1, <3>1, <4>1
            <4>3. i \in Int /\ j \in Int
                BY <1>0
            <4>4. Rank(d, i) \in Int /\ Rank(d, j) \in Int
                BY <1>10
            <4>5. i < j
                <5>1. i # j
                    BY <4>2, <4>4
                <5>2. ~(j < i)
                    BY <1>2, <4>2, <4>4
                <5> QED BY <4>3, <5>1, <5>2
            <4> QED BY <1>0, <3>1, <4>1, <4>3, <4>5
        <3> QED BY <3>2, <3>3
    <2> QED BY <2>3, <2>4
<1>17. Ordered(store_queue', str_head')
    BY <1>16 DEF Ordered, B
<1> QED BY <1>14, <1>15, <1>17 DEF QueueInv

-----------------------------------------------------------------------------
(* Each slot is about the one store that has it                            *)

\* What has not been issued is in its slot without an address after the edge.
LEMMA UnissuedStore ==
    ASSUME OrderInv, NEW d, NEW gnt, NEW accepted, NEW hits, NEW give, NEW sel,
           NEW issue, NEW others, NEW k,
           LoadEdge(d, gnt, accepted, hits, give, sel, issue, others, k),
           NEW i, Store(rob, i), ~rob[i].issued
    PROVE  /\ k < i
           /\ \E s \in StoreSlots : /\ Has(store_queue', s, i - k) /\ rob[i].lsq_index = s
                                    /\ ~store_queue'[s].has_address
<1>0. LsqInv /\ Named(rob, store_queue) /\ Group(d)
    BY DEF OrderInv, WriteInv, LoadEdge, Edge
<1>1. PICK s \in StoreSlots : Has(store_queue, s, i) /\ ~store_queue[s].has_address
    BY DEF OrderInv, Claimed, StoresUnissued, Store
<1>2. store_queue[s].valid /\ i = store_queue[s].rob_entry /\ rob[i].lsq_index = s
    BY <1>0, <1>1 DEF Has, Named
<1>3. k < i
    BY <1>0, <1>2, StoreIn
<1>4. Issued("store", s, N) = {}
    BY <1>2 DEF Issued, OrderInv, Claimed, StoresIssued
<1>5. Addressed(d, s) = store_queue[s]
    BY <1>0, <1>2, <1>4, EnteringKept DEF Addressed, AddressedBy
<1>6. ~store_queue[s].out_ready
    BY <1>1, <1>2 DEF OrderInv, Claimed, StoresLocated
<1>7. s \notin Leaving
    BY <1>6, LeavingIs
<1>8. Has(store_queue', s, i - k) /\ StoreGoesOn(d, s, store_queue'[s])
    BY <1>2, <1>7, StoreStill
<1>9. store_queue'[s].has_address = store_queue[s].has_address
    BY <1>5, <1>8 DEF StoreGoesOn
<1> QED BY <1>1, <1>2, <1>3, <1>8, <1>9

\* An address that is known, or comes at the edge, is that of the instruction.
LEMMA AddressedRight ==
    ASSUME Inside, OrderInv, NEW d, Group(d), NEW s \in StoreSlots,
           store_queue[s].valid, NEW w, AddressedBy(d, s, w).has_address
    PROVE  /\ SameAs(AddressedBy(d, s, w), rob[store_queue[s].rob_entry].op)
           /\ AddressedBy(d, s, w).value = rob[store_queue[s].rob_entry].op.value
<1>1. PICK a : a = AddressedBy(d, s, w)
    OBVIOUS
<1>2. CASE a = store_queue[s]
    BY <1>1, <1>2 DEF OrderInv, Claimed, StoresLocated
<1>3. ASSUME NEW v \in Issued("store", s, w),
             a.at = cur_instr[v].at, a.size = cur_instr[v].size,
             a.value = cur_instr[v].value
      PROVE  /\ SameAs(a, rob[store_queue[s].rob_entry].op)
             /\ a.value = rob[store_queue[s].rob_entry].op.value
    <2>1. v \in DOMAIN cur_instr /\ cur_instr[v].kind = "store" /\ cur_instr[v].index = s
        BY DEF Issued
    <2>2. /\ SameAs(cur_instr[v], rob[store_queue[s].rob_entry].op)
          /\ cur_instr[v].value = rob[store_queue[s].rob_entry].op.value
        BY <2>1 DEF OrderInv, Claimed, StoresIssued
    <2> QED BY <1>3, <2>2 DEF SameAs
<1> QED BY <1>1, <1>2, <1>3, AddressedIs

LEMMA StoresLocatedAfter ==
    ASSUME Inside, OrderInv,
           NEW d, NEW gnt, NEW accepted, NEW hits, NEW give, NEW sel,
           NEW issue, NEW others, NEW k,
           LoadEdge(d, gnt, accepted, hits, give, sel, issue, others, k)
    PROVE  StoresLocated(rob', store_queue')
<1>0. LsqInv /\ Near(load_queue) /\ accepted \in {{}, ToWrite} /\ Group(d)
    BY DEF OrderInv, WriteInv, LsqInv, LoadEdge, Edge
<1> SUFFICES ASSUME NEW s \in StoreSlots, store_queue'[s].valid
             PROVE  /\ store_queue'[s].has_address =>
                        /\ SameAs(store_queue'[s], rob'[store_queue'[s].rob_entry].op)
                        /\ store_queue'[s].value = rob'[store_queue'[s].rob_entry].op.value
                    /\ store_queue'[s].ready_for_mem \/ store_queue'[s].out_ready =>
                        store_queue'[s].has_address
    BY DEF StoresLocated
<1>1. CASE \E x \in Of(d, "store") : StoreEnters(store_queue'[s], Len(rob) + x - k)
    BY <1>1 DEF StoreEnters, Unmarked
<1>2. CASE /\ store_queue[s].valid
           /\ store_queue'[s].rob_entry = store_queue[s].rob_entry - k
           /\ StoreStays(s, store_queue'[s], accepted, k)
           /\ StoreGoesOn(d, s, store_queue'[s])
    <2>1. PICK i : i = store_queue[s].rob_entry
        OBVIOUS
    <2>2. i \in 1..Len(rob) /\ k < i
        BY <1>0, <1>2, <2>1, StoreIn
    <2>3. rob'[i - k].op = rob[i].op
        BY <1>0, <2>2, EntryStays
    <2>4. /\ store_queue'[s].at = Addressed(d, s).at /\ store_queue'[s].size = Addressed(d, s).size
          /\ store_queue'[s].value = Addressed(d, s).value
          /\ store_queue'[s].has_address = Addressed(d, s).has_address
        BY <1>2 DEF StoreGoesOn
    <2>5. store_queue'[s].has_address =>
            /\ SameAs(store_queue'[s], rob'[store_queue'[s].rob_entry].op)
            /\ store_queue'[s].value = rob'[store_queue'[s].rob_entry].op.value
        <3>1. PICK a : a = AddressedBy(d, s, N) /\ a = Addressed(d, s)
            BY DEF Addressed
        <3>2. ASSUME a.has_address
              PROVE  SameAs(a, rob[i].op) /\ a.value = rob[i].op.value
            <4>1. AddressedBy(d, s, N).has_address
                BY <3>1, <3>2
            <4>2. /\ SameAs(AddressedBy(d, s, N), rob[store_queue[s].rob_entry].op)
                  /\ AddressedBy(d, s, N).value = rob[store_queue[s].rob_entry].op.value
                BY <1>0, <1>2, <4>1, AddressedRight
            <4> QED BY <2>1, <3>1, <4>2
        <3>3. store_queue'[s].rob_entry = i - k
            BY <1>2, <2>1
        <3> QED BY <2>3, <2>4, <3>1, <3>2, <3>3 DEF SameAs
    <2>6. store_queue[s].has_address => store_queue'[s].has_address
        BY <1>0, <2>4, AddressedKept DEF Addressed
    <2>7. store_queue'[s].ready_for_mem \/ store_queue'[s].out_ready =>
                \/ store_queue[s].ready_for_mem \/ store_queue[s].has_address
                \/ store_queue[s].out_ready \/ s \in accepted
        BY <1>0, <1>2, NoException DEF StoreGoesOn, StoreStays
    <2>8. s \in accepted => store_queue[s].ready_for_mem
        BY <1>0, ToWriteIs
    <2>9. store_queue[s].ready_for_mem \/ store_queue[s].out_ready => store_queue[s].has_address
        BY <1>2 DEF OrderInv, Claimed, StoresLocated
    <2> QED BY <2>5, <2>6, <2>7, <2>8, <2>9
<1> QED BY <1>1, <1>2, StoreWas

LEMMA ClaimedAfter ==
    ASSUME Inside, OrderInv,
           NEW d, NEW gnt, NEW accepted, NEW hits, NEW give, NEW sel,
           NEW issue, NEW others, NEW k,
           LoadEdge(d, gnt, accepted, hits, give, sel, issue, others, k)
    PROVE  Claimed(rob', store_queue', cur_instr')
<1>0. LsqInv /\ Group(d) /\ cur_instr' = [w \in DOMAIN issue |-> Instr(issue[w])]
    BY DEF OrderInv, WriteInv, LoadEdge, Edge
<1>1. Blank(store_queue')
    <2> SUFFICES ASSUME NEW s \in StoreSlots, ~store_queue'[s].valid
                 PROVE  Unmarked(store_queue'[s])
        BY DEF Blank
    <2> QED BY StoreTable DEF StoreEnters, StoreStays
<1>2. ASSUME NEW e \in 1..Len(rob'), Store(rob', e), ~rob'[e].issued
      PROVE  \E s \in StoreSlots : Has(store_queue', s, e) /\ ~store_queue'[s].has_address
    <2>1. ASSUME NEW i \in 1..Len(rob), k < i, e = i - k
          PROVE  \E s \in StoreSlots : Has(store_queue', s, e) /\ ~store_queue'[s].has_address
        <3>1. Store(rob, i) /\ ~rob[i].issued
            BY <1>0, <1>2, <2>1, EntryStays DEF Store
        <3> QED BY <2>1, <3>1, UnissuedStore
    <2>2. ASSUME NEW x \in 1..Len(d), e = Len(rob) + x - k
          PROVE  \E s \in StoreSlots : Has(store_queue', s, e) /\ ~store_queue'[s].has_address
        <3>1. rob'[e].op = d[x]
            BY <1>0, <2>2, EntryNew
        <3>2. x \in Of(d, "store")
            BY <1>0, <1>2, <3>1, OfIs DEF Store
        <3>3. PICK s : s = StoreSlot(d, x)
            OBVIOUS
        <3>4. s \in StoreSlots /\ StoreEnters(store_queue'[s], e)
            BY <2>2, <3>2, <3>3, StoreNew
        <3> QED BY <3>4 DEF StoreEnters, Unmarked, Has
    <2> QED BY <1>0, <2>1, <2>2, EntryComes
<1>3. StoresUnissued(rob', store_queue')
    BY <1>2 DEF StoresUnissued
<1>4. ASSUME NEW w \in DOMAIN cur_instr', cur_instr'[w].kind = "store", NEW c, c = cur_instr'[w]
      PROVE  /\ c.index \in StoreSlots
             /\ store_queue'[c.index].valid /\ ~store_queue'[c.index].has_address
             /\ SameAs(c, rob'[store_queue'[c.index].rob_entry].op)
             /\ rob'[store_queue'[c.index].rob_entry].issued
             /\ c.value = rob'[store_queue'[c.index].rob_entry].op.value
    <2>1. PICK i : i = issue[w]
        OBVIOUS
    <2>2. w \in DOMAIN issue /\ c = Instr(i)
        BY <1>0, <1>4, <2>1
    <2>3. i \in 1..Len(rob) /\ ~rob[i].issued /\ i \in Range(issue)
        BY <2>1, <2>2 DEF LoadEdge, Range
    <2>4. /\ c.kind = rob[i].op.kind /\ c.index = rob[i].lsq_index
          /\ SameAs(c, rob[i].op) /\ c.value = rob[i].op.value
        BY <2>2 DEF Instr, SameAs
    <2>5. Store(rob, i)
        BY <1>4, <2>3, <2>4 DEF Store
    <2>6. k < i
        BY <2>3, <2>5, UnissuedStore
    <2>7. PICK s \in StoreSlots : /\ Has(store_queue', s, i - k) /\ rob[i].lsq_index = s
                                  /\ ~store_queue'[s].has_address
        BY <2>3, <2>5, UnissuedStore
    <2>8. rob'[i - k].op = rob[i].op /\ rob'[i - k].issued
        BY <1>0, <2>3, <2>6, EntryStays
    <2> QED BY <2>4, <2>7, <2>8 DEF Has
<1>5. StoresIssued(rob', store_queue', cur_instr')
    BY <1>4 DEF StoresIssued
<1> QED BY <1>1, <1>3, <1>5, StoresLocatedAfter DEF Claimed

\* As many slots hold stores as are younger than the c-th from slot o.
LEMMA CountHeld ==
    ASSUME NEW e, NEW o \in StoreSlots, NEW c \in 0..STORE_QUEUE_SIZE,
           \A s \in StoreSlots : e[s].valid <=> AgeFrom(o, s) < c
    PROVE  Cardinality({s \in StoreSlots : e[s].valid}) = c
<1> DEFINE V == {s \in StoreSlots : e[s].valid}
           A == 0..(c - 1)
           f == [a \in A |-> Wrap(o + a)]
<1>1. \A a \in A : a \in StoreSlots /\ a < c
    BY LsqConstants
<1>2. \A a, b \in A : f[a] = f[b] => a = b
    BY <1>1, SlotOfAge
<1>3. V = {f[a] : a \in A}
    <2>1. \A a \in A : f[a] \in V
        BY <1>1, SlotOfAge
    <2>2. ASSUME NEW s \in V
          PROVE  \E a \in A : s = f[a]
        <3>1. s \in StoreSlots /\ AgeFrom(o, s) < c
            OBVIOUS
        <3>2. AgeFrom(o, s) \in A /\ f[AgeFrom(o, s)] = s
            BY <3>1, AgeOfSlot, LsqConstants
        <3> QED BY <3>2
    <2> QED BY <2>1, <2>2
<1>4. IsFiniteSet(A) /\ Cardinality(A) = c
    BY CountUpTo
<1> HIDE DEF A, f, V
<1>5. Cardinality(V) = c
    BY <1>2, <1>3, <1>4, ImageExact
<1> QED BY <1>5 DEF V

LEMMA QueueSays == LsqInv /\ QueueInv => StoreQueueInOrder
<1> SUFFICES ASSUME LsqInv, QueueInv PROVE StoreQueueInOrder
    OBVIOUS
<1> DEFINE held == {s \in StoreSlots : store_queue[s].valid}
<1>1. PICK c \in 0..STORE_QUEUE_SIZE : Holding(store_queue, str_head, str_tail, c)
    BY DEF QueueInv
<1>2. str_head \in StoreSlots
    BY DEF LsqInv, Registers
<1>3. \A s \in StoreSlots : store_queue[s].valid <=> AgeFrom(str_head, s) < c
    BY <1>1 DEF Holding
<1>4. Cardinality(held) = c
    BY <1>2, <1>3, CountHeld
<1>5. held = {s \in StoreSlots : Age(s) < Cardinality(held)}
    BY <1>3, <1>4, AgeIs
<1>6. str_tail = Wrap(str_head + Cardinality(held))
    BY <1>1, <1>4 DEF Holding
<1>7. \A s, t \in held : Age(s) < Age(t) =>
            store_queue[s].rob_entry < store_queue[t].rob_entry
    BY AgeIs DEF QueueInv, Ordered
<1> QED BY <1>5, <1>6, <1>7 DEF StoreQueueInOrder

LEMMA QueueInit == Init => QueueInv
<1> SUFFICES ASSUME Init PROVE QueueInv
    OBVIOUS
<1>1. \A s \in StoreSlots : ~store_queue[s].valid
    BY DEF Init, NoStore
<1>2. \A s \in StoreSlots : ~(AgeFrom(0, s) < 0)
    BY LsqConstants DEF AgeFrom
<1>3. 0 = Wrap(0 + 0) /\ 0 \in 0..STORE_QUEUE_SIZE
    BY LsqConstants DEF Wrap
<1>4. Holding(store_queue, 0, 0, 0)
    BY <1>1, <1>2, <1>3 DEF Holding
<1>5. str_head = 0 /\ str_tail = 0
    BY DEF Init
<1> QED BY <1>1, <1>3, <1>4, <1>5 DEF QueueInv, Ordered

-----------------------------------------------------------------------------
(* What holds as long as no slot is used again                             *)

LEMMA OrderInit == Init => OrderInv
<1> SUFFICES ASSUME Init PROVE OrderInv
    OBVIOUS
<1>1. Near(load_queue) /\ Written(rob, store_queue, out) /\ Named(rob, store_queue)
    BY DEF Init, Near, Written, Named, NoLoad, NoStore, NoOut, Outside
<1>2. DOMAIN rob = {} /\ Len(rob) = 0 /\ DOMAIN cur_instr = {}
    BY DEF Init
<1>3. \A s \in StoreSlots : ~store_queue[s].valid /\ Unmarked(store_queue[s])
    BY NoStoreFields DEF Init, Unmarked
<1>4. Claimed(rob, store_queue, cur_instr)
    BY <1>2, <1>3 DEF Claimed, Blank, StoresUnissued, StoresLocated, StoresIssued
<1> QED BY <1>1, <1>2, <1>4, LsqInit, QueueInit
        DEF OrderInv, WriteInv, StoresInProgramOrder, NoReuse

LEMMA OrderInductive ==
    ASSUME Inside, OrderInv, NoReuse', [Next]_vars
    PROVE  OrderInv'
<1>0. LsqInv /\ LsqInv'
    BY LsqInductive DEF OrderInv, WriteInv
<1>1. CASE UNCHANGED vars
    BY <1>0, <1>1 DEF vars, OrderInv, WriteInv, Near, Written, Named, StoresInProgramOrder,
        QueueInv, Holding, Ordered,
        Claimed, Blank, StoresUnissued, StoresLocated, StoresIssued
<1>2. ASSUME NEW d, NEW gnt, NEW accepted, NEW hits, NEW give, NEW sel,
             NEW issue, NEW others, NEW k,
             LoadEdge(d, gnt, accepted, hits, give, sel, issue, others, k)
      PROVE  OrderInv'
    <2>1. Near(load_queue')
        BY <1>2, NearAfter DEF OrderInv, WriteInv, LoadEdge
    <2>2. Written(rob', store_queue', out') /\ Named(rob', store_queue')
        BY <1>2, WrittenAfter, NamedAfter
    <2>3. StoresInProgramOrder' /\ QueueInv' /\ Claimed(rob', store_queue', cur_instr')
        BY <1>2, InOrderAfter, QueueAfter, ClaimedAfter
    <2> QED BY <1>0, <2>1, <2>2, <2>3 DEF OrderInv, WriteInv
<1>3. ASSUME NEW accepted, Nuke(accepted)
      PROVE  OrderInv'
    <2>1. Near(load_queue') /\ Written(rob', store_queue', out') /\ Named(rob', store_queue')
        BY <1>3 DEF Nuke, Near, Written, Named, NoLoad, NoStore, NoOut, Outside
    <2>2. DOMAIN rob' = {} /\ Len(rob') = 0 /\ DOMAIN cur_instr' = {}
        BY <1>3 DEF Nuke
    <2>3. \A s \in StoreSlots : ~store_queue'[s].valid /\ Unmarked(store_queue'[s])
        BY <1>3, NoStoreFields DEF Nuke, Unmarked
    <2>4. Claimed(rob', store_queue', cur_instr')
        BY <2>2, <2>3 DEF Claimed, Blank, StoresUnissued, StoresLocated, StoresIssued
    <2>5. QueueInv'
        <3>1. str_head' = 0 /\ str_tail' = 0
            BY <1>3 DEF Nuke
        <3>2. \A s \in StoreSlots : ~(AgeFrom(0, s) < 0)
            BY LsqConstants DEF AgeFrom
        <3>3. 0 = Wrap(0 + 0) /\ 0 \in 0..STORE_QUEUE_SIZE
            BY LsqConstants DEF Wrap
        <3>4. Holding(store_queue', str_head', str_tail', 0)
            BY <2>3, <3>1, <3>2, <3>3 DEF Holding
        <3> QED BY <2>3, <3>3, <3>4 DEF QueueInv, Ordered
    <2>6. StoresInProgramOrder'
        BY <2>2 DEF StoresInProgramOrder
    <2> QED BY <1>0, <2>1, <2>4, <2>5, <2>6 DEF OrderInv, WriteInv
<1> QED BY <1>0, <1>1, <1>2, <1>3, NextLoadSteps

LEMMA OrderHolds ==
    ASSUME Inside PROVE Spec /\ []NoReuse => []OrderInv
<1>1. Init => OrderInv
    BY OrderInit
<1>2. OrderInv /\ NoReuse' /\ [Next]_vars => OrderInv'
    BY OrderInductive
<1> QED BY <1>1, <1>2, PTL DEF Spec

\* As long as no slot is given again while its store is in flight, and no
\* access is outside memory, a store that has a result has been written.  (A
\* store that enters the slot of another one is marked with what the edge
\* brings for that one, and leaves unwritten; so does a store when a load of a
\* wrong path in the slot of its number is outside memory.)
THEOREM WrittenBeforeLeaving ==
    ASSUME Inside PROVE Spec /\ []NoReuse => []StoresReachMemory
<1>1. Spec /\ []NoReuse => []OrderInv
    BY OrderHolds
<1>2. OrderInv => StoresReachMemory
    BY DEF OrderInv, WriteInv, Written, StoresReachMemory
<1> QED BY <1>1, <1>2, PTL

\* Then stores are written in program order, behind no unresolved branch and
\* no load that is still to read.
THEOREM WrittenInOrder ==
    ASSUME Inside PROVE Spec /\ []NoReuse => []StoresInProgramOrder
<1>1. Spec /\ []NoReuse => []OrderInv
    BY OrderHolds
<1>2. OrderInv => StoresInProgramOrder
    BY DEF OrderInv
<1> QED BY <1>1, <1>2, PTL

\* Under the same hypotheses, which are what the two recorded disagreements
\* break, the store queue holds exactly the stores that have not left it, from
\* head to tail in program order.
THEOREM StoreQueueOrdered ==
    ASSUME Inside PROVE Spec /\ []NoReuse => []StoreQueueInOrder
<1>1. Spec /\ []NoReuse => []OrderInv
    BY OrderHolds
<1>2. OrderInv => StoreQueueInOrder
    BY QueueSays DEF OrderInv, WriteInv
<1> QED BY <1>1, <1>2, PTL

-----------------------------------------------------------------------------
(* When a slot is given again                                              *)

\* How far slot s is behind the tail t: the last one given is 1 behind.
Back(t, s) == IF s < t THEN t - s ELSE t - s + STORE_QUEUE_SIZE

\* The stores in buffer r from entry i on.
StoresFrom(r, i) == {j \in 1..Len(r) : i <= j /\ r[j].op.kind = "store"}

\* No more stores are in flight than the queue has slots.
FewStores ==
    Cardinality({i \in DOMAIN rob : rob[i].op.kind = "store"}) <= STORE_QUEUE_SIZE

\* The youngest stores, as many as there are slots, have the slots behind the
\* tail in program order.
Recent(r, t) ==
    \A i \in 1..Len(r) : r[i].op.kind = "store" =>
        /\ r[i].lsq_index \in StoreSlots
        /\ Cardinality(StoresFrom(r, i)) <= STORE_QUEUE_SIZE =>
                Back(t, r[i].lsq_index) = Cardinality(StoresFrom(r, i))

\* g slots later, a slot is g further back, and the new ones are in between.
LEMMA TailMoves ==
    ASSUME NEW t \in StoreSlots, NEW g \in Nat, g <= STORE_QUEUE_SIZE
    PROVE  /\ \A s \in StoreSlots : /\ Back(t, s) \in Int /\ Back(t, s) >= 1
                                    /\ Back(t, s) + g <= STORE_QUEUE_SIZE =>
                                            Back(Wrap(t + g), s) = Back(t, s) + g
           /\ \A a \in 0..(g - 1) : /\ Wrap(t + a) \in StoreSlots
                                    /\ Back(Wrap(t + g), Wrap(t + a)) = g - a
BY LsqConstants DEF Back, Wrap

\* Moving every element of a set by c keeps their number.
LEMMA Translated ==
    ASSUME NEW S, IsFiniteSet(S), S \subseteq Int, NEW c \in Int, NEW T,
           \A y : y \in T <=> \E x \in S : y = x + c
    PROVE  IsFiniteSet(T) /\ Cardinality(T) = Cardinality(S)
<1>1. PICK f : f = [x \in S |-> x + c]
    OBVIOUS
<1>2. ASSUME NEW x \in S, NEW y \in S, f[x] = f[y] PROVE x = y
    <2>1. x \in Int /\ y \in Int
        OBVIOUS
    <2>2. x + c = y + c
        BY <1>1, <1>2
    <2> QED BY <2>1, <2>2
<1>3. T = {f[x] : x \in S}
    BY <1>1
<1>4. \A x, y \in S : f[x] = f[y] => x = y
    BY <1>2
<1>5. /\ IsFiniteSet({f[x] : x \in S})
      /\ Cardinality({f[x] : x \in S}) = Cardinality(S)
    BY <1>4, ImageExact
<1> QED BY <1>3, <1>5

LEMMA StoresFinite ==
    ASSUME NEW r, Len(r) \in Nat, NEW i
    PROVE  IsFiniteSet(StoresFrom(r, i)) /\ Cardinality(StoresFrom(r, i)) \in Nat
<1>1. StoresFrom(r, i) \subseteq 1..Len(r)
    BY DEF StoresFrom
<1>2. IsFiniteSet(1..Len(r))
    BY FS_Interval
<1>3. IsFiniteSet(StoresFrom(r, i))
    BY <1>1, <1>2, FS_Subset
<1> QED BY <1>3, FS_CardinalityType

\* From a store on there are more stores than from a younger one on.
LEMMA StoresFewer ==
    ASSUME NEW r, Len(r) \in Nat, NEW i \in 1..Len(r), NEW j \in 1..Len(r),
           i < j, r[i].op.kind = "store"
    PROVE  Cardinality(StoresFrom(r, j)) < Cardinality(StoresFrom(r, i))
<1>1. /\ StoresFrom(r, j) \subseteq StoresFrom(r, i)
      /\ i \in StoresFrom(r, i) /\ i \notin StoresFrom(r, j)
    BY DEF StoresFrom
<1>2. /\ IsFiniteSet(StoresFrom(r, i)) /\ Cardinality(StoresFrom(r, i)) \in Nat
      /\ IsFiniteSet(StoresFrom(r, j)) /\ Cardinality(StoresFrom(r, j)) \in Nat
    BY StoresFinite
<1>3. /\ Cardinality(StoresFrom(r, j)) <= Cardinality(StoresFrom(r, i))
      /\ Cardinality(StoresFrom(r, i)) = Cardinality(StoresFrom(r, j))
            => StoresFrom(r, i) = StoresFrom(r, j)
    BY <1>1, <1>2, FS_Subset
<1> QED BY <1>1, <1>2, <1>3

\* The stores of the group come after those still in the buffer ...
LEMMA StoresBehind ==
    ASSUME LsqInv, NEW d, NEW gnt, NEW accepted, NEW hits, NEW give, NEW sel,
           NEW issue, NEW others, NEW k,
           Edge(d, gnt, accepted, hits, give, sel, issue, others, k),
           NEW e \in 1..(Len(rob) - k)
    PROVE  Cardinality(StoresFrom(rob', e))
                = Cardinality(StoresFrom(rob, e + k)) + Cardinality(Of(d, "store"))
<1> DEFINE m == Len(rob) - k
           S == Of(d, "store")
           A == {j \in StoresFrom(rob', e) : j <= m}
           B == {j \in StoresFrom(rob', e) : j > m}
           c == 0 - k
<1>0. /\ Len(rob) \in Nat /\ k \in 0..Len(rob) /\ m \in Nat /\ e \in 1..m
      /\ Len(d) \in Nat /\ DOMAIN d = 1..Len(d)
      /\ S = {i \in 1..Len(d) : d[i].kind = "store"}
      /\ Len(rob') = m + Len(d)
      /\ \A i \in 1..m : rob'[i].op = rob[i + k].op
      /\ \A i \in 1..Len(d) : rob'[m + i].op = d[i]
    BY DEF LsqInv, Buffer, Edge, Shifts, Group, Of
<1> HIDE DEF m
<1>1. IsFiniteSet(StoresFrom(rob, e + k)) /\ StoresFrom(rob, e + k) \subseteq Int
    <2>1. IsFiniteSet(StoresFrom(rob, e + k))
        BY <1>0, StoresFinite
    <2>2. StoresFrom(rob, e + k) \subseteq Int
        BY DEF StoresFrom
    <2> QED BY <2>1, <2>2
<1>2. \A y : y \in A <=> \E x \in StoresFrom(rob, e + k) : y = x + c
    <2>1. ASSUME NEW y \in A
          PROVE  \E x \in StoresFrom(rob, e + k) : y = x + c
        <3>1. y \in Int /\ 1 <= y /\ y <= m /\ e <= y /\ rob'[y].op.kind = "store"
            BY <1>0 DEF StoresFrom
        <3>2. PICK x : x = y + k
            OBVIOUS
        <3>3. rob[x].op.kind = "store"
            BY <1>0, <3>1, <3>2
        <3>4. x \in 1..Len(rob) /\ e + k <= x /\ y = x + c
            BY <1>0, <3>1, <3>2 DEF m
        <3> QED BY <3>3, <3>4 DEF StoresFrom
    <2>2. ASSUME NEW x \in StoresFrom(rob, e + k), NEW y, y = x + c
          PROVE  y \in A
        <3>1. x \in 1..Len(rob) /\ e + k <= x /\ rob[x].op.kind = "store"
            BY DEF StoresFrom
        <3>0. x \in Int /\ k \in Int /\ e \in Int /\ 1 <= e
            BY <1>0, <3>1
        <3>5. y \in Int /\ y + k = x
            BY <2>2, <3>0
        <3>6. m \in Int /\ m + k = Len(rob) /\ Len(rob) \in Int
            BY <1>0 DEF m
        <3>2. y \in 1..m /\ e <= y /\ y + k = x
            BY <3>0, <3>1, <3>5, <3>6
        <3>4. y <= Len(rob')
            BY <1>0, <3>2
        <3>3. rob'[y].op.kind = "store"
            BY <1>0, <3>1, <3>2
        <3> QED BY <1>0, <3>2, <3>3, <3>4 DEF StoresFrom
    <2> QED BY <2>1, <2>2
<1>3. IsFiniteSet(A) /\ Cardinality(A) = Cardinality(StoresFrom(rob, e + k))
    <2> HIDE DEF A
    <2>1. c \in Int
        BY <1>0
    <2> HIDE DEF c
    <2> QED BY <1>1, <1>2, <2>1, Translated
<1>4. IsFiniteSet(S) /\ S \subseteq Int
    <2> HIDE DEF S
    <2>1. S \subseteq 1..Len(d)
        BY <1>0
    <2>2. IsFiniteSet(1..Len(d))
        BY <1>0, FS_Interval
    <2>3. IsFiniteSet(S)
        BY <2>1, <2>2, FS_Subset
    <2> QED BY <2>1, <2>3
<1>5. \A y : y \in B <=> \E x \in S : y = x + m
    <2>1. ASSUME NEW y \in B
          PROVE  \E x \in S : y = x + m
        <3>1. y \in Int /\ y > m /\ y <= m + Len(d) /\ rob'[y].op.kind = "store"
            BY <1>0 DEF StoresFrom
        <3>2. PICK x : x = y - m
            OBVIOUS
        <3>3. x \in 1..Len(d) /\ m + x = y /\ y = x + m
            BY <1>0, <3>1, <3>2
        <3>4. d[x].kind = "store"
            BY <1>0, <3>1, <3>3
        <3> QED BY <1>0, <3>3, <3>4
    <2>2. ASSUME NEW x \in S, NEW y, y = x + m
          PROVE  y \in B
        <3>1. x \in 1..Len(d) /\ d[x].kind = "store"
            BY <1>0
        <3>2. y \in 1..Len(rob') /\ e <= y /\ y > m /\ m + x = y
            BY <1>0, <2>2, <3>1
        <3>3. rob'[y].op.kind = "store"
            BY <1>0, <3>1, <3>2
        <3> QED BY <3>2, <3>3 DEF StoresFrom
    <2> QED BY <2>1, <2>2
<1>6. IsFiniteSet(B) /\ Cardinality(B) = Cardinality(S)
    <2>1. m \in Int
        BY <1>0
    <2> HIDE DEF B, S
    <2> QED BY <1>4, <1>5, <2>1, Translated
<1>7. StoresFrom(rob', e) = A \cup B /\ A \cap B = {}
    <2>1. StoresFrom(rob', e) \subseteq Int
        BY DEF StoresFrom
    <2> QED BY <1>0, <2>1
<1> HIDE DEF A, B
<1>8. Cardinality(A \cup B) = Cardinality(A) + Cardinality(B) - Cardinality(A \cap B)
    BY <1>3, <1>6, FS_Union
<1>9. Cardinality(A \cap B) = 0 /\ Cardinality(A) \in Nat /\ Cardinality(B) \in Nat
    BY <1>3, <1>6, <1>7, FS_EmptySet, FS_CardinalityType
<1> QED BY <1>3, <1>6, <1>7, <1>8, <1>9

\* ... and among them are counted by their ranks.
LEMMA StoresAhead ==
    ASSUME LsqInv, NEW d, NEW gnt, NEW accepted, NEW hits, NEW give, NEW sel,
           NEW issue, NEW others, NEW k,
           Edge(d, gnt, accepted, hits, give, sel, issue, others, k),
           NEW i \in Of(d, "store"), NEW e, e = Len(rob) - k + i
    PROVE  Cardinality(StoresFrom(rob', e)) = Cardinality(Of(d, "store")) - Rank(d, i)
<1> DEFINE m == Len(rob) - k
           S == Of(d, "store")
           P == {j \in S : j < i}
           Q == S \ P
<1>0. /\ m \in Nat /\ Len(d) \in Nat /\ i \in 1..Len(d) /\ e = i + m
      /\ S = {j \in 1..Len(d) : d[j].kind = "store"}
      /\ Len(rob') = m + Len(d)
      /\ \A j \in 1..Len(d) : rob'[m + j].op = d[j]
    BY DEF LsqInv, Buffer, Edge, Shifts, Group, Of
<1> HIDE DEF m
<1>1. IsFiniteSet(S)
    <2>1. S \subseteq 1..Len(d) /\ IsFiniteSet(1..Len(d))
        BY <1>0, FS_Interval
    <2> HIDE DEF S
    <2> QED BY <2>1, FS_Subset
<1>2. \A j : j \in Q <=> j \in S /\ i <= j
    BY <1>0
<1>3. S \cap P = P
    OBVIOUS
<1>4. Rank(d, i) = Cardinality(P)
    BY DEF Rank
<1>5. \A y : y \in StoresFrom(rob', e) <=> \E x \in Q : y = x + m
    <2>1. ASSUME NEW y \in StoresFrom(rob', e)
          PROVE  \E x \in Q : y = x + m
        <3>1. y \in Int /\ e <= y /\ y <= m + Len(d) /\ rob'[y].op.kind = "store"
            BY <1>0 DEF StoresFrom
        <3>2. PICK x : x = y - m
            OBVIOUS
        <3>3. x \in 1..Len(d) /\ i <= x /\ m + x = y /\ y = x + m
            BY <1>0, <3>1, <3>2
        <3>4. d[x].kind = "store"
            BY <1>0, <3>1, <3>3
        <3> HIDE DEF Q, S
        <3>5. x \in Q
            BY <1>0, <1>2, <3>3, <3>4
        <3> QED BY <3>3, <3>5
    <2>2. ASSUME NEW x \in Q, NEW y, y = x + m
          PROVE  y \in StoresFrom(rob', e)
        <3>1. x \in 1..Len(d) /\ d[x].kind = "store" /\ i <= x
            BY <1>0, <1>2
        <3>2. y \in 1..Len(rob') /\ e <= y /\ m + x = y
            BY <1>0, <2>2, <3>1
        <3>3. rob'[y].op.kind = "store"
            BY <1>0, <3>1, <3>2
        <3> QED BY <3>2, <3>3 DEF StoresFrom
    <2> QED BY <2>1, <2>2
<1>6. Q \subseteq Int
    BY <1>0
<1> HIDE DEF P, Q, S
<1>7. IsFiniteSet(Q) /\ Cardinality(Q) = Cardinality(S) - Cardinality(P)
    BY <1>1, <1>3, FS_Difference DEF Q
<1>8. Cardinality(StoresFrom(rob', e)) = Cardinality(Q)
    <2>1. m \in Int
        BY <1>0
    <2>2. PICK T : T = StoresFrom(rob', e)
        OBVIOUS
    <2>3. \A y : y \in T <=> \E x \in Q : y = x + m
        BY <1>5, <2>2
    <2>4. Cardinality(T) = Cardinality(Q)
        BY <1>6, <1>7, <2>1, <2>3, Translated
    <2> QED BY <2>2, <2>4
<1> QED BY <1>4, <1>7, <1>8 DEF S

LEMMA RecentAfter ==
    ASSUME LsqInv, Recent(rob, str_tail),
           NEW d, NEW gnt, NEW accepted, NEW hits, NEW give, NEW sel,
           NEW issue, NEW others, NEW k,
           Edge(d, gnt, accepted, hits, give, sel, issue, others, k)
    PROVE  Recent(rob', str_tail')
<1> DEFINE S == Of(d, "store")
           c(e) == Cardinality(StoresFrom(rob', e))
<1> SUFFICES ASSUME NEW e \in 1..Len(rob'), rob'[e].op.kind = "store"
             PROVE  /\ rob'[e].lsq_index \in StoreSlots
                    /\ c(e) <= STORE_QUEUE_SIZE => Back(str_tail', rob'[e].lsq_index) = c(e)
    BY DEF Recent
<1>0. /\ str_tail \in StoreSlots /\ Group(d) /\ Len(d) \in Nat /\ Len(d) <= N
      /\ k \in 0..Len(rob) /\ Len(rob) \in Nat
    BY DEF LsqInv, Registers, Buffer, Edge, Group
<1>1. PICK g \in 0..Len(d) :
        /\ Cardinality(S) = g
        /\ \A i \in S : Rank(d, i) \in 0..(g - 1)
    BY <1>0, Ranks
<1>2. g \in Nat /\ g <= STORE_QUEUE_SIZE
    BY <1>0, <1>1, LsqConstants
<1>3. str_tail' = Wrap(str_tail + g)
    BY <1>1 DEF Edge, n_str_tail
<1>4. /\ Len(rob') = Len(rob) - k + Len(d)
      /\ \A i \in 1..(Len(rob) - k) : /\ rob'[i].op = rob[i + k].op
                                      /\ rob'[i].lsq_index = rob[i + k].lsq_index
      /\ \A i \in 1..Len(d) : rob'[Len(rob) - k + i].op = d[i]
    BY DEF Edge, Shifts
\* what is in the buffer moves back by g
<1>5. CASE e <= Len(rob) - k
    <2>1. PICK q : q = e + k
        OBVIOUS
    <2>2. e \in 1..(Len(rob) - k) /\ q \in 1..Len(rob)
        BY <1>0, <1>5, <2>1
    <2>3. rob[q].op.kind = "store" /\ rob'[e].lsq_index = rob[q].lsq_index
        BY <1>4, <2>1, <2>2
    <2>4. c(e) = Cardinality(StoresFrom(rob, q)) + g
        BY <1>1, <2>1, <2>2, StoresBehind
    <2>5. Cardinality(StoresFrom(rob, q)) \in Nat
        BY <1>0, StoresFinite
    <2>6. rob[q].lsq_index \in StoreSlots
        BY <2>2, <2>3 DEF Recent
    <2>7. ASSUME c(e) <= STORE_QUEUE_SIZE
          PROVE  Back(str_tail', rob'[e].lsq_index) = c(e)
        <3>1. Cardinality(StoresFrom(rob, q)) <= STORE_QUEUE_SIZE
            BY <1>2, <2>4, <2>5, <2>7, LsqConstants
        <3>2. Back(str_tail, rob[q].lsq_index) = Cardinality(StoresFrom(rob, q))
            BY <2>2, <2>3, <3>1 DEF Recent
        <3>3. Back(str_tail, rob[q].lsq_index) + g <= STORE_QUEUE_SIZE
            BY <2>4, <2>7, <3>2
        <3>4. Back(Wrap(str_tail + g), rob[q].lsq_index)
                = Back(str_tail, rob[q].lsq_index) + g
            BY <1>0, <1>2, <2>6, <3>3, TailMoves
        <3> QED BY <1>3, <2>3, <2>4, <3>2, <3>4
    <2> QED BY <2>3, <2>6, <2>7
\* what enters is in between
<1>6. CASE e > Len(rob) - k
    <2>1. PICK i : i = e - (Len(rob) - k)
        OBVIOUS
    <2>2. i \in 1..Len(d) /\ e = Len(rob) - k + i /\ e = Len(rob) + i - k
        BY <1>0, <1>4, <1>6, <2>1
    <2>3. i \in S
        <3>1. d[i].kind = "store"
            BY <1>4, <2>2
        <3> QED BY <1>0, <2>2, <3>1 DEF Of, Group
    <2>4. c(e) = g - Rank(d, i)
        BY <1>1, <2>2, <2>3, StoresAhead
    <2>5. rob'[Len(rob) + i - k].lsq_index = StoreSlot(d, i)
        BY <2>3, GroupIs
    <2>6. rob'[e].lsq_index = Wrap(str_tail + Rank(d, i))
        BY <2>2, <2>5 DEF StoreSlot, Rank
    <2>7. Rank(d, i) \in 0..(g - 1)
        BY <1>1, <2>3
    <2>8. /\ Wrap(str_tail + Rank(d, i)) \in StoreSlots
          /\ Back(Wrap(str_tail + g), Wrap(str_tail + Rank(d, i))) = g - Rank(d, i)
        BY <1>0, <1>2, <2>7, TailMoves
    <2> QED BY <1>3, <2>4, <2>6, <2>8
<1> QED BY <1>0, <1>4, <1>5, <1>6

LEMMA RecentInit == Init => Recent(rob, str_tail)
BY DEF Init, Recent

LEMMA RecentInductive ==
    ASSUME LsqInv, Recent(rob, str_tail), [Next]_vars PROVE Recent(rob, str_tail)'
<1>1. CASE UNCHANGED vars
    BY <1>1 DEF vars, Recent, StoresFrom
<1>2. ASSUME NEW accepted, Nuke(accepted)
      PROVE  Recent(rob', str_tail')
    <2>1. Len(rob') = 0
        BY <1>2 DEF Nuke
    <2> QED BY <2>1 DEF Recent
<1> QED BY <1>1, <1>2, RecentAfter, NextSteps

\* No slot is named twice if and only if the stores in flight fit.
LEMMA ReuseIs ==
    ASSUME LsqInv, Recent(rob, str_tail) PROVE NoReuse <=> FewStores
<1> DEFINE S == {i \in DOMAIN rob : rob[i].op.kind = "store"}
<1>1. DOMAIN rob = 1..Len(rob) /\ Len(rob) \in Nat
    BY DEF LsqInv, Buffer
<1>2. IsFiniteSet(S) /\ Cardinality(S) \in Nat
    <2>1. S \subseteq 1..Len(rob) /\ IsFiniteSet(1..Len(rob))
        BY <1>1, FS_Interval
    <2> HIDE DEF S
    <2> QED BY <2>1, FS_Subset, FS_CardinalityType
<1>3. ASSUME ~FewStores
      PROVE  \E i, j \in S : i # j /\ rob[i].lsq_index = rob[j].lsq_index
    <2> DEFINE f == [i \in S |-> rob[i].lsq_index]
    <2>1. f \in [S -> StoreSlots]
        BY <1>1 DEF Recent
    <2>2. IsFiniteSet(StoreSlots) /\ Cardinality(StoreSlots) = STORE_QUEUE_SIZE
        BY LsqAssumption, CountUpTo DEF StoreSlots
    <2>3. Cardinality(StoreSlots) < Cardinality(S)
        BY <1>2, <1>3, <2>2, LsqConstants DEF FewStores
    <2> HIDE DEF f, S
    <2>4. \E i, j \in S : i # j /\ f[i] = f[j]
        BY <1>2, <2>1, <2>2, <2>3, FS_PigeonHole
    <2> QED BY <2>4 DEF f
<1>4. ASSUME FewStores, NEW i \in S, NEW j \in S, i < j
      PROVE  rob[i].lsq_index # rob[j].lsq_index
    <2>1. i \in 1..Len(rob) /\ j \in 1..Len(rob)
        BY <1>1
    <2>2. Cardinality(StoresFrom(rob, j)) < Cardinality(StoresFrom(rob, i))
        BY <1>1, <1>4, <2>1, StoresFewer
    <2>3. Cardinality(StoresFrom(rob, i)) <= Cardinality(S)
        <3>1. StoresFrom(rob, i) \subseteq S
            BY <1>1 DEF StoresFrom
        <3> HIDE DEF S
        <3> QED BY <1>2, <3>1, FS_Subset
    <2>4. /\ Cardinality(StoresFrom(rob, i)) \in Nat
          /\ Cardinality(StoresFrom(rob, j)) \in Nat
        BY <1>1, StoresFinite
    <2>5. /\ Cardinality(StoresFrom(rob, i)) <= STORE_QUEUE_SIZE
          /\ Cardinality(StoresFrom(rob, j)) <= STORE_QUEUE_SIZE
        BY <1>2, <1>4, <2>2, <2>3, <2>4, LsqConstants DEF FewStores
    <2>6. /\ Back(str_tail, rob[i].lsq_index) = Cardinality(StoresFrom(rob, i))
          /\ Back(str_tail, rob[j].lsq_index) = Cardinality(StoresFrom(rob, j))
        BY <2>1, <2>5 DEF Recent
    <2> QED BY <2>2, <2>4, <2>6
<1>5. FewStores => NoReuse
    <2> SUFFICES ASSUME FewStores, NEW i \in S, NEW j \in S,
                        rob[i].lsq_index = rob[j].lsq_index
                 PROVE  i = j
        BY DEF NoReuse
    <2>1. ~(i < j) /\ ~(j < i)
        BY <1>4
    <2> QED BY <1>1, <2>1
<1>6. NoReuse => FewStores
    BY <1>3 DEF NoReuse
<1> QED BY <1>5, <1>6

\* A slot is given again while its store is in flight exactly when the reorder
\* buffer comes to hold more stores than the queue has slots: a store leaves
\* the queue when it is written, long before it retires, and the queue's own
\* condition for being full does not see it any more.
THEOREM ReuseIsTooManyStores == Spec => [](NoReuse <=> FewStores)
<1>1. Init => LsqInv /\ Recent(rob, str_tail)
    BY LsqInit, RecentInit
<1>2. LsqInv /\ Recent(rob, str_tail) /\ [Next]_vars
        => LsqInv' /\ Recent(rob, str_tail)'
    BY LsqInductive, RecentInductive
<1>3. LsqInv /\ Recent(rob, str_tail) => (NoReuse <=> FewStores)
    BY ReuseIs
<1> QED BY <1>1, <1>2, <1>3, PTL DEF Spec

\* So as long as the stores in flight fit in the queue and no access is outside
\* memory, stores are written in program order before they leave a queue that
\* holds them in order, whatever the program, the grants and the cache's answers.
THEOREM FewStoresInOrder ==
    ASSUME Inside
    PROVE  Spec /\ []FewStores
                => [](StoresReachMemory /\ StoresInProgramOrder /\ StoreQueueInOrder)
<1>1. Spec => [](NoReuse <=> FewStores)
    BY ReuseIsTooManyStores
<1>2. Spec /\ []NoReuse => []StoresReachMemory
    BY WrittenBeforeLeaving
<1>3. Spec /\ []NoReuse => []StoresInProgramOrder
    BY WrittenInOrder
<1>4. Spec /\ []NoReuse => []StoreQueueInOrder
    BY StoreQueueOrdered
<1> QED BY <1>1, <1>2, <1>3, <1>4, PTL

-----------------------------------------------------------------------------
(* A slot of the load queue and an output after the edge, in full          *)

\* The rest of what becomes of a load that stays.
LoadGoesOn(d, l, a, accepted, hits) ==
    /\ a.at = Located(l).at /\ a.size = Located(l).size
    /\ a.has_address = Located(l).has_address
    /\ a.value = n_value(l, accepted, hits)
    /\ a.out_ready => \/ load_queue[l].out_ready \/ l \in hits \/ Forwarding(l) # {}
                      \/ Issued("load", l, N) # {} /\ Located(l).at = Outside
    /\ a.ready_for_mem => load_queue[l].ready_for_mem \/ GoesToMemory(l)
    /\ a.age_addr_match = (load_queue[l].age_addr_match \ Elsewhere(d, l)) \ Leaving

LEMMA LoadGoesOnIs ==
    ASSUME LsqInv, NEW d, NEW l \in LoadSlots, NEW accepted, NEW hits, NEW k,
           NEW a, a = Moved(n_load(d, l, accepted, hits), k)
    PROVE  LoadGoesOn(d, l, a, accepted, hits)
<1>1. PICK b : b = Located(l) /\ b = LocatedBy(l, N)
    BY DEF Located
<1>2. /\ DOMAIN b = LoadFields
      /\ b.age_addr_match = load_queue[l].age_addr_match
      /\ b.out_ready = load_queue[l].out_ready
      /\ b.ready_for_mem = load_queue[l].ready_for_mem
    <2>1. LocatedFrom(b, l, N)
        BY <1>1, LocatedFields DEF LsqInv
    <2> QED BY <2>1 DEF LocatedFrom
<1>3. PICK value : value = n_value(l, accepted, hits)
    OBVIOUS
<1>4. PICK ready : ready = (\/ b.out_ready \/ l \in hits \/ Forwarding(l) # {}
                            \/ Issued("load", l, N) # {} /\ b.at = Outside)
    OBVIOUS
<1>5. PICK mem : mem = (b.ready_for_mem \/ GoesToMemory(l))
    OBVIOUS
<1>6. PICK ages : ages = (b.age_addr_match \ Elsewhere(d, l)) \ Leaving
    OBVIOUS
<1>7. n_load(d, l, accepted, hits) = Answers(b, value, ready, mem, ages)
    <2>1. n_load(d, l, accepted, hits) =
            [b EXCEPT !.value = n_value(l, accepted, hits),
                      !.out_ready = (\/ b.out_ready \/ l \in hits \/ Forwarding(l) # {}
                                     \/ Issued("load", l, N) # {} /\ b.at = Outside),
                      !.ready_for_mem = (b.ready_for_mem \/ GoesToMemory(l)),
                      !.age_addr_match = (b.age_addr_match \ Elsewhere(d, l)) \ Leaving]
        BY <1>1, Zenon DEF n_load, n_value
    <2> QED BY <2>1, <1>3, <1>4, <1>5, <1>6, Zenon DEF Answers
<1>8. a = Moved(Answers(b, value, ready, mem, ages), k)
    BY <1>7, Zenon
<1>9. /\ a.at = b.at /\ a.size = b.size /\ a.has_address = b.has_address
      /\ a.value = value /\ a.out_ready = ready /\ a.ready_for_mem = mem
      /\ a.age_addr_match = ages
    <2>1. PICK e : e = Answers(b, value, ready, mem, ages)
        OBVIOUS
    <2>2. /\ DOMAIN e = LoadFields
          /\ e.at = b.at /\ e.size = b.size /\ e.has_address = b.has_address
          /\ e.value = value /\ e.out_ready = ready /\ e.ready_for_mem = mem
          /\ e.age_addr_match = ages
        BY <1>2, <2>1 DEF Answers, LoadFields, StoreFields
    <2>3. PICK x : x = IF e.valid THEN e.rob_entry - k ELSE e.rob_entry
        OBVIOUS
    <2>4. a = [e EXCEPT !.rob_entry = x]
        BY <1>8, <2>1, <2>3, Zenon DEF Moved
    <2> QED BY <2>2, <2>4 DEF LoadFields, StoreFields
<1>10. a.out_ready => \/ load_queue[l].out_ready \/ l \in hits \/ Forwarding(l) # {}
                      \/ Issued("load", l, N) # {} /\ Located(l).at = Outside
    BY <1>1, <1>2, <1>4, <1>9, Zenon
<1>11. a.ready_for_mem => load_queue[l].ready_for_mem \/ GoesToMemory(l)
    BY <1>2, <1>5, <1>9, Zenon
<1> QED BY <1>1, <1>2, <1>3, <1>6, <1>9, <1>10, <1>11 DEF LoadGoesOn

\* A load of the group, with the older stores that do not leave at the edge.
LoadEnters(a, d, i, e) ==
    /\ a.valid /\ ~a.out_ready /\ ~a.ready_for_mem /\ ~a.has_address
    /\ a.rob_entry = e
    /\ a.age_addr_match = OlderStores(d, i) \ Leaving

\* Where a slot of the load queue stands after the edge.
LEMMA LoadTable ==
    ASSUME LsqInv, NEW d, NEW gnt, NEW accepted, NEW hits, NEW give, NEW sel,
           NEW issue, NEW others, NEW k,
           LoadEdge(d, gnt, accepted, hits, give, sel, issue, others, k),
           NEW l \in LoadSlots
    PROVE  \/ /\ l \in Range(give) /\ load_queue[l].valid /\ load_queue[l].out_ready
              /\ load_queue'[l] = NoLoad
              /\ \A i \in Of(d, "load") : gnt[i] # l
           \/ /\ l \notin Range(give) /\ ~load_queue[l].valid
              /\ \E i \in Of(d, "load") :
                    gnt[i] = l /\ LoadEnters(load_queue'[l], d, i, Len(rob) + i - k)
           \/ /\ l \notin Range(give) /\ load_queue[l].valid
              /\ \A i \in Of(d, "load") : gnt[i] # l
              /\ LoadStays(l, load_queue'[l], k)
              /\ LoadGoesOn(d, l, load_queue'[l], accepted, hits)
           \/ /\ l \notin Range(give) /\ ~load_queue[l].valid /\ load_queue'[l] = NoLoad
              /\ \A i \in Of(d, "load") : gnt[i] # l
<1> DEFINE T == DispatchedTo(d, gnt, l)
           i == CHOOSE w \in T : TRUE
           e == Len(rob) + i - k
           new == NewLoad(d, i, e)
<1>0. Loads(rob, load_queue) /\ Registers(rob) /\ Given(give)
    BY DEF LsqInv, LoadEdge, Edge
<1>1. T = {j \in Of(d, "load") : gnt[j] = l}
    BY DEF DispatchedTo
<1>2. load_queue'[l] = IF l \in Range(give) THEN NoLoad
          ELSE IF T # {} THEN [new EXCEPT !.age_addr_match = @ \ Leaving]
          ELSE IF load_queue[l].valid THEN Moved(n_load(d, l, accepted, hits), k)
          ELSE NoLoad
    BY DEF n_load_queue, LoadEdge, Edge
<1>3. T # {} => i \in T
    OBVIOUS
<1>4. ASSUME l \notin Range(give), T # {}
      PROVE  LoadEnters(load_queue'[l], d, i, e)
    <2>1. PICK o : o = OlderStores(d, i)
        OBVIOUS
    <2>2. new = [NoLoad EXCEPT !.valid = TRUE, !.rob_entry = e, !.age_addr_match = o]
        BY <2>1 DEF NewLoad
    <2>3. PICK a : a = load_queue'[l]
        OBVIOUS
    <2>4. a = [new EXCEPT !.age_addr_match = @ \ Leaving]
        BY <1>2, <1>4, <2>3
    <2>5. /\ a.valid /\ ~a.out_ready /\ ~a.ready_for_mem /\ ~a.has_address
          /\ a.rob_entry = e /\ a.age_addr_match = o \ Leaving
        <3> HIDE DEF T, i, e, new
        <3> QED BY <2>2, <2>4 DEF NoLoad
    <2> HIDE DEF T, i, e, new
    <2> QED BY <2>1, <2>3, <2>5 DEF LoadEnters
<1>5. \A j \in Of(d, "load") : ~load_queue[gnt[j]].valid
    BY DEF LoadEdge
<1>6. l \in Range(give) => load_queue[l].valid /\ load_queue[l].out_ready
    BY <1>0 DEF LoadEdge, Given, Range
<1> HIDE DEF T, new
<1>7. CASE l \in Range(give)
    BY <1>2, <1>5, <1>6, <1>7
<1>8. CASE l \notin Range(give) /\ T # {}
    <2>1. i \in Of(d, "load") /\ gnt[i] = l
        BY <1>1, <1>3, <1>8
    <2> HIDE DEF i
    <2> QED BY <1>4, <1>5, <1>8, <2>1
<1> HIDE DEF i, e
<1>9. CASE l \notin Range(give) /\ T = {} /\ load_queue[l].valid
    <2>1. PICK a : a = load_queue'[l]
        OBVIOUS
    <2>2. a = Moved(n_load(d, l, accepted, hits), k)
        BY <1>2, <1>9, <2>1
    <2>3. LoadStays(l, a, k)
        BY <1>0, <1>9, <2>2, LoadStaysIs
    <2>4. LoadGoesOn(d, l, a, accepted, hits)
        BY <2>2, LoadGoesOnIs
    <2> QED BY <1>1, <1>9, <2>1, <2>3, <2>4
<1>10. CASE l \notin Range(give) /\ T = {} /\ ~load_queue[l].valid
    BY <1>1, <1>2, <1>10
<1> QED BY <1>7, <1>8, <1>9, <1>10

\* An output that holds a load's result holds the value from where it comes.
LEMMA OutTable ==
    ASSUME LsqInv, NEW d, NEW gnt, NEW accepted, NEW hits, NEW give, NEW sel,
           NEW issue, NEW others, NEW k,
           LoadEdge(d, gnt, accepted, hits, give, sel, issue, others, k),
           NEW i \in Ways, out'[i].valid
    PROVE  \/ /\ i \notin sel /\ out[i].valid
              /\ out'[i].rob_entry = out[i].rob_entry - k /\ out'[i].value = out[i].value
           \/ \E s \in Leaving : out'[i].rob_entry = store_queue[s].rob_entry - k
           \/ /\ i \in DOMAIN give
              /\ out'[i].rob_entry = load_queue[give[i]].rob_entry - k
              /\ out'[i].value = load_queue[give[i]].value
<1>0. DOMAIN out[i] = OutFields
    BY DEF LsqInv, Results
<1>1. out'[i] =
          IF i \in sel THEN NoOut
          ELSE IF out[i].valid THEN Moved(out[i], k)
          ELSE IF i = StoreOutput /\ Leaving # {}
          THEN [valid |-> TRUE, value |-> <<>>,
                rob_entry |-> store_queue[CHOOSE s \in Leaving : TRUE].rob_entry - k]
          ELSE IF i \in DOMAIN give
          THEN [valid |-> TRUE, value |-> load_queue[give[i]].value,
                rob_entry |-> load_queue[give[i]].rob_entry - k]
          ELSE NoOut
    BY DEF n_out, LoadEdge, Edge
<1>2. ~NoOut.valid
    BY DEF NoOut
<1>3. CASE i \notin sel /\ out[i].valid
    BY <1>0, <1>1, <1>3 DEF Moved, OutFields
<1>4. CASE i \notin sel /\ ~out[i].valid /\ i = StoreOutput /\ Leaving # {}
    <2>1. PICK s : s = CHOOSE x \in Leaving : TRUE
        OBVIOUS
    <2>2. s \in Leaving
        BY <1>4, <2>1
    <2>3. out'[i].rob_entry = store_queue[s].rob_entry - k
        BY <1>1, <1>4, <2>1
    <2> QED BY <2>2, <2>3
<1>5. CASE /\ i \notin sel /\ ~out[i].valid /\ ~(i = StoreOutput /\ Leaving # {})
           /\ i \in DOMAIN give
    BY <1>1, <1>5
<1> QED BY <1>1, <1>2, <1>3, <1>4, <1>5

-----------------------------------------------------------------------------
(* The invariant of the loads                                              *)

\* The stores that have left the queue are written, and none has left it
\* before an older one.
StoresPlaced(r, sq) ==
    \A i \in 1..Len(r) : Store(r, i) =>
        /\ ~InStores(sq, i) => r[i].written
        /\ InStores(sq, i) => \A j \in 1..Len(r) : i < j /\ Store(r, j) => InStores(sq, j)

\* What has not been issued is in the slot it was given, without an address.
LoadsPlaced(r, lq) ==
    /\ \A l \in LoadSlots : lq[l].valid => r[lq[l].rob_entry].lsq_index = l
    /\ \A i \in 1..Len(r) : Load(r, i) /\ ~r[i].issued =>
            \E l \in LoadSlots : Has(lq, l, i) /\ ~lq[l].has_address

\* An address in the queue is that of the instruction; nothing goes on without
\* an address.
LoadsLocated(r, lq) ==
    \A l \in LoadSlots : lq[l].valid =>
        /\ lq[l].has_address => SameAs(lq[l], r[lq[l].rob_entry].op)
        /\ lq[l].ready_for_mem \/ lq[l].out_ready => lq[l].has_address

\* A load that has just been issued is on its way to its slot.
LoadsIssued(r, lq, cur) ==
    \A w \in DOMAIN cur : cur[w].kind = "load" =>
        /\ cur[w].index \in LoadSlots
        /\ lq[cur[w].index].valid /\ ~lq[cur[w].index].has_address
        /\ SameAs(cur[w], r[lq[cur[w].index].rob_entry].op)
        /\ r[lq[cur[w].index].rob_entry].issued

\* The addresses of a load and a store are known, and tell them apart.
ToldApart(a, b) == a.has_address /\ b.has_address /\ a.size = b.size /\ a.at # b.at

\* The stores a load waits for are older and may be to its address; an older
\* store it does not wait for is elsewhere; and it goes to memory when it
\* waits for none.
Ages(lq, sq) ==
    \A l \in LoadSlots : lq[l].valid =>
        /\ lq[l].ready_for_mem => lq[l].age_addr_match = {}
        /\ \A s \in lq[l].age_addr_match :
            /\ s \in StoreSlots /\ sq[s].valid /\ sq[s].rob_entry < lq[l].rob_entry
            /\ ~ToldApart(lq[l], sq[s])
        /\ \A s \in StoreSlots : sq[s].valid /\ sq[s].rob_entry < lq[l].rob_entry =>
            s \in lq[l].age_addr_match \/ ToldApart(lq[l], sq[s])

\* Store i is the last one written that covers h.
LastWritten(r, h, i) ==
    /\ Store(r, i) /\ r[i].written /\ h \in Covers(r[i].op)
    /\ \A j \in 1..Len(r) :
        i < j /\ Store(r, j) /\ r[j].written => h \notin Covers(r[j].op)
MemoryHolds(r, mem) ==
    \A h \in Halves : \A i \in 1..Len(r) : LastWritten(r, h, i) => mem[h] = r[i].op.value

\* Store i is older than p and covers h, and is the youngest that does.
Writer(r, p, h, i) == i < p /\ Store(r, i) /\ h \in Covers(r[i].op)
Youngest(r, p, h, i) ==
    Writer(r, p, h, i) /\ \A j \in 1..Len(r) : Writer(r, p, h, j) => j <= i

\* What a load that has no result yet is to read: what the youngest older
\* store in flight writes, or what memory holds if there is none.
Reads(r, mem, p, v) ==
    /\ v = [h \in Covers(r[p].op) |-> v[h]]
    /\ \A h \in Covers(r[p].op) :
        /\ \A i \in 1..Len(r) : Youngest(r, p, h, i) => v[h] = r[i].op.value
        /\ (\A i \in 1..Len(r) : ~Writer(r, p, h, i)) => v[h] = mem[h]
Values(r, mem) ==
    \A p \in 1..Len(r) : Load(r, p) /\ ~r[p].executed => Reads(r, mem, p, r[p].expected)

\* The loads that have their value, in the queue and at the outputs, have that.
Got(r, lq, o) ==
    /\ \A l \in LoadSlots :
        lq[l].valid /\ lq[l].out_ready => lq[l].value = r[lq[l].rob_entry].expected
    /\ \A i \in Ways :
        o[i].valid /\ Load(r, o[i].rob_entry) => o[i].value = r[o[i].rob_entry].expected

LoadInv ==
    /\ StoresPlaced(rob, store_queue) /\ LoadsPlaced(rob, load_queue)
    /\ LoadsLocated(rob, load_queue)
    /\ LoadsIssued(rob, load_queue, cur_instr)
    /\ Ages(load_queue, store_queue)
    /\ MemoryHolds(rob, memory) /\ Values(rob, memory)
    /\ Got(rob, load_queue, out)

\* An address comes once, and is kept.
LEMMA LocatedKept ==
    ASSUME LoadInv, NEW l, load_queue[l].has_address, NEW w
    PROVE  Issued("load", l, w) = {} /\ LocatedBy(l, w) = load_queue[l]
<1>1. Issued("load", l, w) = {}
    BY DEF LoadInv, LoadsIssued, Issued
<1> QED BY <1>1 DEF LocatedBy

-----------------------------------------------------------------------------
(* Where the loads are after the edge                                      *)

LEMMA LoadNew ==
    ASSUME LsqInv, NEW d, NEW gnt, NEW accepted, NEW hits, NEW give, NEW sel,
           NEW issue, NEW others, NEW k,
           LoadEdge(d, gnt, accepted, hits, give, sel, issue, others, k),
           NEW x \in Of(d, "load"), NEW l, l = gnt[x]
    PROVE  l \in LoadSlots /\ LoadEnters(load_queue'[l], d, x, Len(rob) + x - k)
<1>1. l \in LoadSlots /\ ~load_queue[l].valid
    BY DEF LoadEdge, Edge
<1>2. \A y \in Of(d, "load") : gnt[y] = l => y = x
    BY DEF LoadEdge, Edge
<1>3. \E y \in Of(d, "load") :
            gnt[y] = l /\ LoadEnters(load_queue'[l], d, y, Len(rob) + y - k)
    BY <1>1, LoadTable
<1> QED BY <1>1, <1>2, <1>3

\* What a slot of the load queue holds after the edge was in it, or enters.
LEMMA LoadWas ==
    ASSUME LsqInv, NEW d, NEW gnt, NEW accepted, NEW hits, NEW give, NEW sel,
           NEW issue, NEW others, NEW k,
           LoadEdge(d, gnt, accepted, hits, give, sel, issue, others, k),
           NEW l \in LoadSlots, load_queue'[l].valid
    PROVE  \/ /\ ~load_queue[l].valid
              /\ \E x \in Of(d, "load") :
                    gnt[x] = l /\ LoadEnters(load_queue'[l], d, x, Len(rob) + x - k)
           \/ /\ load_queue[l].valid /\ l \notin Range(give)
              /\ load_queue'[l].rob_entry = load_queue[l].rob_entry - k
              /\ LoadStays(l, load_queue'[l], k)
              /\ LoadGoesOn(d, l, load_queue'[l], accepted, hits)
<1>1. load_queue'[l] # NoLoad
    BY DEF NoLoad
<1>2. LoadStays(l, load_queue'[l], k) =>
            load_queue'[l].rob_entry = load_queue[l].rob_entry - k
    BY DEF LoadStays
<1> QED BY <1>1, <1>2, LoadTable

\* What has not been issued is in its slot without an address after the edge.
LEMMA UnissuedLoad ==
    ASSUME LsqInv, LoadInv, NEW d, NEW gnt, NEW accepted, NEW hits, NEW give, NEW sel,
           NEW issue, NEW others, NEW k,
           LoadEdge(d, gnt, accepted, hits, give, sel, issue, others, k),
           NEW i, Load(rob, i), ~rob[i].issued
    PROVE  /\ k < i
           /\ \E l \in LoadSlots : /\ Has(load_queue', l, i - k) /\ rob[i].lsq_index = l
                                   /\ ~load_queue'[l].has_address
<1>1. PICK l \in LoadSlots : Has(load_queue, l, i) /\ ~load_queue[l].has_address
    BY DEF LoadInv, LoadsPlaced, Load
<1>2. load_queue[l].valid /\ i = load_queue[l].rob_entry /\ rob[i].lsq_index = l
    BY <1>1 DEF Has, LoadInv, LoadsPlaced
<1>3. k < i
    BY <1>2, LoadIn
<1>4. Issued("load", l, N) = {}
    BY <1>2 DEF Issued, LoadInv, LoadsIssued
<1>5. Located(l) = load_queue[l]
    BY <1>4 DEF Located, LocatedBy
<1>6. ~load_queue[l].out_ready
    BY <1>1, <1>2 DEF LoadInv, LoadsLocated
<1>7. LoadStays(l, load_queue'[l], k) /\ LoadGoesOn(d, l, load_queue'[l], accepted, hits)
    BY <1>2, <1>6, LoadTable
<1>8. load_queue'[l].has_address = load_queue[l].has_address
    BY <1>5, <1>7 DEF LoadGoesOn
<1>9. Has(load_queue', l, i - k)
    BY <1>2, <1>7 DEF LoadStays, Has
<1> QED BY <1>1, <1>2, <1>3, <1>8, <1>9

LEMMA LoadsPlacedAfter ==
    ASSUME LsqInv, LoadInv, NEW d, NEW gnt, NEW accepted, NEW hits, NEW give, NEW sel,
           NEW issue, NEW others, NEW k,
           LoadEdge(d, gnt, accepted, hits, give, sel, issue, others, k)
    PROVE  LoadsPlaced(rob', load_queue')
<1>0. Group(d)
    BY DEF LoadEdge, Edge
<1>1. ASSUME NEW l \in LoadSlots, load_queue'[l].valid
      PROVE  rob'[load_queue'[l].rob_entry].lsq_index = l
    <2>1. ASSUME NEW x \in Of(d, "load"), gnt[x] = l,
                 LoadEnters(load_queue'[l], d, x, Len(rob) + x - k)
          PROVE  rob'[load_queue'[l].rob_entry].lsq_index = l
        <3>1. x \in 1..Len(d) /\ d[x].kind = "load"
            BY <1>0, OfIs
        <3>2. rob'[Len(rob) + x - k].lsq_index = n_lsq_idxs(d, gnt, x)
            BY <3>1, EntryNew
        <3> QED BY <2>1, <3>1, <3>2 DEF LoadEnters, n_lsq_idxs
    <2>2. ASSUME load_queue[l].valid,
                 load_queue'[l].rob_entry = load_queue[l].rob_entry - k
          PROVE  rob'[load_queue'[l].rob_entry].lsq_index = l
        <3>1. PICK i : i = load_queue[l].rob_entry
            OBVIOUS
        <3>2. i \in 1..Len(rob) /\ k < i
            BY <2>2, <3>1, LoadIn
        <3>3. rob'[i - k].lsq_index = rob[i].lsq_index
            BY <3>2, EntryStays
        <3> QED BY <2>2, <3>1, <3>3 DEF LoadInv, LoadsPlaced
    <2> QED BY <1>1, <2>1, <2>2, LoadWas
<1>2. ASSUME NEW e \in 1..Len(rob'), Load(rob', e), ~rob'[e].issued
      PROVE  \E l \in LoadSlots : Has(load_queue', l, e) /\ ~load_queue'[l].has_address
    <2>1. ASSUME NEW i \in 1..Len(rob), k < i, e = i - k
          PROVE  \E l \in LoadSlots : Has(load_queue', l, e) /\ ~load_queue'[l].has_address
        <3>1. Load(rob, i) /\ ~rob[i].issued
            BY <1>2, <2>1, EntryStays DEF Load
        <3> QED BY <2>1, <3>1, UnissuedLoad
    <2>2. ASSUME NEW x \in 1..Len(d), e = Len(rob) + x - k
          PROVE  \E l \in LoadSlots : Has(load_queue', l, e) /\ ~load_queue'[l].has_address
        <3>1. rob'[e].op = d[x]
            BY <2>2, EntryNew
        <3>2. x \in Of(d, "load")
            BY <1>0, <1>2, <3>1, OfIs DEF Load
        <3>3. gnt[x] \in LoadSlots /\ LoadEnters(load_queue'[gnt[x]], d, x, e)
            BY <2>2, <3>2, LoadNew
        <3> QED BY <3>3 DEF LoadEnters, Has
    <2> QED BY <2>1, <2>2, EntryComes
<1> QED BY <1>1, <1>2 DEF LoadsPlaced

\* A store that is in the queue after the edge was in it and does not leave.
LEMMA InStoresAfter ==
    ASSUME OrderInv, NEW d, NEW gnt, NEW accepted, NEW hits, NEW give, NEW sel,
           NEW issue, NEW others, NEW k,
           LoadEdge(d, gnt, accepted, hits, give, sel, issue, others, k),
           NEW i \in 1..Len(rob), k < i
    PROVE  InStores(store_queue', i - k) <=>
                \E s \in StoreSlots : Has(store_queue, s, i) /\ s \notin Leaving
<1>0. LsqInv /\ Group(d) /\ Len(rob) \in Nat /\ k \in Nat
    BY DEF OrderInv, WriteInv, LsqInv, Buffer, LoadEdge, Edge
<1>1. ASSUME NEW s \in StoreSlots, Has(store_queue', s, i - k)
      PROVE  Has(store_queue, s, i) /\ s \notin Leaving
    <2>1. store_queue'[s].valid /\ store_queue'[s].rob_entry = i - k
        BY <1>1 DEF Has
    <2>2. ASSUME NEW x \in Of(d, "store"), StoreEnters(store_queue'[s], Len(rob) + x - k)
          PROVE  FALSE
        <3>1. x \in 1..Len(d) /\ Len(d) \in Nat
            BY <1>0, OfIs DEF Group
        <3>2. i - k = Len(rob) + x - k
            BY <2>1, <2>2 DEF StoreEnters
        <3> QED BY <1>0, <3>1, <3>2
    <2>3. /\ store_queue[s].valid /\ s \notin Leaving
          /\ store_queue'[s].rob_entry = store_queue[s].rob_entry - k
        BY <2>1, <2>2, StoreWas
    <2>4. PICK j : j = store_queue[s].rob_entry
        OBVIOUS
    <2>5. j \in 1..Len(rob)
        BY <1>0, <2>3, <2>4, StoreIn
    <2>6. j = i
        BY <1>0, <2>1, <2>3, <2>4, <2>5
    <2> QED BY <2>3, <2>4, <2>6 DEF Has
<1>2. ASSUME NEW s \in StoreSlots, Has(store_queue, s, i), s \notin Leaving
      PROVE  Has(store_queue', s, i - k)
    BY <1>2, StoreStill DEF Has
<1> QED BY <1>1, <1>2 DEF InStores

LEMMA StoresPlacedAfter ==
    ASSUME OrderInv, LoadInv, NEW d, NEW gnt, NEW accepted, NEW hits, NEW give, NEW sel,
           NEW issue, NEW others, NEW k,
           LoadEdge(d, gnt, accepted, hits, give, sel, issue, others, k)
    PROVE  StoresPlaced(rob', store_queue')
<1>0. /\ Group(d) /\ LsqInv /\ WriteInv /\ k \in Nat /\ Len(rob) \in Nat
      /\ str_head \in StoreSlots
    BY DEF LoadEdge, Edge, OrderInv, WriteInv, LsqInv, Buffer, Registers
\* what enters is in its slot
<1>1. ASSUME NEW x \in 1..Len(d), d[x].kind = "store"
      PROVE  \E s \in StoreSlots : Has(store_queue', s, Len(rob) + x - k)
    <2>1. x \in Of(d, "store")
        BY <1>0, <1>1, OfIs
    <2>2. PICK s : s = StoreSlot(d, x)
        OBVIOUS
    <2>3. s \in StoreSlots /\ StoreEnters(store_queue'[s], Len(rob) + x - k)
        BY <2>1, <2>2, StoreNew
    <2> QED BY <2>3 DEF StoreEnters, Has
<1>2. ASSUME NEW i \in 1..Len(rob), k < i, Store(rob, i), ~InStores(store_queue', i - k)
      PROVE  rob'[i - k].written
    <2>1. CASE InStores(store_queue, i)
        <3>1. PICK s \in StoreSlots : Has(store_queue, s, i)
            BY <2>1 DEF InStores
        <3>2. s \in Leaving
            BY <1>2, <3>1, InStoresAfter
        <3>3. store_queue[s].valid /\ store_queue[s].out_ready
            BY <3>2, LeavingIs
        <3>4. rob[i].written
            BY <1>0, <3>1, <3>3 DEF WriteInv, Written, Has
        <3> QED BY <1>2, <3>4, EntryStays, <1>0
    <2>2. CASE ~InStores(store_queue, i)
        <3>1. rob[i].written
            BY <1>2, <2>2 DEF LoadInv, StoresPlaced
        <3> QED BY <1>2, <3>1, EntryStays, <1>0
    <2> QED BY <2>1, <2>2
<1>3. ASSUME NEW i \in 1..Len(rob), k < i, Store(rob, i), InStores(store_queue', i - k),
             NEW j \in 1..Len(rob), i < j, Store(rob, j)
      PROVE  InStores(store_queue', j - k)
    <2>1. PICK s \in StoreSlots : Has(store_queue, s, i) /\ s \notin Leaving
        BY <1>3, InStoresAfter
    <2>2. InStores(store_queue, i)
        BY <2>1 DEF InStores
    <2>3. PICK t \in StoreSlots : Has(store_queue, t, j)
        BY <1>3, <2>2 DEF LoadInv, StoresPlaced, InStores
    <2>4. t \notin Leaving
        <3> SUFFICES ASSUME t \in Leaving PROVE FALSE
            OBVIOUS
        <3>1. t = str_head
            BY <1>0, LeavingHead DEF OrderInv
        <3>2. s # t
            BY <1>3, <2>1, <2>3 DEF Has
        <3>3. AgeFrom(str_head, t) < AgeFrom(str_head, s)
            BY <1>0, <3>1, <3>2, LsqConstants DEF AgeFrom
        <3>4. j < i
            BY <2>1, <2>3, <3>3 DEF OrderInv, QueueInv, Ordered, Has
        <3> QED BY <1>3, <3>4
    <2>5. k < j
        BY <1>0, <1>3
    <2> QED BY <2>3, <2>4, <2>5, InStoresAfter
<1>4. ASSUME NEW e \in 1..Len(rob'), Store(rob', e), ~InStores(store_queue', e)
      PROVE  rob'[e].written
    <2>1. ASSUME NEW i \in 1..Len(rob), k < i, e = i - k
          PROVE  rob'[e].written
        <3>1. Store(rob, i)
            BY <1>0, <1>4, <2>1, EntryStays DEF Store
        <3> QED BY <1>2, <1>4, <2>1, <3>1
    <2>2. ASSUME NEW x \in 1..Len(d), e = Len(rob) + x - k
          PROVE  FALSE
        <3>1. rob'[e].op = d[x]
            BY <1>0, <2>2, EntryNew
        <3>2. d[x].kind = "store"
            BY <1>4, <3>1 DEF Store
        <3> QED BY <1>1, <1>4, <2>2, <3>2 DEF InStores
    <2>3. \/ \E i \in 1..Len(rob) : k < i /\ e = i - k
          \/ \E x \in 1..Len(d) : e = Len(rob) + x - k
        <3>1. LsqInv
            BY <1>0
        <3> QED BY <3>1, EntryComes
    <2> QED BY <2>1, <2>2, <2>3
<1>5. ASSUME NEW e \in 1..Len(rob'), Store(rob', e), InStores(store_queue', e),
             NEW f \in 1..Len(rob'), e < f, Store(rob', f)
      PROVE  InStores(store_queue', f)
    <2>1. ASSUME NEW x \in 1..Len(d), f = Len(rob) + x - k
          PROVE  InStores(store_queue', f)
        <3>1. LsqInv
            BY <1>0
        <3>2. rob'[f].op = d[x]
            BY <2>1, <3>1, EntryNew
        <3>3. d[x].kind = "store"
            BY <1>5, <3>2 DEF Store
        <3> QED BY <1>1, <2>1, <3>3 DEF InStores
    <2>2. ASSUME NEW j \in 1..Len(rob), k < j, f = j - k
          PROVE  InStores(store_queue', f)
        <3>1. PICK i : i = e + k
            OBVIOUS
        <3>2. i \in 1..Len(rob) /\ k < i /\ e = i - k /\ i < j
            BY <1>0, <1>5, <2>2, <3>1
        <3>3. Store(rob, i)
            BY <1>0, <1>5, <3>2, EntryStays DEF Store
        <3>4. Store(rob, j)
            BY <1>0, <1>5, <2>2, EntryStays DEF Store
        <3>5. InStores(store_queue', i - k)
            BY <1>5, <3>2
        <3>6. InStores(store_queue', j - k)
            BY <1>3, <3>2, <3>3, <3>4, <3>5
        <3> QED BY <2>2, <3>6
    <2>3. \/ \E j \in 1..Len(rob) : k < j /\ f = j - k
          \/ \E x \in 1..Len(d) : f = Len(rob) + x - k
        <3>1. LsqInv
            BY <1>0
        <3> QED BY <3>1, EntryComes
    <2> QED BY <2>1, <2>2, <2>3
<1> QED BY <1>4, <1>5 DEF StoresPlaced

\* What is issued at the edge is on its way after it.
LEMMA LoadsIssuedAfter ==
    ASSUME LsqInv, LoadInv, NEW d, NEW gnt, NEW accepted, NEW hits, NEW give, NEW sel,
           NEW issue, NEW others, NEW k,
           LoadEdge(d, gnt, accepted, hits, give, sel, issue, others, k)
    PROVE  LoadsIssued(rob', load_queue', cur_instr')
<1>0. cur_instr' = [w \in DOMAIN issue |-> Instr(issue[w])]
    BY DEF LoadEdge, Edge
<1>1. ASSUME NEW w \in DOMAIN cur_instr', cur_instr'[w].kind = "load", NEW c, c = cur_instr'[w]
      PROVE  /\ c.index \in LoadSlots
             /\ load_queue'[c.index].valid /\ ~load_queue'[c.index].has_address
             /\ SameAs(c, rob'[load_queue'[c.index].rob_entry].op)
             /\ rob'[load_queue'[c.index].rob_entry].issued
    <2>1. PICK i : i = issue[w]
        OBVIOUS
    <2>2. w \in DOMAIN issue /\ c = Instr(i)
        BY <1>0, <1>1, <2>1
    <2>3. i \in 1..Len(rob) /\ ~rob[i].issued /\ i \in Range(issue)
        BY <2>1, <2>2 DEF LoadEdge, Range
    <2>4. c.kind = rob[i].op.kind /\ c.index = rob[i].lsq_index /\ SameAs(c, rob[i].op)
        BY <2>2 DEF Instr, SameAs
    <2>5. Load(rob, i)
        BY <1>1, <2>3, <2>4 DEF Load
    <2>6. k < i
        BY <2>3, <2>5, UnissuedLoad
    <2>7. PICK l \in LoadSlots : /\ Has(load_queue', l, i - k) /\ rob[i].lsq_index = l
                                 /\ ~load_queue'[l].has_address
        BY <2>3, <2>5, UnissuedLoad
    <2>8. rob'[i - k].op = rob[i].op /\ rob'[i - k].issued
        BY <2>3, <2>6, EntryStays
    <2> QED BY <2>4, <2>7, <2>8 DEF Has
<1> QED BY <1>1 DEF LoadsIssued

\* An address that is known, or comes by way w, is that of the instruction.
LEMMA LocatedRight ==
    ASSUME LsqInv, LoadInv, NEW l \in LoadSlots, load_queue[l].valid,
           NEW w, NEW a, a = LocatedBy(l, w), a.has_address
    PROVE  SameAs(a, rob[load_queue[l].rob_entry].op)
<1>0. LocatedFrom(a, l, w)
    BY LocatedFields DEF LsqInv
<1>1. CASE a = load_queue[l]
    BY <1>1 DEF LoadInv, LoadsLocated
<1>2. CASE \E v \in Issued("load", l, w) : a.at = cur_instr[v].at /\ a.size = cur_instr[v].size
    <2>1. PICK v \in Issued("load", l, w) : a.at = cur_instr[v].at /\ a.size = cur_instr[v].size
        BY <1>2
    <2>2. SameAs(cur_instr[v], rob[load_queue[l].rob_entry].op)
        BY DEF LoadInv, LoadsIssued, Issued
    <2> QED BY <2>1, <2>2 DEF SameAs
<1> QED BY <1>0, <1>1, <1>2 DEF LocatedFrom

LEMMA InsideOnly ==
    ASSUME Inside, LsqInv, Near(load_queue), NEW l \in LoadSlots
    PROVE  Located(l).at # Outside
<1>1. \A v \in DOMAIN cur_instr : cur_instr[v].at # Outside
    BY DEF Inside, LsqInv, Registers
<1>2. PICK a : a = Located(l) /\ a = LocatedBy(l, N)
    BY DEF Located
<1>3. LocatedFrom(a, l, N)
    BY <1>2, LocatedFields DEF LsqInv
<1> QED BY <1>1, <1>2, <1>3 DEF LocatedFrom, Near

LEMMA LoadsLocatedAfter ==
    ASSUME Inside, LsqInv, Near(load_queue), LoadInv,
           NEW d, NEW gnt, NEW accepted, NEW hits, NEW give, NEW sel,
           NEW issue, NEW others, NEW k,
           LoadEdge(d, gnt, accepted, hits, give, sel, issue, others, k)
    PROVE  LoadsLocated(rob', load_queue')
<1> SUFFICES ASSUME NEW l \in LoadSlots, load_queue'[l].valid
             PROVE  /\ load_queue'[l].has_address =>
                        SameAs(load_queue'[l], rob'[load_queue'[l].rob_entry].op)
                    /\ load_queue'[l].ready_for_mem \/ load_queue'[l].out_ready =>
                        load_queue'[l].has_address
    BY DEF LoadsLocated
<1>1. CASE \E x \in Of(d, "load") : LoadEnters(load_queue'[l], d, x, Len(rob) + x - k)
    BY <1>1 DEF LoadEnters
<1>2. CASE /\ load_queue[l].valid
           /\ load_queue'[l].rob_entry = load_queue[l].rob_entry - k
           /\ LoadGoesOn(d, l, load_queue'[l], accepted, hits)
    <2>1. PICK i : i = load_queue[l].rob_entry
        OBVIOUS
    <2>2. i \in 1..Len(rob) /\ k < i
        BY <1>2, <2>1, LoadIn
    <2>3. rob'[i - k].op = rob[i].op
        BY <2>2, EntryStays
    <2>4. PICK a : a = Located(l) /\ a = LocatedBy(l, N)
        BY DEF Located
    <2>5. /\ load_queue'[l].at = a.at /\ load_queue'[l].size = a.size
          /\ load_queue'[l].has_address = a.has_address
        BY <1>2, <2>4 DEF LoadGoesOn
    <2>6. ASSUME load_queue'[l].has_address
          PROVE  SameAs(load_queue'[l], rob'[load_queue'[l].rob_entry].op)
        <3>1. a.has_address
            BY <2>5, <2>6
        <3>2. SameAs(a, rob[i].op)
            BY <1>2, <2>1, <2>4, <3>1, LocatedRight
        <3> QED BY <1>2, <2>1, <2>3, <2>5, <3>2 DEF SameAs
    <2>7. load_queue[l].has_address => load_queue'[l].has_address
        BY <2>4, <2>5, LocatedKept
    <2>8. load_queue'[l].ready_for_mem \/ load_queue'[l].out_ready =>
                \/ load_queue[l].ready_for_mem \/ GoesToMemory(l)
                \/ load_queue[l].out_ready \/ l \in hits \/ Forwarding(l) # {}
        BY <1>2, InsideOnly DEF LoadGoesOn
    <2>9. l \in hits => load_queue[l].ready_for_mem
        BY DEF LoadEdge, load_mem_rdy
    <2>10. load_queue[l].ready_for_mem \/ load_queue[l].out_ready => load_queue[l].has_address
        BY <1>2 DEF LoadInv, LoadsLocated
    <2>11. GoesToMemory(l) \/ Forwarding(l) # {} => load_queue[l].has_address
        BY DEF GoesToMemory, Forwarding
    <2> QED BY <2>6, <2>7, <2>8, <2>9, <2>10, <2>11
<1> QED BY <1>1, <1>2, LoadWas

-----------------------------------------------------------------------------
(* Which stores a load waits for                                           *)

\* What lies between head and tail are the slots that hold a store.
LEMMA InQueueIs ==
    ASSUME OrderInv, NEW s \in StoreSlots
    PROVE  InQueue(s) <=> store_queue[s].valid
<1>1. PICK c \in 0..STORE_QUEUE_SIZE : Holding(store_queue, str_head, str_tail, c)
    BY DEF OrderInv, QueueInv
<1>2. str_head \in StoreSlots
    BY DEF OrderInv, WriteInv, LsqInv, Registers
<1>3. /\ str_tail = Wrap(str_head + c)
      /\ store_queue[s].valid <=> AgeFrom(str_head, s) < c
      /\ store_queue[str_head].valid <=> AgeFrom(str_head, str_head) < c
    BY <1>1, <1>2 DEF Holding
<1>4. AgeFrom(str_head, str_head) = 0
    BY <1>2, LsqConstants DEF AgeFrom
<1>5. store_queue[str_head].valid <=> 0 < c
    BY <1>3, <1>4
<1>6. PICK held \in BOOLEAN : held <=> store_queue[str_head].valid
    OBVIOUS
<1>7. InQueue(s) <=> IF str_head < str_tail \/ (str_head = str_tail /\ ~held)
                     THEN str_head <= s /\ s < str_tail
                     ELSE s >= str_head \/ s < str_tail
    BY <1>6 DEF InQueue
<1>8. held <=> 0 < c
    BY <1>5, <1>6
<1>9. (IF str_head < str_tail \/ (str_head = str_tail /\ ~held)
       THEN str_head <= s /\ s < str_tail
       ELSE s >= str_head \/ s < str_tail) <=> AgeFrom(str_head, s) < c
    BY <1>2, <1>3, <1>8, LsqConstants DEF AgeFrom, Wrap
<1> QED BY <1>3, <1>7, <1>9

LEMMA ConflictsAre ==
    ASSUME OrderInv, LoadInv, NEW l \in LoadSlots, load_queue[l].valid
    PROVE  Conflicts(l) = load_queue[l].age_addr_match
<1>1. \A s \in load_queue[l].age_addr_match : s \in StoreSlots /\ store_queue[s].valid
    BY DEF LoadInv, Ages
<1> QED BY <1>1, InQueueIs DEF Conflicts

\* One of several conflicting stores is the youngest, so a load that finds none
\* waits for none.
LEMMA GoesAlone ==
    ASSUME OrderInv, LoadInv, NEW l \in LoadSlots, load_queue[l].valid, GoesToMemory(l)
    PROVE  load_queue[l].age_addr_match = {}
<1> SUFFICES ASSUME load_queue[l].age_addr_match # {} PROVE FALSE
    OBVIOUS
<1> DEFINE C == load_queue[l].age_addr_match
           S == {Age(t) + 1 : t \in C}
<1>1. \A s \in C : s \in StoreSlots
    BY DEF LoadInv, Ages
<1>2. str_head \in StoreSlots
    BY DEF OrderInv, WriteInv, LsqInv, Registers
<1>3. \A s \in C : Age(s) \in StoreSlots
    BY <1>1, <1>2, AgeIs, AgeOfSlot
<1>4. Conflicts(l) = C
    BY ConflictsAre
<1>5. S \in SUBSET (1..STORE_QUEUE_SIZE) /\ S # {}
    <2>1. \A s \in C : Age(s) + 1 \in 1..STORE_QUEUE_SIZE
        BY <1>3, LsqConstants
    <2>2. C # {}
        OBVIOUS
    <2> HIDE DEF C
    <2> QED BY <2>1, <2>2
<1> HIDE DEF C
<1>6. PICK m \in S : \A x \in S : x <= m
    BY <1>5, MaxExists, LsqConstants
<1>7. PICK s \in C : m = Age(s) + 1
    BY <1>6
<1>8. \A t \in C : Age(t) + 1 <= Age(s) + 1
    BY <1>6, <1>7
<1>9. \A t \in C : Age(t) \in Int
    BY <1>3, LsqConstants
<1>10. \A t \in C : Age(t) <= Age(s)
    BY <1>8, <1>9
<1>11. s \in index1(l)
    BY <1>4, <1>10 DEF index1
<1> QED BY <1>11 DEF GoesToMemory

\* What way w knows of an address, the edge keeps.
LEMMA IssuedGrows ==
    ASSUME Registers(rob), NEW kind, NEW index, NEW w
    PROVE  Issued(kind, index, w) \subseteq Issued(kind, index, N)
BY LsqConstants DEF Registers, Ways, Issued

LEMMA LocatedKnown ==
    ASSUME LsqInv, LoadInv, NEW l \in LoadSlots, load_queue[l].valid,
           NEW w, NEW a, a = LocatedBy(l, w), a.has_address, NEW b, b = Located(l)
    PROVE  b.has_address /\ b.at = a.at /\ b.size = a.size
<1>0. Loads(rob, load_queue) /\ Registers(rob) /\ b = LocatedBy(l, N)
    BY DEF LsqInv, Located
<1>1. SameAs(a, rob[load_queue[l].rob_entry].op)
    BY LocatedRight
<1>2. LocatedFrom(a, l, w) /\ LocatedFrom(b, l, N)
    BY <1>0, LocatedFields
<1>3. CASE Issued("load", l, w) = {}
    <2>1. a = load_queue[l]
        BY <1>2, <1>3 DEF LocatedFrom
    <2>2. b = load_queue[l]
        BY <1>0, <2>1, LocatedKept
    <2> QED BY <2>1, <2>2
<1>4. CASE Issued("load", l, w) # {}
    <2>1. Issued("load", l, N) # {}
        BY <1>0, <1>4, IssuedGrows
    <2>2. b.has_address
        BY <1>2, <2>1 DEF LocatedFrom
    <2>3. SameAs(b, rob[load_queue[l].rob_entry].op)
        BY <1>0, <2>2, LocatedRight
    <2> QED BY <1>1, <2>2, <2>3 DEF SameAs
<1> QED BY <1>3, <1>4

LEMMA AddressedKnown ==
    ASSUME Inside, OrderInv, NEW d, Group(d), NEW s \in StoreSlots, store_queue[s].valid,
           NEW w, NEW a, a = AddressedBy(d, s, w), a.has_address, NEW b, b = Addressed(d, s)
    PROVE  b.has_address /\ b.at = a.at /\ b.size = a.size
<1>0. Registers(rob) /\ b = AddressedBy(d, s, N)
    BY DEF OrderInv, WriteInv, LsqInv, Addressed
<1>1. SameAs(a, rob[store_queue[s].rob_entry].op)
    <2>1. AddressedBy(d, s, w).has_address
        OBVIOUS
    <2>2. SameAs(AddressedBy(d, s, w), rob[store_queue[s].rob_entry].op)
        BY <2>1, AddressedRight
    <2> QED BY <2>2
<1>2. CASE Issued("store", s, w) = {}
    <2>1. a = store_queue[s]
        BY <1>2, AddressedIs
    <2>2. AddressedBy(d, s, N) = store_queue[s]
        BY <2>1, AddressedKept
    <2> QED BY <1>0, <2>1, <2>2
<1>3. CASE Issued("store", s, w) # {}
    <2>1. Issued("store", s, N) # {}
        BY <1>0, <1>3, IssuedGrows
    <2>2. b.has_address
        BY <1>0, <2>1, AddressedIs
    <2>3. AddressedBy(d, s, N).has_address
        BY <1>0, <2>2
    <2>4. SameAs(AddressedBy(d, s, N), rob[store_queue[s].rob_entry].op)
        BY <2>3, AddressedRight
    <2> QED BY <1>0, <1>1, <2>2, <2>4 DEF SameAs
<1> QED BY <1>2, <1>3

\* The last way that brings one of two addresses knows what the edge knows.
LEMMA ElsewhereAtLast ==
    ASSUME Registers(rob), NEW d, NEW l, NEW s,
           Issued("load", l, N) \cup Issued("store", s, N) # {}
    PROVE  \E w \in DOMAIN cur_instr :
                /\ w \in Issued("load", l, w) \/ w \in Issued("store", s, w)
                /\ LocatedBy(l, w) = Located(l) /\ AddressedBy(d, s, w) = Addressed(d, s)
<1>1. PICK W : W = Issued("load", l, N) \cup Issued("store", s, N)
    OBVIOUS
<1>2. W \in SUBSET (1..N) /\ W # {} /\ N \in Int
    BY <1>1, LsqConstants DEF Registers, Issued, Ways
<1>3. PICK w \in W : \A x \in W : x <= w
    BY <1>2, MaxExists
<1>4. Issued("load", l, w) = Issued("load", l, N)
    <2>1. \A v \in Issued("load", l, N) : v <= w
        BY <1>1, <1>3
    <2> QED BY <2>1, IssuedGrows DEF Issued
<1>5. Issued("store", s, w) = Issued("store", s, N)
    <2>1. \A v \in Issued("store", s, N) : v <= w
        BY <1>1, <1>3
    <2> QED BY <2>1, IssuedGrows DEF Issued
<1>6. w \in DOMAIN cur_instr /\ (w \in Issued("load", l, w) \/ w \in Issued("store", s, w))
    BY <1>1, <1>3, <1>4, <1>5 DEF Issued
<1>7. LocatedBy(l, w) = LocatedBy(l, N)
    BY <1>4, Zenon DEF LocatedBy
<1>8. AddressedBy(d, s, w) = AddressedBy(d, s, N)
    BY <1>5, Zenon DEF AddressedBy
<1> QED BY <1>6, <1>7, <1>8 DEF Located, Addressed

\* A load and a store that stay are told apart after the edge if they were, or
\* if a way of the edge finds the store elsewhere.
LEMMA ApartStays ==
    ASSUME Inside, OrderInv, LoadInv,
           NEW d, NEW gnt, NEW accepted, NEW hits, NEW give, NEW sel,
           NEW issue, NEW others, NEW k,
           LoadEdge(d, gnt, accepted, hits, give, sel, issue, others, k),
           NEW l \in LoadSlots, load_queue[l].valid,
           LoadGoesOn(d, l, load_queue'[l], accepted, hits),
           NEW s \in StoreSlots, store_queue[s].valid, s \notin Leaving
    PROVE  ToldApart(load_queue'[l], store_queue'[s]) <=>
                ToldApart(load_queue[l], store_queue[s]) \/ s \in Elsewhere(d, l)
<1>0. LsqInv /\ Registers(rob) /\ Group(d)
    BY DEF OrderInv, WriteInv, LsqInv, LoadEdge, Edge
<1>lsq. LsqInv
    BY <1>0
<1>a. PICK a : a = Located(l) /\ a = LocatedBy(l, N)
    BY DEF Located
<1>b. PICK b : b = Addressed(d, s) /\ b = AddressedBy(d, s, N)
    BY DEF Addressed
<1>1. /\ load_queue'[l].at = a.at /\ load_queue'[l].size = a.size
      /\ load_queue'[l].has_address = a.has_address
    BY <1>a DEF LoadGoesOn
<1>2. StoreGoesOn(d, s, store_queue'[s])
    BY StoreStill
<1>3. /\ store_queue'[s].at = b.at /\ store_queue'[s].size = b.size
      /\ store_queue'[s].has_address = b.has_address
    BY <1>2, <1>b DEF StoreGoesOn
<1>4. ToldApart(load_queue'[l], store_queue'[s]) <=> ToldApart(a, b)
    BY <1>1, <1>3 DEF ToldApart
<1>5. ASSUME ToldApart(load_queue[l], store_queue[s])
      PROVE  ToldApart(a, b)
    <2>1. load_queue[l].has_address /\ store_queue[s].has_address
        BY <1>5 DEF ToldApart
    <2>2. a = load_queue[l]
        BY <1>a, <2>1, LocatedKept
    <2>3. b = store_queue[s]
        BY <1>0, <1>b, <2>1, AddressedKept
    <2> QED BY <1>5, <2>2, <2>3
<1>6. ASSUME s \in Elsewhere(d, l)
      PROVE  ToldApart(a, b)
    <2>1. PICK w : /\ LocatedBy(l, w).has_address /\ AddressedBy(d, s, w).has_address
                   /\ LocatedBy(l, w).size = AddressedBy(d, s, w).size
                   /\ LocatedBy(l, w).at # AddressedBy(d, s, w).at
        BY <1>6 DEF Elsewhere
    <2>2. PICK x, y : x = LocatedBy(l, w) /\ y = AddressedBy(d, s, w)
        OBVIOUS
    <2>3. x.has_address /\ y.has_address /\ x.size = y.size /\ x.at # y.at
        BY <2>1, <2>2
    <2>4. a.has_address /\ a.at = x.at /\ a.size = x.size
        <3>1. x = LocatedBy(l, w) /\ x.has_address /\ a = Located(l)
            BY <1>a, <2>2, <2>3
        <3> QED BY <1>lsq, <3>1, LocatedKnown
    <2>5. b.has_address /\ b.at = y.at /\ b.size = y.size
        <3>1. y = AddressedBy(d, s, w) /\ y.has_address /\ b = Addressed(d, s)
            BY <1>b, <2>2, <2>3
        <3> QED BY <1>0, <3>1, AddressedKnown
    <2> QED BY <2>3, <2>4, <2>5 DEF ToldApart
<1>7. ASSUME ToldApart(a, b), ~ToldApart(load_queue[l], store_queue[s])
      PROVE  s \in Elsewhere(d, l)
    <2>1. Issued("load", l, N) \cup Issued("store", s, N) # {}
        <3> SUFFICES ASSUME Issued("load", l, N) = {}, Issued("store", s, N) = {}
                     PROVE  FALSE
            OBVIOUS
        <3>1. a = load_queue[l]
            BY <1>a DEF LocatedBy
        <3>2. b = store_queue[s]
            BY <1>0, <1>b, AddressedIs
        <3> QED BY <1>7, <3>1, <3>2
    <2>2. PICK w \in DOMAIN cur_instr :
                /\ w \in Issued("load", l, w) \/ w \in Issued("store", s, w)
                /\ LocatedBy(l, w) = a /\ AddressedBy(d, s, w) = b
        BY <1>0, <1>a, <1>b, <2>1, ElsewhereAtLast
    <2> QED BY <1>7, <2>2 DEF ToldApart, Elsewhere
<1> QED BY <1>4, <1>5, <1>6, <1>7

LEMMA AgesAfter ==
    ASSUME Inside, OrderInv, LoadInv,
           NEW d, NEW gnt, NEW accepted, NEW hits, NEW give, NEW sel,
           NEW issue, NEW others, NEW k,
           LoadEdge(d, gnt, accepted, hits, give, sel, issue, others, k)
    PROVE  Ages(load_queue', store_queue')
<1>0. /\ LsqInv /\ Group(d) /\ Len(rob) \in Nat /\ k \in Nat /\ Len(d) \in Nat
    BY DEF OrderInv, WriteInv, LsqInv, Buffer, LoadEdge, Edge, Group
<1>lsq. LsqInv
    BY <1>0
<1> SUFFICES ASSUME NEW l \in LoadSlots, load_queue'[l].valid
             PROVE  /\ load_queue'[l].ready_for_mem => load_queue'[l].age_addr_match = {}
                    /\ \A s \in load_queue'[l].age_addr_match :
                        /\ s \in StoreSlots /\ store_queue'[s].valid
                        /\ store_queue'[s].rob_entry < load_queue'[l].rob_entry
                        /\ ~ToldApart(load_queue'[l], store_queue'[s])
                    /\ \A s \in StoreSlots :
                        /\ store_queue'[s].valid
                        /\ store_queue'[s].rob_entry < load_queue'[l].rob_entry
                        => \/ s \in load_queue'[l].age_addr_match
                           \/ ToldApart(load_queue'[l], store_queue'[s])
    BY DEF Ages
\* a load of the group
<1>1. ASSUME NEW x \in Of(d, "load"), LoadEnters(load_queue'[l], d, x, Len(rob) + x - k)
      PROVE  /\ ~load_queue'[l].ready_for_mem
             /\ \A s \in load_queue'[l].age_addr_match :
                    /\ s \in StoreSlots /\ store_queue'[s].valid
                    /\ store_queue'[s].rob_entry < load_queue'[l].rob_entry
                    /\ ~ToldApart(load_queue'[l], store_queue'[s])
             /\ \A s \in StoreSlots :
                    /\ store_queue'[s].valid
                    /\ store_queue'[s].rob_entry < load_queue'[l].rob_entry
                    => s \in load_queue'[l].age_addr_match
    <2>1. /\ ~load_queue'[l].ready_for_mem /\ ~load_queue'[l].has_address
          /\ load_queue'[l].rob_entry = Len(rob) + x - k
          /\ load_queue'[l].age_addr_match = OlderStores(d, x) \ Leaving
        BY <1>1 DEF LoadEnters
    <2>2. x \in 1..Len(d)
        BY <1>0, OfIs
    <2>3. ASSUME NEW s \in OlderStores(d, x) \ Leaving
          PROVE  /\ s \in StoreSlots /\ store_queue'[s].valid
                 /\ store_queue'[s].rob_entry < Len(rob) + x - k
        <3>1. CASE s \in StoreSlots /\ store_queue[s].valid
            <4>1. Has(store_queue', s, store_queue[s].rob_entry - k)
                BY <2>3, <3>1, StoreStill
            <4>2. PICK i : i = store_queue[s].rob_entry
                OBVIOUS
            <4>3. i \in 1..Len(rob)
                BY <1>lsq, <3>1, <4>2, StoreIn
            <4>4. i - k < Len(rob) + x - k
                BY <1>0, <2>2, <4>3
            <4> QED BY <3>1, <4>1, <4>2, <4>4 DEF Has
        <3>2. CASE ~(s \in StoreSlots /\ store_queue[s].valid)
            <4>1. PICK y \in Of(d, "store") : y < x /\ s = StoreSlot(d, y)
                BY <2>3, <3>2 DEF OlderStores
            <4>2. s \in StoreSlots /\ StoreEnters(store_queue'[s], Len(rob) + y - k)
                BY <4>1, StoreNew
            <4>3. y \in 1..Len(d)
                BY <1>0, OfIs
            <4>4. Len(rob) + y - k < Len(rob) + x - k
                BY <1>0, <2>2, <4>1, <4>3
            <4> QED BY <4>2, <4>4 DEF StoreEnters
        <3> QED BY <3>1, <3>2
    <2>4. ASSUME NEW s \in StoreSlots, store_queue'[s].valid,
                 store_queue'[s].rob_entry < Len(rob) + x - k
          PROVE  s \in OlderStores(d, x) \ Leaving
        <3>1. ASSUME NEW y \in Of(d, "store"), StoreSlot(d, y) = s, ~store_queue[s].valid,
                     StoreEnters(store_queue'[s], Len(rob) + y - k)
              PROVE  s \in OlderStores(d, x) \ Leaving
            <4>1. y \in 1..Len(d)
                BY <1>0, OfIs
            <4>2. Len(rob) + y - k < Len(rob) + x - k
                BY <2>4, <3>1 DEF StoreEnters
            <4>3. y < x
                BY <1>0, <2>2, <4>1, <4>2
            <4>4. s \notin Leaving
                BY <3>1, LeavingIs
            <4> QED BY <3>1, <4>3, <4>4 DEF OlderStores
        <3>2. CASE store_queue[s].valid /\ s \notin Leaving
            BY <3>2 DEF OlderStores
        <3> QED BY <2>4, <3>1, <3>2, StoreWas
    <2>5. \A s : ~ToldApart(load_queue'[l], store_queue'[s])
        BY <2>1 DEF ToldApart
    <2> QED BY <2>1, <2>3, <2>4, <2>5
\* a load that stays
<1>2. ASSUME load_queue[l].valid,
             load_queue'[l].rob_entry = load_queue[l].rob_entry - k,
             LoadGoesOn(d, l, load_queue'[l], accepted, hits)
      PROVE  /\ load_queue'[l].ready_for_mem => load_queue'[l].age_addr_match = {}
             /\ \A s \in load_queue'[l].age_addr_match :
                    /\ s \in StoreSlots /\ store_queue'[s].valid
                    /\ store_queue'[s].rob_entry < load_queue'[l].rob_entry
                    /\ ~ToldApart(load_queue'[l], store_queue'[s])
             /\ \A s \in StoreSlots :
                    /\ store_queue'[s].valid
                    /\ store_queue'[s].rob_entry < load_queue'[l].rob_entry
                    => \/ s \in load_queue'[l].age_addr_match
                       \/ ToldApart(load_queue'[l], store_queue'[s])
    <2>1. PICK i : i = load_queue[l].rob_entry
        OBVIOUS
    <2>2. i \in 1..Len(rob) /\ k < i
        BY <1>lsq, <1>2, <2>1, LoadIn
    <2>3. load_queue'[l].rob_entry = i - k
        BY <1>2, <2>1
    <2>4. PICK ages : ages = load_queue[l].age_addr_match
        OBVIOUS
    <2>5. load_queue'[l].age_addr_match = (ages \ Elsewhere(d, l)) \ Leaving
        BY <1>2, <2>4 DEF LoadGoesOn
    <2>6. load_queue'[l].ready_for_mem => ages = {}
        <3>1. load_queue[l].ready_for_mem => ages = {}
            BY <1>2, <2>4 DEF LoadInv, Ages
        <3>2. GoesToMemory(l) => ages = {}
            BY <1>2, <2>4, GoesAlone
        <3> QED BY <1>2, <3>1, <3>2 DEF LoadGoesOn
    <2>7. \A s \in ages : /\ s \in StoreSlots /\ store_queue[s].valid
                          /\ store_queue[s].rob_entry < i
                          /\ ~ToldApart(load_queue[l], store_queue[s])
        BY <1>2, <2>1, <2>4 DEF LoadInv, Ages
    <2>8. ASSUME NEW s \in (ages \ Elsewhere(d, l)) \ Leaving
          PROVE  /\ s \in StoreSlots /\ store_queue'[s].valid
                 /\ store_queue'[s].rob_entry < i - k
                 /\ ~ToldApart(load_queue'[l], store_queue'[s])
        <3>1. /\ s \in StoreSlots /\ store_queue[s].valid /\ s \notin Leaving
              /\ ~ToldApart(load_queue[l], store_queue[s]) /\ s \notin Elsewhere(d, l)
            BY <2>7, <2>8
        <3>2. Has(store_queue', s, store_queue[s].rob_entry - k)
            BY <3>1, StoreStill
        <3>3. PICK j : j = store_queue[s].rob_entry
            OBVIOUS
        <3>4. j \in 1..Len(rob)
            BY <1>lsq, <3>1, <3>3, StoreIn
        <3>5. j < i
            BY <2>7, <2>8, <3>3
        <3>6. j - k < i - k
            BY <1>0, <2>2, <3>4, <3>5
        <3>7. ~ToldApart(load_queue'[l], store_queue'[s])
            BY <1>2, <3>1, ApartStays
        <3> QED BY <3>1, <3>2, <3>3, <3>6, <3>7 DEF Has
    <2>9. ASSUME NEW s \in StoreSlots, store_queue'[s].valid,
                 store_queue'[s].rob_entry < i - k
          PROVE  \/ s \in (ages \ Elsewhere(d, l)) \ Leaving
                 \/ ToldApart(load_queue'[l], store_queue'[s])
        <3>1. ASSUME NEW y \in Of(d, "store"), StoreEnters(store_queue'[s], Len(rob) + y - k)
              PROVE  FALSE
            <4>1. y \in 1..Len(d)
                BY <1>0, OfIs
            <4>2. Len(rob) + y - k < i - k
                BY <2>9, <3>1 DEF StoreEnters
            <4> QED BY <1>0, <2>2, <4>1, <4>2
        <3>2. /\ store_queue[s].valid /\ s \notin Leaving
              /\ store_queue'[s].rob_entry = store_queue[s].rob_entry - k
            BY <2>9, <3>1, StoreWas
        <3>3. PICK j : j = store_queue[s].rob_entry
            OBVIOUS
        <3>4. j \in 1..Len(rob)
            BY <1>lsq, <3>2, <3>3, StoreIn
        <3>5. j < i
            BY <1>0, <2>2, <2>9, <3>2, <3>3, <3>4
        <3>6. s \in ages \/ ToldApart(load_queue[l], store_queue[s])
            BY <1>2, <2>1, <2>4, <3>2, <3>3, <3>5 DEF LoadInv, Ages
        <3>7. ToldApart(load_queue[l], store_queue[s]) \/ s \in Elsewhere(d, l)
                => ToldApart(load_queue'[l], store_queue'[s])
            BY <1>2, <3>2, ApartStays
        <3> QED BY <3>2, <3>6, <3>7
    <2> QED BY <2>3, <2>5, <2>6, <2>8, <2>9
<1> QED BY <1>lsq, <1>1, <1>2, LoadWas

-----------------------------------------------------------------------------
(* What memory holds                                                       *)

\* Store q is the one that is written at the edge.
Writes(accepted, q) == \E s \in accepted : store_queue[s].rob_entry = q

LEMMA EntryWritten ==
    ASSUME LsqInv, NEW d, NEW gnt, NEW accepted, NEW hits, NEW give, NEW sel,
           NEW issue, NEW others, NEW k,
           LoadEdge(d, gnt, accepted, hits, give, sel, issue, others, k),
           NEW i \in 1..Len(rob), k < i, NEW e, e = i - k
    PROVE  /\ e \in 1..Len(rob')
           /\ rob'[e].written <=> (rob[i].written \/ Writes(accepted, i))
<1>1. /\ e \in 1..Len(rob')
      /\ rob'[e].written <=>
            (rob[i].written \/ \E s \in accepted : store_queue[s].rob_entry = i)
    BY EntryStays
<1> QED BY <1>1, Zenon DEF Writes

LEMMA WritesIs ==
    ASSUME OrderInv, NEW d, NEW gnt, NEW accepted, NEW hits, NEW give, NEW sel,
           NEW issue, NEW others, NEW k,
           LoadEdge(d, gnt, accepted, hits, give, sel, issue, others, k),
           NEW q, Writes(accepted, q)
    PROVE  /\ Store(rob, q) /\ k < q /\ ~rob[q].written
           /\ \A p : Writes(accepted, p) => p = q
<1>0. LsqInv /\ Stores(rob, store_queue) /\ accepted \in {{}, ToWrite}
    BY DEF OrderInv, WriteInv, LsqInv, LoadEdge, Edge
<1>1. PICK s \in accepted : store_queue[s].rob_entry = q
    BY DEF Writes
<1>2. s \in StoreSlots /\ ~store_queue[s].out_ready /\ store_queue[s].valid
    <2>1. s \in StoreSlots /\ ~store_queue[s].out_ready /\ store_queue[s].ready_for_mem
        BY <1>0, ToWriteIs
    <2> QED BY <2>1 DEF OrderInv, Claimed, Blank, Unmarked
<1>3. q \in 1..Len(rob) /\ k < q /\ rob[q].op.kind = "store"
    BY <1>0, <1>1, <1>2, StoreIn
<1>4. ~rob[q].written
    BY <1>1, <1>2 DEF OrderInv, WriteInv, Written
<1>5. \A p : Writes(accepted, p) => p = q
    BY <1>0, <1>1, ToWriteIs DEF Writes
<1> QED BY <1>3, <1>4, <1>5 DEF Store

\* Memory is what it was, but for the halves that this store covers.
LEMMA MemoryIs ==
    ASSUME OrderInv, LoadInv, NEW d, NEW gnt, NEW accepted, NEW hits, NEW give, NEW sel,
           NEW issue, NEW others, NEW k,
           LoadEdge(d, gnt, accepted, hits, give, sel, issue, others, k),
           NEW h \in Halves
    PROVE  \/ \E q : /\ Writes(accepted, q) /\ h \in Covers(rob[q].op)
                     /\ n_memory(accepted)[h] = rob[q].op.value
           \/ /\ n_memory(accepted)[h] = memory[h]
              /\ \A q : Writes(accepted, q) => h \notin Covers(rob[q].op)
<1>0. LsqInv /\ Stores(rob, store_queue) /\ accepted \in {{}, ToWrite}
    BY DEF OrderInv, WriteInv, LsqInv, LoadEdge, Edge
<1>1. n_memory(accepted)[h] =
        IF \E s \in accepted : h \in Covered(store_queue[s].at, store_queue[s].size)
        THEN store_queue[CHOOSE s \in accepted : TRUE].value ELSE memory[h]
    BY DEF n_memory
<1>2. ASSUME NEW s \in accepted
      PROVE  /\ Covers(rob[store_queue[s].rob_entry].op) =
                    Covered(store_queue[s].at, store_queue[s].size)
             /\ store_queue[s].value = rob[store_queue[s].rob_entry].op.value
    <2>1. s \in StoreSlots /\ store_queue[s].valid /\ store_queue[s].ready_for_mem
        <3>1. s \in StoreSlots /\ store_queue[s].ready_for_mem
            BY <1>0, ToWriteIs
        <3> QED BY <3>1 DEF OrderInv, Claimed, Blank, Unmarked
    <2>2. /\ SameAs(store_queue[s], rob[store_queue[s].rob_entry].op)
          /\ store_queue[s].value = rob[store_queue[s].rob_entry].op.value
        BY <2>1 DEF OrderInv, Claimed, StoresLocated
    <2> QED BY <2>2 DEF SameAs, Covers
<1>3. CASE \E s \in accepted : h \in Covered(store_queue[s].at, store_queue[s].size)
    <2>1. PICK s \in accepted : h \in Covered(store_queue[s].at, store_queue[s].size)
        BY <1>3
    <2>2. s = CHOOSE t \in accepted : TRUE
        BY <1>0, <2>1, ToWriteIs
    <2>3. n_memory(accepted)[h] = store_queue[s].value
        BY <1>1, <1>3, <2>2
    <2>4. PICK q : q = store_queue[s].rob_entry
        OBVIOUS
    <2>5. Writes(accepted, q)
        BY <2>1, <2>4 DEF Writes
    <2> QED BY <1>2, <2>1, <2>3, <2>4, <2>5
<1>4. CASE ~\E s \in accepted : h \in Covered(store_queue[s].at, store_queue[s].size)
    BY <1>1, <1>2, <1>4 DEF Writes
<1> QED BY <1>3, <1>4

LEMMA MemoryAfter ==
    ASSUME OrderInv, LoadInv, NEW d, NEW gnt, NEW accepted, NEW hits, NEW give, NEW sel,
           NEW issue, NEW others, NEW k,
           LoadEdge(d, gnt, accepted, hits, give, sel, issue, others, k)
    PROVE  MemoryHolds(rob', memory')
<1>0. /\ LsqInv /\ memory' = n_memory(accepted) /\ k \in Nat /\ Len(rob) \in Nat
      /\ DOMAIN rob = 1..Len(rob)
    BY DEF OrderInv, WriteInv, LsqInv, Buffer, LoadEdge, Edge
<1>lsq. LsqInv
    BY <1>0
<1> SUFFICES ASSUME NEW h \in Halves, NEW e \in 1..Len(rob'), LastWritten(rob', h, e)
             PROVE  memory'[h] = rob'[e].op.value
    BY DEF MemoryHolds
<1>1. Store(rob', e) /\ rob'[e].written /\ h \in Covers(rob'[e].op)
    BY DEF LastWritten
<1>2. \A j \in 1..Len(rob') :
            e < j /\ Store(rob', j) /\ rob'[j].written => h \notin Covers(rob'[j].op)
    BY DEF LastWritten
<1>3. PICK i \in 1..Len(rob) : k < i /\ e = i - k
    <2>1. ASSUME NEW x \in 1..Len(d), e = Len(rob) + x - k
          PROVE  FALSE
        BY <1>lsq, <1>1, <2>1, EntryNew
    <2> QED BY <1>lsq, <2>1, EntryComes
<1>4. /\ rob'[e].op = rob[i].op
      /\ rob'[e].written <=> (rob[i].written \/ Writes(accepted, i))
    BY <1>lsq, <1>3, EntryStays DEF Writes
\* a written store behind it is still behind it
<1>5. ASSUME NEW j \in 1..Len(rob), i < j, Store(rob, j),
             rob[j].written \/ Writes(accepted, j)
      PROVE  h \notin Covers(rob[j].op)
    <2>1. PICK f : f = j - k
        OBVIOUS
    <2>2. k < j /\ e < f
        BY <1>0, <1>3, <1>5, <2>1
    <2>3. /\ f \in 1..Len(rob') /\ rob'[f].op = rob[j].op
          /\ rob'[f].written <=> (rob[j].written \/ Writes(accepted, j))
        BY <1>lsq, <2>1, <2>2, EntryStays DEF Writes
    <2> QED BY <1>2, <1>5, <2>2, <2>3 DEF Store
<1>6. ASSUME NEW q, Writes(accepted, q), h \in Covers(rob[q].op),
             n_memory(accepted)[h] = rob[q].op.value
      PROVE  memory'[h] = rob'[e].op.value
    <2>1. Store(rob, q) /\ q \in 1..Len(rob) /\ ~rob[q].written
        BY <1>6, WritesIs DEF Store
    <2>2. ~(i < q)
        BY <1>5, <1>6, <2>1
    <2>3. ~(q < i)
        <3> SUFFICES ASSUME q < i PROVE FALSE
            OBVIOUS
        <3>1. ~Writes(accepted, i)
            BY <1>0, <1>6, <2>1, WritesIs
        <3>2. rob[i].written /\ i \in DOMAIN rob /\ q \in 1..(i - 1)
            BY <1>0, <1>1, <1>4, <2>1, <3>1
        <3>3. rob[q].written
            BY <2>1, <3>2 DEF OrderInv, StoresInProgramOrder, Store
        <3> QED BY <2>1, <3>3
    <2>4. q = i
        BY <1>0, <2>1, <2>2, <2>3
    <2> QED BY <1>0, <1>4, <1>6, <2>4
<1>7. ASSUME n_memory(accepted)[h] = memory[h],
             \A q : Writes(accepted, q) => h \notin Covers(rob[q].op)
      PROVE  memory'[h] = rob'[e].op.value
    <2>1. Store(rob, i) /\ rob[i].written /\ h \in Covers(rob[i].op)
        BY <1>1, <1>4, <1>7 DEF Store
    <2>2. LastWritten(rob, h, i)
        BY <1>5, <2>1 DEF LastWritten
    <2>3. memory[h] = rob[i].op.value
        BY <2>2 DEF LoadInv, MemoryHolds
    <2> QED BY <1>0, <1>4, <1>7, <2>3
<1> QED BY <1>6, <1>7, MemoryIs

-----------------------------------------------------------------------------
(* What a load is to read                                                  *)

LEMMA InHalves == \A op \in Ops : Covers(op) \subseteq Halves
BY DEF LsqAssumption, Covers, Covered, Halves, Outside

\* The instructions in flight and those of the group behind them.
OpAt(d, j) == IF j \in 1..Len(rob) THEN rob[j].op ELSE d[j - Len(rob)]
Covering(d, h, j) == OpAt(d, j).kind = "store" /\ h \in Covers(OpAt(d, j))

\* v is what a load at place p of them reads before the edge.
ReadsAt(d, p, op, v) ==
    /\ v = [h \in Covers(op) |-> v[h]]
    /\ \A h \in Covers(op) :
        /\ \A i \in 1..(p - 1) :
            Covering(d, h, i) /\ (\A j \in 1..(p - 1) : Covering(d, h, j) => j <= i)
                => v[h] = OpAt(d, i).value
        /\ (\A i \in 1..(p - 1) : ~Covering(d, h, i)) => v[h] = memory[h]

LEMMA OldReads ==
    ASSUME LsqInv, LoadInv, NEW d, NEW p \in 1..Len(rob), Load(rob, p), ~rob[p].executed
    PROVE  ReadsAt(d, p, rob[p].op, rob[p].expected)
<1>0. Len(rob) \in Nat
    BY DEF LsqInv, Buffer
<1>1. Reads(rob, memory, p, rob[p].expected)
    BY DEF LoadInv, Values
<1>2. \A j \in 1..(p - 1) : j \in 1..Len(rob) /\ OpAt(d, j) = rob[j].op
    BY <1>0 DEF OpAt
<1>3. ASSUME NEW h
      PROVE  \A j : Writer(rob, p, h, j) <=> j \in 1..(p - 1) /\ Covering(d, h, j)
    <2> SUFFICES ASSUME NEW j
                 PROVE  Writer(rob, p, h, j) <=> j \in 1..(p - 1) /\ Covering(d, h, j)
        OBVIOUS
    <2>1. j \in 1..Len(rob) /\ j < p <=> j \in 1..(p - 1)
        BY <1>0
    <2> QED BY <1>2, <2>1 DEF Writer, Store, Covering
<1>4. ASSUME NEW h \in Covers(rob[p].op), NEW i \in 1..(p - 1), Covering(d, h, i),
             \A j \in 1..(p - 1) : Covering(d, h, j) => j <= i
      PROVE  rob[p].expected[h] = OpAt(d, i).value
    <2>1. Youngest(rob, p, h, i)
        BY <1>3, <1>4 DEF Youngest
    <2> QED BY <1>1, <1>2, <1>4, <2>1 DEF Reads
<1>5. ASSUME NEW h \in Covers(rob[p].op), \A i \in 1..(p - 1) : ~Covering(d, h, i)
      PROVE  rob[p].expected[h] = memory[h]
    <2>1. \A i \in 1..Len(rob) : ~Writer(rob, p, h, i)
        BY <1>3, <1>5
    <2> QED BY <1>1, <2>1 DEF Reads
<1>6. rob[p].expected = [h \in Covers(rob[p].op) |-> rob[p].expected[h]]
    BY <1>1 DEF Reads
<1> QED BY <1>4, <1>5, <1>6 DEF ReadsAt

LEMMA NewReads ==
    ASSUME LsqInv, NEW d, Group(d), NEW gnt, NEW x \in 1..Len(d), d[x].kind = "load"
    PROVE  ReadsAt(d, Len(rob) + x, d[x], NewInstr(d, gnt, x).expected)
<1> DEFINE F == InFlightOps
           G == SubSeq(d, 1, x - 1)
           older == F \o G
           p == Len(rob) + x
           v == NewInstr(d, gnt, x).expected
           writers(h) == {i \in DOMAIN older :
                older[i].kind = "store" /\ h \in Covered(older[i].at, older[i].size)}
<1>0. /\ Len(rob) \in Nat /\ DOMAIN rob = 1..Len(rob)
      /\ \A i \in 1..Len(rob) : rob[i].op \in Ops
      /\ Len(d) \in Nat /\ d \in [1..Len(d) -> Ops] /\ x \in Nat
    BY DEF LsqInv, Buffer, Group
<1>1. F \in Seq(Ops) /\ Len(F) = Len(rob) /\ \A i \in 1..Len(rob) : F[i] = rob[i].op
    <2>1. F = [i \in 1..Len(rob) |-> rob[i].op]
        BY <1>0 DEF InFlightOps
    <2>2. F \in [1..Len(rob) -> Ops]
        BY <1>0, <2>1
    <2>3. \A i \in 1..Len(rob) : F[i] = rob[i].op
        BY <2>1
    <2> HIDE DEF F
    <2> QED BY <1>0, <2>2, <2>3
<1>2. G \in Seq(Ops) /\ Len(G) = x - 1 /\ \A i \in 1..(x - 1) : G[i] = d[i]
    <2>1. d \in Seq(Ops) /\ x - 1 \in 0..Len(d)
        BY <1>0
    <2> QED BY <1>0, <2>1
<1> HIDE DEF F, G
<1>3. /\ DOMAIN older = 1..(p - 1)
      /\ \A j \in 1..(p - 1) : older[j] = OpAt(d, j)
    <2>1. Len(older) = p - 1 /\ older \in Seq(Ops) /\ p - 1 \in Nat
        <3>1. Len(older) = Len(F) + Len(G) /\ older \in Seq(Ops)
            BY <1>1, <1>2, ConcatProperties
        <3>2. Len(F) + Len(G) = p - 1 /\ p - 1 \in Nat
            BY <1>0, <1>1, <1>2
        <3> QED BY <3>1, <3>2
    <2>2. DOMAIN older = 1..(p - 1)
        BY <2>1
    <2>3. ASSUME NEW j \in 1..(p - 1)
          PROVE  older[j] = OpAt(d, j)
        <3>1. older[j] = IF j <= Len(F) THEN F[j] ELSE G[j - Len(F)]
            BY <1>0, <1>1, <1>2, <2>1, <2>3, ConcatProperties
        <3>2. CASE j <= Len(rob)
            <4>1. j \in 1..Len(rob)
                BY <1>0, <3>2
            <4> QED BY <1>1, <3>1, <3>2, <4>1 DEF OpAt
        <3>3. CASE ~(j <= Len(rob))
            <4>1. PICK y : y = j - Len(rob)
                OBVIOUS
            <4>2. y \in 1..(x - 1) /\ j \notin 1..Len(rob)
                BY <1>0, <3>3, <4>1
            <4> QED BY <1>1, <1>2, <3>1, <3>3, <4>1, <4>2 DEF OpAt
        <3> QED BY <3>2, <3>3
    <2> QED BY <2>2, <2>3
<1>4. v = [h \in Covers(d[x]) |->
            IF writers(h) = {} THEN memory[h]
            ELSE older[CHOOSE i \in writers(h) : \A j \in writers(h) : j <= i].value]
    BY DEF NewInstr, Expected, Covers, F, G
<1> HIDE DEF older, v
<1>5. \A h : writers(h) = {j \in 1..(p - 1) : Covering(d, h, j)}
    BY <1>3 DEF Covering, Covers
<1> HIDE DEF writers
<1>6. ASSUME NEW h \in Covers(d[x]), NEW i \in 1..(p - 1), Covering(d, h, i),
             \A j \in 1..(p - 1) : Covering(d, h, j) => j <= i
      PROVE  v[h] = OpAt(d, i).value
    <2>1. i \in writers(h) /\ \A j \in writers(h) : j <= i
        BY <1>5, <1>6
    <2>2. PICK m : m = CHOOSE q \in writers(h) : \A j \in writers(h) : j <= q
        OBVIOUS
    <2>3. m \in writers(h) /\ \A j \in writers(h) : j <= m
        BY <2>1, <2>2
    <2>4. m \in 1..(p - 1)
        BY <1>5, <2>3
    <2>5. m <= i /\ i <= m
        BY <2>1, <2>3
    <2>6. m = i
        BY <1>0, <2>4, <2>5
    <2>7. v[h] = older[m].value
        BY <1>4, <2>1, <2>2
    <2> QED BY <1>3, <2>6, <2>7
<1>7. ASSUME NEW h \in Covers(d[x]), \A i \in 1..(p - 1) : ~Covering(d, h, i)
      PROVE  v[h] = memory[h]
    <2>1. writers(h) = {}
        BY <1>5, <1>7
    <2> QED BY <1>4, <2>1
<1>8. v = [h \in Covers(d[x]) |-> v[h]]
    BY <1>4
<1> HIDE DEF p
<1>9. ReadsAt(d, p, d[x], v)
    BY <1>6, <1>7, <1>8 DEF ReadsAt
<1> QED BY <1>9 DEF p, v

\* The instruction at place j is in the reorder buffer after the edge, or has
\* retired.
LEMMA OpAfter ==
    ASSUME LsqInv, NEW d, NEW gnt, NEW accepted, NEW hits, NEW give, NEW sel,
           NEW issue, NEW others, NEW k,
           LoadEdge(d, gnt, accepted, hits, give, sel, issue, others, k),
           NEW j \in Nat, k < j, j <= Len(rob) + Len(d)
    PROVE  j - k \in 1..Len(rob') /\ rob'[j - k].op = OpAt(d, j)
<1>0. Len(rob) \in Nat /\ Len(d) \in Nat /\ k \in Nat
    BY DEF LsqInv, Buffer, LoadEdge, Edge, Group
<1>1. CASE j <= Len(rob)
    <2>1. j \in 1..Len(rob)
        BY <1>0, <1>1
    <2> QED BY <2>1, EntryStays DEF OpAt
<1>2. CASE ~(j <= Len(rob))
    <2>1. PICK x : x = j - Len(rob)
        OBVIOUS
    <2>2. x \in 1..Len(d) /\ j - k = Len(rob) + x - k /\ j \notin 1..Len(rob)
        BY <1>0, <1>2, <2>1
    <2>3. j - k \in 1..Len(rob') /\ rob'[j - k].op = d[x]
        BY <2>2, EntryNew
    <2> QED BY <2>1, <2>2, <2>3 DEF OpAt
<1> QED BY <1>1, <1>2

\* No store behind a load that has not read is written.
LEMMA NoneBehind ==
    ASSUME OrderInv, LoadInv, StoresInProgramOrder',
           NEW d, NEW gnt, NEW accepted, NEW hits, NEW give, NEW sel,
           NEW issue, NEW others, NEW k,
           LoadEdge(d, gnt, accepted, hits, give, sel, issue, others, k),
           NEW p \in 1..Len(rob), k < p, rob[p].op.kind = "load", ~rob'[p - k].executed,
           NEW q \in 1..Len(rob), p < q
    PROVE  ~rob[q].written /\ ~Writes(accepted, q)
<1>0. /\ LsqInv /\ Len(rob) \in Nat /\ k \in Nat /\ DOMAIN rob' = 1..Len(rob')
    <2>1. LsqInv /\ Edge(d, gnt, accepted, hits, give, sel, issue, others, k)
        BY DEF OrderInv, WriteInv, LoadEdge
    <2>2. Buffer(rob')
        BY <2>1, BufferAfter
    <2> QED BY <2>1, <2>2 DEF LsqInv, Buffer, Edge
<1>lsq. LsqInv
    BY <1>0
<1>1. PICK e, f : e = p - k /\ f = q - k
    OBVIOUS
<1>2. k < q /\ f \in Int /\ e \in 1..(f - 1)
    BY <1>0, <1>1
<1>3. /\ f \in 1..Len(rob')
      /\ rob'[f].written <=> (rob[q].written \/ Writes(accepted, q))
    <2>1. q \in 1..Len(rob) /\ k < q /\ f = q - k
        BY <1>1, <1>2
    <2> QED BY <1>lsq, <2>1, EntryWritten
<1>4. rob'[e].op.kind = "load" /\ ~rob'[e].executed
    BY <1>lsq, <1>1, EntryStays
<1>5. ~rob'[f].written
    BY <1>0, <1>2, <1>3, <1>4 DEF StoresInProgramOrder
<1> QED BY <1>3, <1>5

LEMMA ReadsAfter ==
    ASSUME OrderInv, LoadInv, StoresInProgramOrder',
           NEW d, NEW gnt, NEW accepted, NEW hits, NEW give, NEW sel,
           NEW issue, NEW others, NEW k,
           LoadEdge(d, gnt, accepted, hits, give, sel, issue, others, k),
           NEW p \in Nat, k < p, p <= Len(rob) + Len(d),
           NEW e, e = p - k, Load(rob', e), ~rob'[e].executed,
           NEW v, ReadsAt(d, p, rob'[e].op, v)
    PROVE  Reads(rob', memory', e, v)
<1>lsq. LsqInv
    BY DEF OrderInv, WriteInv
<1>0. /\ memory' = n_memory(accepted) /\ k \in Nat /\ Len(rob) \in Nat
      /\ Len(d) \in Nat /\ Len(rob') = Len(rob) - k + Len(d)
    <2>1. Edge(d, gnt, accepted, hits, give, sel, issue, others, k)
        BY DEF LoadEdge
    <2>2. Group(d) /\ k \in 0..Len(rob) /\ Len(rob) \in Nat /\ memory' = n_memory(accepted)
        BY <1>lsq, <2>1 DEF Edge, LsqInv, Buffer
    <2>3. Len(rob') = Len(rob) - k + Len(d)
        BY <2>1 DEF Edge, Shifts
    <2> QED BY <2>2, <2>3 DEF Group
<1>1. /\ e \in 1..Len(rob') /\ rob'[e].op.kind = "load" /\ rob'[e].op = OpAt(d, p)
      /\ rob'[e].op \in Ops
    <2>1. e \in 1..Len(rob') /\ rob'[e].op.kind = "load" /\ rob'[e].op = OpAt(d, p)
        BY <1>lsq, OpAfter DEF Load
    <2>2. Buffer(rob')
        BY <1>lsq, BufferAfter DEF LoadEdge
    <2>3. rob'[e].op \in Ops
        BY <2>1, <2>2 DEF Buffer
    <2> QED BY <2>1, <2>3
\* the older writers before and after
<1>2. ASSUME NEW h, NEW j \in 1..(p - 1), k < j
      PROVE  j - k \in 1..Len(rob') /\ rob'[j - k].op = OpAt(d, j)
             /\ (Writer(rob', e, h, j - k) <=> Covering(d, h, j))
    <2>1. j \in Nat /\ j <= Len(rob) + Len(d) /\ j - k < e
        BY <1>0, <1>2
    <2>2. j - k \in 1..Len(rob') /\ rob'[j - k].op = OpAt(d, j)
        BY <1>lsq, <1>2, <2>1, OpAfter
    <2> QED BY <2>1, <2>2 DEF Writer, Store, Covering
<1>3. ASSUME NEW h, NEW f, Writer(rob', e, h, f)
      PROVE  f + k \in 1..(p - 1) /\ k < f + k /\ f = (f + k) - k
    <2>1. f < e /\ f \in 1..Len(rob')
        BY <1>3 DEF Writer, Store
    <2> QED BY <1>0, <2>1
<1>4. ASSUME NEW h \in Covers(rob'[e].op), NEW f \in 1..Len(rob'), Youngest(rob', e, h, f)
      PROVE  v[h] = rob'[f].op.value
    <2>1. Writer(rob', e, h, f) /\ \A g \in 1..Len(rob') : Writer(rob', e, h, g) => g <= f
        BY <1>4 DEF Youngest
    <2>2. PICK i : i = f + k
        OBVIOUS
    <2>3. i \in 1..(p - 1) /\ k < i /\ f = i - k
        BY <1>3, <2>1, <2>2
    <2>4. Covering(d, h, i) /\ rob'[f].op = OpAt(d, i)
        BY <1>2, <2>1, <2>3
    <2>5. ASSUME NEW j \in 1..(p - 1), Covering(d, h, j)
          PROVE  j <= i
        <3>1. CASE k < j
            <4>1. PICK g : g = j - k
                OBVIOUS
            <4>2. g \in 1..Len(rob') /\ Writer(rob', e, h, g)
                BY <1>2, <2>5, <3>1, <4>1
            <4>3. g <= f
                BY <2>1, <4>2
            <4> QED BY <1>0, <2>2, <2>3, <4>1, <4>3
        <3> QED BY <1>0, <2>3, <3>1
    <2> QED BY <2>3, <2>4, <2>5 DEF ReadsAt
<1>5. ASSUME NEW h \in Covers(rob'[e].op), \A f \in 1..Len(rob') : ~Writer(rob', e, h, f)
      PROVE  v[h] = memory'[h]
    <2>1. h \in Halves
        BY <1>1, InHalves
    <2>2. ASSUME NEW j \in 1..(p - 1), Covering(d, h, j)
          PROVE  j <= k
        BY <1>0, <1>2, <1>5, <2>2
    \* nothing is written there at the edge
    <2>3. memory'[h] = memory[h]
        <3> SUFFICES ASSUME NEW q, Writes(accepted, q), h \in Covers(rob[q].op) PROVE FALSE
            BY <1>0, <2>1, MemoryIs
        <3>1. Store(rob, q) /\ q \in 1..Len(rob) /\ k < q
            BY WritesIs DEF Store
        <3>2. OpAt(d, q) = rob[q].op
            BY <3>1 DEF OpAt
        <3>3. CASE q < p
            <4>1. q \in 1..(p - 1) /\ Covering(d, h, q)
                BY <3>1, <3>2, <3>3 DEF Store, Covering
            <4> QED BY <1>0, <2>2, <3>1, <4>1
        <3>4. CASE q = p
            BY <1>1, <3>1, <3>2, <3>4 DEF Store
        <3>5. CASE p < q
            <4>1. p \in 1..Len(rob)
                BY <1>0, <3>1, <3>5
            <4>2. rob[p].op.kind = "load"
                BY <1>1, <4>1 DEF OpAt
            <4> QED BY <3>1, <3>5, <4>1, <4>2, NoneBehind
        <3> QED BY <3>1, <3>3, <3>4, <3>5
    <2>4. CASE \A j \in 1..(p - 1) : ~Covering(d, h, j)
        BY <2>3, <2>4 DEF ReadsAt
    \* the youngest of the writers that retire is the last one written
    <2>5. CASE ~\A j \in 1..(p - 1) : ~Covering(d, h, j)
        <3>1. PICK S : S = {j \in 1..(p - 1) : Covering(d, h, j)}
            OBVIOUS
        <3>2. S \in SUBSET (1..(p - 1)) /\ S # {} /\ p - 1 \in Int
            BY <2>5, <3>1
        <3>3. PICK i \in S : \A j \in S : j <= i
            BY <3>2, MaxExists
        <3>4. /\ i \in 1..(p - 1) /\ Covering(d, h, i)
              /\ \A j \in 1..(p - 1) : Covering(d, h, j) => j <= i
            BY <3>1, <3>3
        <3>5. v[h] = OpAt(d, i).value
            BY <3>4 DEF ReadsAt
        <3>6. i <= k /\ i \in 1..k /\ i \in 1..Len(rob)
            <4>1. i <= k
                BY <2>2, <3>4
            <4>2. k <= Len(rob)
                BY DEF LoadEdge, Edge
            <4> QED BY <1>0, <3>4, <4>1, <4>2
        <3>7. OpAt(d, i) = rob[i].op
            BY <3>6 DEF OpAt
        <3>8. Store(rob, i) /\ h \in Covers(rob[i].op)
            BY <3>4, <3>6, <3>7 DEF Store, Covering
        <3>9. rob[i].written
            <4>1. ~InStores(store_queue, i)
                <5> SUFFICES ASSUME NEW s \in StoreSlots, Has(store_queue, s, i) PROVE FALSE
                    BY DEF InStores
                <5>1. k < i
                    BY <1>lsq, StoreIn DEF Has
                <5> QED BY <1>0, <3>6, <5>1
            <4> QED BY <3>6, <3>8, <4>1 DEF LoadInv, StoresPlaced
        <3>10. ASSUME NEW j \in 1..Len(rob), i < j, Store(rob, j), rob[j].written
               PROVE  h \notin Covers(rob[j].op)
            <4>1. OpAt(d, j) = rob[j].op
                BY DEF OpAt
            <4>2. CASE j < p
                <5>1. j \in 1..(p - 1) /\ ~(j <= i)
                    BY <1>0, <3>6, <3>10, <4>2
                <5> QED BY <3>4, <3>10, <4>1, <5>1 DEF Covering, Store
            <4>3. CASE j = p
                BY <1>1, <3>10, <4>1, <4>3 DEF Store
            <4>4. CASE p < j
                <5>1. p \in 1..Len(rob)
                    BY <1>0, <4>4
                <5>2. rob[p].op.kind = "load"
                    BY <1>1, <5>1 DEF OpAt
                <5> QED BY <3>10, <4>4, <5>1, <5>2, NoneBehind
            <4> QED BY <4>2, <4>3, <4>4
        <3>11. LastWritten(rob, h, i)
            BY <3>8, <3>9, <3>10 DEF LastWritten
        <3>12. memory[h] = rob[i].op.value
            BY <2>1, <3>6, <3>11 DEF LoadInv, MemoryHolds
        <3> QED BY <2>3, <3>5, <3>7, <3>12
    <2> QED BY <2>4, <2>5
<1>6. v = [h \in Covers(rob'[e].op) |-> v[h]]
    BY DEF ReadsAt
<1> QED BY <1>4, <1>5, <1>6 DEF Reads

LEMMA ValuesAfter ==
    ASSUME OrderInv, LoadInv, StoresInProgramOrder',
           NEW d, NEW gnt, NEW accepted, NEW hits, NEW give, NEW sel,
           NEW issue, NEW others, NEW k,
           LoadEdge(d, gnt, accepted, hits, give, sel, issue, others, k)
    PROVE  Values(rob', memory')
<1>0. /\ LsqInv /\ Group(d) /\ k \in Nat /\ Len(rob) \in Nat /\ Len(d) \in Nat
    BY DEF OrderInv, WriteInv, LsqInv, Buffer, LoadEdge, Edge, Group
<1>lsq. LsqInv
    BY <1>0
<1> SUFFICES ASSUME NEW e \in 1..Len(rob'), Load(rob', e), ~rob'[e].executed
             PROVE  Reads(rob', memory', e, rob'[e].expected)
    BY DEF Values
<1>1. ASSUME NEW p \in 1..Len(rob), k < p, e = p - k
      PROVE  Reads(rob', memory', e, rob'[e].expected)
    <2>1. /\ rob'[e].op = rob[p].op /\ rob'[e].expected = rob[p].expected
          /\ ~rob[p].executed
        BY <1>lsq, <1>1, EntryStays
    <2>2. Load(rob, p)
        BY <2>1 DEF Load
    <2>3. ReadsAt(d, p, rob[p].op, rob[p].expected)
        BY <1>lsq, <2>1, <2>2, OldReads
    <2>4. ReadsAt(d, p, rob'[e].op, rob'[e].expected)
        BY <2>1, <2>3
    <2>5. p \in Nat /\ p <= Len(rob) + Len(d)
        BY <1>0
    <2> QED BY <1>1, <2>4, <2>5, ReadsAfter
<1>2. ASSUME NEW x \in 1..Len(d), e = Len(rob) + x - k
      PROVE  Reads(rob', memory', e, rob'[e].expected)
    <2>1. rob'[e].op = d[x] /\ rob'[e].expected = NewInstr(d, gnt, x).expected
        BY <1>lsq, <1>2, EntryNew
    <2>2. d[x].kind = "load"
        BY <2>1 DEF Load
    <2>3. PICK p : p = Len(rob) + x
        OBVIOUS
    <2>4. ReadsAt(d, p, d[x], NewInstr(d, gnt, x).expected)
        BY <1>0, <2>2, <2>3, NewReads
    <2>5. ReadsAt(d, p, rob'[e].op, rob'[e].expected)
        BY <2>1, <2>4
    <2>6. p \in Nat /\ p <= Len(rob) + Len(d) /\ k < p /\ e = p - k
        <3>1. k <= Len(rob)
            BY DEF LoadEdge, Edge
        <3> QED BY <1>0, <1>2, <2>3, <3>1
    <2> QED BY <2>5, <2>6, ReadsAfter
<1>3. \/ \E i \in 1..Len(rob) : k < i /\ e = i - k
      \/ \E x \in 1..Len(d) : e = Len(rob) + x - k
    BY <1>lsq, EntryComes
<1> QED BY <1>1, <1>2, <1>3

-----------------------------------------------------------------------------
(* What a load gets                                                        *)

\* Accesses of a word are to its address.  The code takes a difference of address
\* to mean that accesses of one size are apart, which needs this.
Aligned == \A op \in Ops : Memory(op) /\ op.size = "WORD" => op.at = 0

\* Accesses that are told apart cover nothing in common.
LEMMA NothingShared ==
    ASSUME Inside, Aligned, NEW o \in Ops, NEW q \in Ops, Memory(o), Memory(q),
           o.size = q.size, o.at # q.at, NEW h, h \in Covers(o)
    PROVE  h \notin Covers(q)
<1>1. o.at # Outside /\ q.at # Outside
    BY DEF Inside
<1>2. o.size # "WORD"
    BY DEF Aligned
<1> QED BY <1>1, <1>2 DEF Covers, Covered

LEMMA ApartShare ==
    ASSUME Inside, Aligned, OrderInv, LoadInv,
           NEW l \in LoadSlots, load_queue[l].valid, NEW s \in StoreSlots, store_queue[s].valid,
           ToldApart(load_queue[l], store_queue[s]),
           NEW p, p = load_queue[l].rob_entry, NEW i, i = store_queue[s].rob_entry,
           NEW h \in Covers(rob[p].op)
    PROVE  h \notin Covers(rob[i].op)
<1>0. LsqInv
    BY DEF OrderInv, WriteInv
<1>1. Waits(rob, p, "load") /\ Waits(rob, i, "store")
    BY <1>0 DEF LsqInv, Loads, Stores
<1>2. rob[p].op \in Ops /\ rob[i].op \in Ops
    BY <1>0, <1>1 DEF LsqInv, Buffer, Waits
<1>3. Memory(rob[p].op) /\ Memory(rob[i].op)
    BY <1>1 DEF Waits, Memory
<1>4. SameAs(load_queue[l], rob[p].op)
    BY DEF LoadInv, LoadsLocated, ToldApart
<1>5. SameAs(store_queue[s], rob[i].op)
    BY DEF OrderInv, Claimed, StoresLocated, ToldApart
<1>6. rob[p].op.size = rob[i].op.size /\ rob[p].op.at # rob[i].op.at
    BY <1>4, <1>5 DEF ToldApart, SameAs
<1> QED BY <1>2, <1>3, <1>6, NothingShared

\* A load in the queue has no result yet, and expects what it is to read.
LEMMA LoadReads ==
    ASSUME LsqInv, LoadInv, NEW l \in LoadSlots, load_queue[l].valid,
           NEW p, p = load_queue[l].rob_entry
    PROVE  /\ Load(rob, p) /\ p \in 1..Len(rob) /\ ~rob[p].executed
           /\ Reads(rob, memory, p, rob[p].expected)
<1>1. Waits(rob, p, "load")
    BY DEF LsqInv, Loads
<1>2. Load(rob, p) /\ p \in 1..Len(rob) /\ ~rob[p].executed
    BY <1>1 DEF Waits, Load
<1> QED BY <1>2 DEF LoadInv, Values

\* The store that is forwarded is the youngest that covers the load.
LEMMA ForwardsRight ==
    ASSUME Inside, Aligned, OrderInv, LoadInv, NEW l \in LoadSlots,
           NEW s \in Forwarding(l), NEW p, p = load_queue[l].rob_entry,
           NEW h \in Covers(rob[p].op)
    PROVE  store_queue[s].value = rob[p].expected[h]
<1>0. LsqInv /\ Len(rob) \in Nat /\ str_head \in StoreSlots
    BY DEF OrderInv, WriteInv, LsqInv, Buffer, Registers
<1>lsq. LsqInv
    BY <1>0
<1>1. /\ s \in index1(l) /\ load_queue[l].valid /\ load_queue[l].has_address
      /\ store_queue[s].has_address /\ store_queue[s].size = Located(l).size
    BY DEF Forwarding
<1>2. Located(l) = load_queue[l]
    BY <1>1, LocatedKept DEF Located
<1>3. Conflicts(l) = load_queue[l].age_addr_match
    BY <1>1, ConflictsAre
<1>4. /\ s \in load_queue[l].age_addr_match
      /\ \A t \in load_queue[l].age_addr_match : Age(t) <= Age(s)
    BY <1>1, <1>3 DEF index1
<1>5. /\ s \in StoreSlots /\ store_queue[s].valid /\ store_queue[s].rob_entry < p
      /\ ~ToldApart(load_queue[l], store_queue[s])
    BY <1>1, <1>4 DEF LoadInv, Ages
<1>6. store_queue[s].size = load_queue[l].size /\ store_queue[s].at = load_queue[l].at
    BY <1>1, <1>2, <1>5 DEF ToldApart
<1>7. PICK i : i = store_queue[s].rob_entry
    OBVIOUS
<1>8. i \in 1..Len(rob) /\ rob[i].op.kind = "store" /\ i < p
    BY <1>5, <1>7 DEF LsqInv, Stores, Waits, OrderInv, WriteInv
<1>9. SameAs(load_queue[l], rob[p].op) /\ SameAs(store_queue[s], rob[i].op)
    BY <1>1, <1>5, <1>7 DEF LoadInv, LoadsLocated, OrderInv, Claimed, StoresLocated
<1>10. h \in Covers(rob[i].op)
    BY <1>6, <1>9 DEF SameAs, Covers
<1>11. store_queue[s].value = rob[i].op.value
    BY <1>1, <1>5, <1>7 DEF OrderInv, Claimed, StoresLocated
<1>12. Load(rob, p) /\ p \in 1..Len(rob) /\ Reads(rob, memory, p, rob[p].expected)
    BY <1>lsq, <1>1, LoadReads
<1>13. ASSUME NEW j \in 1..Len(rob), Writer(rob, p, h, j), i < j
       PROVE  FALSE
    <2>1. j < p /\ Store(rob, j) /\ h \in Covers(rob[j].op)
        BY <1>13 DEF Writer
    <2>2. Store(rob, i) /\ InStores(store_queue, i)
        BY <1>5, <1>7, <1>8 DEF Store, InStores, Has
    <2>3. PICK t \in StoreSlots : Has(store_queue, t, j)
        BY <1>8, <1>13, <2>1, <2>2 DEF LoadInv, StoresPlaced, InStores
    <2>4. store_queue[t].valid /\ store_queue[t].rob_entry = j
        BY <2>3 DEF Has
    <2>5. ~ToldApart(load_queue[l], store_queue[t])
        BY <1>1, <2>1, <2>4, ApartShare
    <2>6. t \in load_queue[l].age_addr_match
        BY <1>1, <2>1, <2>4, <2>5 DEF LoadInv, Ages
    <2>7. Age(t) <= Age(s)
        BY <1>4, <2>6
    <2>8. /\ Age(t) = AgeFrom(str_head, t) /\ Age(s) = AgeFrom(str_head, s)
          /\ AgeFrom(str_head, t) \in Int /\ AgeFrom(str_head, s) \in Int
        BY <1>0, <1>5, AgeIs, AgeOfSlot, LsqConstants
    <2>9. ~(AgeFrom(str_head, t) < AgeFrom(str_head, s))
        <3>1. ~(j < i)
            BY <1>8, <1>13
        <3> QED BY <1>5, <1>7, <2>4, <3>1 DEF OrderInv, QueueInv, Ordered
    <2>10. AgeFrom(str_head, t) = AgeFrom(str_head, s)
        BY <2>7, <2>8, <2>9
    <2>11. t = s
        BY <1>0, <1>5, <2>10, AgeOfSlot
    <2> QED BY <1>7, <1>8, <1>13, <2>4, <2>11
<1>14. Youngest(rob, p, h, i)
    <2>1. Writer(rob, p, h, i)
        BY <1>8, <1>10 DEF Writer, Store
    <2>2. \A j \in 1..Len(rob) : Writer(rob, p, h, j) => j <= i
        BY <1>8, <1>13
    <2> QED BY <2>1, <2>2 DEF Youngest
<1> QED BY <1>8, <1>11, <1>12, <1>14 DEF Reads

\* A load that memory answers finds there the youngest older store that covers
\* it, or what was there before all of them.
LEMMA AnswersRight ==
    ASSUME Inside, Aligned, OrderInv, LoadInv, StoresInProgramOrder',
           NEW d, NEW gnt, NEW accepted, NEW hits, NEW give, NEW sel,
           NEW issue, NEW others, NEW k,
           LoadEdge(d, gnt, accepted, hits, give, sel, issue, others, k),
           NEW l \in hits, NEW p, p = load_queue[l].rob_entry,
           NEW h \in Covers(rob[p].op)
    PROVE  n_memory(accepted)[h] = rob[p].expected[h]
<1>0. LsqInv /\ Len(rob) \in Nat
    BY DEF OrderInv, WriteInv, LsqInv, Buffer
<1>lsq. LsqInv
    BY <1>0
<1>1. l \in LoadSlots /\ load_queue[l].valid /\ load_queue[l].ready_for_mem
    BY DEF LoadEdge, load_mem_rdy
<1>2. /\ Load(rob, p) /\ p \in 1..Len(rob) /\ ~rob[p].executed
      /\ Reads(rob, memory, p, rob[p].expected)
    BY <1>lsq, <1>1, LoadReads
<1>3. k < p /\ rob[p].op.kind = "load"
    BY <1>lsq, <1>1, LoadIn
<1>4. ~rob'[p - k].executed
    <2>1. Waits(rob, p, "load") /\ Edge(d, gnt, accepted, hits, give, sel, issue, others, k)
        BY <1>1 DEF LsqInv, Loads, OrderInv, WriteInv, LoadEdge
    <2>2. \A i \in sel : out[i].rob_entry # p
        BY <1>1, <2>1 DEF LsqInv, Apart, OrderInv, WriteInv, Edge
    <2>3. Waits(rob', p - k, "load")
        BY <1>lsq, <2>1, <2>2, StillWaits
    <2> QED BY <2>3 DEF Waits
<1>5. h \in Halves
    BY <1>0, <1>2, InHalves DEF LsqInv, Buffer
\* the older stores that cover it have left the queue
<1>6. ASSUME NEW i \in 1..Len(rob), Writer(rob, p, h, i)
      PROVE  ~InStores(store_queue, i) /\ rob[i].written
    <2>1. i < p /\ Store(rob, i) /\ h \in Covers(rob[i].op)
        BY <1>6 DEF Writer
    <2>2. ~InStores(store_queue, i)
        <3> SUFFICES ASSUME NEW s \in StoreSlots, Has(store_queue, s, i) PROVE FALSE
            BY DEF InStores
        <3>1. store_queue[s].valid /\ store_queue[s].rob_entry = i
            BY DEF Has
        <3>2. load_queue[l].age_addr_match = {}
            BY <1>1 DEF LoadInv, Ages
        <3>3. ToldApart(load_queue[l], store_queue[s])
            BY <1>1, <2>1, <3>1, <3>2 DEF LoadInv, Ages
        <3> QED BY <1>1, <2>1, <3>1, <3>3, ApartShare
    <2> QED BY <2>1, <2>2 DEF LoadInv, StoresPlaced
<1>7. \A q \in 1..Len(rob) : p < q => ~rob[q].written /\ ~Writes(accepted, q)
    BY <1>2, <1>3, <1>4, NoneBehind
<1>8. n_memory(accepted)[h] = memory[h]
    <2> SUFFICES ASSUME NEW q, Writes(accepted, q), h \in Covers(rob[q].op) PROVE FALSE
        BY <1>5, MemoryIs
    <2>1. Store(rob, q) /\ q \in 1..Len(rob) /\ ~rob[q].written
        BY WritesIs DEF Store
    <2>2. ~(q < p)
        BY <1>6, <2>1 DEF Writer
    <2>3. q # p
        BY <1>3, <2>1 DEF Store
    <2>4. ~(p < q)
        BY <1>7, <2>1
    <2> QED BY <1>2, <2>1, <2>2, <2>3, <2>4
<1>9. CASE \A i \in 1..Len(rob) : ~Writer(rob, p, h, i)
    BY <1>2, <1>8, <1>9 DEF Reads
<1>10. CASE ~\A i \in 1..Len(rob) : ~Writer(rob, p, h, i)
    <2>1. PICK S : S = {j \in 1..Len(rob) : Writer(rob, p, h, j)}
        OBVIOUS
    <2>2. S \in SUBSET (1..Len(rob)) /\ S # {} /\ Len(rob) \in Int
        BY <1>0, <1>10, <2>1
    <2>3. PICK i \in S : \A j \in S : j <= i
        BY <2>2, MaxExists
    <2>4. i \in 1..Len(rob) /\ Writer(rob, p, h, i)
        BY <2>1, <2>3
    <2>5. \A j \in 1..Len(rob) : Writer(rob, p, h, j) => j <= i
        BY <2>1, <2>3
    <2>6. Youngest(rob, p, h, i)
        BY <2>4, <2>5 DEF Youngest
    <2>7. rob[p].expected[h] = rob[i].op.value
        BY <1>2, <2>4, <2>6 DEF Reads
    <2>8. ASSUME NEW j \in 1..Len(rob), i < j, Store(rob, j), rob[j].written
          PROVE  h \notin Covers(rob[j].op)
        <3>1. ~(p < j)
            BY <1>7, <2>8
        <3>2. j # p
            BY <1>3, <2>8 DEF Store
        <3>3. j < p /\ ~(j <= i)
            BY <1>2, <2>4, <2>8, <3>1, <3>2
        <3> QED BY <2>5, <2>8, <3>3 DEF Writer
    <2>9. LastWritten(rob, h, i)
        BY <1>6, <2>4, <2>8 DEF LastWritten, Writer
    <2>10. memory[h] = rob[i].op.value
        BY <1>5, <2>4, <2>9 DEF LoadInv, MemoryHolds
    <2> QED BY <1>8, <2>7, <2>10
<1> QED BY <1>9, <1>10

\* So the value a load gets at an edge is the one it expects.
LEMMA ValueRight ==
    ASSUME Inside, Aligned, OrderInv, LoadInv, StoresInProgramOrder',
           NEW d, NEW gnt, NEW accepted, NEW hits, NEW give, NEW sel,
           NEW issue, NEW others, NEW k,
           LoadEdge(d, gnt, accepted, hits, give, sel, issue, others, k),
           NEW l \in LoadSlots, load_queue[l].valid,
           NEW p, p = load_queue[l].rob_entry,
           \/ load_queue[l].out_ready \/ l \in hits \/ Forwarding(l) # {}
           \/ Issued("load", l, N) # {} /\ Located(l).at = Outside
    PROVE  n_value(l, accepted, hits) = rob[p].expected
<1>lsq. LsqInv /\ Near(load_queue)
    BY DEF OrderInv, WriteInv
<1>1. Reads(rob, memory, p, rob[p].expected)
    BY <1>lsq, LoadReads
<1>2. rob[p].expected = [h \in Covers(rob[p].op) |-> rob[p].expected[h]]
    BY <1>1 DEF Reads
<1>3. ~(Issued("load", l, N) # {} /\ Located(l).at = Outside)
    BY <1>lsq, InsideOnly
<1>4. load_queue[l].has_address
    <2>1. l \in hits => load_queue[l].ready_for_mem
        BY DEF LoadEdge, load_mem_rdy
    <2>2. load_queue[l].ready_for_mem \/ load_queue[l].out_ready => load_queue[l].has_address
        BY DEF LoadInv, LoadsLocated
    <2>3. Forwarding(l) # {} => load_queue[l].has_address
        BY DEF Forwarding
    <2> QED BY <1>3, <2>1, <2>2, <2>3
<1>5. Located(l) = load_queue[l]
    BY <1>4, LocatedKept DEF Located
<1>6. Covered(Located(l).at, Located(l).size) = Covers(rob[p].op)
    BY <1>4, <1>5 DEF LoadInv, LoadsLocated, SameAs, Covers
<1>7. n_value(l, accepted, hits) =
        IF l \in hits THEN [h \in Covers(rob[p].op) |-> n_memory(accepted)[h]]
        ELSE IF Forwarding(l) # {}
        THEN [h \in Covers(rob[p].op) |->
                store_queue[CHOOSE s \in Forwarding(l) : TRUE].value]
        ELSE load_queue[l].value
    BY <1>3, <1>5, <1>6 DEF n_value
<1>8. CASE l \in hits
    <2>1. \A h \in Covers(rob[p].op) : n_memory(accepted)[h] = rob[p].expected[h]
        BY <1>8, AnswersRight
    <2>2. [h \in Covers(rob[p].op) |-> n_memory(accepted)[h]] =
            [h \in Covers(rob[p].op) |-> rob[p].expected[h]]
        BY <2>1
    <2> QED BY <1>2, <1>7, <1>8, <2>2
<1>9. CASE l \notin hits /\ Forwarding(l) # {}
    <2>1. PICK s : s = CHOOSE x \in Forwarding(l) : TRUE
        OBVIOUS
    <2>2. s \in Forwarding(l)
        BY <1>9, <2>1
    <2>3. \A h \in Covers(rob[p].op) : store_queue[s].value = rob[p].expected[h]
        BY <2>2, ForwardsRight
    <2>4. [h \in Covers(rob[p].op) |-> store_queue[s].value] =
            [h \in Covers(rob[p].op) |-> rob[p].expected[h]]
        BY <2>3
    <2> QED BY <1>2, <1>7, <1>9, <2>1, <2>4
<1>10. CASE l \notin hits /\ Forwarding(l) = {}
    <2>1. load_queue[l].out_ready
        BY <1>3, <1>10
    <2>2. load_queue[l].value = rob[p].expected
        BY <2>1 DEF LoadInv, Got
    <2> QED BY <1>7, <1>10, <2>2
<1> QED BY <1>8, <1>9, <1>10

\* The loads that have a value after the edge have the one they expect.
LEMMA GotAfter ==
    ASSUME Inside, Aligned, OrderInv, LoadInv, StoresInProgramOrder',
           NEW d, NEW gnt, NEW accepted, NEW hits, NEW give, NEW sel,
           NEW issue, NEW others, NEW k,
           LoadEdge(d, gnt, accepted, hits, give, sel, issue, others, k)
    PROVE  Got(rob', load_queue', out')
<1>lsq. LsqInv
    BY DEF OrderInv, WriteInv
<1>1. ASSUME NEW l \in LoadSlots, load_queue'[l].valid, load_queue'[l].out_ready
      PROVE  load_queue'[l].value = rob'[load_queue'[l].rob_entry].expected
    <2>1. CASE \E x \in Of(d, "load") : LoadEnters(load_queue'[l], d, x, Len(rob) + x - k)
        BY <1>1, <2>1 DEF LoadEnters
    <2>2. CASE /\ load_queue[l].valid
               /\ load_queue'[l].rob_entry = load_queue[l].rob_entry - k
               /\ LoadGoesOn(d, l, load_queue'[l], accepted, hits)
        <3>1. PICK p : p = load_queue[l].rob_entry
            OBVIOUS
        <3>2. p \in 1..Len(rob) /\ k < p
            BY <1>lsq, <2>2, <3>1, LoadIn
        <3>3. rob'[p - k].expected = rob[p].expected
            BY <1>lsq, <3>2, EntryStays
        <3>4. /\ load_queue'[l].value = n_value(l, accepted, hits)
              /\ \/ load_queue[l].out_ready \/ l \in hits \/ Forwarding(l) # {}
                 \/ Issued("load", l, N) # {} /\ Located(l).at = Outside
            BY <1>1, <2>2 DEF LoadGoesOn
        <3>5. n_value(l, accepted, hits) = rob[p].expected
            BY <2>2, <3>1, <3>4, ValueRight
        <3> QED BY <2>2, <3>1, <3>3, <3>4, <3>5
    <2> QED BY <1>lsq, <1>1, <2>1, <2>2, LoadWas
<1>2. ASSUME NEW i \in Ways, out'[i].valid, Load(rob', out'[i].rob_entry)
      PROVE  out'[i].value = rob'[out'[i].rob_entry].expected
    <2>1. CASE /\ i \notin sel /\ out[i].valid
               /\ out'[i].rob_entry = out[i].rob_entry - k /\ out'[i].value = out[i].value
        <3>1. PICK p : p = out[i].rob_entry
            OBVIOUS
        <3>2. p \in 1..Len(rob) /\ ~rob[p].executed
            BY <1>lsq, <2>1, <3>1 DEF LsqInv, Results, Waits
        <3>3. p \notin 1..k /\ k \in 0..Len(rob) /\ Len(rob) \in Nat
            BY <1>lsq, <3>2 DEF LoadEdge, Edge, LsqInv, Buffer
        <3>4. k < p
            BY <3>2, <3>3
        <3>5. rob'[p - k].op = rob[p].op /\ rob'[p - k].expected = rob[p].expected
            BY <1>lsq, <3>2, <3>4, EntryStays
        <3>6. Load(rob, p)
            BY <1>2, <2>1, <3>1, <3>2, <3>5 DEF Load
        <3>7. out[i].value = rob[p].expected
            BY <2>1, <3>1, <3>6 DEF LoadInv, Got
        <3> QED BY <2>1, <3>1, <3>5, <3>7
    <2>2. ASSUME NEW s \in Leaving, out'[i].rob_entry = store_queue[s].rob_entry - k
          PROVE  FALSE
        <3>1. s \in StoreSlots /\ store_queue[s].valid
            BY LeavingIs
        <3>2. PICK p : p = store_queue[s].rob_entry
            OBVIOUS
        <3>3. p \in 1..Len(rob) /\ k < p /\ rob[p].op.kind = "store"
            BY <1>lsq, <3>1, <3>2, StoreIn
        <3>4. rob'[p - k].op = rob[p].op
            BY <1>lsq, <3>3, EntryStays
        <3> QED BY <1>2, <2>2, <3>2, <3>3, <3>4 DEF Load
    <2>3. CASE /\ i \in DOMAIN give
               /\ out'[i].rob_entry = load_queue[give[i]].rob_entry - k
               /\ out'[i].value = load_queue[give[i]].value
        <3>1. PICK l : l = give[i]
            OBVIOUS
        <3>2. l \in LoadSlots /\ load_queue[l].valid /\ load_queue[l].out_ready
            BY <2>3, <3>1 DEF LoadEdge, Edge, Given
        <3>3. PICK p : p = load_queue[l].rob_entry
            OBVIOUS
        <3>4. p \in 1..Len(rob) /\ k < p
            BY <1>lsq, <3>2, <3>3, LoadIn
        <3>5. rob'[p - k].expected = rob[p].expected
            BY <1>lsq, <3>4, EntryStays
        <3>6. load_queue[l].value = rob[p].expected
            BY <3>2, <3>3 DEF LoadInv, Got
        <3> QED BY <2>3, <3>1, <3>3, <3>5, <3>6
    <2> QED BY <1>lsq, <1>2, <2>1, <2>2, <2>3, OutTable
<1> QED BY <1>1, <1>2 DEF Got

-----------------------------------------------------------------------------
(* Loads read in program order                                             *)

LEMMA LoadInit == Init => LoadInv
<1> SUFFICES ASSUME Init PROVE LoadInv
    OBVIOUS
<1>1. /\ rob = <<>> /\ Len(rob) = 0 /\ DOMAIN cur_instr = {}
      /\ \A l \in LoadSlots : ~load_queue[l].valid
      /\ \A s \in StoreSlots : ~store_queue[s].valid
      /\ \A i \in Ways : ~out[i].valid
    BY DEF Init, NoLoad, NoStore, NoOut
<1>2. \A i : ~(i \in 1..Len(rob))
    BY <1>1
<1>3. StoresPlaced(rob, store_queue) /\ LoadsPlaced(rob, load_queue)
    BY <1>1, <1>2 DEF StoresPlaced, LoadsPlaced
<1>4. LoadsLocated(rob, load_queue)
    BY <1>1 DEF LoadsLocated
<1>5. /\ LoadsIssued(rob, load_queue, cur_instr)
      /\ Ages(load_queue, store_queue)
    BY <1>1 DEF LoadsIssued, Ages
<1>6. MemoryHolds(rob, memory) /\ Values(rob, memory)
    BY <1>2 DEF MemoryHolds, Values
<1>7. Got(rob, load_queue, out)
    BY <1>1 DEF Got
<1> QED BY <1>3, <1>4, <1>5, <1>6, <1>7 DEF LoadInv

LEMMA LoadInductive ==
    ASSUME Inside, Aligned, OrderInv, LoadInv, NoReuse', [Next]_vars
    PROVE  LoadInv'
<1>0. WriteInv /\ LsqInv /\ Near(load_queue) /\ StoresInProgramOrder /\ NoReuse
    BY DEF OrderInv, WriteInv
<1>1. CASE UNCHANGED vars
    <2>1. /\ rob' = rob /\ load_queue' = load_queue /\ store_queue' = store_queue
          /\ cur_instr' = cur_instr /\ out' = out /\ memory' = memory
        BY <1>1 DEF vars
    <2> QED BY <2>1 DEF LoadInv
<1>2. ASSUME NEW accepted, Nuke(accepted)
      PROVE  LoadInv'
    <2>1. /\ rob' = <<>> /\ Len(rob') = 0 /\ DOMAIN cur_instr' = {}
          /\ \A l \in LoadSlots : ~load_queue'[l].valid
          /\ \A s \in StoreSlots : ~store_queue'[s].valid
          /\ \A i \in Ways : ~out'[i].valid
        BY <1>2 DEF Nuke, NoLoad, NoStore, NoOut
    <2>2. \A i : ~(i \in 1..Len(rob'))
        BY <2>1
    <2>3. StoresPlaced(rob', store_queue') /\ LoadsPlaced(rob', load_queue')
        BY <2>1, <2>2 DEF StoresPlaced, LoadsPlaced
    <2>4. LoadsLocated(rob', load_queue')
        BY <2>1 DEF LoadsLocated
    <2>5. /\ LoadsIssued(rob', load_queue', cur_instr')
          /\ Ages(load_queue', store_queue')
        BY <2>1 DEF LoadsIssued, Ages
    <2>6. MemoryHolds(rob', memory') /\ Values(rob', memory')
        BY <2>2 DEF MemoryHolds, Values
    <2>7. Got(rob', load_queue', out')
        BY <2>1 DEF Got
    <2> QED BY <2>3, <2>4, <2>5, <2>6, <2>7 DEF LoadInv
<1>3. ASSUME NEW d, NEW gnt, NEW accepted, NEW hits, NEW give, NEW sel,
             NEW issue, NEW others, NEW k,
             LoadEdge(d, gnt, accepted, hits, give, sel, issue, others, k)
      PROVE  LoadInv'
    <2>1. StoresInProgramOrder'
        BY OrderInductive DEF OrderInv
    <2>2. StoresPlaced(rob', store_queue') /\ LoadsPlaced(rob', load_queue')
        BY <1>0, <1>3, StoresPlacedAfter, LoadsPlacedAfter
    <2>3. LoadsLocated(rob', load_queue')
        BY <1>0, <1>3, LoadsLocatedAfter
    <2>4. /\ LoadsIssued(rob', load_queue', cur_instr')
          /\ Ages(load_queue', store_queue')
        BY <1>0, <1>3, LoadsIssuedAfter, AgesAfter
    <2>5. MemoryHolds(rob', memory') /\ Values(rob', memory')
        BY <1>3, <2>1, MemoryAfter, ValuesAfter
    <2>6. Got(rob', load_queue', out')
        BY <1>3, <2>1, GotAfter
    <2> QED BY <2>2, <2>3, <2>4, <2>5, <2>6 DEF LoadInv
<1>4. CASE Next
    <2>1. \/ \E d, gnt, accepted, hits, give, sel, issue, others, k :
                LoadEdge(d, gnt, accepted, hits, give, sel, issue, others, k)
          \/ \E accepted \in {{}, ToWrite} : Nuke(accepted)
        BY <1>0, <1>4, NextLoadSteps
    <2> QED BY <1>2, <1>3, <2>1
<1> QED BY <1>1, <1>4

LEMMA LoadSays == LsqInv /\ LoadInv => LoadsReadProgramOrder
<1> SUFFICES ASSUME LsqInv, LoadInv, NEW i \in Ways, out[i].valid,
                    rob[out[i].rob_entry].op.kind = "load"
             PROVE  out[i].value = rob[out[i].rob_entry].expected
    BY DEF LoadsReadProgramOrder
<1>1. out[i].rob_entry \in 1..Len(rob)
    BY DEF LsqInv, Results, Waits
<1> QED BY <1>1 DEF LoadInv, Got, Load

\* As long as no slot is used again before its store has retired, and accesses
\* are aligned and inside memory, a load's result is what the program order
\* says it reads: whether it was forwarded or came from memory, whatever the
\* order in which addresses come, stores leave and the cache answers.
THEOREM LoadsReadInOrder ==
    ASSUME Inside, Aligned PROVE Spec /\ []NoReuse => []LoadsReadProgramOrder
<1>1. Init => OrderInv /\ LoadInv
    BY OrderInit, LoadInit
<1>2. OrderInv /\ NoReuse' /\ [Next]_vars => OrderInv'
    BY OrderInductive
<1>3. OrderInv /\ LoadInv /\ NoReuse' /\ [Next]_vars => LoadInv'
    BY LoadInductive
<1>4. OrderInv /\ LoadInv => LoadsReadProgramOrder
    BY LoadSays DEF OrderInv, WriteInv
<1> QED BY <1>1, <1>2, <1>3, <1>4, PTL DEF Spec

\* So as long as the stores in flight fit in the queue, loads read in program
\* order, whatever the aligned program and the answers of the cache.
THEOREM FewStoresLoads ==
    ASSUME Inside, Aligned
    PROVE  Spec /\ []FewStores => []LoadsReadProgramOrder
<1>1. Spec => [](NoReuse <=> FewStores)
    BY ReuseIsTooManyStores
<1>2. Spec /\ []NoReuse => []LoadsReadProgramOrder
    BY LoadsReadInOrder
<1> QED BY <1>1, <1>2, PTL
=============================================================================

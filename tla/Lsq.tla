--------------------------------- MODULE Lsq ---------------------------------
(***************************************************************************)
(* The load/store queue (lsq.sv): loads in any slot of one queue, stores in*)
(* a circular one.  A load remembers the older stores that might be to its *)
(* address; it takes the value of the youngest of them, or waits for it, or*)
(* goes to the data cache once none is left.  A store is written when the  *)
(* reorder buffer has released it.                                         *)
(*                                                                         *)
(* The reorder buffer is the in-order queue that rob.sv implements, with   *)
(* the registered list of released stores it hands over; the data cache    *)
(* accepts and answers when it likes, with what memory holds.  The program *)
(* runs on one word of two halves, so that accesses can be to the same     *)
(* place, to different places, or overlap.  One step is one clock edge.    *)
(***************************************************************************)
EXTENDS Integers, Sequences, FiniteSets, Functions

CONSTANTS
    N,                 \* degree of superscalar, and NUM_MEMS
    ROB_NUM_ENTRIES,   \* slots of the reorder buffer
    LOAD_QUEUE_SIZE,
    STORE_QUEUE_SIZE,
    Ops                \* instructions of the program

Halves == 0..1
Outside == 2           \* an address from 32'h10000 on
DeadBeef == -559038737  \* 32'hdeadbeef, signed

ASSUME LsqAssumption ==
    /\ N \in Nat \ {0}
    /\ ROB_NUM_ENTRIES \in Nat /\ ROB_NUM_ENTRIES >= N
    /\ LOAD_QUEUE_SIZE \in Nat /\ LOAD_QUEUE_SIZE >= N
    /\ STORE_QUEUE_SIZE \in Nat /\ STORE_QUEUE_SIZE >= N
    /\ Ops \subseteq [kind : {"load", "store", "alu", "branch", "mispredicted"},
                      at : Halves \cup {Outside}, size : {"HALF", "WORD"}, value : Nat]

VARIABLES
    rob,                  \* the instructions in flight, oldest first
    stores_ready,         \* registered in the ROB: store slots that may be written
    load_queue, store_queue,
    str_head, str_tail,
    cur_instr,            \* registered: the instructions just issued, by way
    out,                  \* results that wait for a slot on the CDB
    memory                \* the halves of the word

vars == <<rob, stores_ready, load_queue, store_queue, str_head, str_tail,
          cur_instr, out, memory>>

Ways == 1..N
LoadSlots == 0..(LOAD_QUEUE_SIZE - 1)
StoreSlots == 0..(STORE_QUEUE_SIZE - 1)
NoSlot == -1

\* The halves an access covers.
Covered(at, size) ==
    IF at = Outside THEN {} ELSE IF size = "WORD" THEN Halves ELSE {at}
Memory(op) == op.kind \in {"load", "store"}

NoLoad ==
    [valid |-> FALSE, out_ready |-> FALSE, ready_for_mem |-> FALSE,
     has_address |-> FALSE, rob_entry |-> 0, at |-> 0, size |-> "WORD",
     value |-> <<>>, age_addr_match |-> {}]
NoStore ==
    [valid |-> FALSE, out_ready |-> FALSE, ready_for_mem |-> FALSE,
     has_address |-> FALSE, rob_entry |-> 0, at |-> 0, size |-> "WORD", value |-> 0]
NoOut == [valid |-> FALSE, rob_entry |-> 0, value |-> <<>>]

Init ==
    /\ rob = <<>>
    /\ stores_ready = [i \in Ways |-> NoSlot]
    /\ load_queue = [l \in LoadSlots |-> NoLoad]
    /\ store_queue = [s \in StoreSlots |-> NoStore]
    /\ str_head = 0 /\ str_tail = 0
    /\ cur_instr = <<>>
    /\ out = [i \in Ways |-> NoOut]
    /\ memory = [h \in Halves |-> 0]

-----------------------------------------------------------------------------
(* Dispatch                                                                *)

WrapsLate(x) ==  \* mutated form of Wrap
    IF x > STORE_QUEUE_SIZE THEN x - STORE_QUEUE_SIZE ELSE x

Wrap(x) == IF x >= STORE_QUEUE_SIZE THEN x - STORE_QUEUE_SIZE ELSE x

open_load_spaces == {l \in LoadSlots : ~load_queue[l].valid}

store_q_full ==
    IF str_head > str_tail \/ (str_head = str_tail /\ store_queue[str_head].valid)
    THEN str_head - str_tail < N
    ELSE STORE_QUEUE_SIZE - (str_tail - str_head) < N

lsq_full == Cardinality(open_load_spaces) < N \/ store_q_full
rob_full == ROB_NUM_ENTRIES - Len(rob) < N

Of(d, kind) == {i \in DOMAIN d : d[i].kind = kind}

\* The slot that way i of group d is given; gnt are the selector's grants.
StoreSlot(d, i) == Wrap(str_tail + Cardinality({j \in Of(d, "store") : j < i}))
n_lsq_idxs(d, gnt, i) ==
    IF d[i].kind = "store" THEN StoreSlot(d, i)
    ELSE IF d[i].kind = "load" THEN gnt[i] ELSE NoSlot

AdvancesOnce(d) ==  \* mutated form of n_str_tail
    IF Of(d, "store") = {} THEN str_tail ELSE Wrap(str_tail + 1)

n_str_tail(d) == Wrap(str_tail + Cardinality(Of(d, "store")))

\* At dispatch every older store in the queue may conflict.
OlderStores(d, i) ==
    {s \in StoreSlots : store_queue[s].valid} \cup
    {StoreSlot(d, j) : j \in {w \in Of(d, "store") : w < i}}

NewLoad(d, i, entry) ==
    [NoLoad EXCEPT !.valid = TRUE, !.rob_entry = entry,
                   !.age_addr_match = OlderStores(d, i)]

\* The address, the size and the value of the slot's former store stay.
NewStore(s, entry) ==
    [store_queue[s] EXCEPT !.valid = TRUE, !.out_ready = FALSE,
        !.ready_for_mem = FALSE, !.has_address = FALSE, !.rob_entry = entry]

\* Store slot s once group d is in the queue.
Entering(d, s) ==
    LET ways == {i \in Of(d, "store") : StoreSlot(d, i) = s}
    IN  IF ways = {} THEN store_queue[s]
        ELSE NewStore(s, Len(rob) + CHOOSE i \in ways : TRUE)

-----------------------------------------------------------------------------
(* Addresses, forwarding and the data cache                                *)

\* The ways up to w that issue the instruction of that slot.
Issued(kind, index, w) ==
    {v \in DOMAIN cur_instr :
        v <= w /\ cur_instr[v].kind = kind /\ cur_instr[v].index = index}
LastWay(ways) == CHOOSE v \in ways : \A u \in ways : u <= v

\* Load slot l after the ways up to w have registered their addresses.
LocatedBy(l, w) ==
    LET c == cur_instr[LastWay(Issued("load", l, w))]
    IN  IF Issued("load", l, w) = {} THEN load_queue[l]
        ELSE [load_queue[l] EXCEPT !.at = c.at, !.size = c.size, !.has_address = TRUE]

\* The exception check of a store looks at the load queue.
Exception(s, w) == s \in LoadSlots /\ LocatedBy(s, w).at = Outside

\* Store slot s, in which d may have put a new store, after the ways up to w.
AddressedBy(d, s, w) ==
    LET last == LastWay(Issued("store", s, w))
        c == cur_instr[last]
    IN  IF Issued("store", s, w) = {} THEN Entering(d, s)
        ELSE [Entering(d, s) EXCEPT !.at = c.at, !.size = c.size, !.has_address = TRUE,
                !.value = IF Exception(s, last) THEN DeadBeef ELSE c.value,
                !.out_ready = @ \/ Exception(s, last)]

Located(l) == LocatedBy(l, N)
Addressed(d, s) == AddressedBy(d, s, N)

\* The stores found to be elsewhere when a way brings one of the two addresses.
Elsewhere(d, l) ==
    {s \in StoreSlots : \E w \in DOMAIN cur_instr :
        /\ \/ w \in Issued("load", l, w) /\ store_queue[s].valid
           \/ w \in Issued("store", s, w) /\ load_queue[l].valid
        /\ LocatedBy(l, w).has_address /\ AddressedBy(d, s, w).has_address
        /\ LocatedBy(l, w).size = AddressedBy(d, s, w).size
        /\ LocatedBy(l, w).at # AddressedBy(d, s, w).at}

\* The position of a store slot in program order.
Age(s) == IF s >= str_head THEN s - str_head ELSE s - str_head + STORE_QUEUE_SIZE
InQueue(s) ==
    IF str_head < str_tail \/ (str_head = str_tail /\ ~store_queue[str_head].valid)
    THEN str_head <= s /\ s < str_tail
    ELSE s >= str_head \/ s < str_tail

\* The youngest older store that may conflict with load l.
Conflicts(l) == {s \in load_queue[l].age_addr_match : InQueue(s)}
index1(l) == {s \in Conflicts(l) : \A t \in Conflicts(l) : Age(t) <= Age(s)}

AnySize(l) ==  \* mutated form of Forwarding
    {s \in index1(l) : /\ load_queue[l].valid /\ load_queue[l].has_address
                       /\ store_queue[s].has_address}

Forwarding(l) ==
    {s \in index1(l) : /\ load_queue[l].valid /\ load_queue[l].has_address
                       /\ store_queue[s].has_address
                       /\ store_queue[s].size = Located(l).size}
GoesToMemory(l) ==
    load_queue[l].valid /\ load_queue[l].has_address /\ index1(l) = {}

\* The first of the released stores that is in S, as a set.
First(S) ==
    {stores_ready[i] : i \in {w \in Ways :
        /\ stores_ready[w] \in S
        /\ \A v \in Ways : v < w => stores_ready[v] \notin S}}

\* The store to write, and the one to take away.
ToWrite == {s \in First({t \in StoreSlots : ~store_queue[t].out_ready}) :
                store_queue[s].ready_for_mem}
LeavesEarly ==  \* mutated form of ToLeave
    {s \in First({t \in StoreSlots : store_queue[t].ready_for_mem}) :
        store_queue[s].valid}

ToLeave == {s \in First({t \in StoreSlots : store_queue[t].out_ready}) :
                store_queue[s].valid}

load_mem_rdy ==
    {l \in LoadSlots : /\ load_queue[l].valid /\ load_queue[l].ready_for_mem
                       /\ ~load_queue[l].out_ready}
load_out_rdy == {l \in LoadSlots : load_queue[l].valid /\ load_queue[l].out_ready}

n_memory(accepted) ==
    [h \in Halves |->
        IF \E s \in accepted : h \in Covered(store_queue[s].at, store_queue[s].size)
        THEN store_queue[CHOOSE s \in accepted : TRUE].value
        ELSE memory[h]]

-----------------------------------------------------------------------------
(* The queues after the edge.  d is the group that enters, gnt the load    *)
(* slots it is given; accepted the store that the cache takes, hits the    *)
(* loads it answers; give the loads that move to the outputs, by output.   *)

StoreOutput == N
FreeOutputs == {i \in Ways : ~out[i].valid}

\* The last output is the stores' when one can leave; the loads have the rest.
Leaving == IF StoreOutput \in FreeOutputs THEN ToLeave ELSE {}
LoadOutputs == FreeOutputs \ IF Leaving # {} THEN {StoreOutput} ELSE {}

\* The grants of the output selector, those whose output is taken dropped.
Outputs ==
    LET lines == 1..(IF Cardinality(load_out_rdy) < N THEN Cardinality(load_out_rdy) ELSE N)
    IN  {Restrict(g, lines \cap LoadOutputs) : g \in Injection(lines, load_out_rdy)}

DispatchedTo(d, gnt, l) == {i \in Of(d, "load") : gnt[i] = l}

n_load(d, l, accepted, hits) ==
    LET located == Located(l)
        data == IF Issued("load", l, N) # {} /\ located.at = Outside
                THEN [h \in {} |-> DeadBeef]
                ELSE IF l \in hits
                THEN [h \in Covered(located.at, located.size) |-> n_memory(accepted)[h]]
                ELSE IF Forwarding(l) # {}
                THEN [h \in Covered(located.at, located.size) |->
                        store_queue[CHOOSE s \in Forwarding(l) : TRUE].value]
                ELSE located.value
    IN  [located EXCEPT
            !.value = data,
            !.out_ready = \/ @ \/ l \in hits \/ Forwarding(l) # {}
                          \/ Issued("load", l, N) # {} /\ located.at = Outside,
            !.ready_for_mem = @ \/ GoesToMemory(l),
            !.age_addr_match = (@ \ Elsewhere(d, l)) \ Leaving]

\* Made ready and accepted are slots: the store that d puts there gets the marks.
n_store(d, s, accepted) ==
    [Addressed(d, s) EXCEPT
        !.ready_for_mem = \/ @
                          \/ /\ \E i \in Ways : stores_ready[i] = s
                             /\ store_queue[s].has_address,
        !.out_ready = @ \/ s \in accepted]

\* An entry of the reorder buffer k places nearer to its head.
Moved(e, k) == [e EXCEPT !.rob_entry = IF e.valid THEN @ - k ELSE @]

n_load_queue(d, gnt, accepted, hits, give, k) ==
    [l \in LoadSlots |->
        IF l \in Range(give) THEN NoLoad
        ELSE IF DispatchedTo(d, gnt, l) # {}
        THEN LET i == CHOOSE w \in DispatchedTo(d, gnt, l) : TRUE
                 new == NewLoad(d, i, Len(rob) + i - k)
             IN  [new EXCEPT !.age_addr_match = @ \ Leaving]
        ELSE IF load_queue[l].valid THEN Moved(n_load(d, l, accepted, hits), k)
        ELSE NoLoad]

n_store_queue(d, accepted, k) ==
    [s \in StoreSlots |->
        IF s \in Leaving THEN NoStore ELSE Moved(n_store(d, s, accepted), k)]

\* The functional units' arbiter takes the outputs in sel.
n_out(give, sel, k) ==
    [i \in Ways |->
        IF i \in sel THEN NoOut
        ELSE IF out[i].valid THEN Moved(out[i], k)
        ELSE IF i = StoreOutput /\ Leaving # {}
        THEN [valid |-> TRUE, value |-> <<>>,
              rob_entry |-> store_queue[CHOOSE s \in Leaving : TRUE].rob_entry - k]
        ELSE IF i \in DOMAIN give
        THEN [valid |-> TRUE, value |-> load_queue[give[i]].value,
              rob_entry |-> load_queue[give[i]].rob_entry - k]
        ELSE NoOut]

-----------------------------------------------------------------------------
(* The reorder buffer                                                      *)

\* How many leave: the executed ones at the head, up to a mispredicted branch.
Retiring ==
    {i \in Ways : i <= Len(rob) /\ \A j \in 1..i :
        rob[j].executed /\ (j < i => rob[j].op.kind # "mispredicted")}
branch_mispredict == \E i \in Retiring : rob[i].op.kind = "mispredicted"

\* What the program order says a load reads: for each half the value of the
\* youngest older store in flight, else what memory holds.
Expected(older, op) ==
    [h \in Covered(op.at, op.size) |->
        LET writers == {i \in DOMAIN older :
                older[i].kind = "store" /\ h \in Covered(older[i].at, older[i].size)}
        IN  IF writers = {} THEN memory[h]
            ELSE older[CHOOSE i \in writers : \A j \in writers : j <= i].value]

InFlightOps == [i \in DOMAIN rob |-> rob[i].op]

NewInstr(d, gnt, i) ==
    [op |-> d[i], lsq_index |-> n_lsq_idxs(d, gnt, i), issued |-> FALSE,
     executed |-> FALSE, written |-> FALSE,
     expected |-> IF d[i].kind = "load"
                  THEN Expected(InFlightOps \o SubSeq(d, 1, i - 1), d[i]) ELSE <<>>]

\* The k at the head leave and group d enters; done has its results on the CDB
\* and issue leaves the reservation stations.
n_rob(d, gnt, k, done, issue, accepted) ==
    [i \in 1..(Len(rob) - k) |->
        [rob[i + k] EXCEPT
            !.executed = @ \/ (i + k) \in done,
            !.issued = @ \/ (i + k) \in Range(issue),
            !.written = @ \/ \E s \in accepted : store_queue[s].rob_entry = i + k]]
    \o [i \in DOMAIN d |-> NewInstr(d, gnt, i)]

PassesBranches(r) ==  \* mutated form of n_stores_ready
    LET blocks(e) == e.op.kind = "load" /\ ~e.executed
    IN  [i \in Ways |->
            IF /\ i <= Len(r) /\ \A j \in 1..i : ~blocks(r[j])
               /\ r[i].op.kind = "store"
            THEN r[i].lsq_index ELSE NoSlot]

n_stores_ready(r) ==
    LET blocks(e) == \/ e.op.kind \in {"branch", "load"} /\ ~e.executed
                     \/ e.op.kind = "mispredicted"
    IN  [i \in Ways |->
            IF /\ i <= Len(r) /\ \A j \in 1..i : ~blocks(r[j])
               /\ r[i].op.kind = "store"
            THEN r[i].lsq_index ELSE NoSlot]

\* Only a wrong path leads to addresses outside memory.
Groups ==
    {d \in UNION {[1..n -> Ops] : n \in 0..N} :
        \A i \in DOMAIN d : d[i].at = Outside =>
            \/ \E j \in DOMAIN rob : rob[j].op.kind = "mispredicted"
            \/ \E j \in 1..(i - 1) : d[j].kind = "mispredicted"}

Issuable == {i \in DOMAIN rob : Memory(rob[i].op) /\ ~rob[i].issued}
\* Up to N of them, each in a way of its own.
Issues == UNION {Injection(1..n, Issuable) : n \in 0..N}
Executable == {i \in DOMAIN rob : ~Memory(rob[i].op) /\ ~rob[i].executed}

Instr(i) == [kind |-> rob[i].op.kind, index |-> rob[i].lsq_index, at |-> rob[i].op.at,
             size |-> rob[i].op.size, value |-> rob[i].op.value]

-----------------------------------------------------------------------------

Advance(d, gnt, accepted, hits, give, sel, issue, others) ==
    LET k == Cardinality(Retiring)
        done == {out[i].rob_entry : i \in sel} \cup others
    IN  /\ ~branch_mispredict
        /\ rob' = n_rob(d, gnt, k, done, issue, accepted)
        /\ stores_ready' = n_stores_ready(rob')
        /\ load_queue' = n_load_queue(d, gnt, accepted, hits, give, k)
        /\ store_queue' = n_store_queue(d, accepted, k)
        /\ str_head' = IF Leaving = {} THEN str_head ELSE Wrap(str_head + 1)
        /\ str_tail' = n_str_tail(d)
        /\ cur_instr' = [w \in DOMAIN issue |-> Instr(issue[w])]
        /\ out' = n_out(give, sel, k)
        /\ memory' = n_memory(accepted)

\* A mispredicted branch retires; a store may still be written at this edge.
Nuke(accepted) ==
    /\ branch_mispredict
    /\ rob' = <<>>
    /\ stores_ready' = [i \in Ways |-> NoSlot]
    /\ load_queue' = [l \in LoadSlots |-> NoLoad]
    /\ store_queue' = [s \in StoreSlots |-> NoStore]
    /\ str_head' = 0 /\ str_tail' = 0
    /\ cur_instr' = <<>>
    /\ out' = [i \in Ways |-> NoOut]
    /\ memory' = n_memory(accepted)

Next ==
    \E accepted \in {{}, ToWrite} :
        \/ \E d \in (IF lsq_full \/ rob_full THEN {<<>>} ELSE Groups),
              hits \in SUBSET load_mem_rdy, give \in Outputs,
              sel \in SUBSET (Ways \ FreeOutputs), issue \in Issues,
              others \in SUBSET Executable :
            /\ Cardinality(hits) <= N
            /\ Cardinality(sel) + Cardinality(others) <= N
            /\ \E gnt \in Injection(Of(d, "load"), open_load_spaces) :
                Advance(d, gnt, accepted, hits, give, sel, issue, others)
        \/ Nuke(accepted)

Spec == Init /\ [][Next]_vars

-----------------------------------------------------------------------------
(* Properties                                                              *)

\* The variables have their types.
TypeOK ==
    /\ Len(rob) <= ROB_NUM_ENTRIES
    /\ \A i \in DOMAIN rob : rob[i].op \in Ops
    /\ stores_ready \in [Ways -> StoreSlots \cup {NoSlot}]
    /\ \A l \in LoadSlots :
        load_queue[l].valid => /\ load_queue[l].rob_entry \in DOMAIN rob
                               /\ load_queue[l].age_addr_match \subseteq StoreSlots
    /\ \A s \in StoreSlots :
        store_queue[s].valid => store_queue[s].rob_entry \in DOMAIN rob
    /\ str_head \in StoreSlots /\ str_tail \in StoreSlots
    /\ \A i \in Ways : out[i].valid => out[i].rob_entry \in DOMAIN rob
    /\ memory \in [Halves -> Int]

\* A load's result is what the program order says it reads, although stores
\* and loads get their addresses in any order, stores leave the queue while
\* loads wait for them, slots are used again, and accesses overlap (lsq.sv,
\* lines 187-192, 227-263 and 274-302).
LoadsReadProgramOrder ==
    \A i \in Ways :
        out[i].valid /\ rob[out[i].rob_entry].op.kind = "load"
            => out[i].value = rob[out[i].rob_entry].expected

\* Stores are written in program order, and behind no unresolved branch and
\* no load that is still to read (lsq.sv, lines 304-339; line 317: "Choose
\* first store in program order").
StoresInProgramOrder ==
    \A j \in DOMAIN rob : rob[j].written =>
        \A i \in 1..(j - 1) :
            /\ rob[i].op.kind = "store" => rob[i].written
            /\ rob[i].op.kind \in {"load", "branch"} => rob[i].executed
            /\ rob[i].op.kind # "mispredicted"

\* A store only leaves the queue when the cache has accepted it (lsq.sv, line
\* 335: "Output and deallocate IFF cache can accept, otherwise wait").
StoresReachMemory ==
    \A i \in Ways :
        out[i].valid /\ rob[out[i].rob_entry].op.kind = "store"
            => rob[out[i].rob_entry].written

\* The store queue holds exactly the stores in flight that have not left it,
\* from head to tail in program order (lsq.sv, lines 117-123, 154-170, 395).
StoreQueueInOrder ==
    LET held == {s \in StoreSlots : store_queue[s].valid}
    IN  /\ held = {s \in StoreSlots : Age(s) < Cardinality(held)}
        /\ str_tail = Wrap(str_head + Cardinality(held))
        /\ \A s, t \in held : Age(s) < Age(t) =>
                store_queue[s].rob_entry < store_queue[t].rob_entry
=============================================================================

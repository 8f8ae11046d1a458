--------------------------------- MODULE Rob ---------------------------------
(***************************************************************************)
(* The reorder buffer (rob.sv): a circular buffer that takes up to N       *)
(* instructions per cycle at its tail, marks them executed from the CDB,   *)
(* retires up to N at its head in program order, empties itself when a     *)
(* retiring branch was mispredicted, and tells the load/store queue which  *)
(* stores may go to memory.                                                *)
(*                                                                         *)
(* One step is one clock edge.  The instruction an entry holds is reduced  *)
(* to what the logic tells apart, its kind; a branch also remembers        *)
(* whether its calculated address equals the predicted one (`correct').  A *)
(* store is named by its ROB slot, which stands for the LSQ index the      *)
(* entry carries.                                                          *)
(***************************************************************************)
EXTENDS Integers, FiniteSets

CONSTANTS
    N,                \* degree of superscalar
    ROB_NUM_ENTRIES,  \* slots of the buffer
    Kinds,            \* kinds of instruction the program holds
    NoStore           \* "not valid" in stores_ready

ASSUME RobAssumption ==
    /\ N \in Nat \ {0}
    /\ ROB_NUM_ENTRIES \in Nat /\ ROB_NUM_ENTRIES >= N
    /\ Kinds \subseteq {"alu", "nop", "branch", "load", "store", "wfi"}
    /\ {"alu", "nop"} \subseteq Kinds
    /\ NoStore \notin 0..(ROB_NUM_ENTRIES - 1)

VARIABLES
    entries,       \* the slots
    head_index,    \* oldest instruction
    tail_index,    \* next slot to fill
    halt,          \* a wfi has retired
    stores_ready,  \* registered: the stores that may be written to memory
    rob_commit     \* how many instructions the last edge has retired

vars == <<entries, head_index, tail_index, halt, stores_ready, rob_commit>>

Slots == 0..(ROB_NUM_ENTRIES - 1)
Ways == 0..(N - 1)
Entry == [valid : BOOLEAN, executed : BOOLEAN, correct : BOOLEAN, kind : Kinds]

WrapsLate(x) ==  \* mutated form of Wrap
    IF x > ROB_NUM_ENTRIES THEN x - ROB_NUM_ENTRIES ELSE x

\* An index one lap ahead comes back, as the comparators in the code do it.
Wrap(x) == IF x >= ROB_NUM_ENTRIES THEN x - ROB_NUM_ENTRIES ELSE x

\* What ID/EX hands over in way i.  An add to x0 and a wfi need no functional
\* unit and arrive executed.
Executes(kind) == kind \notin {"nop", "wfi"}
Arriving(kind, valid) ==
    [valid |-> valid, executed |-> ~Executes(kind), correct |-> FALSE, kind |-> kind]

\* The valid ways of a group are its first ones.  The ways behind them are
\* bubbles, which decode as an add to x0; a stalled group keeps its
\* instructions, with valid low.
Groups ==
    {[i \in Ways |-> Arriving(IF i < n \/ n = 0 THEN k[i] ELSE "nop", i < n)] :
        n \in 0..N, k \in [Ways -> Kinds]}

Init ==
    /\ entries = [s \in Slots |-> Arriving("alu", FALSE)]
    /\ head_index = 0
    /\ tail_index = 0
    /\ halt = FALSE
    /\ stores_ready = [i \in Ways |-> NoStore]
    /\ rob_commit = 0

-----------------------------------------------------------------------------

rob_full ==
    IF head_index > tail_index \/ (head_index = tail_index /\ entries[head_index].valid)
    THEN head_index - tail_index < N
    ELSE ROB_NUM_ENTRIES - (tail_index - head_index) < N

next_entries_index(i) == Wrap(tail_index + i)

\* The number of valid ways of a group.
Count(d) == Cardinality({i \in Ways : d[i].valid})
SkipsGroup(d) ==  \* mutated form of n_tail_index: counts bubbles
    Wrap(tail_index + N)

n_tail_index(d) == Wrap(tail_index + Count(d))

(* Retirement *)

Index(i) == Wrap(head_index + i)
Mispredicted(e) == e.kind = "branch" /\ ~e.correct
Halting(e) == e.kind = "wfi"

RetiresOn ==  \* mutated form of Retiring: goes on behind a mispredicted branch
    {i \in Ways : \A j \in 0..i :
        /\ ~(Index(j) = tail_index /\ ~entries[Index(j)].valid)
        /\ entries[Index(j)].executed
        /\ j < i => ~Halting(entries[Index(j)])}

\* The ways that retire: the loop goes on while it meets executed entries, and
\* stops after a wfi or a mispredicted branch and at an invalid tail slot.
Retiring ==
    {i \in Ways : \A j \in 0..i :
        /\ ~(Index(j) = tail_index /\ ~entries[Index(j)].valid)
        /\ entries[Index(j)].executed
        /\ j < i => /\ ~Halting(entries[Index(j)])
                    /\ ~Mispredicted(entries[Index(j)])}
RetiringSlots == {Index(i) : i \in Retiring}

branch_mispredict == \E s \in RetiringSlots : Mispredicted(entries[s])
n_halt == halt \/ \E s \in RetiringSlots : Halting(entries[s])

\* A retiring wfi leaves the head where it is.
n_head_index ==
    Wrap(head_index + Cardinality({i \in Retiring : ~Halting(entries[Index(i)])}))

(* The slots after the edge: dispatch, then the CDB, then retirement *)

\* The slot is written by dispatch: all N slots behind the tail are, valid or
\* not, unless the buffer is full.
Written(s) == {i \in Ways : ~rob_full /\ next_entries_index(i) = s}

n_entries(d, done, right) ==
    [s \in Slots |->
        LET e == IF Written(s) = {} THEN entries[s]
                                    ELSE d[CHOOSE i \in Written(s) : TRUE]
            wfi == s \in RetiringSlots /\ Halting(entries[s])
        IN [valid    |-> e.valid /\ s \notin RetiringSlots,
            executed |-> (e.executed \/ s \in done) /\ ~wfi,
            correct  |-> IF s \in done THEN s \in right ELSE e.correct,
            kind     |-> e.kind]]

(* The stores that may be written: those in the first N entries that no    *)
(* unresolved branch, unexecuted load or wfi precedes.                     *)

PassesBranches(e) ==  \* mutated form of Blocks: waits for no branch to resolve
    Halting(e) \/ (e.kind = "load" /\ ~e.executed)
AwaitsStores(e) ==  \* mutated form of Blocks: a store waits for itself
    Halting(e) \/ (e.kind \in {"branch", "load", "store"} /\ ~e.executed)

Blocks(e) ==
    \/ Halting(e)
    \/ e.kind = "branch" /\ (~e.executed \/ Mispredicted(e))
    \/ e.kind = "load" /\ ~e.executed

n_stores_ready(e, head, tail) ==
    [i \in Ways |->
        IF /\ \A j \in 0..i : /\ ~(Wrap(head + j) = tail /\ ~e[tail].valid)
                              /\ ~Blocks(e[Wrap(head + j)])
           /\ e[Wrap(head + i)].kind = "store"
        THEN Wrap(head + i)
        ELSE NoStore]

-----------------------------------------------------------------------------

Announced == {stores_ready[i] : i \in Ways} \ {NoStore}

\* The instructions whose result can be on the CDB: dispatched, not executed,
\* and for a store, announced to the load/store queue.
Pending ==
    {s \in Slots : /\ entries[s].valid /\ ~entries[s].executed
                   /\ entries[s].kind = "store" => s \in Announced}

\* ID/EX presents group d (invalid while the buffer is full), the CDB reports
\* the instructions in done, and of the branches among them those in right
\* went where they were predicted to.
Advance(d, done, right) ==
    /\ ~branch_mispredict
    /\ rob_full => Count(d) = 0
    /\ Cardinality(done) <= N
    /\ entries' = n_entries(d, done, right)
    /\ head_index' = n_head_index
    /\ tail_index' = n_tail_index(d)
    /\ halt' = n_halt
    /\ stores_ready' = n_stores_ready(entries', head_index', tail_index')
    /\ rob_commit' = Cardinality(Retiring)

\* A mispredicted branch retires: it and what retires before it leave, and
\* everything younger is discarded.
Flush ==
    /\ branch_mispredict
    /\ entries' = [s \in Slots |-> Arriving("alu", FALSE)]
    /\ head_index' = 0
    /\ tail_index' = 0
    /\ halt' = FALSE
    /\ stores_ready' = [i \in Ways |-> NoStore]
    /\ rob_commit' = Cardinality(Retiring)

\* Once a wfi has retired the test bench ends the run.
Next ==
    /\ ~halt
    /\ \/ \E d \in Groups, done \in SUBSET Pending :
            \E right \in SUBSET {s \in done : entries[s].kind = "branch"} :
                Advance(d, done, right)
       \/ Flush

Spec == Init /\ [][Next]_vars

\* The clock keeps ticking, so whatever can retire does; and every instruction
\* that can execute does: a functional unit or the load/store queue holds its
\* result until it has a CDB slot.
Retire == ~branch_mispredict /\ head_index' = n_head_index /\ halt' = n_halt
Fairness ==
    /\ WF_<<head_index, halt>>(Retire)
    /\ WF_vars(Flush)
    /\ \A s \in Slots : []<>(s \notin Pending \/ halt)
FairSpec == Spec /\ Fairness

-----------------------------------------------------------------------------
(* Properties *)

\* The variables have their types.
TypeOK ==
    /\ entries \in [Slots -> Entry]
    /\ head_index \in Slots
    /\ tail_index \in Slots
    /\ halt \in BOOLEAN
    /\ stores_ready \in [Ways -> Slots \cup {NoStore}]
    /\ rob_commit \in 0..N

ValidSlots == {s \in Slots : entries[s].valid}

\* The distance of a slot from the head, going round.
Age(s) == IF s >= head_index THEN s - head_index ELSE s - head_index + ROB_NUM_ENTRIES

\* While the machine runs, the valid slots are the ones from the head up to
\* the tail, whatever mix of dispatch, retirement and wrap-around led there;
\* so the tail never overtakes the head, no slot in the middle is lost, and
\* rob_full is low exactly when a whole group still fits (rob.sv, lines 31-64
\* and 76-79).
Occupancy ==
    ~halt =>
    LET count == Cardinality(ValidSlots)
    IN /\ ValidSlots = {s \in Slots : Age(s) < count}
       /\ tail_index = Wrap(head_index + count)
       /\ rob_full <=> ROB_NUM_ENTRIES - count < N

\* A store that the buffer has once released to memory is released until it
\* retires: no flush, and no change in what precedes it, takes it back
\* (rob.sv, lines 146-172).  The load/store queue has no way to undo the write.
ReleasedStoresStay ==
    [][\A s \in Announced :
        \/ s \in Announced'
        \/ s \in RetiringSlots /\ entries[s].kind = "store"]_vars

\* Every instruction in the buffer retires or is flushed, unless a wfi stops
\* the machine: the rules that hold back retirement and the release of stores
\* never wait for each other (rob.sv, lines 88-172).
EveryInstructionLeaves ==
    \A s \in Slots : entries[s].valid ~> (~entries[s].valid \/ halt)

\* The buffer as a queue: the valid entries from the oldest on.  A wfi that
\* has retired is still in the head slot, no longer valid.
Oldest == IF halt THEN Wrap(head_index + 1) ELSE head_index
Contents ==
    [i \in 1..Cardinality(ValidSlots) |->
        LET e == entries[Wrap(Oldest + (i - 1))]
        IN [kind |-> e.kind, executed |-> e.executed, correct |-> e.correct]]

Queue == INSTANCE InOrderQueue WITH
    Capacity <- ROB_NUM_ENTRIES, queue <- Contents, halted <- halt,
    left <- rob_commit

\* The buffer implements the in-order queue: instructions leave in program
\* order and only once executed, none leaves behind a wfi or a mispredicted
\* branch, none is lost, duplicated or overwritten (rob.sv, lines 67-144).
ImplementsQueue == Queue!Spec
=============================================================================

------------------------------- MODULE Rename -------------------------------
(***************************************************************************)
(* Register renaming: the register alias table and its free list           *)
(* (id/rat.sv), the retirement alias table (rrat.sv) and the ready bits of *)
(* the physical register file (id/prf.sv).                                 *)
(*                                                                         *)
(* The instructions that have been renamed and have not retired are kept,  *)
(* oldest first, in window: the first `dispatched' of them are in the      *)
(* reorder buffer, the others (at most N) are in the ID/EX pipeline        *)
(* register.  Of an instruction the model keeps its destination, one       *)
(* source operand (the second is looked up by the same lines) and whether  *)
(* it has executed.                                                        *)
(*                                                                         *)
(* One step is one clock edge.  The reservation stations, the functional   *)
(* units and the branch comparison of the ROB are the environment: which   *)
(* dispatched instructions broadcast on the CDB, whether a structural      *)
(* hazard outside the ROB stalls ID/EX, and whether a retiring branch was  *)
(* mispredicted, are nondeterministic.                                     *)
(***************************************************************************)
EXTENDS Integers, Sequences, FiniteSets

CONSTANTS
    N,                \* degree of superscalar (`N)
    ROB_NUM_ENTRIES,  \* entries of the reorder buffer
    ARF,              \* architectural registers
    ZERO_REG,         \* x0, which is never renamed
    PRF,              \* physical registers
    PRF_0,            \* physical register number 0, the reset value of a mapping
    NoReg,            \* "no bit set" in a grant of the free-list selector
    Slots,            \* what a decoded slot may hold: its destination, its source,
                      \* and whether it enters the ROB as executed
    X0Loads           \* {FALSE}, or BOOLEAN when a load to x0 may broadcast

ASSUME RenameAssumption ==
    /\ N \in Nat \ {0}
    /\ ROB_NUM_ENTRIES \in Nat
    /\ IsFiniteSet(ARF) /\ ZERO_REG \in ARF
    /\ IsFiniteSet(PRF) /\ PRF_0 \in PRF /\ NoReg \notin PRF
    /\ Slots \subseteq [dest : ARF, src : ARF, executed : BOOLEAN]
    /\ X0Loads \subseteq BOOLEAN

\* What needs no unit has no destination.
ASSUME SlotAssumption == \A s \in Slots : s.executed => s.dest = ZERO_REG

\* The size sys_defs.svh gives the register file: `PRF_NUM_ENTRIES is
\* `ROB_NUM_ENTRIES + `XLEN + `N, and `XLEN is also the number of
\* architectural registers.
ASSUME PrfSizeAssumption ==
    Cardinality(PRF) >= ROB_NUM_ENTRIES + (Cardinality(ARF) - 1) + N

VARIABLES
    rat_entries,     \* speculative mapping
    free_list,       \* physical registers the RAT may hand out
    rrat_entries,    \* retired mapping
    rrat_free_list,  \* physical registers no retired mapping uses
    rrat_valid,      \* architectural registers that some retired write defined
    ready,           \* physical registers whose value is in the PRF
    window,          \* renamed instructions that have not retired, oldest first
    dispatched       \* how many of them have reached the ROB

vars == <<rat_entries, free_list, rrat_entries, rrat_free_list, rrat_valid,
          ready, window, dispatched>>

Entry == [dest_arf : ARF, dest_prf : PRF, src_arf : ARF, src_prf : PRF,
          executed : BOOLEAN]

\* What the decoder hands over in one cycle.  A slot with no destination has
\* dest ZERO_REG; of those a wfi and what an adder would compute for x0 need no
\* unit, and enter the ROB as executed.
Groups == UNION {[1..n -> Slots] : n \in 0..N}

Init ==
    /\ rat_entries = [a \in ARF |-> PRF_0]
    /\ free_list = PRF
    /\ rrat_entries = [a \in ARF |-> PRF_0]
    /\ rrat_free_list = PRF
    /\ rrat_valid = {}
    /\ ready = {}
    /\ window = <<>>
    /\ dispatched = 0

-----------------------------------------------------------------------------
(* Retirement: the ROB retires the k oldest instructions                   *)

\* The executed instructions at the head of the ROB, at most N of them.
Executed(k) == k <= dispatched /\ k <= N /\ \A i \in 1..k : window[i].executed
Retires(k) ==
    /\ Executed(k)
    /\ k < dispatched /\ k < N => ~window[k + 1].executed

\* The retiring instructions that write a register, and those of them no
\* younger one of the same group overwrites.
Writers(k) == {i \in 1..k : window[i].dest_arf # ZERO_REG}
FirstWriters(k) ==  \* mutated form of LastWriters: the first write wins
    {i \in Writers(k) :
        \A j \in Writers(k) : window[j].dest_arf = window[i].dest_arf => j >= i}

LastWriters(k) ==
    {i \in Writers(k) :
        \A j \in Writers(k) : window[j].dest_arf = window[i].dest_arf => j <= i}

n_rrat_entries(k) ==
    [a \in ARF |->
        IF \E i \in LastWriters(k) : window[i].dest_arf = a
        THEN window[CHOOSE i \in LastWriters(k) : window[i].dest_arf = a].dest_prf
        ELSE rrat_entries[a]]

n_rrat_valid(k) == rrat_valid \cup {window[i].dest_arf : i \in Writers(k)}

FreesTableOnly(k) ==  \* mutated form of free_vector: forgets the same group
    {rrat_entries[a] : a \in rrat_valid \cap {window[i].dest_arf : i \in Writers(k)}}

\* The registers a retiring write makes unreachable: the mapping it replaces
\* in the table, or that of an older writer of the same group.
free_vector(k) ==
    {rrat_entries[a] : a \in rrat_valid \cap {window[i].dest_arf : i \in Writers(k)}}
        \cup {window[i].dest_prf : i \in Writers(k) \ LastWriters(k)}

n_rrat_free_list(k) ==
    (rrat_free_list \cup free_vector(k)) \ {window[i].dest_prf : i \in LastWriters(k)}

Retire(k) ==
    /\ rrat_entries' = n_rrat_entries(k)
    /\ rrat_valid' = n_rrat_valid(k)
    /\ rrat_free_list' = n_rrat_free_list(k)

\* The same as rrat.sv has it (lines 33-51), a loop over the commit slots, for
\* the set-valued definitions above to be compared with.
RratBefore == [free |-> {}, list |-> rrat_free_list, map |-> rrat_entries,
               valid |-> rrat_valid]
RratIteration(s, w) ==
    IF w.dest_arf = ZERO_REG
    THEN s
    ELSE LET old == IF w.dest_arf \in s.valid THEN {s.map[w.dest_arf]} ELSE {}
         IN [free  |-> s.free \cup old,
             list  |-> (s.list \cup old) \ {w.dest_prf},
             map   |-> [s.map EXCEPT ![w.dest_arf] = w.dest_prf],
             valid |-> s.valid \cup {w.dest_arf}]
RratLoop(k) ==
    LET s[i \in 0..k] == IF i = 0 THEN RratBefore
                                  ELSE RratIteration(s[i - 1], window[i])
    IN s[k]

-----------------------------------------------------------------------------
(* Completion: the CDB of this cycle                                       *)

\* Up to N dispatched instructions broadcast.  x0: one of them is a load to
\* x0, which broadcasts a valid value for physical register 0.
CanComplete(done, x0) ==
    /\ \A i \in done : ~window[i].executed
    /\ Cardinality(done) <= N
    /\ x0 => \E i \in done : window[i].dest_arf = ZERO_REG

WakesZero(done, x0) ==  \* mutated form of Woken: does not look at dest_arf
    {window[i].dest_prf : i \in done}

Woken(done, x0) ==
    {window[i].dest_prf : i \in {j \in done : window[j].dest_arf # ZERO_REG}}
        \cup (IF x0 THEN {PRF_0} ELSE {})

-----------------------------------------------------------------------------
(* Renaming of one group of decoded instructions                           *)

\* What the selector over the free list may answer: distinct free registers,
\* one for every slot while there are enough of them.
Grants ==
    {g \in [1..N -> PRF \cup {NoReg}] :
        /\ \A i \in 1..N : g[i] # NoReg <=> i <= Cardinality(free_list)
        /\ \A i \in 1..N : g[i] # NoReg => g[i] \in free_list
        /\ \A i, j \in 1..N : i # j /\ g[i] # NoReg => g[i] # g[j]}

\* The slots of group d that are given a register.
Renamed(d, gnt) == {i \in DOMAIN d : d[i].dest # ZERO_REG /\ gnt[i] # NoReg}

phys_reg_dest(d, gnt, i) == IF i \in Renamed(d, gnt) THEN gnt[i] ELSE PRF_0

\* The register a source reads: the table, or the youngest earlier slot of
\* the same group that writes it (the forward packet).
Forwarders(d, i) ==
    {j \in 1..(i - 1) : d[j].dest # ZERO_REG /\ d[j].dest = d[i].src}
ReadsTable(d, gnt, i) ==  \* mutated form of phys_reg_src: no forward packet
    rat_entries[d[i].src]

phys_reg_src(d, gnt, i) ==
    IF Forwarders(d, i) = {}
    THEN rat_entries[d[i].src]
    ELSE phys_reg_dest(d, gnt, CHOOSE j \in Forwarders(d, i) :
                                   \A l \in Forwarders(d, i) : l <= j)

LastRenamed(d, gnt) ==
    {i \in Renamed(d, gnt) :
        \A j \in Renamed(d, gnt) : d[j].dest = d[i].dest => j <= i}
n_rat_entries(d, gnt) ==
    [a \in ARF |->
        IF \E i \in LastRenamed(d, gnt) : d[i].dest = a
        THEN gnt[CHOOSE i \in LastRenamed(d, gnt) : d[i].dest = a]
        ELSE rat_entries[a]]

NeverFrees(d, gnt, k) ==  \* mutated form of n_free_list: only allocates
    free_list \ {gnt[i] : i \in Renamed(d, gnt)}

\* Allocate, then free what retirement releases.
n_free_list(d, gnt, k) ==
    (free_list \ {gnt[i] : i \in Renamed(d, gnt)}) \cup free_vector(k)

NewEntry(d, gnt, i) ==
    [dest_arf |-> d[i].dest, dest_prf |-> phys_reg_dest(d, gnt, i),
     src_arf |-> d[i].src, src_prf |-> phys_reg_src(d, gnt, i),
     executed |-> d[i].executed]

\* The window after this edge: k retired, done executed, d renamed.
n_window(d, gnt, k, done) ==
    [i \in 1..(Len(window) - k + Len(d)) |->
        IF i <= Len(window) - k
        THEN [window[i + k] EXCEPT
                !.executed = window[i + k].executed \/ (i + k) \in done]
        ELSE NewEntry(d, gnt, i - (Len(window) - k))]

-----------------------------------------------------------------------------
(* The clock edge                                                          *)

FullTooLate == ROB_NUM_ENTRIES - dispatched < N - 1  \* mutated form of rob_full

rob_full == ROB_NUM_ENTRIES - dispatched < N

Empty == <<>>
NoGrant == [i \in 1..N |-> NoReg]

\* A structural hazard (RS, ROB or LSQ full) holds ID/EX and IF/ID: nothing is
\* renamed and nothing reaches the ROB.
Stall(k, done, x0) ==
    /\ Retires(k) /\ CanComplete(done, x0)
    /\ Retire(k)
    /\ rat_entries' = rat_entries
    /\ free_list' = n_free_list(Empty, NoGrant, k)
    /\ ready' = (ready \cup Woken(done, x0)) \ free_vector(k)
    /\ window' = n_window(Empty, NoGrant, k, done)
    /\ dispatched' = dispatched - k

\* No hazard: ID/EX moves into the ROB and group d is renamed into ID/EX.  The
\* group is empty when the buffer has nothing or the data side has the bus.
Dispatch(k, done, x0, d, gnt) ==
    /\ ~rob_full
    /\ Retires(k) /\ CanComplete(done, x0)
    /\ Retire(k)
    /\ rat_entries' = IF free_list = {} THEN rat_entries ELSE n_rat_entries(d, gnt)
    /\ free_list' = n_free_list(d, gnt, k)
    /\ ready' = (ready \cup Woken(done, x0)) \ free_vector(k)
    /\ window' = n_window(d, gnt, k, done)
    /\ dispatched' = Len(window) - k

\* The last of the k retiring instructions is a mispredicted branch: the RAT
\* is restored from the RRAT of this very cycle and everything younger goes.
Mispredict(k, done, x0) ==
    /\ k > 0 /\ Executed(k) /\ CanComplete(done, x0)
    /\ Retire(k)
    /\ rat_entries' = n_rrat_entries(k)
    /\ free_list' = n_rrat_free_list(k)
    /\ ready' = (ready \cup Woken(done, x0)) \ n_rrat_free_list(k)
    /\ window' = Empty
    /\ dispatched' = 0

Next ==
    \E k \in 0..N, done \in SUBSET (1..dispatched), x0 \in X0Loads :
        \/ Stall(k, done, x0)
        \/ \E d \in Groups, gnt \in Grants : Dispatch(k, done, x0, d, gnt)
        \/ Mispredict(k, done, x0)

Spec == Init /\ [][Next]_vars

-----------------------------------------------------------------------------
(* Properties                                                              *)

Mapped == {rrat_entries[a] : a \in rrat_valid}
InFlight == {i \in 1..Len(window) : window[i].dest_arf # ZERO_REG}
Pending == {window[i].dest_prf : i \in InFlight}

\* The variables have their types, and what is renamed fits the ROB and ID/EX.
TypeOK ==
    /\ rat_entries \in [ARF -> PRF]
    /\ free_list \subseteq PRF
    /\ rrat_entries \in [ARF -> PRF]
    /\ rrat_free_list \subseteq PRF
    /\ rrat_valid \subseteq ARF \ {ZERO_REG}
    /\ ready \subseteq PRF
    /\ window \in Seq(Entry)
    /\ dispatched \in 0..Len(window)
    /\ dispatched <= ROB_NUM_ENTRIES
    /\ Len(window) <= dispatched + N

\* No physical register has two owners: those of the in-flight writers and
\* of the retired mappings are all different.
SingleOwner ==
    /\ \A i, j \in InFlight : window[i].dest_prf = window[j].dest_prf => i = j
    /\ \A a, b \in rrat_valid : rrat_entries[a] = rrat_entries[b] => a = b
    /\ Pending \cap Mapped = {}

\* No physical register is lost or handed out while it is owned: the RAT's
\* free list is exactly what neither a retired mapping nor an instruction in
\* flight owns, and the RRAT's free list what no retired mapping owns.
Conservation ==
    /\ SingleOwner
    /\ free_list = PRF \ (Mapped \cup Pending)
    /\ rrat_free_list = PRF \ Mapped

\* The RAT has no stall of its own (no_free_prf only drops the update), so the
\* ROB's hazard must imply that each of the N slots is given a register.
RenameNeverStarves == ~rob_full => Cardinality(free_list) >= N

\* The register that holds the value of a for the instruction at position i:
\* that of the youngest older writer in flight, else the retired mapping.
Holds(i, a, p) ==
    \/ \E j \in InFlight :
        /\ j < i /\ window[j].dest_arf = a /\ window[j].dest_prf = p
        /\ \A l \in InFlight : j < l /\ l < i => window[l].dest_arf # a
    \/ /\ \A j \in InFlight : j < i => window[j].dest_arf # a
       /\ rrat_entries[a] = p

\* Every in-flight instruction names, until it retires, the register the
\* program order says it reads, whatever retires, is freed or is renamed in
\* the meantime, and so does the RAT for the next instruction.
DataFlow ==
    /\ \A i \in 1..Len(window) : Holds(i, window[i].src_arf, window[i].src_prf)
    /\ \A a \in ARF : Holds(Len(window) + 1, a, rat_entries[a])

\* The ready bits are exactly the registers whose value has been produced and
\* can still be read: a stale bit would let an instruction read an old value,
\* a lost one would make it wait for ever.
ReadyExact ==
    ready = Mapped \cup {window[i].dest_prf : i \in {j \in InFlight : window[j].executed}}

\* A write to x0 is thrown away (sys_defs.svh, lines 286-287): no register's
\* value is taken to be there before its own writer has executed.  The adder,
\* the branch unit and the multiplier check their destination; the load queue
\* (lsq.sv, line 411) does not, and a load to x0 names physical register 0.
ZeroWritesThrownAway ==
    \A i \in InFlight : ~window[i].executed => window[i].dest_prf \notin ready

\* The set-valued definitions are what the loop over the ROB's commit slots
\* computes, in every reachable state and for every number of retiring
\* instructions.
RetireLoopAgrees ==
    \A k \in 0..N : Executed(k) =>
        RratLoop(k) = [free |-> free_vector(k), list |-> n_rrat_free_list(k),
                       map |-> n_rrat_entries(k), valid |-> n_rrat_valid(k)]
=============================================================================

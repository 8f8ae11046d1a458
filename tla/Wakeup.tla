------------------------------- MODULE Wakeup -------------------------------
(***************************************************************************)
(* The way of an instruction from rename to the common data bus: operand   *)
(* read with bypass (id/prf.sv, id/id_stage.sv), the ID/EX register        *)
(* (R10K_pipeline.sv), the reservation stations (reservation_station.sv),  *)
(* the functional units and the CDB (func/).  Rename is one half of each   *)
(* step here: this module supplies the broadcasts it leaves open.          *)
(*                                                                         *)
(* ops runs in parallel to Rename's window and says where an instruction   *)
(* is and what has become of its operand.  Stations are alike, so a station*)
(* is named by the instruction in it.  An operand that is not ready holds  *)
(* the tag of its register, src_prf in the window.  Values are bits; every *)
(* instruction with a destination computes the complement of its operand,  *)
(* so that consecutive writers of a register have different values.        *)
(*                                                                         *)
(* Loads and stores, which Lsq is about, jumps, which broadcast as an      *)
(* adder does, and instructions that need no unit are left out.  Programs  *)
(* read only what they have written, as crt.s makes sure of by             *)
(* initializing all registers.                                             *)
(***************************************************************************)
EXTENDS Integers, Sequences, FiniteSets

CONSTANTS
    N, ROB_NUM_ENTRIES, ARF, ZERO_REG, PRF, PRF_0, NoReg, Slots,  \* see Rename
    RS_NUM_ENTRIES,   \* reservation stations
    Units,            \* functional units
    FuncUnit,         \* the type of each: "ADD", "MULT" or "BRANCH"
    MULT_STAGES       \* length of the multiplier

ASSUME WakeupAssumption ==
    /\ RS_NUM_ENTRIES \in Nat /\ RS_NUM_ENTRIES >= N
    /\ FuncUnit \in [Units -> {"ADD", "MULT", "BRANCH"}]
    /\ {"ID_EX", "RS", "CDB"} \cap Units = {}
    /\ MULT_STAGES \in Nat \ {0}
    /\ \A s \in Slots : ~s.executed

VARIABLES
    rat_entries, free_list, rrat_entries, rrat_free_list, rrat_valid,
    ready, window, dispatched,  \* see Rename
    ops,         \* where each instruction of the window is, and its operand
    prf,         \* the values of the registers that are ready
    mult,        \* the multipliers
    rob_commit   \* how many instructions the last edge has retired

renameVars == <<rat_entries, free_list, rrat_entries, rrat_free_list, rrat_valid,
                ready, window, dispatched>>
vars == <<renameVars, ops, prf, mult, rob_commit>>

R == INSTANCE Rename WITH X0Loads <- {FALSE}

\* Rename is used under its own assumptions.
ASSUME RenameHalfAssumption ==
    R!RenameAssumption /\ R!SlotAssumption /\ R!PrfSizeAssumption

Bit == 0..1
Complement(v) == 1 - v
Stages == 1..MULT_STAGES
Mults == {u \in Units : FuncUnit[u] = "MULT"}

\* A multiplier: the operand of its instruction, the registered m_reset and
\* out.valid, and per stage whether it is done and whose operand it works on.
IdleMult ==
    [operand |-> 0, m_reset |-> TRUE, valid |-> FALSE,
     done |-> [s \in Stages |-> FALSE], data |-> [s \in Stages |-> 0]]

Places == {"ID_EX", "RS", "CDB"} \cup Units
FuncUnitTypes == {"ADD", "MULT", "BRANCH"}

Init ==
    /\ R!Init
    /\ ops = <<>>
    /\ prf = [p \in PRF |-> 0]
    /\ mult = [u \in Mults |-> IdleMult]
    /\ rob_commit = 0

-----------------------------------------------------------------------------
(* The common data bus *)

In(place) == {i \in 1..Len(ops) : ops[i].at = place}
Busy(u) == In(u) # {}
Holder(u) == CHOOSE i \in In(u) : TRUE

\* Adders and branch units have their result in the cycle after issue.
output_ready == {u \in Units : Busy(u) /\ (u \in Mults => mult[u].valid)}

\* N results at a time get a bus, whichever the selector picks.
Selections ==
    {sel \in SUBSET output_ready :
        Cardinality(sel) = (IF Cardinality(output_ready) < N
                            THEN Cardinality(output_ready) ELSE N)}

Result(u) ==
    Complement(IF u \in Mults THEN mult[u].data[MULT_STAGES] ELSE ops[Holder(u)].value)

\* What is on the buses: the value of each register that is broadcast.  An
\* instruction whose destination is x0 broadcasts no value.
value_valid(sel) == {u \in sel : window[Holder(u)].dest_arf # ZERO_REG}
dest_prf(u) == window[Holder(u)].dest_prf
Cdb(sel) ==
    [p \in {dest_prf(u) : u \in value_valid(sel)} |->
        Result(CHOOSE u \in value_valid(sel) : dest_prf(u) = p)]

-----------------------------------------------------------------------------
(* Operands *)

\* An operand that waits for register p takes its value from the bus.
Snoop(op, p, cdb) ==
    IF ~op.ready /\ p \in DOMAIN cdb
    THEN [op EXCEPT !.ready = TRUE, !.value = cdb[p]]
    ELSE op

NoBypass(p, arf, cdb) ==  \* mutated form of ReadReady
    arf = ZERO_REG \/ p \in ready

\* Decode reads the register file, with the bus bypassed; x0 is zero.
ReadReady(p, arf, cdb) == arf = ZERO_REG \/ p \in ready \/ p \in DOMAIN cdb
ReadValue(p, arf, cdb) ==
    CASE arf = ZERO_REG                       -> 0
      [] arf # ZERO_REG /\ p \in DOMAIN cdb  -> cdb[p]
      [] arf # ZERO_REG /\ p \notin DOMAIN cdb -> prf[p]

Decoded(fu, p, arf, cdb) ==
    LET now == ReadReady(p, arf, cdb)
    IN [at |-> "ID_EX", fu |-> fu, ready |-> now,
        value |-> IF now THEN ReadValue(p, arf, cdb) ELSE 0]

Finished == [at |-> "CDB", fu |-> "ADD", ready |-> TRUE, value |-> 0]

-----------------------------------------------------------------------------
(* Issue *)

rs_full == RS_NUM_ENTRIES - Cardinality(In("RS")) < N

rs_ready(type) == {i \in In("RS") : ops[i].ready /\ ops[i].fu = type}

AnyUnit(sel) == Units  \* mutated form of avail_func_units: does not look at out.valid

\* A unit can be given an instruction in the cycle its result is taken.
avail_func_units(sel) == {u \in Units : ~Busy(u)} \cup sel

NoIssue == [u \in Units |-> 0]
Issuing(issue) == {u \in Units : issue[u] # 0}

\* The instruction issued to each unit, 0 for none: per type, as many as
\* there are ready ones and available units, whichever the selectors pick.
Issues(sel) ==
    {issue \in [Units -> {0} \cup In("RS")] :
        /\ \A u \in Issuing(issue) :
            /\ u \in avail_func_units(sel)
            /\ issue[u] \in rs_ready(FuncUnit[u])
            /\ \A v \in Issuing(issue) : issue[u] = issue[v] => u = v
        /\ \A u \in avail_func_units(sel) \ Issuing(issue) :
            rs_ready(FuncUnit[u]) \subseteq {issue[v] : v \in Issuing(issue)}}

-----------------------------------------------------------------------------
(* The registers after the edge *)

DropsBroadcast(i, sel, cdb, issue, stall) ==  \* mutated form of Moved: no wakeup on entry
    LET op == ops[i]
    IN CASE op.at = "ID_EX" ->
              IF stall THEN Snoop(op, window[i].src_prf, cdb) ELSE [op EXCEPT !.at = "RS"]
         [] op.at = "RS" ->
              IF \E u \in Issuing(issue) : issue[u] = i
              THEN [op EXCEPT !.at = CHOOSE u \in Issuing(issue) : issue[u] = i]
              ELSE Snoop(op, window[i].src_prf, cdb)
         [] op.at \in sel -> Finished
         [] OTHER -> op

\* ID/EX snoops the bus while it is held; otherwise it enters the stations,
\* which snoop for what enters in the same cycle.
Moved(i, sel, cdb, issue, stall) ==
    LET op == Snoop(ops[i], window[i].src_prf, cdb)
    IN CASE op.at = "ID_EX" -> IF stall THEN op ELSE [op EXCEPT !.at = "RS"]
         [] op.at = "RS" ->
              IF \E u \in Issuing(issue) : issue[u] = i
              THEN [op EXCEPT !.at = CHOOSE u \in Issuing(issue) : issue[u] = i]
              ELSE op
         [] op.at \in sel -> Finished
         [] OTHER -> op

KeepsRetired(k, sel, cdb, issue, stall) ==  \* mutated form of n_ops
    [i \in 1..Len(ops) |-> Moved(i, sel, cdb, issue, stall)]

\* Those of the window, less the k that retire.
n_ops(k, sel, cdb, issue, stall) ==
    [i \in 1..(Len(ops) - k) |-> Moved(i + k, sel, cdb, issue, stall)]

IgnoresReset(m, taken, busy) ==  \* mutated form of n_out_valid: takes a stale m_done
    ~taken /\ (m.valid \/ (m.done[MULT_STAGES] /\ busy))
n_out_valid(m, taken, busy) ==
    ~taken /\ (m.valid \/ (m.done[MULT_STAGES] /\ busy /\ ~m.m_reset))

\* The stages always move on; m_reset, in the cycle after issue, clears what
\* they say about being done.
n_mult(sel, issue) ==
    [u \in Mults |->
        LET m == mult[u]
        IN [operand |-> IF issue[u] # 0 THEN ops[issue[u]].value ELSE m.operand,
            m_reset |-> issue[u] # 0,
            valid   |-> n_out_valid(m, u \in sel, Busy(u)),
            done    |-> [s \in Stages |->
                            /\ ~m.m_reset
                            /\ IF s = 1 THEN Busy(u) ELSE m.done[s - 1]],
            data    |-> [s \in Stages |-> IF s = 1 THEN m.operand ELSE m.data[s - 1]]]]

\* Only the values of ready registers can be read.
n_prf(cdb) ==
    [p \in PRF |-> CASE p \in ready' /\ p \in DOMAIN cdb    -> cdb[p]
                     [] p \in ready' /\ p \notin DOMAIN cdb -> prf[p]
                     [] p \notin ready'                     -> 0]

-----------------------------------------------------------------------------
(* The clock edge *)

\* Every register has been written before it is read.
Written == rrat_valid \cup {window[i].dest_arf : i \in 1..Len(window)}
Initialized(d) ==
    \A i \in DOMAIN d : d[i].src \in Written \cup {ZERO_REG} \cup {d[j].dest : j \in 1..(i - 1)}

\* Branches have no destination; additions to x0 need no unit.
Types(slot) == IF slot.dest = ZERO_REG THEN {"BRANCH", "MULT"} ELSE {"ADD", "MULT"}
TypesOf(d) == {t \in [DOMAIN d -> FuncUnitTypes] : \A i \in DOMAIN d : t[i] \in Types(d[i])}

\* What the free-list selector may answer, where group d makes use of it.
Grants(d) ==
    {[i \in 1..N |-> IF i \in DOMAIN d /\ d[i].dest # ZERO_REG THEN g[i] ELSE NoReg] :
        g \in R!Grants}

Completing(sel) == {Holder(u) : u \in sel}

\* A structural hazard: ID/EX is held.
Stall(k, sel, cdb, issue) ==
    /\ R!Stall(k, Completing(sel), FALSE)
    /\ ops' = n_ops(k, sel, cdb, issue, TRUE)
    /\ mult' = n_mult(sel, issue)
    /\ prf' = n_prf(cdb)
    /\ rob_commit' = k

\* ID/EX enters the stations and the ROB, and group d is renamed and reads
\* its operands.
Dispatch(k, sel, cdb, issue, d, types, gnt) ==
    /\ ~rs_full
    /\ R!Dispatch(k, Completing(sel), FALSE, d, gnt)
    /\ ops' = n_ops(k, sel, cdb, issue, FALSE) \o
                [i \in DOMAIN d |->
                    Decoded(types[i], R!phys_reg_src(d, gnt, i), d[i].src, cdb)]
    /\ mult' = n_mult(sel, issue)
    /\ prf' = n_prf(cdb)
    /\ rob_commit' = k

\* A mispredicted branch retires: stations, units and ID/EX are emptied.
Mispredict(k, sel, cdb) ==
    /\ R!Mispredict(k, Completing(sel), FALSE)
    /\ ops' = <<>>
    /\ mult' = [u \in Mults |->
                    [n_mult(sel, NoIssue)[u] EXCEPT
                        !.operand = 0, !.m_reset = TRUE, !.valid = FALSE]]
    /\ prf' = n_prf(cdb)
    /\ rob_commit' = k

\* A group is only looked for when no structural hazard holds ID/EX.
Next ==
    \E k \in 0..N, sel \in Selections :
        LET cdb == Cdb(sel)
        IN \/ /\ R!Retires(k)
              /\ \E issue \in Issues(sel) :
                    \/ Stall(k, sel, cdb, issue)
                    \/ /\ ~rs_full /\ ~R!rob_full
                       /\ \E d \in {g \in R!Groups : Initialized(g)} :
                            \E types \in TypesOf(d), gnt \in Grants(d) :
                                Dispatch(k, sel, cdb, issue, d, types, gnt)
           \/ Mispredict(k, sel, cdb)

Spec == Init /\ [][Next]_vars

-----------------------------------------------------------------------------
(* Properties                                                              *)

\* The variables have their types.
TypeOK ==
    /\ ops \in Seq([at : Places, fu : FuncUnitTypes, ready : BOOLEAN, value : Bit])
    /\ Len(ops) = Len(window)
    /\ prf \in [PRF -> Bit]
    /\ mult \in [Mults -> [operand : Bit, m_reset : BOOLEAN, valid : BOOLEAN,
                           done : [Stages -> BOOLEAN], data : [Stages -> Bit]]]
    /\ rob_commit \in 0..N

\* No instruction is lost or overwritten between rename and the bus: what has
\* been dispatched and has not executed waits in a station or sits in a unit of
\* its type, alone, and the stations hold all that wait.
Placement ==
    /\ Cardinality(In("RS")) <= RS_NUM_ENTRIES
    /\ \A u \in Units : Cardinality(In(u)) <= 1
    /\ \A i \in 1..Len(ops) :
        /\ i > dispatched <=> ops[i].at = "ID_EX"
        /\ window[i].executed <=> ops[i].at = "CDB"
        /\ ops[i].at \in Units => ops[i].ready /\ FuncUnit[ops[i].at] = ops[i].fu

\* No wakeup is lost: an operand that is not ready, in ID/EX or in a station,
\* waits for an older instruction in flight that has yet to broadcast it.
NoLostWakeup ==
    \A i \in 1..Len(ops) :
        ~ops[i].ready =>
            \E j \in 1..(i - 1) :
                /\ ~window[j].executed
                /\ window[j].dest_arf = window[i].src_arf
                /\ window[j].dest_prf = window[i].src_prf

\* The registers an architectural reader would see.
regs == [a \in ARF |-> IF a \in rrat_valid THEN prf[rrat_entries[a]] ELSE 0]

\* The program run one instruction at a time on registers r, up to the n-th
\* instruction of window w.
Execute(w, n, r) ==
    LET run[i \in 0..n] ==
            IF i = 0 THEN r
            ELSE IF w[i].dest_arf = ZERO_REG THEN run[i - 1]
            ELSE [run[i - 1] EXCEPT ![w[i].dest_arf] =
                    Complement(run[i - 1][w[i].src_arf])]
    IN run[n]

\* Retirement changes the registers as the retiring instructions, run in
\* program order, would: each has computed its result from the right operand,
\* whichever way it got it (register file, bypass, ID/EX, station).
ExecutesProgram == [][regs' = Execute(window, rob_commit', regs)]_vars
=============================================================================

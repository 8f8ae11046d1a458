--------------------------- MODULE WakeupTheorems ---------------------------
(***************************************************************************)
(* Theorems about Wakeup, for every superscalar degree, register set,      *)
(* number of stations and units and every length of the multiplier.  They  *)
(* are proved in RenameProofs, which looks at Wakeup from Rename's side,   *)
(* as an instance, so that all that is known of Rename can be used.  Here  *)
(* they are brought back: that instance, seen from Wakeup, has the same    *)
(* constants and variables, and so the same definitions.                   *)
(***************************************************************************)
EXTENDS Wakeup, TLAPS

P == INSTANCE RenameProofs WITH X0Loads <- {FALSE}

-----------------------------------------------------------------------------
(* The assumptions                                                         *)

\* What is assumed of the constants is assumed of the instance's.
LEMMA SameAssumptions ==
    /\ P!RenameAssumption /\ P!SlotAssumption /\ P!PrfSizeAssumption
    /\ P!W!WakeupAssumption
<1>1. P!RenameAssumption
    BY RenameHalfAssumption
    DEF R!RenameAssumption, P!RenameAssumption, R!IsFiniteSet, P!IsFiniteSet
<1>a. P!SlotAssumption
    BY RenameHalfAssumption DEF R!SlotAssumption, P!SlotAssumption
<1>2. P!PrfSizeAssumption
    BY RenameHalfAssumption
    DEF R!PrfSizeAssumption, P!PrfSizeAssumption, R!Cardinality, P!Cardinality
<1>3. P!W!WakeupAssumption
    BY WakeupAssumption DEF P!W!WakeupAssumption
<1> QED BY <1>1, <1>a, <1>2, <1>3

-----------------------------------------------------------------------------
(* The definitions                                                         *)

\* The initial states are the same, ...
LEMMA SameInit == P!W!Init <=> Init
BY Zenon DEF P!W!Init, Init, P!W!R!Init, R!Init, P!W!Mults, Mults,
             P!W!IdleMult, IdleMult, P!W!Stages, Stages

\* ... and so are the clock edges.
LEMMA SameNext == P!W!Next <=> Next
\* Counting.
<1> USE DEF Cardinality, P!W!Cardinality, R!Cardinality, P!W!R!Cardinality
\* Rename: retirement.
<1> USE DEF R!Executed, P!W!R!Executed, R!Retires, P!W!R!Retires, R!Writers,
            P!W!R!Writers, R!LastWriters, P!W!R!LastWriters, R!n_rrat_entries,
            P!W!R!n_rrat_entries, R!n_rrat_valid, P!W!R!n_rrat_valid, R!free_vector,
            P!W!R!free_vector, R!n_rrat_free_list, P!W!R!n_rrat_free_list, R!Retire,
            P!W!R!Retire
\* Rename: renaming.
<1> USE DEF R!Entry, P!W!R!Entry, R!Groups, P!W!R!Groups, R!CanComplete,
            P!W!R!CanComplete, R!Woken, P!W!R!Woken, R!Grants, P!W!R!Grants,
            R!Renamed, P!W!R!Renamed, R!phys_reg_dest, P!W!R!phys_reg_dest,
            R!Forwarders, P!W!R!Forwarders, R!phys_reg_src, P!W!R!phys_reg_src,
            R!LastRenamed, P!W!R!LastRenamed, R!n_rat_entries, P!W!R!n_rat_entries,
            R!n_free_list, P!W!R!n_free_list, R!NewEntry, P!W!R!NewEntry,
            R!n_window, P!W!R!n_window
\* Rename: the clock edge.
<1> USE DEF R!rob_full, P!W!R!rob_full, R!Empty, P!W!R!Empty, R!NoGrant,
            P!W!R!NoGrant, R!Stall, P!W!R!Stall, R!Dispatch, P!W!R!Dispatch,
            R!Mispredict, P!W!R!Mispredict
\* The common data bus.
<1> USE DEF Mults, P!W!Mults, Complement, P!W!Complement, In, P!W!In, Busy,
            P!W!Busy, Holder, P!W!Holder, output_ready, P!W!output_ready,
            Selections, P!W!Selections, Result, P!W!Result, value_valid,
            P!W!value_valid, dest_prf, P!W!dest_prf, Cdb, P!W!Cdb
\* Operands.
<1> USE DEF Snoop, P!W!Snoop, ReadReady, P!W!ReadReady, ReadValue, P!W!ReadValue,
            Decoded, P!W!Decoded, Finished, P!W!Finished
\* Issue.
<1> USE DEF rs_full, P!W!rs_full, rs_ready, P!W!rs_ready, avail_func_units,
            P!W!avail_func_units, NoIssue, P!W!NoIssue, Issuing, P!W!Issuing,
            Issues, P!W!Issues
\* The registers after the edge.
<1> USE DEF Stages, P!W!Stages, Moved, P!W!Moved, n_ops, P!W!n_ops, n_out_valid,
            P!W!n_out_valid, n_mult, P!W!n_mult, n_prf, P!W!n_prf
\* The clock edge.
<1> USE DEF FuncUnitTypes, P!W!FuncUnitTypes, Written, P!W!Written, Initialized,
            P!W!Initialized, Types, P!W!Types, TypesOf, P!W!TypesOf, Grants,
            P!W!Grants, Completing, P!W!Completing, Stall, P!W!Stall, Dispatch,
            P!W!Dispatch, Mispredict, P!W!Mispredict, Next, P!W!Next
<1> QED BY Zenon

\* A behaviour of Wakeup is one of the instance.
LEMMA SameSpec == Spec => P!W!Spec
<1>1. Init => P!W!Init
    BY SameInit
<1>2. [Next]_vars => [P!W!Next]_(P!W!vars)
    BY Zenon, SameNext DEF P!W!vars, vars, P!W!renameVars, renameVars
<1> QED BY <1>1, <1>2, PTL DEF Spec, P!W!Spec

-----------------------------------------------------------------------------
(* The theorems                                                            *)

\* The stations, units and buses broadcast only as Rename lets its environment
\* do: whatever holds of Rename holds of its half of Wakeup.
THEOREM ImplementsRename == Spec => R!Spec
<1>1. P!W!Spec => P!Spec
    BY SameAssumptions, P!WakeupImplementsRename
<1>2. P!Init <=> R!Init
    BY Zenon DEF P!Init, R!Init
<1>3. P!Next <=> R!Next
    <2> USE DEF R!Cardinality, P!Cardinality
    <2> USE DEF R!Executed, P!Executed, R!Retires, P!Retires, R!Writers, P!Writers,
                R!LastWriters, P!LastWriters, R!n_rrat_entries, P!n_rrat_entries,
                R!n_rrat_valid, P!n_rrat_valid, R!free_vector, P!free_vector,
                R!n_rrat_free_list, P!n_rrat_free_list, R!Retire, P!Retire, R!Entry,
                P!Entry, R!Groups, P!Groups, R!CanComplete, P!CanComplete, R!Woken,
                P!Woken, R!Grants, P!Grants, R!Renamed, P!Renamed, R!phys_reg_dest,
                P!phys_reg_dest, R!Forwarders, P!Forwarders, R!phys_reg_src,
                P!phys_reg_src, R!LastRenamed, P!LastRenamed, R!n_rat_entries,
                P!n_rat_entries, R!n_free_list, P!n_free_list, R!NewEntry, P!NewEntry,
                R!n_window, P!n_window, R!rob_full, P!rob_full, R!Empty, P!Empty,
                R!NoGrant, P!NoGrant, R!Stall, P!Stall, R!Dispatch, P!Dispatch,
                R!Mispredict, P!Mispredict, R!Next, P!Next
    <2> QED BY Zenon
<1>4. [P!Next]_(P!vars) => [R!Next]_(R!vars)
    BY Zenon, <1>3 DEF P!vars, R!vars
<1> QED BY <1>1, <1>2, <1>4, SameSpec, PTL DEF P!Spec, R!Spec

\* Operations, register values and multipliers have their types, for every
\* number of stations and units and every length of the multiplier.
THEOREM TypeCorrect == Spec => []TypeOK
<1>1. P!W!Spec => []P!W!TypeOK
    BY SameAssumptions, P!WakeupTypeCorrect
<1>2. P!W!TypeOK => TypeOK
    BY Zenon DEF P!W!TypeOK, TypeOK, P!W!Places, Places, P!W!FuncUnitTypes, FuncUnitTypes,
                 P!W!Bit, Bit, P!W!Mults, Mults, P!W!Stages, Stages
<1> QED BY <1>1, <1>2, SameSpec, PTL

\* Between rename and the bus every instruction is in one place, no unit holds
\* two, and the stations never overflow.
THEOREM EveryInstructionHasItsPlace == Spec => []Placement
<1>1. P!W!Spec => []P!W!Placement
    BY SameAssumptions, P!NothingLostOnTheWay
<1>2. P!W!Placement => Placement
    BY Zenon DEF P!W!Placement, Placement, P!W!In, In, P!W!Cardinality, Cardinality
<1> QED BY <1>1, <1>2, SameSpec, PTL

\* No wakeup is lost: whatever waits for an operand waits for an instruction
\* that has yet to broadcast it, however rename, bypass, snooping, issue and
\* retirement fall together.
THEOREM NoOperandWaitsInVain == Spec => []NoLostWakeup
<1>1. P!W!Spec => []P!W!NoLostWakeup
    BY SameAssumptions, P!NoWakeupIsLost
<1>2. P!W!NoLostWakeup => NoLostWakeup
    BY Zenon DEF P!W!NoLostWakeup, NoLostWakeup
<1> QED BY <1>1, <1>2, SameSpec, PTL

\* The pipeline executes the program: the architectural registers change, edge
\* by edge, as the retiring instructions change them when they are run one after
\* the other.
THEOREM ProgramExecuted == Spec => ExecutesProgram
<1>1. P!W!Spec => P!W!ExecutesProgram
    BY SameAssumptions, P!PipelineExecutesProgram
<1>2. [P!W!regs' = P!W!Execute(window, rob_commit', P!W!regs)]_(P!W!vars)
        => [regs' = Execute(window, rob_commit', regs)]_vars
    BY Zenon DEF P!W!vars, vars, P!W!renameVars, renameVars, P!W!regs, regs,
                 P!W!Execute, Execute, P!W!Complement, Complement
<1> QED BY <1>1, <1>2, SameSpec, PTL DEF P!W!ExecutesProgram, ExecutesProgram
=============================================================================

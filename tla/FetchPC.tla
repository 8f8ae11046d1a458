------------------------------- MODULE FetchPC -------------------------------
(***************************************************************************)
(* The PCs of the fetch stage (if_stage.sv).  N PCs are fetched per cycle; *)
(* while they are, the N that follow them are looked up in the branch      *)
(* target buffer and the branch predictor, and the first one predicted     *)
(* taken bends the rest of its group, or the group after it when it is the *)
(* last of its own.                                                        *)
(*                                                                         *)
(* Each instruction carries its NPC, the PC fetched after it; retirement   *)
(* compares a branch's real destination with it and with nothing else.     *)
(*                                                                         *)
(* PCs count instructions, not bytes, and wrap after NUM_PCS of them.      *)
(* What the buffer and the predictor say is left open here, as long as a   *)
(* PC is only ever predicted to go where its instruction can go.           *)
(***************************************************************************)
EXTENDS Integers, FiniteSets

CONSTANTS
    N,         \* degree of superscalar
    NUM_PCS,   \* size of the address space
    Targets,   \* where the instruction at each PC can branch to
    NoPC       \* no target, no instruction

PC == 0..(NUM_PCS - 1)
Ways == 0..(N - 1)

FetchAssumption ==
    /\ N \in Nat \ {0}
    /\ NUM_PCS \in Nat \ {0}
    /\ NoPC \notin PC
    /\ Targets \in [PC -> SUBSET PC]

VARIABLES
    PCs_reg,            \* the group being fetched
    num_taken_reg,      \* the way predicted taken when the group was looked up,
                        \* N for none
    first_tk_addr_reg,  \* its target
    NPC                 \* of the youngest instruction in the buffer

vars == <<PCs_reg, num_taken_reg, first_tk_addr_reg, NPC>>

Init ==
    /\ PCs_reg = [i \in Ways |-> i % NUM_PCS]
    /\ num_taken_reg = N
    /\ first_tk_addr_reg = 0
    /\ NPC = NoPC

NoWrap(pc, i) == pc + i  \* mutated form of Plus4

Plus4(pc, i) == (pc + i) % NUM_PCS

\* The group to look up.
PCs_plus_4N(i) ==
    IF num_taken_reg = N - 1 THEN Plus4(first_tk_addr_reg, i)
                             ELSE Plus4(PCs_reg[N - 1], i + 1)

\* predicted gives, per way, the target of the hits that are predicted taken.
Hits(predicted) == {i \in Ways : predicted[i] # NoPC}
num_taken(predicted) ==
    IF Hits(predicted) = {} THEN N
    ELSE CHOOSE i \in Hits(predicted) : \A j \in Hits(predicted) : i <= j
first_tk_addr(predicted) ==
    IF Hits(predicted) = {} THEN 0 ELSE predicted[num_taken(predicted)]

n_PCs_reg(predicted) ==
    [i \in Ways |->
        IF i > num_taken(predicted)
        THEN Plus4(first_tk_addr(predicted), i - num_taken(predicted) - 1)
        ELSE PCs_plus_4N(i)]

\* The NPC of way i; the last one's is the PC that the next group starts with.
NPCs_reg(i, predicted) ==
    IF i < N - 1 THEN PCs_reg[i + 1] ELSE n_PCs_reg(predicted)[0]

\* The buffer takes the group.  While it has no room everything stands still.
Fetch(predicted) ==
    /\ PCs_reg' = n_PCs_reg(predicted)
    /\ num_taken_reg' = num_taken(predicted)
    /\ first_tk_addr_reg' = first_tk_addr(predicted)
    /\ NPC' = NPCs_reg(N - 1, predicted)

KeepsPrediction(corrected_branch_address) ==  \* mutated form of Redirect
    /\ PCs_reg' = [i \in Ways |-> Plus4(corrected_branch_address, i)]
    /\ num_taken_reg' = num_taken_reg
    /\ first_tk_addr_reg' = first_tk_addr_reg
    /\ NPC' = NoPC

\* A branch was mispredicted: the buffer is emptied, and fetch goes on at the
\* branch's destination, without a prediction for the first group.
Redirect(corrected_branch_address) ==
    /\ PCs_reg' = [i \in Ways |-> Plus4(corrected_branch_address, i)]
    /\ num_taken_reg' = N
    /\ first_tk_addr_reg' = 0
    /\ NPC' = NoPC

Predictions ==
    {p \in [Ways -> (UNION {Targets[pc] : pc \in PC}) \cup {NoPC}] :
        \A i \in Ways : p[i] \in Targets[PCs_plus_4N(i)] \cup {NoPC}}

Next ==
    \/ \E predicted \in Predictions : Fetch(predicted)
    \/ \E pc \in PC : Redirect(pc)

Spec == Init /\ [][Next]_vars

-----------------------------------------------------------------------------
(* Properties *)

\* The variables have their types.
TypeOK ==
    /\ PCs_reg \in [Ways -> PC]
    /\ num_taken_reg \in 0..N
    /\ first_tk_addr_reg \in PC
    /\ NPC \in PC \cup {NoPC}

\* Where a program can go from pc.
Successors(pc) == {Plus4(pc, 1)} \cup Targets[pc]

\* The PCs that enter the buffer are a path of the program, however
\* predictions, stalls and redirections follow each other: every instruction
\* is followed by the next one or by one it can branch to, and the NPC it
\* carries is the PC of the instruction that follows it.  Otherwise
\* retirement, which only compares the NPC of branches, would accept a wrong
\* path (if_stage.sv, lines 98-130 and 191-203).
FollowsPath ==
    /\ \A i \in 0..(N - 2) : PCs_reg[i + 1] \in Successors(PCs_reg[i])
    /\ \A predicted \in Predictions :
        NPCs_reg(N - 1, predicted) \in Successors(PCs_reg[N - 1])
    /\ NPC \in {NoPC, PCs_reg[0]}
=============================================================================

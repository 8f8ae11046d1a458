------------------------------- MODULE FrontEnd -------------------------------
(***************************************************************************)
(* The fetch stage as it is wired in if_stage.sv, with the IF/ID register  *)
(* and the packet decode sees (R10K_pipeline.sv): the fetch PCs, bent by   *)
(* the branch target buffer, enter the instruction buffer, which delivers  *)
(* the instructions to IF/ID.                                              *)
(*                                                                         *)
(* The predictor (which hits are taken), the memory, the back end's stalls *)
(* and what retires are left open; a branch retires with a destination it  *)
(* can have.  One step is one clock edge.                                  *)
(***************************************************************************)
EXTENDS Integers, Sequences, FiniteSets

CONSTANTS
    N, NUM_PCS, Targets, NoPC,               \* see FetchPC
    BTB_NUM_LINES,                           \* see Btb
    Commits,                                 \* branches that may retire together
    INSTR_BUFFER_LEN, Blocks, Block, Lines, Line,
    Tags, NoTag, NoData, DataBlock           \* see InstructionBuffer

VARIABLES
    PCs_reg, num_taken_reg, first_tk_addr_reg, NPC,          \* see FetchPC
    cachemen,                                                \* see Btb
    instr_buffer, ib_head, ib_tail, icache, outstanding,     \* see InstructionBuffer
    buffer_NPC,        \* the NPC that each slot of the buffer carries
    if_id_packet_out,  \* the IF/ID register
    awaited            \* the PC that decode has to be given next

F == INSTANCE FetchPC
T == INSTANCE Btb

Groups == [0..(N - 1) -> F!PC]
B == INSTANCE InstructionBuffer WITH PCs <- F!PC, PC_0 <- 0

\* Branches that retire as taken, and where they go.
TakenBranches ==
    {b \in [pc : F!PC, branch_address : F!PC] :
        /\ b.branch_address \in Targets[b.pc]
        /\ b.branch_address # F!Plus4(b.pc, 1)}

ASSUME FrontEndAssumption ==
    /\ F!FetchAssumption
    /\ B!BufferAssumption
    /\ BTB_NUM_LINES \in Nat \ {0}
    /\ \A committed \in Commits : committed \in Seq(TakenBranches) /\ Len(committed) <= N

fetchVars == <<PCs_reg, num_taken_reg, first_tk_addr_reg, NPC>>
vars == <<fetchVars, cachemen, instr_buffer, ib_head, ib_tail, icache, outstanding,
          buffer_NPC, if_id_packet_out, awaited>>

Ways == F!Ways

\* What a way of IF/ID holds when its instruction is not valid.
NoPacket == [valid |-> FALSE, PC |-> 0, NPC |-> 0, inst |-> NoData]
Flushed == [i \in Ways |-> NoPacket]

Init ==
    /\ F!Init
    /\ T!Init
    /\ B!Init
    /\ buffer_NPC = [s \in B!Slots |-> 0]
    /\ if_id_packet_out = Flushed
    /\ awaited = 0

-----------------------------------------------------------------------------

\* What the buffer offers: the ready ones of its first N slots, whether or not
\* one before them is missing.
if_packet_out ==
    [i \in Ways |->
        LET s == B!index(i)
        IN IF instr_buffer[s].ready
           THEN [valid |-> TRUE, PC |-> instr_buffer[s].pc, NPC |-> buffer_NPC[s],
                 inst |-> instr_buffer[s].inst]
           ELSE NoPacket]

TakesGaps ==  \* mutated form of Sequential: valid as it comes from the buffer
    {i \in Ways : if_id_packet_out[i].valid}

\* The ways decode takes: those with no gap before them.
Sequential == {i \in Ways : \A j \in 0..i : if_id_packet_out[j].valid}

Youngest == CHOOSE i \in Sequential : \A j \in Sequential : j <= i
n_awaited ==
    IF Sequential = {} THEN awaited ELSE if_id_packet_out[Youngest].NPC

\* Per way looked up, the target of a hit that the predictor says is taken.
Predicted(taken, committed) ==
    [i \in Ways |->
        IF i \in taken THEN T!predicted_address(F!PCs_plus_4N(i), committed) ELSE NoPC]

\* The ways looked up that hit.  While the buffer has no room nothing is made
\* of the look-up.
btb_hits(committed) ==
    {i \in Ways : /\ ~B!ib_structural_hazard
                  /\ T!predicted_address(F!PCs_plus_4N(i), committed) # NoPC}

HazardAlone(branch_mispredict) ==  \* mutated form of PC_enable
    ~B!ib_structural_hazard

\* Whether the fetch registers are written.
PC_enable(branch_mispredict) == ~B!ib_structural_hazard \/ branch_mispredict

-----------------------------------------------------------------------------
(* The clock edges *)

\* The fetch PCs go on unless the buffer has no room for the group.
FetchStep(predicted) ==
    IF PC_enable(FALSE) THEN F!Fetch(predicted) ELSE UNCHANGED fetchVars

n_buffer_NPC(predicted) ==
    [s \in B!Slots |->
        IF B!Target(s) # {} THEN F!NPCs_reg(CHOOSE i \in B!Target(s) : TRUE, predicted)
        ELSE buffer_NPC[s]]

Cycle(stall, resp, ret, committed, taken) ==
    LET predicted == Predicted(taken, committed)
    IN /\ T!Update(committed)
       /\ B!Advance(PCs_reg, stall, resp, ret)
       /\ if_id_packet_out' = IF stall THEN if_id_packet_out ELSE if_packet_out
       /\ awaited' = IF stall THEN awaited ELSE n_awaited
       /\ FetchStep(predicted)
       /\ buffer_NPC' = n_buffer_NPC(predicted)

\* A branch was mispredicted: buffer and IF/ID are emptied, and fetch goes on
\* at the branch's destination even if the buffer had no room.
BranchMispredict(stall, resp, ret, committed, corrected_branch_address) ==
    /\ T!Update(committed)
    /\ B!Nuke(stall, resp, ret)
    /\ IF PC_enable(TRUE) THEN F!Redirect(corrected_branch_address)
                          ELSE UNCHANGED fetchVars
    /\ buffer_NPC' = [s \in B!Slots |-> 0]
    /\ if_id_packet_out' = Flushed
    /\ awaited' = corrected_branch_address

\* Where it goes: it is the last branch to retire, and if it is taken the last
\* of committed.
Destinations(committed) ==
    {F!Plus4(pc, 1) : pc \in {p \in F!PC : Targets[p] # {}}} \cup
    (IF committed = <<>> THEN {} ELSE {committed[Len(committed)].branch_address})

AnyTags == Tags \cup {NoTag}

Next ==
    \E stall \in BOOLEAN, resp, ret \in AnyTags, committed \in Commits :
        \/ \E taken \in SUBSET btb_hits(committed) :
            Cycle(stall, resp, ret, committed, taken)
        \/ \E pc \in Destinations(committed) :
            BranchMispredict(stall, resp, ret, committed, pc)

-----------------------------------------------------------------------------
(* What is assumed of the memory and of the back end, written as properties *)
(* of the state they change: a cycle has no action of its own for each.     *)

Asking == B!Unrequested # {} /\ \E t \in Tags : outstanding[t] = NoData
Accepted == \E t \in Tags : outstanding[t] = NoData /\ outstanding'[t] \in Blocks
Taken == ib_head' # ib_head \/ ib_head' = ib_tail'

\* Memory answers what it has accepted, and accepts a request that is made
\* again and again; the back end, and the data cache with the bus, do not
\* keep a ready instruction waiting for ever.
Fairness ==
    /\ \A t \in Tags : []<>(outstanding[t] = NoData)
    /\ []<>Asking => []<><<Accepted>>_outstanding
    /\ <>[]instr_buffer[ib_head].ready => []<><<Taken>>_vars

Spec == Init /\ [][Next]_vars /\ Fairness

-----------------------------------------------------------------------------
(* Properties *)

\* The variables have their types.
TypeOK ==
    /\ F!TypeOK
    /\ B!TypeOK
    /\ cachemen \in [T!Indices -> [valid : BOOLEAN, tag : F!PC, addr : F!PC]]
    /\ buffer_NPC \in [B!Slots -> F!PC]
    /\ if_id_packet_out \in
        [Ways -> [valid : BOOLEAN, PC : F!PC, NPC : F!PC, inst : B!AnyBlock]]
    /\ awaited \in F!PC

\* See FetchPC and InstructionBuffer.
FollowsPath == F!FollowsPath
Occupancy == B!Occupancy
AnswersAwaited == B!AnswersAwaited
ImplementsQueue == B!ImplementsQueue

\* A line of the branch target buffer never sends fetch anywhere but where the
\* very instruction it is looked up for can go: an alias is no hit, and what
\* retires in the cycle of the look-up counts.  So the fetch stage with its
\* branch target buffer implements the one that FetchPC describes.
ImplementsFetch == F!Spec

\* Decode is given a path of the program: what it takes from IF/ID starts at
\* the PC it waits for (that of the last redirection, or the NPC of the last
\* instruction it took), each instruction is followed by the one its NPC
\* names, which it can go to, and each is what memory holds at its PC.  No
\* stall, gap, late answer or redirection loses or repeats one.
DecodeFollowsPath ==
    \A i \in Sequential :
        LET p == if_id_packet_out[i]
        IN /\ p.PC = IF i = 0 THEN awaited ELSE if_id_packet_out[i - 1].NPC
           /\ p.NPC \in F!Successors(p.PC)
           /\ p.inst = Block[p.PC]

\* The buffer is empty just after a redirection, and only then.
JustRedirected == ib_head = ib_tail

\* Decode is never starved: again and again there is something for it to take,
\* unless fetch is redirected again and again.  No request is forgotten, and
\* no instruction waits for an answer that has already gone by.
DecodeNotStarved == []<>(JustRedirected \/ Sequential # {})
=============================================================================

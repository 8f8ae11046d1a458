-------------------------- MODULE InstructionBuffer --------------------------
(***************************************************************************)
(* The instruction buffer of the fetch stage (instruction_buffer.sv), with *)
(* its cache (icache.sv, cachemem.sv) and the memory's transaction tags    *)
(* (mem.sv).  Each cycle N fetched PCs enter at the tail if they fit; those*)
(* the cache holds are ready at once, the others send one request per cycle*)
(* to memory, whose answers come back later under the tag it gave them;    *)
(* the ready ones at the head go to decode.  A mispredicted branch empties *)
(* the buffer, but the requests it had sent are still answered.            *)
(*                                                                         *)
(* One step is one clock edge.  Instructions are named by the block they   *)
(* came from; which half of the block is the PC's business.  `requested'   *)
(* is mem_tag # NoTag: a tag is only ever read while requested is set and  *)
(* ready is not, and so is forgotten as soon as that no longer holds.      *)
(***************************************************************************)
EXTENDS Integers, FiniteSets

CONSTANTS
    N,                  \* degree of superscalar
    INSTR_BUFFER_LEN,   \* slots of the buffer
    PCs, PC_0,          \* addresses, and the one a reset slot holds
    Blocks, Block,      \* memory blocks, and the block of each PC
    Groups,             \* the PCs that may be fetched together
    Lines, Line,        \* cache lines, and the line of each block
    Tags, NoTag,        \* NUM_MEM_TAGS transaction tags, and the invalid one
    NoData,             \* no block
    DataBlock           \* a block that the data cache asks for

BufferAssumption ==
    /\ N \in Nat \ {0}
    /\ INSTR_BUFFER_LEN \in Nat /\ INSTR_BUFFER_LEN >= 3 * N
    /\ PC_0 \in PCs
    /\ Block \in [PCs -> Blocks]
    /\ Groups \subseteq [0..(N - 1) -> PCs]
    /\ Line \in [Blocks -> Lines]
    /\ NoTag \notin Tags
    /\ NoData \notin Blocks \cup {DataBlock} /\ DataBlock \notin Blocks

VARIABLES
    instr_buffer,  \* the slots
    ib_head,       \* the oldest instruction
    ib_tail,       \* the next slot to fill
    icache,        \* the block each line holds, and the data stored for it
    outstanding    \* memory: the block each tag was given for

vars == <<instr_buffer, ib_head, ib_tail, icache, outstanding>>

Slots == 0..(INSTR_BUFFER_LEN - 1)
Ways == 0..(N - 1)
AnyBlock == Blocks \cup {DataBlock, NoData}
Station ==
    [pc : PCs, ready : BOOLEAN, mem_tag : Tags \cup {NoTag}, inst : AnyBlock]

Fetching(pc) == [pc |-> pc, ready |-> FALSE, mem_tag |-> NoTag, inst |-> NoData]
Fetched(pc, data) == [pc |-> pc, ready |-> TRUE, mem_tag |-> NoTag, inst |-> data]

Cleared == [s \in Slots |-> Fetching(PC_0)]

Init ==
    /\ instr_buffer = Cleared
    /\ ib_head = 0
    /\ ib_tail = 0
    /\ icache = [l \in Lines |-> [block |-> NoData, data |-> NoData]]
    /\ outstanding = [t \in Tags |-> NoData]

-----------------------------------------------------------------------------

Wrap(x) == IF x >= INSTR_BUFFER_LEN THEN x - INSTR_BUFFER_LEN ELSE x

ib_size ==
    IF ib_head > ib_tail THEN INSTR_BUFFER_LEN - (ib_head - ib_tail)
                         ELSE ib_tail - ib_head
FillsUp ==  \* mutated form of ib_structural_hazard: the last slot is used
    INSTR_BUFFER_LEN - ib_size < N

ib_structural_hazard == INSTR_BUFFER_LEN - ib_size <= N

index(i) == Wrap(ib_head + i)
insert_indices(i) == Wrap(ib_tail + i)

\* The slots in use, and their order.
valid ==
    IF ib_head > ib_tail THEN {s \in Slots : s >= ib_head \/ s < ib_tail}
                         ELSE {s \in Slots : s >= ib_head /\ s < ib_tail}
Age(s) == IF s >= ib_head THEN s - ib_head ELSE s - ib_head + INSTR_BUFFER_LEN
Oldest(S) == CHOOSE s \in S : \A t \in S : Age(s) <= Age(t)

BlockOf(s) == Block[instr_buffer[s].pc]

(* An answer from memory *)

\* The slots waiting for tag ret.
Matching(ret) ==
    {s \in valid : /\ ret # NoTag
                   /\ instr_buffer[s].mem_tag = ret
                   /\ ~instr_buffer[s].ready}
updated_mem_valid(ret) == Matching(ret) # {}
updated_mem_address(ret) == BlockOf(Oldest(Matching(ret)))

OnlyTheOldest(ret) ==  \* mutated form of Receiving
    {s \in valid : updated_mem_valid(ret) /\ s = Oldest(Matching(ret))}

\* They receive it, and so do the younger instructions of the same block.
Receiving(ret) ==
    Matching(ret) \cup
    {s \in valid : /\ updated_mem_valid(ret)
                   /\ Age(s) > Age(Oldest(Matching(ret)))
                   /\ BlockOf(s) = updated_mem_address(ret)}

n_icache(ret) ==
    [l \in Lines |->
        IF updated_mem_valid(ret) /\ l = Line[updated_mem_address(ret)]
        THEN [block |-> updated_mem_address(ret), data |-> outstanding[ret]]
        ELSE icache[l]]

(* A request to memory *)

Unrequested ==
    {s \in valid : ~instr_buffer[s].ready /\ instr_buffer[s].mem_tag = NoTag}
Requests(stall) == ~stall /\ Unrequested # {}
proc2mem_addr == BlockOf(Oldest(Unrequested))

TakesAnyAnswer(stall) ==  \* mutated form of Requesting: during a stall too
    {s \in Unrequested : BlockOf(s) = proc2mem_addr}

\* The slots that record the tag memory answered the request with.
Requesting(stall) ==
    {s \in Unrequested : Requests(stall) /\ BlockOf(s) = proc2mem_addr}

(* Insertion and delivery *)

\* The cache is read with the block being written forwarded.
Inserted(pc, ret) ==
    LET line == n_icache(ret)[Line[Block[pc]]]
    IN IF line.block = Block[pc] THEN Fetched(pc, line.data) ELSE Fetching(pc)

n_ib_tail == IF ib_structural_hazard THEN ib_tail ELSE Wrap(ib_tail + N)

Target(s) == {i \in Ways : ~ib_structural_hazard /\ insert_indices(i) = s}

n_instr_buffer(group, stall, resp, ret) ==
    LET receiving == Receiving(ret)
        requesting == Requesting(stall) \ receiving
    IN [s \in Slots |->
        LET e == instr_buffer[s]
        IN CASE Target(s) # {} -> Inserted(group[CHOOSE i \in Target(s) : TRUE], ret)
             [] Target(s) = {} /\ s \in receiving  -> Fetched(e.pc, outstanding[ret])
             [] Target(s) = {} /\ s \in requesting -> [e EXCEPT !.mem_tag = resp]
             [] OTHER -> e]

\* The ready bits are looked at in the first N slots, whether or not the
\* tail comes before the last of them.
ready_for_decode(i) == instr_buffer[index(i)].ready
all_ready == (\A i \in Ways : ready_for_decode(i)) /\ ib_head # ib_tail
FirstNotReady ==
    CHOOSE i \in Ways : ~ready_for_decode(i) /\ \A j \in 0..(i - 1) : ready_for_decode(j)

CountsReady(stall) ==  \* mutated form of Delivered: not only up to a gap
    IF stall THEN 0 ELSE Cardinality({i \in Ways : ready_for_decode(i)})

Delivered(stall) ==
    CASE stall                                -> 0
      [] ~stall /\ all_ready                  -> N
      [] ~stall /\ \E i \in Ways : ~ready_for_decode(i) -> FirstNotReady
      [] OTHER                                -> 0
n_ib_head(stall) == Wrap(ib_head + Delivered(stall))

-----------------------------------------------------------------------------
(* The clock edges.  stall is high while the back end cannot take a group  *)
(* or the data cache has the bus; resp is what memory answers to the       *)
(* request of the cycle, and ret the tag whose data it returns.            *)

\* A tag is given to one transaction at a time, is free again after its data
\* has been returned, and goes to whoever has the bus.
Memory(stall, resp, ret) ==
    /\ ret # NoTag => outstanding[ret] # NoData
    /\ resp # NoTag => outstanding[resp] = NoData /\ (stall \/ Requests(stall))
    /\ outstanding' =
        [t \in Tags |->
            IF t = resp THEN (IF stall THEN DataBlock ELSE proc2mem_addr)
            ELSE IF t = ret THEN NoData
            ELSE outstanding[t]]

Advance(group, stall, resp, ret) ==
    /\ Memory(stall, resp, ret)
    /\ ib_head' = n_ib_head(stall)
    /\ ib_tail' = n_ib_tail
    /\ icache' = n_icache(ret)
    /\ instr_buffer' = n_instr_buffer(group, stall, resp, ret)

\* A branch was mispredicted: the buffer is emptied.
Nuke(stall, resp, ret) ==
    /\ Memory(stall, resp, ret)
    /\ icache' = n_icache(ret)
    /\ instr_buffer' = Cleared
    /\ ib_head' = 0
    /\ ib_tail' = 0

Next ==
    \E stall \in BOOLEAN, resp, ret \in Tags \cup {NoTag} :
        \/ \E group \in Groups : Advance(group, stall, resp, ret)
        \/ Nuke(stall, resp, ret)

Spec == Init /\ [][Next]_vars

-----------------------------------------------------------------------------
(* Properties *)

\* The variables have their types.
TypeOK ==
    /\ instr_buffer \in [Slots -> Station]
    /\ ib_head \in Slots
    /\ ib_tail \in Slots
    /\ icache \in [Lines -> [block : Blocks \cup {NoData}, data : AnyBlock]]
    /\ outstanding \in [Tags -> AnyBlock]

\* Delivery never outruns insertion: just after a reset nothing is ready, and
\* from then on at least N instructions are in the buffer, so the ready bits
\* that delivery looks at without regard to the tail are those of buffered
\* instructions; and the tail never catches up with the head
\* (instruction_buffer.sv, lines 93-135 and 226-251).
Occupancy ==
    \/ ib_head = ib_tail /\ \A s \in Slots : ~instr_buffer[s].ready
    \/ ib_size \in N..(INSTR_BUFFER_LEN - 1)

\* An instruction that waits for memory waits for a transaction that is still
\* under way, for the block it is in: no answer can have been missed, and none
\* that belongs to a flushed instruction, a reused slot or the data cache can
\* be taken for its own (instruction_buffer.sv, lines 165-222; mem.sv, 58-84).
AnswersAwaited ==
    \A s \in valid :
        instr_buffer[s].mem_tag # NoTag =>
            outstanding[instr_buffer[s].mem_tag] = BlockOf(s)

Contents ==
    [i \in 1..ib_size |->
        [pc |-> instr_buffer[index(i - 1)].pc, inst |-> instr_buffer[index(i - 1)].inst]]

Queue == INSTANCE FetchQueue WITH
    Capacity <- INSTR_BUFFER_LEN - 1, queue <- Contents

\* Decode gets every fetched PC once, in order, with the instruction that
\* memory holds there (instruction_buffer.sv, lines 126-251; icache.sv, 62-73).
ImplementsQueue == Queue!Spec
=============================================================================

--------------------------------- MODULE Btb ---------------------------------
(***************************************************************************)
(* The branch target buffer (btb.sv): a direct-mapped, fully tagged table  *)
(* of where the branches that have retired as taken went last.  It is read *)
(* with the writes of the same cycle forwarded.                            *)
(***************************************************************************)
EXTENDS Integers, Sequences

CONSTANTS
    BTB_NUM_LINES,  \* lines of the table
    NoPC            \* not in the table

VARIABLE cachemen  \* the lines

Indices == 0..(BTB_NUM_LINES - 1)
Idx(pc) == pc % BTB_NUM_LINES
Tag(pc) == pc \div BTB_NUM_LINES

Init == cachemen = [l \in Indices |-> [valid |-> FALSE, tag |-> 0, addr |-> 0]]

Write(b) == [valid |-> TRUE, tag |-> Tag(b.pc), addr |-> b.branch_address]

\* committed: the branches that retire as taken, in order; the last one wins.
Writers(committed, l) == {i \in 1..Len(committed) : Idx(committed[i].pc) = l}
LastWriter(committed, l) ==
    CHOOSE i \in Writers(committed, l) : \A j \in Writers(committed, l) : j <= i

n_cachemen(committed) ==
    [l \in Indices |->
        IF Writers(committed, l) = {} THEN cachemen[l]
        ELSE Write(committed[LastWriter(committed, l)])]

AnyTag(pc, committed) ==  \* mutated form of predicted_address
    LET line == n_cachemen(committed)[Idx(pc)]
    IN IF line.valid THEN line.addr ELSE NoPC

\* The target of a hit at pc.
predicted_address(pc, committed) ==
    LET line == n_cachemen(committed)[Idx(pc)]
    IN IF line.valid /\ line.tag = Tag(pc) THEN line.addr ELSE NoPC

Update(committed) == cachemen' = n_cachemen(committed)
=============================================================================

----------------------------- MODULE InOrderQueue -----------------------------
(***************************************************************************)
(* What a reorder buffer promises: a bounded queue of instructions that    *)
(* complete in any order and leave in program order, up to N per step.  A  *)
(* wfi that leaves stops the machine; a mispredicted branch that leaves    *)
(* takes everything younger with it.                                       *)
(***************************************************************************)
EXTENDS Naturals, Sequences

CONSTANTS
    N,         \* how many may enter, and how many may leave, in a step
    Capacity,  \* how many may be inside
    Kinds      \* kinds of instruction

VARIABLES
    queue,   \* from the oldest instruction to the youngest
    halted,  \* a wfi has left
    left     \* how many have left in the last step

Instruction == [kind : Kinds, executed : BOOLEAN, correct : BOOLEAN]

Init == queue = <<>> /\ halted = FALSE /\ left = 0

Mispredicted(e) == e.kind = "branch" /\ ~e.correct

\* The k oldest may leave together: all are executed, and nothing leaves
\* behind a wfi or a mispredicted branch.
MayLeave(k) ==
    \A i \in 1..k :
        /\ queue[i].executed
        /\ i < k => queue[i].kind # "wfi" /\ ~Mispredicted(queue[i])

\* Completion is the only change an instruction undergoes inside, and it
\* happens once.
Completes(old, new) ==
    \/ new = old
    \/ /\ ~old.executed
       /\ new.executed
       /\ new.kind = old.kind

\* k instructions leave, some of those that stay complete, up to N enter.
Cycle ==
    \E k \in 0..N :
        LET stay == Len(queue) - k
        IN /\ k <= Len(queue)
           /\ MayLeave(k)
           /\ \A i \in 1..k : ~Mispredicted(queue[i])
           /\ Len(queue') \in stay..(stay + N)
           /\ Len(queue') <= Capacity
           /\ \A i \in 1..stay : Completes(queue[k + i], queue'[i])
           /\ \A i \in 1..Len(queue') : queue'[i] \in Instruction
           /\ left' = k
           /\ halted' = (halted \/ (k > 0 /\ queue[k].kind = "wfi"))

\* The last instruction to leave is a mispredicted branch.
Squash ==
    /\ \E k \in 1..N :
        /\ k <= Len(queue)
        /\ MayLeave(k)
        /\ Mispredicted(queue[k])
        /\ left' = k
    /\ queue' = <<>>
    /\ halted' = FALSE

Next == ~halted /\ (Cycle \/ Squash)

Spec == Init /\ [][Next]_<<queue, halted, left>>
=============================================================================

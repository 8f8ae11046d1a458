------------------------------ MODULE FetchQueue ------------------------------
(***************************************************************************)
(* What the fetch stage promises to decode: the fetched PCs, in order and  *)
(* each exactly once, with the instruction that memory holds there.  A     *)
(* flush discards all that has not been delivered.                         *)
(***************************************************************************)
EXTENDS Naturals, Sequences

CONSTANTS
    N,         \* how many enter, and at most how many leave, in a step
    Capacity,  \* bound on the length of the queue
    PCs,       \* addresses
    Block,     \* the memory block each of them is in
    NoData     \* not there yet

VARIABLE queue  \* of [pc, inst], the oldest first

Init == queue = <<>>

\* An instruction is waiting, or it is the one at its PC.
Faithful(e) == e.pc \in PCs /\ e.inst \in {NoData, Block[e.pc]}

Step ==
    \E k \in 0..N :
        LET stay == Len(queue) - k
        IN /\ k <= Len(queue)
           /\ \A i \in 1..k : queue[i].inst # NoData
           /\ Len(queue') \in {stay, stay + N}
           /\ Len(queue') <= Capacity
           /\ \A i \in 1..stay :
                /\ queue'[i].pc = queue[k + i].pc
                /\ queue[k + i].inst # NoData => queue'[i] = queue[k + i]
           /\ \A i \in 1..Len(queue') : Faithful(queue'[i])

Flush == queue' = <<>>

Next == Step \/ Flush

Spec == Init /\ [][Next]_queue
=============================================================================

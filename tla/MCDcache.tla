------------------------------ MODULE MCDcache ------------------------------
(***************************************************************************)
(* Small instances of Dcache for TLC: blocks that all share a line.        *)
(***************************************************************************)
EXTENDS Dcache, TLC

CONSTANTS a, b, t1, t2, l0

MCSymmetry == Permutations(Tags)
MCLine == [x \in Blocks |-> l0]

\* Stores to half a block, and of one byte.
WordStores == {<<"WORD", 4>>}
ByteStores == {<<"BYTE", 4>>}
=============================================================================

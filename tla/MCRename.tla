------------------------------ MODULE MCRename ------------------------------
(***************************************************************************)
(* Small instances of Rename for TLC.                                      *)
(***************************************************************************)
EXTENDS Rename, TLC

CONSTANTS x0, x1, x2, p0, p1, p2, p3, p4, p5

\* Register 0 is the reset value of every mapping; the others are alike.
MCSymmetry == Permutations(PRF \ {p0})

Slot(dest, src) == [dest |-> dest, src |-> src, executed |-> FALSE]
Nop == [dest |-> x0, src |-> x0, executed |-> TRUE]

\* With one register besides x0: an increment, and an instruction without a result.
OneRegisterSlots == {Slot(x1, x1), Slot(x0, x1)}

\* With two registers besides x0: a copy each way, an increment, a store, a nop.
TwoRegisterSlots == {Slot(x1, x2), Slot(x2, x1), Slot(x1, x1), Slot(x0, x1), Nop}
=============================================================================

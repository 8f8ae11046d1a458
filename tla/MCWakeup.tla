------------------------------ MODULE MCWakeup ------------------------------
(***************************************************************************)
(* A small instance of Wakeup for TLC: an adder and a multiplier.          *)
(***************************************************************************)
EXTENDS Wakeup, TLC

CONSTANTS x0, x1, p0, p1, p2, p3, p4, p5, adder, multiplier

\* Register 0 is the reset value of every mapping; the others are alike.
MCSymmetry == Permutations(PRF \ {p0})

\* A constant and an increment.
MCSlots == {[dest |-> x1, src |-> x0, executed |-> FALSE],
            [dest |-> x1, src |-> x1, executed |-> FALSE]}

MCFuncUnit == (adder :> "ADD") @@ (multiplier :> "MULT")
=============================================================================

----------------------------- MODULE MCFrontEnd -----------------------------
(***************************************************************************)
(* A small instance of FrontEnd for TLC: a loop of four instructions in    *)
(* two memory blocks, with a branch over one of them, and a branch target  *)
(* buffer of one line, in which all of them are aliases.                   *)
(***************************************************************************)
EXTENDS FrontEnd

MCPCs == 0..(NUM_PCS - 1)
MCTargets == [pc \in MCPCs |-> IF pc = 1 THEN {3} ELSE {}]
MCCommits == {<<>>, <<[pc |-> 1, branch_address |-> 3]>>}

MCBlock == [pc \in MCPCs |-> pc \div 2]
MCLine == [bl \in Blocks |-> 0]
=============================================================================

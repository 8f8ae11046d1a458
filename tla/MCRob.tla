-------------------------------- MODULE MCRob --------------------------------
(***************************************************************************)
(* A small instance of Rob for TLC.                                        *)
(***************************************************************************)
EXTENDS Rob

MCKinds == {"alu", "nop", "branch", "load", "store", "wfi"}
=============================================================================

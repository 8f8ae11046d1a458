------------------------------- MODULE MCLsq -------------------------------
(***************************************************************************)
(* Small instances of Lsq for TLC.                                         *)
(***************************************************************************)
EXTENDS Lsq

Op(kind, at, size, value) == [kind |-> kind, at |-> at, size |-> size, value |-> value]

SW == Op("store", 0, "WORD", 1)
SH == Op("store", 1, "HALF", 2)
LW == Op("load", 0, "WORD", 0)
LH == Op("load", 1, "HALF", 0)
Alu == Op("alu", 0, "WORD", 0)
Branch == Op("branch", 0, "WORD", 0)
Mispredicted == Op("mispredicted", 0, "WORD", 0)
Lost == Op("load", Outside, "HALF", 0)

\* Accesses that agree, overlap or are apart, and branches right and wrong.
OverlapOps == {SW, SH, LW, LH, Branch, Mispredicted}
\* Stores around an instruction that is slow to execute.
SlowOps == {Alu, SH}
\* A load of a wrong path.
WrongPathOps == {SH, Mispredicted, Lost}
=============================================================================

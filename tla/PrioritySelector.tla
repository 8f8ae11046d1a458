--------------------------- MODULE PrioritySelector ---------------------------
(***************************************************************************)
(* The selector that picks up to REQS of WIDTH requests (my_ps.sv, with    *)
(* utility/ps.v and utility/wand_sel.v): free physical registers, free and *)
(* ready stations, functional units, CDB slots, load queue slots, miss     *)
(* registers.  It alternates between the highest and the lowest request    *)
(* left, and turns the request vector by one place every cycle so that     *)
(* nobody is favoured.                                                     *)
(*                                                                         *)
(* A vector is the set of positions that are high.  A request stays high   *)
(* until it is granted, as those of stations, units and queues do.         *)
(***************************************************************************)
EXTENDS Integers, FiniteSets

CONSTANTS REQS, WIDTH

ASSUME SelectorAssumption ==
    /\ REQS \in Nat \ {0}
    /\ WIDTH \in Nat \ {0, 1}

VARIABLES
    cnt,  \* by how much the vector is turned
    req   \* the requests

vars == <<cnt, req>>

Positions == 0..(WIDTH - 1)
Lines == 0..(REQS - 1)

Init == cnt = 0 /\ req = {}

\* The vector turned left, and a grant turned back.
Left(v) == {(i + cnt) % WIDTH : i \in v}
Right(v) == {(i + WIDTH - cnt) % WIDTH : i \in v}

\* wand_sel: the highest position of a vector.
wand_sel(v) == {i \in v : \A j \in v : j <= i}
\* The same on the reversed vector.
Lowest(v) == {i \in v : \A j \in v : i <= j}

\* Even lines choose from above and odd ones from below, each from what the
\* line two before has left over.
psel(j, v) == IF j % 2 = 0 THEN wand_sel(v) ELSE Lowest(v)
tmp_gnts ==
    LET tmp_reqs[j \in Lines] ==
            IF j < 2 THEN Left(req) ELSE tmp_reqs[j - 2] \ psel(j - 2, tmp_reqs[j - 2])
    IN [j \in Lines |-> psel(j, tmp_reqs[j])]

Unmasked == tmp_gnts  \* mutated form of bus_tmp: lines of both parities may meet

\* What a line of the other parity was granted before is masked out.
bus_tmp ==
    LET gnts == tmp_gnts
        bus[j \in Lines] ==
            gnts[j] \ UNION {bus[i] : i \in {i \in 0..(j - 1) : i % 2 # j % 2}}
    IN bus

gnt_bus == LET bus == bus_tmp IN [j \in Lines |-> Right(bus[j])]
gnt == LET bus == gnt_bus IN UNION {bus[j] : j \in Lines}

TurnsTwo == cnt' = IF cnt = 1 THEN 0 ELSE cnt + 1  \* mutated form of Turn

\* A clock edge: those granted leave, or ask again, and others ask.
Turn == cnt' = IF cnt = WIDTH - 1 THEN 0 ELSE cnt + 1
Clock(new) ==
    /\ Turn
    /\ req' = (req \ gnt) \cup new

Next == \E new \in SUBSET Positions : Clock(new)

\* The clock keeps ticking.
Spec == Init /\ [][Next]_vars /\ WF_cnt(Turn)

-----------------------------------------------------------------------------
(* Properties *)

\* What every user of the selector relies on, at every turn of the vector:
\* each line grants at most one request, no request is granted on two lines,
\* and the first lines are the ones that grant: as many as there are requests
\* (rat.sv, reservation_station.sv and lsq.sv take line i to be the i-th slot).
GrantContract ==
    LET bus == gnt_bus
    IN \A j \in Lines :
        /\ bus[j] \subseteq req
        /\ Cardinality(bus[j]) = (IF j < Cardinality(req) THEN 1 ELSE 0)
        /\ \A i \in Lines \ {j} : bus[i] \cap bus[j] = {}

\* No request waits for ever, whatever the others do (my_ps.sv, lines 34-58).
NobodyStarves == \A i \in Positions : i \in req ~> i \in gnt
=============================================================================

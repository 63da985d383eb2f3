---------------------------- MODULE MCPlacement ----------------------------
(***************************************************************************)
(* An instance of Placement for TLC: hosts h1 and h2 of pool p1 with a     *)
(* local SR each, host h3 of pool p2; a shared SR in each pool.            *)
(***************************************************************************)
EXTENDS Placement

CONSTANTS h1, h2, h3, p1, p2, s1, s2, s3, s4, n1, n2, n3

MCShared == [s \in SRs |-> s \in {s3, s4}]
MCHost == [s \in SRs |-> IF s = s1 THEN h1 ELSE IF s = s2 THEN h2 ELSE Unset]
MCPool == [s \in SRs |-> IF s = s4 THEN p2 ELSE p1]
MCSize == [s \in SRs |-> IF s = s2 THEN 3 ELSE 2]

Place(h, p) == [host |-> h, pool |-> p]
MCRegistered == [n \in Nodes |->
    IF n = n1 THEN Place(h1, p1) ELSE IF n = n2 THEN Place(h2, p1) ELSE Place(h3, p2)]

(* No requirement; one node; all nodes, one preferred; a preference alone. *)
MCRequests ==
    LET R(P, Q) == [preferred |-> P, requisite |-> Q]
    IN {R({}, {}), R({n1}, {n1}), R({n2}, {n1, n2, n3}), R({}, {n2, n3}), R({n3}, {})}

MCUsages == {[s \in SRs |-> 1], [s \in SRs |-> IF s = s1 THEN 0 ELSE 2],
             [s \in SRs |-> IF s = s2 THEN 1 ELSE 2]}

============================================================================

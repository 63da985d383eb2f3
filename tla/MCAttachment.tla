---------------------------- MODULE MCAttachment ----------------------------
(***************************************************************************)
(* Instances of Attachment for TLC: n1 and n3 are VMs of one host, n2 of   *)
(* another; both have a local storage repository.  Any other VM is on a    *)
(* host without one.                                                       *)
(***************************************************************************)
EXTENDS Attachment, TLC

CONSTANTS n1, n2, n3, s1, s2

LocalSRs == [n \in Nodes |-> IF n \in {n1, n3} THEN {s1} ELSE IF n = n2 THEN {s2} ELSE {}]

(* The UUIDs are interchangeable.                                          *)
Symmetry == Permutations(VDIs) \cup Permutations(VBDs)

============================================================================

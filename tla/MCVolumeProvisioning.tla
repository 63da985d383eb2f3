------------------------ MODULE MCVolumeProvisioning ------------------------
(***************************************************************************)
(* Instances of VolumeProvisioning for TLC.                                *)
(***************************************************************************)
EXTENDS VolumeProvisioning, TLC

(* The UUIDs are interchangeable, and so are the goroutines and the        *)
(* volumes, when all have the same kind of volume ID.                      *)
FullSymmetry == Permutations(VDIs) \cup Permutations(Handlers) \cup Permutations(Volumes)

(* The behaviours in which a mark grows old only while no call is in       *)
(* progress: a counterexample among them has no call that lasts for half   *)
(* an hour.                                                                *)
CalmNext == Next /\ (markOld' # markOld => \A h \in Handlers : pc[h] = "idle")
CalmSpec == Init /\ [][CalmNext]_vars

============================================================================

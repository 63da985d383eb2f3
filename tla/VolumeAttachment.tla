-------------------------- MODULE VolumeAttachment --------------------------
(***************************************************************************)
(* What ControllerPublishVolume and ControllerUnpublishVolume promise of a *)
(* volume, whatever times out, fails or goes on in Xen Orchestra: at most  *)
(* one node has it, which has asked for it and is on a host that can use   *)
(* its repository; it is copied to another repository, and its old disk    *)
(* destroyed, only while nobody has it; the caller is told the truth.      *)
(***************************************************************************)
CONSTANTS Nodes, SRs, ValidSRs

VARIABLES
    co,       \* co[n]: what the caller wants of the volume on node n
    holders,  \* the nodes that have a device of it
    places    \* the repositories that have a disk of it

vars == <<co, holders, places>>

Init ==
    /\ co = [n \in Nodes |-> "detached"]
    /\ holders = {}
    /\ \E s \in SRs : places = {s}

Usable(n) == \E s \in ValidSRs[n] : places = {s}

Want(n) ==
    /\ \A m \in Nodes : co[m] = "detached"
    /\ co' = [co EXCEPT ![n] = "attaching"]
    /\ UNCHANGED <<holders, places>>

GiveUp(n) ==
    /\ co[n] \in {"attaching", "attached"}
    /\ co' = [co EXCEPT ![n] = "detaching"]
    /\ UNCHANGED <<holders, places>>

(* A call that the caller no longer waits for may still have this effect.  *)
Hold(n) ==
    /\ co[n] \in {"attaching", "detaching"}
    /\ holders = {} /\ Usable(n)
    /\ holders' = {n}
    /\ UNCHANGED <<co, places>>

LetGo(n) ==
    /\ co[n] = "detaching"
    /\ holders = {n}
    /\ holders' = {}
    /\ UNCHANGED <<co, places>>

Copy(s) ==
    /\ holders = {}
    /\ \E t \in SRs : s # t /\ places = {t} /\ places' = {t, s}
    /\ UNCHANGED <<co, holders>>

(* The migration ends, or fails: one of the two disks is destroyed.        *)
Settle(s) ==
    /\ holders = {}
    /\ \E t \in SRs : s # t /\ places = {s, t}
    /\ places' = {s}
    /\ UNCHANGED <<co, holders>>

Attached(n) ==
    /\ co[n] = "attaching"
    /\ holders = {n} /\ Usable(n)
    /\ co' = [co EXCEPT ![n] = "attached"]
    /\ UNCHANGED <<holders, places>>

Detached(n) ==
    /\ co[n] = "detaching"
    /\ holders = {}
    /\ co' = [co EXCEPT ![n] = "detached"]
    /\ UNCHANGED <<holders, places>>

Next ==
    \/ \E n \in Nodes :
       \/ Want(n) \/ GiveUp(n) \/ Hold(n) \/ LetGo(n) \/ Attached(n) \/ Detached(n)
    \/ \E s \in SRs : Copy(s) \/ Settle(s)

Spec == Init /\ [][Next]_vars

============================================================================

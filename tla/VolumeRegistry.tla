--------------------------- MODULE VolumeRegistry ---------------------------
(***************************************************************************)
(* What CreateVolume and DeleteVolume promise the provisioner, whatever is *)
(* interrupted, repeated or sent twice: a volume gets one disk, may lose   *)
(* it only while it is being deleted, and is reported with the disk it     *)
(* has, and as deleted when it has none.  Temporary disks are nobody's     *)
(* business here.                                                          *)
(***************************************************************************)
CONSTANTS Volumes, VDIs, NoVDI

VARIABLES
    co,     \* co[v]: what the provisioner wants of volume v
    volID,  \* volID[v]: the disk it was told of
    disks   \* disks[v]: the disks under the name of v

vars == <<co, volID, disks>>

Init ==
    /\ co = [v \in Volumes |-> "wanted"]
    /\ volID = [v \in Volumes |-> NoVDI]
    /\ disks = [v \in Volumes |-> {}]

Appear(v, d) ==
    /\ co[v] = "wanted" /\ disks[v] = {}
    /\ \A w \in Volumes : d \notin disks[w]
    /\ disks' = [disks EXCEPT ![v] = {d}]
    /\ UNCHANGED <<co, volID>>

Bind(v, d) ==
    /\ co[v] = "wanted" /\ disks[v] = {d}
    /\ co' = [co EXCEPT ![v] = "bound"]
    /\ volID' = [volID EXCEPT ![v] = d]
    /\ UNCHANGED disks

Release(v) ==
    /\ co[v] = "bound"
    /\ co' = [co EXCEPT ![v] = "deleting"]
    /\ UNCHANGED <<volID, disks>>

Remove(v) ==
    /\ co[v] = "deleting"
    /\ disks' = [disks EXCEPT ![v] = {}]
    /\ UNCHANGED <<co, volID>>

Forget(v) ==
    /\ co[v] = "deleting" /\ disks[v] = {}
    /\ co' = [co EXCEPT ![v] = "gone"]
    /\ UNCHANGED <<volID, disks>>

Next ==
    \E v \in Volumes :
       \/ Release(v) \/ Remove(v) \/ Forget(v)
       \/ \E d \in VDIs : Appear(v, d) \/ Bind(v, d)

Spec == Init /\ [][Next]_vars

============================================================================

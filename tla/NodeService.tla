---------------------------- MODULE NodeService ----------------------------
(***************************************************************************)
(* NodeStageVolume, NodeUnstageVolume, NodePublishVolume and               *)
(* NodeUnpublishVolume of pkg/csi/node.go on one volume and the pods of    *)
(* one node that use it, over the mount table of the node.                 *)
(*                                                                         *)
(* The caller is kubelet as the CSI specification has it: one call per     *)
(* volume at a time, repeated until it succeeds; a call that failed or was *)
(* not answered may have had its effect, and is undone before the caller   *)
(* goes on; the disk is detached when nothing is left to undo.             *)
(***************************************************************************)
EXTENDS Naturals, Sequences

CONSTANTS
    Pods,       \* each with a target path of its own
    NoPod,
    MaxFaults   \* bound: how many calls fail, or nodes reboot

ASSUME NoPodAssumption == NoPod \notin Pods
ASSUME MaxFaultsAssumption == MaxFaults \in Nat

VARIABLES
    staging,   \* how many times the disk is mounted on the staging path
    target,    \* target[t]: the mounts on the target path of pod t
    pc,        \* what the handler does next
    pod,       \* the pod of its request
    wants,     \* the pods that want the volume
    attached,  \* the disk has a device in the VM
    dev,       \* what the caller knows of the staging path
    pub,       \* pub[t]: what it knows of the target path of t
    refused,   \* a stage call has met its own earlier mount
    faults

mounts == <<staging, target>>
handler == <<pc, pod>>
caller == <<wants, attached, dev, pub>>
vars == <<mounts, handler, caller, refused, faults>>

Steps == {"idle", "stage", "mount", "resize", "staged", "unstage", "unmount", "unstaged",
          "publish", "published", "unpublish", "unpublished"}

(* A bind mount shows the disk, or the directory it is to be mounted on.   *)
(* A handler resizes, or unmounts, what is mounted on the staging path.    *)
TypeOK ==
    /\ staging \in Nat /\ target \in [Pods -> Seq({"disk", "dir"})]
    /\ pc \in Steps
    /\ pod \in Pods \cup {NoPod}
    /\ pod \in Pods <=> pc \in {"publish", "published", "unpublish", "unpublished"}
    /\ wants \in SUBSET Pods /\ attached \in BOOLEAN
    /\ dev \in {"none", "uncertain", "staged"}
    /\ pub \in [Pods -> {"none", "uncertain", "published"}]
    /\ refused \in BOOLEAN
    /\ faults \in 0..MaxFaults
    /\ pc \in {"resize", "staged", "unmount"} => staging > 0

Init ==
    /\ staging = 0 /\ target = [t \in Pods |-> <<>>]
    /\ pc = "idle" /\ pod = NoPod
    /\ wants = {} /\ attached = FALSE
    /\ dev = "none" /\ pub = [t \in Pods |-> "none"]
    /\ refused = FALSE
    /\ faults = 0

----------------------------------------------------------------------------
GoTo(from, to) == pc = from /\ pc' = to

Return == pc' = "idle" /\ pod' = NoPod

(* The caller, and the pods it serves.                                     *)
PodComes(t) ==
    /\ pub[t] = "none"
    /\ wants' = wants \cup {t}
    /\ UNCHANGED <<mounts, handler, attached, dev, pub, refused, faults>>

PodGoes(t) ==
    /\ wants' = wants \ {t}
    /\ UNCHANGED <<mounts, handler, attached, dev, pub, refused, faults>>

Attach ==
    /\ ~attached /\ wants # {}
    /\ attached' = TRUE
    /\ UNCHANGED <<mounts, handler, wants, dev, pub, refused, faults>>

Detach ==
    /\ attached /\ wants = {} /\ pc = "idle"
    /\ dev = "none" /\ \A t \in Pods : pub[t] = "none"
    /\ attached' = FALSE
    /\ UNCHANGED <<mounts, handler, wants, dev, pub, refused, faults>>

CallStage ==
    /\ attached /\ wants # {} /\ dev # "staged"
    /\ GoTo("idle", "stage")
    /\ dev' = "uncertain"
    /\ UNCHANGED <<mounts, pod, wants, attached, pub, refused, faults>>

CallUnstage ==
    /\ wants = {} /\ dev # "none" /\ \A t \in Pods : pub[t] = "none"
    /\ GoTo("idle", "unstage")
    /\ dev' = "uncertain"
    /\ UNCHANGED <<mounts, pod, wants, attached, pub, refused, faults>>

CallFor(t, first) ==
    /\ GoTo("idle", first)
    /\ pod' = t
    /\ pub' = [pub EXCEPT ![t] = "uncertain"]
    /\ UNCHANGED <<mounts, wants, attached, dev, refused, faults>>

CallPublish(t) == t \in wants /\ dev = "staged" /\ pub[t] # "published" /\ CallFor(t, "publish")

CallUnpublish(t) == t \notin wants /\ pub[t] # "none" /\ CallFor(t, "unpublish")

----------------------------------------------------------------------------
(* The publish context has the name of the device; what is mounted is a    *)
(* path under /dev.                                                        *)
Device == "xvdb"
DevicePath == "/dev/xvdb"
DeviceNameFromMount == IF staging = 0 THEN "" ELSE DevicePath

(* Mutant: a staging path that is mounted is an error.                     *)
MutantCheckStaged ==
    /\ pc = "stage"
    /\ \/ staging = 0 /\ GoTo("stage", "mount") /\ UNCHANGED pod
       \/ staging > 0 /\ Return
    /\ UNCHANGED <<mounts, caller, refused, faults>>

(* NodeStageVolume: look at the staging path.                              *)
CheckStaged ==
    /\ GoTo("stage", IF DeviceNameFromMount = Device THEN "staged" ELSE "mount")
    /\ UNCHANGED <<mounts, pod, caller, refused, faults>>

(* Mutant: the error of FormatAndMount is dropped.                         *)
MutantMountFails ==
    /\ GoTo("mount", "resize")
    /\ faults < MaxFaults /\ faults' = faults + 1
    /\ UNCHANGED <<mounts, pod, caller, refused>>

(* FormatAndMount.                                                         *)
FormatAndMount ==
    /\ GoTo("mount", "resize")
    /\ staging' = staging + 1
    /\ UNCHANGED <<target, pod, caller, refused, faults>>

(* The kernel may refuse one file system twice on one path.                *)
MountRefused ==
    /\ pc = "mount" /\ staging > 0
    /\ refused' = TRUE
    /\ Return
    /\ UNCHANGED <<mounts, caller, faults>>

MountFails ==
    /\ pc = "mount"
    /\ faults < MaxFaults /\ faults' = faults + 1
    /\ Return
    /\ UNCHANGED <<mounts, caller, refused>>

(* Mutant: that the file system needs no resize is an error.               *)
MutantResize ==
    /\ pc = "resize"
    /\ Return
    /\ UNCHANGED <<mounts, caller, refused, faults>>

Resize ==
    /\ GoTo("resize", "staged")
    /\ UNCHANGED <<mounts, pod, caller, refused, faults>>

Staged ==
    /\ pc = "staged"
    /\ dev' = "staged"
    /\ Return
    /\ UNCHANGED <<mounts, wants, attached, pub, refused, faults>>

(* Mutant: a staging path that is not mounted is an error.                 *)
MutantNotMountedIsError ==
    /\ pc = "unstage"
    /\ \/ staging > 0 /\ GoTo("unstage", "unmount") /\ UNCHANGED pod
       \/ staging = 0 /\ Return
    /\ UNCHANGED <<mounts, caller, refused, faults>>

(* Mutant: the reference count is not looked at.                           *)
MutantCheckUnstage ==
    /\ GoTo("unstage", "unmount")
    /\ UNCHANGED <<mounts, pod, caller, refused, faults>>

(* NodeUnstageVolume: the reference count of the device mounted there.     *)
CheckUnstage ==
    /\ GoTo("unstage", IF staging = 0 THEN "unstaged" ELSE "unmount")
    /\ UNCHANGED <<mounts, pod, caller, refused, faults>>

(* CleanupMountPoint: one mount is taken off; if the path is still a mount *)
(* point, that is an error.                                                *)
Unmount ==
    /\ pc = "unmount"
    /\ staging' = staging - 1
    /\ \/ staging = 1 /\ GoTo("unmount", "unstaged") /\ UNCHANGED pod
       \/ staging > 1 /\ Return
    /\ UNCHANGED <<target, caller, refused, faults>>

Unstaged ==
    /\ pc = "unstaged"
    /\ dev' = "none" /\ refused' = FALSE
    /\ Return
    /\ UNCHANGED <<mounts, wants, attached, pub, faults>>

----------------------------------------------------------------------------
(* NodePublishVolume: MkdirAll, and a bind mount of whatever the staging   *)
(* path is, above what the target path has.                                *)
BindMount ==
    /\ GoTo("publish", "published")
    /\ target' = [target EXCEPT ![pod] = Append(@, IF staging > 0 THEN "disk" ELSE "dir")]
    /\ UNCHANGED <<staging, pod, caller, refused, faults>>

Published ==
    /\ pc = "published"
    /\ pub' = [pub EXCEPT ![pod] = "published"]
    /\ Return
    /\ UNCHANGED <<mounts, wants, attached, dev, refused, faults>>

Uncovered == SubSeq(target[pod], 1, Len(target[pod]) - 1)

(* Mutant: that the path is still a mount point is not an error.           *)
MutantUnmountTarget ==
    /\ GoTo("unpublish", "unpublished")
    /\ target' = [target EXCEPT ![pod] = IF @ = <<>> THEN <<>> ELSE Uncovered]
    /\ UNCHANGED <<staging, pod, caller, refused, faults>>

(* NodeUnpublishVolume: CleanupMountPoint; no mount there is success.      *)
UnmountTarget ==
    /\ pc = "unpublish"
    /\ target' = [target EXCEPT ![pod] = IF @ = <<>> THEN <<>> ELSE Uncovered]
    /\ \/ Len(target[pod]) <= 1 /\ GoTo("unpublish", "unpublished") /\ UNCHANGED pod
       \/ Len(target[pod]) > 1 /\ Return
    /\ UNCHANGED <<staging, caller, refused, faults>>

Unpublished ==
    /\ pc = "unpublished"
    /\ pub' = [pub EXCEPT ![pod] = "none"]
    /\ Return
    /\ UNCHANGED <<mounts, wants, attached, dev, refused, faults>>

----------------------------------------------------------------------------
(* A step of the handler fails, the driver restarts, or the answer does    *)
(* not reach the caller.                                                   *)
CallFails ==
    /\ pc # "idle"
    /\ faults < MaxFaults /\ faults' = faults + 1
    /\ Return
    /\ UNCHANGED <<mounts, caller, refused>>

(* The node reboots: no mounts, and a caller that begins again.            *)
Reboot ==
    /\ faults < MaxFaults /\ faults' = faults + 1
    /\ staging' = 0 /\ target' = [t \in Pods |-> <<>>]
    /\ dev' = "none" /\ pub' = [t \in Pods |-> "none"]
    /\ refused' = FALSE
    /\ Return
    /\ UNCHANGED <<wants, attached>>

HandlerStep ==
    \/ CheckStaged \/ FormatAndMount \/ MountRefused \/ Resize \/ Staged
    \/ CheckUnstage \/ Unmount \/ Unstaged
    \/ BindMount \/ Published \/ UnmountTarget \/ Unpublished

CallerStep ==
    \/ Attach \/ Detach \/ CallStage \/ CallUnstage
    \/ \E t \in Pods : CallPublish(t) \/ CallUnpublish(t)

Next ==
    \/ HandlerStep
    \/ CallerStep
    \/ \E t \in Pods : PodComes(t) \/ PodGoes(t)
    \/ MountFails \/ CallFails \/ Reboot

Spec == Init /\ [][Next]_vars

(* Handlers run, and the caller does what it has to do; pods compete for   *)
(* the one call at a time, and the caller goes round all of them.          *)
Fairness ==
    /\ WF_vars(HandlerStep)
    /\ WF_vars(Attach) /\ WF_vars(Detach) /\ WF_vars(CallStage) /\ WF_vars(CallUnstage)
    /\ \A t \in Pods : SF_vars(CallPublish(t)) /\ SF_vars(CallUnpublish(t))

FairSpec == Spec /\ Fairness

----------------------------------------------------------------------------
(* However often calls are repeated, and mounts lie on each other, a disk  *)
(* is detached only when no path of the node has it mounted.               *)
DetachedIsUnmounted ==
    ~attached => staging = 0 /\ \A t \in Pods : target[t] = <<>>

(* A pod whose volume was published writes to the disk, not to the         *)
(* directory below: NodePublishVolume does not look at the staging path.   *)
PublishedIsDisk ==
    \A t \in Pods : pub[t] = "published" =>
        target[t] # <<>> /\ target[t][Len(target[t])] = "disk"

(* Mounts lie on each other only where a call was lost or failed after its *)
(* mount: as every unmount call takes one off, the calls that go through,  *)
(* however often pods come and go, leave none behind.                      *)
MountsAreFaults ==
    /\ staging <= faults + 1
    /\ \A t \in Pods : Len(target[t]) <= faults + 1

(* Pods get the volume, unless a repeated stage call met its own mount,    *)
(* which NodeStageVolume does not recognise.                               *)
PodsAreServed ==
    \A t \in Pods : t \in wants ~> t \notin wants \/ pub[t] = "published" \/ refused

(* When the pods are gone, everything is undone and the disk detached.     *)
VolumeIsReleased == wants = {} ~> ~attached \/ wants # {}

============================================================================

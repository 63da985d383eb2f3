----------------------------- MODULE Attachment -----------------------------
(***************************************************************************)
(* ControllerPublishVolume, ControllerUnpublishVolume and                  *)
(* ControllerExpandVolume of pkg/csi/controller.go on one volume, with the *)
(* migration of its disk, under a caller that moves the volume between     *)
(* nodes.  One action per call to Xen Orchestra, with the code up to the   *)
(* next call.                                                              *)
(*                                                                         *)
(* Only SINGLE_NODE_WRITER is accepted (isValidCapability), so the caller  *)
(* asks for a node only when the volume is detached from the others, and   *)
(* has one publish or unpublish call in flight.  Expansion is another      *)
(* caller's, and runs beside them.                                         *)
(***************************************************************************)
EXTENDS XOAttachments

CONSTANTS
    AllNodes,   \* the empty node ID of an unpublish request
    ValidSRs,   \* ValidSRs[n]: the SRs that isCurrentSRValidForHost accepts
    HostSRs,    \* HostSRs[n]: the SRs that filterSrsForHost keeps
    Migrating   \* the storage class has migrating: "true"

ASSUME AllNodesAssumption == AllNodes \notin Nodes /\ AllNodes # NoNode
ASSUME ValidSRsAssumption == ValidSRs \in [Nodes -> SUBSET SRs]
ASSUME HostSRsAssumption ==
    HostSRs \in [Nodes -> SUBSET SRs] /\ \A n \in Nodes : HostSRs[n] \subseteq ValidSRs[n]
ASSUME MigratingAssumption == Migrating \in BOOLEAN

VARIABLES
    pc,        \* the call the publish or unpublish handler is about to make
    node,      \* the node of its request
    cur,       \* the disk it has found
    dest,      \* the SR migrateVDI has picked
    dev,       \* the device checkDiskAttachment has picked
    todo,      \* the devices it has still to delete
    resizing,  \* the disk the expand handler is about to resize
    co         \* co[n]: what the caller wants of the volume on node n

handlerVars == <<pc, node, cur, dest, dev, todo>>
vars == <<xoVars, faults, handlerVars, resizing, co>>

Publishing == {"findDisk", "clearMark", "checkVBDs", "recheck", "connect",
               "waitConnected", "checkFree", "setMark", "migrate", "migrating",
               "refetch", "unsetMark", "attach", "waitDevice", "published"}
Unpublishing == {"findVolume", "listVBDs", "deleteVBDs", "unpublished"}

(* The places where the handler works on a disk, or a device, it knows.    *)
WithDisk == (Publishing \ {"findDisk"}) \cup {"listVBDs", "deleteVBDs"}
WithDevice == {"recheck", "connect", "waitConnected"}

Init ==
    /\ XOInit
    /\ pc = "idle" /\ node = NoNode
    /\ cur = NoVDI /\ dest = NoSR /\ dev = NoVBD /\ todo = {}
    /\ resizing = NoVDI
    /\ co = [n \in Nodes |-> "detached"]

TypeOK ==
    /\ XOTypeOK
    /\ pc \in Publishing \cup Unpublishing \cup {"idle"}
    /\ node \in Nodes \cup {NoNode, AllNodes}
    /\ pc \in Publishing => node \in Nodes
    /\ pc \in WithDisk => cur \in VDIs
    /\ pc \in WithDevice => dev \in VBDs
    /\ cur \in VDIs \cup {NoVDI}
    /\ dest \in SRs \cup {NoSR}
    /\ dev \in VBDs \cup {NoVBD}
    /\ todo \in SUBSET VBDs
    /\ resizing \in VDIs \cup {NoVDI}
    /\ co \in [Nodes -> {"detached", "attaching", "attached", "detaching"}]

----------------------------------------------------------------------------
GoTo(from, to) == pc = from /\ pc' = to

(* The handler returns; what it knew is gone.                              *)
Return ==
    /\ pc' = "idle" /\ node' = NoNode
    /\ cur' = NoVDI /\ dest' = NoSR /\ dev' = NoVBD /\ todo' = {}

Keeps == UNCHANGED <<node, cur, dest, dev, todo>>

(* The response reaches the caller.                                        *)
Answered(from, N, old, new) ==
    /\ pc = from
    /\ co' = [n \in Nodes |-> IF n \in N /\ co[n] = old THEN new ELSE co[n]]
    /\ Return
    /\ UNCHANGED <<xoVars, faults, resizing>>

----------------------------------------------------------------------------
(* The caller.  A node may be given up whether or not publishing worked.   *)
WantAttached(n) ==
    /\ \A m \in Nodes : co[m] = "detached"
    /\ co' = [co EXCEPT ![n] = "attaching"]
    /\ UNCHANGED <<xoVars, faults, handlerVars, resizing>>

WantDetached(n) ==
    /\ co[n] \in {"attaching", "attached"}
    /\ co' = [co EXCEPT ![n] = "detaching"]
    /\ UNCHANGED <<xoVars, faults, handlerVars, resizing>>

Accept(n, first) ==
    /\ GoTo("idle", first)
    /\ node' = n
    /\ UNCHANGED <<xoVars, faults, cur, dest, dev, todo, resizing, co>>

Publish(n) == co[n] = "attaching" /\ Accept(n, "findDisk")

Unpublish(n) == co[n] = "detaching" /\ Accept(n, "findVolume")

UnpublishAll ==
    /\ \E n \in Nodes : co[n] = "detaching"
    /\ Accept(AllNodes, "findVolume")

----------------------------------------------------------------------------
(* Mutant: findDisk goes on with a disk that is being migrated.            *)
MutantFindDisk ==
    /\ pc = "findDisk"
    /\ \/ \E d \in Live :
          /\ Live = {d}
          /\ cur' = d
          /\ pc' = IF mark[d] = sr[d] THEN "clearMark" ELSE "checkVBDs"
          /\ UNCHANGED <<node, dest, dev, todo>>
       \/ Cardinality(Live) # 1 /\ Return
    /\ UNCHANGED <<xoVars, faults, resizing, co>>

(* Mutant: findDisk never ends a migration.                                *)
MutantNeverCleared ==
    /\ pc = "findDisk"
    /\ \/ \E d \in Live :
          /\ Live = {d} /\ mark[d] = NoSR
          /\ cur' = d
          /\ pc' = "checkVBDs"
          /\ UNCHANGED <<node, dest, dev, todo>>
       \/ (Cardinality(Live) # 1 \/ \E d \in Live : mark[d] # NoSR) /\ Return
    /\ UNCHANGED <<xoVars, faults, resizing, co>>

(* findDisk: none or several disks, or one that is being migrated          *)
(* elsewhere, are an error; a migration that has arrived is ended.         *)
Elsewhere(d) == mark[d] \notin {NoSR, sr[d]}

FindDisk ==
    /\ pc = "findDisk"
    /\ \/ \E d \in Live :
          /\ Live = {d} /\ ~Elsewhere(d)
          /\ cur' = d
          /\ pc' = IF mark[d] = sr[d] THEN "clearMark" ELSE "checkVBDs"
          /\ UNCHANGED <<node, dest, dev, todo>>
       \/ (Cardinality(Live) # 1 \/ \E d \in Live : Elsewhere(d)) /\ Return
    /\ UNCHANGED <<xoVars, faults, resizing, co>>

(* EditVDI; on a disk that is gone it is an error.                         *)
Edit(from, s, to) ==
    /\ pc = from
    /\ IF cur \in Live
       THEN SetMark(cur, s) /\ GoTo(from, to) /\ Keeps
       ELSE Return /\ UNCHANGED mark
    /\ UNCHANGED <<sr, target, copy, vbd, faults, resizing, co>>

ClearMark == Edit("clearMark", NoSR, "checkVBDs")

(* checkDiskAttachment lists the devices; without one, needsMigration and  *)
(* pickSRForHost decide what is next.                                      *)
CheckVBDs ==
    LET found == VBDsOn(node, cur)
        valid == sr[cur] \in ValidSRs[node]
    IN
    /\ pc = "checkVBDs"
    /\ \/ /\ Plugged(found) # {}
          /\ GoTo("checkVBDs", "published")
          /\ Keeps
       \/ /\ Plugged(found) = {}
          /\ \E b \in found : dev' = b
          /\ GoTo("checkVBDs", "recheck")
          /\ UNCHANGED <<node, cur, dest, todo>>
       \/ /\ found = {} /\ valid
          /\ GoTo("checkVBDs", "attach")
          /\ Keeps
       \/ /\ found = {} /\ ~valid /\ Migrating
          /\ \E s \in HostSRs[node] : dest' = s
          /\ GoTo("checkVBDs", "checkFree")
          /\ UNCHANGED <<node, cur, dev, todo>>
       \/ /\ found = {} /\ ~valid
          /\ ~Migrating \/ HostSRs[node] = {}
          /\ Return
    /\ UNCHANGED <<xoVars, faults, resizing, co>>

(* ConnectVBDAndWaitForDevice: GetVBDByUUID, vbd.connect, polls.           *)
Recheck ==
    /\ pc = "recheck"
    /\ \/ vbd[dev].st = "none" /\ Return
       \/ vbd[dev].st = "plugged" /\ GoTo("recheck", "published") /\ Keeps
       \/ /\ vbd[dev].st \in {"unplugged", "plugging"}
          /\ GoTo("recheck", "connect")
          /\ Keeps
    /\ UNCHANGED <<xoVars, faults, resizing, co>>

Connect ==
    /\ pc = "connect"
    /\ \/ vbd[dev].st = "none" /\ Return /\ UNCHANGED vbd
       \/ /\ vbd[dev].st = "plugged"
          /\ GoTo("connect", "waitConnected") /\ Keeps /\ UNCHANGED vbd
       \/ ConnectVBD(dev) /\ GoTo("connect", "waitConnected") /\ Keeps
    /\ UNCHANGED <<diskVars, faults, resizing, co>>

Connected ==
    /\ pc = "waitConnected"
    /\ \/ vbd[dev].st = "none" /\ Return
       \/ vbd[dev].st = "plugged" /\ GoTo("waitConnected", "published") /\ Keeps
    /\ UNCHANGED <<xoVars, faults, resizing, co>>

----------------------------------------------------------------------------
(* migrateVDI: no device of any VM may have the disk.                      *)
CheckFree ==
    /\ pc = "checkFree"
    /\ \/ VBDsOf(cur) = {} /\ GoTo("checkFree", "setMark") /\ Keeps
       \/ VBDsOf(cur) # {} /\ Return
    /\ UNCHANGED <<xoVars, faults, resizing, co>>

SetMigration == Edit("setMark", dest, "migrate")

(* vdi.migrate is refused when the disk is gone or is being migrated.      *)
Migrate ==
    /\ pc = "migrate"
    /\ \/ MigrateVDI(cur, dest) /\ GoTo("migrate", "migrating") /\ Keeps
       \/ ~CanMigrate(cur) /\ Return /\ UNCHANGED target
    /\ UNCHANGED <<sr, mark, copy, vbd, faults, resizing, co>>

Refetch ==
    /\ pc = "refetch"
    /\ \/ cur \in Live /\ GoTo("refetch", "unsetMark") /\ Keeps
       \/ cur \notin Live /\ Return
    /\ UNCHANGED <<xoVars, faults, resizing, co>>

(* Mutant: the mark stays on the migrated disk.                            *)
MutantUnsetMark ==
    /\ GoTo("unsetMark", "attach") /\ Keeps
    /\ UNCHANGED <<xoVars, faults, resizing, co>>

UnsetMigration == Edit("unsetMark", NoSR, "attach")

----------------------------------------------------------------------------
(* AttachVDIAndWaitForDevice.                                              *)
Attach ==
    /\ pc = "attach"
    /\ \/ /\ \E b \in VBDs : AttachVDI(b, node, cur)
          /\ GoTo("attach", "waitDevice") /\ Keeps
       \/ cur \notin Live /\ Return /\ UNCHANGED vbd
    /\ UNCHANGED <<diskVars, faults, resizing, co>>

DeviceSeen ==
    /\ Plugged(VBDsOn(node, cur)) # {}
    /\ GoTo("waitDevice", "published") /\ Keeps
    /\ UNCHANGED <<xoVars, faults, resizing, co>>

Published == Answered("published", {node}, "attaching", "attached")

(* The ten seconds for a device, or the caller's deadline during a         *)
(* migration, are over; Xen Orchestra goes on.                             *)
TimesOut ==
    /\ pc \in {"waitConnected", "waitDevice", "migrating"}
    /\ Return
    /\ UNCHANGED <<xoVars, faults, resizing, co>>

----------------------------------------------------------------------------
(* Mutant: the UUID of the disk found is not taken over.                   *)
MutantFindVolume ==
    /\ pc = "findVolume"
    /\ \/ Live = {} /\ GoTo("findVolume", "unpublished") /\ Keeps
       \/ Cardinality(Live) = 1 /\ GoTo("findVolume", "listVBDs") /\ Keeps
       \/ Cardinality(Live) > 1 /\ Return
    /\ UNCHANGED <<xoVars, faults, resizing, co>>

(* ControllerUnpublishVolume.                                              *)
FindVolume ==
    /\ pc = "findVolume"
    /\ \/ /\ Live = {}
          /\ GoTo("findVolume", "unpublished") /\ Keeps
       \/ \E d \in Live :
          /\ Live = {d}
          /\ cur' = d
          /\ GoTo("findVolume", "listVBDs")
          /\ UNCHANGED <<node, dest, dev, todo>>
       \/ Cardinality(Live) > 1 /\ Return
    /\ UNCHANGED <<xoVars, faults, resizing, co>>

ListVBDs ==
    /\ GoTo("listVBDs", "deleteVBDs")
    /\ todo' = IF node = AllNodes THEN VBDsOf(cur) ELSE VBDsOn(node, cur)
    /\ UNCHANGED <<xoVars, faults, node, cur, dest, dev, resizing, co>>

(* Mutant: a device that cannot be deleted now is passed over.             *)
MutantDeleteOne(b) ==
    /\ pc = "deleteVBDs" /\ b \in todo
    /\ todo' = todo \ {b}
    /\ \/ DeleteVBD(b)
       \/ ~(vbd[b].st \in {"unplugged", "plugged"}) /\ UNCHANGED vbd
    /\ UNCHANGED <<diskVars, faults, pc, node, cur, dest, dev, resizing, co>>

(* Mutant: a device that is not attached is an error too.                  *)
MutantDeletePlugged(b) ==
    /\ pc = "deleteVBDs" /\ b \in todo
    /\ \/ /\ vbd[b].st = "plugged"
          /\ DeleteVBD(b)
          /\ todo' = todo \ {b}
          /\ UNCHANGED <<pc, node, cur, dest, dev>>
       \/ vbd[b].st # "plugged" /\ Return /\ UNCHANGED vbd
    /\ UNCHANGED <<diskVars, faults, resizing, co>>

(* A device that is gone or busy is an error: the handler returns.         *)
DeleteOne(b) ==
    /\ pc = "deleteVBDs" /\ b \in todo
    /\ \/ /\ DeleteVBD(b)
          /\ todo' = todo \ {b}
          /\ UNCHANGED <<pc, node, cur, dest, dev>>
       \/ vbd[b].st \in {"none", "plugging"} /\ Return /\ UNCHANGED vbd
    /\ UNCHANGED <<diskVars, faults, resizing, co>>

AllDeleted ==
    /\ todo = {}
    /\ GoTo("deleteVBDs", "unpublished") /\ Keeps
    /\ UNCHANGED <<xoVars, faults, resizing, co>>

Unpublished ==
    Answered("unpublished", IF node = AllNodes THEN Nodes ELSE {node},
             "detaching", "detached")

----------------------------------------------------------------------------
(* ControllerExpandVolume: the lookups with their checks, then vdi.set     *)
(* with a size.  Every other outcome is an error without effect.           *)
Expand(d) ==
    /\ resizing = NoVDI
    /\ Live = {d} /\ mark[d] = NoSR
    /\ resizing' = d
    /\ UNCHANGED <<xoVars, faults, handlerVars, co>>

Resize ==
    /\ resizing # NoVDI
    /\ resizing' = NoVDI
    /\ UNCHANGED <<xoVars, faults, handlerVars, co>>

----------------------------------------------------------------------------
(* A call of the handler fails, or its answer is lost, or the controller   *)
(* crashes: nothing of the handler is left.                                *)
HandlerFails ==
    /\ pc # "idle"
    /\ CallFails
    /\ Return
    /\ UNCHANGED <<xoVars, resizing, co>>

(* The connection closes under vm.attachDisk, and call() sends the request *)
(* again: there may be a second device.                                    *)
AttachAgain(b) ==
    /\ pc = "waitDevice"
    /\ CallFails
    /\ AttachVDI(b, node, cur)
    /\ UNCHANGED <<diskVars, handlerVars, resizing, co>>

Unwaited(d) == ~(pc = "migrating" /\ cur = d)

(* The answer of vdi.migrate is the UUID of the copy.                      *)
XOMigrationEnds(d) ==
    /\ MigrationEnds(d)
    /\ \/ Unwaited(d) /\ UNCHANGED handlerVars
       \/ ~Unwaited(d) /\ pc' = "refetch" /\ cur' = copy[d]
          /\ UNCHANGED <<node, dest, dev, todo>>
    /\ UNCHANGED <<resizing, co>>

(* An error return of migrateVDI; the mark stays.                          *)
XOMigrationFails(d) ==
    /\ MigrationFails(d)
    /\ \/ Unwaited(d) /\ UNCHANGED handlerVars
       \/ ~Unwaited(d) /\ Return
    /\ UNCHANGED <<resizing, co>>

XOCopyAppears(d) ==
    /\ \E e \in VDIs \ {cur, resizing} : CopyAppears(d, e)
    /\ UNCHANGED <<handlerVars, resizing, co>>

XOPlugEnds(b) == PlugEnds(b) /\ UNCHANGED <<handlerVars, resizing, co>>
XOUnplugs(b) == Unplugs(b) /\ UNCHANGED <<handlerVars, resizing, co>>

----------------------------------------------------------------------------
PublishStep ==
    \/ FindDisk \/ ClearMark \/ CheckVBDs \/ Recheck \/ Connect \/ Connected
    \/ CheckFree \/ SetMigration \/ Migrate \/ Refetch \/ UnsetMigration
    \/ Attach \/ DeviceSeen \/ Published \/ TimesOut

UnpublishStep ==
    \/ FindVolume \/ ListVBDs \/ AllDeleted \/ Unpublished
    \/ \E b \in VBDs : DeleteOne(b)

XOStep ==
    \/ \E d \in VDIs : XOCopyAppears(d) \/ XOMigrationEnds(d)
    \/ \E b \in VBDs : XOPlugEnds(b)

Fault ==
    \/ HandlerFails
    \/ \E d \in VDIs : XOMigrationFails(d)
    \/ \E b \in VBDs : XOUnplugs(b) \/ AttachAgain(b)

Next ==
    \/ \E n \in Nodes : WantAttached(n) \/ WantDetached(n) \/ Publish(n) \/ Unpublish(n)
    \/ UnpublishAll
    \/ PublishStep
    \/ UnpublishStep
    \/ \E d \in VDIs : Expand(d)
    \/ Resize
    \/ XOStep
    \/ Fault

Spec == Init /\ [][Next]_vars

(* The handler's goroutine runs, Xen Orchestra ends what it has begun, and *)
(* the caller repeats a call that has not succeeded.  Nothing makes the    *)
(* caller want anything, a call fail or a VM stop.                         *)
Fairness ==
    /\ WF_vars(PublishStep) /\ WF_vars(UnpublishStep)
    /\ \A d \in VDIs : WF_vars(XOCopyAppears(d)) /\ WF_vars(XOMigrationEnds(d))
    /\ \A b \in VBDs : WF_vars(XOPlugEnds(b))
    /\ \A n \in Nodes : WF_vars(Publish(n)) /\ WF_vars(Unpublish(n))

FairSpec == Spec /\ Fairness

----------------------------------------------------------------------------
(* Two VMs never have a device for the volume, so never write to it both,  *)
(* although publish calls time out and their devices appear later.         *)
AttachedOnce ==
    \A b, c \in VBDs : vbd[b].st # "none" /\ vbd[c].st # "none" =>
        vbd[b].node = vbd[c].node

(* While Xen Orchestra migrates a disk, whoever has asked for it and given *)
(* up since, no VM has a device for the disk or for its copy.              *)
MovingIsDetached ==
    \A d \in Moving : VBDsOf(d) = {} /\ (copy[d] # NoVDI => VBDsOf(copy[d]) = {})

(* When publishing has succeeded, the node has a device for the one disk   *)
(* of the volume, which is where the node's host can use it, and is        *)
(* neither being migrated nor described as such.                           *)
PublishedIsAttached ==
    \A n \in Nodes : co[n] = "attached" =>
        \E d \in VDIs :
           /\ Live = {d} /\ d \notin Moving /\ mark[d] = NoSR
           /\ VBDsOn(n, d) # {} /\ sr[d] \in ValidSRs[n]

(* A description says that a migration is in progress when it is, as the   *)
(* comment in findDisk has it.                                             *)
MarkMeansMigration ==
    \A d \in Live : Elsewhere(d) => d \in Moving \/ (pc = "migrate" /\ cur = d)

(* Expansion keeps off a disk that is being migrated, as the error of      *)
(* ControllerExpandVolume has it.                                          *)
MovingIsNotResized == [][Resize => resizing \notin Moving]_vars

(* A migration that failed, or was marked and never begun, leaves its mark. *)
Orphaned == pc = "idle" /\ \E d \in Live \ Moving : Elsewhere(d)

(* A publish call for a VM whose host has a storage repository, repeated,  *)
(* succeeds, unless a failed migration has left its mark.                  *)
PublishSucceeds ==
    \A n \in Nodes : HostSRs[n] # {} =>
        (co[n] = "attaching" ~> co[n] # "attaching" \/ Orphaned)

(* An unpublish call, repeated, succeeds.                                  *)
UnpublishSucceeds == \A n \in Nodes : co[n] = "detaching" ~> co[n] # "detaching"

(* The volume as VolumeAttachment has it: the nodes with a device, and the *)
(* repositories with a disk.                                               *)
Holders == {vbd[b].node : b \in {c \in VBDs : vbd[c].st # "none"}}
Places == {sr[d] : d \in Live}

Held == INSTANCE VolumeAttachment WITH holders <- Holders, places <- Places

(* Every step of the handlers and of Xen Orchestra, whatever timed out or  *)
(* failed before it, is a step of VolumeAttachment or none: no device for  *)
(* a node that no longer wants it, no copy under a device.                 *)
KeepsAttachment == Held!Spec

============================================================================

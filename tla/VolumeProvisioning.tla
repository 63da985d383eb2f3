------------------------- MODULE VolumeProvisioning -------------------------
(***************************************************************************)
(* CreateVolume and DeleteVolume of pkg/csi/controller.go, running beside  *)
(* the temp cleanup, under a provisioner that repeats a call until it      *)
(* succeeds.  One action per call to Xen Orchestra, with the code up to    *)
(* the next call; a call that fails ends the handler.                      *)
(***************************************************************************)
EXTENDS TempCleanup

CONSTANTS
    UUIDVolumes,  \* the volumes whose ID is their disk's UUID (shared SR)
    SerialCO      \* the provisioner has one call at a time per volume

ASSUME UUIDVolumesAssumption == UUIDVolumes \subseteq Volumes
ASSUME SerialCOAssumption == SerialCO \in BOOLEAN

VARIABLES
    pc,      \* pc[h]: the call handler h is about to make
    req,     \* req[h]: the volume its request is for
    disk,    \* disk[h]: the disk it has found or created
    extra,   \* extra[h]: what getOneDiskAndDeleteRest has still to delete
    co,      \* co[v]: what the provisioner wants of volume v
    volID    \* volID[v]: the disk of the response the provisioner has

handlerVars == <<pc, req, disk, extra>>
coVars == <<co, volID>>
vars == <<diskVars, lockVars, cleanupVars, handlerVars, coVars>>

(* The calls createDisk makes: in these the handler has the creation lock. *)
InSection == {"findTemp", "listTemp", "deleteRest", "create", "creating",
              "rename", "refetchDisk"}

PCs == InSection \cup {"idle", "findFinal", "lock", "storeInfo", "created",
                       "findDeleted", "delete", "deleted"}

(* The places where the handler works on a disk it knows.                  *)
WithDisk == {"deleteRest", "creating", "rename", "refetchDisk", "storeInfo",
             "created", "delete"}

Init ==
    /\ DisksInit /\ LockInit /\ CleanupInit
    /\ pc = [h \in Handlers |-> "idle"]
    /\ req = [h \in Handlers |-> NoVolume]
    /\ disk = [h \in Handlers |-> NoVDI]
    /\ extra = [h \in Handlers |-> {}]
    /\ co = [v \in Volumes |-> "wanted"]
    /\ volID = [v \in Volumes |-> NoVDI]

TypeOK ==
    /\ DisksTypeOK /\ LockTypeOK /\ CleanupTypeOK
    /\ pc \in [Handlers -> PCs]
    /\ req \in [Handlers -> Volumes \cup {NoVolume}]
    /\ disk \in [Handlers -> VDIs \cup {NoVDI}]
    /\ extra \in [Handlers -> SUBSET VDIs]
    /\ co \in [Volumes -> {"wanted", "bound", "deleting", "gone"}]
    /\ volID \in [Volumes -> VDIs \cup {NoVDI}]
    /\ \A h \in Handlers : pc[h] # "idle" => req[h] \in Volumes
    /\ \A h \in Handlers : pc[h] \in WithDisk => disk[h] \in VDIs
    /\ \A v \in Volumes : co[v] \in {"bound", "deleting"} => volID[v] \in VDIs

----------------------------------------------------------------------------
GoTo(h, from, to) ==
    /\ pc[h] = from
    /\ pc' = [pc EXCEPT ![h] = to]

(* A handler returns: the deferred CreationUnlock, and no local state.     *)
Return(h) ==
    /\ pc' = [pc EXCEPT ![h] = "idle"]
    /\ req' = [req EXCEPT ![h] = NoVolume]
    /\ disk' = [disk EXCEPT ![h] = NoVDI]
    /\ extra' = [extra EXCEPT ![h] = {}]
    /\ CreationUnlock(h)

(* A call arrives.  CSI asks the caller to have one call per volume in     *)
(* flight; the code does not rely on a lock of its own for that.           *)
Accept(h, v) ==
    /\ pc[h] = "idle"
    /\ SerialCO => \A g \in Handlers : req[g] # v
    /\ req' = [req EXCEPT ![h] = v]
    /\ UNCHANGED <<diskVars, lockVars, cleanupVars, disk, extra, coVars>>

(* CreateVolume, up to the lookup of the final name.                       *)
CreateVolume(h, v) ==
    /\ co[v] = "wanted"
    /\ Accept(h, v)
    /\ GoTo(h, "idle", "findFinal")

(* Mutant: CreateVolume does not look for the final name first.            *)
MutantNoFinalLookup(h) ==
    /\ GoTo(h, "findFinal", "lock")
    /\ UNCHANGED <<diskVars, lockVars, cleanupVars, req, disk, extra, coVars>>

(* Mutant: a disk that already has the final name is an error.             *)
MutantFoundIsError(h) ==
    /\ pc[h] = "findFinal"
    /\ \/ /\ FinalDisks(req[h]) = {}
          /\ GoTo(h, "findFinal", "lock")
          /\ UNCHANGED <<lockVars, req, disk, extra>>
       \/ FinalDisks(req[h]) # {} /\ Return(h)
    /\ UNCHANGED <<diskVars, cleanupVars, coVars>>

(* Not found: createDisk.  Found: the disk is the volume's.  Several:      *)
(* AlreadyExists.                                                          *)
FindFinal(h) ==
    LET found == FinalDisks(req[h]) IN
    /\ pc[h] = "findFinal"
    /\ \/ /\ found = {}
          /\ GoTo(h, "findFinal", "lock")
          /\ UNCHANGED <<lockVars, req, disk, extra>>
       \/ \E d \in found :
          /\ found = {d}
          /\ disk' = [disk EXCEPT ![h] = d]
          /\ GoTo(h, "findFinal", "storeInfo")
          /\ UNCHANGED <<lockVars, req, extra>>
       \/ Cardinality(found) > 1 /\ Return(h)
    /\ UNCHANGED <<diskVars, cleanupVars, coVars>>

LockCreation(h) ==
    /\ GoTo(h, "lock", "findTemp")
    /\ CreationLock(h)
    /\ UNCHANGED <<diskVars, cleanupVars, req, disk, extra, coVars>>

(* Mutant: the UUID of the temporary disk found is not taken over.         *)
MutantUUIDNotTaken(h) ==
    LET found == TempDisks(req[h]) IN
    /\ pc[h] = "findTemp"
    /\ \/ found = {} /\ GoTo(h, "findTemp", "create")
       \/ Cardinality(found) = 1 /\ GoTo(h, "findTemp", "rename")
       \/ Cardinality(found) > 1 /\ GoTo(h, "findTemp", "listTemp")
    /\ UNCHANGED <<diskVars, lockVars, cleanupVars, req, disk, extra, coVars>>

(* Mutant: several temporary disks are an error.                           *)
MutantSeveralIsError(h) ==
    LET found == TempDisks(req[h]) IN
    /\ pc[h] = "findTemp"
    /\ \/ /\ found = {}
          /\ GoTo(h, "findTemp", "create")
          /\ UNCHANGED <<lockVars, req, disk, extra>>
       \/ \E d \in found :
          /\ found = {d}
          /\ disk' = [disk EXCEPT ![h] = d]
          /\ GoTo(h, "findTemp", "rename")
          /\ UNCHANGED <<lockVars, req, extra>>
       \/ Cardinality(found) > 1 /\ Return(h)
    /\ UNCHANGED <<diskVars, cleanupVars, coVars>>

FindTemp(h) ==
    LET found == TempDisks(req[h]) IN
    /\ pc[h] = "findTemp"
    /\ \/ found = {} /\ GoTo(h, "findTemp", "create") /\ UNCHANGED disk
       \/ \E d \in found :
          /\ found = {d}
          /\ disk' = [disk EXCEPT ![h] = d]
          /\ GoTo(h, "findTemp", "rename")
       \/ /\ Cardinality(found) > 1
          /\ GoTo(h, "findTemp", "listTemp")
          /\ UNCHANGED disk
    /\ UNCHANGED <<diskVars, lockVars, cleanupVars, req, extra, coVars>>

(* getOneDiskAndDeleteRest: the order of the answer is that of a Go map.   *)
ListTemp(h) ==
    LET found == TempDisks(req[h]) IN
    /\ pc[h] = "listTemp"
    /\ \/ found = {} /\ Return(h)
       \/ \E d \in found :
          /\ disk' = [disk EXCEPT ![h] = d]
          /\ extra' = [extra EXCEPT ![h] = found \ {d}]
          /\ GoTo(h, "listTemp", "deleteRest")
          /\ UNCHANGED <<lockVars, req>>
    /\ UNCHANGED <<diskVars, cleanupVars, coVars>>

Handled(h, d) == extra' = [extra EXCEPT ![h] = @ \ {d}]

DeleteRest(h, d) ==
    /\ pc[h] = "deleteRest"
    /\ d \in extra[h]
    /\ IF d \in Live THEN DeleteVDI(d) ELSE UNCHANGED vdi
    /\ Handled(h, d)
    /\ UNCHANGED <<faults, lockVars, cleanupVars, pc, req, disk, coVars>>

(* An error here is only logged.                                           *)
DeleteRestFails(h, d) ==
    /\ pc[h] = "deleteRest"
    /\ d \in extra[h]
    /\ CallFails
    /\ Handled(h, d)
    /\ UNCHANGED <<vdi, lockVars, cleanupVars, pc, req, disk, coVars>>

RestDeleted(h) ==
    /\ extra[h] = {}
    /\ GoTo(h, "deleteRest", "rename")
    /\ UNCHANGED <<diskVars, lockVars, cleanupVars, req, disk, extra, coVars>>

CreateDisk(h, d) ==
    /\ GoTo(h, "create", "creating")
    /\ CreateVDI(d, req[h])
    /\ disk' = [disk EXCEPT ![h] = d]
    /\ UNCHANGED <<faults, lockVars, cleanupVars, req, extra, coVars>>

(* disk.create is refused for want of resources: the UUIDs are used up.    *)
NoRoom(h) ==
    /\ pc[h] = "create"
    /\ \A d \in VDIs : vdi[d].st # "unborn"
    /\ Return(h)
    /\ UNCHANGED <<diskVars, cleanupVars, coVars>>

(* disk.create answers with the UUID once its task has ended.              *)
DiskCreated(h) ==
    /\ GoTo(h, "creating", "rename")
    /\ vdi[disk[h]].st # "pending"
    /\ UNCHANGED <<diskVars, lockVars, cleanupVars, req, disk, extra, coVars>>

(* A call on a disk that is gone is an error: the handler returns.         *)
RenameDisk(h) ==
    /\ pc[h] = "rename"
    /\ IF disk[h] \in Live
       THEN /\ RenameVDI(disk[h])
            /\ GoTo(h, "rename", "refetchDisk")
            /\ UNCHANGED <<lockVars, req, disk, extra>>
       ELSE Return(h) /\ UNCHANGED vdi
    /\ UNCHANGED <<faults, cleanupVars, coVars>>

(* Mutant: a new disk is reported before its StorageInfo is stored.        *)
MutantNoInfo(h) ==
    /\ GoTo(h, "refetchDisk", "created")
    /\ CreationUnlock(h)
    /\ UNCHANGED <<diskVars, cleanupVars, req, disk, extra, coVars>>

(* GetVDIByUUID of the renamed disk, and the return of createDisk.         *)
RefetchDisk(h) ==
    /\ pc[h] = "refetchDisk"
    /\ IF disk[h] \in Live
       THEN /\ GoTo(h, "refetchDisk", "storeInfo")
            /\ CreationUnlock(h)
            /\ UNCHANGED <<req, disk, extra>>
       ELSE Return(h)
    /\ UNCHANGED <<diskVars, cleanupVars, coVars>>

StoreInfo(h) ==
    /\ pc[h] = "storeInfo"
    /\ IF disk[h] \in Live
       THEN /\ DescribeVDI(disk[h], "info")
            /\ GoTo(h, "storeInfo", "created")
            /\ UNCHANGED <<lockVars, req, disk, extra>>
       ELSE Return(h) /\ UNCHANGED vdi
    /\ UNCHANGED <<faults, cleanupVars, coVars>>

(* The response reaches the provisioner.                                   *)
VolumeCreated(h) ==
    /\ pc[h] = "created"
    /\ IF co[req[h]] = "wanted"
       THEN /\ co' = [co EXCEPT ![req[h]] = "bound"]
            /\ volID' = [volID EXCEPT ![req[h]] = disk[h]]
       ELSE UNCHANGED coVars
    /\ Return(h)
    /\ UNCHANGED <<diskVars, cleanupVars>>

----------------------------------------------------------------------------
(* The provisioner no longer needs the volume.                             *)
ReleaseVolume(v) ==
    /\ co[v] = "bound"
    /\ co' = [co EXCEPT ![v] = "deleting"]
    /\ UNCHANGED <<diskVars, lockVars, cleanupVars, handlerVars, volID>>

DeleteVolume(h, v) ==
    /\ co[v] = "deleting"
    /\ Accept(h, v)
    /\ GoTo(h, "idle", "findDeleted")

(* Mutant: the lookup is under the temporary name.                         *)
MutantTempName(v) == IF v \in UUIDVolumes THEN Live \cap {volID[v]} ELSE TempDisks(v)

(* The lookup the volume ID asks for: by UUID or by the final name.        *)
DisksOfID(v) == IF v \in UUIDVolumes THEN Live \cap {volID[v]} ELSE FinalDisks(v)

(* Mutant: a disk that is not found is an error.                           *)
MutantNotFoundIsError(h) ==
    LET found == DisksOfID(req[h]) IN
    /\ pc[h] = "findDeleted"
    /\ \/ \E d \in found :
          /\ found = {d}
          /\ disk' = [disk EXCEPT ![h] = d]
          /\ GoTo(h, "findDeleted", "delete")
          /\ UNCHANGED <<lockVars, req, extra>>
       \/ Cardinality(found) # 1 /\ Return(h)
    /\ UNCHANGED <<diskVars, cleanupVars, coVars>>

FindDeleted(h) ==
    LET found == DisksOfID(req[h]) IN
    /\ pc[h] = "findDeleted"
    /\ \/ /\ found = {}
          /\ GoTo(h, "findDeleted", "deleted")
          /\ UNCHANGED <<lockVars, req, disk, extra>>
       \/ \E d \in found :
          /\ found = {d}
          /\ disk' = [disk EXCEPT ![h] = d]
          /\ GoTo(h, "findDeleted", "delete")
          /\ UNCHANGED <<lockVars, req, extra>>
       \/ Cardinality(found) > 1 /\ Return(h)
    /\ UNCHANGED <<diskVars, cleanupVars, coVars>>

(* NoSuchObject counts as deleted.                                         *)
DeleteDisk(h) ==
    /\ GoTo(h, "delete", "deleted")
    /\ IF disk[h] \in Live THEN DeleteVDI(disk[h]) ELSE UNCHANGED vdi
    /\ UNCHANGED <<faults, lockVars, cleanupVars, req, disk, extra, coVars>>

VolumeDeleted(h) ==
    /\ pc[h] = "deleted"
    /\ co' = [co EXCEPT ![req[h]] = "gone"]
    /\ Return(h)
    /\ UNCHANGED <<diskVars, cleanupVars, volID>>

----------------------------------------------------------------------------
(* A call of the handler fails, or its answer is lost, or its context is   *)
(* cancelled (then every further call fails), or no SR is picked: an error *)
(* is returned.  RLock does not look at the context.                       *)
HandlerFails(h) ==
    /\ pc[h] \notin {"idle", "lock"}
    /\ CallFails
    /\ Return(h)
    /\ UNCHANGED <<vdi, cleanupVars, coVars>>

(* The connection closes under disk.create and call() sends the request    *)
(* again over a new one; the first task goes on.                           *)
CreateAgain(h, d) ==
    /\ pc[h] = "creating"
    /\ CallFails
    /\ CreateVDI(d, req[h])
    /\ disk' = [disk EXCEPT ![h] = d]
    /\ UNCHANGED <<lockVars, cleanupVars, pc, req, extra, coVars>>

(* The task of disk.create fails: no disk, and an error to whoever waits.  *)
TaskFails(d) ==
    /\ vdi[d].st = "pending"
    /\ CallFails
    /\ vdi' = [vdi EXCEPT ![d] = NoDisk("unborn")]
    /\ \/ /\ \A h \in Handlers : ~(pc[h] = "creating" /\ disk[h] = d)
          /\ UNCHANGED <<lockVars, handlerVars>>
       \/ \E h \in Handlers :
          pc[h] = "creating" /\ disk[h] = d /\ Return(h)
    /\ UNCHANGED <<cleanupVars, coVars>>

(* The controller crashes and starts again.  The disks, their names and    *)
(* descriptions, and the tasks of Xen Orchestra stay.                      *)
Restart ==
    /\ CallFails
    /\ pc' = [h \in Handlers |-> "idle"]
    /\ req' = [h \in Handlers |-> NoVolume]
    /\ disk' = [h \in Handlers |-> NoVDI]
    /\ extra' = [h \in Handlers |-> {}]
    /\ readers' = {} /\ writer' = "free"
    /\ CleanupRestarts
    /\ UNCHANGED <<vdi, coVars>>

----------------------------------------------------------------------------
XOTaskEnds(d) ==
    /\ TaskEnds(d)
    /\ UNCHANGED <<faults, lockVars, cleanupVars, handlerVars, coVars>>

HandlerStep(h) ==
    \/ FindFinal(h) \/ LockCreation(h) \/ FindTemp(h) \/ ListTemp(h)
    \/ RestDeleted(h) \/ NoRoom(h) \/ DiskCreated(h) \/ RenameDisk(h) \/ RefetchDisk(h)
    \/ StoreInfo(h) \/ VolumeCreated(h)
    \/ FindDeleted(h) \/ DeleteDisk(h) \/ VolumeDeleted(h)
    \/ \E d \in VDIs : DeleteRest(h, d) \/ CreateDisk(h, d)

Call(h, v) == CreateVolume(h, v) \/ DeleteVolume(h, v)

Cleanup == CleanupStep /\ UNCHANGED <<handlerVars, coVars>>
CleanupFails == CleanupFault /\ UNCHANGED <<handlerVars, coVars>>
Time == TimePasses /\ UNCHANGED <<handlerVars, coVars>>

Fault ==
    \/ Restart
    \/ CleanupFails
    \/ \E d \in VDIs : TaskFails(d)
    \/ \E h \in Handlers :
       HandlerFails(h) \/ \E d \in VDIs : DeleteRestFails(h, d) \/ CreateAgain(h, d)

Next ==
    \/ \E h \in Handlers, v \in Volumes : Call(h, v)
    \/ \E h \in Handlers : HandlerStep(h)
    \/ \E v \in Volumes : ReleaseVolume(v)
    \/ \E d \in VDIs : XOTaskEnds(d)
    \/ Cleanup
    \/ Time
    \/ Fault

Spec == Init /\ [][Next]_vars

(* Goroutines that can run do, Xen Orchestra ends its tasks, time passes,  *)
(* and the provisioner repeats a call that has not succeeded.  Nothing     *)
(* makes a fault or the release of a volume happen.                        *)
Fairness ==
    /\ \A h \in Handlers : WF_vars(HandlerStep(h))
    /\ \A v \in Volumes : WF_vars(\E h \in Handlers : Call(h, v))
    /\ \A d \in VDIs : WF_vars(XOTaskEnds(d))
    /\ WF_vars(Cleanup)
    /\ WF_vars(Time)

FairSpec == Spec /\ Fairness

----------------------------------------------------------------------------
(* A disk that has left its temporary name is never marked as a deletion   *)
(* candidate: the promise of CreationLock, kept by the lock together with  *)
(* the second look at the disk in setDeletionCandidate.                    *)
NoFinalCandidate ==
    \A d \in Live : vdi[d].desc = "candidate" => vdi[d].name = "temp"

(* However its calls are interrupted and repeated, a volume has at most    *)
(* one disk under its final name; with two, CreateVolume and DeleteVolume  *)
(* would fail for ever.                                                    *)
UniqueFinal ==
    \A v \in Volumes : \A d, e \in FinalDisks(v) : d = e

(* The disk of a volume the provisioner was told of keeps, as long as it   *)
(* exists, the final name and the StorageInfo that findDisk requires.      *)
BoundKeepsMetadata ==
    \A v \in Volumes : co[v] = "bound" /\ volID[v] \in Live =>
        volID[v] \in FinalDisks(v) /\ vdi[volID[v]].desc = "info"

(* A volume the provisioner was told of has its disk until DeleteVolume.   *)
BoundSurvives ==
    \A v \in Volumes : co[v] = "bound" => volID[v] \in FinalDisks(v)

(* A volume whose DeleteVolume succeeded has left no disk under its name.  *)
GoneLeavesNothing ==
    \A v \in Volumes : co[v] = "gone" => FinalDisks(v) = {}

(* Disks leak only through interruptions: a volume never has more          *)
(* temporary disks that no handler works on than calls have failed.        *)
Leaked(v) == {d \in VDIs : /\ vdi[d].st \in {"pending", "live"}
                           /\ vdi[d].vol = v /\ vdi[d].name = "temp"
                           /\ \A h \in Handlers : disk[h] # d}
LeaksAreFaults == \A v \in Volumes : Cardinality(Leaked(v)) <= faults

(* A temporary disk does not stay one: it is deleted or becomes a volume.  *)
LeaksAreCollected ==
    \A d \in VDIs : [](d \in Live /\ vdi[d].name = "temp" =>
                        <>~(d \in Live /\ vdi[d].name = "temp"))

(* The provisioner gets every volume it asks for.                          *)
ProvisioningSucceeds == \A v \in Volumes : co[v] = "wanted" ~> co[v] = "bound"

(* DeleteVolume, repeated, succeeds.                                       *)
DeletionSucceeds == \A v \in Volumes : co[v] = "deleting" ~> co[v] = "gone"

(* Without --temp-cleanup, the handlers implement VolumeRegistry: its      *)
(* disks are those under the final name.                                   *)
Registry == INSTANCE VolumeRegistry WITH disks <- [v \in Volumes |-> FinalDisks(v)]

KeepsRegistry == Registry!Spec

============================================================================

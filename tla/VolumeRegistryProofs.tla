------------------------ MODULE VolumeRegistryProofs ------------------------
(***************************************************************************)
(* VolumeProvisioning implements VolumeRegistry when the provisioner has   *)
(* one call at a time per volume and the cleanup is off.                   *)
(***************************************************************************)
EXTENDS VolumeProvisioningProofs

Named == [v \in Volumes |-> FinalDisks(v)]

LEMMA RegistryInit == Init => Registry!Init
<1> SUFFICES ASSUME Init PROVE Registry!Init
  OBVIOUS
<1>1. \A v \in Volumes : FinalDisks(v) = {}
  <2>1. \A d \in VDIs : vdi[d].st # "live"
    BY DEF Init, DisksInit, NoDisk
  <2> QED
    BY <2>1 DEF FinalDisks, Live
<1> QED
  BY <1>1 DEF Init, Registry!Init

LEMMA RegistryParts ==
    ASSUME ProvisioningInv
    PROVE  TypeOK /\ DisksTypeOK /\ HandlerTypeOK /\ COTypeOK
           /\ MarkInv /\ UniqueFinal /\ \A h \in Handlers : HandlerInv(h)
BY TypeParts DEF ProvisioningInv, CandidateInv

(* The provisioner's view changes only by these steps.                     *)
LEMMA ViewSteps ==
    ASSUME [Next]_vars
    PROVE  \/ UNCHANGED coVars
           \/ \E v \in Volumes : ReleaseVolume(v)
           \/ \E h \in Handlers : VolumeCreated(h) \/ VolumeDeleted(h)
BY DEF Next, vars, Call, CreateVolume, DeleteVolume, Accept, HandlerStep, FindFinal,
       LockCreation, FindTemp, ListTemp, RestDeleted, NoRoom, DiskCreated, RenameDisk,
       RefetchDisk, StoreInfo, FindDeleted, DeleteDisk,
       DeleteRest, CreateDisk, XOTaskEnds, Cleanup, Time, Fault, Restart,
       CleanupFails, TaskFails, HandlerFails, DeleteRestFails, CreateAgain

(* No other step than a rename or DeleteVolume's deletion changes which    *)
(* disks have a final name.                                                *)
LEMMA NamedSteps ==
    ASSUME ProvisioningInv, KeptInv, ~CleanupEnabled, [Next]_vars,
           \A h \in Handlers : ~RenameDisk(h) /\ ~DeleteDisk(h)
    PROVE  Named' = Named
<1>1. ASSUME NEW v \in Volumes PROVE FinalDisks(v)' = FinalDisks(v)
  <2>1. ASSUME NEW d \in FinalDisks(v)' PROVE d \in FinalDisks(v)
    BY <2>1, RegistryParts, FinalSteps
  <2>2. ASSUME NEW d \in FinalDisks(v) PROVE d \in FinalDisks(v)'
    <3>1. /\ d \in VDIs /\ vdi[d].st = "live" /\ vdi[d].vol = v /\ vdi[d].name = "final"
          /\ DiskStep(d)
      BY RegistryParts, DiskSteps DEF FinalDisks, Live
    <3>2. vdi'[d].st # "dead"
      <4> SUFFICES ASSUME vdi'[d].st = "dead" PROVE FALSE
        OBVIOUS
      <4>1. PICK h \in Handlers : req[h] = v /\ DeleteRest(h, d)
        BY <3>1, DeletionSteps
      <4>2. FinalDisks(v) = {}
        BY <4>1, RegistryParts DEF DeleteRest, HandlerInv, BeforeRename
      <4> QED
        BY <4>2
    <3> QED
      BY <3>1, <3>2 DEF DiskStep, Becomes, FinalDisks, Live
  <2> QED
    BY <2>1, <2>2
<1> QED
  BY <1>1 DEF Named

(* A rename is the appearance of the volume's disk.                        *)
LEMMA RenameAppears ==
    ASSUME ProvisioningInv, [Next]_vars, NEW h \in Handlers, RenameDisk(h)
    PROVE  \/ Registry!Appear(req[h], disk[h]) /\ req[h] \in Volumes /\ disk[h] \in VDIs
           \/ UNCHANGED <<Named, coVars>>
<1> USE RegistryParts DEF HandlerTypeOK, DisksTypeOK
<1>1. pc[h] = "rename" /\ UNCHANGED coVars /\ req[h] \in Volumes /\ disk[h] \in VDIs
  BY DEF RenameDisk, GoTo, Return, WithDisk
<1>2. CASE disk[h] \in Live
  <2>1. /\ FinalDisks(req[h]) = {} /\ co[req[h]] = "wanted"
        /\ vdi[disk[h]].vol = req[h] /\ vdi[disk[h]].st = "live"
    BY <1>1, <1>2, RenamerOwns DEF Live
  <2>2. /\ vdi' = [vdi EXCEPT ![disk[h]] = [@ EXCEPT !.name = "final", !.desc = "none"]]
        /\ UNCHANGED <<req, disk>>
    BY <1>2 DEF RenameDisk, RenameVDI
  <2>3. /\ vdi'[disk[h]].st = "live" /\ vdi'[disk[h]].vol = req[h]
        /\ vdi'[disk[h]].name = "final"
    BY <1>1, <2>1, <2>2 DEF VDIRecord
  <2>4. \A e \in VDIs : e # disk[h] => vdi'[e] = vdi[e]
    BY <1>1, <2>2
  <2>5. FinalDisks(req[h])' = {disk[h]}
    BY <1>1, <2>1, <2>2, <2>3, <2>4 DEF FinalDisks, Live
  <2>6. \A w \in Volumes : w # req[h] => FinalDisks(w)' = FinalDisks(w)
    BY <1>1, <2>1, <2>3, <2>4 DEF FinalDisks, Live
  <2>7. \A w \in Volumes : disk[h] \notin FinalDisks(w)
    BY <1>1, <2>1 DEF FinalDisks
  <2>8. Named' = [Named EXCEPT ![req[h]] = {disk[h]}]
    BY <1>1, <2>2, <2>5, <2>6 DEF Named
  <2> QED
    BY <1>1, <2>1, <2>7, <2>8 DEF Registry!Appear, Named, coVars
<1>3. CASE disk[h] \notin Live
  <2>1. UNCHANGED vdi
    BY <1>3 DEF RenameDisk
  <2> QED
    BY <1>1, <2>1 DEF Named, FinalDisks, Live
<1> QED
  BY <1>2, <1>3

(* The deletion of DeleteVolume leaves no disk under the volume's name.    *)
LEMMA DeleteRemoves ==
    ASSUME ProvisioningInv, [Next]_vars, NEW h \in Handlers, DeleteDisk(h)
    PROVE  Registry!Remove(req[h]) /\ req[h] \in Volumes
<1> USE RegistryParts DEF HandlerTypeOK, DisksTypeOK
<1>1. /\ pc[h] = "delete" /\ UNCHANGED <<coVars, req, disk>>
      /\ req[h] \in Volumes /\ disk[h] \in VDIs
  BY DEF DeleteDisk, GoTo, WithDisk
<1>2. /\ co[req[h]] = "deleting" /\ FinalDisks(req[h]) \subseteq {disk[h]}
      /\ disk[h] \in Live => vdi[disk[h]].vol = req[h]
  BY <1>1 DEF HandlerInv, Deleting, WithDisk, WorksOn, Live
<1>3. vdi'[disk[h]].st # "live" /\ \A e \in VDIs : e # disk[h] => vdi'[e] = vdi[e]
  BY <1>1 DEF DeleteDisk, DeleteVDI, NoDisk, Live
<1>4. FinalDisks(req[h])' = {}
  BY <1>1, <1>2, <1>3 DEF FinalDisks, Live
<1>5. \A w \in Volumes : w # req[h] => FinalDisks(w)' = FinalDisks(w)
  BY <1>1, <1>2, <1>3 DEF FinalDisks, Live
<1>6. Named' = [Named EXCEPT ![req[h]] = {}]
  BY <1>1, <1>4, <1>5 DEF Named
<1> QED
  BY <1>1, <1>2, <1>6 DEF Registry!Remove, Named, coVars

(* A success is reported with the disk there is.                           *)
LEMMA CreatedBinds ==
    ASSUME ProvisioningInv, KeptInv, NEW h \in Handlers, VolumeCreated(h)
    PROVE  Registry!Bind(req[h], disk[h]) /\ req[h] \in Volumes /\ disk[h] \in VDIs
<1> USE RegistryParts DEF HandlerTypeOK, DisksTypeOK
<1>1. pc[h] = "created" /\ UNCHANGED vdi /\ req[h] \in Volumes /\ disk[h] \in VDIs
  BY DEF VolumeCreated, WithDisk, diskVars
<1>2. co[req[h]] = "wanted" /\ FinalDisks(req[h]) \subseteq {disk[h]}
  BY <1>1 DEF HandlerInv, Creating, Renamed
<1>3. disk[h] \in FinalDisks(req[h])
  BY <1>1 DEF HandlerInv, WorksOn, KeptInv, Keeping, WithDisk, Renamed, FinalDisks, Live
<1>4. FinalDisks(req[h]) = {disk[h]}
  BY <1>2, <1>3
<1>5. UNCHANGED Named
  BY <1>1 DEF Named, FinalDisks, Live
<1> QED
  BY <1>1, <1>2, <1>4, <1>5 DEF VolumeCreated, Registry!Bind, Named

LEMMA DeletedForgets ==
    ASSUME ProvisioningInv, NEW h \in Handlers, VolumeDeleted(h)
    PROVE  Registry!Forget(req[h]) /\ req[h] \in Volumes
<1> USE RegistryParts DEF HandlerTypeOK
<1>1. pc[h] = "deleted" /\ UNCHANGED vdi /\ req[h] \in Volumes
  BY DEF VolumeDeleted, diskVars
<1>2. co[req[h]] = "deleting" /\ FinalDisks(req[h]) = {}
  BY <1>1 DEF HandlerInv, Deleting
<1>3. UNCHANGED Named
  BY <1>1 DEF Named, FinalDisks, Live
<1> QED
  BY <1>1, <1>2, <1>3 DEF VolumeDeleted, Registry!Forget, Named

LEMMA RegistryStep ==
    ASSUME ProvisioningInv, KeptInv, ~CleanupEnabled, [Next]_vars
    PROVE  Registry!Next \/ UNCHANGED Registry!vars
<1>1. ASSUME NEW h \in Handlers, RenameDisk(h) PROVE Registry!Next \/ UNCHANGED Registry!vars
  BY <1>1, RenameAppears DEF Registry!Next, Registry!vars, Named, coVars
<1>2. ASSUME NEW h \in Handlers, DeleteDisk(h) PROVE Registry!Next
  BY <1>2, DeleteRemoves DEF Registry!Next
<1>3. ASSUME NEW h \in Handlers, VolumeCreated(h) PROVE Registry!Next
  BY <1>3, CreatedBinds DEF Registry!Next
<1>4. ASSUME NEW h \in Handlers, VolumeDeleted(h) PROVE Registry!Next
  BY <1>4, DeletedForgets DEF Registry!Next
<1>5. ASSUME NEW v \in Volumes, ReleaseVolume(v) PROVE Registry!Next
  <2>1. UNCHANGED Named
    BY <1>5 DEF ReleaseVolume, diskVars, Named, FinalDisks, Live
  <2>2. Registry!Release(v)
    BY <1>5, <2>1 DEF ReleaseVolume, Registry!Release, Named
  <2> QED
    BY <2>2 DEF Registry!Next
<1>6. ASSUME UNCHANGED coVars, \A h \in Handlers : ~RenameDisk(h) /\ ~DeleteDisk(h)
      PROVE  UNCHANGED Registry!vars
  BY <1>6, NamedSteps DEF Registry!vars, Named, coVars
<1> QED
  BY <1>1, <1>2, <1>3, <1>4, <1>5, <1>6, ViewSteps

(* With one call at a time per volume and no --temp-cleanup, CreateVolume  *)
(* and DeleteVolume, however they fail, are repeated or restarted, keep    *)
(* what VolumeRegistry promises.                                           *)
THEOREM ProvisioningKeepsRegistry == SerialCO /\ ~CleanupEnabled => (Spec => KeepsRegistry)
<1>1. Init => KeptInv
  BY DEF Init, CleanupInit, KeptInv, Keeping, WithDisk
<1>2. ASSUME SerialCO, ~CleanupEnabled PROVE Spec => KeepsRegistry
  <2>1. ProvisioningInv /\ ProvisioningInv' /\ KeptInv /\ [Next]_vars => KeptInv'
    BY <1>2, KeptStep
  <2>2. ProvisioningInv /\ KeptInv /\ [Next]_vars => [Registry!Next]_(Registry!vars)
    BY <1>2, RegistryStep
  <2> QED
    BY <1>1, <1>2, <2>1, <2>2, RegistryInit, ProvisioningCorrect, PTL
    DEF Spec, KeepsRegistry, Registry!Spec
<1> QED
  BY <1>2

----------------------------------------------------------------------------
(* What the promise is worth: a bound volume has the disk it was reported  *)
(* with and no other, volumes do not share a disk, none is left of a       *)
(* deleted one.                                                            *)
OneDiskEach ==
    /\ co \in [Volumes -> {"wanted", "bound", "deleting", "gone"}]
    /\ volID \in [Volumes -> VDIs \cup {NoVDI}]
    /\ \A v \in Volumes : co[v] = "bound" => volID[v] \in VDIs /\ Named[v] = {volID[v]}
    /\ \A v \in Volumes : co[v] = "gone" => Named[v] = {}
    /\ \A v, w \in Volumes : v # w => Named[v] \cap Named[w] = {}

LEMMA OneDiskCaller ==
    ASSUME OneDiskEach, NEW v \in Volumes,
           Registry!Release(v) \/ Registry!Forget(v) \/ \E d \in VDIs : Registry!Bind(v, d)
    PROVE  OneDiskEach'
<1>1. Named' = Named
  BY DEF Registry!Release, Registry!Forget, Registry!Bind, Named
<1>2. CASE Registry!Release(v)
  BY <1>1, <1>2 DEF OneDiskEach, Registry!Release
<1>3. CASE Registry!Forget(v)
  BY <1>1, <1>3 DEF OneDiskEach, Registry!Forget, Named
<1>4. ASSUME NEW d \in VDIs, Registry!Bind(v, d) PROVE OneDiskEach'
  BY <1>1, <1>4 DEF OneDiskEach, Registry!Bind, Named
<1> QED
  BY <1>2, <1>3, <1>4

LEMMA OneDiskMoves ==
    ASSUME OneDiskEach, NEW v \in Volumes,
           Registry!Remove(v) \/ \E d \in VDIs : Registry!Appear(v, d)
    PROVE  OneDiskEach'
<1>1. UNCHANGED <<co, volID>> /\ co[v] \notin {"bound", "gone"}
  BY DEF Registry!Remove, Registry!Appear
<1>2. \A w \in Volumes \ {v} : Named'[w] = Named[w]
  BY DEF Registry!Remove, Registry!Appear, Named
<1>3. \/ Named'[v] = {}
      \/ \E d \in VDIs : Named'[v] = {d} /\ \A w \in Volumes : d \notin Named[w]
  BY DEF Registry!Remove, Registry!Appear, Named
<1>4. \A w \in Volumes : co[w] \in {"bound", "gone"} => Named'[w] = Named[w]
  BY <1>1, <1>2
<1>5. \A w \in Volumes \ {v} : Named'[v] \cap Named'[w] = {}
  BY <1>2, <1>3
<1>6. \A u, w \in Volumes : u # w => Named'[u] \cap Named'[w] = {}
  BY <1>2, <1>5 DEF OneDiskEach
<1> QED
  BY <1>1, <1>4, <1>6 DEF OneDiskEach

(* VolumeRegistry alone, whatever implements it, keeps every volume and    *)
(* its disk together from CreateVolume's answer to DeleteVolume's call.    *)
THEOREM TheRegistryKeepsVolumes == KeepsRegistry => []OneDiskEach
<1>1. Registry!Init => OneDiskEach
  BY DEF Registry!Init, OneDiskEach, Named
<1>2. OneDiskEach /\ Registry!Next => OneDiskEach'
  BY OneDiskCaller, OneDiskMoves DEF Registry!Next
<1>3. OneDiskEach /\ UNCHANGED Registry!vars => OneDiskEach'
  BY DEF OneDiskEach, Registry!vars, Named
<1> QED
  BY <1>1, <1>2, <1>3, PTL DEF KeepsRegistry, Registry!Spec

============================================================================

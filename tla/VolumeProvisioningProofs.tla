---------------------- MODULE VolumeProvisioningProofs ----------------------
(***************************************************************************)
(* Theorems about VolumeProvisioning, for any volumes, disks, handlers and *)
(* number of faults.                                                       *)
(***************************************************************************)
EXTENDS VolumeProvisioning, TLAPS

----------------------------------------------------------------------------
(* Type correctness.                                                       *)

LEMMA TypeInit == Init => TypeOK
BY MaxFaultsAssumption
   DEF Init, TypeOK, DisksInit, LockInit, CleanupInit, DisksTypeOK, LockTypeOK,
       CleanupTypeOK, VDIRecord, NoDisk, Metadata, NoListing, PCs, InSection,
       WithDisk

(* The records the disk operations write are disks.                        *)
LEMMA VDIRecords ==
    ASSUME DisksTypeOK
    PROVE  /\ \A st \in {"unborn", "pending", "live", "dead"} : NoDisk(st) \in VDIRecord
           /\ NoListing \in [VDIs -> VDIRecord]
           /\ \A d \in VDIs, v \in Volumes : CreateVDI(d, v) => vdi' \in [VDIs -> VDIRecord]
           /\ \A d \in VDIs : TaskEnds(d) => vdi' \in [VDIs -> VDIRecord]
           /\ \A d \in VDIs : RenameVDI(d) => vdi' \in [VDIs -> VDIRecord]
           /\ \A d \in VDIs, m \in Metadata : DescribeVDI(d, m) => vdi' \in [VDIs -> VDIRecord]
           /\ \A d \in VDIs : DeleteVDI(d) => vdi' \in [VDIs -> VDIRecord]
           /\ CallFails => faults' \in 0..MaxFaults
<1>1. \A st \in {"unborn", "pending", "live", "dead"} : NoDisk(st) \in VDIRecord
  BY DEF NoDisk, VDIRecord, Metadata
<1>2. NoListing \in [VDIs -> VDIRecord]
  BY <1>1 DEF NoListing
<1>3. \A d \in VDIs, v \in Volumes : CreateVDI(d, v) => vdi' \in [VDIs -> VDIRecord]
  BY DEF DisksTypeOK, CreateVDI, VDIRecord, Metadata
<1>4. \A d \in VDIs : TaskEnds(d) => vdi' \in [VDIs -> VDIRecord]
  BY DEF DisksTypeOK, TaskEnds, VDIRecord, Metadata
<1>5. ASSUME NEW d \in VDIs, RenameVDI(d) PROVE vdi' \in [VDIs -> VDIRecord]
  <2>1. [vdi[d] EXCEPT !.name = "final", !.desc = "none"] \in VDIRecord
    BY DEF DisksTypeOK, VDIRecord, Metadata
  <2> QED
    BY <1>5, <2>1 DEF DisksTypeOK, RenameVDI
<1>6. \A d \in VDIs, m \in Metadata : DescribeVDI(d, m) => vdi' \in [VDIs -> VDIRecord]
  BY DEF DisksTypeOK, DescribeVDI, VDIRecord, Metadata
<1>7. \A d \in VDIs : DeleteVDI(d) => vdi' \in [VDIs -> VDIRecord]
  BY <1>1 DEF DisksTypeOK, DeleteVDI
<1>8. CallFails => faults' \in 0..MaxFaults
  BY MaxFaultsAssumption DEF DisksTypeOK, CallFails
<1> QED
  BY <1>1, <1>2, <1>3, <1>4, <1>5, <1>6, <1>7, <1>8

(* What the type invariant needs of the parts that an action leaves alone. *)
LEMMA TypeFrame ==
    /\ TypeOK /\ UNCHANGED vars => TypeOK'
    /\ CleanupTypeOK /\ UNCHANGED cleanupVars => CleanupTypeOK'
    /\ LockTypeOK /\ UNCHANGED lockVars => LockTypeOK'
    /\ DisksTypeOK /\ UNCHANGED diskVars => DisksTypeOK'
    /\ \A h \in Handlers : LockTypeOK /\ CreationUnlock(h) => LockTypeOK'
<1>1. CleanupTypeOK /\ UNCHANGED cleanupVars => CleanupTypeOK'
  BY DEF CleanupTypeOK, cleanupVars
<1>2. LockTypeOK /\ UNCHANGED lockVars => LockTypeOK'
  BY DEF LockTypeOK, lockVars
<1>3. DisksTypeOK /\ UNCHANGED diskVars => DisksTypeOK'
  BY DEF DisksTypeOK, diskVars
<1>4. TypeOK /\ UNCHANGED vars => TypeOK'
  BY <1>1, <1>2, <1>3 DEF TypeOK, vars, handlerVars, coVars
<1>5. \A h \in Handlers : LockTypeOK /\ CreationUnlock(h) => LockTypeOK'
  BY DEF LockTypeOK, CreationUnlock
<1> QED
  BY <1>1, <1>2, <1>3, <1>4, <1>5

(* The types of a handler's state and of the provisioner's.                *)
HandlerTypeOK ==
    /\ pc \in [Handlers -> PCs]
    /\ req \in [Handlers -> Volumes \cup {NoVolume}]
    /\ disk \in [Handlers -> VDIs \cup {NoVDI}]
    /\ extra \in [Handlers -> SUBSET VDIs]
    /\ \A h \in Handlers : pc[h] # "idle" => req[h] \in Volumes
    /\ \A h \in Handlers : pc[h] \in WithDisk => disk[h] \in VDIs

COTypeOK ==
    /\ co \in [Volumes -> {"wanted", "bound", "deleting", "gone"}]
    /\ volID \in [Volumes -> VDIs \cup {NoVDI}]
    /\ \A v \in Volumes : co[v] \in {"bound", "deleting"} => volID[v] \in VDIs

LEMMA TypeParts ==
    /\ TypeOK => /\ DisksTypeOK /\ LockTypeOK /\ CleanupTypeOK
                 /\ HandlerTypeOK /\ COTypeOK
    /\ DisksTypeOK' /\ LockTypeOK' /\ CleanupTypeOK' /\ HandlerTypeOK' /\ COTypeOK'
          => TypeOK'
BY DEF TypeOK, HandlerTypeOK, COTypeOK

(* A handler's step keeps the types of the handlers' own state.            *)
LEMMA HandlerTypeStep ==
    ASSUME TypeOK, NEW h \in Handlers, HandlerStep(h)
    PROVE  HandlerTypeOK'
<1> USE TypeParts DEF HandlerTypeOK, PCs, InSection, WithDisk, GoTo
<1>0. Return(h) => HandlerTypeOK'
  BY DEF Return
<1>1. CASE FindFinal(h)
  BY <1>0, <1>1 DEF FindFinal, Live, FinalDisks
<1>2. CASE LockCreation(h)
  BY <1>0, <1>2 DEF LockCreation
<1>3. CASE FindTemp(h)
  BY <1>0, <1>3 DEF FindTemp, Live, TempDisks
<1>4. CASE ListTemp(h)
  BY <1>0, <1>4 DEF ListTemp, Live, TempDisks
<1>5. CASE RestDeleted(h)
  BY <1>0, <1>5 DEF RestDeleted
<1>6. CASE NoRoom(h)
  BY <1>0, <1>6 DEF NoRoom
<1>7. CASE DiskCreated(h)
  BY <1>0, <1>7 DEF DiskCreated
<1>8. CASE RenameDisk(h)
  BY <1>0, <1>8 DEF RenameDisk, Live
<1>9. CASE RefetchDisk(h)
  BY <1>0, <1>9 DEF RefetchDisk, Live
<1>10. CASE StoreInfo(h)
  BY <1>0, <1>10 DEF StoreInfo, Live
<1>11. CASE VolumeCreated(h)
  BY <1>0, <1>11 DEF VolumeCreated
<1>12. CASE FindDeleted(h)
  BY <1>0, <1>12 DEF FindDeleted, Live, DisksOfID, FinalDisks
<1>13. CASE DeleteDisk(h)
  BY <1>0, <1>13 DEF DeleteDisk
<1>14. CASE VolumeDeleted(h)
  BY <1>0, <1>14 DEF VolumeDeleted
<1>15. ASSUME NEW d \in VDIs, DeleteRest(h, d) PROVE HandlerTypeOK'
  BY <1>15 DEF DeleteRest, Handled
<1>16. ASSUME NEW d \in VDIs, CreateDisk(h, d) PROVE HandlerTypeOK'
  BY <1>16 DEF CreateDisk
<1> QED
  BY <1>1, <1>2, <1>3, <1>4, <1>5, <1>6, <1>7, <1>8, <1>9, <1>10, <1>11, <1>12, <1>13, <1>14, <1>15, <1>16 DEF HandlerStep

(* A handler's step keeps the types of what it shares.                     *)
LEMMA SystemTypeStep ==
    ASSUME TypeOK, NEW h \in Handlers, HandlerStep(h)
    PROVE  DisksTypeOK' /\ LockTypeOK' /\ CleanupTypeOK' /\ COTypeOK'
<1> USE TypeParts, TypeFrame, VDIRecords
    DEF coVars, COTypeOK
<1>1. CASE FindFinal(h)
  BY <1>1 DEF FindFinal, Return, DisksTypeOK, HandlerTypeOK, diskVars, GoTo, WithDisk, Live, Metadata, LockTypeOK, CreationLock, CreationUnlock, lockVars
<1>2. CASE LockCreation(h)
  BY <1>2 DEF LockCreation, Return, DisksTypeOK, HandlerTypeOK, diskVars, GoTo, WithDisk, Live, Metadata, LockTypeOK, CreationLock, CreationUnlock, lockVars
<1>3. CASE FindTemp(h)
  BY <1>3 DEF FindTemp, Return, DisksTypeOK, HandlerTypeOK, diskVars, GoTo, WithDisk, Live, Metadata, LockTypeOK, CreationLock, CreationUnlock, lockVars
<1>4. CASE ListTemp(h)
  BY <1>4 DEF ListTemp, Return, DisksTypeOK, HandlerTypeOK, diskVars, GoTo, WithDisk, Live, Metadata, LockTypeOK, CreationLock, CreationUnlock, lockVars
<1>5. CASE RestDeleted(h)
  BY <1>5 DEF RestDeleted, Return, DisksTypeOK, HandlerTypeOK, diskVars, GoTo, WithDisk, Live, Metadata, LockTypeOK, CreationLock, CreationUnlock, lockVars
<1>6. CASE NoRoom(h)
  BY <1>6 DEF NoRoom, Return, DisksTypeOK, HandlerTypeOK, diskVars, GoTo, WithDisk, Live, Metadata, LockTypeOK, CreationLock, CreationUnlock, lockVars
<1>7. CASE DiskCreated(h)
  BY <1>7 DEF DiskCreated, Return, DisksTypeOK, HandlerTypeOK, diskVars, GoTo, WithDisk, Live, Metadata, LockTypeOK, CreationLock, CreationUnlock, lockVars
<1>8. CASE RenameDisk(h)
  BY <1>8 DEF RenameDisk, Return, DisksTypeOK, HandlerTypeOK, diskVars, GoTo, WithDisk, Live, Metadata, LockTypeOK, CreationLock, CreationUnlock, lockVars
<1>9. CASE RefetchDisk(h)
  BY <1>9 DEF RefetchDisk, Return, DisksTypeOK, HandlerTypeOK, diskVars, GoTo, WithDisk, Live, Metadata, LockTypeOK, CreationLock, CreationUnlock, lockVars
<1>10. CASE StoreInfo(h)
  BY <1>10 DEF StoreInfo, Return, DisksTypeOK, HandlerTypeOK, diskVars, GoTo, WithDisk, Live, Metadata, LockTypeOK, CreationLock, CreationUnlock, lockVars
<1>11. CASE VolumeCreated(h)
  BY <1>11 DEF VolumeCreated, Return, DisksTypeOK, HandlerTypeOK, diskVars, GoTo, WithDisk, Live, Metadata, LockTypeOK, CreationLock, CreationUnlock, lockVars
<1>12. CASE FindDeleted(h)
  BY <1>12 DEF FindDeleted, Return, DisksTypeOK, HandlerTypeOK, diskVars, GoTo, WithDisk, Live, Metadata, LockTypeOK, CreationLock, CreationUnlock, lockVars
<1>13. CASE DeleteDisk(h)
  BY <1>13 DEF DeleteDisk, Return, DisksTypeOK, HandlerTypeOK, diskVars, GoTo, WithDisk, Live, Metadata, LockTypeOK, CreationLock, CreationUnlock, lockVars
<1>14. CASE VolumeDeleted(h)
  BY <1>14 DEF VolumeDeleted, Return, DisksTypeOK, HandlerTypeOK, diskVars, GoTo, WithDisk, Live, Metadata, LockTypeOK, CreationLock, CreationUnlock, lockVars
<1>15. ASSUME NEW d \in VDIs, DeleteRest(h, d) PROVE DisksTypeOK' /\ LockTypeOK' /\ CleanupTypeOK' /\ COTypeOK'
  BY <1>15 DEF DeleteRest, Return, DisksTypeOK, HandlerTypeOK, diskVars, GoTo, WithDisk, Live, Metadata, LockTypeOK, CreationLock, CreationUnlock, lockVars
<1>16. ASSUME NEW d \in VDIs, CreateDisk(h, d) PROVE DisksTypeOK' /\ LockTypeOK' /\ CleanupTypeOK' /\ COTypeOK'
  BY <1>16 DEF CreateDisk, Return, DisksTypeOK, HandlerTypeOK, diskVars, GoTo, WithDisk, Live, Metadata, LockTypeOK, CreationLock, CreationUnlock, lockVars
<1> QED
  BY <1>1, <1>2, <1>3, <1>4, <1>5, <1>6, <1>7, <1>8, <1>9, <1>10, <1>11, <1>12, <1>13, <1>14, <1>15, <1>16 DEF HandlerStep

(* A step of the cleanup, and of time, keeps the types.                    *)
LEMMA CleanupTypeStep ==
    ASSUME TypeOK, CleanupStep \/ CleanupFault \/ TimePasses
    PROVE  DisksTypeOK' /\ LockTypeOK' /\ CleanupTypeOK'
<1> USE TypeParts, VDIRecords
    DEF DisksTypeOK, LockTypeOK, CleanupTypeOK, diskVars, lockVars, Done, Listed,
        Live, Metadata
<1>1. CASE List
  BY <1>1 DEF List
<1>2. CASE EndPass
  BY <1>2 DEF EndPass, SeenNow
<1>3. CASE Locked
  BY <1>3 DEF Locked, DeletionLock
<1>4. CASE Refetch
  BY <1>4 DEF Refetch, MarkReturn, DeletionUnlock
<1>5. CASE Mark
  BY <1>5 DEF Mark, MarkReturn, DeletionUnlock
<1>6. CASE MarkFails
  BY <1>6 DEF MarkFails, MarkReturn, DeletionUnlock
<1>7. ASSUME NEW d \in VDIs, Skip(d) PROVE DisksTypeOK' /\ LockTypeOK' /\ CleanupTypeOK'
  BY <1>7 DEF Skip
<1>8. ASSUME NEW d \in VDIs, Observe(d) PROVE DisksTypeOK' /\ LockTypeOK' /\ CleanupTypeOK'
  BY <1>8 DEF Observe
<1>9. ASSUME NEW d \in VDIs, DeleteCandidate(d) PROVE DisksTypeOK' /\ LockTypeOK' /\ CleanupTypeOK'
  BY <1>9 DEF DeleteCandidate
<1>10. ASSUME NEW d \in VDIs, WantMark(d) PROVE DisksTypeOK' /\ LockTypeOK' /\ CleanupTypeOK'
  BY <1>10 DEF WantMark, DeletionLockCall
<1>11. ASSUME NEW d \in VDIs, DeleteCandidateFails(d) PROVE DisksTypeOK' /\ LockTypeOK' /\ CleanupTypeOK'
  BY <1>11 DEF DeleteCandidateFails
<1>12. ASSUME NEW d \in VDIs, TenMinutes(d) PROVE DisksTypeOK' /\ LockTypeOK' /\ CleanupTypeOK'
  BY <1>12 DEF TenMinutes
<1>13. ASSUME NEW d \in VDIs, ThirtyMinutes(d) PROVE DisksTypeOK' /\ LockTypeOK' /\ CleanupTypeOK'
  BY <1>13 DEF ThirtyMinutes
<1> QED
  BY <1>1, <1>2, <1>3, <1>4, <1>5, <1>6, <1>7, <1>8, <1>9, <1>10, <1>11, <1>12, <1>13 DEF CleanupStep, CleanupFault, TimePasses

(* A call that fails, a task that fails and a crash keep the types.        *)
LEMMA FaultTypeStep ==
    ASSUME TypeOK, Fault
    PROVE  TypeOK'
<1> USE TypeParts, TypeFrame, VDIRecords
<1>0. ASSUME NEW h \in Handlers, Return(h) PROVE HandlerTypeOK' /\ LockTypeOK'
  BY <1>0 DEF Return, HandlerTypeOK, PCs, InSection, WithDisk
<1>1. CASE Restart
  BY <1>1 DEF Restart, CleanupRestarts, HandlerTypeOK, PCs, InSection, WithDisk, COTypeOK, coVars,
      LockTypeOK, DisksTypeOK, CleanupTypeOK
<1>2. CASE CleanupFails
  BY <1>2, CleanupTypeStep
  DEF CleanupFails, HandlerTypeOK, COTypeOK, coVars, handlerVars
<1>3. ASSUME NEW d \in VDIs, TaskFails(d) PROVE TypeOK'
  <2>1. DisksTypeOK' /\ CleanupTypeOK' /\ COTypeOK'
    BY <1>3 DEF TaskFails, DisksTypeOK, COTypeOK, coVars
  <2>2. HandlerTypeOK' /\ LockTypeOK'
    BY <1>3, <1>0 DEF TaskFails, HandlerTypeOK, handlerVars
  <2> QED
    BY <2>1, <2>2
<1>4. ASSUME NEW h \in Handlers, HandlerFails(h) PROVE TypeOK'
  BY <1>4, <1>0 DEF HandlerFails, DisksTypeOK, COTypeOK, coVars
<1>5. ASSUME NEW h \in Handlers, NEW d \in VDIs, DeleteRestFails(h, d) PROVE TypeOK'
  BY <1>5 DEF DeleteRestFails, Handled, DisksTypeOK, HandlerTypeOK, COTypeOK, coVars
<1>6. ASSUME NEW h \in Handlers, NEW d \in VDIs, CreateAgain(h, d) PROVE TypeOK'
  <2>1. req[h] \in Volumes
    BY <1>6 DEF CreateAgain, HandlerTypeOK
  <2>2. DisksTypeOK' /\ CleanupTypeOK' /\ COTypeOK'
    BY <1>6, <2>1 DEF CreateAgain, DisksTypeOK, COTypeOK, coVars
  <2>3. HandlerTypeOK' /\ LockTypeOK'
    BY <1>6 DEF CreateAgain, HandlerTypeOK
  <2> QED
    BY <2>2, <2>3
<1> QED
  BY <1>1, <1>2, <1>3, <1>4, <1>5, <1>6 DEF Fault

LEMMA CallTypeStep ==
    ASSUME TypeOK, NEW h \in Handlers, NEW v \in Volumes, Call(h, v)
    PROVE  TypeOK'
<1> USE TypeParts, TypeFrame
<1>1. HandlerTypeOK'
  BY DEF Call, CreateVolume, DeleteVolume, Accept, GoTo, HandlerTypeOK, PCs, InSection, WithDisk
<1>2. DisksTypeOK' /\ LockTypeOK' /\ CleanupTypeOK' /\ COTypeOK'
  BY DEF Call, CreateVolume, DeleteVolume, Accept, COTypeOK, coVars
<1> QED
  BY <1>1, <1>2

LEMMA TypeStep ==
    ASSUME TypeOK, [Next]_vars
    PROVE  TypeOK'
<1> USE TypeParts, TypeFrame, VDIRecords
<1>1. ASSUME NEW h \in Handlers, NEW v \in Volumes, Call(h, v) PROVE TypeOK'
  BY <1>1, CallTypeStep
<1>2. ASSUME NEW h \in Handlers, HandlerStep(h) PROVE TypeOK'
  BY <1>2, HandlerTypeStep, SystemTypeStep
<1>3. ASSUME NEW v \in Volumes, ReleaseVolume(v) PROVE TypeOK'
  BY <1>3 DEF ReleaseVolume, COTypeOK, HandlerTypeOK, handlerVars
<1>4. ASSUME NEW d \in VDIs, XOTaskEnds(d) PROVE TypeOK'
  BY <1>4 DEF XOTaskEnds, COTypeOK, coVars, HandlerTypeOK, handlerVars, DisksTypeOK
<1>5. CASE Cleanup
  BY <1>5, CleanupTypeStep DEF Cleanup, COTypeOK, coVars, HandlerTypeOK, handlerVars
<1>6. CASE Time
  BY <1>6, CleanupTypeStep DEF Time, COTypeOK, coVars, HandlerTypeOK, handlerVars
<1>7. CASE Fault
  BY <1>7, FaultTypeStep
<1>8. CASE UNCHANGED vars
  BY <1>8
<1> QED
  BY <1>1, <1>2, <1>3, <1>4, <1>5, <1>6, <1>7, <1>8 DEF Next

(* Every reachable state is of the right type; in particular a handler     *)
(* works on a disk wherever the code uses vdi.UUID, and the provisioner    *)
(* has an ID for every volume it was told of.                              *)
THEOREM TypeCorrect == Spec => []TypeOK
BY TypeInit, TypeStep, PTL DEF Spec

----------------------------------------------------------------------------
(* What a step may do to the disks.                                        *)
DeletedBy(d) ==
    \/ DeleteCandidate(d)
    \/ \E h \in Handlers : DeleteRest(h, d) \/ (DeleteDisk(h) /\ disk[h] = d)

DiskEffect ==
    \/ UNCHANGED vdi
    \/ \E d \in VDIs, h \in Handlers :
          req[h] \in Volumes /\ CreateVDI(d, req[h]) /\ disk'[h] = d
    \/ \E d \in VDIs : TaskEnds(d) \/ TaskFails(d) \/ (DeleteVDI(d) /\ DeletedBy(d))
    \/ \E h \in Handlers : RenameDisk(h) /\ RenameVDI(disk[h])
    \/ \E h \in Handlers : StoreInfo(h) /\ DescribeVDI(disk[h], "info")
    \/ Mark /\ DescribeVDI(cur, "candidate")

LEMMA DiskEffects ==
    ASSUME TypeOK, [Next]_vars
    PROVE  DiskEffect
<1> USE TypeParts DEF diskVars, HandlerTypeOK, WithDisk, GoTo, Live
<1>1. ASSUME NEW h \in Handlers, NEW v \in Volumes, Call(h, v) PROVE DiskEffect
  BY <1>1 DEF Call, CreateVolume, DeleteVolume, Accept, DiskEffect
<1>2. ASSUME NEW h \in Handlers, HandlerStep(h) PROVE DiskEffect
  <2>1. CASE RenameDisk(h)
    BY <2>1 DEF RenameDisk, DiskEffect
  <2>2. CASE StoreInfo(h)
    BY <2>2 DEF StoreInfo, DiskEffect
  <2>3. CASE DeleteDisk(h)
    BY <2>3 DEF DeleteDisk, DiskEffect, DeletedBy
  <2>4. ASSUME NEW d \in VDIs, DeleteRest(h, d) PROVE DiskEffect
    BY <2>4 DEF DeleteRest, DiskEffect, DeletedBy
  <2>5. ASSUME NEW d \in VDIs, CreateDisk(h, d) PROVE DiskEffect
    <3>1. req[h] \in Volumes /\ CreateVDI(d, req[h]) /\ disk'[h] = d
      BY <2>5 DEF CreateDisk
    <3> QED
      BY <3>1 DEF DiskEffect
  <2>6. CASE ~(RenameDisk(h) \/ StoreInfo(h) \/ DeleteDisk(h)
               \/ \E d \in VDIs : DeleteRest(h, d) \/ CreateDisk(h, d))
    BY <1>2, <2>6
    DEF HandlerStep, FindFinal, LockCreation, FindTemp, ListTemp, RestDeleted,
        NoRoom, DiskCreated, RefetchDisk, VolumeCreated, FindDeleted,
        VolumeDeleted, DiskEffect
  <2> QED
    BY <2>1, <2>2, <2>3, <2>4, <2>5, <2>6
<1>3. ASSUME NEW v \in Volumes, ReleaseVolume(v) PROVE DiskEffect
  BY <1>3 DEF ReleaseVolume, DiskEffect
<1>4. ASSUME NEW d \in VDIs, XOTaskEnds(d) PROVE DiskEffect
  BY <1>4 DEF XOTaskEnds, DiskEffect
<1>5. CASE Cleanup
  <2>1. CASE Mark
    BY <2>1 DEF Mark, DiskEffect
  <2>2. ASSUME NEW d \in VDIs, DeleteCandidate(d) PROVE DiskEffect
    BY <2>2 DEF DeleteCandidate, DiskEffect, DeletedBy
  <2>3. CASE ~(Mark \/ \E d \in VDIs : DeleteCandidate(d))
    BY <1>5, <2>3
    DEF Cleanup, CleanupStep, List, EndPass, Locked, Refetch, Skip, Observe,
        WantMark, DiskEffect
  <2> QED
    BY <2>1, <2>2, <2>3
<1>6. CASE Time
  BY <1>6 DEF Time, TimePasses, TenMinutes, ThirtyMinutes, DiskEffect
<1>7. CASE Fault
  <2>1. ASSUME NEW d \in VDIs, TaskFails(d) PROVE DiskEffect
    BY <2>1 DEF DiskEffect
  <2>2. ASSUME NEW h \in Handlers, NEW d \in VDIs, CreateAgain(h, d) PROVE DiskEffect
    <3>1. req[h] \in Volumes /\ CreateVDI(d, req[h]) /\ disk'[h] = d
      BY <2>2 DEF CreateAgain
    <3> QED
      BY <3>1 DEF DiskEffect
  <2>3. CASE ~\E d \in VDIs : TaskFails(d) \/ \E h \in Handlers : CreateAgain(h, d)
    BY <1>7, <2>3
    DEF Fault, Restart, CleanupFails, CleanupFault, MarkFails, DeleteCandidateFails,
        HandlerFails, DeleteRestFails, DiskEffect
  <2> QED
    BY <2>1, <2>2, <2>3
<1>8. CASE UNCHANGED vars
  BY <1>8 DEF vars, DiskEffect
<1> QED
  BY <1>1, <1>2, <1>3, <1>4, <1>5, <1>6, <1>7, <1>8 DEF Next

(* The same, as seen from one disk.                                        *)
Becomes(d, st, vol, name, desc) ==
    /\ vdi'[d].st = st /\ vdi'[d].vol = vol
    /\ vdi'[d].name = name /\ vdi'[d].desc = desc

DiskStep(d) ==
    \/ vdi'[d] = vdi[d]
    \/ /\ vdi[d].st = "unborn"
       /\ \E h \in Handlers : /\ req[h] \in Volumes /\ disk'[h] = d
                             /\ Becomes(d, "pending", req[h], "temp", "none")
    \/ vdi[d].st = "pending" /\ Becomes(d, "live", vdi[d].vol, vdi[d].name, vdi[d].desc)
    \/ /\ vdi[d].st = "pending" /\ Becomes(d, "unborn", NoVolume, "temp", "none")
       /\ TaskFails(d)
    \/ vdi[d].st = "live" /\ Becomes(d, "dead", NoVolume, "temp", "none") /\ DeletedBy(d)
    \/ /\ vdi[d].st = "live" /\ Becomes(d, "live", vdi[d].vol, "final", "none")
       /\ \E h \in Handlers : RenameDisk(h) /\ disk[h] = d
    \/ /\ vdi[d].st = "live" /\ Becomes(d, "live", vdi[d].vol, vdi[d].name, "info")
       /\ \E h \in Handlers : StoreInfo(h) /\ disk[h] = d
    \/ /\ vdi[d].st = "live" /\ Becomes(d, "live", vdi[d].vol, vdi[d].name, "candidate")
       /\ Mark /\ cur = d

LEMMA DiskSteps ==
    ASSUME TypeOK, [Next]_vars, NEW d \in VDIs
    PROVE  DiskStep(d)
<1> USE TypeParts DEF DisksTypeOK, VDIRecord, DiskStep, Becomes, NoDisk
<1>1. CASE UNCHANGED vdi
  BY <1>1
<1>2. ASSUME NEW e \in VDIs, NEW h \in Handlers, req[h] \in Volumes,
             CreateVDI(e, req[h]), disk'[h] = e
      PROVE  DiskStep(d)
  BY <1>2 DEF CreateVDI
<1>3. ASSUME NEW e \in VDIs, TaskEnds(e) PROVE DiskStep(d)
  BY <1>3 DEF TaskEnds
<1>4. ASSUME NEW e \in VDIs, TaskFails(e) PROVE DiskStep(d)
  <2>1. CASE e = d
    BY <1>4, <2>1 DEF TaskFails
  <2>2. CASE e # d
    BY <1>4, <2>2 DEF TaskFails
  <2> QED
    BY <2>1, <2>2
<1>5. ASSUME NEW e \in VDIs, DeleteVDI(e), DeletedBy(e) PROVE DiskStep(d)
  BY <1>5 DEF DeleteVDI, Live
<1>6. ASSUME NEW h \in Handlers, RenameDisk(h), RenameVDI(disk[h]) PROVE DiskStep(d)
  BY <1>6 DEF RenameVDI, Live
<1>7. ASSUME NEW h \in Handlers, StoreInfo(h), DescribeVDI(disk[h], "info")
      PROVE  DiskStep(d)
  BY <1>7 DEF DescribeVDI, Live
<1>8. ASSUME Mark, DescribeVDI(cur, "candidate") PROVE DiskStep(d)
  BY <1>8 DEF DescribeVDI, Live
<1> QED
  BY <1>1, <1>2, <1>3, <1>4, <1>5, <1>6, <1>7, <1>8, DiskEffects DEF DiskEffect

----------------------------------------------------------------------------
(* The creation lock does what its users rely on: the handlers inside      *)
(* createDisk are its readers, and setDeletionCandidate looks and marks    *)
(* with no reader inside.                                                  *)
LockInv ==
    /\ \A h \in Handlers : pc[h] \in InSection <=> h \in readers
    /\ writer = "held" => readers = {}
    /\ cpc = "lock" <=> writer = "waiting"
    /\ cpc \in {"refetch", "mark"} <=> writer = "held"

LEMMA LockInvInit == Init => LockInv
BY DEF Init, LockInit, CleanupInit, LockInv, InSection

LEMMA LockInvStep ==
    ASSUME TypeOK, LockInv, [Next]_vars
    PROVE  LockInv'
<1> USE TypeParts
    DEF LockInv, InSection, LockTypeOK, CleanupTypeOK, HandlerTypeOK, lockVars,
        cleanupVars, handlerVars, GoTo
<1>0. ASSUME NEW h \in Handlers, Return(h), UNCHANGED cleanupVars PROVE LockInv'
  BY <1>0 DEF Return, CreationUnlock
<1>1. ASSUME NEW h \in Handlers, NEW v \in Volumes, Call(h, v) PROVE LockInv'
  BY <1>1 DEF Call, CreateVolume, DeleteVolume, Accept
<1>2. ASSUME NEW h \in Handlers, HandlerStep(h) PROVE LockInv'
  <2>1. CASE FindFinal(h)
    BY <2>1, <1>0 DEF FindFinal
  <2>2. CASE LockCreation(h)
    BY <2>2, <1>0 DEF LockCreation, CreationLock
  <2>3. CASE FindTemp(h)
    BY <2>3, <1>0 DEF FindTemp
  <2>4. CASE ListTemp(h)
    BY <2>4, <1>0 DEF ListTemp
  <2>5. CASE RestDeleted(h)
    BY <2>5, <1>0 DEF RestDeleted
  <2>6. CASE NoRoom(h)
    BY <2>6, <1>0 DEF NoRoom
  <2>7. CASE DiskCreated(h)
    BY <2>7, <1>0 DEF DiskCreated
  <2>8. CASE RenameDisk(h)
    BY <2>8, <1>0 DEF RenameDisk
  <2>9. CASE RefetchDisk(h)
    BY <2>9, <1>0 DEF RefetchDisk, CreationUnlock
  <2>10. CASE StoreInfo(h)
    BY <2>10, <1>0 DEF StoreInfo
  <2>11. CASE VolumeCreated(h)
    BY <2>11, <1>0 DEF VolumeCreated
  <2>12. CASE FindDeleted(h)
    BY <2>12, <1>0 DEF FindDeleted
  <2>13. CASE DeleteDisk(h)
    BY <2>13, <1>0 DEF DeleteDisk
  <2>14. CASE VolumeDeleted(h)
    BY <2>14, <1>0 DEF VolumeDeleted
  <2>15. ASSUME NEW d \in VDIs, DeleteRest(h, d) PROVE LockInv'
    BY <2>15 DEF DeleteRest
  <2>16. ASSUME NEW d \in VDIs, CreateDisk(h, d) PROVE LockInv'
    BY <2>16 DEF CreateDisk
  <2> QED
    BY <1>2, <2>1, <2>2, <2>3, <2>4, <2>5, <2>6, <2>7, <2>8, <2>9, <2>10, <2>11, <2>12, <2>13, <2>14, <2>15, <2>16 DEF HandlerStep
<1>3. ASSUME NEW v \in Volumes, ReleaseVolume(v) PROVE LockInv'
  BY <1>3 DEF ReleaseVolume
<1>4. ASSUME NEW d \in VDIs, XOTaskEnds(d) PROVE LockInv'
  BY <1>4 DEF XOTaskEnds
<1>5. ASSUME CleanupStep \/ CleanupFault \/ TimePasses, UNCHANGED handlerVars
      PROVE  LockInv'
  <2>1. CASE List
    BY <1>5, <2>1 DEF List
  <2>2. CASE EndPass
    BY <1>5, <2>2 DEF EndPass, SeenNow
  <2>3. CASE Locked
    BY <1>5, <2>3 DEF Locked, DeletionLock
  <2>4. CASE Refetch
    BY <1>5, <2>4 DEF Refetch, MarkReturn, DeletionUnlock
  <2>5. CASE Mark
    BY <1>5, <2>5 DEF Mark, MarkReturn, DeletionUnlock
  <2>6. CASE MarkFails
    BY <1>5, <2>6 DEF MarkFails, MarkReturn, DeletionUnlock
  <2>7. ASSUME NEW d \in VDIs, Skip(d) PROVE LockInv'
    BY <1>5, <2>7 DEF Skip, Listed
  <2>8. ASSUME NEW d \in VDIs, Observe(d) PROVE LockInv'
    BY <1>5, <2>8 DEF Observe, Listed
  <2>9. ASSUME NEW d \in VDIs, DeleteCandidate(d) PROVE LockInv'
    BY <1>5, <2>9 DEF DeleteCandidate, Listed
  <2>10. ASSUME NEW d \in VDIs, WantMark(d) PROVE LockInv'
    BY <1>5, <2>10 DEF WantMark, Listed, DeletionLockCall
  <2>11. ASSUME NEW d \in VDIs, DeleteCandidateFails(d) PROVE LockInv'
    BY <1>5, <2>11 DEF DeleteCandidateFails, Listed
  <2>12. ASSUME NEW d \in VDIs, TenMinutes(d) PROVE LockInv'
    BY <1>5, <2>12 DEF TenMinutes, Listed
  <2>13. ASSUME NEW d \in VDIs, ThirtyMinutes(d) PROVE LockInv'
    BY <1>5, <2>13 DEF ThirtyMinutes, Listed
  <2> QED
    BY <1>5, <2>1, <2>2, <2>3, <2>4, <2>5, <2>6, <2>7, <2>8, <2>9, <2>10, <2>11, <2>12, <2>13 DEF CleanupStep, CleanupFault, TimePasses
<1>6. CASE Fault
  <2>1. CASE Restart
    BY <2>1 DEF Restart, CleanupRestarts
  <2>2. CASE CleanupFails
    BY <2>2, <1>5 DEF CleanupFails
  <2>3. ASSUME NEW d \in VDIs, TaskFails(d) PROVE LockInv'
    BY <2>3, <1>0 DEF TaskFails
  <2>4. ASSUME NEW h \in Handlers, HandlerFails(h) PROVE LockInv'
    BY <2>4, <1>0 DEF HandlerFails
  <2>5. ASSUME NEW h \in Handlers, NEW d \in VDIs, DeleteRestFails(h, d) PROVE LockInv'
    BY <2>5 DEF DeleteRestFails
  <2>6. ASSUME NEW h \in Handlers, NEW d \in VDIs, CreateAgain(h, d) PROVE LockInv'
    BY <2>6 DEF CreateAgain
  <2> QED
    BY <1>6, <2>1, <2>2, <2>3, <2>4, <2>5, <2>6 DEF Fault
<1>7. CASE UNCHANGED vars
  BY <1>7 DEF vars
<1> QED
  BY <1>1, <1>2, <1>3, <1>4, <1>5, <1>6, <1>7 DEF Next, Cleanup, Time

----------------------------------------------------------------------------
(* NoFinalCandidate is not inductive: it needs that the disk about to be   *)
(* marked still has its temporary name, from the second look until the     *)
(* mark, because the handlers that rename are readers of the lock.         *)
MarkInv ==
    /\ cpc \in {"lock", "refetch", "mark"} => cur \in VDIs /\ listing[cur].name = "temp"
    /\ cpc = "mark" /\ cur \in Live => vdi[cur].name = "temp"
    /\ \A d \in VDIs : vdi[d].st = "pending" => vdi[d].name = "temp"

CandidateInv == TypeOK /\ LockInv /\ MarkInv /\ NoFinalCandidate

LEMMA CandidateInit == Init => CandidateInv
<1>1. Init => MarkInv
  BY DEF Init, DisksInit, CleanupInit, NoDisk, Live, MarkInv
<1>2. Init => NoFinalCandidate
  BY DEF Init, DisksInit, NoDisk, Live, NoFinalCandidate
<1> QED
  BY <1>1, <1>2, TypeInit, LockInvInit DEF CandidateInv

(* The cleanup's own variables.                                            *)
LEMMA MarkedIsListed ==
    ASSUME TypeOK, MarkInv, [Next]_vars
    PROVE  cpc' \in {"lock", "refetch", "mark"} => cur' \in VDIs /\ listing'[cur'].name = "temp"
<1> DEFINE P == cpc' \in {"lock", "refetch", "mark"} => cur' \in VDIs /\ listing'[cur'].name = "temp"
<1> USE TypeParts DEF MarkInv, CleanupTypeOK
<1>1. UNCHANGED cleanupVars => P
  BY DEF cleanupVars
<1>2. CleanupStep \/ CleanupFault \/ TimePasses => P
  <2>1. CASE List \/ EndPass \/ MarkFails
    BY <2>1 DEF List, EndPass, MarkFails, MarkReturn
  <2>2. CASE Locked \/ Refetch \/ Mark
    BY <2>2 DEF Locked, Refetch, Mark, MarkReturn
  <2>3. ASSUME NEW d \in VDIs,
               Skip(d) \/ Observe(d) \/ DeleteCandidate(d) \/ DeleteCandidateFails(d)
        PROVE  P
    BY <2>3 DEF Skip, Observe, DeleteCandidate, DeleteCandidateFails, Listed, Done
  <2>4. ASSUME NEW d \in VDIs, WantMark(d) PROVE P
    BY <2>4 DEF WantMark, Listed, Done
  <2>5. ASSUME NEW d \in VDIs, TenMinutes(d) \/ ThirtyMinutes(d) PROVE P
    BY <2>5 DEF TenMinutes, ThirtyMinutes
  <2> QED
    BY <2>1, <2>2, <2>3, <2>4, <2>5 DEF CleanupStep, CleanupFault, TimePasses
<1>3. CleanupRestarts => P
  BY DEF CleanupRestarts
<1>4. UNCHANGED cleanupVars \/ CleanupStep \/ CleanupFault \/ TimePasses \/ CleanupRestarts
  BY DEF Next, vars, Call, CreateVolume, DeleteVolume, Accept, HandlerStep, FindFinal,
         LockCreation, FindTemp, ListTemp, RestDeleted, NoRoom, DiskCreated, RenameDisk,
         RefetchDisk, StoreInfo, VolumeCreated, FindDeleted, DeleteDisk, VolumeDeleted,
         DeleteRest, CreateDisk, ReleaseVolume, XOTaskEnds, Cleanup, Time, Fault, Restart,
         CleanupFails, TaskFails, HandlerFails, DeleteRestFails, CreateAgain
<1> QED
  BY <1>1, <1>2, <1>3, <1>4

(* Between the second look and the mark no handler renames.                *)
LEMMA NoRenameWhileMarking ==
    ASSUME LockInv, NEW h \in Handlers, RenameDisk(h)
    PROVE  cpc \notin {"refetch", "mark"} /\ cpc' = cpc
BY DEF LockInv, RenameDisk, InSection, cleanupVars

(* The goroutine reaches the mark only by its second look.                 *)
LEMMA MarkingSince ==
    ASSUME TypeOK, MarkInv, [Next]_vars, cpc' = "mark"
    PROVE  \/ cpc = "mark" /\ cur' = cur
           \/ cur' = cur /\ UNCHANGED vdi /\ (cur \in Live => vdi[cur].name = "temp")
<1> DEFINE P == \/ cpc = "mark" /\ cur' = cur
                \/ cur' = cur /\ UNCHANGED vdi /\ (cur \in Live => vdi[cur].name = "temp")
<1>1. UNCHANGED cleanupVars => P
  BY DEF cleanupVars
<1>2. CleanupStep \/ CleanupFault \/ TimePasses => P
  BY DEF CleanupStep, CleanupFault, TimePasses, List, EndPass, MarkFails, MarkReturn,
         Locked, Refetch, Mark, Skip, Observe, DeleteCandidate, DeleteCandidateFails,
         WantMark, TenMinutes, ThirtyMinutes, Listed, StillTemporary, MarkInv, diskVars
<1>3. ~CleanupRestarts
  BY DEF CleanupRestarts
<1>4. UNCHANGED cleanupVars \/ CleanupStep \/ CleanupFault \/ TimePasses \/ CleanupRestarts
  BY DEF Next, vars, Call, CreateVolume, DeleteVolume, Accept, HandlerStep, FindFinal,
         LockCreation, FindTemp, ListTemp, RestDeleted, NoRoom, DiskCreated, RenameDisk,
         RefetchDisk, StoreInfo, VolumeCreated, FindDeleted, DeleteDisk, VolumeDeleted,
         DeleteRest, CreateDisk, ReleaseVolume, XOTaskEnds, Cleanup, Time, Fault, Restart,
         CleanupFails, TaskFails, HandlerFails, DeleteRestFails, CreateAgain
<1> QED
  BY <1>1, <1>2, <1>3, <1>4

LEMMA MarkInvStep ==
    ASSUME TypeOK, LockInv, MarkInv, [Next]_vars
    PROVE  MarkInv'
<1> USE TypeParts DEF DisksTypeOK, VDIRecord, Becomes, Live
<1>1. ASSUME NEW d \in VDIs, vdi'[d].st = "pending" PROVE vdi'[d].name = "temp"
  BY <1>1, DiskSteps DEF DiskStep, MarkInv
<1>2. ASSUME cpc' = "mark", cur' \in Live' PROVE vdi'[cur'].name = "temp"
  <2>1. CASE cur' = cur /\ UNCHANGED vdi /\ (cur \in Live => vdi[cur].name = "temp")
    BY <1>2, <2>1
  <2>2. CASE cpc = "mark" /\ cur' = cur
    <3>1. \A h \in Handlers : ~RenameDisk(h)
      BY <2>2, NoRenameWhileMarking
    <3> QED
      BY <1>2, <2>2, <3>1, DiskSteps DEF DiskStep, MarkInv
  <2> QED
    BY <1>2, <2>1, <2>2, MarkingSince
<1> QED
  BY <1>1, <1>2, MarkedIsListed DEF MarkInv

LEMMA CandidateStep ==
    ASSUME CandidateInv, [Next]_vars
    PROVE  CandidateInv'
<1> USE TypeParts DEF CandidateInv, DisksTypeOK, VDIRecord, Becomes, Live
<1>1. ASSUME NEW d \in Live', vdi'[d].desc = "candidate" PROVE vdi'[d].name = "temp"
  BY <1>1, DiskSteps DEF DiskStep, NoFinalCandidate, MarkInv, Mark
<1>2. NoFinalCandidate'
  BY <1>1 DEF NoFinalCandidate
<1> QED
  BY <1>2, TypeStep, LockInvStep, MarkInvStep

(* However calls overlap, fail and are repeated, and whenever the          *)
(* controller restarts: a disk under its final name is never marked as a   *)
(* deletion candidate.                                                     *)
THEOREM CandidatesAreTemporary == Spec => []NoFinalCandidate
<1>1. CandidateInv /\ UNCHANGED vars => CandidateInv'
  BY CandidateStep
<1>2. CandidateInv => NoFinalCandidate
  BY DEF CandidateInv
<1> QED
  BY CandidateInit, CandidateStep, <1>1, <1>2, PTL DEF Spec

----------------------------------------------------------------------------
(* A provisioner that has one call at a time per volume.                   *)
BeforeRename == {"lock", "findTemp", "listTemp", "deleteRest", "create",
                 "creating", "rename"}
Renamed == {"refetchDisk", "storeInfo", "created"}
Creating == {"findFinal"} \cup BeforeRename \cup Renamed
Deleting == {"findDeleted", "delete", "deleted"}

SerialInv ==
    /\ \A h \in Handlers : pc[h] = "idle" => req[h] = NoVolume
    /\ \A g, h \in Handlers : g # h /\ pc[g] # "idle" => req[g] # req[h]

(* What handler h knows of its disk d: nobody else creates, renames or     *)
(* reuses it, though the cleanup may have deleted it.                      *)
WorksOn(h, d) ==
    \/ vdi[d].st = "dead"
    \/ vdi[d].st = "live" /\ vdi[d].vol = req[h]
    \/ vdi[d].st = "pending" /\ vdi[d].vol = req[h] /\ pc[h] = "creating"

(* Why a second final disk never appears: once the lookup of the final     *)
(* name has found nothing, only this handler can make one.                 *)
HandlerInv(h) ==
    /\ pc[h] \in Creating => co[req[h]] = "wanted"
    /\ pc[h] \in Deleting => co[req[h]] = "deleting"
    /\ pc[h] \in WithDisk => WorksOn(h, disk[h])
    /\ pc[h] \in BeforeRename \cup {"deleted"} => FinalDisks(req[h]) = {}
    /\ pc[h] \in Renamed \cup {"delete"} => FinalDisks(req[h]) \subseteq {disk[h]}
    /\ pc[h] \in Renamed /\ disk[h] \in Live => vdi[disk[h]].name = "final"
    /\ pc[h] = "created" /\ disk[h] \in Live => vdi[disk[h]].desc = "info"

VolumeInv(v) ==
    /\ co[v] \in {"bound", "deleting"} =>
          /\ FinalDisks(v) \subseteq {volID[v]}
          /\ \/ vdi[volID[v]].st = "dead"
             \/ volID[v] \in FinalDisks(v) /\ vdi[volID[v]].desc = "info"
    /\ co[v] = "gone" => FinalDisks(v) = {}

ProvisioningInv ==
    /\ CandidateInv
    /\ SerialInv
    /\ \A h \in Handlers : HandlerInv(h)
    /\ \A v \in Volumes : VolumeInv(v)
    /\ UniqueFinal

LEMMA ProvisioningInit == Init => ProvisioningInv
<1>1. Init => SerialInv
  BY DEF Init, SerialInv
<1>2. Init => \A v \in Volumes : FinalDisks(v) = {}
  <2>1. Init => \A d \in VDIs : vdi[d].st # "live"
    BY DEF Init, DisksInit, NoDisk
  <2> QED
    BY <2>1 DEF FinalDisks, Live
<1>3. Init => \A h \in Handlers : HandlerInv(h)
  BY DEF Init, HandlerInv, Creating, BeforeRename, Renamed, Deleting, WithDisk
<1>4. Init => \A v \in Volumes : VolumeInv(v)
  BY DEF Init, VolumeInv
<1>5. Init => UniqueFinal
  BY <1>2 DEF UniqueFinal
<1> QED
  BY <1>1, <1>3, <1>4, <1>5, CandidateInit DEF ProvisioningInv

(* A disk gets its final name only from the handler that renames it.       *)
LEMMA FinalSteps ==
    ASSUME TypeOK, MarkInv, [Next]_vars, NEW v \in Volumes, NEW d \in FinalDisks(v)'
    PROVE  \/ d \in FinalDisks(v)
           \/ /\ d \in Live /\ vdi[d].vol = v
              /\ \E h \in Handlers : RenameDisk(h) /\ disk[h] = d
<1>1. d \in VDIs /\ vdi'[d].st = "live" /\ vdi'[d].vol = v /\ vdi'[d].name = "final"
  BY DEF FinalDisks, Live
<1>2. DiskStep(d)
  BY <1>1, DiskSteps
<1> QED
  BY <1>1, <1>2 DEF DiskStep, Becomes, FinalDisks, Live, MarkInv

(* The provisioner's view of a volume changes only with an answer of a     *)
(* handler for it, or when a bound volume is released.                     *)
LEMMA COSteps ==
    ASSUME TypeOK, [Next]_vars, NEW v \in Volumes
    PROVE  \/ co'[v] = co[v] /\ volID'[v] = volID[v]
           \/ co[v] = "bound" /\ co'[v] = "deleting" /\ volID'[v] = volID[v]
           \/ \E h \in Handlers : (VolumeCreated(h) \/ VolumeDeleted(h)) /\ req[h] = v
<1> DEFINE P == \/ co'[v] = co[v] /\ volID'[v] = volID[v]
                \/ co[v] = "bound" /\ co'[v] = "deleting" /\ volID'[v] = volID[v]
                \/ \E h \in Handlers : (VolumeCreated(h) \/ VolumeDeleted(h)) /\ req[h] = v
<1> USE TypeParts DEF COTypeOK, coVars
<1>1. CASE UNCHANGED coVars
  BY <1>1
<1>2. ASSUME NEW w \in Volumes, ReleaseVolume(w) PROVE P
  BY <1>2 DEF ReleaseVolume
<1>3. ASSUME NEW h \in Handlers, VolumeCreated(h) PROVE P
  <2>1. CASE req[h] = v
    BY <1>3, <2>1
  <2>2. CASE req[h] # v
    BY <1>3, <2>2 DEF VolumeCreated
  <2> QED
    BY <2>1, <2>2
<1>4. ASSUME NEW h \in Handlers, VolumeDeleted(h) PROVE P
  <2>1. CASE req[h] = v
    BY <1>4, <2>1
  <2>2. CASE req[h] # v
    BY <1>4, <2>2 DEF VolumeDeleted
  <2> QED
    BY <2>1, <2>2
<1>5. \/ UNCHANGED coVars
      \/ \E w \in Volumes : ReleaseVolume(w)
      \/ \E h \in Handlers : VolumeCreated(h) \/ VolumeDeleted(h)
  BY DEF Next, vars, Call, CreateVolume, DeleteVolume, Accept, HandlerStep, FindFinal,
         LockCreation, FindTemp, ListTemp, RestDeleted, NoRoom, DiskCreated, RenameDisk,
         RefetchDisk, StoreInfo, FindDeleted, DeleteDisk,
         DeleteRest, CreateDisk, XOTaskEnds, Cleanup, Time, Fault, Restart,
         CleanupFails, TaskFails, HandlerFails, DeleteRestFails, CreateAgain
<1> QED
  BY <1>1, <1>2, <1>3, <1>4, <1>5

(* A step that is not a handler's own leaves it alone or ends it.          *)
Untouched(h) ==
    /\ pc'[h] = pc[h] /\ req'[h] = req[h] /\ disk'[h] = disk[h]
    /\ extra'[h] \subseteq extra[h]

LEMMA HandlerSteps ==
    ASSUME TypeOK, [Next]_vars, NEW h \in Handlers
    PROVE  \/ Untouched(h)
           \/ pc'[h] = "idle" /\ req'[h] = NoVolume /\ disk'[h] = NoVDI /\ CallFails
           \/ HandlerStep(h)
           \/ \E v \in Volumes : Call(h, v)
           \/ \E d \in VDIs : CreateAgain(h, d)
<1> DEFINE P == \/ Untouched(h)
                \/ pc'[h] = "idle" /\ req'[h] = NoVolume /\ disk'[h] = NoVDI /\ CallFails
                \/ HandlerStep(h)
                \/ \E v \in Volumes : Call(h, v)
                \/ \E d \in VDIs : CreateAgain(h, d)
<1> USE TypeParts DEF HandlerTypeOK, handlerVars, Untouched
<1>1. ASSUME NEW g \in Handlers, NEW v \in Volumes, Call(g, v) PROVE P
  <2>1. CASE g = h
    BY <1>1, <2>1
  <2>2. CASE g # h
    BY <1>1, <2>2 DEF Call, CreateVolume, DeleteVolume, Accept, GoTo
  <2> QED
    BY <2>1, <2>2
<1>2. ASSUME NEW g \in Handlers, HandlerStep(g) PROVE P
  <2>1. CASE g = h
    BY <1>2, <2>1
  <2>2. CASE g # h
    <3> USE DEF GoTo, Return
    <3>1. CASE FindFinal(g) \/ FindDeleted(g)
      BY <2>2, <3>1 DEF FindFinal, FindDeleted
    <3>2. CASE LockCreation(g) \/ RestDeleted(g) \/ DiskCreated(g) \/ DeleteDisk(g)
      BY <2>2, <3>2 DEF LockCreation, RestDeleted, DiskCreated, DeleteDisk
    <3>3. CASE FindTemp(g)
      BY <2>2, <3>3 DEF FindTemp
    <3>4. CASE ListTemp(g)
      BY <2>2, <3>4 DEF ListTemp
    <3>5. CASE NoRoom(g) \/ VolumeCreated(g) \/ VolumeDeleted(g)
      BY <2>2, <3>5 DEF NoRoom, VolumeCreated, VolumeDeleted
    <3>6. CASE RenameDisk(g) \/ RefetchDisk(g) \/ StoreInfo(g)
      BY <2>2, <3>6 DEF RenameDisk, RefetchDisk, StoreInfo
    <3>7. ASSUME NEW d \in VDIs, DeleteRest(g, d) \/ CreateDisk(g, d) PROVE P
      BY <2>2, <3>7 DEF DeleteRest, CreateDisk, Handled
    <3> QED
      BY <1>2, <3>1, <3>2, <3>3, <3>4, <3>5, <3>6, <3>7 DEF HandlerStep
  <2> QED
    BY <2>1, <2>2
<1>3. CASE UNCHANGED handlerVars
  BY <1>3
<1>4. CASE Restart
  BY <1>4 DEF Restart
<1>5. ASSUME NEW d \in VDIs, TaskFails(d) PROVE P
  BY <1>5 DEF TaskFails, Return
<1>6. ASSUME NEW g \in Handlers, HandlerFails(g) PROVE P
  BY <1>6 DEF HandlerFails, Return
<1>7. ASSUME NEW g \in Handlers, NEW d \in VDIs, DeleteRestFails(g, d) PROVE P
  BY <1>7 DEF DeleteRestFails, Handled
<1>8. ASSUME NEW g \in Handlers, NEW d \in VDIs, CreateAgain(g, d) PROVE P
  <2>1. CASE g = h
    BY <1>8, <2>1
  <2>2. CASE g # h
    BY <1>8, <2>2 DEF CreateAgain
  <2> QED
    BY <2>1, <2>2
<1> QED
  BY <1>1, <1>2, <1>3, <1>4, <1>5, <1>6, <1>7, <1>8
  DEF Next, vars, ReleaseVolume, XOTaskEnds, Cleanup, Time, Fault, CleanupFails

(* What a handler that renames owns.                                       *)
LEMMA RenamerOwns ==
    ASSUME ProvisioningInv, NEW h \in Handlers, RenameDisk(h), disk[h] \in Live
    PROVE  /\ req[h] \in Volumes
           /\ vdi[disk[h]].vol = req[h]
           /\ co[req[h]] = "wanted"
           /\ FinalDisks(req[h]) = {}
<1>1. pc[h] = "rename" /\ HandlerInv(h) /\ HandlerTypeOK
  BY TypeParts DEF RenameDisk, GoTo, Return, ProvisioningInv, CandidateInv
<1> QED
  BY <1>1 DEF HandlerInv, HandlerTypeOK, WorksOn, WithDisk, Live, Creating, BeforeRename

(* A new final disk of a volume comes from its only handler, and is its    *)
(* first.                                                                  *)
LEMMA NewFinalDisk ==
    ASSUME ProvisioningInv, [Next]_vars, NEW v \in Volumes,
           NEW d \in FinalDisks(v)', d \notin FinalDisks(v)
    PROVE  /\ co[v] = "wanted" /\ FinalDisks(v) = {}
           /\ \E h \in Handlers : RenameDisk(h) /\ disk[h] = d /\ req[h] = v
<1>1. d \in Live /\ vdi[d].vol = v
  BY FinalSteps DEF ProvisioningInv, CandidateInv
<1>2. PICK h \in Handlers : RenameDisk(h) /\ disk[h] = d
  BY FinalSteps DEF ProvisioningInv, CandidateInv
<1> QED
  BY <1>1, <1>2, RenamerOwns

LEMMA UniqueFinalStep ==
    ASSUME ProvisioningInv, [Next]_vars
    PROVE  UniqueFinal'
<1> SUFFICES ASSUME NEW v \in Volumes, NEW d \in FinalDisks(v)', NEW e \in FinalDisks(v)'
             PROVE  d = e
  BY DEF UniqueFinal
<1>1. CASE d \in FinalDisks(v) /\ e \in FinalDisks(v)
  BY <1>1 DEF ProvisioningInv, UniqueFinal
<1>2. CASE d \notin FinalDisks(v) /\ e \notin FinalDisks(v)
  <2>1. PICK g \in Handlers : RenameDisk(g) /\ disk[g] = d /\ req[g] = v
    BY <1>2, NewFinalDisk
  <2>2. PICK h \in Handlers : RenameDisk(h) /\ disk[h] = e /\ req[h] = v
    BY <1>2, NewFinalDisk
  <2>3. pc[g] = "rename"
    BY <2>1 DEF RenameDisk
  <2> QED
    BY <2>1, <2>2, <2>3 DEF ProvisioningInv, SerialInv
<1> QED
  BY <1>1, <1>2, NewFinalDisk

(* A volume the provisioner knows or has deleted gets no new final disk,   *)
(* and its disk, while it is there, keeps its name and StorageInfo.        *)
LEMMA KnownVolumeStep ==
    ASSUME ProvisioningInv, [Next]_vars, NoFinalCandidate', NEW v \in Volumes, co[v] # "wanted"
    PROVE  /\ FinalDisks(v)' \subseteq FinalDisks(v)
           /\ \A d \in FinalDisks(v) : vdi[d].desc = "info" =>
                 \/ vdi'[d].st = "dead"
                 \/ d \in FinalDisks(v)' /\ vdi'[d].desc = "info"
<1>1. FinalDisks(v)' \subseteq FinalDisks(v)
  BY NewFinalDisk
<1>2. ASSUME NEW d \in FinalDisks(v), vdi[d].desc = "info"
      PROVE  \/ vdi'[d].st = "dead"
             \/ d \in FinalDisks(v)' /\ vdi'[d].desc = "info"
  <2>1. d \in VDIs /\ vdi[d].st = "live" /\ vdi[d].vol = v /\ vdi[d].name = "final"
    BY DEF FinalDisks, Live
  <2>2. DiskStep(d)
    BY <2>1, DiskSteps DEF ProvisioningInv, CandidateInv
  <2>3. \A h \in Handlers : ~(RenameDisk(h) /\ disk[h] = d)
    BY <2>1, RenamerOwns DEF Live
  <2> QED
    BY <1>2, <2>1, <2>2, <2>3 DEF DiskStep, Becomes, FinalDisks, Live, NoFinalCandidate
<1> QED
  BY <1>1, <1>2

LEMMA VolumeInvStep ==
    ASSUME ProvisioningInv, [Next]_vars, NoFinalCandidate', NEW v \in Volumes
    PROVE  VolumeInv(v)'
<1> USE DEF ProvisioningInv
<1>0. TypeOK /\ VolumeInv(v) /\ DisksTypeOK /\ HandlerTypeOK /\ COTypeOK
  BY TypeParts DEF CandidateInv
<1>1. CASE \/ co'[v] = co[v] /\ volID'[v] = volID[v]
           \/ co[v] = "bound" /\ co'[v] = "deleting" /\ volID'[v] = volID[v]
  <2>1. CASE co[v] = "wanted"
    BY <1>1, <2>1 DEF VolumeInv
  <2>2. CASE co[v] = "gone"
    BY <1>1, <2>2, <1>0, KnownVolumeStep DEF VolumeInv
  <2>3. CASE co[v] \in {"bound", "deleting"}
    <3>1. volID[v] \in VDIs
      BY <1>0, <2>3 DEF COTypeOK
    <3>2. vdi[volID[v]].st = "dead" => vdi'[volID[v]].st = "dead"
      BY <3>1, <1>0, DiskSteps DEF DiskStep
    <3>3. co'[v] # "gone"
      BY <1>1, <2>3
    <3> QED
      BY <1>1, <2>3, <3>2, <3>3, <1>0, KnownVolumeStep DEF VolumeInv
  <2> QED
    BY <1>0, <2>1, <2>2, <2>3 DEF COTypeOK
<1>2. ASSUME NEW h \in Handlers, VolumeCreated(h), req[h] = v PROVE VolumeInv(v)'
  <2>1. HandlerInv(h) /\ pc[h] = "created" /\ UNCHANGED vdi /\ disk[h] \in VDIs
    BY <1>2, <1>0 DEF VolumeCreated, diskVars, HandlerTypeOK, WithDisk
  <2>2. co[v] = "wanted" /\ FinalDisks(v) \subseteq {disk[h]} /\ WorksOn(h, disk[h])
    BY <1>2, <2>1 DEF HandlerInv, Creating, Renamed, WithDisk
  <2>3. disk[h] \in Live => vdi[disk[h]].name = "final" /\ vdi[disk[h]].desc = "info"
    BY <2>1 DEF HandlerInv, Renamed
  <2>4. co'[v] = "bound" /\ volID'[v] = disk[h]
    BY <1>2, <2>2, <1>0 DEF VolumeCreated, COTypeOK
  <2>5. FinalDisks(v)' = FinalDisks(v)
    BY <2>1 DEF FinalDisks, Live
  <2>6. \/ vdi[disk[h]].st = "dead"
        \/ disk[h] \in FinalDisks(v) /\ vdi[disk[h]].desc = "info"
    BY <1>2, <2>1, <2>2, <2>3 DEF WorksOn, FinalDisks, Live
  <2> QED
    BY <2>1, <2>2, <2>4, <2>5, <2>6 DEF VolumeInv
<1>3. ASSUME NEW h \in Handlers, VolumeDeleted(h), req[h] = v PROVE VolumeInv(v)'
  <2>1. HandlerInv(h) /\ pc[h] = "deleted" /\ UNCHANGED vdi
    BY <1>3 DEF VolumeDeleted, diskVars
  <2>2. FinalDisks(v)' = {}
    BY <1>3, <2>1 DEF HandlerInv, FinalDisks, Live
  <2>3. co'[v] = "gone"
    BY <1>3, <1>0 DEF VolumeDeleted, COTypeOK
  <2> QED
    BY <2>2, <2>3 DEF VolumeInv
<1> QED
  BY <1>0, <1>1, <1>2, <1>3, COSteps

(* A handler keeps its request, or returns, or takes a new one.            *)
Keeps(h) == req'[h] = req[h] /\ (pc'[h] = "idle" <=> pc[h] = "idle")
Ended(h) == pc'[h] = "idle" /\ req'[h] = NoVolume

LEMMA RequestSteps ==
    ASSUME TypeOK, [Next]_vars, NEW h \in Handlers
    PROVE  Keeps(h) \/ Ended(h) \/ \E v \in Volumes : Call(h, v)
<1> USE TypeParts DEF HandlerTypeOK, Keeps, Ended
<1>1. ASSUME HandlerStep(h) PROVE Keeps(h) \/ Ended(h)
  <2> USE DEF GoTo, Return
  <2>1. CASE FindFinal(h) \/ FindDeleted(h)
    BY <2>1 DEF FindFinal, FindDeleted
  <2>2. CASE LockCreation(h) \/ RestDeleted(h) \/ DiskCreated(h) \/ DeleteDisk(h)
    BY <2>2 DEF LockCreation, RestDeleted, DiskCreated, DeleteDisk
  <2>3. CASE FindTemp(h)
    BY <2>3 DEF FindTemp
  <2>4. CASE ListTemp(h)
    BY <2>4 DEF ListTemp
  <2>5. CASE NoRoom(h) \/ VolumeCreated(h) \/ VolumeDeleted(h)
    BY <2>5 DEF NoRoom, VolumeCreated, VolumeDeleted
  <2>6. CASE RenameDisk(h) \/ RefetchDisk(h) \/ StoreInfo(h)
    BY <2>6 DEF RenameDisk, RefetchDisk, StoreInfo
  <2>7. ASSUME NEW d \in VDIs, DeleteRest(h, d) \/ CreateDisk(h, d)
        PROVE  Keeps(h) \/ Ended(h)
    BY <2>7 DEF DeleteRest, CreateDisk
  <2> QED
    BY <1>1, <2>1, <2>2, <2>3, <2>4, <2>5, <2>6, <2>7 DEF HandlerStep
<1>2. ASSUME NEW d \in VDIs, CreateAgain(h, d) PROVE Keeps(h)
  BY <1>2 DEF CreateAgain
<1> QED
  BY <1>1, <1>2, HandlerSteps DEF Untouched

LEMMA SerialStep ==
    ASSUME SerialCO, TypeOK, TypeOK', SerialInv, [Next]_vars
    PROVE  SerialInv'
<1> USE TypeParts DEF HandlerTypeOK, Keeps, Ended, SerialInv
<1>1. ASSUME NEW h \in Handlers, NEW v \in Volumes, Call(h, v)
      PROVE  /\ pc'[h] # "idle" /\ req'[h] = v
             /\ \A g \in Handlers : req[g] # v
             /\ \A g \in Handlers : g # h => req'[g] = req[g] /\ pc'[g] = pc[g]
  BY <1>1 DEF Call, CreateVolume, DeleteVolume, Accept, GoTo
<1>2. ASSUME NEW h \in Handlers, pc'[h] = "idle" PROVE req'[h] = NoVolume
  BY <1>1, <1>2, RequestSteps
<1>3. ASSUME NEW g \in Handlers, NEW h \in Handlers, g # h, pc'[g] # "idle"
      PROVE  req'[g] # req'[h]
  <2>1. CASE \E v \in Volumes : Call(g, v)
    BY <1>1, <1>3, <2>1
  <2>2. CASE \E v \in Volumes : Call(h, v)
    BY <1>1, <1>3, <2>2
  <2>3. CASE Keeps(g) /\ (Keeps(h) \/ Ended(h))
    BY <1>3, <2>3, NoVolumeAssumption
  <2> QED
    BY <1>3, <2>1, <2>2, <2>3, RequestSteps
<1> QED
  BY <1>2, <1>3

(* What a step that does not end handler h, and is not its rename, may do  *)
(* to what HandlerInv says of h.                                           *)
Undisturbed(h) ==
    /\ co'[req[h]] = co[req[h]]
    /\ \A d \in FinalDisks(req[h])' : d \in FinalDisks(req[h])
    /\ pc[h] \in WithDisk =>
        \/ vdi'[disk[h]].st = "dead"
        \/ vdi'[disk[h]].st = "live" /\ vdi'[disk[h]].vol = req[h]
        \/ /\ vdi'[disk[h]].st = "pending" /\ vdi'[disk[h]].vol = req[h]
           /\ vdi[disk[h]].st = "pending"
    /\ pc[h] \in WithDisk /\ vdi[disk[h]].st = "dead" => vdi'[disk[h]].st = "dead"
    /\ pc[h] \in Renamed /\ disk[h] \in Live =>
        vdi'[disk[h]].st = "dead" \/ vdi'[disk[h]].name = "final"
    /\ pc[h] \in Renamed /\ disk[h] \in Live /\ vdi[disk[h]].desc = "info" =>
        vdi'[disk[h]].st = "dead" \/ vdi'[disk[h]].desc = "info"

LEMMA UndisturbedSteps ==
    ASSUME ProvisioningInv, [Next]_vars, NoFinalCandidate', NEW h \in Handlers,
           pc[h] # "idle", pc'[h] # "idle", ~RenameDisk(h)
    PROVE  Undisturbed(h)
<1> USE DEF ProvisioningInv
<1>0. /\ TypeOK /\ DisksTypeOK /\ HandlerTypeOK /\ COTypeOK /\ MarkInv
      /\ HandlerInv(h) /\ req[h] \in Volumes
      /\ \A g \in Handlers : g # h => req[g] # req[h]
  BY TypeParts DEF CandidateInv, HandlerTypeOK, SerialInv
<1>1. co'[req[h]] = co[req[h]]
  <2>1. co[req[h]] # "bound"
    BY <1>0 DEF HandlerInv, HandlerTypeOK, PCs, InSection, Creating, Deleting,
                BeforeRename, Renamed
  <2>2. ASSUME NEW g \in Handlers, VolumeCreated(g) \/ VolumeDeleted(g)
        PROVE  req[g] # req[h]
    <3>1. pc'[g] = "idle"
      BY <2>2, <1>0 DEF VolumeCreated, VolumeDeleted, Return, HandlerTypeOK
    <3> QED
      BY <1>0, <3>1
  <2> QED
    BY <1>0, <2>1, <2>2, COSteps
<1>2. ASSUME NEW g \in Handlers, RenameDisk(g), disk[g] \in Live
      PROVE  vdi[disk[g]].vol # req[h]
  BY <1>0, <1>2, RenamerOwns
<1>3. \A d \in FinalDisks(req[h])' : d \in FinalDisks(req[h])
  <2>1. ASSUME NEW v \in Volumes, v = req[h], NEW d \in FinalDisks(v)'
        PROVE  d \in FinalDisks(v)
    BY <2>1, <1>0, NewFinalDisk
  <2>2. PICK v \in Volumes : v = req[h]
    BY <1>0
  <2>3. pc'[h] # "idle" /\ ~(\E w \in Volumes : Call(h, w))
    BY DEF Call, CreateVolume, DeleteVolume, Accept
  <2>4. req'[h] = req[h]
    BY <1>0, <2>3, RequestSteps DEF Keeps, Ended
  <2> QED
    BY <2>1, <2>2, <2>4 DEF FinalDisks
<1>4. ASSUME pc[h] \in WithDisk
      PROVE  /\ disk[h] \in VDIs /\ WorksOn(h, disk[h]) /\ DiskStep(disk[h])
             /\ ~TaskFails(disk[h]) \/ vdi[disk[h]].st # "pending"
             /\ \A g \in Handlers : RenameDisk(g) => disk[g] # disk[h] \/ disk[h] \notin Live
  <2>1. disk[h] \in VDIs /\ WorksOn(h, disk[h])
    BY <1>0, <1>4 DEF HandlerTypeOK, HandlerInv
  <2>2. DiskStep(disk[h])
    BY <1>0, <2>1, DiskSteps
  <2>3. ASSUME TaskFails(disk[h]), vdi[disk[h]].st = "pending" PROVE FALSE
    <3>1. pc[h] = "creating" /\ vdi[disk[h]].vol = req[h]
      BY <2>1, <2>3 DEF WorksOn
    <3>2. PICK g \in Handlers : pc[g] = "creating" /\ disk[g] = disk[h] /\ Return(g)
      BY <2>3, <3>1 DEF TaskFails
    <3>3. HandlerInv(g)
      BY <3>2
    <3>4. vdi[disk[h]].vol = req[g]
      BY <2>3, <3>2, <3>3 DEF HandlerInv, WorksOn, WithDisk
    <3>5. g = h
      BY <1>0, <3>1, <3>4
    <3> QED
      BY <1>0, <3>2, <3>5 DEF Return, HandlerTypeOK
  <2>4. ASSUME NEW g \in Handlers, RenameDisk(g), disk[g] = disk[h], disk[h] \in Live PROVE FALSE
    BY <1>2, <2>1, <2>4 DEF WorksOn, Live
  <2> QED
    BY <2>1, <2>2, <2>3, <2>4
<1>5. pc[h] \in WithDisk =>
        \/ vdi'[disk[h]].st = "dead"
        \/ vdi'[disk[h]].st = "live" /\ vdi'[disk[h]].vol = req[h]
        \/ /\ vdi'[disk[h]].st = "pending" /\ vdi'[disk[h]].vol = req[h]
           /\ vdi[disk[h]].st = "pending"
  BY <1>4 DEF WorksOn, DiskStep, Becomes
<1>7. pc[h] \in WithDisk /\ vdi[disk[h]].st = "dead" => vdi'[disk[h]].st = "dead"
  BY <1>4 DEF DiskStep
<1>6. ASSUME pc[h] \in Renamed, disk[h] \in Live
      PROVE  /\ vdi'[disk[h]].st = "dead" \/ vdi'[disk[h]].name = "final"
             /\ vdi[disk[h]].desc = "info" =>
                   vdi'[disk[h]].st = "dead" \/ vdi'[disk[h]].desc = "info"
  <2>1. vdi[disk[h]].st = "live" /\ vdi[disk[h]].name = "final" /\ disk[h] \in VDIs
    BY <1>0, <1>6 DEF HandlerInv, Live
  <2>2. DiskStep(disk[h]) /\ \A g \in Handlers : RenameDisk(g) => disk[g] # disk[h]
    BY <1>4, <1>6 DEF Renamed, WithDisk
  <2> QED
    BY <2>1, <2>2 DEF DiskStep, Becomes, NoFinalCandidate, Live
<1> QED
  BY <1>1, <1>3, <1>5, <1>6, <1>7 DEF Undisturbed

(* A handler's own step, from what it knew and what others may not do.     *)
LEMMA CreatingSteps ==
    ASSUME TypeOK, NEW h \in Handlers, HandlerInv(h), Undisturbed(h), pc'[h] # "idle",
           FindFinal(h) \/ LockCreation(h) \/ FindTemp(h) \/ ListTemp(h) \/ RestDeleted(h)
           \/ DiskCreated(h) \/ RefetchDisk(h) \/ StoreInfo(h)
    PROVE  HandlerInv(h)'
<1> USE TypeParts
    DEF HandlerTypeOK, HandlerInv, Undisturbed, WorksOn, GoTo, Return, diskVars, coVars,
        Creating, Deleting, BeforeRename, Renamed, WithDisk
<1>1. CASE FindFinal(h)
  <2>1. CASE pc'[h] = "lock"
    BY <1>1, <2>1 DEF FindFinal, FinalDisks, Live
  <2>2. CASE pc'[h] # "lock"
    BY <1>1, <2>2 DEF FindFinal, FinalDisks, Live
  <2> QED
    BY <2>1, <2>2
<1>2. CASE LockCreation(h)
  BY <1>2 DEF LockCreation
<1>3. CASE FindTemp(h)
  BY <1>3 DEF FindTemp, TempDisks, Live
<1>4. CASE ListTemp(h)
  BY <1>4 DEF ListTemp, TempDisks, Live
<1>5. CASE RestDeleted(h)
  BY <1>5 DEF RestDeleted
<1>6. CASE DiskCreated(h)
  BY <1>6 DEF DiskCreated
<1>7. CASE RefetchDisk(h)
  BY <1>7 DEF RefetchDisk, Live
<1>8. CASE StoreInfo(h)
  <2>1. /\ pc[h] = "storeInfo" /\ pc'[h] = "created" /\ req'[h] = req[h] /\ disk'[h] = disk[h]
        /\ disk[h] \in VDIs /\ DescribeVDI(disk[h], "info")
    BY <1>8 DEF StoreInfo
  <2>2. vdi'[disk[h]].desc = "info"
    BY <2>1 DEF DescribeVDI, DisksTypeOK, VDIRecord
  <2> QED
    BY <2>1, <2>2 DEF Live
<1> QED
  BY <1>1, <1>2, <1>3, <1>4, <1>5, <1>6, <1>7, <1>8

LEMMA RenameStep ==
    ASSUME ProvisioningInv, [Next]_vars, NEW h \in Handlers, RenameDisk(h), pc'[h] # "idle"
    PROVE  HandlerInv(h)'
<1>0. /\ TypeOK /\ DisksTypeOK /\ HandlerTypeOK /\ pc[h] = "rename" /\ HandlerInv(h)
      /\ req[h] \in Volumes /\ disk[h] \in VDIs
  BY TypeParts DEF ProvisioningInv, CandidateInv, RenameDisk, HandlerTypeOK, WithDisk
<1>1. /\ disk[h] \in Live /\ RenameVDI(disk[h])
      /\ pc'[h] = "refetchDisk" /\ req' = req /\ disk' = disk /\ co' = co
  BY <1>0 DEF RenameDisk, GoTo, Return, HandlerTypeOK, coVars
<1>2. vdi'[disk[h]].st = "live" /\ vdi'[disk[h]].vol = req[h] /\ vdi'[disk[h]].name = "final"
  BY <1>0, <1>1, RenamerOwns DEF RenameVDI, DisksTypeOK, Live, VDIRecord
<1>3. FinalDisks(req[h])' \subseteq {disk[h]}
  <2>1. \A e \in VDIs : e # disk[h] => vdi'[e] = vdi[e]
    BY <1>0, <1>1 DEF RenameVDI, DisksTypeOK
  <2>2. FinalDisks(req[h]) = {}
    BY <1>1, RenamerOwns
  <2> QED
    BY <1>1, <2>1, <2>2 DEF FinalDisks, Live
<1>4. co[req[h]] = "wanted"
  BY <1>1, RenamerOwns
<1> QED
  BY <1>1, <1>2, <1>3, <1>4
  DEF HandlerInv, WorksOn, Creating, Deleting, BeforeRename, Renamed, WithDisk, Live

(* A disk created for the handler, the first or after a resend.            *)
LEMMA CreationSteps ==
    ASSUME TypeOK, NEW h \in Handlers, HandlerInv(h), Undisturbed(h), NEW d \in VDIs,
           CreateDisk(h, d) \/ CreateAgain(h, d)
    PROVE  HandlerInv(h)'
<1> USE TypeParts
    DEF HandlerTypeOK, HandlerInv, Undisturbed, GoTo, coVars,
        Creating, Deleting, BeforeRename, Renamed, WithDisk
<1>1. /\ pc'[h] = "creating" /\ req'[h] = req[h] /\ disk'[h] = d
      /\ pc[h] \in {"create", "creating"} /\ CreateVDI(d, req[h])
  BY DEF CreateDisk, CreateAgain
<1>2. vdi'[d].st = "pending" /\ vdi'[d].vol = req[h]
  BY <1>1 DEF CreateVDI, DisksTypeOK
<1> QED
  BY <1>1, <1>2 DEF WorksOn, FinalDisks, Live

LEMMA DeletingSteps ==
    ASSUME TypeOK, NEW h \in Handlers, HandlerInv(h), Undisturbed(h), pc'[h] # "idle",
           VolumeInv(req[h]), FindDeleted(h) \/ DeleteDisk(h)
    PROVE  HandlerInv(h)'
<1> USE TypeParts
    DEF HandlerTypeOK, GoTo, Return, diskVars, coVars
<1>1. CASE FindDeleted(h)
  <2> DEFINE v == req[h]
  <2>1. /\ pc[h] = "findDeleted" /\ req' = req /\ UNCHANGED vdi /\ UNCHANGED co
        /\ v \in Volumes /\ co[v] = "deleting"
    BY <1>1 DEF FindDeleted, HandlerInv, Deleting
  <2>2. /\ FinalDisks(v) \subseteq {volID[v]}
        /\ vdi[volID[v]].st = "dead" \/ volID[v] \in FinalDisks(v)
    BY <2>1 DEF VolumeInv
  <2>3. DisksOfID(v) = FinalDisks(v)
    BY <2>2 DEF DisksOfID, FinalDisks, Live
  <2>4. FinalDisks(req[h])' = FinalDisks(v)
    BY <2>1 DEF FinalDisks, Live
  <2>5. \/ pc'[h] = "deleted" /\ FinalDisks(v) = {}
        \/ pc'[h] = "delete" /\ FinalDisks(v) = {disk'[h]}
    BY <1>1, <2>3 DEF FindDeleted
  <2>6. pc'[h] = "delete" => vdi[disk'[h]].st = "live" /\ vdi[disk'[h]].vol = v
    BY <2>5 DEF FinalDisks, Live
  <2> QED
    BY <2>1, <2>4, <2>5, <2>6
    DEF HandlerInv, WorksOn, Creating, Deleting, BeforeRename, Renamed, WithDisk
<1>2. CASE DeleteDisk(h)
  <2>1. /\ pc[h] = "delete" /\ pc'[h] = "deleted" /\ req'[h] = req[h] /\ disk[h] \in VDIs
        /\ co'[req[h]] = "deleting"
        /\ FinalDisks(req[h]) \subseteq {disk[h]}
    BY <1>2 DEF DeleteDisk, HandlerInv, Undisturbed, Deleting, WithDisk
  <2>2. vdi'[disk[h]].st # "live"
    BY <1>2, <2>1 DEF DeleteDisk, DeleteVDI, NoDisk, Live, DisksTypeOK
  <2>3. FinalDisks(req[h])' = {}
    BY <2>1, <2>2 DEF Undisturbed, FinalDisks, Live
  <2> QED
    BY <2>1, <2>3
    DEF HandlerInv, Creating, Deleting, BeforeRename, Renamed, WithDisk
<1> QED
  BY <1>1, <1>2

LEMMA HandlerInvStep ==
    ASSUME ProvisioningInv, [Next]_vars, TypeOK', NoFinalCandidate', NEW h \in Handlers
    PROVE  HandlerInv(h)'
<1> USE DEF ProvisioningInv
<1>0. TypeOK /\ HandlerTypeOK /\ HandlerInv(h)
  BY TypeParts DEF CandidateInv
<1>1. CASE pc'[h] = "idle"
  BY <1>1 DEF HandlerInv, Creating, Deleting, BeforeRename, Renamed, WithDisk
<1>2. ASSUME NEW v \in Volumes, Call(h, v) PROVE HandlerInv(h)'
  <2>1. /\ req'[h] = v /\ UNCHANGED co
        /\ \/ pc'[h] = "findFinal" /\ co[v] = "wanted"
           \/ pc'[h] = "findDeleted" /\ co[v] = "deleting"
    BY <1>0, <1>2 DEF Call, CreateVolume, DeleteVolume, Accept, GoTo, HandlerTypeOK, coVars
  <2> QED
    BY <2>1 DEF HandlerInv, Creating, Deleting, BeforeRename, Renamed, WithDisk
<1>3. CASE RenameDisk(h) /\ pc'[h] # "idle"
  BY <1>3, RenameStep
<1>4. ASSUME pc[h] # "idle", pc'[h] # "idle", ~RenameDisk(h) PROVE HandlerInv(h)'
  <2>1. Undisturbed(h) /\ req[h] \in Volumes
    BY <1>0, <1>4, UndisturbedSteps DEF HandlerTypeOK
  <2>2. CASE Untouched(h)
    BY <1>0, <2>1, <2>2
    DEF Untouched, HandlerInv, Undisturbed, WorksOn, Creating, Deleting, BeforeRename,
        Renamed, WithDisk, Live, FinalDisks
  <2>3. CASE HandlerStep(h)
    <3>1. ASSUME NEW d \in VDIs, DeleteRest(h, d) PROVE Untouched(h)
      BY <1>0, <3>1 DEF DeleteRest, Untouched, Handled, HandlerTypeOK
    <3>2. ~(NoRoom(h) \/ VolumeCreated(h) \/ VolumeDeleted(h))
      BY <1>0, <1>4 DEF NoRoom, VolumeCreated, VolumeDeleted, Return, HandlerTypeOK
    <3>3. ASSUME NEW d \in VDIs, CreateDisk(h, d) PROVE HandlerInv(h)'
      BY <1>0, <2>1, <3>3, CreationSteps
    <3>4. CASE FindDeleted(h) \/ DeleteDisk(h)
      BY <1>0, <1>4, <2>1, <3>4, DeletingSteps
    <3>5. CASE \/ FindFinal(h) \/ LockCreation(h) \/ FindTemp(h) \/ ListTemp(h)
               \/ RestDeleted(h) \/ DiskCreated(h) \/ RefetchDisk(h) \/ StoreInfo(h)
      BY <1>0, <1>4, <2>1, <3>5, CreatingSteps
    <3> QED
      BY <1>4, <2>2, <2>3, <3>1, <3>2, <3>3, <3>4, <3>5 DEF HandlerStep
  <2>4. ASSUME NEW d \in VDIs, CreateAgain(h, d) PROVE HandlerInv(h)'
    BY <1>0, <2>1, <2>4, CreationSteps
  <2>5. ASSUME NEW v \in Volumes PROVE ~Call(h, v)
    BY <1>4 DEF Call, CreateVolume, DeleteVolume, Accept
  <2> QED
    BY <1>0, <1>4, <2>2, <2>3, <2>4, <2>5, HandlerSteps
<1>5. pc[h] = "idle" /\ pc'[h] # "idle" => \E v \in Volumes : Call(h, v)
  BY <1>0, RequestSteps DEF Keeps, Ended
<1>6. RenameDisk(h) => pc[h] # "idle"
  BY DEF RenameDisk
<1> QED
  BY <1>1, <1>2, <1>3, <1>4, <1>5, <1>6

LEMMA ProvisioningStep ==
    ASSUME SerialCO, ProvisioningInv, [Next]_vars
    PROVE  ProvisioningInv'
<1>1. CandidateInv'
  BY CandidateStep DEF ProvisioningInv
<1>2. TypeOK' /\ NoFinalCandidate'
  BY <1>1 DEF CandidateInv
<1>3. SerialInv'
  BY <1>2, SerialStep DEF ProvisioningInv, CandidateInv
<1>4. \A h \in Handlers : HandlerInv(h)'
  BY <1>2, HandlerInvStep
<1>5. \A v \in Volumes : VolumeInv(v)'
  BY <1>2, VolumeInvStep
<1> QED
  BY <1>1, <1>3, <1>4, <1>5, UniqueFinalStep DEF ProvisioningInv

LEMMA ProvisioningCorrect == SerialCO => (Spec => []ProvisioningInv)
<1>1. ASSUME SerialCO PROVE Spec => []ProvisioningInv
  <2>1. ProvisioningInv /\ [Next]_vars => ProvisioningInv'
    BY <1>1, ProvisioningStep
  <2> QED
    BY <2>1, ProvisioningInit, PTL DEF Spec
<1> QED
  BY <1>1

(* A provisioner that has one call at a time per volume never gets it two  *)
(* final disks, whatever fails, is sent again or restarts.                 *)
THEOREM FinalDiskIsUnique == SerialCO => (Spec => []UniqueFinal)
<1>1. ProvisioningInv => UniqueFinal
  BY DEF ProvisioningInv
<1> QED
  BY <1>1, ProvisioningCorrect, PTL

(* Such a provisioner's bound volume has, as long as its disk exists, the  *)
(* final name and the StorageInfo on it.                                   *)
THEOREM MetadataIsKept == SerialCO => (Spec => []BoundKeepsMetadata)
<1>1. ProvisioningInv => BoundKeepsMetadata
  BY DEF ProvisioningInv, VolumeInv, BoundKeepsMetadata, Live
<1> QED
  BY <1>1, ProvisioningCorrect, PTL

(* What such a provisioner deleted has left no disk under its final name,  *)
(* whichever kind of volume ID the deletion looked it up by.               *)
THEOREM DeletionIsComplete == SerialCO => (Spec => []GoneLeavesNothing)
<1>1. ProvisioningInv => GoneLeavesNothing
  BY DEF ProvisioningInv, VolumeInv, GoneLeavesNothing
<1> QED
  BY <1>1, ProvisioningCorrect, PTL

----------------------------------------------------------------------------
(* Without the cleanup a disk is deleted only by DeleteVolume, or as one   *)
(* of several temporary disks of a volume that is being created: the disk  *)
(* a handler works on, and that of a bound volume, stay.                   *)
Keeping == WithDisk \ {"delete"}

KeptInv ==
    /\ cpc = "idle"
    /\ \A h \in Handlers : pc[h] \in Keeping => vdi[disk[h]].st # "dead"
    /\ \A h \in Handlers : pc[h] = "deleteRest" =>
         \A e \in extra[h] : /\ e # disk[h]
                             /\ \/ vdi[e].st = "dead"
                                \/ vdi[e].st = "live" /\ vdi[e].vol = req[h]
    /\ \A v \in Volumes : co[v] = "bound" => volID[v] \in Live

LEMMA CleanupStaysIdle ==
    ASSUME ~CleanupEnabled, cpc = "idle", [Next]_vars
    PROVE  cpc' = "idle" /\ \A d \in VDIs : ~DeleteCandidate(d)
<1>1. \A d \in VDIs : ~DeleteCandidate(d)
  BY DEF DeleteCandidate, Listed
<1>2. ~CleanupStep /\ ~CleanupFault
  BY DEF CleanupStep, CleanupFault, List, EndPass, Locked, Refetch, Mark, Skip, Observe,
         DeleteCandidate, WantMark, MarkFails, DeleteCandidateFails, Listed
<1>3. TimePasses \/ CleanupRestarts \/ UNCHANGED cleanupVars => cpc' = "idle"
  BY DEF TimePasses, TenMinutes, ThirtyMinutes, CleanupRestarts, cleanupVars
<1>4. TimePasses \/ CleanupRestarts \/ UNCHANGED cleanupVars
  BY <1>2
  DEF Next, vars, Call, CreateVolume, DeleteVolume, Accept, HandlerStep, FindFinal,
      LockCreation, FindTemp, ListTemp, RestDeleted, NoRoom, DiskCreated, RenameDisk,
      RefetchDisk, StoreInfo, VolumeCreated, FindDeleted, DeleteDisk, VolumeDeleted,
      DeleteRest, CreateDisk, ReleaseVolume, XOTaskEnds, Cleanup, Time, Fault, Restart,
      CleanupFails, TaskFails, HandlerFails, DeleteRestFails, CreateAgain
<1> QED
  BY <1>1, <1>3, <1>4

(* Whose disk is deleted: one under the name of the handler's volume, that *)
(* the handler is deleting or does not want.                               *)
LEMMA DeletionSteps ==
    ASSUME ProvisioningInv, KeptInv, ~CleanupEnabled, [Next]_vars,
           NEW d \in VDIs, vdi[d].st = "live", vdi'[d].st = "dead"
    PROVE  \E h \in Handlers :
              /\ req[h] = vdi[d].vol
              /\ \/ DeleteRest(h, d) /\ d # disk[h] /\ co[req[h]] = "wanted"
                 \/ DeleteDisk(h) /\ d = disk[h] /\ co[req[h]] = "deleting"
<1>0. TypeOK /\ HandlerTypeOK
  BY TypeParts DEF ProvisioningInv, CandidateInv
<1>1. DeletedBy(d)
  BY <1>0, DiskSteps DEF DiskStep, Becomes
<1>2. ~DeleteCandidate(d)
  BY CleanupStaysIdle DEF KeptInv
<1>3. PICK h \in Handlers : DeleteRest(h, d) \/ (DeleteDisk(h) /\ disk[h] = d)
  BY <1>1, <1>2 DEF DeletedBy
<1>4. HandlerInv(h)
  BY DEF ProvisioningInv
<1>5. CASE DeleteRest(h, d)
  <2>1. pc[h] = "deleteRest" /\ d \in extra[h]
    BY <1>5 DEF DeleteRest
  <2>2. d # disk[h] /\ vdi[d].vol = req[h]
    BY <2>1 DEF KeptInv
  <2>3. co[req[h]] = "wanted"
    BY <1>4, <2>1 DEF HandlerInv, Creating, BeforeRename
  <2> QED
    BY <1>5, <2>2, <2>3
<1>6. CASE DeleteDisk(h) /\ disk[h] = d
  <2>1. pc[h] = "delete"
    BY <1>6 DEF DeleteDisk, GoTo
  <2>2. vdi[d].vol = req[h] /\ co[req[h]] = "deleting"
    BY <1>4, <1>6, <2>1 DEF HandlerInv, WorksOn, WithDisk, Deleting
  <2> QED
    BY <1>6, <2>2
<1> QED
  BY <1>3, <1>5, <1>6

(* The disk a handler starts to work on is there; and what it is going to  *)
(* delete are other disks of its volume.                                   *)
LEMMA NewWork ==
    ASSUME TypeOK, NEW h \in Handlers, HandlerStep(h) \/ \E d \in VDIs : CreateAgain(h, d),
           pc'[h] \in Keeping
    PROVE  /\ \/ disk'[h] = disk[h] /\ pc[h] \in Keeping /\ req'[h] = req[h]
              \/ disk'[h] \in VDIs /\ vdi'[disk'[h]].st # "dead"
           /\ pc'[h] = "deleteRest" =>
                \/ pc[h] = "deleteRest" /\ disk'[h] = disk[h] /\ req'[h] = req[h]
                   /\ extra'[h] \subseteq extra[h]
                \/ /\ UNCHANGED vdi /\ req'[h] = req[h]
                   /\ \A e \in extra'[h] :
                        e # disk'[h] /\ vdi[e].st = "live" /\ vdi[e].vol = req[h]
<1> DEFINE P == /\ \/ disk'[h] = disk[h] /\ pc[h] \in Keeping /\ req'[h] = req[h]
                   \/ disk'[h] \in VDIs /\ vdi'[disk'[h]].st # "dead"
                /\ pc'[h] = "deleteRest" =>
                     \/ pc[h] = "deleteRest" /\ disk'[h] = disk[h] /\ req'[h] = req[h]
                        /\ extra'[h] \subseteq extra[h]
                     \/ /\ UNCHANGED vdi /\ req'[h] = req[h]
                        /\ \A e \in extra'[h] :
                             e # disk'[h] /\ vdi[e].st = "live" /\ vdi[e].vol = req[h]
<1> USE TypeParts DEF HandlerTypeOK, GoTo, Return, diskVars, Keeping, WithDisk
<1>1. CASE FindFinal(h)
  BY <1>1 DEF FindFinal, FinalDisks, Live
<1>2. CASE FindTemp(h)
  BY <1>2 DEF FindTemp, TempDisks, Live
<1>3. CASE ListTemp(h)
  BY <1>3 DEF ListTemp, TempDisks, Live
<1>4. CASE RestDeleted(h) \/ DiskCreated(h) \/ LockCreation(h)
  BY <1>4 DEF RestDeleted, DiskCreated, LockCreation
<1>5. CASE RenameDisk(h) \/ RefetchDisk(h) \/ StoreInfo(h)
  BY <1>5 DEF RenameDisk, RefetchDisk, StoreInfo
<1>6. CASE NoRoom(h) \/ VolumeCreated(h) \/ VolumeDeleted(h)
  BY <1>6 DEF NoRoom, VolumeCreated, VolumeDeleted
<1>7. CASE FindDeleted(h) \/ DeleteDisk(h)
  BY <1>7 DEF FindDeleted, DeleteDisk
<1>8. ASSUME NEW d \in VDIs, DeleteRest(h, d) PROVE P
  BY <1>8 DEF DeleteRest, Handled
<1>9. ASSUME NEW d \in VDIs, CreateDisk(h, d) \/ CreateAgain(h, d) PROVE P
  <2>1. vdi'[d].st = "pending" /\ disk'[h] = d /\ pc'[h] = "creating"
    BY <1>9 DEF CreateDisk, CreateAgain, CreateVDI, DisksTypeOK
  <2> QED
    BY <2>1
<1> QED
  BY <1>1, <1>2, <1>3, <1>4, <1>5, <1>6, <1>7, <1>8, <1>9 DEF HandlerStep

LEMMA KeptStep ==
    ASSUME SerialCO, ~CleanupEnabled, ProvisioningInv, ProvisioningInv', KeptInv, [Next]_vars
    PROVE  KeptInv'
<1> USE DEF ProvisioningInv, CandidateInv
<1>0. /\ TypeOK /\ DisksTypeOK /\ HandlerTypeOK /\ COTypeOK /\ HandlerTypeOK'
      /\ \A g, h \in Handlers : pc[g] # "idle" /\ g # h => req[g] # req[h]
  <2>1. TypeOK' => HandlerTypeOK'
    BY DEF TypeOK, HandlerTypeOK
  <2> QED
    BY <2>1, TypeParts DEF SerialInv
<1>1. cpc' = "idle"
  BY CleanupStaysIdle DEF KeptInv
<1>2. ASSUME NEW h \in Handlers, pc[h] \in Keeping, vdi[disk[h]].st # "dead",
             pc'[h] # "idle"
      PROVE  vdi'[disk[h]].st # "dead"
  <2>1. disk[h] \in VDIs /\ WorksOn(h, disk[h]) /\ pc[h] # "delete" /\ pc[h] \in WithDisk
    BY <1>0, <1>2 DEF HandlerInv, HandlerTypeOK, Keeping
  <2>2. CASE vdi[disk[h]].st = "live"
    <3> SUFFICES ASSUME vdi'[disk[h]].st = "dead" PROVE FALSE
      OBVIOUS
    <3>1. PICK g \in Handlers :
            /\ req[g] = vdi[disk[h]].vol
            /\ \/ DeleteRest(g, disk[h]) /\ disk[h] # disk[g]
               \/ DeleteDisk(g) /\ disk[h] = disk[g]
      BY <2>1, <2>2, DeletionSteps
    <3>2. req[g] = req[h] /\ pc[g] # "idle"
      BY <2>1, <2>2, <3>1 DEF WorksOn, DeleteRest, DeleteDisk, GoTo
    <3>3. g = h
      BY <1>0, <3>2
    <3> QED
      BY <2>1, <3>1, <3>3 DEF DeleteDisk, GoTo
  <2>3. CASE vdi[disk[h]].st # "live"
    BY <1>0, <1>2, <2>1, <2>3, DiskSteps DEF DiskStep, Becomes
  <2> QED
    BY <2>2, <2>3
<1>3. ASSUME NEW h \in Handlers, pc'[h] \in Keeping PROVE vdi'[disk'[h]].st # "dead"
  <2>0. pc'[h] # "idle" /\ \A v \in Volumes : ~Call(h, v)
    BY <1>0, <1>3 DEF Keeping, WithDisk, Call, CreateVolume, DeleteVolume, Accept, GoTo, HandlerTypeOK
  <2>1. CASE Untouched(h)
    BY <1>2, <1>3, <2>0, <2>1 DEF Untouched, KeptInv
  <2>2. CASE HandlerStep(h) \/ \E d \in VDIs : CreateAgain(h, d)
    BY <1>0, <1>2, <1>3, <2>0, <2>2, NewWork DEF KeptInv
  <2> QED
    BY <1>0, <2>0, <2>1, <2>2, HandlerSteps
<1>4. ASSUME NEW e \in VDIs, NEW v \in Volumes,
             vdi[e].st = "dead" \/ (vdi[e].st = "live" /\ vdi[e].vol = v)
      PROVE  vdi'[e].st = "dead" \/ (vdi'[e].st = "live" /\ vdi'[e].vol = v)
  BY <1>0, <1>4, DiskSteps DEF DiskStep, Becomes
<1>5. ASSUME NEW h \in Handlers, pc'[h] = "deleteRest", NEW e \in extra'[h]
      PROVE  /\ e # disk'[h]
             /\ \/ vdi'[e].st = "dead"
                \/ vdi'[e].st = "live" /\ vdi'[e].vol = req'[h]
  <2>0. /\ pc'[h] # "idle" /\ \A v \in Volumes : ~Call(h, v)
        /\ pc'[h] \in Keeping /\ req'[h] \in Volumes /\ e \in VDIs
    BY <1>0, <1>5 DEF Keeping, WithDisk, Call, CreateVolume, DeleteVolume, Accept, GoTo, HandlerTypeOK
  <2>1. CASE Untouched(h)
    BY <1>4, <1>5, <2>0, <2>1 DEF Untouched, KeptInv
  <2>2. CASE HandlerStep(h) \/ \E d \in VDIs : CreateAgain(h, d)
    BY <1>0, <1>4, <1>5, <2>0, <2>2, NewWork DEF KeptInv
  <2> QED
    BY <1>0, <2>0, <2>1, <2>2, HandlerSteps
<1>6. ASSUME NEW v \in Volumes, co'[v] = "bound" PROVE volID'[v] \in Live'
  <2>1. vdi'[volID'[v]].st = "dead" \/ volID'[v] \in Live'
    BY <1>6 DEF VolumeInv, FinalDisks
  <2>2. CASE co'[v] = co[v] /\ volID'[v] = volID[v]
    <3>1. volID[v] \in FinalDisks(v) /\ volID[v] \in VDIs /\ vdi[volID[v]].st = "live"
          /\ vdi[volID[v]].vol = v
      BY <1>6, <2>2 DEF KeptInv, VolumeInv, Live, FinalDisks
    <3>2. vdi'[volID[v]].st # "dead"
      <4> SUFFICES ASSUME vdi'[volID[v]].st = "dead" PROVE FALSE
        OBVIOUS
      <4>1. co[v] \in {"wanted", "deleting"}
        BY <3>1, DeletionSteps
      <4> QED
        BY <1>6, <2>2, <4>1
    <3> QED
      BY <2>1, <2>2, <3>2
  <2>3. ASSUME NEW h \in Handlers, VolumeCreated(h), req[h] = v, ~(co'[v] = co[v] /\ volID'[v] = volID[v])
        PROVE  volID'[v] \in Live'
    <3>1. pc[h] = "created" /\ UNCHANGED vdi /\ volID'[v] = disk[h]
      BY <1>0, <2>3 DEF VolumeCreated, diskVars, coVars, COTypeOK
    <3>2. vdi[disk[h]].st # "dead"
      BY <3>1 DEF KeptInv, Keeping, WithDisk
    <3> QED
      BY <2>1, <3>1, <3>2
  <2>4. ASSUME NEW h \in Handlers, VolumeDeleted(h), req[h] = v PROVE FALSE
    BY <1>0, <1>6, <2>4 DEF VolumeDeleted, COTypeOK
  <2>5. co'[v] # "deleting"
    BY <1>6
  <2> QED
    BY <1>0, <2>2, <2>3, <2>4, <2>5, COSteps
<1> QED
  BY <1>1, <1>3, <1>5, <1>6 DEF KeptInv

(* Without --temp-cleanup, and with one call at a time per volume, a       *)
(* volume keeps its disk until DeleteVolume, whatever fails or restarts:   *)
(* what cleanup_deletes_volume finds is the cleanup's doing alone.         *)
THEOREM BoundVolumesSurvive == SerialCO /\ ~CleanupEnabled => (Spec => []BoundSurvives)
<1>1. Init => KeptInv
  BY DEF Init, CleanupInit, KeptInv, Keeping, WithDisk
<1>2. ASSUME SerialCO, ~CleanupEnabled PROVE Spec => []BoundSurvives
  <2>1. /\ ProvisioningInv /\ ProvisioningInv' /\ KeptInv /\ [Next]_vars => KeptInv'
    BY <1>2, KeptStep
  <2>2. ProvisioningInv /\ KeptInv => BoundSurvives
    BY DEF ProvisioningInv, VolumeInv, KeptInv, BoundSurvives, Live, FinalDisks
  <2> QED
    BY <1>1, <1>2, <2>1, <2>2, ProvisioningCorrect, PTL DEF Spec
<1> QED
  BY <1>2

----------------------------------------------------------------------------
(* What the second look of setDeletionCandidate is worth.                  *)

(* No return path of createDisk or of setDeletionCandidate keeps the lock, *)
(* and no createDisk is under way between the second look and the mark.    *)
LockExcludes ==
    /\ cpc \in {"refetch", "mark"} => \A h \in Handlers : pc[h] \notin InSection
    /\ cpc \notin {"lock", "refetch", "mark"} => writer = "free"
    /\ \A h \in readers : pc[h] \in InSection

(* CreationLock is released on every return, crashes included, and keeps   *)
(* the cleanup and createDisk apart, for calls that overlap at will.       *)
THEOREM CreationLockExcludes == Spec => []LockExcludes
<1>1. CandidateInv => LockExcludes
  BY TypeParts DEF CandidateInv, LockInv, LockExcludes, LockTypeOK
<1>2. CandidateInv /\ UNCHANGED vars => CandidateInv'
  BY CandidateStep
<1> QED
  BY CandidateInit, CandidateStep, <1>1, <1>2, PTL DEF Spec

(* When the disk is marked it has, unless it is gone, the name and the     *)
(* metadata with which it was listed: nothing but a deletion comes between *)
(* the second look and the mark.                                           *)
SecondLookHolds == cpc = "mark" /\ cur \in Live => StillTemporary

(* A handler that has its disk under the final name.                       *)
HasFinal(h) ==
    /\ disk[h] \in VDIs
    /\ \/ vdi[disk[h]].st = "live" /\ vdi[disk[h]].name = "final"
       \/ vdi[disk[h]].st = "dead"

(* StorageInfo, which is stored without the lock, never meets a temporary  *)
(* disk; so a disk that has been looked at is written by nobody else.      *)
LookInv ==
    /\ \A h \in Handlers : pc[h] \in {"refetchDisk", "storeInfo"} => HasFinal(h)
    /\ cpc = "mark" => vdi[cur].st \in {"live", "dead"}
    /\ SecondLookHolds

LEMMA LookInit == Init => LookInv
BY DEF Init, CleanupInit, LookInv, SecondLookHolds

LEMMA HasFinalStays ==
    ASSUME TypeOK, [Next]_vars, NEW h \in Handlers, HasFinal(h), disk'[h] = disk[h]
    PROVE  HasFinal(h)'
BY DiskSteps DEF HasFinal, DiskStep, Becomes

LEMMA HasFinalStep ==
    ASSUME TypeOK, LookInv, [Next]_vars,
           NEW h \in Handlers, pc'[h] \in {"refetchDisk", "storeInfo"}
    PROVE  HasFinal(h)'
<1> USE TypeParts DEF HandlerTypeOK
<1>1. CASE disk'[h] = disk[h] /\ pc[h] \in {"refetchDisk", "storeInfo"}
  BY <1>1, HasFinalStays DEF LookInv
<1>2. CASE ~(disk'[h] = disk[h] /\ pc[h] \in {"refetchDisk", "storeInfo"})
  <2>1. FindFinal(h) \/ RenameDisk(h)
    <3>1. ~Untouched(h)
      BY <1>2 DEF Untouched
    <3>2. ASSUME NEW v \in Volumes, Call(h, v) PROVE FALSE
      BY <3>2 DEF Call, CreateVolume, DeleteVolume, Accept, GoTo
    <3>3. ASSUME NEW d \in VDIs, CreateAgain(h, d) PROVE FALSE
      BY <3>3 DEF CreateAgain
    <3>4. ASSUME HandlerStep(h), ~FindFinal(h), ~RenameDisk(h) PROVE FALSE
      <4> USE DEF GoTo, Return
      <4>1. ~LockCreation(h) /\ ~FindTemp(h) /\ ~ListTemp(h) /\ ~RestDeleted(h)
        BY DEF LockCreation, FindTemp, ListTemp, RestDeleted
      <4>2. ~NoRoom(h) /\ ~DiskCreated(h) /\ ~StoreInfo(h) /\ ~VolumeCreated(h)
        BY <1>2 DEF NoRoom, DiskCreated, StoreInfo, VolumeCreated
      <4>3. ~FindDeleted(h) /\ ~DeleteDisk(h) /\ ~VolumeDeleted(h) /\ ~RefetchDisk(h)
        BY <1>2 DEF FindDeleted, DeleteDisk, VolumeDeleted, RefetchDisk
      <4>4. \A d \in VDIs : ~DeleteRest(h, d) /\ ~CreateDisk(h, d)
        BY <1>2 DEF DeleteRest, CreateDisk
      <4> QED
        BY <3>4, <4>1, <4>2, <4>3, <4>4 DEF HandlerStep
    <3> QED
      BY <3>1, <3>2, <3>3, <3>4, HandlerSteps
  <2>2. CASE FindFinal(h)
    <3>1. disk'[h] \in FinalDisks(req[h]) /\ UNCHANGED vdi
      BY <2>2 DEF FindFinal, GoTo, Return, diskVars
    <3> QED
      BY <3>1 DEF FinalDisks, Live, HasFinal
  <2>3. CASE RenameDisk(h)
    <3>1. disk[h] \in Live /\ RenameVDI(disk[h]) /\ disk'[h] = disk[h]
      BY <2>3 DEF RenameDisk, Return
    <3> QED
      BY <3>1 DEF RenameVDI, HasFinal, Live, DisksTypeOK, VDIRecord
  <2> QED
    BY <2>1, <2>2, <2>3
<1> QED
  BY <1>1, <1>2

(* The goroutine's own steps up to the mark.                               *)
LEMMA LookSince ==
    ASSUME TypeOK, [Next]_vars, cpc' = "mark"
    PROVE  /\ cur' = cur /\ listing' = listing
           /\ cpc = "mark" \/ (UNCHANGED vdi /\ StillTemporary)
<1> DEFINE P == /\ cur' = cur /\ listing' = listing
                /\ cpc = "mark" \/ (UNCHANGED vdi /\ StillTemporary)
<1>1. UNCHANGED cleanupVars => P
  BY DEF cleanupVars
<1>2. CleanupStep \/ CleanupFault \/ TimePasses => P
  BY DEF CleanupStep, CleanupFault, TimePasses, List, EndPass, MarkFails, MarkReturn,
         Locked, Refetch, Mark, Skip, Observe, DeleteCandidate, DeleteCandidateFails,
         WantMark, TenMinutes, ThirtyMinutes, Listed, Done, diskVars
<1>3. ~CleanupRestarts
  BY DEF CleanupRestarts
<1>4. UNCHANGED cleanupVars \/ CleanupStep \/ CleanupFault \/ TimePasses \/ CleanupRestarts
  BY DEF Next, vars, Call, CreateVolume, DeleteVolume, Accept, HandlerStep, FindFinal,
         LockCreation, FindTemp, ListTemp, RestDeleted, NoRoom, DiskCreated, RenameDisk,
         RefetchDisk, StoreInfo, VolumeCreated, FindDeleted, DeleteDisk, VolumeDeleted,
         DeleteRest, CreateDisk, ReleaseVolume, XOTaskEnds, Cleanup, Time, Fault, Restart,
         CleanupFails, TaskFails, HandlerFails, DeleteRestFails, CreateAgain
<1> QED
  BY <1>1, <1>2, <1>3, <1>4

LEMMA SecondLookStep ==
    ASSUME CandidateInv, LookInv, [Next]_vars
    PROVE  SecondLookHolds'
<1> USE DEF CandidateInv
<1> SUFFICES ASSUME cpc' = "mark", cur' \in Live' PROVE StillTemporary'
  BY DEF SecondLookHolds
<1>1. /\ cur' = cur /\ listing' = listing
      /\ cpc = "mark" \/ (UNCHANGED vdi /\ StillTemporary)
  BY LookSince
<1>2. CASE UNCHANGED vdi /\ StillTemporary
  BY <1>1, <1>2 DEF StillTemporary, Live
<1>3. CASE cpc = "mark"
  <2>1. cur \in VDIs /\ vdi'[cur].st = "live" /\ DiskStep(cur)
    BY <1>1, <1>3, DiskSteps DEF MarkInv, Live
  <2>2. ~Mark
    BY DEF Mark, MarkReturn
  <2>3. ASSUME NEW h \in Handlers PROVE ~RenameDisk(h)
    BY <1>3, NoRenameWhileMarking
  <2>4. ASSUME NEW h \in Handlers, StoreInfo(h), vdi[cur].st = "live" PROVE disk[h] # cur
    <3>1. pc[h] = "storeInfo" /\ HasFinal(h)
      BY <2>4 DEF StoreInfo, LookInv
    <3>2. vdi[cur].name = "temp"
      BY <1>3, <2>1, <2>4 DEF MarkInv, Live
    <3> QED
      BY <2>4, <3>1, <3>2 DEF HasFinal
  <2>5. vdi[cur].st \in {"live", "dead"}
    BY <1>3 DEF LookInv
  <2>6. vdi'[cur] = vdi[cur]
    BY <2>1, <2>2, <2>3, <2>4, <2>5 DEF DiskStep, Becomes
  <2> QED
    BY <1>1, <1>3, <2>1, <2>6 DEF LookInv, SecondLookHolds, StillTemporary, Live
<1> QED
  BY <1>1, <1>2, <1>3

LEMMA LookStep ==
    ASSUME CandidateInv, LookInv, [Next]_vars
    PROVE  LookInv'
<1> USE DEF CandidateInv
<1>1. ASSUME NEW h \in Handlers, pc'[h] \in {"refetchDisk", "storeInfo"} PROVE HasFinal(h)'
  BY <1>1, HasFinalStep
<1>2. ASSUME cpc' = "mark" PROVE vdi'[cur'].st \in {"live", "dead"}
  <2>1. /\ cur' = cur
        /\ cpc = "mark" \/ (UNCHANGED vdi /\ StillTemporary)
    BY <1>2, LookSince
  <2>2. CASE UNCHANGED vdi /\ StillTemporary
    BY <2>1, <2>2 DEF StillTemporary, Live
  <2>3. CASE cpc = "mark"
    <3>1. vdi[cur].st \in {"live", "dead"} /\ DiskStep(cur)
      BY <2>3, DiskSteps DEF LookInv, MarkInv
    <3> QED
      BY <2>1, <3>1 DEF DiskStep, Becomes
  <2> QED
    BY <2>1, <2>2, <2>3
<1> QED
  BY <1>1, <1>2, SecondLookStep DEF LookInv

(* The look and the mark of setDeletionCandidate are two calls; with the   *)
(* lock they are as good as one, but for a deletion.                       *)
THEOREM LookAndMarkAreOne == Spec => []SecondLookHolds
<1>1. CandidateInv /\ LookInv /\ [Next]_vars => CandidateInv' /\ LookInv'
  <2>1. CandidateInv /\ UNCHANGED vars => CandidateInv'
    BY CandidateStep
  <2> QED
    BY <2>1, CandidateStep, LookStep
<1>2. LookInv => SecondLookHolds
  BY DEF LookInv
<1> QED
  BY CandidateInit, LookInit, <1>1, <1>2, PTL DEF Spec

============================================================================

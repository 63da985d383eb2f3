----------------------------- MODULE LeakProofs -----------------------------
(***************************************************************************)
(* What a volume may cost in disks, and who may take its disk away: for    *)
(* any volumes, disks, handlers and number of faults, with the cleanup.    *)
(***************************************************************************)
EXTENDS VolumeProvisioningProofs, FiniteSetTheorems

----------------------------------------------------------------------------
(* A handler knows a disk only where it works on it, or has deleted it.    *)
HeldInv ==
    \A h \in Handlers :
       /\ pc[h] \notin WithDisk \cup {"deleted"} => disk[h] = NoVDI
       /\ pc[h] = "deleted" => disk[h] = NoVDI \/ vdi[disk[h]].st = "dead"

LEMMA HeldStep ==
    ASSUME ProvisioningInv, HeldInv, [Next]_vars
    PROVE  HeldInv'
<1> DEFINE Q(h) == /\ pc'[h] \notin WithDisk \cup {"deleted"} => disk'[h] = NoVDI
                   /\ pc'[h] = "deleted" => disk'[h] = NoVDI \/ vdi'[disk'[h]].st = "dead"
<1> SUFFICES ASSUME NEW h \in Handlers PROVE Q(h)
  BY DEF HeldInv
<1>0. /\ TypeOK /\ DisksTypeOK /\ HandlerTypeOK /\ HandlerInv(h)
      /\ pc[h] \notin WithDisk \cup {"deleted"} => disk[h] = NoVDI
      /\ pc[h] = "deleted" => disk[h] = NoVDI \/ vdi[disk[h]].st = "dead"
  BY TypeParts DEF HeldInv, ProvisioningInv, CandidateInv
<1>1. CASE Untouched(h)
  <2>1. ASSUME disk[h] \in VDIs, vdi[disk[h]].st = "dead" PROVE vdi'[disk[h]].st = "dead"
    BY <1>0, <2>1, DiskSteps DEF DiskStep
  <2> QED
    BY <1>0, <1>1, <2>1 DEF Untouched, HandlerTypeOK
<1>2. CASE pc'[h] = "idle" /\ disk'[h] = NoVDI
  BY <1>2
<1>3. ASSUME NEW v \in Volumes, Call(h, v) PROVE Q(h)
  BY <1>0, <1>3 DEF Call, CreateVolume, DeleteVolume, Accept, GoTo, HandlerTypeOK, WithDisk
<1>4. ASSUME NEW d \in VDIs, CreateAgain(h, d) PROVE Q(h)
  BY <1>0, <1>4 DEF CreateAgain, HandlerTypeOK, WithDisk
<1>5. CASE HandlerStep(h)
  <2> USE <1>0 DEF HandlerTypeOK, GoTo, Return, WithDisk
  <2>1. CASE FindFinal(h) \/ FindDeleted(h)
    BY <2>1 DEF FindFinal, FindDeleted
  <2>2. CASE LockCreation(h) \/ RestDeleted(h) \/ DiskCreated(h)
    BY <2>2 DEF LockCreation, RestDeleted, DiskCreated
  <2>3. CASE FindTemp(h) \/ ListTemp(h)
    BY <2>3 DEF FindTemp, ListTemp
  <2>4. CASE NoRoom(h) \/ VolumeCreated(h) \/ VolumeDeleted(h)
    BY <2>4 DEF NoRoom, VolumeCreated, VolumeDeleted
  <2>5. CASE RenameDisk(h) \/ RefetchDisk(h) \/ StoreInfo(h)
    BY <2>5 DEF RenameDisk, RefetchDisk, StoreInfo
  <2>6. CASE DeleteDisk(h)
    <3>1. /\ disk[h] \in VDIs /\ pc'[h] = "deleted" /\ disk'[h] = disk[h]
          /\ vdi[disk[h]].st \in {"live", "dead"}
      BY <2>6 DEF DeleteDisk, HandlerInv, WorksOn
    <3>2. vdi'[disk[h]].st = "dead"
      BY <2>6, <3>1 DEF DeleteDisk, DeleteVDI, Live, NoDisk, DisksTypeOK
    <3> QED
      BY <3>1, <3>2
  <2>7. ASSUME NEW d \in VDIs, DeleteRest(h, d) \/ CreateDisk(h, d) PROVE Q(h)
    BY <2>7 DEF DeleteRest, CreateDisk
  <2> QED
    BY <1>5, <2>1, <2>2, <2>3, <2>4, <2>5, <2>6, <2>7 DEF HandlerStep
<1> QED
  BY <1>0, <1>1, <1>2, <1>3, <1>4, <1>5, HandlerSteps

(* A handler lets go of a disk that stays a temporary one only when a call *)
(* fails: otherwise it has deleted, renamed or never had it.               *)
LEMMA ForgottenDisks ==
    ASSUME ProvisioningInv, HeldInv, [Next]_vars, NEW h \in Handlers, disk[h] \in VDIs,
           disk'[h] # disk[h], vdi'[disk[h]].st \in {"pending", "live"},
           vdi'[disk[h]].name = "temp"
    PROVE  CallFails
<1>0. /\ TypeOK /\ DisksTypeOK /\ HandlerTypeOK /\ HandlerInv(h) /\ MarkInv
      /\ pc[h] \in WithDisk \/ (pc[h] = "deleted" /\ vdi[disk[h]].st = "dead")
  BY TypeParts, NoVDIAssumption DEF HeldInv, ProvisioningInv, CandidateInv
<1>1. vdi[disk[h]].st # "dead" /\ pc[h] \in WithDisk /\ WorksOn(h, disk[h])
  <2>1. vdi[disk[h]].st # "dead"
    BY <1>0, DiskSteps DEF DiskStep
  <2> QED
    BY <1>0, <2>1 DEF HandlerInv
<1>2. CASE HandlerStep(h)
  <2> USE <1>0, <1>1 DEF HandlerTypeOK, GoTo, Return, WithDisk, WorksOn
  <2>1. CASE FindFinal(h) \/ FindDeleted(h) \/ FindTemp(h) \/ ListTemp(h)
    BY <2>1 DEF FindFinal, FindDeleted, FindTemp, ListTemp
  <2>2. CASE LockCreation(h) \/ RestDeleted(h) \/ DiskCreated(h) \/ DeleteDisk(h)
    BY <2>2 DEF LockCreation, RestDeleted, DiskCreated, DeleteDisk
  <2>3. CASE NoRoom(h) \/ VolumeDeleted(h)
    BY <2>3 DEF NoRoom, VolumeDeleted
  <2>4. CASE RenameDisk(h) \/ RefetchDisk(h) \/ StoreInfo(h)
    BY <2>4 DEF RenameDisk, RefetchDisk, StoreInfo, Live
  <2>5. CASE VolumeCreated(h)
    <3>1. pc[h] = "created" /\ vdi' = vdi /\ disk[h] \in Live
      BY <2>5 DEF VolumeCreated, diskVars, Live
    <3> QED
      BY <3>1 DEF HandlerInv, Renamed
  <2>6. ASSUME NEW d \in VDIs, DeleteRest(h, d) \/ CreateDisk(h, d) PROVE FALSE
    BY <2>6 DEF DeleteRest, CreateDisk
  <2> QED
    BY <1>2, <2>1, <2>2, <2>3, <2>4, <2>5, <2>6 DEF HandlerStep
<1>3. ASSUME NEW v \in Volumes, Call(h, v) PROVE FALSE
  BY <1>3 DEF Call, CreateVolume, DeleteVolume, Accept
<1>4. ASSUME NEW d \in VDIs, CreateAgain(h, d) PROVE CallFails
  BY <1>4 DEF CreateAgain
<1> QED
  BY <1>0, <1>2, <1>3, <1>4, HandlerSteps DEF Untouched

LEMMA FaultSteps ==
    ASSUME [Next]_vars
    PROVE  faults' = faults \/ CallFails
<1>1. faults' = faults \/ CallFails
  BY DEF Next, vars, diskVars, Call, CreateVolume, DeleteVolume, Accept, HandlerStep, FindFinal,
         LockCreation, FindTemp, ListTemp, RestDeleted, NoRoom, DiskCreated, RenameDisk,
         RefetchDisk, StoreInfo, VolumeCreated, FindDeleted, DeleteDisk, VolumeDeleted,
         DeleteRest, CreateDisk, ReleaseVolume, XOTaskEnds, Fault, Restart,
         TaskFails, HandlerFails, DeleteRestFails, CreateAgain,
         Cleanup, CleanupStep, List, EndPass, Locked, Refetch, Mark, Skip, Observe,
         DeleteCandidate, WantMark, CleanupFails, CleanupFault, MarkFails,
         DeleteCandidateFails, Time, TimePasses, TenMinutes, ThirtyMinutes
<1> QED
  BY <1>1

----------------------------------------------------------------------------
(* A step adds at most one disk to what a volume has leaked, and only with *)
(* a failed call: of two such disks, one handler would have had both.      *)
LEMMA LeakSteps ==
    ASSUME ProvisioningInv, HeldInv, [Next]_vars, NEW v \in Volumes
    PROVE  \/ Leaked(v)' \subseteq Leaked(v)
           \/ CallFails /\ \E x \in VDIs : Leaked(v)' \subseteq Leaked(v) \cup {x}
<1>0. /\ TypeOK /\ DisksTypeOK /\ HandlerTypeOK /\ SerialInv
      /\ \A h \in Handlers : HandlerInv(h)
  BY TypeParts DEF ProvisioningInv, CandidateInv
<1>1. ASSUME NEW d \in Leaked(v)', d \notin Leaked(v)
      PROVE  CallFails /\ \E h \in Handlers : disk[h] = d /\ req[h] = v /\ pc[h] # "idle"
  <2>1. /\ d \in VDIs /\ vdi'[d].st \in {"pending", "live"}
        /\ vdi'[d].vol = v /\ vdi'[d].name = "temp"
        /\ \A h \in Handlers : disk'[h] # d
    BY <1>1 DEF Leaked
  <2>2. /\ vdi[d].st \in {"pending", "live"}
        /\ vdi[d].vol = v /\ vdi[d].name = "temp"
    BY <1>0, <2>1, DiskSteps DEF DiskStep, Becomes, DisksTypeOK, VDIRecord
  <2>3. PICK h \in Handlers : disk[h] = d
    BY <1>1, <2>1, <2>2 DEF Leaked
  <2>4. CallFails
    BY <2>1, <2>3, ForgottenDisks
  <2>5. pc[h] \in WithDisk
    BY <2>1, <2>2, <2>3, NoVDIAssumption DEF HeldInv
  <2>6. req[h] = v
    BY <1>0, <2>2, <2>3, <2>5 DEF HandlerInv, WorksOn
  <2> QED
    BY <2>3, <2>4, <2>5, <2>6 DEF WithDisk
<1>2. ASSUME NEW d \in Leaked(v)', NEW e \in Leaked(v)',
             d \notin Leaked(v), e \notin Leaked(v)
      PROVE  d = e
  BY <1>0, <1>1, <1>2 DEF SerialInv
<1>3. CASE Leaked(v)' \subseteq Leaked(v)
  BY <1>3
<1>4. ASSUME NEW x \in Leaked(v)', x \notin Leaked(v)
      PROVE  CallFails /\ \E y \in VDIs : Leaked(v)' \subseteq Leaked(v) \cup {y}
  <2>1. x \in VDIs
    BY DEF Leaked
  <2>2. Leaked(v)' \subseteq Leaked(v) \cup {x}
    BY <1>2, <1>4
  <2> QED
    BY <1>1, <1>4, <2>1, <2>2
<1> QED
  BY <1>3, <1>4

(* The bound on the leaks, with what makes it inductive.                   *)
LeakInv ==
    /\ HeldInv
    /\ \A v \in Volumes : IsFiniteSet(Leaked(v)) /\ Cardinality(Leaked(v)) <= faults

LEMMA LeakInit == Init => LeakInv
<1> SUFFICES ASSUME Init PROVE LeakInv
  OBVIOUS
<1>1. HeldInv
  BY DEF Init, HeldInv
<1>2. \A v \in Volumes : Leaked(v) = {}
  BY DEF Init, DisksInit, NoDisk, Leaked
<1>3. faults = 0
  BY DEF Init, DisksInit
<1> QED
  BY <1>1, <1>2, <1>3, FS_EmptySet DEF LeakInv

LEMMA LeakStep ==
    ASSUME ProvisioningInv, LeakInv, [Next]_vars
    PROVE  LeakInv'
<1>1. HeldInv'
  BY HeldStep DEF LeakInv
<1>2. ASSUME NEW v \in Volumes
      PROVE  IsFiniteSet(Leaked(v)') /\ Cardinality(Leaked(v)') <= faults'
  <2>1. /\ IsFiniteSet(Leaked(v)) /\ Cardinality(Leaked(v)) \in Nat
        /\ Cardinality(Leaked(v)) <= faults /\ faults \in Nat
    BY FS_CardinalityType, TypeParts
    DEF LeakInv, ProvisioningInv, CandidateInv, DisksTypeOK
  <2>2. CASE Leaked(v)' \subseteq Leaked(v)
    <3>1. IsFiniteSet(Leaked(v)') /\ Cardinality(Leaked(v)') <= Cardinality(Leaked(v))
      BY <2>1, <2>2, FS_Subset
    <3>2. Cardinality(Leaked(v)') \in Nat
      BY <3>1, FS_CardinalityType
    <3>3. faults' = faults \/ faults' = faults + 1
      BY FaultSteps DEF CallFails
    <3> QED
      BY <2>1, <3>1, <3>2, <3>3
  <2>3. ASSUME CallFails, NEW x \in VDIs, Leaked(v)' \subseteq Leaked(v) \cup {x}
        PROVE  IsFiniteSet(Leaked(v)') /\ Cardinality(Leaked(v)') <= faults'
    <3>1. /\ IsFiniteSet(Leaked(v) \cup {x})
          /\ Cardinality(Leaked(v) \cup {x}) <= Cardinality(Leaked(v)) + 1
      <4> DEFINE L == Leaked(v)
      <4>1. IsFiniteSet(L) /\ Cardinality(L) \in Nat
        BY <2>1
      <4> HIDE DEF L
      <4>2. /\ IsFiniteSet(L \cup {x})
            /\ Cardinality(L \cup {x}) = IF x \in L THEN Cardinality(L) ELSE Cardinality(L) + 1
        BY <4>1, FS_AddElement
      <4>3. IsFiniteSet(L \cup {x}) /\ Cardinality(L \cup {x}) <= Cardinality(L) + 1
        BY <4>1, <4>2
      <4> QED
        BY <4>3 DEF L
    <3>2. /\ IsFiniteSet(Leaked(v)')
          /\ Cardinality(Leaked(v)') <= Cardinality(Leaked(v) \cup {x})
      BY <2>3, <3>1, FS_Subset
    <3>3. Cardinality(Leaked(v)') \in Nat /\ Cardinality(Leaked(v) \cup {x}) \in Nat
      BY <3>1, <3>2, FS_CardinalityType
    <3>4. faults' = faults + 1
      BY <2>3 DEF CallFails
    <3> QED
      BY <2>1, <3>1, <3>2, <3>3, <3>4
  <2> QED
    BY <2>2, <2>3, LeakSteps DEF LeakInv
<1> QED
  BY <1>1, <1>2 DEF LeakInv

LEMMA LeaksBounded == SerialCO => (Spec => [](ProvisioningInv /\ LeakInv))
<1>1. ASSUME SerialCO PROVE Spec => [](ProvisioningInv /\ LeakInv)
  <2>1. ProvisioningInv /\ LeakInv /\ [Next]_vars => LeakInv'
    BY LeakStep
  <2> QED
    BY <1>1, <2>1, LeakInit, ProvisioningCorrect, PTL DEF Spec
<1> QED
  BY <1>1

(* A caller that has one call per volume in flight leaks no more temporary *)
(* disks of a volume than calls fail, tasks fail and restarts happen.      *)
THEOREM LeaksNeedFaults == SerialCO => (Spec => []LeaksAreFaults)
<1>1. LeakInv => LeaksAreFaults
  BY DEF LeakInv, LeaksAreFaults
<1> QED
  BY <1>1, LeaksBounded, PTL

(* All the disks Xen Orchestra has, or is about to have, for a volume.     *)
DisksOf(v) == {d \in VDIs : vdi[d].st \in {"pending", "live"} /\ vdi[d].vol = v}

DisksAreBounded ==
    \A v \in Volumes : IsFiniteSet(DisksOf(v)) /\ Cardinality(DisksOf(v)) <= faults + 1

(* A disk that is not leaked is the final one or in the hands of the only  *)
(* handler, and there is not one of each.                                  *)
LEMMA OneDiskInUse ==
    ASSUME ProvisioningInv, HeldInv, NEW v \in Volumes,
           NEW d \in DisksOf(v), NEW e \in DisksOf(v), d \notin Leaked(v), e \notin Leaked(v)
    PROVE  d = e
<1>0. /\ TypeOK /\ DisksTypeOK /\ HandlerTypeOK /\ SerialInv /\ MarkInv /\ UniqueFinal
      /\ \A h \in Handlers : HandlerInv(h)
  BY TypeParts DEF ProvisioningInv, CandidateInv
<1> DEFINE HeldBy(h, x) == disk[h] = x /\ req[h] = v /\ pc[h] \in WithDisk
<1>1. ASSUME NEW x \in DisksOf(v), x \notin Leaked(v), x \notin FinalDisks(v)
      PROVE  vdi[x].name = "temp" /\ \E h \in Handlers : HeldBy(h, x)
  <2>1. x \in VDIs /\ vdi[x].st \in {"pending", "live"} /\ vdi[x].vol = v
    BY DEF DisksOf
  <2>2. vdi[x].name = "temp"
    BY <1>0, <1>1, <2>1 DEF MarkInv, FinalDisks, Live, DisksTypeOK, VDIRecord
  <2>3. PICK h \in Handlers : disk[h] = x
    BY <1>1, <2>1, <2>2 DEF Leaked
  <2>4. pc[h] \in WithDisk
    BY <2>1, <2>3, NoVDIAssumption DEF HeldInv
  <2>5. req[h] = v
    BY <1>0, <2>1, <2>3, <2>4 DEF HandlerInv, WorksOn
  <2> QED
    BY <2>2, <2>3, <2>4, <2>5
<1>2. ASSUME NEW x \in DisksOf(v), NEW y \in FinalDisks(v),
             x \notin Leaked(v), x \notin FinalDisks(v)
      PROVE  FALSE
  <2>1. PICK h \in Handlers : HeldBy(h, x)
    BY <1>1, <1>2
  <2>2. pc[h] \in Renamed \cup {"delete"}
    BY <1>0, <1>2, <2>1 DEF HandlerInv, WithDisk, BeforeRename, Renamed
  <2>3. y = x
    BY <1>0, <2>1, <2>2 DEF HandlerInv
  <2> QED
    BY <1>2, <2>3
<1>3. CASE d \in FinalDisks(v) /\ e \in FinalDisks(v)
  BY <1>0, <1>3 DEF UniqueFinal
<1>4. CASE d \notin FinalDisks(v) /\ e \notin FinalDisks(v)
  <2>1. PICK g \in Handlers : HeldBy(g, d)
    BY <1>1, <1>4
  <2>2. PICK h \in Handlers : HeldBy(h, e)
    BY <1>1, <1>4
  <2> QED
    BY <1>0, <2>1, <2>2 DEF SerialInv, WithDisk
<1> QED
  BY <1>2, <1>3, <1>4

(* However often a creation fails and is repeated, Xen Orchestra never has *)
(* more disks for a volume than one and the faults there were.             *)
THEOREM DisksNeedFaults == SerialCO => (Spec => []DisksAreBounded)
<1>1. ASSUME ProvisioningInv, LeakInv, NEW v \in Volumes
      PROVE  IsFiniteSet(DisksOf(v)) /\ Cardinality(DisksOf(v)) <= faults + 1
  <2> DEFINE L == Leaked(v)
             D == DisksOf(v)
  <2>1. /\ IsFiniteSet(L) /\ Cardinality(L) \in Nat
        /\ Cardinality(L) <= faults /\ faults \in Nat
    BY <1>1, FS_CardinalityType, TypeParts
    DEF LeakInv, ProvisioningInv, CandidateInv, DisksTypeOK
  <2>2. \E x : D \subseteq L \cup {x}
    <3>1. CASE D \subseteq L
      BY <3>1
    <3>2. ASSUME NEW x \in D, x \notin L PROVE D \subseteq L \cup {x}
      BY <1>1, <3>2, OneDiskInUse DEF LeakInv
    <3> QED
      BY <3>1, <3>2
  <2>3. PICK x : D \subseteq L \cup {x}
    BY <2>2
  <2> HIDE DEF L, D
  <2>4. /\ IsFiniteSet(L \cup {x})
        /\ Cardinality(L \cup {x}) = IF x \in L THEN Cardinality(L) ELSE Cardinality(L) + 1
    BY <2>1, FS_AddElement
  <2>5. IsFiniteSet(D) /\ Cardinality(D) <= Cardinality(L \cup {x})
    BY <2>3, <2>4, FS_Subset
  <2>6. Cardinality(D) \in Nat
    BY <2>5, FS_CardinalityType
  <2>7. IsFiniteSet(D) /\ Cardinality(D) <= faults + 1
    BY <2>1, <2>4, <2>5, <2>6
  <2> QED
    BY <2>7 DEF D
<1>2. ProvisioningInv /\ LeakInv => DisksAreBounded
  BY <1>1 DEF DisksAreBounded
<1> QED
  BY <1>2, LeaksBounded, PTL

----------------------------------------------------------------------------
(* What getOneDiskAndDeleteRest has still to delete are disks of its       *)
(* volume that nobody renames.                                             *)
RestInv ==
    \A h \in Handlers : pc[h] = "deleteRest" =>
       \A e \in extra[h] : \/ vdi[e].st = "dead"
                           \/ vdi[e].st = "live" /\ vdi[e].vol = req[h]

LEMMA RestStep ==
    ASSUME TypeOK, RestInv, [Next]_vars
    PROVE  RestInv'
<1> SUFFICES ASSUME NEW h \in Handlers, (pc[h])' = "deleteRest", NEW e \in (extra[h])'
             PROVE  \/ (vdi[e].st)' = "dead"
                    \/ (vdi[e].st)' = "live" /\ (vdi[e].vol)' = (req[h])'
  BY Zenon DEF RestInv
<1> USE DEF RestInv
<1>0. DisksTypeOK /\ HandlerTypeOK
  BY TypeParts
<1>1. CASE pc[h] = "deleteRest" /\ req'[h] = req[h] /\ extra'[h] \subseteq extra[h]
  <2>1. e \in extra[h] /\ e \in VDIs
    BY <1>0, <1>1 DEF HandlerTypeOK
  <2> QED
    BY <1>1, <2>1, DiskSteps DEF DiskStep, Becomes
<1>2. CASE /\ UNCHANGED vdi /\ req'[h] = req[h]
           /\ vdi[e].st = "live" /\ vdi[e].vol = req[h]
  BY <1>2
<1>3. CASE HandlerStep(h) \/ \E d \in VDIs : CreateAgain(h, d)
  BY <1>1, <1>2, <1>3, NewWork DEF Keeping, WithDisk
<1>4. ASSUME NEW v \in Volumes, Call(h, v) PROVE FALSE
  BY <1>0, <1>4 DEF Call, CreateVolume, DeleteVolume, Accept, GoTo, HandlerTypeOK
<1> QED
  BY <1>1, <1>3, <1>4, HandlerSteps DEF Untouched

(* The disk of a bound volume is taken away by nothing but the cleanup, in *)
(* a pass whose listing is older than the disk's final name.               *)
LostToCleanup ==
    [][\A v \in Volumes :
         co[v] = "bound" /\ volID[v] \in FinalDisks(v) /\ volID[v] \notin FinalDisks(v)' =>
            /\ DeleteCandidate(volID[v])
            /\ listing[volID[v]].name = "temp"]_vars

LEMMA BoundDiskSteps ==
    ASSUME ProvisioningInv, RestInv, [Next]_vars, NEW v \in Volumes, co[v] = "bound",
           volID[v] \in FinalDisks(v), volID[v] \notin FinalDisks(v)'
    PROVE  DeleteCandidate(volID[v]) /\ listing[volID[v]].name = "temp"
<1> DEFINE d == volID[v]
<1>0. /\ TypeOK /\ \A h \in Handlers : HandlerInv(h)
      /\ d \in VDIs /\ vdi[d].st = "live" /\ vdi[d].vol = v /\ vdi[d].name = "final"
  BY DEF ProvisioningInv, CandidateInv, FinalDisks, Live
<1>1. DeletedBy(d)
  <2>1. ~(vdi'[d].st = "live" /\ vdi'[d].vol = v /\ vdi'[d].name = "final")
    BY <1>0 DEF FinalDisks, Live
  <2> QED
    BY <1>0, <2>1, DiskSteps DEF DiskStep, Becomes
<1>2. ASSUME NEW h \in Handlers, DeleteRest(h, d) PROVE FALSE
  <2>1. pc[h] = "deleteRest" /\ req[h] = v
    BY <1>0, <1>2 DEF DeleteRest, RestInv
  <2> QED
    BY <1>0, <2>1 DEF HandlerInv, Creating, BeforeRename
<1>3. ASSUME NEW h \in Handlers, DeleteDisk(h), disk[h] = d PROVE FALSE
  <2>1. pc[h] = "delete" /\ req[h] = v
    BY <1>0, <1>3 DEF DeleteDisk, GoTo, HandlerInv, WorksOn, WithDisk
  <2> QED
    BY <1>0, <2>1 DEF HandlerInv, Deleting
<1>4. DeleteCandidate(d)
  BY <1>1, <1>2, <1>3 DEF DeletedBy
<1> QED
  BY <1>4 DEF DeleteCandidate, Listed

(* With the cleanup running, and one call per volume in flight, whatever   *)
(* fails or restarts: what cleanup_deletes_volume finds is the only way a  *)
(* bound volume loses its disk.                                            *)
THEOREM OnlyTheCleanupLosesVolumes == SerialCO => (Spec => LostToCleanup)
<1>1. Init => RestInv
  BY DEF Init, RestInv
<1>2. ProvisioningInv => TypeOK
  BY DEF ProvisioningInv, CandidateInv
<1>3. ASSUME SerialCO PROVE Spec => LostToCleanup
  <2>1. ProvisioningInv /\ RestInv /\ [Next]_vars => RestInv'
    BY <1>2, RestStep
  <2>2. ProvisioningInv /\ RestInv /\ [Next]_vars =>
          [\A v \in Volumes :
             co[v] = "bound" /\ volID[v] \in FinalDisks(v) /\ volID[v] \notin FinalDisks(v)' =>
                /\ DeleteCandidate(volID[v])
                /\ listing[volID[v]].name = "temp"]_vars
    BY BoundDiskSteps
  <2> QED
    BY <1>1, <1>3, <2>1, <2>2, ProvisioningCorrect, PTL DEF Spec, LostToCleanup
<1> QED
  BY <1>3

----------------------------------------------------------------------------
(* What a pass deletes, whose listing may be old.                          *)

(* A pass judges a disk by its listing.  What has a temporary name when it *)
(* is deleted is marked then, too: the listing can be wrong only of a disk *)
(* that has become a volume since.                                         *)
OnlyMarkedTemporaries ==
    [][\A d \in VDIs : DeleteCandidate(d) /\ d \in Live /\ vdi[d].name = "temp" =>
           vdi[d].desc = "candidate"]_vars

ListingInv ==
    \A d \in VDIs :
       /\ vdi[d].desc = "candidate" => vdi[d].st = "live"
       /\ listing[d].name = "temp" /\ listing[d].desc = "candidate" =>
             /\ vdi[d].st \in {"live", "dead"}
             /\ vdi[d].st = "live" /\ vdi[d].name = "temp" => vdi[d].desc = "candidate"

LEMMA ListingInit == Init => ListingInv
BY DEF Init, DisksInit, CleanupInit, NoListing, NoDisk, ListingInv

LEMMA ListingSteps ==
    ASSUME [Next]_vars
    PROVE  \/ listing' = listing
           \/ listing' = vdi /\ UNCHANGED vdi
           \/ listing' = NoListing
<1> DEFINE P == \/ listing' = listing
                \/ listing' = vdi /\ UNCHANGED vdi
                \/ listing' = NoListing
<1>1. UNCHANGED cleanupVars => P
  BY DEF cleanupVars
<1>2. CleanupStep \/ CleanupFault \/ TimePasses => P
  BY DEF CleanupStep, CleanupFault, TimePasses, List, EndPass, MarkFails, MarkReturn,
         Locked, Refetch, Mark, Skip, Observe, DeleteCandidate, DeleteCandidateFails,
         WantMark, TenMinutes, ThirtyMinutes, Listed, Done, diskVars
<1>3. CleanupRestarts => P
  BY DEF CleanupRestarts
<1>4. UNCHANGED cleanupVars \/ CleanupStep \/ CleanupFault \/ TimePasses \/ CleanupRestarts
  BY DEF Next, vars, Call, CreateVolume, DeleteVolume, Accept, HandlerStep, FindFinal,
         LockCreation, FindTemp, ListTemp, RestDeleted, NoRoom, DiskCreated, RenameDisk,
         RefetchDisk, StoreInfo, VolumeCreated, FindDeleted, DeleteDisk, VolumeDeleted,
         DeleteRest, CreateDisk, ReleaseVolume, XOTaskEnds, Cleanup, Time, Fault, Restart,
         CleanupFails, TaskFails, HandlerFails, DeleteRestFails, CreateAgain
<1> QED
  BY <1>1, <1>2, <1>3, <1>4

(* StorageInfo is written only where the name is final, so a temporary     *)
(* disk keeps its mark.                                                    *)
LEMMA MarksStay ==
    ASSUME TypeOK, LookInv, [Next]_vars, NEW d \in VDIs,
           vdi[d].st = "live", vdi[d].desc = "candidate", vdi'[d].name = "temp", vdi'[d].st = "live"
    PROVE  vdi'[d].desc = "candidate"
<1>1. ASSUME NEW h \in Handlers, StoreInfo(h), disk[h] = d PROVE vdi[d].name = "final"
  BY <1>1 DEF StoreInfo, LookInv, HasFinal
<1> QED
  BY <1>1, DiskSteps DEF DiskStep, Becomes

LEMMA ListingStep ==
    ASSUME TypeOK, LookInv, ListingInv, [Next]_vars
    PROVE  ListingInv'
<1> SUFFICES ASSUME NEW d \in VDIs
             PROVE  /\ vdi'[d].desc = "candidate" => vdi'[d].st = "live"
                    /\ listing'[d].name = "temp" /\ listing'[d].desc = "candidate" =>
                          /\ vdi'[d].st \in {"live", "dead"}
                          /\ vdi'[d].st = "live" /\ vdi'[d].name = "temp" =>
                                vdi'[d].desc = "candidate"
  BY DEF ListingInv
<1> USE DEF ListingInv
<1>1. vdi'[d].desc = "candidate" => vdi'[d].st = "live"
  BY DiskSteps DEF DiskStep, Becomes
<1>2. CASE listing' = listing
  <2>1. ASSUME listing[d].name = "temp", listing[d].desc = "candidate"
        PROVE  /\ vdi'[d].st \in {"live", "dead"}
               /\ vdi'[d].st = "live" /\ vdi'[d].name = "temp" => vdi'[d].desc = "candidate"
    <3>1. vdi'[d].st \in {"live", "dead"}
      BY <2>1, DiskSteps DEF DiskStep, Becomes
    <3>2. ASSUME vdi'[d].st = "live", vdi'[d].name = "temp" PROVE vdi'[d].desc = "candidate"
      <4>1. vdi[d].st = "live" /\ vdi[d].name = "temp"
        BY <2>1, <3>2, DiskSteps DEF DiskStep, Becomes
      <4> QED
        BY <2>1, <3>2, <4>1, MarksStay
    <3> QED
      BY <3>1, <3>2
  <2> QED
    BY <1>1, <1>2, <2>1
<1>3. CASE listing' = vdi /\ UNCHANGED vdi
  BY <1>1, <1>3
<1>4. CASE listing' = NoListing
  BY <1>1, <1>4 DEF NoListing, NoDisk
<1> QED
  BY <1>2, <1>3, <1>4, ListingSteps

(* However old its listing is, and whatever overlaps: what a pass deletes  *)
(* is marked as a candidate or has become a volume since it was listed.    *)
THEOREM TheCleanupDeletesMarked == Spec => OnlyMarkedTemporaries
<1> DEFINE A == \A d \in VDIs : DeleteCandidate(d) /\ d \in Live /\ vdi[d].name = "temp" =>
                    vdi[d].desc = "candidate"
           I == CandidateInv /\ LookInv /\ ListingInv
<1>1. Init => I
  BY CandidateInit, LookInit, ListingInit
<1>2. I /\ [Next]_vars => I'
  <2>1. CandidateInv /\ [Next]_vars => CandidateInv'
    BY CandidateStep
  <2> QED
    BY <2>1, LookStep, ListingStep DEF CandidateInv
<1>3. I /\ [Next]_vars => [A]_vars
  BY DEF ListingInv, DeleteCandidate, Listed, Live
<1> QED
  BY <1>1, <1>2, <1>3, PTL DEF Spec, OnlyMarkedTemporaries

============================================================================

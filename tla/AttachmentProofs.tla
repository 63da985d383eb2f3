-------------------------- MODULE AttachmentProofs --------------------------
(***************************************************************************)
(* Theorems about Attachment, for any nodes, storage repositories, UUIDs   *)
(* and number of faults.                                                   *)
(***************************************************************************)
EXTENDS Attachment, TLAPS

Exists(b) == vbd[b].st # "none"

(* The caller wants the volume on one node at most, and the call in flight *)
(* is for that node; its answer is not yet there.                          *)
CallerInv ==
    /\ \A m, n \in Nodes : co[m] # "detached" /\ co[n] # "detached" => m = n
    /\ pc \in Publishing => node \in Nodes /\ co[node] \in {"attaching", "detaching"}
    /\ pc \in Unpublishing =>
          \/ node \in Nodes /\ co[node] = "detaching"
          \/ node = AllNodes /\ \E n \in Nodes : co[n] = "detaching"

(* One disk, or one that is being migrated and its copy.  A disk that is   *)
(* being migrated is described as being migrated elsewhere, and its copy   *)
(* as having arrived.                                                      *)
DiskInv ==
    /\ Moving \subseteq Live
    /\ \A d \in VDIs : copy[d] # NoVDI =>
          /\ d \in Moving /\ copy[d] \in Live \ Moving
          /\ sr[copy[d]] = target[d]
          /\ mark[copy[d]] = target[d]
    /\ \A d, e \in Live : d = e \/ copy[d] = e \/ copy[e] = d
    /\ \A d \in Moving : mark[d] = target[d] /\ target[d] # sr[d]

(* A device is for the node that wants the volume, and for a disk that is  *)
(* where the node can use it and not described as being migrated: as the   *)
(* mark comes before the migration and is seen by findDisk, nothing        *)
(* attaches a disk that is being migrated.                                 *)
DeviceInv ==
    \A b \in VBDs : Exists(b) =>
        /\ vbd[b].node \in Nodes /\ co[vbd[b].node] # "detached"
        /\ vbd[b].vdi \in Live /\ mark[vbd[b].vdi] = NoSR
        /\ sr[vbd[b].vdi] \in ValidSRs[vbd[b].node]

(* What the publish handler knows of its disk between two calls.           *)
Alone == Live = {cur} /\ Moving = {}
Unmarked == {"checkVBDs", "recheck", "connect", "waitConnected", "checkFree",
             "setMark", "attach", "waitDevice", "published"}

PublishInv ==
    /\ pc \in Unmarked => Alone /\ mark[cur] = NoSR
    /\ pc = "clearMark" => Alone
    /\ pc \in {"recheck", "connect", "waitConnected"} =>
          dev \in VBDs /\ Exists(dev) /\ vbd[dev].node = node /\ vbd[dev].vdi = cur
    /\ pc \in {"checkFree", "setMark", "migrate"} =>
          dest \in HostSRs[node] /\ sr[cur] # dest
    /\ pc = "setMark" => \A b \in VBDs : ~Exists(b)
    /\ pc = "migrate" => Alone /\ mark[cur] = dest
    /\ pc = "migrating" => cur \in Moving /\ target[cur] = dest /\ dest \in HostSRs[node]
    /\ pc \in {"refetch", "unsetMark"} => Alone /\ sr[cur] \in HostSRs[node]
    /\ pc \in {"attach", "waitDevice", "published"} => sr[cur] \in ValidSRs[node]
    /\ pc = "published" => \E b \in VBDs : Exists(b) /\ vbd[b].node = node

(* What the unpublish handler knows: a device it has not listed is not one *)
(* of the node's.                                                          *)
Asked(b) == node = AllNodes \/ vbd[b].node = node

UnpublishInv ==
    /\ pc = "listVBDs" => \A b \in VBDs : Exists(b) => vbd[b].vdi = cur
    /\ pc = "deleteVBDs" => \A b \in VBDs : Exists(b) /\ Asked(b) => b \in todo
    /\ pc = "unpublished" => \A b \in VBDs : Exists(b) => ~Asked(b)

AttachedInv ==
    \A n \in Nodes : co[n] = "attached" =>
        \E b \in VBDs : Exists(b) /\ vbd[b].node = n

KnownInv ==
    /\ CallerInv /\ DiskInv /\ DeviceInv
    /\ PublishInv /\ UnpublishInv /\ AttachedInv

AttachmentInv == TypeOK /\ KnownInv

----------------------------------------------------------------------------
LEMMA AttachmentInit == Init => AttachmentInv
<1> SUFFICES ASSUME Init PROVE AttachmentInv
  OBVIOUS
<1> USE NoSRAssumption, NoVDIAssumption, NoVBDAssumption, NoNodeAssumption,
        MaxFaultsAssumption, AllNodesAssumption DEF Init, XOInit
<1>1. TypeOK
  BY DEF TypeOK, XOTypeOK, Device, NoDevice, Publishing, Unpublishing, WithDisk, WithDevice
<1>2. CallerInv
  BY DEF CallerInv, Publishing, Unpublishing
<1>3. DiskInv
  BY DEF DiskInv, Live, Moving
<1>4. DeviceInv /\ AttachedInv
  BY DEF DeviceInv, AttachedInv, Exists, NoDevice
<1>5. PublishInv /\ UnpublishInv
  BY DEF PublishInv, UnpublishInv, Unmarked
<1> QED
  BY <1>1, <1>2, <1>3, <1>4, <1>5 DEF AttachmentInv, KnownInv

----------------------------------------------------------------------------
(* Type correctness.                                                       *)
LEMMA ReturnType ==
    ASSUME Return
    PROVE  /\ pc' = "idle"
           /\ pc' \notin Publishing /\ pc' \notin WithDisk /\ pc' \notin WithDevice
           /\ node' \in Nodes \cup {NoNode, AllNodes}
           /\ cur' \in VDIs \cup {NoVDI} /\ dest' \in SRs \cup {NoSR}
           /\ dev' \in VBDs \cup {NoVBD} /\ todo' \in SUBSET VBDs
BY DEF Return, Publishing, WithDisk, WithDevice

LEMMA HandlerType ==
    ASSUME TypeOK, UNCHANGED <<xoVars, faults, resizing, co>>,
           \/ Return
           \/ /\ pc' \in Publishing \cup Unpublishing \cup {"idle"}
              /\ pc' \in Publishing => pc \in Publishing
              /\ pc' \in WithDisk => cur' \in VDIs
              /\ pc' \in WithDevice => dev' \in VBDs
              /\ node' = node /\ cur' \in VDIs \cup {NoVDI}
              /\ dest' \in SRs \cup {NoSR} /\ dev' \in VBDs \cup {NoVBD}
              /\ todo' \in SUBSET VBDs
    PROVE  TypeOK'
BY ReturnType DEF TypeOK, XOTypeOK, xoVars, diskVars

LEMMA CallerType ==
    ASSUME TypeOK, NEW n \in Nodes,
           WantAttached(n) \/ WantDetached(n) \/ Publish(n) \/ Unpublish(n) \/ UnpublishAll
    PROVE  TypeOK'
<1>1. CASE WantAttached(n) \/ WantDetached(n)
  BY <1>1 DEF TypeOK, XOTypeOK, WantAttached, WantDetached, xoVars, diskVars, handlerVars
<1>2. CASE Publish(n) \/ Unpublish(n) \/ UnpublishAll
  BY <1>2 DEF TypeOK, XOTypeOK, Publish, Unpublish, UnpublishAll, Accept, GoTo,
              Publishing, Unpublishing, WithDisk, WithDevice, xoVars, diskVars
<1> QED
  BY <1>1, <1>2

LEMMA LookType ==
    ASSUME TypeOK,
           \/ FindDisk \/ CheckVBDs \/ Recheck \/ Connected \/ CheckFree \/ Refetch
           \/ DeviceSeen \/ TimesOut \/ FindVolume \/ ListVBDs \/ AllDeleted
    PROVE  TypeOK'
<1> USE DEF GoTo, Keeps, Publishing, Unpublishing, WithDisk, WithDevice
<1>1. CASE FindDisk
  BY <1>1, HandlerType DEF FindDisk, TypeOK, Live
<1>2. CASE CheckVBDs
  <2> HostSRs \in [Nodes -> SUBSET SRs]
    BY HostSRsAssumption
  <2>1. \A s \in HostSRs[node] : s \in SRs \cup {NoSR}
    BY <1>2 DEF CheckVBDs, TypeOK
  <2> QED
    BY <1>2, <2>1, HandlerType DEF CheckVBDs, TypeOK, VBDsOn, VBDsOf
<1>3. CASE Recheck
  BY <1>3, HandlerType DEF Recheck, TypeOK
<1>4. CASE Connected
  BY <1>4, HandlerType DEF Connected, TypeOK
<1>5. CASE CheckFree
  BY <1>5, HandlerType DEF CheckFree, TypeOK
<1>6. CASE Refetch
  BY <1>6, HandlerType DEF Refetch, TypeOK
<1>7. CASE DeviceSeen
  BY <1>7, HandlerType DEF DeviceSeen, TypeOK
<1>8. CASE TimesOut
  BY <1>8, HandlerType DEF TimesOut
<1>9. CASE FindVolume
  BY <1>9, HandlerType DEF FindVolume, TypeOK, Live
<1>10. CASE ListVBDs
  BY <1>10 DEF ListVBDs, TypeOK, XOTypeOK, VBDsOn, VBDsOf, xoVars, diskVars
<1>11. CASE AllDeleted
  BY <1>11, HandlerType DEF AllDeleted, TypeOK
<1> QED
  BY <1>1, <1>2, <1>3, <1>4, <1>5, <1>6, <1>7, <1>8, <1>9, <1>10, <1>11

LEMMA EditType ==
    ASSUME TypeOK, ClearMark \/ SetMigration \/ UnsetMigration
    PROVE  TypeOK'
<1>1. /\ UNCHANGED <<sr, target, copy, vbd, faults, resizing, co>>
      /\ mark' \in [VDIs -> SRs \cup {NoSR}]
      /\ \/ Return
         \/ /\ pc \in Publishing /\ pc' \in Publishing /\ Keeps
            /\ pc \in WithDisk /\ pc' \notin WithDevice
  BY DEF ClearMark, SetMigration, UnsetMigration, Edit, SetMark, GoTo, Keeps,
         TypeOK, XOTypeOK, Live, Publishing, WithDisk, WithDevice
<1> QED
  BY <1>1, ReturnType DEF Keeps, TypeOK, XOTypeOK

LEMMA CallType ==
    ASSUME TypeOK,
           \/ Connect \/ Migrate \/ Attach \/ Published \/ Unpublished
           \/ \E b \in VBDs : DeleteOne(b)
    PROVE  TypeOK'
<1> USE DEF GoTo, Keeps, Publishing, WithDisk, WithDevice, diskVars
<1>1. CASE Connect
  <2>1. vbd' \in [VBDs -> Device]
    BY <1>1 DEF Connect, ConnectVBD, TypeOK, XOTypeOK, Device
  <2> QED
    BY <1>1, <2>1, ReturnType DEF Connect, TypeOK, XOTypeOK
<1>2. CASE Migrate
  <2>1. target' \in [VDIs -> SRs \cup {NoSR}]
    BY <1>2 DEF Migrate, MigrateVDI, TypeOK, XOTypeOK
  <2> QED
    BY <1>2, <2>1, ReturnType DEF Migrate, TypeOK, XOTypeOK
<1>3. CASE Attach
  <2>1. vbd' \in [VBDs -> Device]
    BY <1>3 DEF Attach, AttachVDI, TypeOK, XOTypeOK, Device, Live
  <2> QED
    BY <1>3, <2>1, ReturnType DEF Attach, TypeOK, XOTypeOK
<1>4. CASE Published \/ Unpublished
  <2>1. co' \in [Nodes -> {"detached", "attaching", "attached", "detaching"}]
    BY <1>4 DEF Published, Unpublished, Answered, TypeOK
  <2> QED
    BY <1>4, <2>1, ReturnType
    DEF Published, Unpublished, Answered, TypeOK, XOTypeOK, xoVars
<1>5. ASSUME NEW b \in VBDs, DeleteOne(b)
      PROVE  TypeOK'
  <2>1. vbd' \in [VBDs -> Device]
    BY <1>5 DEF DeleteOne, DeleteVBD, TypeOK, XOTypeOK, Device, NoDevice
  <2> QED
    BY <1>5, <2>1, ReturnType DEF DeleteOne, TypeOK, XOTypeOK
<1> QED
  BY <1>1, <1>2, <1>3, <1>4, <1>5

LEMMA CountsType ==
    ASSUME faults \in 0..MaxFaults, CallFails
    PROVE  faults' \in 0..MaxFaults
BY MaxFaultsAssumption DEF CallFails

LEMMA MigrationType ==
    ASSUME TypeOK, NEW d \in VDIs,
           XOCopyAppears(d) \/ XOMigrationEnds(d) \/ XOMigrationFails(d)
    PROVE  TypeOK'
<1>1. CASE XOCopyAppears(d)
  BY <1>1 DEF XOCopyAppears, CopyAppears, TypeOK, XOTypeOK, Moving, handlerVars
<1>2. CASE XOMigrationEnds(d)
  <2>1. XOTypeOK'
    BY <1>2 DEF XOMigrationEnds, MigrationEnds, EndTask, TypeOK, XOTypeOK
  <2> QED
    BY <1>2, <2>1 
    DEF XOMigrationEnds, MigrationEnds, Unwaited, TypeOK, XOTypeOK, handlerVars, Publishing,
        WithDisk, WithDevice
<1>3. CASE XOMigrationFails(d)
  <2>1. faults' \in 0..MaxFaults
    BY <1>3, CountsType DEF XOMigrationFails, MigrationFails, TypeOK, XOTypeOK
  <2>2. XOTypeOK'
    BY <1>3, <2>1 DEF XOMigrationFails, MigrationFails, EndTask, TypeOK, XOTypeOK
  <2> QED
    BY <1>3, <2>2, ReturnType DEF XOMigrationFails, TypeOK, handlerVars
<1> QED
  BY <1>1, <1>2, <1>3

LEMMA OtherType ==
    ASSUME TypeOK,
           \/ \E d \in VDIs : Expand(d)
           \/ Resize \/ HandlerFails
           \/ \E b \in VBDs : XOPlugEnds(b) \/ XOUnplugs(b) \/ AttachAgain(b)
    PROVE  TypeOK'
<1>1. CASE Resize \/ \E d \in VDIs : Expand(d)
  BY <1>1 DEF Resize, Expand, TypeOK, XOTypeOK, xoVars, diskVars, handlerVars
<1>2. CASE HandlerFails
  <2>1. faults' \in 0..MaxFaults
    BY <1>2, CountsType DEF HandlerFails, TypeOK, XOTypeOK
  <2> QED
    BY <1>2, <2>1, ReturnType DEF HandlerFails, TypeOK, XOTypeOK, xoVars, diskVars
<1>3. ASSUME NEW b \in VBDs, XOPlugEnds(b) \/ XOUnplugs(b)
      PROVE  TypeOK'
  <2>1. vbd' \in [VBDs -> Device]
    BY <1>3 DEF XOPlugEnds, XOUnplugs, PlugEnds, Unplugs, TypeOK, XOTypeOK, Device
  <2>2. faults' \in 0..MaxFaults
    BY <1>3, CountsType DEF XOPlugEnds, XOUnplugs, PlugEnds, Unplugs, TypeOK, XOTypeOK
  <2> QED
    BY <1>3, <2>1, <2>2
    DEF XOPlugEnds, XOUnplugs, PlugEnds, Unplugs, TypeOK, XOTypeOK, diskVars, handlerVars
<1>4. ASSUME NEW b \in VBDs, AttachAgain(b)
      PROVE  TypeOK'
  <2>1. faults' \in 0..MaxFaults
    BY <1>4, CountsType DEF AttachAgain, TypeOK, XOTypeOK
  <2>2. vbd' \in [VBDs -> Device]
    BY <1>4 DEF AttachAgain, AttachVDI, TypeOK, XOTypeOK, Device, Live, Publishing
  <2> QED
    BY <1>4, <2>1, <2>2 DEF AttachAgain, TypeOK, XOTypeOK, diskVars, handlerVars
<1> QED
  BY <1>1, <1>2, <1>3, <1>4

LEMMA TypeStep == TypeOK /\ [Next]_vars => TypeOK'
<1> SUFFICES ASSUME TypeOK, [Next]_vars PROVE TypeOK'
  OBVIOUS
<1>1. CASE PublishStep \/ UnpublishStep
  BY <1>1, LookType, EditType, CallType DEF PublishStep, UnpublishStep
<1>2. CASE XOStep \/ Fault
  BY <1>2, MigrationType, OtherType DEF XOStep, Fault
<1>3. CASE Resize \/ \E d \in VDIs : Expand(d)
  BY <1>3, OtherType
<1>4. CASE \/ UnpublishAll
           \/ \E n \in Nodes : WantAttached(n) \/ WantDetached(n) \/ Publish(n) \/ Unpublish(n)
  BY <1>4, CallerType DEF UnpublishAll
<1>5. CASE UNCHANGED vars
  BY <1>5 DEF vars, TypeOK, XOTypeOK, xoVars, diskVars, handlerVars
<1> QED
  BY <1>1, <1>2, <1>3, <1>4, <1>5 DEF Next

----------------------------------------------------------------------------
(* Steps that change nothing in Xen Orchestra.                             *)
LEMMA XOUnchanged ==
    ASSUME UNCHANGED <<xoVars, co>>
    PROVE  /\ DiskInv => DiskInv' /\ (DeviceInv => DeviceInv')
           /\ AttachedInv => AttachedInv'
BY DEF DiskInv, DeviceInv, AttachedInv, Live, Moving, Exists, xoVars, diskVars

LEMMA ReturnSteps ==
    ASSUME KnownInv, Return, UNCHANGED <<xoVars, co>>
    PROVE  KnownInv'
<1>1. CallerInv'
  BY DEF KnownInv, CallerInv, Return, Publishing, Unpublishing
<1>2. PublishInv' /\ UnpublishInv'
  BY DEF Return, PublishInv, UnpublishInv, Unmarked
<1> QED
  BY <1>1, <1>2, XOUnchanged DEF KnownInv

(* A handler that is publishing makes its next call.                       *)
LEMMA PublishMoves ==
    ASSUME KnownInv, UNCHANGED <<xoVars, co, node>>,
           pc \in Publishing, pc' \in Publishing, PublishInv'
    PROVE  KnownInv'
<1>1. CallerInv'
  BY DEF KnownInv, CallerInv, Publishing, Unpublishing
<1>2. UnpublishInv'
  BY DEF UnpublishInv, Publishing
<1> QED
  BY <1>1, <1>2, XOUnchanged DEF KnownInv

LEMMA UnpublishMoves ==
    ASSUME KnownInv, UNCHANGED <<xoVars, co, node>>,
           pc \in Unpublishing, pc' \in Unpublishing, UnpublishInv'
    PROVE  KnownInv'
<1>1. CallerInv'
  BY DEF KnownInv, CallerInv, Publishing, Unpublishing
<1>2. PublishInv'
  BY DEF PublishInv, Unmarked, Unpublishing
<1> QED
  BY <1>1, <1>2, XOUnchanged DEF KnownInv

(* A disk that is the only one and not described as being migrated         *)
(* elsewhere is not being migrated.                                        *)
LEMMA AloneWhenNotElsewhere ==
    ASSUME TypeOK, DiskInv, NEW d \in VDIs, Live = {d}, ~Elsewhere(d)
    PROVE  Moving = {}
<1> SUFFICES ASSUME NEW m \in Moving PROVE FALSE
  BY DEF Moving
<1>1. m = d
  BY DEF DiskInv
<1>2. mark[d] = target[d] /\ target[d] # sr[d] /\ target[d] # NoSR
  BY <1>1 DEF DiskInv, Moving
<1> QED
  BY <1>2 DEF Elsewhere

LEMMA FindDiskStep ==
    ASSUME AttachmentInv, FindDisk
    PROVE  KnownInv'
<1> USE DEF AttachmentInv
<1>1. CASE Return
  BY <1>1, ReturnSteps DEF FindDisk
<1>2. CASE \E d \in Live : /\ Live = {d} /\ ~Elsewhere(d)
                           /\ cur' = d
                           /\ pc' = IF mark[d] = sr[d] THEN "clearMark" ELSE "checkVBDs"
                           /\ UNCHANGED <<node, dest, dev, todo>>
  <2> PICK d \in Live : /\ Live = {d} /\ ~Elsewhere(d)
                        /\ cur' = d
                        /\ pc' = IF mark[d] = sr[d] THEN "clearMark" ELSE "checkVBDs"
                        /\ UNCHANGED <<node, dest, dev, todo>>
    BY <1>2
  <2>1. UNCHANGED <<xoVars, co>> /\ pc = "findDisk"
    BY DEF FindDisk
  <2>2. Alone'
    BY <2>1, AloneWhenNotElsewhere DEF Alone, KnownInv, Live, Moving, xoVars, diskVars
  <2>3. PublishInv'
    BY <2>1, <2>2 DEF PublishInv, Unmarked, Elsewhere, xoVars, diskVars
  <2> QED
    BY <2>1, <2>3, PublishMoves DEF Publishing
<1> QED
  BY <1>1, <1>2 DEF FindDisk

(* The disk the handler knows is the only one, until it calls vdi.migrate; *)
(* so its devices are all there are.                                       *)
LEMMA DevicesOfCur ==
    ASSUME DeviceInv, Alone, NEW b \in VBDs, Exists(b)
    PROVE  b \in VBDsOf(cur) /\ vbd[b].vdi = cur /\ sr[cur] \in ValidSRs[vbd[b].node]
BY DEF DeviceInv, Alone, VBDsOf, Exists

LEMMA CheckVBDsStep ==
    ASSUME AttachmentInv, CheckVBDs
    PROVE  KnownInv'
<1> USE DEF AttachmentInv
<1> DEFINE found == VBDsOn(node, cur)
           valid == sr[cur] \in ValidSRs[node]
<1>1. /\ pc = "checkVBDs" /\ UNCHANGED <<xoVars, co>> /\ node \in Nodes
      /\ Alone /\ mark[cur] = NoSR
  BY DEF CheckVBDs, KnownInv, PublishInv, Unmarked, TypeOK, Publishing
<1>2. \A b \in found : b \in VBDs /\ Exists(b) /\ vbd[b].node = node /\ vbd[b].vdi = cur
  BY DEF VBDsOn, VBDsOf, Exists
<1>3. cur' = cur => Alone' /\ (mark[cur] = NoSR)'
  BY <1>1 DEF Alone, Live, Moving, xoVars, diskVars
<1>4. CASE Plugged(found) # {} /\ GoTo("checkVBDs", "published") /\ Keeps
  <2>1. PICK b \in found : TRUE
    BY <1>4 DEF Plugged
  <2>2. valid
    BY <1>1, <1>2, <2>1, DevicesOfCur DEF KnownInv
  <2>3. PublishInv'
    BY <1>1, <1>2, <1>3, <1>4, <2>1, <2>2
    DEF PublishInv, Unmarked, GoTo, Keeps, xoVars, diskVars, Exists
  <2> QED
    BY <1>1, <1>4, <2>3, PublishMoves DEF GoTo, Keeps, Publishing
<1>5. CASE /\ \E b \in found : dev' = b
           /\ GoTo("checkVBDs", "recheck")
           /\ UNCHANGED <<node, cur, dest, todo>>
  <2>1. PublishInv'
    BY <1>1, <1>2, <1>3, <1>5 DEF PublishInv, Unmarked, GoTo, xoVars, diskVars, Exists
  <2> QED
    BY <1>1, <1>5, <2>1, PublishMoves DEF GoTo, Publishing
<1>6. CASE valid /\ GoTo("checkVBDs", "attach") /\ Keeps
  <2>1. PublishInv'
    BY <1>1, <1>3, <1>6 DEF PublishInv, Unmarked, GoTo, Keeps, xoVars, diskVars
  <2> QED
    BY <1>1, <1>6, <2>1, PublishMoves DEF GoTo, Keeps, Publishing
<1>7. CASE /\ ~valid /\ \E s \in HostSRs[node] : dest' = s
           /\ GoTo("checkVBDs", "checkFree")
           /\ UNCHANGED <<node, cur, dev, todo>>
  <2>1. dest' \in HostSRs[node] /\ sr[cur] # dest'
    BY <1>1, <1>7, HostSRsAssumption
  <2>2. PublishInv'
    BY <1>1, <1>3, <1>7, <2>1 DEF PublishInv, Unmarked, GoTo, xoVars, diskVars
  <2> QED
    BY <1>1, <1>7, <2>2, PublishMoves DEF GoTo, Publishing
<1>8. CASE Return
  BY <1>1, <1>8, ReturnSteps
<1> QED
  BY <1>4, <1>5, <1>6, <1>7, <1>8 DEF CheckVBDs

(* The other steps of publishing that change nothing in Xen Orchestra.     *)
LEMMA PublishLooks ==
    ASSUME AttachmentInv,
           \/ Recheck \/ Connected \/ CheckFree \/ Refetch \/ DeviceSeen \/ TimesOut
    PROVE  KnownInv'
<1> USE DEF AttachmentInv
<1>1. CASE Return
  BY <1>1, ReturnSteps DEF Recheck, Connected, CheckFree, Refetch, DeviceSeen, TimesOut
<1>2. CASE ~Return
  <2>1. /\ UNCHANGED <<xoVars, co, node, cur, dest, dev>>
        /\ pc \in Publishing /\ pc' \in Publishing
    BY <1>2 DEF Recheck, Connected, CheckFree, Refetch, DeviceSeen, TimesOut,
                GoTo, Keeps, Publishing
  <2>2. (Alone => Alone') /\ \A b \in VBDs : Exists(b)' = Exists(b)
    BY <2>1 DEF Alone, Live, Moving, Exists, xoVars, diskVars
  <2>3. CASE Recheck \/ Connected
    <3>1. sr[cur] \in ValidSRs[node]
      BY <2>3, DevicesOfCur DEF Recheck, Connected, KnownInv, PublishInv, Unmarked
    <3>2. PublishInv'
      BY <1>2, <2>1, <2>2, <2>3, <3>1
      DEF Recheck, Connected, KnownInv, PublishInv, Unmarked, GoTo, xoVars, diskVars
    <3> QED
      BY <2>1, <3>2, PublishMoves
  <2>4. CASE CheckFree
    <3>1. VBDsOf(cur) = {} /\ Alone /\ pc = "checkFree" /\ pc' = "setMark"
      BY <1>2, <2>4 DEF CheckFree, KnownInv, PublishInv, Unmarked, GoTo
    <3>2. \A b \in VBDs : ~Exists(b)
      BY <3>1, DevicesOfCur DEF KnownInv
    <3>3. PublishInv'
      BY <2>1, <2>2, <3>1, <3>2 DEF KnownInv, PublishInv, Unmarked, xoVars, diskVars
    <3> QED
      BY <2>1, <3>3, PublishMoves
  <2>5. CASE Refetch
    <3>1. PublishInv'
      BY <1>2, <2>1, <2>2, <2>5
      DEF Refetch, KnownInv, PublishInv, Unmarked, GoTo, xoVars, diskVars
    <3> QED
      BY <2>1, <3>1, PublishMoves
  <2>6. CASE DeviceSeen
    <3>1. pc = "waitDevice" /\ pc' = "published"
      BY <2>6 DEF DeviceSeen, GoTo
    <3>2. \E b \in VBDs : Exists(b) /\ vbd[b].node = node
      BY <2>6 DEF DeviceSeen, Plugged, VBDsOn, VBDsOf, Exists
    <3>3. PublishInv'
      BY <2>1, <2>2, <3>1, <3>2 DEF KnownInv, PublishInv, Unmarked, xoVars, diskVars
    <3> QED
      BY <2>1, <3>3, PublishMoves
  <2> QED
    BY <1>2, <2>3, <2>4, <2>5, <2>6 DEF TimesOut
<1> QED
  BY <1>1, <1>2

----------------------------------------------------------------------------
(* The steps of publishing that change something in Xen Orchestra.         *)
LEMMA MarkSteps ==
    ASSUME AttachmentInv, ClearMark \/ SetMigration \/ UnsetMigration
    PROVE  KnownInv'
<1> USE DEF AttachmentInv
<1> USE DEF ClearMark, SetMigration, UnsetMigration, Edit, GoTo
<1>1. Alone /\ cur \in Live /\ pc \in Publishing
  BY DEF KnownInv, PublishInv, Unmarked, Alone, Publishing
<1>2. UNCHANGED <<sr, target, copy, vbd, co, node, cur, dest, dev>> /\ pc' \in Publishing
  BY <1>1 DEF Keeps, Publishing
<1>3. mark' = [mark EXCEPT ![cur] = mark'[cur]]
  BY <1>1 DEF SetMark, TypeOK, XOTypeOK, Live
<1>4. /\ pc \in {"clearMark", "unsetMark"} => mark'[cur] = NoSR
      /\ pc = "setMark" => mark'[cur] = dest
  BY <1>1 DEF SetMark, TypeOK, XOTypeOK, Live
<1>5. Alone' /\ Live' = Live /\ Moving' = Moving /\ cur \in VDIs
  BY <1>1, <1>2 DEF Alone, Live, Moving
<1>6. CallerInv' /\ AttachedInv' /\ UnpublishInv'
  BY <1>1, <1>2
  DEF KnownInv, CallerInv, AttachedInv, UnpublishInv, Exists, Publishing, Unpublishing
<1>7. DiskInv'
  BY <1>1, <1>2, <1>5 DEF KnownInv, DiskInv, Alone
<1>8. DeviceInv'
  <2>1. CASE pc = "setMark"
    <3>1. \A b \in VBDs : ~Exists(b)'
      BY <1>2, <2>1 DEF KnownInv, PublishInv, Exists
    <3> QED
      BY <3>1 DEF DeviceInv
  <2>2. CASE pc \in {"clearMark", "unsetMark"}
    <3>1. \A d \in Live : mark'[d] = NoSR
      BY <1>1, <1>4, <2>2 DEF Alone
    <3> QED
      BY <1>2, <1>5, <3>1 DEF KnownInv, DeviceInv, Exists
  <2> QED
    BY <2>1, <2>2
<1>9. PublishInv'
  <2>1. CASE pc = "clearMark" /\ pc' = "checkVBDs"
    BY <1>2, <1>4, <1>5, <2>1 DEF PublishInv, Unmarked
  <2>2. CASE pc = "setMark" /\ pc' = "migrate"
    BY <1>2, <1>4, <1>5, <2>2 DEF KnownInv, PublishInv, Unmarked
  <2>3. CASE pc = "unsetMark" /\ pc' = "attach"
    <3>1. sr[cur] \in ValidSRs[node]
      BY <2>3, HostSRsAssumption DEF KnownInv, PublishInv, TypeOK, Publishing
    <3> QED
      BY <1>2, <1>4, <1>5, <2>3, <3>1 DEF PublishInv, Unmarked
  <2> QED
    BY <1>1, <2>1, <2>2, <2>3
<1> QED
  BY <1>6, <1>7, <1>8, <1>9 DEF KnownInv

LEMMA MigrateStep ==
    ASSUME AttachmentInv, Migrate
    PROVE  KnownInv'
<1> USE DEF AttachmentInv
<1>1. CASE Return /\ UNCHANGED target
  BY <1>1, ReturnSteps DEF Migrate, xoVars, diskVars
<1>2. CASE MigrateVDI(cur, dest) /\ GoTo("migrate", "migrating") /\ Keeps
  <2>1. /\ pc = "migrate" /\ pc' = "migrating"
        /\ UNCHANGED <<sr, mark, copy, vbd, co, node, cur, dest, dev>>
    BY <1>2 DEF Migrate, GoTo, Keeps
  <2>2. /\ Alone /\ mark[cur] = dest /\ sr[cur] # dest /\ cur \in VDIs
        /\ dest \in HostSRs[node] /\ dest \in SRs
    BY <2>1, HostSRsAssumption
    DEF KnownInv, PublishInv, Alone, Live, TypeOK, Publishing
  <2>3. target' = [target EXCEPT ![cur] = dest]
    BY <1>2 DEF MigrateVDI
  <2>4. Live' = Live /\ Moving' = {cur} /\ target'[cur] = dest
    BY <2>1, <2>2, <2>3, NoSRAssumption DEF Alone, Live, Moving, TypeOK, XOTypeOK
  <2>5. CallerInv' /\ AttachedInv' /\ UnpublishInv' /\ DeviceInv'
    BY <2>1, <2>4
    DEF KnownInv, CallerInv, AttachedInv, UnpublishInv, DeviceInv, Exists,
        Publishing, Unpublishing
  <2>6. DiskInv'
    BY <2>1, <2>2, <2>4 DEF KnownInv, DiskInv, Alone
  <2>7. PublishInv'
    BY <2>1, <2>2, <2>4 DEF PublishInv, Unmarked
  <2> QED
    BY <2>5, <2>6, <2>7 DEF KnownInv
<1> QED
  BY <1>1, <1>2 DEF Migrate

(* A device keeps its node and its disk while it is plugged or unplugged.  *)
LEMMA SameDevices ==
    ASSUME KnownInv, UNCHANGED <<diskVars, co>>,
           \A b \in VBDs : /\ Exists(b)' = Exists(b)
                           /\ Exists(b) => /\ vbd'[b].node = vbd[b].node
                                           /\ vbd'[b].vdi = vbd[b].vdi
    PROVE  DiskInv' /\ DeviceInv' /\ AttachedInv'
BY DEF KnownInv, DiskInv, DeviceInv, AttachedInv, Live, Moving, diskVars

LEMMA ConnectStep ==
    ASSUME AttachmentInv, Connect
    PROVE  KnownInv'
<1> USE DEF AttachmentInv
<1>1. CASE Return
  <2>1. UNCHANGED vbd \/ vbd[dev].st \in {"plugged", "unplugged", "plugging"}
    BY DEF Connect, ConnectVBD
  <2>2. pc = "connect" /\ pc' # "waitConnected"
    BY <1>1 DEF Connect, Return
  <2> QED
    BY <1>1, <2>2, ReturnSteps DEF Connect, GoTo, xoVars
<1>2. CASE /\ UNCHANGED vbd \/ ConnectVBD(dev)
           /\ GoTo("connect", "waitConnected") /\ Keeps
  <2>1. /\ pc = "connect" /\ pc' = "waitConnected" /\ pc \in Publishing
        /\ UNCHANGED <<diskVars, co, node, cur, dest, dev>>
    BY <1>2 DEF Connect, GoTo, Keeps, Publishing
  <2>2. \A b \in VBDs : /\ Exists(b)' = Exists(b)
                        /\ vbd'[b].node = vbd[b].node /\ vbd'[b].vdi = vbd[b].vdi
    BY <1>2 DEF ConnectVBD, Exists, TypeOK, XOTypeOK, Device
  <2>3. DiskInv' /\ DeviceInv' /\ AttachedInv'
    BY <2>1, <2>2, SameDevices
  <2>4. CallerInv' /\ UnpublishInv'
    BY <2>1 DEF KnownInv, CallerInv, UnpublishInv, Publishing, Unpublishing
  <2>5. PublishInv'
    BY <2>1, <2>2
    DEF KnownInv, PublishInv, Unmarked, Alone, Live, Moving, diskVars
  <2> QED
    BY <2>3, <2>4, <2>5 DEF KnownInv
<1> QED
  BY <1>1, <1>2 DEF Connect

LEMMA NewDevice ==
    ASSUME AttachmentInv, NEW b \in VBDs, AttachVDI(b, node, cur),
           pc \in {"attach", "waitDevice"}, pc' = "waitDevice",
           UNCHANGED <<diskVars, co, node, cur, dest, dev>>
    PROVE  KnownInv'
<1> USE DEF AttachmentInv
<1>1. pc \in Publishing
  BY DEF Publishing
<1>2. /\ Alone /\ mark[cur] = NoSR /\ sr[cur] \in ValidSRs[node] /\ cur \in Live
      /\ node \in Nodes /\ co[node] # "detached"
  BY <1>1 DEF KnownInv, PublishInv, Unmarked, CallerInv, Alone
<1>3. /\ ~Exists(b) /\ vbd'[b].node = node /\ vbd'[b].vdi = cur
      /\ \A c \in VBDs \ {b} : vbd'[c] = vbd[c]
  BY DEF AttachVDI, Exists, TypeOK, XOTypeOK
<1>4. Live' = Live /\ Moving' = Moving
  BY DEF Live, Moving, diskVars
<1>5. DiskInv'
  BY <1>4 DEF KnownInv, DiskInv, diskVars
<1>6. DeviceInv'
  BY <1>2, <1>3, <1>4 DEF KnownInv, DeviceInv, Exists, diskVars
<1>7. AttachedInv'
  BY <1>3 DEF KnownInv, AttachedInv, Exists
<1>8. CallerInv' /\ UnpublishInv'
  BY <1>1 DEF KnownInv, CallerInv, UnpublishInv, Publishing, Unpublishing
<1>9. PublishInv'
  BY <1>2, <1>4 DEF PublishInv, Unmarked, Alone, diskVars
<1> QED
  BY <1>5, <1>6, <1>7, <1>8, <1>9 DEF KnownInv

LEMMA AttachSteps ==
    ASSUME AttachmentInv, Attach \/ \E b \in VBDs : AttachAgain(b)
    PROVE  KnownInv'
<1>1. CASE Attach /\ Return /\ UNCHANGED vbd
  BY <1>1, ReturnSteps DEF Attach, xoVars, AttachmentInv
<1>2. CASE Attach /\ (\E b \in VBDs : AttachVDI(b, node, cur)) /\ GoTo("attach", "waitDevice") /\ Keeps
  BY <1>2, NewDevice DEF Attach, GoTo, Keeps
<1>3. CASE \E b \in VBDs : AttachAgain(b)
  BY <1>3, NewDevice DEF AttachAgain, handlerVars
<1> QED
  BY <1>1, <1>2, <1>3 DEF Attach

LEMMA PublishedStep ==
    ASSUME AttachmentInv, Published
    PROVE  KnownInv'
<1> USE DEF AttachmentInv
<1>1. /\ pc = "published" /\ pc' = "idle" /\ UNCHANGED xoVars
      /\ \A n \in Nodes : co'[n] = IF n = node /\ co[n] = "attaching" THEN "attached" ELSE co[n]
  BY DEF Published, Answered, Return, TypeOK
<1>2. DiskInv' /\ \A b \in VBDs : Exists(b)' = Exists(b)
  BY <1>1 DEF KnownInv, DiskInv, Live, Moving, Exists, xoVars, diskVars
<1>3. DeviceInv'
  BY <1>1, <1>2 DEF KnownInv, DeviceInv, Live, xoVars, diskVars
<1>4. AttachedInv'
  BY <1>1, <1>2 DEF KnownInv, AttachedInv, PublishInv, xoVars
<1>5. CallerInv'
  BY <1>1 DEF KnownInv, CallerInv, Publishing, Unpublishing
<1>6. PublishInv' /\ UnpublishInv'
  BY <1>1 DEF PublishInv, UnpublishInv, Unmarked
<1> QED
  BY <1>2, <1>3, <1>4, <1>5, <1>6 DEF KnownInv

----------------------------------------------------------------------------
(* Unpublishing.                                                           *)
LEMMA UnpublishLooks ==
    ASSUME AttachmentInv, FindVolume \/ ListVBDs \/ AllDeleted
    PROVE  KnownInv'
<1> USE DEF AttachmentInv
<1>1. CASE FindVolume /\ Return
  BY <1>1, ReturnSteps DEF FindVolume
<1>2. CASE FindVolume /\ ~Return
  <2>1. /\ pc = "findVolume" /\ UNCHANGED <<xoVars, co, node>>
        /\ \/ Live = {} /\ pc' = "unpublished"
           \/ Live = {cur'} /\ pc' = "listVBDs"
    BY <1>2 DEF FindVolume, GoTo, Keeps
  <2>2. \A b \in VBDs : Exists(b) => vbd[b].vdi \in Live
    BY DEF KnownInv, DeviceInv
  <2>3. UnpublishInv'
    BY <2>1, <2>2 DEF UnpublishInv, Exists, xoVars
  <2> QED
    BY <2>1, <2>3, UnpublishMoves DEF Unpublishing
<1>3. CASE ListVBDs
  <2>1. /\ pc = "listVBDs" /\ pc' = "deleteVBDs" /\ UNCHANGED <<xoVars, co, node, cur>>
        /\ todo' = IF node = AllNodes THEN VBDsOf(cur) ELSE VBDsOn(node, cur)
    BY <1>3 DEF ListVBDs, GoTo
  <2>2. \A b \in VBDs : Exists(b) /\ Asked(b) => b \in todo'
    BY <2>1 DEF KnownInv, UnpublishInv, VBDsOn, VBDsOf, Exists, Asked
  <2>3. UnpublishInv'
    BY <2>1, <2>2 DEF UnpublishInv, Exists, Asked, xoVars
  <2> QED
    BY <2>1, <2>3, UnpublishMoves DEF Unpublishing
<1>4. CASE AllDeleted
  <2>1. /\ pc = "deleteVBDs" /\ pc' = "unpublished" /\ todo = {}
        /\ UNCHANGED <<xoVars, co, node>>
    BY <1>4 DEF AllDeleted, GoTo, Keeps
  <2>2. UnpublishInv'
    BY <2>1 DEF KnownInv, UnpublishInv, Exists, Asked, xoVars
  <2> QED
    BY <2>1, <2>2, UnpublishMoves DEF Unpublishing
<1> QED
  BY <1>1, <1>2, <1>3, <1>4

LEMMA DeleteOneStep ==
    ASSUME AttachmentInv, NEW b \in VBDs, DeleteOne(b)
    PROVE  KnownInv'
<1> USE DEF AttachmentInv
<1>1. CASE Return /\ UNCHANGED vbd
  BY <1>1, ReturnSteps DEF DeleteOne, xoVars
<1>2. CASE /\ DeleteVBD(b) /\ todo' = todo \ {b}
           /\ UNCHANGED <<pc, node, cur, dest, dev>>
  <2>1. /\ pc = "deleteVBDs" /\ pc' = "deleteVBDs"
        /\ UNCHANGED <<diskVars, co, node, cur, dest, dev>>
    BY <1>2 DEF DeleteOne
  <2>2. ~Exists(b)' /\ \A c \in VBDs \ {b} : vbd'[c] = vbd[c]
    BY <1>2 DEF DeleteVBD, NoDevice, Exists, TypeOK, XOTypeOK
  <2>3. Live' = Live /\ Moving' = Moving
    BY <2>1 DEF Live, Moving, diskVars
  <2>4. DiskInv'
    BY <2>1, <2>3 DEF KnownInv, DiskInv, diskVars
  <2>5. DeviceInv'
    BY <2>1, <2>2, <2>3 DEF KnownInv, DeviceInv, Exists, diskVars
  <2>6. \A n \in Nodes : co[n] # "attached"
    BY <2>1 DEF KnownInv, CallerInv, Unpublishing
  <2>7. AttachedInv' /\ CallerInv'
    BY <2>1, <2>6 DEF KnownInv, AttachedInv, CallerInv
  <2>8. UnpublishInv'
    BY <1>2, <2>1, <2>2 DEF KnownInv, UnpublishInv, Exists, Asked
  <2>9. PublishInv'
    BY <2>1 DEF PublishInv, Unmarked
  <2> QED
    BY <2>4, <2>5, <2>7, <2>8, <2>9 DEF KnownInv
<1> QED
  BY <1>1, <1>2 DEF DeleteOne

LEMMA UnpublishedStep ==
    ASSUME AttachmentInv, Unpublished
    PROVE  KnownInv'
<1> USE DEF AttachmentInv
<1> DEFINE N == IF node = AllNodes THEN Nodes ELSE {node}
<1>1. /\ pc = "unpublished" /\ pc' = "idle" /\ UNCHANGED xoVars
      /\ \A n \in Nodes : co'[n] = IF n \in N /\ co[n] = "detaching" THEN "detached" ELSE co[n]
  BY DEF Unpublished, Answered, Return, TypeOK
<1>2. DiskInv' /\ \A b \in VBDs : Exists(b)' = Exists(b)
  BY <1>1 DEF KnownInv, DiskInv, Live, Moving, Exists, xoVars, diskVars
<1>3. \A b \in VBDs : Exists(b) => vbd[b].node \notin N
  BY <1>1 DEF KnownInv, UnpublishInv, Asked
<1>4. DeviceInv'
  BY <1>1, <1>2, <1>3 DEF KnownInv, DeviceInv, Live, xoVars, diskVars
<1>5. AttachedInv'
  BY <1>1, <1>2 DEF KnownInv, AttachedInv, xoVars
<1>6. CallerInv'
  BY <1>1 DEF KnownInv, CallerInv, Publishing, Unpublishing
<1>7. PublishInv' /\ UnpublishInv'
  BY <1>1 DEF PublishInv, UnpublishInv, Unmarked
<1> QED
  BY <1>2, <1>4, <1>5, <1>6, <1>7 DEF KnownInv

----------------------------------------------------------------------------
(* The caller.                                                             *)
LEMMA CallerSteps ==
    ASSUME AttachmentInv, NEW n \in Nodes,
           WantAttached(n) \/ WantDetached(n) \/ Publish(n) \/ Unpublish(n) \/ UnpublishAll
    PROVE  KnownInv'
<1> USE AllNodesAssumption DEF AttachmentInv
<1>1. CASE WantAttached(n) \/ WantDetached(n)
  <2> USE <1>1
  <2>1. /\ UNCHANGED <<xoVars, handlerVars>>
        /\ \A m \in Nodes : m # n => co'[m] = co[m]
        /\ co'[n] \in {"attaching", "detaching"}
        /\ co'[n] = "attaching" => \A m \in Nodes : co[m] = "detached"
        /\ co'[n] = "detaching" => co[n] \in {"attaching", "attached"}
    BY DEF WantAttached, WantDetached, TypeOK
  <2>2. DiskInv' /\ \A b \in VBDs : Exists(b)' = Exists(b)
    BY <2>1 DEF KnownInv, DiskInv, Live, Moving, Exists, xoVars, diskVars
  <2>3. DeviceInv'
    BY <2>1, <2>2 DEF KnownInv, DeviceInv, Live, xoVars, diskVars
  <2>4. AttachedInv'
    BY <2>1, <2>2 DEF KnownInv, AttachedInv, xoVars
  <2>5. CallerInv'
    BY <2>1 DEF KnownInv, CallerInv, handlerVars
  <2>6. PublishInv' /\ UnpublishInv'
    BY <2>1, <2>2
    DEF KnownInv, PublishInv, UnpublishInv, Asked, Alone, Live, Moving, handlerVars,
        xoVars, diskVars
  <2> QED
    BY <2>2, <2>3, <2>4, <2>5, <2>6 DEF KnownInv
<1>2. CASE Publish(n) \/ Unpublish(n) \/ UnpublishAll
  <2> USE <1>2
  <2>1. /\ UNCHANGED <<xoVars, co>> /\ pc' \in {"findDisk", "findVolume"}
        /\ pc' = "findDisk" => node' = n /\ co[n] = "attaching"
        /\ pc' = "findVolume" =>
              \/ node' = n /\ co[n] = "detaching"
              \/ node' = AllNodes /\ \E m \in Nodes : co[m] = "detaching"
    BY DEF Publish, Unpublish, UnpublishAll, Accept, GoTo
  <2>2. CallerInv'
    BY <2>1 DEF KnownInv, CallerInv, Publishing, Unpublishing
  <2>3. PublishInv' /\ UnpublishInv'
    BY <2>1 DEF PublishInv, UnpublishInv, Unmarked
  <2> QED
    BY <2>1, <2>2, <2>3, XOUnchanged DEF KnownInv
<1> QED
  BY <1>1, <1>2

LEMMA ExpandSteps ==
    ASSUME KnownInv, UNCHANGED <<xoVars, handlerVars, co>>
    PROVE  KnownInv'
<1>1. CallerInv'
  BY DEF KnownInv, CallerInv, handlerVars
<1>2. PublishInv' /\ UnpublishInv'
  BY DEF KnownInv, PublishInv, UnpublishInv, Asked, Exists, Alone, Live, Moving,
         handlerVars, xoVars, diskVars
<1> QED
  BY <1>1, <1>2, XOUnchanged DEF KnownInv

----------------------------------------------------------------------------
(* Xen Orchestra.                                                          *)
LEMMA PlugSteps ==
    ASSUME AttachmentInv, NEW b \in VBDs, XOPlugEnds(b) \/ XOUnplugs(b)
    PROVE  KnownInv'
<1> USE DEF AttachmentInv
<1>1. UNCHANGED <<diskVars, handlerVars, co>>
  BY DEF XOPlugEnds, XOUnplugs, PlugEnds, Unplugs
<1>2. \A c \in VBDs : /\ Exists(c)' = Exists(c)
                      /\ vbd'[c].node = vbd[c].node /\ vbd'[c].vdi = vbd[c].vdi
  BY DEF XOPlugEnds, XOUnplugs, PlugEnds, Unplugs, Exists, TypeOK, XOTypeOK, Device
<1>3. DiskInv' /\ DeviceInv' /\ AttachedInv'
  BY <1>1, <1>2, SameDevices
<1>4. CallerInv' /\ UnpublishInv'
  BY <1>1, <1>2 DEF KnownInv, CallerInv, UnpublishInv, Asked, handlerVars
<1>5. PublishInv'
  BY <1>1, <1>2
  DEF KnownInv, PublishInv, Unmarked, Alone, Live, Moving, diskVars, handlerVars
<1> QED
  BY <1>3, <1>4, <1>5 DEF KnownInv

(* A migration runs only while the publish handler, if there is one, is at *)
(* a lookup or waits for the answer; and then there are no devices.        *)
LEMMA DuringMigration ==
    ASSUME AttachmentInv, NEW d \in Moving
    PROVE  /\ \A b \in VBDs : ~Exists(b)
           /\ \A m \in Moving : m = d
           /\ pc \in Unpublishing \cup {"idle", "findDisk", "migrating"}
           /\ \A n \in Nodes : co[n] # "attached"
           /\ d \in Live /\ mark[d] = target[d] /\ target[d] \in SRs
           /\ \A e \in Live : e = d \/ copy[d] = e
<1> USE DEF AttachmentInv
<1>1. d \in Live /\ mark[d] = target[d] /\ target[d] \in SRs
  BY DEF KnownInv, DiskInv, Moving, TypeOK, XOTypeOK
<1>2. \A e \in Live : e = d \/ copy[d] = e
  <2> SUFFICES ASSUME NEW e \in Live, copy[e] = d PROVE FALSE
    BY <1>1 DEF KnownInv, DiskInv
  <2>1. copy[e] # NoVDI /\ e \in VDIs
    BY NoVDIAssumption DEF Moving, Live
  <2> QED
    BY <2>1 DEF KnownInv, DiskInv
<1>3. \A b \in VBDs : ~Exists(b)
  <2>1. \A e \in Live : mark[e] # NoSR
    BY <1>1, <1>2, NoSRAssumption, NoVDIAssumption DEF KnownInv, DiskInv, Moving, Live
  <2> QED
    BY <2>1 DEF KnownInv, DeviceInv
<1>4. \A m \in Moving : m = d
  <2>1. \A m \in Moving : m \in Live /\ m # NoVDI
    BY NoVDIAssumption DEF KnownInv, DiskInv, Moving
  <2> QED
    BY <1>2, <2>1 DEF KnownInv, DiskInv, Moving
<1>5. pc \in Unpublishing \cup {"idle", "findDisk", "migrating"}
  BY DEF KnownInv, PublishInv, Unmarked, Alone, TypeOK, Publishing
<1>6. \A n \in Nodes : co[n] # "attached"
  BY <1>3 DEF KnownInv, AttachedInv
<1> QED
  BY <1>1, <1>2, <1>3, <1>4, <1>5, <1>6

(* Without devices, and while no handler works on a disk, only what is     *)
(* said of the disks themselves, and of the migration a handler waits for, *)
(* can be disturbed.                                                       *)
LEMMA MigrationFrame ==
    ASSUME KnownInv, UNCHANGED <<vbd, co>>,
           \A b \in VBDs : ~Exists(b),
           \A n \in Nodes : co[n] # "attached",
           DiskInv', PublishInv', CallerInv'
    PROVE  KnownInv'
<1>1. \A b \in VBDs : ~Exists(b)'
  BY DEF Exists
<1>2. DeviceInv' /\ UnpublishInv' /\ AttachedInv'
  BY <1>1 DEF DeviceInv, UnpublishInv, AttachedInv
<1> QED
  BY <1>2 DEF KnownInv

LEMMA CopyStep ==
    ASSUME AttachmentInv, NEW d \in VDIs, XOCopyAppears(d)
    PROVE  KnownInv'
<1> USE DEF AttachmentInv
<1>1. PICK e \in VDIs \ {cur, resizing} : CopyAppears(d, e)
  BY DEF XOCopyAppears
<1>2. d \in Moving /\ copy[d] = NoVDI /\ e \notin Live /\ e # cur
  BY <1>1 DEF CopyAppears
<1>3. UNCHANGED <<target, vbd, handlerVars, co>>
  BY <1>1 DEF CopyAppears, XOCopyAppears
<1>4. /\ sr' = [sr EXCEPT ![e] = target[d]] /\ mark' = [mark EXCEPT ![e] = mark[d]]
      /\ copy' = [copy EXCEPT ![d] = e]
  BY <1>1 DEF CopyAppears
<1>5. /\ \A b \in VBDs : ~Exists(b)
      /\ \A m \in Moving : m = d
      /\ pc \in Unpublishing \cup {"idle", "findDisk", "migrating"}
      /\ \A n \in Nodes : co[n] # "attached"
      /\ d \in Live /\ mark[d] = target[d] /\ target[d] \in SRs
      /\ \A f \in Live : f = d \/ copy[d] = f
  BY <1>2, DuringMigration
<1>6. Live = {d}
  BY <1>2, <1>5, NoVDIAssumption DEF Live
<1>7. Live' = {d, e} /\ Moving' = Moving
  BY <1>3, <1>4, <1>5, <1>6, NoSRAssumption DEF Live, Moving, TypeOK, XOTypeOK
<1>8. \A f \in VDIs : copy[f] = NoVDI
  BY <1>2, <1>5 DEF KnownInv, DiskInv
<1>9. DiskInv'
  <2>1. /\ sr'[e] = target[d] /\ mark'[e] = target[d] /\ copy'[d] = e
        /\ sr'[d] = sr[d] /\ mark'[d] = mark[d]
        /\ \A f \in VDIs \ {d} : copy'[f] = NoVDI
    BY <1>2, <1>4, <1>5, <1>8 DEF TypeOK, XOTypeOK
  <2>2. e \notin Moving /\ d \in VDIs
    BY <1>2 DEF KnownInv, DiskInv
  <2> QED
    BY <1>2, <1>3, <1>5, <1>7, <2>1, <2>2 DEF KnownInv, DiskInv
<1>10. PublishInv' /\ CallerInv'
  BY <1>3, <1>5, <1>7
  DEF KnownInv, PublishInv, CallerInv, Unmarked, Unpublishing, handlerVars
<1> QED
  BY <1>3, <1>5, <1>9, <1>10, MigrationFrame

LEMMA EndStep ==
    ASSUME AttachmentInv, NEW d \in VDIs, XOMigrationEnds(d)
    PROVE  KnownInv'
<1> USE DEF AttachmentInv
<1> DEFINE c == copy[d]
<1>1. d \in Moving /\ c # NoVDI /\ MigrationEnds(d)
  BY DEF XOMigrationEnds, MigrationEnds
<1>2. /\ sr' = [sr EXCEPT ![d] = NoSR] /\ mark' = [mark EXCEPT ![d] = NoSR]
      /\ target' = [target EXCEPT ![d] = NoSR] /\ copy' = [copy EXCEPT ![d] = NoVDI]
      /\ UNCHANGED <<vbd, node, dest, co>>
  BY <1>1 DEF MigrationEnds, EndTask, XOMigrationEnds, handlerVars
<1>3. /\ \A b \in VBDs : ~Exists(b)
      /\ \A m \in Moving : m = d
      /\ pc \in Unpublishing \cup {"idle", "findDisk", "migrating"}
      /\ \A n \in Nodes : co[n] # "attached"
      /\ \A f \in Live : f = d \/ c = f
  BY <1>1, DuringMigration
<1>4. /\ c \in Live \ Moving /\ c # d /\ c \in VDIs
      /\ sr[c] = target[d] /\ mark[c] = target[d]
  BY <1>1 DEF KnownInv, DiskInv, Live
<1>5. Live' = {c} /\ Moving' = {}
  BY <1>2, <1>3, <1>4 DEF Live, Moving, TypeOK, XOTypeOK
<1>6. \A f \in VDIs : copy'[f] = NoVDI
  BY <1>2, <1>3 DEF KnownInv, DiskInv, TypeOK, XOTypeOK
<1>7. DiskInv'
  BY <1>4, <1>5, <1>6 DEF DiskInv
<1>8. CASE UNCHANGED handlerVars /\ Unwaited(d)
  <2>1. pc # "migrating"
    BY <1>3, <1>8 DEF KnownInv, PublishInv, Unwaited
  <2>2. PublishInv' /\ CallerInv'
    BY <1>2, <1>3, <1>8, <2>1
    DEF KnownInv, PublishInv, CallerInv, Unmarked, Unpublishing, handlerVars
  <2> QED
    BY <1>2, <1>3, <1>7, <2>2, MigrationFrame
<1>9. CASE ~Unwaited(d) /\ pc' = "refetch" /\ cur' = c /\ UNCHANGED <<node, dest, dev, todo>>
  <2>1. sr'[c] = dest /\ dest \in HostSRs[node]
    BY <1>2, <1>4, <1>9 DEF KnownInv, PublishInv, Unwaited, TypeOK, XOTypeOK
  <2>2. PublishInv'
    BY <1>2, <1>5, <1>9, <2>1 DEF PublishInv, Unmarked, Alone
  <2>3. CallerInv'
    BY <1>2, <1>9 DEF KnownInv, CallerInv, Unwaited, Publishing, Unpublishing
  <2> QED
    BY <1>2, <1>3, <1>7, <2>2, <2>3, MigrationFrame
<1> QED
  BY <1>8, <1>9 DEF XOMigrationEnds

LEMMA FailStep ==
    ASSUME AttachmentInv, NEW d \in VDIs, XOMigrationFails(d)
    PROVE  KnownInv'
<1> USE DEF AttachmentInv
<1>1. d \in Moving /\ MigrationFails(d)
  BY DEF XOMigrationFails, MigrationFails
<1>2. /\ sr' = [e \in VDIs |-> IF e = copy[d] THEN NoSR ELSE sr[e]]
      /\ target' = [target EXCEPT ![d] = NoSR] /\ copy' = [copy EXCEPT ![d] = NoVDI]
      /\ UNCHANGED <<vbd, co>>
  BY <1>1 DEF MigrationFails, EndTask, XOMigrationFails
<1>3. /\ \A b \in VBDs : ~Exists(b)
      /\ \A m \in Moving : m = d
      /\ pc \in Unpublishing \cup {"idle", "findDisk", "migrating"}
      /\ \A n \in Nodes : co[n] # "attached"
      /\ d \in Live
      /\ \A f \in Live : f = d \/ copy[d] = f
  BY <1>1, DuringMigration
<1>4. copy[d] # d
  BY <1>1, NoVDIAssumption DEF KnownInv, DiskInv
<1>5. Live' = {d} /\ Moving' = {}
  BY <1>2, <1>3, <1>4 DEF Live, Moving, TypeOK, XOTypeOK
<1>6. \A f \in VDIs : copy'[f] = NoVDI
  BY <1>2, <1>3 DEF KnownInv, DiskInv, TypeOK, XOTypeOK
<1>7. DiskInv'
  BY <1>5, <1>6 DEF DiskInv
<1>8. PublishInv' /\ CallerInv'
  <2>1. CASE UNCHANGED handlerVars /\ Unwaited(d)
    <3>1. pc # "migrating"
      BY <1>3, <2>1 DEF KnownInv, PublishInv, Unwaited
    <3> QED
      BY <1>2, <1>3, <2>1, <3>1
      DEF KnownInv, PublishInv, CallerInv, Unmarked, Unpublishing, handlerVars
  <2>2. CASE Return
    BY <1>2, <2>2 DEF KnownInv, PublishInv, CallerInv, Unmarked, Return, Publishing, Unpublishing
  <2> QED
    BY <2>1, <2>2 DEF XOMigrationFails
<1> QED
  BY <1>2, <1>3, <1>7, <1>8, MigrationFrame

----------------------------------------------------------------------------
LEMMA AttachmentStep == AttachmentInv /\ [Next]_vars => AttachmentInv'
<1> SUFFICES ASSUME AttachmentInv, [Next]_vars PROVE AttachmentInv'
  OBVIOUS
<1>1. TypeOK'
  BY TypeStep DEF AttachmentInv
<1>2. KnownInv'
  <2>1. CASE PublishStep
    BY <2>1, FindDiskStep, CheckVBDsStep, PublishLooks, MarkSteps, MigrateStep,
       ConnectStep, AttachSteps, PublishedStep DEF PublishStep
  <2>2. CASE UnpublishStep
    BY <2>2, UnpublishLooks, DeleteOneStep, UnpublishedStep DEF UnpublishStep
  <2>3. CASE XOStep
    BY <2>3, CopyStep, EndStep, PlugSteps DEF XOStep
  <2>4. CASE HandlerFails
    BY <2>4, ReturnSteps DEF HandlerFails, AttachmentInv
  <2>5. CASE Fault /\ ~HandlerFails
    BY <2>5, FailStep, PlugSteps, AttachSteps DEF Fault
  <2>6. CASE Resize \/ (\E d \in VDIs : Expand(d)) \/ UNCHANGED vars
    BY <2>6, ExpandSteps DEF Resize, Expand, vars, AttachmentInv
  <2>7. CASE \/ UnpublishAll
             \/ \E n \in Nodes : WantAttached(n) \/ WantDetached(n) \/ Publish(n) \/ Unpublish(n)
    BY <2>7, CallerSteps DEF UnpublishAll
  <2> QED
    BY <2>1, <2>2, <2>3, <2>4, <2>5, <2>6, <2>7 DEF Next
<1> QED
  BY <1>1, <1>2 DEF AttachmentInv

LEMMA AttachmentInvariant == Spec => []AttachmentInv
BY AttachmentInit, AttachmentStep, PTL DEF Spec

(* The variables keep their types, whatever the interleaving of the        *)
(* handlers of controller.go and the tasks of Xen Orchestra.               *)
THEOREM AttachmentTypeCorrect == Spec => []TypeOK
BY AttachmentInvariant, PTL DEF AttachmentInv

(* Publish calls that time out or are repeated, and migrations that go on  *)
(* without a caller, never give two VMs a device for the volume.           *)
THEOREM VolumeIsAttachedOnce == Spec => []AttachedOnce
<1>1. AttachmentInv => AttachedOnce
  BY DEF AttachmentInv, KnownInv, CallerInv, DeviceInv, AttachedOnce, Exists
<1> QED
  BY AttachmentInvariant, <1>1, PTL

(* inProgressToSRUUID, stored before vdi.migrate and read by findDisk,     *)
(* keeps every VM from the disk while it is migrated.                      *)
THEOREM MigrationIsExclusive == Spec => []MovingIsDetached
<1>1. AttachmentInv => MovingIsDetached
  <2> SUFFICES ASSUME AttachmentInv, NEW d \in Moving
               PROVE  VBDsOf(d) = {} /\ VBDsOf(copy[d]) = {}
    BY DEF MovingIsDetached
  <2> QED
    BY DuringMigration DEF VBDsOf, Exists
<1> QED
  BY AttachmentInvariant, <1>1, PTL

(* A publish call that has succeeded has left the volume as one disk, at a *)
(* repository of the node's host, with a device on the node; and it stays  *)
(* so until the node is given up.                                          *)
THEOREM PublishingAttaches == Spec => []PublishedIsAttached
<1>1. AttachmentInv => PublishedIsAttached
  <2> SUFFICES ASSUME AttachmentInv, NEW n \in Nodes, co[n] = "attached"
               PROVE  \E d \in VDIs : /\ Live = {d} /\ d \notin Moving /\ mark[d] = NoSR
                                      /\ VBDsOn(n, d) # {} /\ sr[d] \in ValidSRs[n]
    BY DEF PublishedIsAttached
  <2>1. Moving = {}
    BY DuringMigration
  <2>2. PICK b \in VBDs : Exists(b) /\ vbd[b].node = n
    BY DEF AttachmentInv, KnownInv, AttachedInv
  <2> DEFINE d == vbd[b].vdi
  <2>3. d \in Live /\ mark[d] = NoSR /\ sr[d] \in ValidSRs[n] /\ b \in VBDsOn(n, d)
    BY <2>2 DEF AttachmentInv, KnownInv, DeviceInv, VBDsOn, VBDsOf, Exists
  <2>4. \A e \in VDIs : copy[e] = NoVDI
    BY <2>1 DEF AttachmentInv, KnownInv, DiskInv
  <2>5. Live = {d}
    BY <2>3, <2>4, NoVDIAssumption DEF AttachmentInv, KnownInv, DiskInv, Live
  <2> QED
    BY <2>1, <2>3, <2>5 DEF Live
<1> QED
  BY AttachmentInvariant, <1>1, PTL
============================================================================

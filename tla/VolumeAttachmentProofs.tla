----------------------- MODULE VolumeAttachmentProofs -----------------------
(***************************************************************************)
(* Attachment implements VolumeAttachment: what ControllerPublishVolume,   *)
(* ControllerUnpublishVolume and the tasks they leave in Xen Orchestra do  *)
(* is, seen through devices and repositories, what a volume that one node  *)
(* at a time has may do.                                                   *)
(***************************************************************************)
EXTENDS AttachmentProofs

LEMMA HeldInit == Init => Held!Init
<1> SUFFICES ASSUME Init PROVE Held!Init
  OBVIOUS
<1>1. Holders = {}
  BY DEF Init, XOInit, NoDevice, Holders
<1>2. PICK d \in VDIs, s \in SRs : sr = [e \in VDIs |-> IF e = d THEN s ELSE NoSR]
  BY DEF Init, XOInit
<1>3. Live = {d} /\ sr[d] = s
  BY <1>2, NoSRAssumption DEF Live
<1>4. Places = {s}
  BY <1>3 DEF Places
<1> QED
  BY <1>1, <1>4 DEF Init, Held!Init

(* What the images of the state depend on.                                 *)
LEMMA HolderIs ==
    ASSUME NEW n
    PROVE  n \in Holders <=> \E b \in VBDs : Exists(b) /\ vbd[b].node = n
BY DEF Holders, Exists

LEMMA SameHolders ==
    ASSUME \A b \in VBDs : /\ Exists(b)' = Exists(b)
                           /\ Exists(b) => vbd'[b].node = vbd[b].node
    PROVE  Holders' = Holders
BY DEF Holders, Exists

(* A device is on the node that wants the volume.                          *)
LEMMA OneHolder ==
    ASSUME AttachmentInv, NEW n \in Nodes, co[n] # "detached"
    PROVE  Holders \subseteq {n}
BY DEF AttachmentInv, KnownInv, CallerInv, DeviceInv, Holders, Exists

LEMMA OnePlace ==
    ASSUME Alone
    PROVE  Places = {sr[cur]}
BY DEF Alone, Places

----------------------------------------------------------------------------
(* The caller.                                                             *)
LEMMA HeldCaller ==
    ASSUME NEW n \in Nodes, WantAttached(n) \/ WantDetached(n)
    PROVE  Held!Want(n) \/ Held!GiveUp(n)
<1>1. UNCHANGED <<Holders, Places>>
  BY DEF WantAttached, WantDetached, xoVars, diskVars, Holders, Places, Live
<1> QED
  BY <1>1 DEF WantAttached, WantDetached, Held!Want, Held!GiveUp

(* The steps that create, delete or plug no device and no disk.            *)
LEMMA HeldLooks ==
    ASSUME UNCHANGED <<sr, vbd, co>>
    PROVE  UNCHANGED Held!vars
BY DEF Held!vars, Holders, Places, Live

LEMMA HeldPlugs ==
    ASSUME TypeOK, UNCHANGED <<sr, co>>,
           Connect \/ \E b \in VBDs : XOPlugEnds(b) \/ XOUnplugs(b)
    PROVE  UNCHANGED Held!vars
<1>1. \A b \in VBDs : Exists(b)' = Exists(b) /\ vbd'[b].node = vbd[b].node
  BY DEF Connect, ConnectVBD, XOPlugEnds, XOUnplugs, PlugEnds, Unplugs, Exists, TypeOK,
         XOTypeOK, Device
<1>2. Holders' = Holders
  BY <1>1, SameHolders
<1> QED
  BY <1>2 DEF Held!vars, Places, Live

(* The two ways a device is created: vm.attachDisk, and its repetition.    *)
LEMMA HeldNewDevice ==
    ASSUME AttachmentInv, NEW b \in VBDs, AttachVDI(b, node, cur),
           pc \in {"attach", "waitDevice"}, UNCHANGED <<sr, co>>
    PROVE  (node \in Nodes /\ Held!Hold(node)) \/ UNCHANGED Held!vars
<1> USE DEF AttachmentInv
<1>1. pc \in Publishing /\ node \in Nodes
  BY DEF TypeOK, Publishing
<1>2. /\ co[node] \in {"attaching", "detaching"}
      /\ Alone /\ sr[cur] \in ValidSRs[node]
  BY <1>1 DEF KnownInv, CallerInv, PublishInv, Unmarked
<1>3. /\ ~Exists(b) /\ Exists(b)' /\ vbd'[b].node = node
      /\ \A c \in VBDs \ {b} : vbd'[c] = vbd[c]
  BY DEF AttachVDI, Exists, TypeOK, XOTypeOK
<1>4. Holders \subseteq {node}
  BY <1>1, <1>2, OneHolder
<1>5. Holders' = Holders \cup {node}
  BY <1>3 DEF Holders, Exists
<1>6. Held!Usable(node) /\ Places' = Places
  BY <1>2, OnePlace DEF Held!Usable, Places, Live
<1>7. CASE Holders = {}
  BY <1>1, <1>2, <1>5, <1>6, <1>7 DEF Held!Hold
<1>8. CASE Holders = {node}
  BY <1>5, <1>6, <1>8 DEF Held!vars
<1> QED
  BY <1>4, <1>7, <1>8

(* Only unpublishing deletes a device, and the last one lets the node go.  *)
LEMMA HeldDeletes ==
    ASSUME AttachmentInv, NEW b \in VBDs, DeleteOne(b)
    PROVE  (\E n \in Nodes : Held!LetGo(n)) \/ UNCHANGED Held!vars
<1> USE DEF AttachmentInv
<1>1. UNCHANGED <<sr, co>> /\ pc = "deleteVBDs"
  BY DEF DeleteOne, diskVars
<1>2. CASE UNCHANGED vbd
  BY <1>1, <1>2, HeldLooks
<1>3. CASE DeleteVBD(b)
  <2>1. PICK n \in Nodes : co[n] = "detaching"
    BY <1>1 DEF KnownInv, CallerInv, Unpublishing
  <2>2. Holders \subseteq {n}
    BY <2>1, OneHolder
  <2>3. Exists(b) /\ ~Exists(b)' /\ \A c \in VBDs \ {b} : vbd'[c] = vbd[c]
    BY <1>3 DEF DeleteVBD, NoDevice, Exists, TypeOK, XOTypeOK
  <2>4. Holders = {n}
    BY <2>2, <2>3 DEF Holders, Exists
  <2>5. Holders' \subseteq Holders
    BY <2>3 DEF Holders, Exists
  <2>6. Places' = Places
    BY <1>1 DEF Places, Live
  <2>7. CASE Holders' = {}
    BY <1>1, <2>1, <2>4, <2>6, <2>7 DEF Held!LetGo
  <2>8. CASE Holders' = {n}
    BY <1>1, <2>4, <2>6, <2>8 DEF Held!vars
  <2> QED
    BY <2>4, <2>5, <2>7, <2>8
<1> QED
  BY <1>2, <1>3 DEF DeleteOne

----------------------------------------------------------------------------
(* Migration.                                                              *)
LEMMA HeldNoDevice ==
    ASSUME AttachmentInv, NEW d \in Moving
    PROVE  Holders = {}
BY DuringMigration DEF Holders, Exists

LEMMA HeldCopies ==
    ASSUME AttachmentInv, NEW d \in VDIs, XOCopyAppears(d)
    PROVE  \E s \in SRs : Held!Copy(s)
<1> USE DEF AttachmentInv
<1>1. PICK e \in VDIs \ {cur, resizing} : CopyAppears(d, e)
  BY DEF XOCopyAppears
<1>2. /\ d \in Moving /\ copy[d] = NoVDI /\ e \notin Live
      /\ sr' = [sr EXCEPT ![e] = target[d]] /\ UNCHANGED <<vbd, co>>
  BY <1>1 DEF CopyAppears, XOCopyAppears
<1>3. /\ d \in Live /\ target[d] \in SRs /\ \A f \in Live : f = d \/ copy[d] = f
      /\ target[d] # sr[d]
  BY <1>2, DuringMigration DEF KnownInv, DiskInv
<1>4. Live = {d} /\ d \in VDIs /\ sr[d] \in SRs
  BY <1>2, <1>3, NoVDIAssumption DEF Live, TypeOK, XOTypeOK
<1>5. /\ sr'[d] = sr[d] /\ sr'[e] = target[d] /\ e # d
      /\ \A f \in VDIs \ {e} : sr'[f] = sr[f]
  BY <1>2, <1>4 DEF TypeOK, XOTypeOK
<1>6. Live' = {d, e}
  BY <1>3, <1>4, <1>5, NoSRAssumption DEF Live
<1>7. Places = {sr[d]} /\ Places' = {sr[d], target[d]}
  BY <1>4, <1>5, <1>6 DEF Places
<1>8. Holders = {} /\ Holders' = Holders
  BY <1>2, HeldNoDevice DEF Holders
<1> QED
  BY <1>2, <1>3, <1>4, <1>7, <1>8 DEF Held!Copy

LEMMA HeldSettles ==
    ASSUME AttachmentInv, NEW d \in VDIs, XOMigrationEnds(d) \/ XOMigrationFails(d)
    PROVE  (\E s \in SRs : Held!Settle(s)) \/ UNCHANGED Held!vars
<1> USE DEF AttachmentInv
<1> DEFINE c == copy[d]
<1>1. d \in Moving /\ UNCHANGED <<vbd, co>>
  BY DEF XOMigrationEnds, XOMigrationFails, MigrationEnds, MigrationFails
<1>2. Holders = {} /\ Holders' = Holders
  BY <1>1, HeldNoDevice DEF Holders
<1>3. /\ d \in Live /\ target[d] \in SRs /\ target[d] # sr[d] /\ sr[d] \in SRs
      /\ \A f \in Live : f = d \/ c = f
  BY <1>1, DuringMigration DEF KnownInv, DiskInv, Live, TypeOK, XOTypeOK
<1>4. CASE c = NoVDI
  <2>1. XOMigrationFails(d)
    BY <1>4 DEF XOMigrationEnds, MigrationEnds
  <2>2. sr' = sr
    BY <1>4, <2>1, NoVDIAssumption DEF XOMigrationFails, MigrationFails, TypeOK, XOTypeOK
  <2> QED
    BY <1>1, <2>2, HeldLooks
<1>5. CASE c # NoVDI
  <2>1. c \in Live /\ c # d /\ c \in VDIs /\ sr[c] = target[d]
    BY <1>1, <1>5 DEF KnownInv, DiskInv, Live
  <2>2. Live = {d, c}
    BY <1>3, <2>1
  <2>3. Places = {sr[d], target[d]}
    BY <2>1, <2>2 DEF Places
  <2>4. CASE XOMigrationEnds(d)
    <3>1. sr' = [sr EXCEPT ![d] = NoSR]
      BY <2>4 DEF XOMigrationEnds, MigrationEnds
    <3>2. Live' = {c} /\ sr'[c] = target[d]
      BY <2>1, <2>2, <3>1 DEF Live, TypeOK, XOTypeOK
    <3>3. Places' = {target[d]}
      BY <3>2 DEF Places
    <3> QED
      BY <1>1, <1>2, <1>3, <2>3, <3>3 DEF Held!Settle
  <2>5. CASE XOMigrationFails(d)
    <3>1. sr' = [e \in VDIs |-> IF e = c THEN NoSR ELSE sr[e]]
      BY <2>5 DEF XOMigrationFails, MigrationFails
    <3>2. Live' = {d} /\ sr'[d] = sr[d]
      BY <1>3, <2>1, <2>2, <3>1 DEF Live
    <3>3. Places' = {sr[d]}
      BY <3>2 DEF Places
    <3> QED
      BY <1>1, <1>2, <1>3, <2>3, <3>3 DEF Held!Settle
  <2> QED
    BY <2>4, <2>5
<1> QED
  BY <1>4, <1>5

----------------------------------------------------------------------------
(* The answers: a success is reported when it is true.                     *)
LEMMA HeldPublished ==
    ASSUME AttachmentInv, Published
    PROVE  (node \in Nodes /\ Held!Attached(node)) \/ UNCHANGED Held!vars
<1> USE DEF AttachmentInv
<1>1. pc = "published" /\ pc \in Publishing /\ UNCHANGED <<sr, vbd>> /\ node \in Nodes
  BY DEF Published, Answered, xoVars, diskVars, TypeOK, Publishing
<1>2. co' = [n \in Nodes |-> IF n \in {node} /\ co[n] = "attaching" THEN "attached" ELSE co[n]]
  BY DEF Published, Answered
<1>3. UNCHANGED <<Holders, Places>>
  BY <1>1 DEF Holders, Places, Live
<1>4. CASE co[node] = "attaching"
  <2>1. Holders \subseteq {node} /\ node \in Holders
    BY <1>1, <1>4, OneHolder, HolderIs DEF KnownInv, PublishInv
  <2>2. Held!Usable(node)
    BY <1>1, OnePlace DEF KnownInv, PublishInv, Unmarked, Held!Usable
  <2>3. co' = [co EXCEPT ![node] = "attached"]
    BY <1>1, <1>2, <1>4 DEF TypeOK
  <2> QED
    BY <1>1, <1>3, <1>4, <2>1, <2>2, <2>3 DEF Held!Attached
<1>5. CASE co[node] # "attaching"
  <2>1. co' = co
    BY <1>2, <1>5 DEF TypeOK
  <2> QED
    BY <1>3, <2>1 DEF Held!vars
<1> QED
  BY <1>4, <1>5

LEMMA HeldUnpublished ==
    ASSUME AttachmentInv, Unpublished
    PROVE  \E n \in Nodes : Held!Detached(n)
<1> USE DEF AttachmentInv
<1> DEFINE N == IF node = AllNodes THEN Nodes ELSE {node}
<1>1. pc = "unpublished" /\ pc \in Unpublishing /\ UNCHANGED <<sr, vbd>>
  BY DEF Unpublished, Answered, xoVars, diskVars, Unpublishing
<1>2. co' = [n \in Nodes |-> IF n \in N /\ co[n] = "detaching" THEN "detached" ELSE co[n]]
  BY DEF Unpublished, Answered
<1>3. UNCHANGED <<Holders, Places>>
  BY <1>1 DEF Holders, Places, Live
<1>4. PICK n \in Nodes : co[n] = "detaching" /\ (node = n \/ node = AllNodes)
  BY <1>1 DEF KnownInv, CallerInv
<1>5. Holders = {}
  <2>1. n \notin Holders
    BY <1>1, <1>4, HolderIs DEF KnownInv, UnpublishInv, Asked
  <2> QED
    BY <1>4, <2>1, OneHolder
<1>6. co' = [co EXCEPT ![n] = "detached"]
  <2>1. \A m \in Nodes \ {n} : co[m] = "detached"
    BY <1>4 DEF KnownInv, CallerInv
  <2>2. n \in N
    BY <1>4
  <2> QED
    BY <1>2, <1>4, <2>1, <2>2 DEF TypeOK
<1> QED
  BY <1>3, <1>4, <1>5, <1>6 DEF Held!Detached

----------------------------------------------------------------------------
LEMMA HeldStep ==
    ASSUME AttachmentInv, [Next]_vars
    PROVE  Held!Next \/ UNCHANGED Held!vars
<1> USE DEF xoVars, diskVars
<1>1. CASE PublishStep
  <2>1. CASE \/ FindDisk \/ CheckVBDs \/ Recheck \/ Connected \/ CheckFree \/ Refetch
             \/ DeviceSeen \/ TimesOut \/ Migrate \/ ClearMark \/ SetMigration
             \/ UnsetMigration
    BY <2>1, HeldLooks
    DEF FindDisk, CheckVBDs, Recheck, Connected, CheckFree, Refetch, DeviceSeen, TimesOut,
        Migrate, ClearMark, SetMigration, UnsetMigration, Edit
  <2>2. CASE Connect
    BY <2>2, HeldPlugs DEF Connect, AttachmentInv
  <2>3. CASE Attach
    <3>1. CASE UNCHANGED vbd
      BY <2>3, <3>1, HeldLooks DEF Attach
    <3>2. CASE \E b \in VBDs : AttachVDI(b, node, cur)
      BY <2>3, <3>2, HeldNewDevice DEF Attach, Held!Next
    <3> QED
      BY <2>3, <3>1, <3>2 DEF Attach
  <2>4. CASE Published
    BY <2>4, HeldPublished DEF Held!Next
  <2> QED
    BY <1>1, <2>1, <2>2, <2>3, <2>4 DEF PublishStep
<1>2. CASE UnpublishStep
  <2>1. CASE FindVolume \/ ListVBDs \/ AllDeleted
    BY <2>1, HeldLooks DEF FindVolume, ListVBDs, AllDeleted
  <2> QED
    BY <1>2, <2>1, HeldDeletes, HeldUnpublished DEF UnpublishStep, Held!Next
<1>3. CASE XOStep
  <2>1. ASSUME NEW b \in VBDs, XOPlugEnds(b) PROVE UNCHANGED Held!vars
    <3>1. UNCHANGED <<sr, co>>
      BY <2>1 DEF XOPlugEnds, PlugEnds
    <3> QED
      BY <2>1, <3>1, HeldPlugs DEF AttachmentInv
  <2> QED
    BY <1>3, <2>1, HeldCopies, HeldSettles DEF XOStep, Held!Next
<1>4. CASE Fault
  <2>1. CASE HandlerFails
    BY <2>1, HeldLooks DEF HandlerFails
  <2>2. ASSUME NEW b \in VBDs, XOUnplugs(b) PROVE UNCHANGED Held!vars
    <3>1. UNCHANGED <<sr, co>>
      BY <2>2 DEF XOUnplugs, Unplugs
    <3> QED
      BY <2>2, <3>1, HeldPlugs DEF AttachmentInv
  <2>3. ASSUME NEW b \in VBDs, AttachAgain(b) PROVE Held!Next \/ UNCHANGED Held!vars
    BY <2>3, HeldNewDevice DEF AttachAgain, Held!Next
  <2> QED
    BY <1>4, <2>1, <2>2, <2>3, HeldSettles DEF Fault, Held!Next
<1>5. CASE \E n \in Nodes : WantAttached(n) \/ WantDetached(n)
  BY <1>5, HeldCaller DEF Held!Next
<1>6. CASE \/ UnpublishAll \/ Resize \/ (\E d \in VDIs : Expand(d)) \/ UNCHANGED vars
           \/ \E n \in Nodes : Publish(n) \/ Unpublish(n)
  BY <1>6, HeldLooks
  DEF UnpublishAll, Publish, Unpublish, Accept, Resize, Expand, vars
<1> QED
  BY <1>1, <1>2, <1>3, <1>4, <1>5, <1>6 DEF Next

(* Whatever calls time out, fail or are repeated, and whatever the tasks   *)
(* they left in Xen Orchestra do later, publishing and unpublishing keep   *)
(* what VolumeAttachment promises.                                         *)
THEOREM PublishingKeepsAttachment == Spec => KeepsAttachment
<1>1. AttachmentInv /\ [Next]_vars => [Held!Next]_(Held!vars)
  BY HeldStep
<1> QED
  BY HeldInit, <1>1, AttachmentInvariant, PTL DEF Spec, KeepsAttachment, Held!Spec

----------------------------------------------------------------------------
(* What the promise is worth: whoever keeps VolumeAttachment gives the     *)
(* volume to one node at a time, for as long as the caller was told, and   *)
(* where the node can use it; the volume never is without a disk, nor in   *)
(* two repositories while somebody has it.                                 *)
HeldByOne ==
    /\ co \in [Nodes -> {"detached", "attaching", "attached", "detaching"}]
    /\ \A m, n \in Nodes : co[m] # "detached" /\ co[n] # "detached" => m = n
    /\ \A n \in Holders : n \in Nodes /\ co[n] # "detached"
    /\ \A n \in Nodes : co[n] = "attached" => Holders = {n} /\ Held!Usable(n)
    /\ Places # {}
    /\ Holders # {} => \E s \in SRs : Places = {s}

LEMMA HeldByOneCaller ==
    ASSUME HeldByOne, NEW n \in Nodes,
           Held!Want(n) \/ Held!GiveUp(n) \/ Held!Attached(n) \/ Held!Detached(n)
    PROVE  HeldByOne'
<1>1. UNCHANGED <<Holders, Places>> /\ \A m \in Nodes : Held!Usable(m)' = Held!Usable(m)
  BY DEF Held!Want, Held!GiveUp, Held!Attached, Held!Detached, Held!Usable
<1>2. co' \in [Nodes -> {"detached", "attaching", "attached", "detaching"}]
  BY DEF HeldByOne, Held!Want, Held!GiveUp, Held!Attached, Held!Detached
<1>3. /\ \A m \in Nodes \ {n} : co'[m] = co[m]
      /\ \/ Held!Want(n) /\ co'[n] = "attaching"
         \/ Held!GiveUp(n) /\ co'[n] = "detaching"
         \/ Held!Attached(n) /\ co'[n] = "attached"
         \/ Held!Detached(n) /\ co'[n] = "detached"
  BY DEF HeldByOne, Held!Want, Held!GiveUp, Held!Attached, Held!Detached
<1>4. /\ Held!Want(n) => \A m \in Nodes : co[m] = "detached"
      /\ Held!GiveUp(n) => co[n] \in {"attaching", "attached"}
      /\ Held!Attached(n) => co[n] = "attaching" /\ Holders = {n} /\ Held!Usable(n)
      /\ Held!Detached(n) => Holders = {}
  BY DEF Held!Want, Held!GiveUp, Held!Attached, Held!Detached
<1> QED
  BY <1>1, <1>2, <1>3, <1>4 DEF HeldByOne

LEMMA HeldByOneMoves ==
    ASSUME HeldByOne,
           \/ \E n \in Nodes : Held!Hold(n) \/ Held!LetGo(n)
           \/ \E s \in SRs : Held!Copy(s) \/ Held!Settle(s)
    PROVE  HeldByOne'
<1>1. CASE \E n \in Nodes : Held!Hold(n) \/ Held!LetGo(n)
  <2> PICK n \in Nodes : Held!Hold(n) \/ Held!LetGo(n)
    BY <1>1
  <2>1. co' = co /\ co[n] \in {"attaching", "detaching"} /\ Holders' \subseteq {n}
    BY DEF Held!Hold, Held!LetGo
  <2>3. Places' = Places /\ \E s \in SRs : Places = {s}
    BY ValidSRsAssumption DEF HeldByOne, Held!Hold, Held!LetGo, Held!Usable
  <2>2. \A m \in Nodes : co[m] # "attached"
    BY <2>1 DEF HeldByOne
  <2> QED
    BY <2>1, <2>2, <2>3 DEF HeldByOne
<1>2. CASE \E s \in SRs : Held!Copy(s) \/ Held!Settle(s)
  <2>1. co' = co /\ Holders = {} /\ Holders' = {} /\ Places' # {}
    BY <1>2 DEF Held!Copy, Held!Settle
  <2>2. \A m \in Nodes : co[m] # "attached"
    BY <2>1 DEF HeldByOne
  <2> QED
    BY <2>1, <2>2 DEF HeldByOne
<1> QED
  BY <1>1, <1>2

(* VolumeAttachment alone, whatever implements it, gives the volume to one *)
(* node at a time; so a caller of ControllerPublishVolume can rely on what *)
(* the abstract specification says and need not know of migrations.        *)
THEOREM ThePromiseIsExclusive == KeepsAttachment => []HeldByOne
<1>1. Held!Init => HeldByOne
  BY DEF Held!Init, HeldByOne
<1>2. HeldByOne /\ Held!Next => HeldByOne'
  BY HeldByOneCaller, HeldByOneMoves DEF Held!Next
<1>3. HeldByOne /\ UNCHANGED Held!vars => HeldByOne'
  BY DEF HeldByOne, Held!vars, Held!Usable
<1> QED
  BY <1>1, <1>2, <1>3, PTL DEF KeepsAttachment, Held!Spec

============================================================================

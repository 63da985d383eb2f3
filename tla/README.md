# TLA+ models of csi-xen-orchestra-driver

This directory has TLA+ models of the Container Storage Interface driver for
Xen Orchestra (XO), TLC configurations that model-check them, and proofs of
their main invariants for the TLA+ proof system. Paths below are those of the
repository; line numbers are those of the modelled commit.

## 1. The system

| Component | Code | State | Operations |
| --- | --- | --- | --- |
| Volume provisioning | `pkg/csi/controller.go` `CreateVolume`, `DeleteVolume`, `createDisk`, `getOneDiskAndDeleteRest` | none of its own: the disks in XO, found by name | look up by final name, by temporary name, create, rename, store metadata, delete |
| CreationLock | `pkg/csi/creationlock.go` | a `sync.RWMutex` | `CreationLock`/`Unlock` (readers: `createDisk`), `DeletionLock`/`Unlock` (writer: the cleanup) |
| TempCleanup | `pkg/csi/temp_cleanup.go` | `firstSeen` in memory; deletion marks in the descriptions of disks | list, observe, mark (10 min), delete (30 min), forget |
| Attachment | `controller.go` `ControllerPublishVolume`, `ControllerUnpublishVolume`, `findDisk`, `checkDiskAttachment`, `migrateVDI`, `ControllerExpandVolume` | VBDs in XO, the migration mark in a description | find, attach, connect and poll, disconnect, migrate, resize |
| Storage selection | `pkg/csi/sr_selection.go`, `storage_parameters.go` | none | find SRs, filter by host or pool, pick by free space, decide on migration |
| Embedded metadata, names, IDs | `embedded_vdi_metadata.go`, `diskname_generator.go`, `volume_id.go` | none | write and parse descriptions, names and volume IDs |
| jsonRPCClient | `pkg/xoa/jsonrpc_client.go`, `errors.go` | one websocket connection and its mutex | connect, authenticate, call with timeout, resend once after `ErrClosed` |
| NodeService, SafeMounter | `pkg/csi/node.go`, `mounter.go` | mounts of the node | stage, unstage, publish, unpublish |
| Driver, IdentityService, commands | `pkg/csi/driver.go`, `identity.go`, `cmd/` | flags | start-up, registration |

How they interact: the external provisioner (the "CO") calls the controller
over gRPC and repeats a call until it succeeds. Each call is a goroutine. It
talks to XO through one shared client; every call of the client can fail, time
out after it took effect, or be sent twice. The cleanup is one more goroutine
of the controller that changes the same disks. Between handlers and cleanup
there is only `CreationLock`; between handlers there is nothing. XO runs
`disk.create` as a task that does not end with the call that started it.

What is hard: disks are found by name, so a lookup and what is done with its
answer are separate steps; a timed-out creation goes on; the cleanup acts on a
listing; a controller restart loses `firstSeen` and the lock, not the disks. A
migration outlives the call that began it, shows two disks under one name, and
is known to later calls only by the mark in a description; a device appears in
the VM some time after the call that attached it, or after that call gave up.
`PROJECT.json` lists each hazard with its line and the properties that cover it.

What makes each component correct:

- provisioning: a volume reported to the CO has one disk, under the final name
  and with its `StorageInfo`, until it is deleted; calls that are repeated
  succeed in the end; disks leak only when something failed;
- cleanup: no disk that became a volume is marked or deleted; what leaked is
  deleted;
- attachment: one node at a time has the volume, a disk with a device is not
  migrated, a published volume is attached where its host can use it, an
  interrupted migration can be repaired; publish and unpublish can be repeated;
- selection: the SR picked has room and can be reached from the node;
- client: a call uses an open connection, and one goroutine's reconnect does not
  break another's call;
- node: stage and publish can be repeated, unstage undoes stage.

## 2. The modules

| Module | Models | State |
| --- | --- | --- |
| `XODisks` | XO's disks and the VDI calls of the client | `vdi`: existence, volume, temporary or final name, kind of metadata; `faults` |
| `CreationLock` | the RWMutex, with Go's rule that a waiting writer keeps new readers out | `readers`, `writer` |
| `TempCleanup` | the cleanup goroutine, on the two above | `cpc`, the pass's `listing`, `todo`, `cur`; `firstSeen`, `seenLong`, `markOld` |
| `VolumeProvisioning` | handlers of `CreateVolume` and `DeleteVolume`, the provisioner, faults; the composition | `pc`, `req`, `disk`, `extra` per handler; `co`, `volID` per volume |
| `MCVolumeProvisioning` | symmetry sets, and the specification of the counterexample | |
| `VolumeProvisioningProofs` | theorems and proofs: types, the final disk and its metadata, the lock and the second look | |
| `LeakProofs` | theorems and proofs: temporary disks and what is deleted | |
| `VolumeRegistry` | the abstract specification of provisioning | `co`, `volID`, `disks` per volume |
| `VolumeRegistryProofs` | the refinement's proof | |
| `XOAttachments` | what XO holds of one volume: disks, migration tasks, VBDs, and the client's calls on them | `sr`, `mark`, `target`, `copy` per disk; `vbd`; `faults` |
| `Attachment` | the publish or unpublish handler, the expand handler beside it, the attacher, faults; the composition | `pc`, `node`, `cur`, `dest`, `dev`, `todo`; `resizing`; `co` per node |
| `MCAttachment` | hosts with local SRs, symmetry sets | |
| `AttachmentProofs` | theorems and proofs | |
| `VolumeAttachment` | the abstract specification of attachment | `co` per node, `holders`, `places` |
| `VolumeAttachmentProofs` | the refinement's proof, and what the abstract specification is worth | |
| `SRSelection` | `sr_selection.go`, `storage_parameters.go` as operators | none |
| `Placement` | creation, scheduling and attaching of one volume, with the operators of `SRSelection` | `class`, `capacity`, `vm` per node, `at`, `moved`, `att`, the response, `call`, `failed` |
| `MCPlacement` | SRs, hosts, pools, requests and usages | |
| `PlacementProofs` | theorems and proofs | |
| `XOCall` | the abstract specification of a call of the client | `status`, `ran` per call |
| `JsonRpcClient` | `call`, `ensureConnection`, `connect`, `closeConnection` of goroutines that share the client | `pc`, `attempt`, `used` per call; `conn`, `holder`, `link` per connection; `sent`, `ran` |
| `JsonRpcClientProofs` | theorems and proofs, with the refinement | |
| `NodeService` | the four node calls on one volume, kubelet, the mount table | `staging`, `target` per pod; `pc`, `pod`; the caller's `dev`, `pub`, `wants`, `attached` |
| `NodeServiceProofs` | theorems and proofs | |

How they fit. `CreateVolume` ends with a disk under the final name with
`StorageInfo`, which is where `XOInit` of `Attachment` begins. `Placement` is
about the data those two leave open: which SR, which topology, which nodes. Its
result for `Attachment` is what that module's `ValidSRs` and `HostSRs` assume.
`XOCall` is what the calls to XO in all of them rest on: a failed call has had
its effect or not (`HandlerFails`), one that creates may have run twice
(`CreateAgain`, `AttachAgain`), and `JsonRpcClient` implements it.
`NodeService` begins where `Attachment` ends, with a device in the VM, and may
not be left by it before its mounts are gone (`DetachedIsUnmounted`).

### Provisioning

Actions against code. An action is one call to XO with the code up to the next
call. `CreateVolume` accepts a request (validation is left out), `FindFinal` is
the lookup at `controller.go:98`, `LockCreation` the `RLock` at 574, `FindTemp`
582, `ListTemp`, `DeleteRest`, `RestDeleted` are `getOneDiskAndDeleteRest`,
`CreateDisk` and `DiskCreated` the call and the answer of `disk.create` at 602,
`RenameDisk` 612, `RefetchDisk` 617 with the deferred unlock, `StoreInfo` 125,
`VolumeCreated` the response. `FindDeleted`, `DeleteDisk`, `VolumeDeleted` are
`DeleteVolume`. `List` to `EndPass` are `cleanup`; `WantMark`, `Locked`,
`Refetch`, `Mark` are `setDeletionCandidate`.

Faults. `HandlerFails` ends a handler at any call with an error; as the effect
of a call is a step before it, a lost answer is the effect followed by
`HandlerFails`. `CreateAgain` is the client's resend of `disk.create` after
`ErrClosed` (`jsonrpc_client.go:217`). `TaskFails` loses a creation task,
`DeleteRestFails`, `DeleteCandidateFails`, `MarkFails` are errors that are only
logged, `Restart` is a crash of the controller. `MaxFaults` bounds them.

Abstractions, and why they are sound:

- a disk's name is the volume plus temporary or final; a description is the kind
  of metadata it parses to. A description that does not parse is written by
  nobody and left out;
- sizes, SRs and topology are left out: an SR that cannot be picked, or a size
  that does not match, is an error return (`HandlerFails`);
- the two ages of the cleanup are sets a disk may enter at any time after the age
  began, so the models allow every order real clocks allow and more;
- a pass whose `GetVDIs` fails changes nothing and is left out; when the pass's
  one-minute context ends, every call left in it fails (`DeleteCandidateFails`,
  `MarkFails`);
- an edit or delete takes effect before its caller gives up, or never. `XOCall`
  allows later effects too; they are left out here (section 6);
- one controller process.

`CONSTANT SerialCO` in `VolumeProvisioning` says whether the CO keeps to one call per volume, as the
CSI specification asks of it and as the external provisioner does. The code has
no lock per volume and relies on it.

### Attachment

Actions against code. `Publish` accepts a request; `FindDisk` and `ClearMark`
are `findDisk`; `CheckVBDs` is the listing of `checkDiskAttachment` with what is
decided from it, including `needsMigration` and `pickSRForHost`; `Recheck`,
`Connect`, `Connected` are `ConnectVBDAndWaitForDevice`; `CheckFree`,
`SetMigration`, `Migrate`, `Refetch`, `UnsetMigration` are `migrateVDI`;
`Attach`, `DeviceSeen` are `AttachVDIAndWaitForDevice`; `Published` is the
response. `FindVolume`, `ListVBDs`, `DeleteOne`, `AllDeleted`, `Unpublished` are
`ControllerUnpublishVolume`, for one node or (`UnpublishAll`) for all. `Expand`
is `ControllerExpandVolume` up to its check, `Resize` its `vdi.set`. A step of a
migration or of plugging that XO takes is `XOCopyAppears`, `XOMigrationEnds`,
`XOPlugEnds`.

Faults. `HandlerFails` as above: an error, a lost answer or a crash at any call.
`AttachAgain` resends `vm.attachDisk`. `XOMigrationFails` fails a migration,
`XOUnplugs` stops a VM or fails to plug. `MaxFaults` bounds these. `TimesOut` is
not counted: a handler may give up a wait at any time, any number of times.

Abstractions, and why they are sound:

- which SRs a host can use (`ValidSRs`, `isCurrentSRValidForHost`) and which it
  can be given by a migration (`HostSRs`, `filterSrsForHost`) are constants; all
  that is assumed is `HostSRs[n] \subseteq ValidSRs[n]`, and any SR of the set may
  be picked. A VM's host is fixed: live migration of VMs is left out;
- a disk is found by name here. A volume ID that is a UUID is the instance with
  `Migrating = FALSE`, as migrating volumes have names as IDs
  (`docs/disk-migrations.md:40`);
- a UUID whose disk or device is gone and that nobody remembers stands for a
  new one. `XOCopyAppears` therefore avoids the disks handlers remember;
- GetVMByUUID, `findSRs` and the other reads that change nothing are calls that
  may fail (`HandlerFails`);
- sizes are left out of expansion; its failure has no effect;
- `vm.attachDisk` returns when the device is made, and it is plugged later: that
  is why the code polls;
- a call takes effect before its caller gives up, or never, except the tasks of
  migration and plugging, which go on by themselves.

What attachment promises is `VolumeAttachment`. It has the caller's view (`co`)
and of XO only who has a device (`holders`) and where disks are (`places`):
`Hold` and `LetGo` are a device that appears or goes, `Copy` and `Settle` the two
ends of a migration, `Attached` and `Detached` the answers. `Attachment` maps its
devices and disks to the two sets. A `Hold` is possible also for a node that is
`detaching`, since a publish call that the caller gave up may still be running
when the caller changes its mind; it ends before the unpublish call begins.

The caller. Only `SINGLE_NODE_WRITER` is accepted (`isValidCapability`), so a
caller publishes to a node only when the volume is detached from all others,
and it has one publish or unpublish call of a volume in flight; when it gives
up a call, the call's context ends with it (`TimesOut`, `HandlerFails`) and what
XO does goes on. The code relies on both: it has no lock per volume and
`checkDiskAttachment` looks only at the node of the request. Expansion comes
from another sidecar, and runs beside the others.

The error branches for a disk or device that vanished under the handler are in
the model; within it only unpublishing deletes devices and only migration
deletes disks, so few of them are reached.

### Placement

One volume, any storage class (`Selections`) that `LoadStorageParameters` lets
pass. `FindSRs` is `findSRs` in `CreateVolume`, `CreateDisk` the choice in
`createDisk` (596-610) or the disk an earlier call left, `Respond` the topology
and the volume ID (130-154). `Publish` is a publish call for a node that the
volume's topology admits, with its look at the VM; `Attach` is the call from
`findSRs` (247) on: `needsMigration`, `pickSRForHost` and what follows.
`NodeTopology` is what `NodeGetInfo` reports of the labels that
`GetNodeMetadata` keeps; labels are read once, at `Registered`.

Tags and usages belong to other people and change at any time: every look sees
any set of SRs under the tag and any of the sampled usages. VMs move between the
hosts of a pool (`MoveVM`), but not with a local disk attached. The calls a handler
makes between its look and its effect are not interleaved here: that is the
subject of `VolumeProvisioning` and `Attachment`. A Go map has no order, so the
first of several least used SRs is any of them: `pickSRWithMostSpace` is the set
of its outcomes, SRs and errors. Capacity sums wrap at `MaxInt` as int64 does.

### Client

Each member of `Calls` is one run of `call()`. `EnsureConnection`, `Dial`,
`Authenticate` and `AuthenticationFails` are `ensureConnection` and `connect`,
under the mutex (`holder`); `Send` is `callWithTimeout`, which reads the field
`conn` without it; `Closed` is `ErrClosed` and `CloseConnection` what follows
it; `GiveUp` a timeout or a context that ends. `Panic` is what `Send` does with
a field that is nil: the process dies. The restarted process is the same module
with `conn` nil; that `main` connects first (`main.go:88`) makes no difference
to the calls to come. `Run` is XO's side: a request that was put on a connection runs
at some time or never, also when the call is over.

The pointer is read when the request is sent: that a goroutine holds an old
pointer for a moment and finds it closed is the same as finding the new one
closed, except that the request does not go out. A connection that stays up but
is silent is a call that gives up again and again; the code never replaces it.

### Node

One volume and the pods of one node. `CheckStaged`, `FormatAndMount`, `Resize`,
`Staged` are `NodeStageVolume`; `CheckUnstage`, `Unmount`, `Unstaged` its
undoing; `BindMount`, `Published` and `UnmountTarget`, `Unpublished` the
pod's part. A path can be mounted on several times: `staging` counts, and
`target[t]` says of each mount whether it shows the disk or the directory the
disk was to be mounted on. `CleanupMountPoint` takes one mount off and answers
with an error if the path is still one.

`CheckStaged` compares the device name of the publish context (`xvdb`) with what
is mounted (`/dev/xvdb`). The two are never equal (`Device`, `DevicePath`), so a
repeated stage call never sees that the volume is staged and mounts again: the
kernel stacks the mount or refuses it (`MountRefused`). `PodsAreServed` therefore
excepts `refused`: where the kernel refuses, a stage call whose answer was lost
is repeated in vain until the pod goes.

The caller is kubelet as the CSI specification describes it: one call per
volume at a time, stage before publish, a call that failed or was not answered
is repeated or undone. A handler that goes on after its caller gave up, beside
the next call, is left out; so is a device name that now belongs to another
volume.

## 3. What is model-checked

| Run | Instance | Shows |
| --- | --- | --- |
| `provisioning_overlap` | 1 volume, 2 UUIDs, 2 handlers whose calls may overlap on it, 2 faults | `NoFinalCandidate`: the lock and the second look together |
| `provisioning_no_cleanup` | 1 volume (name as its ID), 5 UUIDs, 4 faults, cleanup off, fair | `BoundSurvives`, `GoneLeavesNothing`, `LeaksAreFaults`, `ProvisioningSucceeds`, `DeletionSucceeds`; `KeepsRegistry`: the refinement of `VolumeRegistry` |
| `provisioning_collected` | 1 volume (UUID as its ID), 3 UUIDs, 2 faults, cleanup on, fair | `TypeOK`, `UniqueFinal`, `BoundKeepsMetadata`, `LeaksAreCollected`; `ProvisioningSucceeds` while the cleanup takes the lock and deletes |
| `cleanup_deletes_volume` | 1 volume, 2 UUIDs, 1 fault, cleanup on | violated: `BoundSurvives` (section 4) |
| `attachment` | 4 nodes (two on one host, one on another, one on a host without an SR), 2 SRs, 3 disk and 2 device UUIDs, 3 faults, any timeouts, fair | `TypeOK`, `AttachedOnce`, `MovingIsDetached`, `PublishedIsAttached`, `PublishSucceeds`, `UnpublishSucceeds`; `KeepsAttachment`: the refinement of `VolumeAttachment` |
| `attachment_mark` | 2 nodes, 1 fault | violated: `MarkMeansMigration` (section 4) |
| `attachment_resize` | 2 nodes, no fault | violated: `MovingIsNotResized` (section 4) |
| `placement` | 2 local and 2 shared SRs of two sizes, 3 hosts, 2 pools, 3 nodes, every storage class, 5 topology requirements, 3 capacities, 3 usages | `TypeOK`, `AdmittedPublishes`, `UUIDNeverMigrates`, `PlacedWhereAsked`, `MigratesToTheHost`, `CreatedHasRoom` |
| `placement_shared` | the same with one capacity | violated: `MigratesWhereItCan` (section 4) |
| `client` | 2 calls, 4 connections, 2 drops, fair | `TypeOK`, `NoLeakedConnection`, `RepeatedOnlyAfterDrop`, `CallReturns`; `CallsAreKept`: the refinement of `XOCall` |
| `client_nil` | 2 calls, 3 connections, 1 drop | violated: `EnsuredIsConnected` (section 4) |
| `node` | 2 pods, 3 faults, fair | `TypeOK`, `DetachedIsUnmounted`, `PublishedIsDisk`, `MountsAreFaults`, `PodsAreServed`, `VolumeIsReleased` |

Bounds. One fault leaves one temporary disk, so three faults and four UUIDs are
the smallest instance with several leaked disks, a surplus that is deleted with
an error, and a further fault; `provisioning_no_cleanup` has one more of each.
`UUIDs = faults + 1` is all that the calls can use. With the cleanup, two faults
already let two disks leak, or one leak and the controller forget that it has
seen it; for more, `LeaksNeedFaults` (section 5) covers the cleanup as well. Two handlers and two disks are the smallest instance in which two calls
for one volume each rename a disk while the cleanup is between its listing and
its mark. `CHECK_DEADLOCK FALSE` stands only where the system may really stop:
without the cleanup, when every volume is deleted.

For attachment, three disk UUIDs are a migration's source and copy and one more
that a handler may still remember; two device UUIDs are the device of a call that
timed out and that of its resend, or of the next node. Four nodes give each case
of the decision on migration: the same host, another host, no SR to go to. Three
faults let a migration fail, a VM stop and a call be lost in one history.

For placement, one local SR on each of two hosts and a shared one in each pool
are every relation of an SR to a node: on its host, beside it in its pool, in
another pool. The host of the second pool has no local SR. Usages and capacities
reach a full SR, one with room beside it, and a sum that overflows `MaxInt`. Two
calls are the smallest number for which one closes what the other uses; each
makes two attempts, and two drops let both of one call's fail while four
connections are all they can open. On the node, three faults stack a second and
third mount on a path, and two pods share one staging path. `CHECK_DEADLOCK
FALSE` for the client: all calls have returned.

Fairness of provisioning (`Fairness`): a goroutine that can run does (Go's scheduler; `RWMutex`
does not starve writers or readers), XO ends its tasks, time passes, and the CO
repeats a call for a volume it still wants (or still wants deleted). No
fairness is assumed of a fault or of the release of a volume, and `MaxFaults`
makes faults stop: liveness is claimed for the time after the last fault.

Fairness of attachment: the handler runs, XO ends the migrations and the plugging
it has begun, and the attacher repeats a call for a node it wants attached or
detached. Nothing is assumed of `TimesOut`, yet a wait that times out again and
again does not starve a publish call: XO finishes meanwhile, and the repeated
call finds the device or the migrated disk. `PublishSucceeds` excepts
`Orphaned`, the state of the second finding of section 4, and is about nodes
whose host can be given the volume (`HostSRs[n] # {}`).

Fairness of the client: each call's next step is taken, for all it waits for has
a deadline (the dialler's handshake timeout, `config.Timeout`, the context of the
RPC) and Go's mutex is not starved. Signing in waits for the context of the RPC
alone, which gRPC callers set. Fairness of the node: a handler runs on and
kubelet makes the call that is due; with several pods it goes round all of them
(`SF`), since one call at a time is in flight. Nothing is assumed of pods that
come and go, or of faults, which `MaxFaults` bounds.

Each property has a mutant: an operator named `Mutant...` beside the definition
it would replace, with which TLC finds the property violated.

## 4. Disagreements between code and comments

`cleanup_deletes_volume`. `temp_cleanup.go:90` says that a candidate is deleted
when it "is (still) prefixed" with the temporary prefix, and
`docs/driver-configuration.md:65` that cleanup "targets only temporary-prefix
disks". The code judges both by the pass's listing, and deletes outside
`CreationLock` (130-132), while the marking path looks again under the lock.
In the counterexample a creation is interrupted, its disk is marked and grows
old, a pass lists it, a repeated `CreateVolume` then adopts, renames and
reports the disk, and the pass deletes it. `CalmSpec` keeps the trace
realistic: no call lasts for the half hour in which the mark grows old. The
window is the time between the listing and the delete, a pass at most.

`attachment_mark`. `embedded_vdi_metadata.go:49` says of `inProgressToSRUUID`
that "if not nil, a migration is in progress", and `findDisk` refuses the volume
for that reason (`controller.go:671`). `migrateVDI` stores the mark before it
calls `vdi.migrate` and does not remove it when the call fails (783-786), so
after one failure the mark stays on a disk nobody migrates. Only `findDisk`
removes a mark, and only when the disk is on the SR it names. Until someone
edits the description by hand, publish and expand calls answer `Unavailable`.
The other interruption, after the migration, is repaired: `PublishSucceeds`.

`placement_shared`. `docs/disk-migrations.md:7` says that migration "works with
both local and shared SRs as long as they are selected via `srsWithTag`", and
line 70 that "if the VM's host/pool requires another SR and `migrating` is
enabled, the disk is migrated to a valid SR and then attached".
`isCurrentSRValidForHost` takes a shared SR of the VM's pool for valid, but
`pickSRForHost` keeps only SRs whose `$container` is the VM's host
(`sr_selection.go:274`). That of a shared SR is no host (`SRKinds` assumes so of
XO), and the call answers `ErrNoSRFound`. In the counterexample a volume on the
shared SR of one pool is published on a node of another pool, whose shared SR has
the tag too. With local SRs alone `MigratesWhereItCan` holds. Where a migration does go is right (`MigratesToTheHost`).

`attachment_resize`. `ControllerExpandVolume` refuses a disk that is being
migrated: "VDI is being migrated to %s, we can not expand it"
(`controller.go:454`). It decides by a lookup made before, and a publish call of
the attacher may begin a migration before its `vdi.set` (462). What XO does with
a resize during a migration is not modelled.

`client_nil`. `call()` says "Ensure we have a connection"
(`jsonrpc_client.go:193`) and calls `ensureConnection`, which has set or seen
the field under the mutex and released it. `callWithTimeout` reads the field
again without it (185). A second goroutine whose request met `ErrClosed` runs
`closeConnection` in between and the field is nil: `conn.Call` on a nil pointer,
in a goroutine nobody recovers. The counterexample takes one dropped connection
and two calls. The same race closes a fresh connection under another call
(208): that costs the other call an attempt, and `CallsAreKept` shows it costs
no more.

Seen on the way, without a run: `ErrNoSpace` says that no SR has enough space
(`sr_selection.go:28`), but only the least used is looked at; theorem
`NoSpaceMeansNoRoom` says when the two agree.

## 5. What is proved

`VolumeProvisioningProofs`, for all values of the constants under the
assumptions `NoVolumeAssumption`, `MaxFaultsAssumption`, `NoVDIAssumption`,
`CleanupEnabledAssumption`, `UUIDVolumesAssumption`, `SerialCOAssumption`:

- `TypeCorrect`: `Spec => []TypeOK`. Inductive by itself; one step per action.
- `CandidatesAreTemporary`: `Spec => []NoFinalCandidate`. Not inductive: a mark
  is put on `cur`, and nothing in `NoFinalCandidate` says that `cur` has a
  temporary name then. `MarkInv` adds that what was listed temporary and seen
  again is temporary until the mark, and `LockInv` why nobody renames it
  meanwhile: handlers in `createDisk` are the lock's readers and the cleanup
  between its second look and its mark is the writer. `DiskSteps` says once
  what a step can do to a disk, and the invariants' proofs use that.
- `FinalDiskIsUnique`, `MetadataIsKept`, `DeletionIsComplete`: under `SerialCO`
  (the provisioner keeps one call per volume in flight), `Spec =>
  []UniqueFinal`, `[]BoundKeepsMetadata`, `[]GoneLeavesNothing`. One invariant
  gives all three. `UniqueFinal` is not inductive: nothing in it stops a handler
  from renaming a second disk. `ProvisioningInv` adds to `CandidateInv`
  `SerialInv` (two calls in flight are for different volumes), `HandlerInv`
  (what a handler past its lookup knows: before its rename no disk carries the
  final name, after it exactly `cur` does) and `VolumeInv` (the same for a
  volume nobody is working on). The argument is that nobody else touches the
  final name of a volume a handler works on. The proof has a lemma for each
  group of actions (`CreationSteps`, `RenameStep`, `DeletionSteps`, ...).
- `BoundVolumesSurvive`: under `SerialCO` and without the cleanup, `Spec =>
  []BoundSurvives`. `KeptInv` adds that a disk a handler reports as created is
  there: with one call per volume nobody deletes it behind its back.

- `CreationLockExcludes`, without `SerialCO`: `Spec => []LockExcludes`, the two
  halves of the lock's purpose for calls that overlap at will and for crashes. It
  follows from `CandidateInv`.
- `LookAndMarkAreOne`, without `SerialCO`: `Spec => []SecondLookHolds`. Between
  the second look and the mark nothing but a deletion touches the disk. The lock
  keeps `createDisk` out, but `StoreInfo` writes a description without the lock:
  `LookInv` adds that a handler that stores metadata has its disk under the final
  name (`HasFinal`), so that it never meets a disk with a temporary one.

Without `SerialCO` the others are not claimed; `provisioning_overlap` checks
what remains true when a retry overlaps the call it replaces.

`LeakProofs`, on the same specification and assumptions:

- `LeaksNeedFaults`: under `SerialCO`, `Spec => []LeaksAreFaults`. Steps that
  take a disk out of a handler's hands must be paid for by a fault. Not inductive:
  nothing in it says that a handler that has returned holds no disk, whose loss
  would not be counted. `HeldInv` says where a handler's `disk` is set, `LeakInv`
  adds it and that the leaked disks are finitely many (`FiniteSetTheorems` counts
  them; the set of UUIDs may be infinite). `LeakSteps` and the lemmas around it
  say which steps leak a disk, and that each leaks at most one.
- `DisksNeedFaults`: under `SerialCO`, at most `faults + 1` disks of a volume,
  whatever their names (`DisksAreBounded`). What is not leaked is the final disk
  or the one in the hands of the only handler, and `OneDiskInUse` shows from
  `HandlerInv` that there is not one of each.
- `OnlyTheCleanupLosesVolumes`: under `SerialCO`, `Spec => LostToCleanup`, an
  action property for the case with the cleanup that `BoundVolumesSurvive`
  leaves out: a step that takes away a bound volume's disk is
  `DeleteCandidate`, in a pass that listed the disk under its temporary name.
  `RestInv` (what `getOneDiskAndDeleteRest` has still to delete are disks of its
  own volume) excludes the other deletions.
- `TheCleanupDeletesMarked`: without `SerialCO`, `Spec => OnlyMarkedTemporaries`.
  However old the listing, a disk that is deleted under a temporary name bears the
  mark at that moment: the listing is stale only for disks that became a volume.
  `ListingInv` says that of a listing at any time, and needs `LookInv`: a second
  look that could be overtaken would let a mark be replaced.

`LockExcludes`, `SecondLookHolds`, `DisksAreBounded`, `LostToCleanup` and
`OnlyMarkedTemporaries` are in no run's list. TLC finds them, and the invariants
`HeldInv`, `RestInv`, `LookInv` and `ListingInv` that carry the proofs, true on an
instance with one volume, four UUIDs, three faults and the cleanup, where a
volume does reach the four disks that `DisksAreBounded` allows.

`AttachmentProofs`, for all sets of nodes, SRs, disks and devices, every
`ValidSRs` and `HostSRs`, migration on or off, and any `MaxFaults`, under the
assumptions `NoSRAssumption`, `NoVDIAssumption`, `NoVBDAssumption`,
`NoNodeAssumption`, `MaxFaultsAssumption`, `AllNodesAssumption`,
`ValidSRsAssumption`, `HostSRsAssumption`, `MigratingAssumption`:

- `AttachmentTypeCorrect`: `Spec => []TypeOK`;
- `VolumeIsAttachedOnce`, `MigrationIsExclusive`, `PublishingAttaches`: `Spec =>
  []AttachedOnce`, `[]MovingIsDetached`, `[]PublishedIsAttached`.

None is inductive alone. `AttachmentInv` is `TypeOK` with `KnownInv`:
`CallerInv` (one node at a time is not detached, and the handler works for it),
`DiskInv` (one disk, or while it migrates, the marked source and its marked
copy), `DeviceInv` (every device is for the node that has not been detached, and on a
disk that is unmarked and where the node can use it), `PublishInv` (what the handler knows at
each place of a publish call: after `CheckFree` no device exists, after
`SetMigration` the mark is its own), `UnpublishInv` (what is not in `todo` is
deleted) and `AttachedInv` (a node that is attached has all the promise). The
argument of `MovingIsDetached` is the mark: once a migration is marked, every
later publish call stops in `findDisk` while the migration lasts, also when the
call that began it was given up. `DuringMigration` and `MigrationFrame` state
that, `AloneWhenNotElsewhere` that an unmarked disk is the only one.

`VolumeAttachmentProofs`, under the assumptions of `AttachmentProofs`:

- `PublishingKeepsAttachment`: `Spec => KeepsAttachment`. Every step maps to a step
  of `VolumeAttachment` or to a stutter, and `AttachmentInv` is the invariant that
  makes it so. `HeldNewDevice` needs `DeviceInv` and the handler's knowledge (a
  new device is the first, or one more on the same node), `HeldDeletes` maps only
  the last deletion to `LetGo`, `HeldCopies` and `HeldSettles` need that no device
  exists while a disk moves. `HeldPublished` and `HeldUnpublished` show that the
  answer is true when it arrives.
- `ThePromiseIsExclusive`: `KeepsAttachment => []HeldByOne`, from the abstract
  specification alone: the devices are those of the one node that is not
  detached, an attached node has one where it can use it, and the volume is never
  without a disk nor in two repositories while somebody has a device. It shows
  that the abstract specification has in it what `AttachedOnce`,
  `MovingIsDetached` and `PublishedIsAttached` say of nodes and repositories.

`VolumeRegistryProofs`: `ProvisioningKeepsRegistry`, `SerialCO /\ ~CleanupEnabled
=> (Spec => KeepsRegistry)`. The mapping takes `disks[v]` to the disks under
`v`'s final name. `RenameAppears`, `DeleteRemoves`, `CreatedBinds` and
`DeletedForgets` map a handler's step to one of the registry's, `NamedSteps` says
that no other step changes which disks have a final name. They rest on
`ProvisioningInv` and `KeptInv`: that a renamed disk is the only one comes from
`HandlerInv`, that the disk of a success is still there from `KeptInv`.
`TheRegistryKeepsVolumes`, `KeepsRegistry => []OneDiskEach`, is what a reader of the
abstract specification may conclude: a bound volume has exactly the disk it was
reported with, two volumes share none, a deleted one has none.

`JsonRpcClientProofs`, under `NoConnAssumption`, `NoCallAssumption`,
`MaxDropsAssumption`: `ClientTypeCorrect`, `ConnectionsAreOwned`,
`NoSpuriousRepetition` and the refinement `ClientKeepsPromise`. The invariant says
who holds the mutex (exactly the call that dials or signs in), that an
open connection is the field's or the holder's, that until a connection is
dropped every call is on its first attempt over the connection `main` opened,
and that XO runs only what it was sent.
`ThePromiseIsEnough`, `CallsAreKept => []AnswersAreTrue`, is what the other models
take from `XOCall`: success means that the operation ran, and none runs more than
twice.

`PlacementProofs`, under the assumptions of `SRSelection` and `Placement`
(`SRKinds`, `Int64`, `NodesAssumption`, `RequestsAssumption`,
`NumbersAssumption`): `PlacementTypeCorrect`, `AdmittedNodesCanUseTheVolume`,
`UUIDsAreStable`, `VolumesArePlacedWhereAsked`, `MigrationsServeTheHost` (a
migration leaves only an SR the host cannot use, for one it can use),
`CreatedDisksFit`. Lemmas say what each operator of `SRSelection` returns
(which SRs a filter leaves, that what is picked is among them and fits); the
invariant relates the response to the SR the disk is on, and keeps that relation
through migrations. `NoSpaceMeansNoRoom` is about the operator alone.

`NodeServiceProofs`, under `NoPodAssumption`, `MaxFaultsAssumption`:
`NodeTypeCorrect`, `DetachedDiskIsUnmounted`, `PublishedPodHasTheDisk`,
`MountsNeedFaults`. The invariant `NodeInv` ties what the caller knows to the
mount table: what it takes for undone has no mount, and while it takes the
volume for staged the staging path shows the disk. `TypeOK` says of the handler
that it resizes, unmounts and reports only what is mounted. `MountsNeedFaults` is `Spec =>
[]MountsAreFaults`: an orderly stage or publish call puts one mount on its path and an
orderly undoing takes it off, so only calls that failed after their mount leave
more. Alone it is not inductive, as a mount could be added at the bound;
`StackInv` adds that before its mount a path has one mount less
(`StagedOnce`, `PublishedOnce`).

Only model-checked: the liveness properties (`PublishSucceeds`,
`UnpublishSucceeds`, `ProvisioningSucceeds`, `DeletionSucceeds`,
`LeaksAreCollected`, `CallReturns`, `PodsAreServed`, `VolumeIsReleased`), which
are out of this prover's reach, and the properties of section 4, which the code
violates. Every invariant and every action property of a passing run is stated by a
theorem.

## 6. Not modelled

- Requests that take effect after a later call of the same volume, in
  `VolumeProvisioning` and `Attachment`. `XOCall` shows that the client allows
  them; what XO does with a request of a closed session is not in the repository.
- Several controller processes. The chart has one replica.
- Callers that overlap calls for one volume, beyond `provisioning_overlap`: the
  code has no protection of its own, and claims none.
- A node handler that outlives its call, and device names given out again.
- Sizes beyond the choice of an SR: the size match of a repeated `CreateVolume`
  (`controller.go:108`), the new size of an expansion.
- `ControllerGetVolume` and `ValidateVolumeCapabilities`, which only read;
  validation of requests.
- The text of names, descriptions and volume IDs beyond what decisions need; the
  table of error codes, the object filters and the task polling of the client.
- gRPC, start-up and registration; `cmd/xoa-jsonrpc`, a tool that makes one call;
  the Helm chart, examples and tests.

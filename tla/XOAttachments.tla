--------------------------- MODULE XOAttachments ---------------------------
(***************************************************************************)
(* What Xen Orchestra holds of one volume that exists: its disks (one, or  *)
(* two while it migrates), the block devices (VBDs) that connect them to   *)
(* VMs, and the calls of pkg/xoa/jsonrpc_client.go on them.                *)
(*                                                                         *)
(* All disks here carry the volume's final name and StorageInfo metadata;  *)
(* of the metadata only inProgressToSRUUID changes.  A UUID whose disk or  *)
(* device is gone, and that nobody remembers, stands for a new one.        *)
(***************************************************************************)
EXTENDS Naturals, FiniteSets

CONSTANTS
    Nodes,     \* the VMs of the cluster
    SRs,       \* the storage repositories of the volume's storage class
    VDIs,      \* UUIDs of disks
    VBDs,      \* UUIDs of block devices
    NoSR, NoVDI, NoVBD, NoNode,
    MaxFaults  \* bound: how many calls fail, tasks fail and VMs stop

ASSUME NoSRAssumption == NoSR \notin SRs
ASSUME NoVDIAssumption == NoVDI \notin VDIs
ASSUME NoVBDAssumption == NoVBD \notin VBDs
ASSUME NoNodeAssumption == NoNode \notin Nodes
ASSUME MaxFaultsAssumption == MaxFaults \in Nat

VARIABLES
    sr,       \* sr[d]: where disk d is; NoSR when there is no such disk
    mark,     \* mark[d]: inProgressToSRUUID in the description of d
    target,   \* target[d]: where Xen Orchestra is migrating d to
    copy,     \* copy[d]: the disk it copies d to, once it has created that
    vbd,      \* vbd[b]: block device b
    faults

diskVars == <<sr, mark, target, copy>>
xoVars == <<diskVars, vbd>>

(* A device is "plugging" from vm.attachDisk or vbd.connect until it has a *)
(* device name in the VM ("plugged": attached and device are both set).    *)
Device == [st   : {"none", "unplugged", "plugging", "plugged"},
           node : Nodes \cup {NoNode},
           vdi  : VDIs \cup {NoVDI}]
NoDevice == [st |-> "none", node |-> NoNode, vdi |-> NoVDI]

Live == {d \in VDIs : sr[d] # NoSR}
Moving == {d \in VDIs : target[d] # NoSR}

(* GetVBDsByVDI and GetVBDsByVMAndVDI.                                     *)
VBDsOf(d) == {b \in VBDs : vbd[b].st # "none" /\ vbd[b].vdi = d}
VBDsOn(n, d) == {b \in VBDsOf(d) : vbd[b].node = n}
Plugged(B) == {b \in B : vbd[b].st = "plugged"}

CallFails ==
    /\ faults < MaxFaults
    /\ faults' = faults + 1

----------------------------------------------------------------------------
(* vdi.set with a description.                                             *)
SetMark(d, s) ==
    /\ d \in Live
    /\ mark' = [mark EXCEPT ![d] = s]

CanMigrate(d) == d \in Live \ Moving /\ \A e \in VDIs : copy[e] # d

(* vdi.migrate starts a task that runs whether or not the caller waits.    *)
MigrateVDI(d, s) ==
    /\ CanMigrate(d)
    /\ target' = [target EXCEPT ![d] = s]

(* The copy appears under the same name, with the same description.        *)
CopyAppears(d, e) ==
    /\ d \in Moving
    /\ copy[d] = NoVDI
    /\ e \notin Live
    /\ sr' = [sr EXCEPT ![e] = target[d]]
    /\ mark' = [mark EXCEPT ![e] = mark[d]]
    /\ copy' = [copy EXCEPT ![d] = e]
    /\ UNCHANGED <<target, vbd, faults>>

EndTask(d) ==
    /\ target' = [target EXCEPT ![d] = NoSR]
    /\ copy' = [copy EXCEPT ![d] = NoVDI]

(* The task ends: the source is destroyed.                                 *)
MigrationEnds(d) ==
    /\ d \in Moving
    /\ copy[d] # NoVDI
    /\ sr' = [sr EXCEPT ![d] = NoSR]
    /\ mark' = [mark EXCEPT ![d] = NoSR]
    /\ EndTask(d)
    /\ UNCHANGED <<vbd, faults>>

(* The task fails: the copy, if any, is destroyed.                         *)
MigrationFails(d) ==
    /\ d \in Moving
    /\ CallFails
    /\ sr' = [e \in VDIs |-> IF e = copy[d] THEN NoSR ELSE sr[e]]
    /\ mark' = [e \in VDIs |-> IF e = copy[d] THEN NoSR ELSE mark[e]]
    /\ EndTask(d)
    /\ UNCHANGED vbd

----------------------------------------------------------------------------
(* vm.attachDisk in mode RW: a device is created and its plugging started. *)
AttachVDI(b, n, d) ==
    /\ d \in Live
    /\ vbd[b].st = "none"
    /\ vbd' = [vbd EXCEPT ![b] = [st |-> "plugging", node |-> n, vdi |-> d]]

ConnectVBD(b) ==
    /\ vbd[b].st \in {"unplugged", "plugging"}
    /\ vbd' = [vbd EXCEPT ![b] = [@ EXCEPT !.st = "plugging"]]

(* vbd.delete unplugs first; a device that is being plugged is locked.     *)
DeleteVBD(b) ==
    /\ vbd[b].st \in {"unplugged", "plugged"}
    /\ vbd' = [vbd EXCEPT ![b] = NoDevice]

PlugEnds(b) ==
    /\ vbd[b].st = "plugging"
    /\ vbd' = [vbd EXCEPT ![b] = [@ EXCEPT !.st = "plugged"]]
    /\ UNCHANGED <<diskVars, faults>>

(* Plugging fails, or the VM is stopped.                                   *)
Unplugs(b) ==
    /\ vbd[b].st \in {"plugging", "plugged"}
    /\ CallFails
    /\ vbd' = [vbd EXCEPT ![b] = [@ EXCEPT !.st = "unplugged"]]
    /\ UNCHANGED diskVars

----------------------------------------------------------------------------
(* CreateVolume has put the disk on any of the repositories.               *)
XOInit ==
    /\ \E d \in VDIs, s \in SRs : sr = [e \in VDIs |-> IF e = d THEN s ELSE NoSR]
    /\ mark = [d \in VDIs |-> NoSR]
    /\ target = [d \in VDIs |-> NoSR]
    /\ copy = [d \in VDIs |-> NoVDI]
    /\ vbd = [b \in VBDs |-> NoDevice]
    /\ faults = 0

XOTypeOK ==
    /\ sr \in [VDIs -> SRs \cup {NoSR}]
    /\ mark \in [VDIs -> SRs \cup {NoSR}]
    /\ target \in [VDIs -> SRs \cup {NoSR}]
    /\ copy \in [VDIs -> VDIs \cup {NoVDI}]
    /\ vbd \in [VBDs -> Device]
    /\ faults \in 0..MaxFaults

============================================================================

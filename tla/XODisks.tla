------------------------------ MODULE XODisks ------------------------------
(***************************************************************************)
(* The disks (VDIs) Xen Orchestra holds for the driver, and the calls of   *)
(* pkg/xoa/jsonrpc_client.go that read and change them.                    *)
(*                                                                         *)
(* A disk's name is the prefix plus the volume's name, with "temp-" in     *)
(* between while the disk is being created: it is modelled by the volume   *)
(* and which of the two it is.  A description is modelled by the kind of metadata that  *)
(* EmbeddedVDIMetadataFromDescription reads from it.                       *)
(***************************************************************************)
EXTENDS Naturals

CONSTANTS
    Volumes,    \* the names the provisioner asks volumes under
    VDIs,       \* the UUIDs Xen Orchestra may give to disks
    NoVolume,   \* the volume of a UUID that names no disk
    MaxFaults   \* bound: how many calls fail, tasks fail and crashes happen

ASSUME NoVolumeAssumption == NoVolume \notin Volumes
ASSUME MaxFaultsAssumption == MaxFaults \in Nat

VARIABLES
    vdi,     \* vdi[d]: what Xen Orchestra knows of UUID d
    faults   \* calls failed, creation tasks failed and crashes so far

diskVars == <<vdi, faults>>

----------------------------------------------------------------------------
(* Metadata kinds: NoMetadata, DeletionCandidate and StorageInfo.          *)
Metadata == {"none", "candidate", "info"}

VDIRecord == [st   : {"unborn", "pending", "live", "dead"},
              vol  : Volumes \cup {NoVolume},
              name : {"temp", "final"},
              desc : Metadata]

NoDisk(st) == [st |-> st, vol |-> NoVolume, name |-> "temp", desc |-> "none"]

Live == {d \in VDIs : vdi[d].st = "live"}

(* GetVDIByName and GetVDIs with a name filter: the answers have these     *)
(* disks, FinalDisks under FromVolumeName and TempDisks under              *)
(* TemporaryFromVolumeName.                                                *)
FinalDisks(v) == {d \in Live : vdi[d].vol = v /\ vdi[d].name = "final"}
TempDisks(v)  == {d \in Live : vdi[d].vol = v /\ vdi[d].name = "temp"}

----------------------------------------------------------------------------
(* disk.create starts a task; it runs in Xen Orchestra whether or not the  *)
(* caller still waits for it, and the disk appears when it ends.           *)
CreateVDI(d, v) ==
    /\ vdi[d].st = "unborn"
    /\ vdi' = [vdi EXCEPT ![d] = [st |-> "pending", vol |-> v,
                                  name |-> "temp", desc |-> "none"]]

TaskEnds(d) ==
    /\ vdi[d].st = "pending"
    /\ vdi' = [vdi EXCEPT ![d] = [@ EXCEPT !.st = "live"]]

(* Mutant: the rename leaves the name out of vdi.set.                      *)
MutantKeepsName(d) ==
    /\ d \in Live
    /\ vdi' = [vdi EXCEPT ![d] = [@ EXCEPT !.desc = "none"]]

(* vdi.set with a name and an empty description: the rename of createDisk. *)
RenameVDI(d) ==
    /\ d \in Live
    /\ vdi' = [vdi EXCEPT ![d] = [@ EXCEPT !.name = "final", !.desc = "none"]]

(* vdi.set with a description only.                                        *)
DescribeVDI(d, desc) ==
    /\ d \in Live
    /\ vdi' = [vdi EXCEPT ![d] = [@ EXCEPT !.desc = desc]]

DeleteVDI(d) ==
    /\ d \in Live
    /\ vdi' = [vdi EXCEPT ![d] = NoDisk("dead")]

(* A call gets no answer, or an error: a timeout, a lost connection, a     *)
(* cancelled context.  Its effect, when it had one, is a step of its own   *)
(* before this one.                                                        *)
CallFails ==
    /\ faults < MaxFaults
    /\ faults' = faults + 1

DisksInit ==
    /\ vdi = [d \in VDIs |-> NoDisk("unborn")]
    /\ faults = 0

DisksTypeOK ==
    /\ vdi \in [VDIs -> VDIRecord]
    /\ faults \in 0..MaxFaults

============================================================================

----------------------------- MODULE Placement -----------------------------
(***************************************************************************)
(* Where a volume is and where it may be used, from CreateVolume to        *)
(* ControllerPublishVolume: the storage selection of the storage class,    *)
(* the topology and the volume ID of the response, the scheduler that      *)
(* picks a node from that topology, and the migration at attach time.      *)
(*                                                                         *)
(* How the calls of a handler are interleaved and fail is in               *)
(* VolumeProvisioning and Attachment; here a handler is the look at the    *)
(* SRs (or at the VM) and what it does with it.  Tags and usages are other *)
(* people's: every look sees any of them.                                  *)
(***************************************************************************)
EXTENDS SRSelection

CONSTANTS
    Nodes, NoNode,
    Registered,   \* Registered[n]: host and pool labels of n when it registers
    Requests,     \* topology requirements of CreateVolume: of which nodes
    Capacities,   \* sizes of volumes
    UsageSamples  \* usages of the SRs that a look may see

ASSUME NodesAssumption ==
    /\ NoNode \notin Nodes
    /\ Registered \in [Nodes -> [host : Hosts, pool : Pools]]
ASSUME RequestsAssumption ==
    /\ Requests \subseteq [preferred : SUBSET Nodes, requisite : SUBSET Nodes]
    /\ \A r \in Requests : r.requisite # {} => r.preferred \subseteq r.requisite
ASSUME NumbersAssumption == Capacities \subseteq 0..MaxInt /\ UsageSamples \subseteq Usages

VARIABLES
    class,     \* the storage class, and the driver's flag
    capacity,  \* the size of the volume
    vm,        \* vm[n]: host and pool of node n now
    at,        \* the SR of the disk; NoSR while there is none
    co,        \* the volume as the provisioner sees it
    asked,     \* the topology requirement of the call that succeeded
    adopted,   \* that call found the disk an earlier one had left
    topology,  \* AccessibleTopology of the response
    idType,    \* the kind of volume ID of the response
    moved,     \* the disk has been migrated: it has another UUID
    call,      \* the handler that runs, and what it has read
    failed,    \* how the last publish call failed, for which node, seen where
    att        \* the node the volume is attached to

disk == <<at, moved, att>>
response == <<co, asked, adopted, topology, idType>>
vars == <<class, capacity, vm, disk, response, call, failed>>

Anywhere == [host |-> Unset, pool |-> Unset]
NoRequest == [preferred |-> {}, requisite |-> {}]
Idle == [op |-> "idle"]
Fine == [err |-> "none", node |-> NoNode, vm |-> Anywhere]

(* The topology a node registers with: NodeGetInfo.                        *)
NodeTopology(n) ==
    [Registered[n] EXCEPT !.host = IF class.hostTopology THEN @ ELSE Unset]

Terms(req) == [preferred |-> {NodeTopology(n) : n \in req.preferred},
               requisite |-> {NodeTopology(n) : n \in req.requisite}]

Looks == [S : SUBSET SRs, usage : UsageSamples]
Calls == {Idle}
    \cup [op : {"pick", "respond"}, req : Requests, look : Looks, found : BOOLEAN]
    \cup [op : {"attach"}, node : Nodes, vm : [host : Hosts, pool : Pools]]

Errors == {"none", "noSRFound", "noSpace", "inconsistent", "notValidForHost"}

TypeOK ==
    /\ class \in Selections /\ capacity \in Capacities
    /\ vm \in [Nodes -> [host : Hosts, pool : Pools]]
    /\ at \in SRs \cup {NoSR} /\ att \in Nodes \cup {NoNode} /\ moved \in BOOLEAN
    /\ co \in {"wanted", "bound"}
    /\ asked \in Requests \cup {NoRequest} /\ adopted \in BOOLEAN
    /\ topology \in Topologies /\ idType \in {"none", "uuid", "name"}
    /\ call \in Calls
    /\ failed \in [err : Errors, node : Nodes \cup {NoNode}, vm : Topologies]
    /\ call.op = "respond" \/ co = "bound" => at \in SRs

Init ==
    /\ class \in Selections
    /\ LoadStorageParameters(class) /\ (class.uuid # NoSR \/ class.tag)
    /\ capacity \in Capacities
    /\ vm = Registered
    /\ at = NoSR /\ moved = FALSE /\ att = NoNode
    /\ co = "wanted" /\ asked = NoRequest /\ adopted = FALSE
    /\ topology = Anywhere /\ idType = "none"
    /\ call = Idle /\ failed = Fine

----------------------------------------------------------------------------
(* CreateVolume: findSRs.                                                  *)
FindSRs(req, tagged, usage) ==
    LET S == findSRs(class, tagged, NoSR) IN
    /\ call = Idle /\ co = "wanted"
    /\ S # {} /\ Consistent(S)
    /\ call' = [op |-> "pick", req |-> req, look |-> [S |-> S, usage |-> usage],
                found |-> at # NoSR]
    /\ UNCHANGED <<class, capacity, vm, disk, response, failed>>

(* Mutant: the error of pickSRForTopology is dropped.                      *)
MutantErrorDropped ==
    /\ call.op = "pick"
    /\ \/ at # NoSR /\ UNCHANGED at
       \/ /\ at = NoSR
          /\ at' \in pickSRForTopology(class, call.look.S, call.look.usage,
                                       capacity, Terms(call.req))
    /\ call' = [op |-> "respond", req |-> call.req, look |-> call.look, found |-> call.found]
    /\ UNCHANGED <<class, capacity, vm, moved, att, response, failed>>

(* The disk of an earlier call is taken where it is, or one is created.    *)
CreateDisk ==
    /\ call.op = "pick"
    /\ \/ at # NoSR /\ UNCHANGED at
       \/ /\ at = NoSR
          /\ at' \in SRs \cap pickSRForTopology(class, call.look.S, call.look.usage,
                                                capacity, Terms(call.req))
    /\ call' = [op |-> "respond", req |-> call.req, look |-> call.look, found |-> call.found]
    /\ UNCHANGED <<class, capacity, vm, moved, att, response, failed>>

(* Mutant: a volume that may migrate gets its disk's UUID as ID.           *)
MutantRespond ==
    /\ call.op = "respond" /\ at \in call.look.S
    /\ co' = "bound" /\ asked' = call.req /\ adopted' = call.found
    /\ topology' = getTopologyForVDI(class, call.look.S, at)
    /\ idType' = IF SharedSR(call.look.S) \/ class.migrating THEN "uuid" ELSE "name"
    /\ call' = Idle
    /\ UNCHANGED <<class, capacity, vm, disk, failed>>

(* A disk outside the selection is an error.                               *)
Respond ==
    /\ call.op = "respond" /\ at \in call.look.S
    /\ co' = "bound" /\ asked' = call.req /\ adopted' = call.found
    /\ topology' = getTopologyForVDI(class, call.look.S, at)
    /\ idType' = VolumeIDType(class, call.look.S)
    /\ call' = Idle
    /\ UNCHANGED <<class, capacity, vm, disk, failed>>

(* Any handler may fail, or have nothing to pick.                          *)
CallFails ==
    /\ call # Idle
    /\ call' = Idle
    /\ UNCHANGED <<class, capacity, vm, disk, response, failed>>

----------------------------------------------------------------------------
(* The scheduler: the node has every segment of the volume's topology.     *)
Admits(t, node) == t.host \in {Unset, node.host} /\ t.pool \in {Unset, node.pool}

Publish(n) ==
    /\ call = Idle /\ co = "bound" /\ att = NoNode
    /\ Admits(topology, NodeTopology(n))
    /\ call' = [op |-> "attach", node |-> n, vm |-> vm[n]]
    /\ failed' = Fine
    /\ UNCHANGED <<class, capacity, vm, disk, response>>

PublishFails(err) ==
    /\ failed' = [err |-> err, node |-> call.node, vm |-> call.vm]
    /\ call' = Idle
    /\ UNCHANGED <<class, capacity, vm, disk, response>>

(* Xen Orchestra plugs a disk only where the VM's host reaches it.         *)
AttachVDI(s) ==
    /\ call' = Idle
    /\ at' = s
    /\ att' = IF isCurrentSRValidForHost(s, vm[call.node]) THEN call.node ELSE NoNode
    /\ UNCHANGED <<class, capacity, vm, response, failed>>

(* ControllerPublishVolume from findSRs on; the VM was looked at before.   *)
Attach(tagged, usage) ==
    LET info == toStorageInfo(class)
        S == findSRs(info, tagged, at)
        valid == isCurrentSRValidForHost(at, call.vm)
        picked == pickSRForHost(S, usage, capacity, call.vm)
    IN
    /\ call.op = "attach"
    /\ \/ S = {} /\ PublishFails("noSRFound")
       \/ ~Consistent(S) /\ PublishFails("inconsistent")
       \/ /\ S # {} /\ Consistent(S) /\ valid
          /\ AttachVDI(at) /\ UNCHANGED moved
       \/ /\ S # {} /\ Consistent(S) /\ ~valid /\ ~info.migrating
          /\ PublishFails("notValidForHost")
       \/ /\ S # {} /\ Consistent(S) /\ ~valid /\ info.migrating
          /\ \/ \E s \in picked \cap SRs : AttachVDI(s) /\ moved' = TRUE
             \/ \E e \in picked \ SRs : PublishFails(e)

Detach ==
    /\ call = Idle /\ att # NoNode
    /\ att' = NoNode
    /\ UNCHANGED <<class, capacity, vm, at, moved, response, call, failed>>

(* A VM is moved to another host of its pool; not with a local disk.       *)
MoveVM(n, h) ==
    /\ att = n => Shared[at]
    /\ \E m \in Nodes : Registered[m] = [host |-> h, pool |-> vm[n].pool]
    /\ vm' = [vm EXCEPT ![n] = [host |-> h, pool |-> vm[n].pool]]
    /\ UNCHANGED <<class, capacity, disk, response, call, failed>>

Next ==
    \/ \E req \in Requests, tagged \in SUBSET SRs, usage \in UsageSamples :
       FindSRs(req, tagged, usage)
    \/ CreateDisk \/ Respond \/ CallFails
    \/ \E n \in Nodes : Publish(n)
    \/ \E tagged \in SUBSET SRs, usage \in UsageSamples : Attach(tagged, usage)
    \/ Detach
    \/ \E n \in Nodes, h \in Hosts : MoveVM(n, h)

Spec == Init /\ [][Next]_vars

----------------------------------------------------------------------------
(* The scheduler never sends a volume that may not migrate to a node whose *)
(* host cannot use its SR, if the SR is shared, or is local and            *)
(* --host-topology is set, and the node's VM is still where it registered. *)
AdmittedPublishes ==
    failed.err = "notValidForHost" =>
        \/ ~Shared[at] /\ ~class.hostTopology
        \/ failed.vm # Registered[failed.node]

(* A volume known by the UUID of its disk keeps that disk: a migration     *)
(* would give it another.                                                  *)
UUIDNeverMigrates == idType = "uuid" => ~moved

(* A volume created for some nodes (the one the scheduler has chosen, say) *)
(* can be scheduled on one of them and used there as it is, unless its VM  *)
(* has moved, the class names one SR, the SR is local and hosts are not    *)
(* told apart, or the disk is one an earlier call had left.                *)
PlacedWhereAsked ==
    co = "bound" /\ ~moved /\ ~adopted /\ class.tag /\ asked.requisite # {}
        /\ (Shared[at] \/ class.hostTopology) =>
        \E n \in asked.requisite :
           Admits(topology, NodeTopology(n)) /\ isCurrentSRValidForHost(at, Registered[n])

(* A disk is migrated only away from an SR that the VM's host cannot use,  *)
(* and only to one that it can use: the filter by which the target is      *)
(* picked, and the check that asked for a migration, fit together.         *)
MigratesToTheHost ==
    [][co = "bound" /\ at' # at =>
        /\ ~isCurrentSRValidForHost(at, call.vm)
        /\ isCurrentSRValidForHost(at', call.vm)]_vars

(* A publish call that finds the disk's SR and others of its kind under    *)
(* the tag answers that there is no SR to migrate to only if none of them  *)
(* is valid for the VM's host: the migration of docs/disk-migrations.md,   *)
(* for local and for shared SRs.                                           *)
MigratesWhereItCan ==
    [][\A tagged \in SUBSET SRs, usage \in UsageSamples :
          LET S == findSRs(toStorageInfo(class), tagged, at) IN
          at \in S /\ Attach(tagged, usage) /\ failed'.err = "noSRFound" =>
             \A s \in S : ~isCurrentSRValidForHost(s, call.vm)]_vars

(* A new disk of a class with a tag has room on its SR as the handler saw  *)
(* it, for every size that does not overflow the sum.                      *)
CreatedHasRoom ==
    [][at = NoSR /\ at' # at /\ class.tag /\ call.look.usage[at'] + capacity <= MaxInt =>
        call.look.usage[at'] + capacity <= Size[at']]_vars

============================================================================

-------------------------- MODULE PlacementProofs --------------------------
(***************************************************************************)
(* Proofs about SRSelection and Placement, for any SRs, hosts, pools,      *)
(* nodes, sizes and usages: what the choice of an SR returns, and what     *)
(* follows for a volume from CreateVolume to ControllerPublishVolume.      *)
(***************************************************************************)
EXTENDS Placement, TLAPS

----------------------------------------------------------------------------
(* The operators.                                                          *)

(* A picked SR is of the set, is a least used one, and passed the test for *)
(* room.                                                                   *)
LEMMA PickedFits ==
    ASSUME NEW S \in SUBSET SRs, NEW usage, NEW c,
           NEW s \in SRs \cap pickSRWithMostSpace(S, usage, c)
    PROVE  s \in S /\ s \in LeastUsed(S, usage) /\ Fits(s, usage, c)
BY SRKinds DEF pickSRWithMostSpace, LeastUsed

(* Whatever the topologies, the SR of a class with a tag passed that test. *)
LEMMA PickedForTopologyFits ==
    ASSUME NEW p \in Selections, p.tag, NEW S \in SUBSET SRs, NEW usage, NEW c, NEW req,
           NEW s \in SRs \cap pickSRForTopology(p, S, usage, c, req)
    PROVE  s \in S /\ Fits(s, usage, c)
<1> DEFINE scope == IF SharedSR(S) THEN "pool" ELSE "host"
           P == filterSrsByTopology(S, req.preferred, scope)
           Q == IF req.requisite = {} THEN S ELSE filterSrsByTopology(S, req.requisite, scope)
<1>1. P \in SUBSET S /\ Q \in SUBSET S
      BY DEF filterSrsByTopology
<1>2. s \in pickSRWithMostSpace(P, usage, c) \/ s \in pickSRWithMostSpace(Q, usage, c)
      BY SRKinds DEF pickSRForTopology, pickSR
<1> QED
    BY <1>1, <1>2, PickedFits

(* With requisite terms that include the preferred ones, it matches one.   *)
LEMMA PickedMatches ==
    ASSUME NEW p \in Selections, p.tag, NEW S \in SUBSET SRs, NEW usage, NEW c, NEW req,
           req.requisite # {}, req.preferred \subseteq req.requisite,
           NEW s \in SRs \cap pickSRForTopology(p, S, usage, c, req)
    PROVE  \E t \in req.requisite : InTopology(s, t, IF SharedSR(S) THEN "pool" ELSE "host")
<1> DEFINE scope == IF SharedSR(S) THEN "pool" ELSE "host"
           P == filterSrsByTopology(S, req.preferred, scope)
           Q == filterSrsByTopology(S, req.requisite, scope)
<1>1. P \in SUBSET SRs /\ Q \in SUBSET SRs
      BY DEF filterSrsByTopology
<1>2. s \in pickSRWithMostSpace(P, usage, c) \/ s \in pickSRWithMostSpace(Q, usage, c)
      BY SRKinds DEF pickSRForTopology, pickSR
<1>3. s \in P \/ s \in Q
      BY <1>1, <1>2, PickedFits
<1> QED
    BY <1>3 DEF filterSrsByTopology

(* Among SRs of one size, ErrNoSpace of pickSRWithMostSpace means what it  *)
(* says, if no sum overflows: none of them has room.                       *)
THEOREM NoSpaceMeansNoRoom ==
    ASSUME NEW S \in SUBSET SRs, NEW usage \in Usages, NEW c \in Nat,
           \A s, t \in S : Size[s] = Size[t],
           \A s \in S : usage[s] + c <= MaxInt,
           "noSpace" \in pickSRWithMostSpace(S, usage, c)
    PROVE  \A s \in S : usage[s] + c > Size[s]
<1>1. PICK t \in LeastUsed(S, usage) : ~Fits(t, usage, c)
      BY SRKinds DEF pickSRWithMostSpace, LeastUsed
<1>2. \A s \in S : usage[s] \in Nat /\ Size[s] \in Nat
      BY Int64 DEF Usages
<1>3. usage[t] + c > Size[t]
      BY <1>1, <1>2, Int64 DEF Fits, Add, LeastUsed
<1> QED
    BY <1>1, <1>2, <1>3 DEF LeastUsed

----------------------------------------------------------------------------
(* What a handler has read, and what it has checked, at each of its steps. *)
CallInv ==
    /\ call.op \in {"pick", "respond"} =>
       /\ co = "wanted"
       /\ call.look.S # {} /\ Consistent(call.look.S)
    /\ call.op = "pick" /\ ~call.found => at = NoSR
    /\ call.op = "respond" /\ ~call.found /\ class.tag /\ call.req.requisite # {} =>
       \E n \in call.req.requisite :
          InTopology(at, NodeTopology(n), IF SharedSR(call.look.S) THEN "pool" ELSE "host")
    /\ call.op = "attach" =>
       co = "bound" /\ failed = Fine /\ Admits(topology, NodeTopology(call.node))

(* Before the response nothing of the volume is used; the response depends *)
(* on the selection and on the SR of the disk, which only a migration      *)
(* changes.                                                                *)
VolumeTopology ==
    IF class.migrating THEN Anywhere
    ELSE [host |-> IF ~Shared[at] /\ class.hostTopology THEN SRHost[at] ELSE Unset,
          pool |-> SRPool[at]]

ResponseInv ==
    /\ co = "wanted" => ~moved /\ failed = Fine /\ idType = "none"
    /\ co = "bound" => topology = VolumeTopology
    /\ moved => class.migrating
    /\ idType = "uuid" => ~class.migrating
    /\ failed.err = "notValidForHost" => ~class.migrating

PlacementInv ==
    /\ TypeOK
    /\ CallInv
    /\ ResponseInv
    /\ AdmittedPublishes
    /\ PlacedWhereAsked

----------------------------------------------------------------------------
LEMMA PlacementInit == Init => PlacementInv
<1> SUFFICES ASSUME Init PROVE PlacementInv
    OBVIOUS
<1>1. TypeOK
      BY NodesAssumption DEF Init, TypeOK, Calls, Idle, Errors, Fine, Anywhere, Topologies
<1> QED
    BY <1>1 DEF Init, PlacementInv, CallInv, ResponseInv, AdmittedPublishes, PlacedWhereAsked,
                Idle, Fine

(* A step of findSRs gives SRs.                                            *)
LEMMA FoundSRs ==
    ASSUME NEW p \in Selections, NEW tagged \in SUBSET SRs, NEW current \in SRs \cup {NoSR}
    PROVE  findSRs(p, tagged, current) \in SUBSET SRs
BY DEF findSRs, Selections

(* The outcomes of the part of ControllerPublishVolume that looks at SRs:  *)
(* an error, the disk attached as it is, or a migration.                   *)
LEMMA AttachOutcomes ==
    ASSUME TypeOK, call.op = "attach", co = "bound",
           NEW tagged \in SUBSET SRs, NEW usage \in UsageSamples, Attach(tagged, usage)
    PROVE  /\ call' = Idle
           /\ UNCHANGED <<class, capacity, vm, response>>
           /\ \/ /\ UNCHANGED disk
                 /\ \E err \in Errors \ {"none"} :
                    /\ failed' = [err |-> err, node |-> call.node, vm |-> call.vm]
                    /\ err = "notValidForHost" =>
                       ~class.migrating /\ ~isCurrentSRValidForHost(at, call.vm)
              \/ /\ UNCHANGED <<at, moved, failed>>
                 /\ att' \in {call.node, NoNode}
              \/ /\ class.migrating /\ moved' = TRUE /\ UNCHANGED failed
                 /\ ~isCurrentSRValidForHost(at, call.vm)
                 /\ at' \in SRs /\ SRHost[at'] = call.vm.host
                 /\ att' \in {call.node, NoNode}
<1> DEFINE info == toStorageInfo(class)
           S == findSRs(info, tagged, at)
           picked == pickSRForHost(S, usage, capacity, call.vm)
           valid == isCurrentSRValidForHost(at, call.vm)
<1>1. info \in Selections /\ info.migrating = class.migrating
      BY DEF toStorageInfo, Selections, TypeOK
<1>2. S \in SUBSET SRs
      BY <1>1, FoundSRs DEF TypeOK
<1> HIDE DEF info, S
<1>3. picked \ SRs \subseteq Errors \ {"none", "notValidForHost"}
      BY <1>2 DEF pickSRForHost, pickSRWithMostSpace, filterSrsForHost, LeastUsed, Errors
<1>4. \A s \in picked \cap SRs : SRHost[s] = call.vm.host
  <2>1. filterSrsForHost(S, call.vm.host) \in SUBSET SRs
        BY <1>2 DEF filterSrsForHost
  <2> QED
      BY <2>1, PickedFits DEF pickSRForHost, filterSrsForHost
<1> HIDE DEF picked, valid
<1>5. \/ S = {} /\ PublishFails("noSRFound")
      \/ ~Consistent(S) /\ PublishFails("inconsistent")
      \/ valid /\ AttachVDI(at) /\ UNCHANGED moved
      \/ ~valid /\ ~info.migrating /\ PublishFails("notValidForHost")
      \/ /\ ~valid /\ info.migrating
         /\ \/ \E s \in picked \cap SRs : AttachVDI(s) /\ moved' = TRUE
            \/ \E e \in picked \ SRs : PublishFails(e)
      BY DEF Attach, info, S, picked, valid
<1>6. ASSUME NEW err \in Errors \ {"none"}, PublishFails(err),
             err = "notValidForHost" => ~class.migrating /\ ~valid
      PROVE  /\ call' = Idle /\ UNCHANGED <<class, capacity, vm, response>>
             /\ UNCHANGED disk
             /\ failed' = [err |-> err, node |-> call.node, vm |-> call.vm]
             /\ err = "notValidForHost" =>
                ~class.migrating /\ ~isCurrentSRValidForHost(at, call.vm)
      BY <1>6 DEF PublishFails, valid
<1>7. CASE S = {} /\ PublishFails("noSRFound")
      BY <1>7, <1>6 DEF Errors
<1>8. CASE ~Consistent(S) /\ PublishFails("inconsistent")
      BY <1>8, <1>6 DEF Errors
<1>9. CASE valid /\ AttachVDI(at) /\ UNCHANGED moved
      BY <1>9 DEF AttachVDI
<1>10. CASE ~valid /\ ~info.migrating /\ PublishFails("notValidForHost")
      BY <1>10, <1>1, <1>6 DEF Errors
<1>11. CASE ~valid /\ info.migrating /\ \E s \in picked \cap SRs : AttachVDI(s) /\ moved' = TRUE
      BY <1>11, <1>1, <1>4 DEF AttachVDI, valid
<1>12. CASE ~valid /\ info.migrating /\ \E e \in picked \ SRs : PublishFails(e)
  <2>1. PICK e \in picked \ SRs : PublishFails(e)
        BY <1>12
  <2>2. e \in Errors \ {"none", "notValidForHost"}
        BY <1>3
  <2> QED
      BY <2>1, <2>2, <1>6
<1> QED
    BY <1>5, <1>7, <1>8, <1>9, <1>10, <1>11, <1>12

----------------------------------------------------------------------------
(* The types.                                                              *)
LEMMA PlacementTypeStep == TypeOK /\ CallInv /\ [Next]_vars => TypeOK'
<1> SUFFICES ASSUME TypeOK, CallInv, [Next]_vars PROVE TypeOK'
    OBVIOUS
<1> USE DEF disk, response
<1>1. ASSUME NEW req \in Requests, NEW tagged \in SUBSET SRs, NEW usage \in UsageSamples,
             FindSRs(req, tagged, usage)
      PROVE  TypeOK'
  <2>1. findSRs(class, tagged, NoSR) \in SUBSET SRs
        BY FoundSRs DEF TypeOK
  <2>2. call' \in Calls /\ call'.op = "pick" /\ co = "wanted"
        BY <1>1, <2>1 DEF FindSRs, Calls, Looks
  <2> QED
      BY <1>1, <2>2 DEF FindSRs, TypeOK
<1>2. CASE CreateDisk
  <2>1. at' \in SRs
        BY <1>2 DEF CreateDisk, TypeOK
  <2>2. call' \in Calls /\ call'.op = "respond"
        BY <1>2 DEF CreateDisk, TypeOK, Calls, Idle
  <2> QED
      BY <1>2, <2>1, <2>2 DEF CreateDisk, TypeOK
<1>3. CASE Respond
  <2>1. at \in SRs /\ call.req \in Requests /\ call.found \in BOOLEAN
        BY <1>3 DEF Respond, TypeOK, Calls, Idle
  <2>2. topology' \in Topologies
    <3>1. SRHost[at] \in Hosts \cup {Unset} /\ SRPool[at] \in Pools
          BY <2>1, SRKinds
    <3> QED
        BY <1>3, <3>1 DEF Respond, getTopologyForVDI, getVolumeScope, Topologies
  <2>3. idType' \in {"none", "uuid", "name"} /\ call' = Idle
        BY <1>3 DEF Respond, VolumeIDType
  <2> QED
      BY <1>3, <2>1, <2>2, <2>3 DEF Respond, TypeOK, Calls, Idle
<1>4. CASE CallFails
      BY <1>4 DEF CallFails, TypeOK, Calls, Idle
<1>5. ASSUME NEW n \in Nodes, Publish(n) PROVE TypeOK'
  <2>1. vm[n] \in [host : Hosts, pool : Pools]
        BY DEF TypeOK
  <2>2. call' \in Calls /\ call'.op = "attach"
        BY <1>5, <2>1 DEF Publish, Calls
  <2>3. failed' \in [err : Errors, node : Nodes \cup {NoNode}, vm : Topologies]
        BY <1>5 DEF Publish, Fine, Anywhere, Errors, Topologies
  <2> QED
      BY <1>5, <2>2, <2>3 DEF Publish, TypeOK
<1>6. ASSUME NEW tagged \in SUBSET SRs, NEW usage \in UsageSamples, Attach(tagged, usage)
      PROVE  TypeOK'
  <2>1. call.op = "attach" /\ co = "bound"
        BY <1>6 DEF Attach, CallInv
  <2>2. call.node \in Nodes /\ call.vm \in [host : Hosts, pool : Pools]
        BY <2>1 DEF TypeOK, Calls, Idle
  <2>3. call.vm \in Topologies
        BY <2>2 DEF Topologies
  <2>4. \/ UNCHANGED <<at, moved, att>>
        \/ UNCHANGED <<at, moved, failed>> /\ att' \in {call.node, NoNode}
        \/ moved' = TRUE /\ UNCHANGED failed /\ at' \in SRs /\ att' \in {call.node, NoNode}
        BY <1>6, <2>1, AttachOutcomes
  <2>5. /\ call' = Idle /\ UNCHANGED <<class, capacity, vm, co, asked, adopted, topology, idType>>
        /\ \/ UNCHANGED failed
           \/ \E err \in Errors : failed' = [err |-> err, node |-> call.node, vm |-> call.vm]
        BY <1>6, <2>1, AttachOutcomes
  <2>6. failed' \in [err : Errors, node : Nodes \cup {NoNode}, vm : Topologies]
        BY <2>2, <2>3, <2>5 DEF TypeOK
  <2>7. at' \in SRs /\ att' \in Nodes \cup {NoNode} /\ moved' \in BOOLEAN
        BY <2>1, <2>2, <2>4 DEF TypeOK
  <2>8. call' \in Calls /\ call'.op = "idle"
        BY <2>5 DEF Calls, Idle
  <2> QED
      BY <2>5, <2>6, <2>7, <2>8 DEF TypeOK
<1>7. CASE Detach
      BY <1>7 DEF Detach, TypeOK
<1>8. ASSUME NEW n \in Nodes, NEW h \in Hosts, MoveVM(n, h) PROVE TypeOK'
  <2>1. vm[n] \in [host : Hosts, pool : Pools]
        BY DEF TypeOK
  <2>2. vm' = [vm EXCEPT ![n] = [host |-> h, pool |-> vm[n].pool]]
        BY <1>8 DEF MoveVM
  <2>3. vm' \in [Nodes -> [host : Hosts, pool : Pools]]
        BY <2>1, <2>2 DEF TypeOK
  <2> QED
      BY <1>8, <2>3 DEF MoveVM, TypeOK
<1>9. CASE UNCHANGED vars
      BY <1>9 DEF vars, TypeOK
<1> QED
    BY <1>1, <1>2, <1>3, <1>4, <1>5, <1>6, <1>7, <1>8, <1>9 DEF Next


(* An attach call works on a bound volume for a node of its topology.      *)
LEMMA AttachCall ==
    ASSUME TypeOK, CallInv, call.op = "attach"
    PROVE  /\ co = "bound" /\ failed = Fine /\ at \in SRs
           /\ call.node \in Nodes /\ call.vm \in [host : Hosts, pool : Pools]
           /\ Admits(topology, NodeTopology(call.node))
<1>1. call.node \in Nodes /\ call.vm \in [host : Hosts, pool : Pools]
      BY DEF TypeOK, Calls, Idle
<1> QED
    BY <1>1 DEF TypeOK, CallInv

(* CreateVolume has read and kept what its response will rest on.          *)
LEMMA CreateCall ==
    ASSUME TypeOK, CallInv, call.op \in {"pick", "respond"}
    PROVE  /\ co = "wanted"
           /\ call.req \in Requests /\ call.found \in BOOLEAN
           /\ call.look.S \in SUBSET SRs /\ call.look.S # {} /\ Consistent(call.look.S)
           /\ call.look.usage \in UsageSamples
<1>1. call \in [op : {"pick", "respond"}, req : Requests, look : Looks, found : BOOLEAN]
      BY DEF TypeOK, Calls, Idle
<1> QED
    BY <1>1 DEF CallInv, Looks

LEMMA SharedOfOne ==
    ASSUME NEW S \in SUBSET SRs, Consistent(S), NEW s \in S
    PROVE  SharedSR(S) <=> Shared[s]
BY SRKinds DEF SharedSR, Consistent

----------------------------------------------------------------------------
(* A disk CreateVolume creates matches a node of the request.              *)
LEMMA CreatedMatches ==
    ASSUME TypeOK, CallInv, CreateDisk, ~call.found, class.tag, call.req.requisite # {}
    PROVE  \E n \in call.req.requisite :
              InTopology(at', NodeTopology(n), IF SharedSR(call.look.S) THEN "pool" ELSE "host")
<1>1. call.op = "pick" /\ at = NoSR /\ NoSR \notin SRs
      BY SRKinds DEF CreateDisk, CallInv
<1>2. /\ call.look.S \in SUBSET SRs
      /\ call.req.preferred \subseteq call.req.requisite
      BY <1>1, CreateCall, RequestsAssumption
<1>3. /\ at' \in SRs
      /\ at' \in pickSRForTopology(class, call.look.S, call.look.usage, capacity, Terms(call.req))
      BY <1>1 DEF CreateDisk
<1>4. /\ Terms(call.req).requisite = {NodeTopology(n) : n \in call.req.requisite}
      /\ Terms(call.req).preferred = {NodeTopology(n) : n \in call.req.preferred}
      BY DEF Terms
<1>5. /\ Terms(call.req).requisite # {}
      /\ Terms(call.req).preferred \subseteq Terms(call.req).requisite
      BY <1>2, <1>4
<1>6. class \in Selections
      BY DEF TypeOK
<1>7. \E t \in Terms(call.req).requisite :
         InTopology(at', t, IF SharedSR(call.look.S) THEN "pool" ELSE "host")
      BY <1>2, <1>3, <1>5, <1>6, PickedMatches
<1> QED
    BY <1>4, <1>7

LEMMA CallInvStep == PlacementInv /\ [Next]_vars => CallInv'
<1> SUFFICES ASSUME PlacementInv, [Next]_vars PROVE CallInv'
    OBVIOUS
<1> TypeOK /\ CallInv /\ ResponseInv
    BY DEF PlacementInv
<1> USE DEF disk, response
<1>1. ASSUME NEW req \in Requests, NEW tagged \in SUBSET SRs, NEW usage \in UsageSamples,
             FindSRs(req, tagged, usage)
      PROVE  CallInv'
      BY <1>1 DEF FindSRs, CallInv, Consistent
<1>2. CASE CreateDisk
  <2>1. call.op = "pick" /\ call'.op = "respond" /\ call'.look = call.look
        /\ call'.req = call.req /\ call'.found = call.found
        /\ UNCHANGED <<class, co>>
        BY <1>2 DEF CreateDisk
  <2>2. co = "wanted" /\ call.look.S # {} /\ Consistent(call.look.S)
        BY <2>1 DEF CallInv
  <2>3. ~call.found /\ class.tag /\ call.req.requisite # {} =>
        \E n \in call.req.requisite :
           InTopology(at', NodeTopology(n), IF SharedSR(call.look.S) THEN "pool" ELSE "host")
        BY <1>2, CreatedMatches
  <2> QED
      BY <2>1, <2>2, <2>3 DEF CallInv, NodeTopology
<1>3. CASE Respond \/ CallFails
      BY <1>3 DEF Respond, CallFails, CallInv, Idle
<1>4. ASSUME NEW n \in Nodes, Publish(n) PROVE CallInv'
  <2>1. /\ call'.op = "attach" /\ call'.node = n /\ co' = "bound" /\ failed' = Fine
        /\ UNCHANGED <<class, topology>> /\ Admits(topology, NodeTopology(n))
        BY <1>4 DEF Publish
  <2> QED
      BY <2>1 DEF CallInv, NodeTopology, Admits
<1>5. ASSUME NEW tagged \in SUBSET SRs, NEW usage \in UsageSamples, Attach(tagged, usage)
      PROVE  CallInv'
  <2>1. call.op = "attach"
        BY <1>5 DEF Attach
  <2>2. call' = Idle
        BY <1>5, <2>1, AttachCall, AttachOutcomes
  <2> QED
      BY <2>2 DEF CallInv, Idle
<1>6. CASE Detach
      BY <1>6 DEF Detach, CallInv, NodeTopology, Admits
<1>7. ASSUME NEW n \in Nodes, NEW h \in Hosts, MoveVM(n, h) PROVE CallInv'
      BY <1>7 DEF MoveVM, CallInv, NodeTopology, Admits
<1>8. CASE UNCHANGED vars
      BY <1>8 DEF vars, CallInv, NodeTopology, Admits
<1> QED
    BY <1>1, <1>2, <1>3, <1>4, <1>5, <1>6, <1>7, <1>8 DEF Next

LEMMA ResponseInvStep == PlacementInv /\ [Next]_vars => ResponseInv'
<1> SUFFICES ASSUME PlacementInv, [Next]_vars PROVE ResponseInv'
    OBVIOUS
<1> TypeOK /\ CallInv /\ ResponseInv
    BY DEF PlacementInv
<1> USE DEF disk, response
<1>1. ASSUME NEW req \in Requests, NEW tagged \in SUBSET SRs, NEW usage \in UsageSamples,
             FindSRs(req, tagged, usage)
      PROVE  ResponseInv'
      BY <1>1 DEF FindSRs, ResponseInv, VolumeTopology
<1>2. CASE CreateDisk
  <2>1. co = "wanted" /\ UNCHANGED <<class, response, moved, failed>>
        BY <1>2 DEF CreateDisk, CallInv
  <2> QED
      BY <2>1 DEF ResponseInv
<1>3. CASE Respond
  <2>1. /\ co = "wanted" /\ call.look.S \in SUBSET SRs /\ Consistent(call.look.S)
        /\ at \in call.look.S
        BY <1>3, CreateCall DEF Respond
  <2>2. SharedSR(call.look.S) <=> Shared[at]
        BY <2>1, SharedOfOne
  <2>3. topology' = VolumeTopology
        BY <1>3, <2>2 DEF Respond, getTopologyForVDI, getVolumeScope, VolumeTopology, Anywhere
  <2>4. idType' = "uuid" => ~class.migrating
        BY <1>3 DEF Respond, VolumeIDType
  <2>5. ~moved /\ failed = Fine
        BY <2>1 DEF ResponseInv
  <2>6. co' = "bound" /\ UNCHANGED <<class, at, moved, failed>>
        BY <1>3 DEF Respond
  <2> QED
      BY <2>3, <2>4, <2>5, <2>6 DEF ResponseInv, VolumeTopology, Fine
<1>4. CASE CallFails
      BY <1>4 DEF CallFails, ResponseInv, VolumeTopology
<1>5. ASSUME NEW n \in Nodes, Publish(n) PROVE ResponseInv'
      BY <1>5 DEF Publish, ResponseInv, VolumeTopology, Fine
<1>6. ASSUME NEW tagged \in SUBSET SRs, NEW usage \in UsageSamples, Attach(tagged, usage)
      PROVE  ResponseInv'
  <2>1. call.op = "attach" /\ co = "bound"
        BY <1>6, AttachCall DEF Attach
  <2>2. UNCHANGED <<class, response>>
        BY <1>6, <2>1, AttachOutcomes
  <2>3. (UNCHANGED at \/ class.migrating) /\ (UNCHANGED moved \/ class.migrating)
        BY <1>6, <2>1, AttachOutcomes
  <2>4. UNCHANGED failed \/ (failed'.err = "notValidForHost" => ~class.migrating)
    <3>1. CASE UNCHANGED failed
          BY <3>1
    <3>2. CASE ~UNCHANGED failed
      <4>1. PICK err \in Errors :
               /\ failed' = [err |-> err, node |-> call.node, vm |-> call.vm]
               /\ err = "notValidForHost" => ~class.migrating
            BY <1>6, <2>1, <3>2, AttachOutcomes
      <4>2. failed'.err = err
            BY <4>1
      <4> QED
          BY <4>1, <4>2
    <3> QED
        BY <3>1, <3>2
  <2> QED
      BY <2>1, <2>2, <2>3, <2>4 DEF ResponseInv, VolumeTopology
<1>7. CASE Detach
      BY <1>7 DEF Detach, ResponseInv, VolumeTopology
<1>8. ASSUME NEW n \in Nodes, NEW h \in Hosts, MoveVM(n, h) PROVE ResponseInv'
      BY <1>8 DEF MoveVM, ResponseInv, VolumeTopology
<1>9. CASE UNCHANGED vars
      BY <1>9 DEF vars, ResponseInv, VolumeTopology
<1> QED
    BY <1>1, <1>2, <1>3, <1>4, <1>5, <1>6, <1>7, <1>8, <1>9 DEF Next

----------------------------------------------------------------------------
(* A node the topology of a volume admits can use its SR, if its VM is     *)
(* where it registered and the topology tells the SR's host, if it has one.*)
LEMMA AdmittedIsValid ==
    ASSUME TypeOK, NEW s \in SRs, at = s, ~class.migrating, topology = VolumeTopology,
           Shared[s] \/ class.hostTopology,
           NEW n \in Nodes, Admits(topology, NodeTopology(n))
    PROVE  isCurrentSRValidForHost(s, Registered[n])
<1>1. /\ NodeTopology(n).host = (IF class.hostTopology THEN Registered[n].host ELSE Unset)
      /\ NodeTopology(n).pool = Registered[n].pool
      BY NodesAssumption DEF NodeTopology
<1>2. /\ Unset \notin Hosts \cup Pools
      /\ Shared[s] <=> SRHost[s] = Unset
      /\ SRPool[s] \in Pools
      BY SRKinds
<1>3. /\ topology.host = (IF ~Shared[s] /\ class.hostTopology THEN SRHost[s] ELSE Unset)
      /\ topology.pool = SRPool[s]
      BY DEF VolumeTopology
<1> QED
    BY <1>1, <1>2, <1>3 DEF Admits, isCurrentSRValidForHost

LEMMA AdmittedStep == PlacementInv /\ [Next]_vars => AdmittedPublishes'
<1> SUFFICES ASSUME PlacementInv, [Next]_vars PROVE AdmittedPublishes'
    OBVIOUS
<1> TypeOK /\ CallInv /\ ResponseInv /\ AdmittedPublishes
    BY DEF PlacementInv
<1> USE DEF disk, response
<1>1. CASE UNCHANGED <<class, at, failed>>
      BY <1>1 DEF AdmittedPublishes
<1>2. CASE CreateDisk
      BY <1>2 DEF CreateDisk, CallInv, ResponseInv, AdmittedPublishes, Fine
<1>3. ASSUME NEW n \in Nodes, Publish(n) PROVE AdmittedPublishes'
      BY <1>3 DEF Publish, AdmittedPublishes, Fine
<1>4. ASSUME NEW tagged \in SUBSET SRs, NEW usage \in UsageSamples, Attach(tagged, usage)
      PROVE  AdmittedPublishes'
  <2>1. call.op = "attach" /\ co = "bound" /\ failed = Fine /\ at \in SRs
        /\ call.node \in Nodes /\ Admits(topology, NodeTopology(call.node))
        BY <1>4, AttachCall DEF Attach
  <2>2. CASE UNCHANGED failed
        BY <2>1, <2>2 DEF AdmittedPublishes, Fine
  <2>3. CASE ~UNCHANGED failed
    <3>1. UNCHANGED <<at, class>>
          BY <1>4, <2>1, <2>3, AttachOutcomes
    <3>2. PICK err : /\ failed' = [err |-> err, node |-> call.node, vm |-> call.vm]
                     /\ err = "notValidForHost" =>
                        ~class.migrating /\ ~isCurrentSRValidForHost(at, call.vm)
          BY <1>4, <2>1, <2>3, AttachOutcomes
    <3>3. topology = VolumeTopology
          BY <2>1 DEF ResponseInv
    <3>4. err = "notValidForHost" /\ (Shared[at] \/ class.hostTopology) =>
          call.vm # Registered[call.node]
          BY <2>1, <3>2, <3>3, AdmittedIsValid
    <3>5. Shared[at] \in BOOLEAN
          BY <2>1, SRKinds
    <3> QED
        BY <3>1, <3>2, <3>4, <3>5 DEF AdmittedPublishes
  <2> QED
      BY <2>2, <2>3
<1> QED
    BY <1>1, <1>2, <1>3, <1>4 DEF Next, vars, FindSRs, Respond, CallFails, Detach, MoveVM

LEMMA PlacedStep == PlacementInv /\ [Next]_vars => PlacedWhereAsked'
<1> SUFFICES ASSUME PlacementInv, [Next]_vars PROVE PlacedWhereAsked'
    OBVIOUS
<1> TypeOK /\ CallInv /\ ResponseInv /\ PlacedWhereAsked
    BY DEF PlacementInv
<1> USE DEF disk, response
<1>1. CASE UNCHANGED <<class, response, at, moved>>
      BY <1>1 DEF PlacedWhereAsked, NodeTopology
<1>2. CASE CreateDisk
  <2>1. co' = "wanted"
        BY <1>2 DEF CreateDisk, CallInv
  <2> QED
      BY <2>1 DEF PlacedWhereAsked
<1>3. CASE Respond
  <2> SUFFICES ASSUME ~call.found, class.tag, call.req.requisite # {},
                      Shared[at] \/ class.hostTopology
               PROVE  \E n \in call.req.requisite :
                         /\ Admits(topology', NodeTopology(n))
                         /\ isCurrentSRValidForHost(at, Registered[n])
      BY <1>3 DEF Respond, PlacedWhereAsked, NodeTopology
  <2>1. /\ call.op = "respond" /\ at \in call.look.S /\ call.look.S \in SUBSET SRs
        /\ Consistent(call.look.S) /\ call.req \in Requests
        BY <1>3, CreateCall DEF Respond
  <2>2. PICK n \in call.req.requisite :
             InTopology(at, NodeTopology(n), IF SharedSR(call.look.S) THEN "pool" ELSE "host")
        BY <2>1 DEF CallInv
  <2>3. n \in Nodes /\ at \in SRs
        BY <2>1, RequestsAssumption
  <2>4. SharedSR(call.look.S) <=> Shared[at]
        BY <2>1, SharedOfOne
  <2>5. /\ Unset \notin Hosts \cup Pools
        /\ Shared[at] <=> SRHost[at] = Unset
        /\ Registered[n].pool \in Pools /\ Registered[n].host \in Hosts
        BY <2>3, SRKinds, NodesAssumption
  <2>6. /\ NodeTopology(n).host = (IF class.hostTopology THEN Registered[n].host ELSE Unset)
        /\ NodeTopology(n).pool = Registered[n].pool
        BY <2>3, NodesAssumption DEF NodeTopology
  <2>7. /\ SRPool[at] = Registered[n].pool
        /\ ~Shared[at] => SRHost[at] = Registered[n].host
        BY <2>2, <2>4, <2>5, <2>6 DEF InTopology
  <2>8. /\ topology'.host \in {Unset, SRHost[at]} /\ topology'.pool \in {Unset, SRPool[at]}
        /\ topology'.host = Unset \/ (~Shared[at] /\ class.hostTopology)
        BY <1>3, <2>4 DEF Respond, getTopologyForVDI, getVolumeScope
  <2>9. Admits(topology', NodeTopology(n)) /\ isCurrentSRValidForHost(at, Registered[n])
        BY <2>6, <2>7, <2>8 DEF Admits, isCurrentSRValidForHost
  <2> QED
      BY <2>9
<1>4. ASSUME NEW tagged \in SUBSET SRs, NEW usage \in UsageSamples, Attach(tagged, usage)
      PROVE  PlacedWhereAsked'
  <2>1. call.op = "attach" /\ co = "bound"
        BY <1>4, AttachCall DEF Attach
  <2>2. UNCHANGED <<class, response>> /\ (moved' = TRUE \/ UNCHANGED <<at, moved>>)
        BY <1>4, <2>1, AttachOutcomes
  <2> QED
      BY <2>2, <1>1 DEF PlacedWhereAsked
<1> QED
    BY <1>1, <1>2, <1>3, <1>4
       DEF Next, vars, FindSRs, CallFails, Publish, Detach, MoveVM

LEMMA PlacementInvariant == Spec => []PlacementInv
<1>1. PlacementInv /\ [Next]_vars => PlacementInv'
      BY PlacementTypeStep, CallInvStep, ResponseInvStep, AdmittedStep, PlacedStep
         DEF PlacementInv
<1> QED
    BY <1>1, PlacementInit, PTL DEF Spec

----------------------------------------------------------------------------
(* Every state has the types the model declares; a bound volume has a disk *)
(* on an SR.                                                               *)
THEOREM PlacementTypeCorrect == Spec => []TypeOK
BY PlacementInvariant, PTL DEF PlacementInv

(* The topology CreateVolume answers sends a volume that may not migrate   *)
(* only to nodes that can use its SR.                                      *)
THEOREM AdmittedNodesCanUseTheVolume == Spec => []AdmittedPublishes
BY PlacementInvariant, PTL DEF PlacementInv

(* VolumeIDType and needsMigration agree: what is known by its disk's UUID *)
(* is never migrated.                                                      *)
THEOREM UUIDsAreStable == Spec => []UUIDNeverMigrates
<1>1. PlacementInv => UUIDNeverMigrates
      BY DEF PlacementInv, ResponseInv, UUIDNeverMigrates
<1> QED
    BY <1>1, PlacementInvariant, PTL

(* pickSRForTopology and getTopologyForVDI agree: a volume created for     *)
(* some nodes can be scheduled and used on one of them.                    *)
THEOREM VolumesArePlacedWhereAsked == Spec => []PlacedWhereAsked
BY PlacementInvariant, PTL DEF PlacementInv

(* ControllerPublishVolume migrates only a disk the host cannot use, and   *)
(* only to an SR it can use.                                               *)
THEOREM MigrationsServeTheHost == Spec => MigratesToTheHost
<1>1. ASSUME PlacementInv, [Next]_vars, co = "bound", at' # at
      PROVE  /\ ~isCurrentSRValidForHost(at, call.vm)
             /\ isCurrentSRValidForHost(at', call.vm)
  <2> TypeOK /\ CallInv
      BY <1>1 DEF PlacementInv
  <2>1. PICK tagged \in SUBSET SRs, usage \in UsageSamples : Attach(tagged, usage)
        BY <1>1 DEF Next, vars, disk, FindSRs, CreateDisk, CallInv, Respond, CallFails,
                    Publish, Detach, MoveVM
  <2>2. call.op = "attach" /\ call.vm \in [host : Hosts, pool : Pools]
        BY <2>1, AttachCall DEF Attach
  <2>3. /\ ~isCurrentSRValidForHost(at, call.vm)
        /\ at' \in SRs /\ SRHost[at'] = call.vm.host
        BY <1>1, <2>1, <2>2, AttachOutcomes DEF disk
  <2> QED
      BY <2>2, <2>3, SRKinds DEF isCurrentSRValidForHost
<1>2. PlacementInv /\ [Next]_vars =>
      [co = "bound" /\ at' # at =>
        /\ ~isCurrentSRValidForHost(at, call.vm)
        /\ isCurrentSRValidForHost(at', call.vm)]_vars
      BY <1>1
<1> QED
    BY <1>2, PlacementInvariant, PTL DEF Spec, MigratesToTheHost

(* A disk CreateVolume creates by a tag has room where it is created, for  *)
(* the usage the handler read and every size that does not overflow.       *)
THEOREM CreatedDisksFit == Spec => CreatedHasRoom
<1>1. ASSUME PlacementInv, [Next]_vars, at = NoSR, at' # at, class.tag,
             call.look.usage[at'] + capacity <= MaxInt
      PROVE  call.look.usage[at'] + capacity <= Size[at']
  <2> TypeOK /\ CallInv
      BY <1>1 DEF PlacementInv
  <2>1. co = "wanted"
        BY <1>1, SRKinds DEF TypeOK
  <2>2. CreateDisk
        BY <1>1, <2>1, AttachCall DEF Next, vars, disk, FindSRs, CallInv, Respond, CallFails,
                    Publish, Attach, Detach, MoveVM
  <2>3. /\ call.look.S \in SUBSET SRs
        /\ at' \in SRs
        /\ at' \in pickSRForTopology(class, call.look.S, call.look.usage, capacity,
                                     Terms(call.req))
        BY <1>1, <2>2, CreateCall DEF CreateDisk
  <2>4. Fits(at', call.look.usage, capacity)
        BY <1>1, <2>3, PickedForTopologyFits DEF TypeOK
  <2>5. call.look.usage[at'] \in Int /\ capacity \in Int /\ MaxInt \in Int
    <3>1. call.look.usage \in [SRs -> 0..MaxInt] /\ capacity \in 0..MaxInt
          BY <2>2, CreateCall, NumbersAssumption DEF CreateDisk, TypeOK, Usages
    <3> QED
        BY <3>1, <2>3, Int64
  <2> QED
      BY <1>1, <2>4, <2>5 DEF Fits, Add
<1>2. PlacementInv /\ [Next]_vars =>
      [at = NoSR /\ at' # at /\ class.tag /\ call.look.usage[at'] + capacity <= MaxInt =>
        call.look.usage[at'] + capacity <= Size[at']]_vars
      BY <1>1
<1> QED
    BY <1>2, PlacementInvariant, PTL DEF Spec, CreatedHasRoom

============================================================================

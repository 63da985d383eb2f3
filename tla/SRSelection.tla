---------------------------- MODULE SRSelection ----------------------------
(***************************************************************************)
(* The choice of a storage repository: pkg/csi/sr_selection.go and         *)
(* pkg/csi/storage_parameters.go as operators.                             *)
(*                                                                         *)
(* The SRs of an answer of Xen Orchestra come in the order of a Go map, so *)
(* the first of several least used SRs may be any of them: what the code   *)
(* picks is a set of possible outcomes here, SRs or errors.                *)
(***************************************************************************)
EXTENDS Integers

CONSTANTS
    SRs, Hosts, Pools,
    NoSR,
    Unset,         \* the empty string: a host or pool that is not given
    Shared,        \* Shared[s], SRHost[s], SRPool[s], Size[s]: as in xoa.SR
    SRHost,        \* (a shared SR's $container is not a host)
    SRPool,
    Size,
    MaxInt         \* the largest int64

ASSUME SRKinds ==
    /\ NoSR \notin SRs /\ {"noSRFound", "noSpace"} \cap SRs = {} /\ Unset \notin Hosts \cup Pools
    /\ Shared \in [SRs -> BOOLEAN]
    /\ SRHost \in [SRs -> Hosts \cup {Unset}]
    /\ SRPool \in [SRs -> Pools]
    /\ \A s \in SRs : Shared[s] <=> SRHost[s] = Unset
ASSUME Int64 ==
    /\ MaxInt \in Nat
    /\ Size \in [SRs -> 0..MaxInt]

(* Usages of the SRs, and topology terms of a request or of a node.        *)
Usages == [SRs -> 0..MaxInt]
Topologies == [host : Hosts \cup {Unset}, pool : Pools \cup {Unset}]

----------------------------------------------------------------------------
(* storageSelection: an SR by its UUID, or a tag, and whether the disk may *)
(* be migrated, from the parameters of a storage class or from the         *)
(* StorageInfo of a disk; and the flag --host-topology.                    *)
Selections == [uuid : SRs \cup {NoSR}, tag : BOOLEAN, migrating : BOOLEAN,
               hostTopology : BOOLEAN]

LoadStorageParameters(p) ==
    /\ ~(p.uuid # NoSR /\ p.tag)
    /\ ~(p.uuid # NoSR /\ p.migrating)

(* What of the selection a disk remembers: the tag, if it may migrate.     *)
toStorageInfo(p) == [p EXCEPT !.uuid = NoSR, !.tag = p.migrating /\ @]

(* findSRs: the SRs of the selection, given those that have the tag and    *)
(* the SR of the disk, if there is one.                                    *)
findSRs(p, tagged, current) ==
    IF p.uuid # NoSR THEN {p.uuid}
    ELSE IF p.tag THEN tagged
    ELSE IF current # NoSR THEN {current} ELSE {}

SharedSR(S) == \A s \in S : Shared[s]
Consistent(S) == \A s, t \in S : Shared[s] = Shared[t]

VolumeIDType(p, S) == IF ~p.migrating /\ SharedSR(S) THEN "uuid" ELSE "name"

(* Mutant: --host-topology is forgotten.                                   *)
MutantPoolScope(p, S) == IF p.migrating THEN "global" ELSE "pool"

getVolumeScope(p, S) ==
    IF p.migrating THEN "global"
    ELSE IF ~SharedSR(S) /\ p.hostTopology THEN "host" ELSE "pool"

----------------------------------------------------------------------------
(* Mutant: the host of a topology term is not looked at.                   *)
MutantPoolOnly(s, t, scope) ==
    scope \in {"host", "pool"} => t.pool \in {Unset, SRPool[s]}

InTopology(s, t, scope) ==
    /\ scope = "host" => t.host \in {Unset, SRHost[s]}
    /\ scope \in {"host", "pool"} => t.pool \in {Unset, SRPool[s]}

filterSrsByTopology(S, T, scope) == {s \in S : \E t \in T : InTopology(s, t, scope)}

(* Mutant: the SR of the right host is not asked for.                      *)
MutantAnyHost(S, host) == S

filterSrsForHost(S, host) == {s \in S : SRHost[s] = host}

(* int64 addition.                                                         *)
Add(m, n) == IF m + n > MaxInt THEN m + n - 2 * (MaxInt + 1) ELSE m + n

Fits(s, usage, capacity) == Add(usage[s], capacity) <= Size[s]

LeastUsed(S, usage) == {s \in S : \A t \in S : usage[s] <= usage[t]}

(* Mutant: the room is not looked at.                                      *)
MutantNoRoomCheck(S, usage, capacity) ==
    IF S = {} THEN {"noSRFound"} ELSE LeastUsed(S, usage)

pickSRWithMostSpace(S, usage, capacity) ==
    IF S = {} THEN {"noSRFound"}
    ELSE {s \in LeastUsed(S, usage) : Fits(s, usage, capacity)}
         \cup {e \in {"noSpace"} : \E s \in LeastUsed(S, usage) : ~Fits(s, usage, capacity)}

(* pickSR: the preferred topologies first, then the requisite ones; a      *)
(* request without either takes any SR.                                    *)
pickSR(S, usage, capacity, req, scope) ==
    LET preferred ==
            IF req.preferred = {} THEN {"noSRFound"}
            ELSE pickSRWithMostSpace(filterSrsByTopology(S, req.preferred, scope), usage, capacity)
        rest == IF req.requisite = {} THEN S ELSE filterSrsByTopology(S, req.requisite, scope)
    IN
    (preferred \cap SRs)
    \cup IF preferred \subseteq SRs THEN {} ELSE pickSRWithMostSpace(rest, usage, capacity)

(* An SR selected by UUID is taken as it is.                               *)
pickSRForTopology(p, S, usage, capacity, req) ==
    IF ~p.tag THEN S
    ELSE pickSR(S, usage, capacity, req, IF SharedSR(S) THEN "pool" ELSE "host")

----------------------------------------------------------------------------
isCurrentSRValidForHost(s, vm) ==
    IF Shared[s] THEN SRPool[s] = vm.pool ELSE SRHost[s] = vm.host

pickSRForHost(S, usage, capacity, vm) ==
    pickSRWithMostSpace(filterSrsForHost(S, vm.host), usage, capacity)

(* getTopologyForVDI: the term a node's topology has to match; a term      *)
(* without segments is matched by all.                                     *)
getTopologyForVDI(p, S, s) ==
    [host |-> IF getVolumeScope(p, S) = "host" THEN SRHost[s] ELSE Unset,
     pool |-> IF getVolumeScope(p, S) = "global" THEN Unset ELSE SRPool[s]]

============================================================================

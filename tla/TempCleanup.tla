---------------------------- MODULE TempCleanup ----------------------------
(***************************************************************************)
(* pkg/csi/temp_cleanup.go: the goroutine that lists the disks every two   *)
(* minutes, marks a disk that has had a temporary name for ten minutes as  *)
(* a deletion candidate, and deletes a candidate thirty minutes old.       *)
(*                                                                         *)
(* A pass works on the answer of one GetVDIs call ("listing"), disk after  *)
(* disk, while handlers go on.  The two ages are sets: seenLong has the    *)
(* disks first seen more than ten minutes ago, markOld those whose mark is *)
(* older than thirty minutes; time moves a disk into them at any step      *)
(* after the age began, so every order the clock allows is there.          *)
(***************************************************************************)
EXTENDS XODisks, CreationLock

CONSTANTS
    CleanupEnabled,  \* the controller's flag --temp-cleanup
    NoVDI            \* no disk

ASSUME NoVDIAssumption == NoVDI \notin VDIs
ASSUME CleanupEnabledAssumption == CleanupEnabled \in BOOLEAN

VARIABLES
    cpc,        \* where the goroutine is
    listing,    \* the disks as the pass's GetVDIs returned them
    todo,       \* the listed disks the pass has not come to
    cur,        \* the disk setDeletionCandidate works on
    firstSeen,  \* the disks that have an entry in the map firstSeen
    seenLong,   \* those whose entry is older than ten minutes
    markOld     \* the disks whose deletion mark is older than thirty minutes

cleanupVars == <<cpc, listing, todo, cur, firstSeen, seenLong, markOld>>

NoListing == [d \in VDIs |-> NoDisk("unborn")]
SeenNow == {d \in VDIs : listing[d].st = "live"}

CleanupInit ==
    /\ cpc = "idle"
    /\ listing = NoListing
    /\ todo = {} /\ cur = NoVDI
    /\ firstSeen = {} /\ seenLong = {} /\ markOld = {}

CleanupTypeOK ==
    /\ cpc \in {"idle", "scan", "lock", "refetch", "mark"}
    /\ listing \in [VDIs -> VDIRecord]
    /\ todo \in SUBSET VDIs
    /\ cur \in VDIs \cup {NoVDI}
    /\ firstSeen \in SUBSET VDIs
    /\ seenLong \in SUBSET firstSeen
    /\ markOld \in SUBSET VDIs

----------------------------------------------------------------------------
(* A tick of the timer, and the answer of GetVDIs.                         *)
List ==
    /\ CleanupEnabled
    /\ cpc = "idle"
    /\ cpc' = "scan"
    /\ listing' = vdi
    /\ todo' = Live
    /\ UNCHANGED <<diskVars, lockVars, cur, firstSeen, seenLong, markOld>>

(* The loop's body for a listed disk d: what the listing says of it decides *)
(* which of these it does.                                                 *)
Listed(d, desc) ==
    /\ cpc = "scan"
    /\ d \in todo
    /\ listing[d].name = "temp"
    /\ listing[d].desc = desc

Done(d) == todo' = todo \ {d} /\ UNCHANGED listing

(* Nothing to do: the name is not temporary, the metadata is StorageInfo,  *)
(* or the age is not reached.                                              *)
Skip(d) ==
    /\ cpc = "scan"
    /\ d \in todo
    /\ \/ listing[d].name = "final" \/ listing[d].desc = "info"
       \/ Listed(d, "none") /\ d \in firstSeen \ seenLong
       \/ Listed(d, "candidate") /\ d \notin markOld
    /\ Done(d)
    /\ UNCHANGED <<diskVars, lockVars, cpc, cur, firstSeen, seenLong, markOld>>

Observe(d) ==
    /\ Listed(d, "none")
    /\ d \notin firstSeen
    /\ firstSeen' = firstSeen \cup {d}
    /\ Done(d)
    /\ UNCHANGED <<diskVars, lockVars, cpc, cur, seenLong, markOld>>

(* Candidate old enough, judged by the listing and without the lock.       *)
(* DeleteVDI of a disk that is gone is an error that is only logged.       *)
DeleteCandidate(d) ==
    /\ Listed(d, "candidate")
    /\ d \in markOld
    /\ IF d \in Live THEN DeleteVDI(d) ELSE UNCHANGED vdi
    /\ Done(d)
    /\ UNCHANGED <<faults, lockVars, cpc, cur, firstSeen, seenLong, markOld>>

DeleteCandidateFails(d) ==
    /\ Listed(d, "candidate")
    /\ d \in markOld
    /\ CallFails
    /\ Done(d)
    /\ UNCHANGED <<vdi, lockVars, cpc, cur, firstSeen, seenLong, markOld>>

(* Mutant: the end of a pass forgets every disk.                           *)
MutantForgetsAll ==
    /\ cpc = "scan"
    /\ todo = {}
    /\ cpc' = "idle"
    /\ firstSeen' = {} /\ seenLong' = {}
    /\ listing' = NoListing
    /\ UNCHANGED <<diskVars, lockVars, todo, cur, markOld>>

(* The end of a pass forgets the disks that were not listed.               *)
EndPass ==
    /\ cpc = "scan"
    /\ todo = {}
    /\ cpc' = "idle"
    /\ firstSeen' = firstSeen \cap SeenNow
    /\ seenLong' = seenLong \cap SeenNow
    /\ listing' = NoListing
    /\ UNCHANGED <<diskVars, lockVars, todo, cur, markOld>>

----------------------------------------------------------------------------
(* setDeletionCandidate: call of DeletionLock.                             *)
WantMark(d) ==
    /\ Listed(d, "none")
    /\ d \in seenLong
    /\ cpc' = "lock"
    /\ cur' = d
    /\ DeletionLockCall
    /\ Done(d)
    /\ UNCHANGED <<diskVars, firstSeen, seenLong, markOld>>

Locked ==
    /\ cpc = "lock"
    /\ cpc' = "refetch"
    /\ DeletionLock
    /\ UNCHANGED <<diskVars, listing, todo, cur, firstSeen, seenLong, markOld>>

(* Every return of setDeletionCandidate: the deferred unlock.              *)
MarkReturn ==
    /\ DeletionUnlock
    /\ cpc' = "scan"
    /\ cur' = NoVDI
    /\ UNCHANGED <<listing, todo, firstSeen, seenLong, markOld>>

(* Mutant: the second look only finds out whether the disk is there.       *)
MutantNoSecondLook == cur \in Live

(* GetVDIByUUID finds the disk with the name and description listed.       *)
StillTemporary ==
    /\ cur \in Live
    /\ vdi[cur].desc = listing[cur].desc
    /\ vdi[cur].name = listing[cur].name

Refetch ==
    /\ cpc = "refetch"
    /\ IF StillTemporary
       THEN /\ cpc' = "mark"
            /\ UNCHANGED <<lockVars, listing, todo, cur,
                           firstSeen, seenLong, markOld>>
       ELSE MarkReturn
    /\ UNCHANGED diskVars

(* EditVDI of a disk that is gone is an error that is only logged.         *)
Mark ==
    /\ cpc = "mark"
    /\ IF cur \in Live THEN DescribeVDI(cur, "candidate") ELSE UNCHANGED vdi
    /\ MarkReturn
    /\ UNCHANGED faults

MarkFails ==
    /\ cpc \in {"refetch", "mark"}
    /\ CallFails
    /\ MarkReturn
    /\ UNCHANGED vdi

----------------------------------------------------------------------------
(* Time passes.                                                            *)
TenMinutes(d) ==
    /\ d \in firstSeen \ seenLong
    /\ seenLong' = seenLong \cup {d}
    /\ UNCHANGED <<diskVars, lockVars, cpc, listing, todo, cur,
                   firstSeen, markOld>>

ThirtyMinutes(d) ==
    /\ d \in Live \ markOld
    /\ vdi[d].desc = "candidate"
    /\ markOld' = markOld \cup {d}
    /\ UNCHANGED <<diskVars, lockVars, cpc, listing, todo, cur,
                   firstSeen, seenLong>>

(* What the process loses in a restart; the marks are on the disks.        *)
CleanupRestarts ==
    /\ cpc' = "idle"
    /\ listing' = NoListing
    /\ todo' = {} /\ cur' = NoVDI
    /\ firstSeen' = {} /\ seenLong' = {}
    /\ UNCHANGED markOld

CleanupStep ==
    \/ List \/ EndPass \/ Locked \/ Refetch \/ Mark
    \/ \E d \in VDIs : Skip(d) \/ Observe(d) \/ DeleteCandidate(d) \/ WantMark(d)

CleanupFault ==
    \/ MarkFails
    \/ \E d \in VDIs : DeleteCandidateFails(d)

TimePasses == \E d \in VDIs : TenMinutes(d) \/ ThirtyMinutes(d)

============================================================================

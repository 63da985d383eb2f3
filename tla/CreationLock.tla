---------------------------- MODULE CreationLock ----------------------------
(***************************************************************************)
(* pkg/csi/creationlock.go: the sync.RWMutex that createDisk takes for     *)
(* reading and the temp cleanup for writing.  As in Go, a writer that      *)
(* waits for the readers to leave keeps new readers out.                   *)
(***************************************************************************)
EXTENDS FiniteSets

CONSTANT Handlers   \* the controller's goroutines that serve gRPC calls

VARIABLES
    readers,   \* the handlers between CreationLock and CreationUnlock
    writer     \* "free", or the cleanup "waiting" in DeletionLock or it "held"

lockVars == <<readers, writer>>

LockInit == readers = {} /\ writer = "free"

LockTypeOK ==
    /\ readers \in SUBSET Handlers
    /\ writer \in {"free", "waiting", "held"}

----------------------------------------------------------------------------
(* Mutant: createDisk goes on without the lock.                            *)
MutantNoLock(h) == UNCHANGED lockVars

(* Return of RLock: no writer holds the lock and none waits for it.        *)
CreationLock(h) ==
    /\ writer = "free"
    /\ readers' = readers \cup {h}
    /\ UNCHANGED writer

(* RUnlock, deferred by createDisk: every return of it runs it.  A handler *)
(* that does not hold the lock leaves it as it is.                         *)
CreationUnlock(h) ==
    /\ readers' = readers \ {h}
    /\ UNCHANGED writer

(* Call of Lock: the writer announces itself, then waits for the readers.  *)
DeletionLockCall ==
    /\ writer = "free"
    /\ writer' = "waiting"
    /\ UNCHANGED readers

(* Return of Lock.                                                         *)
DeletionLock ==
    /\ writer = "waiting"
    /\ readers = {}
    /\ writer' = "held"
    /\ UNCHANGED readers

DeletionUnlock ==
    /\ writer' = "free"
    /\ UNCHANGED readers

============================================================================

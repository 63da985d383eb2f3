--------------------------- MODULE JsonRpcClient ---------------------------
(***************************************************************************)
(* jsonRPCClient of pkg/xoa/jsonrpc_client.go: one websocket connection to *)
(* Xen Orchestra, shared by the goroutines of all RPCs and of the cleanup, *)
(* opened and replaced by whichever call needs it.                         *)
(*                                                                         *)
(* Each member of Calls is one run of call().  connMtx guards the opening, *)
(* the closing and the field conn, but callWithTimeout reads the field     *)
(* without it.  The pointer is read before the request is sent; a          *)
(* connection that closes in between is a request that never runs.         *)
(***************************************************************************)
EXTENDS Naturals

CONSTANTS
    Calls,    \* runs of call()
    Conns,    \* connections: bound on how many are opened
    NoConn, NoCall,
    MaxDrops  \* bound: how many connections the network or XO closes

ASSUME NoConnAssumption == NoConn \notin Conns
ASSUME NoCallAssumption == NoCall \notin Calls
ASSUME MaxDropsAssumption == MaxDrops \in Nat

VARIABLES
    pc,       \* pc[c]: what call c does next
    attempt,  \* attempt[c]: 2 once the call has met ErrClosed
    used,     \* used[c]: the connection c authenticates, or waits on
    conn,     \* the field conn
    holder,   \* the call that holds connMtx across a wait
    link,     \* link[k]: connection k as both ends see it
    sent,     \* sent[c]: the attempts of c that were put on a connection
    ran,      \* ran[c]: the attempts of c that Xen Orchestra has run
    drops

callVars == <<pc, attempt, used>>
connVars == <<conn, holder, link>>
xoVars == <<sent, ran>>
vars == <<callVars, connVars, xoVars, drops>>

Ended == {"ok", "failed"}
PCs == {"idle", "ensure", "dial", "auth", "send", "await", "close"} \cup Ended

TypeOK ==
    /\ pc \in [Calls -> PCs]
    /\ attempt \in [Calls -> 1..2]
    /\ used \in [Calls -> Conns \cup {NoConn}]
    /\ conn \in Conns \cup {NoConn}
    /\ holder \in Calls \cup {NoCall}
    /\ link \in [Conns -> {"none", "opened", "signedIn", "closed"}]
    /\ sent \in [Calls -> SUBSET (1..2)]
    /\ ran \in [Calls -> SUBSET (1..2)]
    /\ drops \in 0..MaxDrops
    /\ \A c \in Calls : pc[c] \in {"auth", "await"} => used[c] \in Conns

(* main connects before it serves.                                         *)
Init ==
    /\ pc = [c \in Calls |-> "idle"]
    /\ attempt = [c \in Calls |-> 1]
    /\ used = [c \in Calls |-> NoConn]
    /\ conn \in Conns
    /\ holder = NoCall
    /\ link = [k \in Conns |-> IF k = conn THEN "signedIn" ELSE "none"]
    /\ sent = [c \in Calls |-> {}]
    /\ ran = [c \in Calls |-> {}]
    /\ drops = 0

----------------------------------------------------------------------------
GoTo(c, from, to) ==
    /\ pc[c] = from
    /\ pc' = [pc EXCEPT ![c] = to]

(* The call is no longer waiting on a connection.                          *)
Done(c) == used' = [used EXCEPT ![c] = NoConn]

Close(k) == link' = [link EXCEPT ![k] = "closed"]

Call(c) ==
    /\ GoTo(c, "idle", "ensure")
    /\ UNCHANGED <<attempt, used, connVars, xoVars, drops>>

(* ensureConnection: the mutex is free again at once, or held while connect *)
(* dials and authenticates.                                                *)
EnsureConnection(c) ==
    /\ holder = NoCall
    /\ IF conn # NoConn
       THEN GoTo(c, "ensure", "send") /\ UNCHANGED holder
       ELSE GoTo(c, "ensure", "dial") /\ holder' = c
    /\ UNCHANGED <<attempt, used, conn, link, xoVars, drops>>

Dial(c) ==
    /\ GoTo(c, "dial", "auth")
    /\ \E k \in Conns :
       /\ link[k] = "none"
       /\ link' = [link EXCEPT ![k] = "opened"]
       /\ used' = [used EXCEPT ![c] = k]
    /\ UNCHANGED <<attempt, conn, holder, xoVars, drops>>

(* Mutant: the mutex is kept when dialling fails.                          *)
MutantKeepsMutex(c) ==
    /\ GoTo(c, "dial", "failed")
    /\ UNCHANGED <<attempt, used, connVars, xoVars, drops>>

DialFails(c) ==
    /\ GoTo(c, "dial", "failed")
    /\ holder' = NoCall
    /\ UNCHANGED <<attempt, used, conn, link, xoVars, drops>>

(* session.signIn is answered: the connection becomes everyone's.          *)
Authenticate(c) ==
    /\ GoTo(c, "auth", "send")
    /\ link[used[c]] = "opened"
    /\ link' = [link EXCEPT ![used[c]] = "signedIn"]
    /\ conn' = used[c]
    /\ holder' = NoCall
    /\ Done(c)
    /\ UNCHANGED <<attempt, xoVars, drops>>

(* Mutant: a connection that did not sign in is left open.                 *)
MutantLeavesOpen(c) ==
    /\ GoTo(c, "auth", "failed")
    /\ holder' = NoCall
    /\ Done(c)
    /\ UNCHANGED <<attempt, conn, link, xoVars, drops>>

(* Refused, dropped, or the context of the RPC is over.                    *)
AuthenticationFails(c) ==
    /\ GoTo(c, "auth", "failed")
    /\ Close(used[c])
    /\ holder' = NoCall
    /\ Done(c)
    /\ UNCHANGED <<attempt, conn, xoVars, drops>>

----------------------------------------------------------------------------
(* Mutant: there is no limit to the reconnections.                         *)
MutantAlwaysAgain(c, from) ==
    GoTo(c, from, "close") /\ attempt' = [attempt EXCEPT ![c] = @ + 1]

(* ErrClosed: once, the connection is replaced and the request sent again. *)
AfterClosed(c, from) ==
    IF attempt[c] = 1
    THEN GoTo(c, from, "close") /\ attempt' = [attempt EXCEPT ![c] = 2]
    ELSE GoTo(c, from, "failed") /\ UNCHANGED attempt

(* callWithTimeout, on whatever connection the field holds now.            *)
Send(c) ==
    /\ pc[c] = "send" /\ conn # NoConn
    /\ \/ /\ link[conn] # "closed"
          /\ GoTo(c, "send", "await")
          /\ used' = [used EXCEPT ![c] = conn]
          /\ sent' = [sent EXCEPT ![c] = @ \cup {attempt[c]}]
          /\ UNCHANGED attempt
       \/ /\ link[conn] = "closed"
          /\ AfterClosed(c, "send")
          /\ UNCHANGED <<used, sent>>
    /\ UNCHANGED <<connVars, ran, drops>>

Running == {c \in Calls : pc[c] \notin {"idle"} \cup Ended}

(* The field is nil: a nil pointer dereference in a goroutine nobody       *)
(* recovers.  The process dies; its successor connects for the calls to    *)
(* come.  What it had sent may still run.                                  *)
Panic(c) ==
    /\ pc[c] = "send" /\ conn = NoConn
    /\ pc' = [d \in Calls |-> IF d \in Running THEN "failed" ELSE pc[d]]
    /\ link' = [k \in Conns |-> IF link[k] = "none" THEN "none" ELSE "closed"]
    /\ holder' = NoCall
    /\ used' = [d \in Calls |-> NoConn]
    /\ UNCHANGED <<attempt, conn, xoVars, drops>>

Receive(c) ==
    /\ GoTo(c, "await", "ok")
    /\ attempt[c] \in ran[c]
    /\ link[used[c]] # "closed"
    /\ Done(c)
    /\ UNCHANGED <<attempt, connVars, xoVars, drops>>

(* Mutant: the error of Xen Orchestra is dropped.                          *)
MutantErrorDropped(c) ==
    /\ GoTo(c, "await", "ok")
    /\ attempt[c] \notin ran[c]
    /\ link[used[c]] # "closed"
    /\ sent' = [sent EXCEPT ![c] = @ \ {attempt[c]}]
    /\ Done(c)
    /\ UNCHANGED <<attempt, connVars, ran, drops>>

(* Xen Orchestra answers with an error instead of running the request.     *)
Refused(c) ==
    /\ GoTo(c, "await", "failed")
    /\ attempt[c] \notin ran[c]
    /\ link[used[c]] # "closed"
    /\ sent' = [sent EXCEPT ![c] = @ \ {attempt[c]}]
    /\ Done(c)
    /\ UNCHANGED <<attempt, connVars, ran, drops>>

Closed(c) ==
    /\ pc[c] = "await" /\ link[used[c]] = "closed"
    /\ AfterClosed(c, "await")
    /\ Done(c)
    /\ UNCHANGED <<connVars, xoVars, drops>>

(* Mutant: a timeout is taken for a closed connection.                     *)
MutantRetriesTimeout(c) ==
    /\ AfterClosed(c, "await")
    /\ Done(c)
    /\ UNCHANGED <<connVars, xoVars, drops>>

(* The timeout of the call, or the context of the RPC.                     *)
GiveUp(c) ==
    /\ GoTo(c, "await", "failed")
    /\ Done(c)
    /\ UNCHANGED <<attempt, connVars, xoVars, drops>>

(* closeConnection closes the connection there is now, which another call  *)
(* may have opened since.                                                  *)
CloseConnection(c) ==
    /\ holder = NoCall
    /\ GoTo(c, "close", "ensure")
    /\ IF conn # NoConn THEN Close(conn) ELSE UNCHANGED link
    /\ conn' = NoConn
    /\ UNCHANGED <<attempt, used, holder, xoVars, drops>>

----------------------------------------------------------------------------
(* Xen Orchestra runs a request it was sent, perhaps after the connection  *)
(* has closed and the call has ended.                                      *)
Run(c, a) ==
    /\ a \in sent[c] \ ran[c]
    /\ ran' = [ran EXCEPT ![c] = @ \cup {a}]
    /\ UNCHANGED <<callVars, connVars, sent, drops>>

(* The network or Xen Orchestra closes a connection.                       *)
Drop(k) ==
    /\ drops < MaxDrops
    /\ link[k] \in {"opened", "signedIn"}
    /\ Close(k)
    /\ drops' = drops + 1
    /\ UNCHANGED <<callVars, conn, holder, xoVars>>

CallStep(c) ==
    \/ EnsureConnection(c) \/ Dial(c) \/ DialFails(c)
    \/ Authenticate(c) \/ AuthenticationFails(c)
    \/ Send(c) \/ Panic(c)
    \/ Receive(c) \/ Refused(c) \/ Closed(c) \/ GiveUp(c)
    \/ CloseConnection(c)

Next ==
    \/ \E c \in Calls : Call(c) \/ CallStep(c) \/ \E a \in 1..2 : Run(c, a)
    \/ \E k \in Conns : Drop(k)

Spec == Init /\ [][Next]_vars

(* A goroutine runs on: whoever waits has a deadline (the dialler's, the   *)
(* RPC's, the call's), and the holder of the mutex lets the others in.     *)
(* Nothing makes a call begin, Xen Orchestra answer or a connection drop.  *)
Fairness == \A c \in Calls : WF_vars(CallStep(c))

FairSpec == Spec /\ Fairness

----------------------------------------------------------------------------
(* No connection is left open that nobody will close: each is the one in   *)
(* the field, or is being authenticated by the holder of the mutex.  A     *)
(* connection lost here would keep a session of Xen Orchestra and a        *)
(* goroutine for the life of the process.                                  *)
NoLeakedConnection ==
    \A k \in Conns : link[k] \in {"opened", "signedIn"} =>
        k = conn \/ (holder # NoCall /\ pc[holder] = "auth" /\ used[holder] = k)

(* Requests that are not idempotent (disk.create, vm.attachDisk) are sent  *)
(* twice only when a connection was dropped: no timeout, refusal or other  *)
(* call's failure repeats them.                                            *)
RepeatedOnlyAfterDrop == drops = 0 => \A c \in Calls : ran[c] \subseteq {1}

(* After ensureConnection the connection is established, as its comment    *)
(* and the one in call() have it.                                          *)
EnsuredIsConnected == \A c \in Calls : pc[c] = "send" => conn # NoConn

(* Every call returns: no call keeps the mutex for ever, whatever fails    *)
(* while it holds it.                                                      *)
CallReturns == \A c \in Calls : pc[c] # "idle" ~> pc[c] \in Ended

(* The client implements XOCall.                                           *)
status == [c \in Calls |->
    IF pc[c] = "idle" THEN "new" ELSE IF pc[c] \in Ended THEN pc[c] ELSE "running"]

Promise == INSTANCE XOCall

CallsAreKept == Promise!Spec

============================================================================

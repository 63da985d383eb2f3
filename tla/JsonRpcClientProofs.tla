------------------------ MODULE JsonRpcClientProofs ------------------------
(***************************************************************************)
(* Proofs about JsonRpcClient, for any number of calls, connections and    *)
(* drops: its types, that no connection is lost, that only a dropped       *)
(* connection repeats a request, and that it implements XOCall.            *)
(***************************************************************************)
EXTENDS JsonRpcClient, TLAPS

(* The mutex is held across a wait by the call that dials or signs in, and *)
(* by no other; while it is, the client has no connection.                 *)
MutexInv ==
    /\ \A c \in Calls : pc[c] \in {"dial", "auth"} <=> holder = c
    /\ holder # NoCall => conn = NoConn

(* Until a connection is dropped every call is on its first attempt, over  *)
(* the connection main opened.                                             *)
FirstConnection ==
    /\ conn # NoConn /\ link[conn] # "closed"
    /\ \A c \in Calls :
       /\ attempt[c] = 1
       /\ pc[c] # "close"
       /\ pc[c] = "await" => used[c] = conn
       /\ sent[c] \subseteq {1}

(* Xen Orchestra runs only what it was sent, and a call sends only after   *)
(* it has begun.                                                           *)
RequestInv ==
    \A c \in Calls : ran[c] \subseteq sent[c] /\ (pc[c] = "idle" => sent[c] = {})

ClientInv ==
    /\ TypeOK
    /\ MutexInv
    /\ NoLeakedConnection
    /\ drops = 0 => FirstConnection
    /\ RequestInv

----------------------------------------------------------------------------
LEMMA ClientInit == Init => ClientInv
BY NoConnAssumption, NoCallAssumption, MaxDropsAssumption
   DEF Init, ClientInv, TypeOK, PCs, Ended, MutexInv, NoLeakedConnection, FirstConnection, RequestInv

(* The types.                                                              *)
LEMMA TypeStep == TypeOK /\ [Next]_vars => TypeOK'
<1> SUFFICES ASSUME TypeOK, [Next]_vars PROVE TypeOK'
    OBVIOUS
<1> USE NoConnAssumption, NoCallAssumption, MaxDropsAssumption
        DEF TypeOK, PCs, Ended, connVars, callVars, xoVars, GoTo, Done, Close
<1>1. ASSUME NEW c \in Calls, Call(c) PROVE TypeOK'
      BY <1>1 DEF Call
<1>2. ASSUME NEW c \in Calls, EnsureConnection(c) PROVE TypeOK'
      BY <1>2 DEF EnsureConnection
<1>3. ASSUME NEW c \in Calls, Dial(c) \/ DialFails(c) PROVE TypeOK'
      BY <1>3 DEF Dial, DialFails
<1>4. ASSUME NEW c \in Calls, Authenticate(c) \/ AuthenticationFails(c) PROVE TypeOK'
      BY <1>4 DEF Authenticate, AuthenticationFails
<1>5. ASSUME NEW c \in Calls, Send(c) PROVE TypeOK'
      BY <1>5 DEF Send, AfterClosed
<1>6. ASSUME NEW c \in Calls, Panic(c) PROVE TypeOK'
      BY <1>6 DEF Panic, Running
<1>7. ASSUME NEW c \in Calls, Receive(c) \/ Refused(c) \/ GiveUp(c) PROVE TypeOK'
      BY <1>7 DEF Receive, Refused, GiveUp
<1>8. ASSUME NEW c \in Calls, Closed(c) PROVE TypeOK'
      BY <1>8 DEF Closed, AfterClosed
<1>9. ASSUME NEW c \in Calls, CloseConnection(c) PROVE TypeOK'
      BY <1>9 DEF CloseConnection
<1>10. ASSUME NEW c \in Calls, NEW a \in 1..2, Run(c, a) PROVE TypeOK'
      BY <1>10 DEF Run
<1>11. ASSUME NEW k \in Conns, Drop(k) PROVE TypeOK'
      BY <1>11 DEF Drop
<1>12. CASE UNCHANGED vars
      BY <1>12 DEF vars
<1> QED
    BY <1>1, <1>2, <1>3, <1>4, <1>5, <1>6, <1>7, <1>8, <1>9, <1>10, <1>11, <1>12
       DEF Next, CallStep

(* The mutex, and the connections that are open.                           *)
LEMMA MutexStep ==
    TypeOK /\ MutexInv /\ NoLeakedConnection /\ [Next]_vars
        => MutexInv' /\ NoLeakedConnection'
<1> SUFFICES ASSUME TypeOK, MutexInv, NoLeakedConnection, [Next]_vars
             PROVE  MutexInv' /\ NoLeakedConnection'
    OBVIOUS
<1> DEFINE Inv == MutexInv /\ NoLeakedConnection
<1> USE NoConnAssumption, NoCallAssumption
        DEF TypeOK, PCs, Ended, MutexInv, NoLeakedConnection,
            connVars, callVars, xoVars, GoTo, Done, Close
<1>1. ASSUME NEW c \in Calls, Call(c) PROVE Inv'
      BY <1>1 DEF Call
<1>2. ASSUME NEW c \in Calls, EnsureConnection(c) PROVE Inv'
      BY <1>2 DEF EnsureConnection
<1>3. ASSUME NEW c \in Calls, Dial(c) PROVE Inv'
      BY <1>3 DEF Dial
<1>4. ASSUME NEW c \in Calls, DialFails(c) PROVE Inv'
      BY <1>4 DEF DialFails
<1>5. ASSUME NEW c \in Calls, Authenticate(c) PROVE Inv'
      BY <1>5 DEF Authenticate
<1>6. ASSUME NEW c \in Calls, AuthenticationFails(c) PROVE Inv'
      BY <1>6 DEF AuthenticationFails
<1>7. ASSUME NEW c \in Calls, Send(c) PROVE Inv'
      BY <1>7 DEF Send, AfterClosed
<1>8. ASSUME NEW c \in Calls, Panic(c) PROVE Inv'
      BY <1>8 DEF Panic, Running
<1>9. ASSUME NEW c \in Calls, Receive(c) \/ Refused(c) \/ GiveUp(c) PROVE Inv'
      BY <1>9 DEF Receive, Refused, GiveUp
<1>10. ASSUME NEW c \in Calls, Closed(c) PROVE Inv'
      BY <1>10 DEF Closed, AfterClosed
<1>11. ASSUME NEW c \in Calls, CloseConnection(c) PROVE Inv'
      BY <1>11 DEF CloseConnection
<1>12. ASSUME NEW c \in Calls, NEW a \in 1..2, Run(c, a) PROVE Inv'
      BY <1>12 DEF Run
<1>13. ASSUME NEW k \in Conns, Drop(k) PROVE Inv'
      BY <1>13 DEF Drop
<1>14. CASE UNCHANGED vars
      BY <1>14 DEF vars
<1> QED
    BY <1>1, <1>2, <1>3, <1>4, <1>5, <1>6, <1>7, <1>8, <1>9, <1>10, <1>11, <1>12,
       <1>13, <1>14 DEF Next, CallStep

(* What Xen Orchestra is sent and runs.                                    *)
LEMMA RequestStep == TypeOK /\ RequestInv /\ [Next]_vars => RequestInv'
<1> SUFFICES ASSUME TypeOK, RequestInv, [Next]_vars PROVE RequestInv'
    OBVIOUS
<1> USE DEF TypeOK, PCs, Ended, RequestInv, connVars, callVars, xoVars, GoTo, Done
<1>1. ASSUME NEW c \in Calls, Call(c) \/ EnsureConnection(c) \/ Dial(c) \/ DialFails(c)
      PROVE  RequestInv'
      BY <1>1 DEF Call, EnsureConnection, Dial, DialFails
<1>2. ASSUME NEW c \in Calls, Authenticate(c) \/ AuthenticationFails(c) PROVE RequestInv'
      BY <1>2 DEF Authenticate, AuthenticationFails
<1>3. ASSUME NEW c \in Calls, Send(c) PROVE RequestInv'
      BY <1>3 DEF Send, AfterClosed
<1>4. ASSUME NEW c \in Calls, Panic(c) PROVE RequestInv'
      BY <1>4 DEF Panic, Running
<1>5. ASSUME NEW c \in Calls, Receive(c) \/ Refused(c) \/ GiveUp(c) PROVE RequestInv'
      BY <1>5 DEF Receive, Refused, GiveUp
<1>6. ASSUME NEW c \in Calls, Closed(c) \/ CloseConnection(c) PROVE RequestInv'
      BY <1>6 DEF Closed, AfterClosed, CloseConnection
<1>7. ASSUME NEW c \in Calls, NEW a \in 1..2, Run(c, a) PROVE RequestInv'
      BY <1>7 DEF Run
<1>8. ASSUME NEW k \in Conns, Drop(k) PROVE RequestInv'
      BY <1>8 DEF Drop
<1>9. CASE UNCHANGED vars
      BY <1>9 DEF vars
<1> QED
    BY <1>1, <1>2, <1>3, <1>4, <1>5, <1>6, <1>7, <1>8, <1>9 DEF Next, CallStep

(* The time before the first drop.                                         *)
LEMMA FirstStep ==
    TypeOK /\ MutexInv /\ (drops = 0 => FirstConnection) /\ [Next]_vars
        => (drops = 0 => FirstConnection)'
<1> SUFFICES ASSUME TypeOK, MutexInv, drops = 0 => FirstConnection, [Next]_vars, drops' = 0
             PROVE  FirstConnection'
    OBVIOUS
<1> USE NoConnAssumption, NoCallAssumption
        DEF TypeOK, PCs, Ended, MutexInv, FirstConnection, connVars, callVars, xoVars, GoTo, Done
<1>1. ASSUME NEW c \in Calls, Call(c) \/ EnsureConnection(c) \/ Dial(c) \/ DialFails(c)
      PROVE  FirstConnection'
      BY <1>1 DEF Call, EnsureConnection, Dial, DialFails
<1>2. ASSUME NEW c \in Calls, Authenticate(c) \/ AuthenticationFails(c) PROVE FirstConnection'
      BY <1>2 DEF Authenticate, AuthenticationFails
<1>3. ASSUME NEW c \in Calls, Send(c) PROVE FirstConnection'
      BY <1>3 DEF Send, AfterClosed
<1>4. ASSUME NEW c \in Calls, Panic(c) PROVE FirstConnection'
      BY <1>4 DEF Panic
<1>5. ASSUME NEW c \in Calls, Receive(c) \/ Refused(c) \/ GiveUp(c) PROVE FirstConnection'
      BY <1>5 DEF Receive, Refused, GiveUp
<1>6. ASSUME NEW c \in Calls, Closed(c) \/ CloseConnection(c) PROVE FirstConnection'
      BY <1>6 DEF Closed, AfterClosed, CloseConnection
<1>7. ASSUME NEW c \in Calls, NEW a \in 1..2, Run(c, a) PROVE FirstConnection'
      BY <1>7 DEF Run
<1>8. ASSUME NEW k \in Conns, Drop(k) PROVE FirstConnection'
      BY <1>8 DEF Drop
<1>9. CASE UNCHANGED vars
      BY <1>9 DEF vars
<1> QED
    BY <1>1, <1>2, <1>3, <1>4, <1>5, <1>6, <1>7, <1>8, <1>9 DEF Next, CallStep

LEMMA ClientStep == ClientInv /\ [Next]_vars => ClientInv'
BY TypeStep, MutexStep, RequestStep, FirstStep DEF ClientInv

LEMMA ClientInvariant == Spec => []ClientInv
BY ClientInit, ClientStep, PTL DEF Spec

----------------------------------------------------------------------------
(* Every state has the types the model declares: a call that signs in or   *)
(* waits does so on a connection, and no call makes a third attempt.       *)
THEOREM ClientTypeCorrect == Spec => []TypeOK
BY ClientInvariant, PTL DEF ClientInv

(* connect and closeConnection lose no connection: one that is open is in  *)
(* the field, or the holder of connMtx is signing in over it.              *)
THEOREM ConnectionsAreOwned == Spec => []NoLeakedConnection
BY ClientInvariant, PTL DEF ClientInv

(* call() sends a request a second time only after a dropped connection,   *)
(* whatever other calls sharing it do.                                     *)
THEOREM NoSpuriousRepetition == Spec => []RepeatedOnlyAfterDrop
<1>1. ClientInv => RepeatedOnlyAfterDrop
      BY DEF ClientInv, FirstConnection, RequestInv, RepeatedOnlyAfterDrop
<1> QED
    BY <1>1, ClientInvariant, PTL

----------------------------------------------------------------------------
LEMMA PromiseInit == Init => Promise!Init
BY DEF Init, Promise!Init, status, Ended

(* The end of a call, alone or with those that die with the process.       *)
LEMMA CallsEnd ==
    ASSUME TypeOK, NEW C \in SUBSET Running,
           pc' = [c \in Calls |-> IF c \in C THEN "failed" ELSE pc[c]],
           UNCHANGED ran
    PROVE  Promise!Next
<1>1. \A c \in C : status[c] = "running"
      BY DEF Running, status, TypeOK, Ended
<1>2. status' = [c \in Calls |-> IF c \in C THEN "failed" ELSE status[c]]
      BY DEF status, TypeOK, Ended
<1>3. Promise!Fail(C) /\ C \in SUBSET Calls
      BY <1>1, <1>2 DEF Promise!Fail, Running
<1> QED
    BY <1>3 DEF Promise!Next

LEMMA OneCallEnds ==
    ASSUME TypeOK, NEW c \in Running, pc' = [pc EXCEPT ![c] = "failed"], UNCHANGED ran
    PROVE  Promise!Next
<1>1. pc' = [d \in Calls |-> IF d \in {c} THEN "failed" ELSE pc[d]]
      BY DEF TypeOK
<1> QED
    BY <1>1, CallsEnd

(* A step of a call that goes on.                                          *)
LEMMA CallGoesOn ==
    ASSUME TypeOK, NEW c \in Running, NEW to \in PCs \ ({"idle"} \cup Ended),
           pc' = [pc EXCEPT ![c] = to], UNCHANGED ran
    PROVE  UNCHANGED Promise!vars
<1>1. status' = status
      BY DEF status, TypeOK, Running, Ended, PCs
<1> QED
    BY <1>1 DEF Promise!vars

LEMMA PromiseStep == ClientInv /\ [Next]_vars => [Promise!Next]_Promise!vars
<1> SUFFICES ASSUME ClientInv, [Next]_vars PROVE Promise!Next \/ UNCHANGED Promise!vars
    OBVIOUS
<1> DEFINE Kept == Promise!Next \/ UNCHANGED Promise!vars
<1> TypeOK /\ RequestInv
    BY DEF ClientInv
<1> USE DEF connVars, callVars, xoVars
<1>1. ASSUME NEW c \in Calls, Call(c) PROVE Kept
  <2>1. Promise!Begin(c)
        BY <1>1 DEF Call, GoTo, TypeOK, Ended, status, Promise!Begin
  <2> QED
      BY <2>1 DEF Promise!Next
<1>2. ASSUME NEW c \in Calls, NEW a \in 1..2, Run(c, a) PROVE Kept
  <2>1. Promise!Run(c, a)
        BY <1>2 DEF Run, RequestInv, TypeOK, Ended, status, Promise!Run
  <2> QED
      BY <2>1 DEF Promise!Next, Promise!Attempts
<1>3. ASSUME NEW c \in Calls, Receive(c) PROVE Kept
  <2>1. Promise!Succeed(c)
        BY <1>3 DEF Receive, GoTo, TypeOK, Ended, status, Promise!Succeed
  <2> QED
      BY <2>1 DEF Promise!Next
<1>4. ASSUME NEW c \in Calls,
             DialFails(c) \/ AuthenticationFails(c) \/ Refused(c) \/ GiveUp(c)
      PROVE  Kept
  <2>1. c \in Running /\ pc' = [pc EXCEPT ![c] = "failed"] /\ UNCHANGED ran
        BY <1>4 DEF DialFails, AuthenticationFails, Refused, GiveUp, GoTo, Running, Ended
  <2> QED
      BY <2>1, OneCallEnds
<1>5. ASSUME NEW c \in Calls, Panic(c) PROVE Kept
      BY <1>5, CallsEnd DEF Panic
<1>6. ASSUME NEW c \in Calls, Send(c) \/ Closed(c) PROVE Kept
  <2>1. c \in Running /\ UNCHANGED ran
        BY <1>6 DEF Send, Closed, Running, Ended
  <2>2. \E to \in {"await", "close", "failed"} : pc' = [pc EXCEPT ![c] = to]
        BY <1>6 DEF Send, Closed, AfterClosed, GoTo
  <2> QED
      BY <2>1, <2>2, OneCallEnds, CallGoesOn DEF PCs, Ended
<1>7. ASSUME NEW c \in Calls,
             EnsureConnection(c) \/ Dial(c) \/ Authenticate(c) \/ CloseConnection(c)
      PROVE  Kept
  <2>1. c \in Running /\ UNCHANGED ran
        BY <1>7 DEF EnsureConnection, Dial, Authenticate, CloseConnection, GoTo, Running, Ended
  <2>2. \E to \in {"dial", "auth", "send", "ensure"} : pc' = [pc EXCEPT ![c] = to]
        BY <1>7 DEF EnsureConnection, Dial, Authenticate, CloseConnection, GoTo
  <2> QED
      BY <2>1, <2>2, CallGoesOn DEF PCs, Ended
<1>8. ASSUME NEW k \in Conns, Drop(k) PROVE Kept
      BY <1>8 DEF Drop, status, Promise!vars
<1>9. CASE UNCHANGED vars
      BY <1>9 DEF vars, status, Promise!vars
<1> QED
    BY <1>1, <1>2, <1>3, <1>4, <1>5, <1>6, <1>7, <1>8, <1>9 DEF Next, CallStep

(* The client implements XOCall: each call runs at most once per attempt,  *)
(* one that succeeded has run, and none runs that was not begun.           *)
THEOREM ClientKeepsPromise == Spec => CallsAreKept
<1>1. Spec => Promise!Init /\ [][Promise!Next]_Promise!vars
      BY PromiseInit, PromiseStep, ClientInvariant, PTL DEF Spec
<1> QED
    BY <1>1 DEF CallsAreKept, Promise!Spec

(* What callers may conclude from XOCall: success means the operation ran, *)
(* a call not begun has not run, and none runs more than twice.            *)
AnswersAreTrue ==
    /\ status \in [Calls -> {"new", "running", "ok", "failed"}]
    /\ ran \in [Calls -> SUBSET (1..2)]
    /\ \A c \in Calls : status[c] = "ok" => ran[c] # {}
    /\ \A c \in Calls : status[c] = "new" => ran[c] = {}

(* XOCall alone, whatever implements it, is enough for what the models of  *)
(* the handlers take for granted of a call that succeeded or failed.       *)
THEOREM ThePromiseIsEnough == CallsAreKept => []AnswersAreTrue
<1>1. Promise!Init => AnswersAreTrue
      BY DEF Promise!Init, AnswersAreTrue
<1>2. ASSUME AnswersAreTrue, Promise!Next PROVE AnswersAreTrue'
  <2>1. ASSUME NEW c \in Calls, Promise!Begin(c) \/ Promise!Succeed(c) PROVE AnswersAreTrue'
        BY <1>2, <2>1 DEF AnswersAreTrue, Promise!Begin, Promise!Succeed
  <2>2. ASSUME NEW c \in Calls, NEW a \in Promise!Attempts, Promise!Run(c, a)
        PROVE AnswersAreTrue'
        BY <1>2, <2>2 DEF AnswersAreTrue, Promise!Run, Promise!Attempts
  <2>3. ASSUME NEW C \in SUBSET Calls, Promise!Fail(C) PROVE AnswersAreTrue'
        BY <1>2, <2>3 DEF AnswersAreTrue, Promise!Fail
  <2> QED
      BY <1>2, <2>1, <2>2, <2>3 DEF Promise!Next
<1>3. AnswersAreTrue /\ UNCHANGED Promise!vars => AnswersAreTrue'
      BY DEF AnswersAreTrue, Promise!vars
<1> QED
    BY <1>1, <1>2, <1>3, PTL DEF CallsAreKept, Promise!Spec

============================================================================

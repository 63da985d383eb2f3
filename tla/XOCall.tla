------------------------------- MODULE XOCall -------------------------------
(***************************************************************************)
(* What jsonRPCClient promises its callers, for every call of its own: the *)
(* operation runs in Xen Orchestra at most once per attempt, two attempts  *)
(* at most; a call that succeeds has run; one that fails has run never,    *)
(* once or twice, and may still run later.                                 *)
(*                                                                         *)
(* VolumeProvisioning and Attachment rest on this: a failed call           *)
(* (HandlerFails) and a second run of a request that creates something     *)
(* (CreateAgain, AttachAgain) are the cases of it that their calls meet.   *)
(***************************************************************************)
EXTENDS Naturals

CONSTANT Calls

VARIABLES
    status,  \* status[c]: how far call c is
    ran      \* ran[c]: the attempts of c that Xen Orchestra has run

vars == <<status, ran>>

Attempts == 1..2

Init ==
    /\ status = [c \in Calls |-> "new"]
    /\ ran = [c \in Calls |-> {}]

Begin(c) ==
    /\ status[c] = "new"
    /\ status' = [status EXCEPT ![c] = "running"]
    /\ UNCHANGED ran

Run(c, a) ==
    /\ status[c] # "new"
    /\ a \notin ran[c]
    /\ ran' = [ran EXCEPT ![c] = @ \cup {a}]
    /\ UNCHANGED status

Succeed(c) ==
    /\ status[c] = "running"
    /\ ran[c] # {}
    /\ status' = [status EXCEPT ![c] = "ok"]
    /\ UNCHANGED ran

(* A crash of the process ends several calls at once.                      *)
Fail(C) ==
    /\ \A c \in C : status[c] = "running"
    /\ status' = [c \in Calls |-> IF c \in C THEN "failed" ELSE status[c]]
    /\ UNCHANGED ran

Next ==
    \/ \E c \in Calls : Begin(c) \/ Succeed(c) \/ \E a \in Attempts : Run(c, a)
    \/ \E C \in SUBSET Calls : Fail(C)

Spec == Init /\ [][Next]_vars

============================================================================

---------------------------- MODULE ReplyPromise ----------------------------
(***************************************************************************)
(* What the delivery ledger promises the user of the gateway: a message is *)
(* answered at most once.  No claims, leases, transports or crashes appear *)
(* here; DeliveryLedger implements this module.                            *)
(***************************************************************************)
EXTENDS Naturals

CONSTANT Events

VARIABLES
    stage,      \* of the reply to each event: open, attempted or confirmed
    replies     \* how often the reply has reached the user

promiseVars == <<stage, replies>>

PromiseInit ==
    /\ stage = [e \in Events |-> "open"]
    /\ replies = [e \in Events |-> 0]

Attempt(e) ==
    /\ stage[e] = "open"
    /\ replies[e] = 0
    /\ stage' = [stage EXCEPT ![e] = "attempted"]
    /\ UNCHANGED replies

\* The reply reaches the user, during the one attempt and the first time.
Reach(e) ==
    /\ stage[e] = "attempted"
    /\ replies[e] = 0
    /\ replies' = [replies EXCEPT ![e] = 1]
    /\ UNCHANGED stage

Confirm(e) ==
    /\ stage[e] = "attempted"
    /\ replies[e] = 1
    /\ stage' = [stage EXCEPT ![e] = "confirmed"]
    /\ UNCHANGED replies

\* An attempt is given up only while the reply has not reached the user.
GiveUp(e) ==
    /\ stage[e] = "attempted"
    /\ replies[e] = 0
    /\ stage' = [stage EXCEPT ![e] = "open"]
    /\ UNCHANGED replies

PromiseNext == \E e \in Events : Attempt(e) \/ Reach(e) \/ Confirm(e) \/ GiveUp(e)

PromiseSpec == PromiseInit /\ [][PromiseNext]_promiseVars
=============================================================================

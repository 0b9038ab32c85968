---------------------------- MODULE MCQueueStore ----------------------------
(***************************************************************************)
(* The two tables of the gateway's database, each under every caller it    *)
(* has: the event queue, and the ledger of what was sent.  They share no   *)
(* column, and each transaction is of one of them, so that in each         *)
(* behaviour one moves, as the first state says, and the other rests.      *)
(* (Dispatch, which uses both, is checked in MCGatewayDispatch.)           *)
(***************************************************************************)
EXTENDS EventQueue, DeliveryLedger, TLC

VARIABLE focus

Symmetry == Permutations(Conversations)

Init ==
    /\ focus \in {"queue", "ledger"}
    /\ QueueInit /\ LedgerInit

Next ==
    \/ focus = "queue" /\ QueueNext /\ UNCHANGED <<focus, ledgerVars>>
    \/ focus = "ledger" /\ LedgerNext /\ UNCHANGED <<focus, queueVars>>

Spec == Init /\ [][Next]_<<focus, queueVars, ledgerVars>>

=============================================================================

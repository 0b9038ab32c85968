--------------------------- MODULE DeliveryLedger ---------------------------
(***************************************************************************)
(* The outbound ledger (the `deliveries` table) and the ledger-gated send: *)
(* GatewayRuntime._deliver_response_idempotent around begin_delivery,      *)
(* finish_delivery and clear_delivery, with the transport outcomes that    *)
(* deliver_response tells apart.  A claim is one run of the brain on an    *)
(* event; several claims of one event may be in here at once, because a    *)
(* lease can lapse while its holder is sending, and any of them may crash  *)
(* between two steps.  One row per event: the channel of the key is fixed  *)
(* by the event.                                                           *)
(***************************************************************************)
EXTENDS Naturals

CONSTANTS
    Events,
    Claims,             \* claim tokens
    NoClaim,            \* no reservation
    NoEvent,            \* a claim that has not reached its delivery yet
    TransportFaults     \* accidents of the transport the code misjudges:
        \* "lateTimeout": the stateless send times out after the API accepted
        \*     it, and deliver() turns the exception into None;
        \* "partialSend": a later part of a long reply is refused after an
        \*     earlier part was accepted, and the refusal counts for the whole

ASSUME LedgerConstants ==
    /\ NoClaim \notin Claims
    /\ NoEvent \notin Events
    /\ TransportFaults \subseteq {"lateTimeout", "partialSend"}

VARIABLES
    ledger,     \* event -> row of `deliveries` ("none": no row)
    sender,     \* claim -> where its delivery stands
    target,     \* claim -> the event it answers
    replies     \* event -> times the reply, or a part of it, reached the user

ledgerVars == <<ledger, sender, target, replies>>

Verdicts == {"proceed", "already_sent", "ambiguous"}
InFlight == {"reserved", "fallback", "confirmed", "undelivered"}
Over == {"finished", "cleared", "kept", "already_sent", "ambiguous", "crashed"}

NoRow == [status |-> "none", by |-> NoClaim]

Reservation(c) == [status |-> "sending", by |-> c]

LedgerInit ==
    /\ ledger = [e \in Events |-> NoRow]
    /\ sender = [c \in Claims |-> "idle"]
    /\ target = [c \in Claims |-> NoEvent]
    /\ replies = [e \in Events |-> 0]

-----------------------------------------------------------------------------
\* Mutation of Verdict: an unconfirmed attempt of another claim is retried.
VerdictResend(e, c) == IF ledger[e].status = "sent" THEN "already_sent" ELSE "proceed"

\* begin_delivery: what claim c may do about the reply to e.
Verdict(e, c) ==
    CASE ledger[e].status = "none" -> "proceed"
      [] ledger[e].status = "sent" -> "already_sent"
      [] ledger[e].status = "sending" /\ ledger[e].by = c -> "proceed"
      [] OTHER -> "ambiguous"

BeginDelivery(c, e) ==
    /\ sender[c] = "idle"
    /\ target' = [target EXCEPT ![c] = e]
    /\ sender' = [sender EXCEPT ![c] =
                    IF Verdict(e, c) = "proceed" THEN "reserved" ELSE Verdict(e, c)]
    /\ ledger' = IF ledger[e].status = "none"
                 THEN [ledger EXCEPT ![e] = Reservation(c)]
                 ELSE ledger
    /\ UNCHANGED replies

\* The send of claim c moves on; the user sees the reply n more times.
SendMoves(c, from, to, n) ==
    /\ sender[c] = from
    /\ sender' = [sender EXCEPT ![c] = to]
    /\ replies' = [replies EXCEPT ![target[c]] = @ + n]
    /\ UNCHANGED <<ledger, target>>

\* The live channel returned a message id.
LiveDelivers(c) == SendMoves(c, "reserved", "confirmed", 1)

\* DeliveryAmbiguous: a timeout or an unknown error, accepted or not.  The
\* reservation stays.
LiveAmbiguous(c) == \E n \in {0, 1} : SendMoves(c, "reserved", "kept", n)

\* None, no live channel, or an error that happens before the connection.
LiveUndelivered(c) ==
    \E n \in IF "partialSend" \in TransportFaults THEN {0, 1} ELSE {0} :
        SendMoves(c, "reserved", "fallback", n)

\* The stateless sender of channels/registry.py.
FallbackDelivers(c) == SendMoves(c, "fallback", "confirmed", 1)

FallbackFails(c) ==
    \E n \in IF "lateTimeout" \in TransportFaults THEN {0, 1} ELSE {0} :
        SendMoves(c, "fallback", "undelivered", n)

\* The send returned a message id.
Confirmed(c) == sender[c] = "confirmed"

\* finish_delivery: the UPDATE names the event and the channel alone.
FinishDelivery(c) ==
    /\ Confirmed(c)
    /\ sender' = [sender EXCEPT ![c] = "finished"]
    /\ ledger' = IF ledger[target[c]].status # "none"
                 THEN [ledger EXCEPT ![target[c]].status = "sent"]
                 ELSE ledger
    /\ UNCHANGED <<target, replies>>

\* Mutation of Clears: the reservation of an ambiguous send is dropped too.
ClearsAmbiguous(c) == sender[c] \in {"undelivered", "kept"}

\* The send returned None: nothing was accepted, so a retry may send again.
Clears(c) == sender[c] = "undelivered"

\* clear_delivery: DELETE ... WHERE status='sending' AND locked_by=c.
ClearDelivery(c) ==
    /\ Clears(c)
    /\ sender' = [sender EXCEPT ![c] = "cleared"]
    /\ ledger' = IF ledger[target[c]] = Reservation(c)
                 THEN [ledger EXCEPT ![target[c]] = NoRow]
                 ELSE ledger
    /\ UNCHANGED <<target, replies>>

\* The process dies with all the claims it runs, or a ledger write of one claim
\* raises, between two steps.
Crash(dying) ==
    /\ sender' = [c \in Claims |->
                    IF c \in dying /\ sender[c] \in InFlight THEN "crashed" ELSE sender[c]]
    /\ UNCHANGED <<ledger, target, replies>>

LedgerNext ==
    \/ \E dying \in SUBSET Claims : Crash(dying)
    \/ \E c \in Claims :
        \/ \E e \in Events : BeginDelivery(c, e)
        \/ LiveDelivers(c)
        \/ LiveAmbiguous(c)
        \/ LiveUndelivered(c)
        \/ FallbackDelivers(c)
        \/ FallbackFails(c)
        \/ FinishDelivery(c)
        \/ ClearDelivery(c)

LedgerSpec == LedgerInit /\ [][LedgerNext]_ledgerVars

-----------------------------------------------------------------------------
\* The table and the senders have their types; a reservation names its claim,
\* and a claim that has begun names its event.
LedgerTypeOK ==
    /\ ledger \in [Events -> [status : {"none", "sending", "sent"}, by : Claims \cup {NoClaim}]]
    /\ sender \in [Claims -> {"idle"} \cup InFlight \cup Over]
    /\ target \in [Claims -> Events \cup {NoEvent}]
    /\ replies \in [Events -> Nat]
    /\ \A e \in Events : ledger[e].by = NoClaim <=> ledger[e].status = "none"
    /\ \A c \in Claims : target[c] = NoEvent <=> sender[c] = "idle"

\* The user sees the reply to a message at most once, however often the
\* message is claimed again and wherever its senders crash (begin_delivery,
\* _deliver_response_idempotent).
AtMostOnce == \A e \in Events : replies[e] <= 1

\* What the ledger records as sent did reach the user, and a claim that skips
\* its send as already_sent relies on that.
SentWasDelivered ==
    /\ \A e \in Events : ledger[e].status = "sent" => replies[e] >= 1
    /\ \A c \in Claims : sender[c] = "already_sent" => replies[target[c]] >= 1

\* A reservation is given up only when the reply has not reached the user:
\* otherwise the next claim would send it again (clear_delivery).
ClearOnlyUndelivered ==
    [][\A e \in Events :
         ledger[e].status = "sending" /\ ledger'[e].status = "none" => replies[e] = 0]_ledgerVars

\* The ledger implements the promise it was introduced for.
Stage == [none |-> "open", sending |-> "attempted", sent |-> "confirmed"]
Promise == INSTANCE ReplyPromise WITH stage <- [e \in Events |-> Stage[ledger[e].status]]
KeepsPromise == Promise!PromiseSpec
=============================================================================

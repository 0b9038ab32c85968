----------------------------- MODULE EventQueue -----------------------------
(***************************************************************************)
(* The durable event queue of the gateway (src/lib/gateway/queue.py): one  *)
(* SQLite table, `events`, shared by the gateway process, its slot         *)
(* threads, the supervisor and the operator's command line.  Every         *)
(* operation below is one committed SQLite transaction, hence one step;    *)
(* the one exception, an unguarded fail(), takes the retry count its       *)
(* caller read earlier as a parameter.                                     *)
(*                                                                         *)
(* Time is abstracted to the two comparisons the code makes: `lapsed` is   *)
(* the set of claims whose locked_until is in the past, and row[e].ready   *)
(* says whether available_at is.  All rows of one claim carry the same     *)
(* locked_until, written by the claim and by its lease heartbeat.          *)
(***************************************************************************)
EXTENDS Integers, FiniteSets

CONSTANTS
    Conversations,  \* values of the column conversation_id
    NoConv,         \* conversation_id IS NULL
    Keys,           \* values of the column source_message_id
    NoKey,          \* source_message_id IS NULL
    MaxRetries,     \* config.max_retries
    MaxEvents,      \* bound: rows ever inserted
    MaxClaims,      \* bound: claim tokens ever minted
    MaxGranted,     \* bound: attempts granted to one event outside its budget
    MaxFailures     \* bound: retry_count up to which unguarded fails are tried

ASSUME QueueBounds ==
    /\ MaxRetries \in Nat
    /\ MaxEvents \in Nat
    /\ MaxClaims \in Nat
    /\ MaxGranted \in Nat
    /\ MaxFailures \in Nat
ASSUME NullsAreNotValues == NoConv \notin Conversations /\ NoKey \notin Keys

Ids == 1 .. MaxEvents
NULL == 0                   \* locked_by IS NULL; tokens are 1, 2, ...

VARIABLES
    row,        \* the table: id -> columns ("absent": not inserted yet)
    lastId,     \* the AUTOINCREMENT counter
    minted,     \* number of claim tokens minted so far
    lapsed,     \* tokens whose lease has expired
    claims,     \* history: times an event was claimed
    granted     \* history: attempts an event got outside its retry budget

queueVars == <<row, lastId, minted, lapsed, claims, granted>>

Statuses == {"absent", "queued", "running", "done", "failed"}
Row == [status : Statuses, conv : Conversations \cup {NoConv},
        key : Keys \cup {NoKey}, ready : BOOLEAN, lockedBy : Nat, retries : Nat]

Absent == [status |-> "absent", conv |-> NoConv, key |-> NoKey,
           ready |-> FALSE, lockedBy |-> NULL, retries |-> 0]

QueueInit ==
    /\ row = [e \in Ids |-> Absent]
    /\ lastId = 0
    /\ minted = 0
    /\ lapsed = {}
    /\ claims = [e \in Ids |-> 0]
    /\ granted = [e \in Ids |-> 0]

-----------------------------------------------------------------------------
(* Building blocks of the operations.                                      *)

Inserted == {e \in Ids : row[e].status # "absent"}

\* Retries charged, as far as the budget counts them.
Spent(r) == IF r.retries < MaxRetries THEN r.retries ELSE MaxRetries

\* status='running' AND locked_by=t: the guard of every claim-holder write.
Owns(e, t) == row[e].status = "running" /\ row[e].lockedBy = t

\* Mutation of Released: the status is written, the lock columns are not.
ReleasedStillLocked(r, s) == [r EXCEPT !.status = s]

\* What a row becomes when its claim ends: new status, lock columns NULL.
Released(r, s) == [r EXCEPT !.status = s, !.lockedBy = NULL]

\* Mutation of Charged: the cap compared before the increment.
ChargedOffByOne(r, n, m) ==
    [Released(r, IF n <= m THEN "queued" ELSE "failed") EXCEPT !.retries = n + 1]

\* A charged attempt: retry_count+1, and `failed` when that exceeds the cap m.
Charged(r, n, m) ==
    [Released(r, IF n + 1 <= m THEN "queued" ELSE "failed") EXCEPT !.retries = n + 1]

\* Mutation of Expired: locked_until not compared.
ExpiredAlways(e) == row[e].status = "running"

\* Mutation of Expired: a lease that lapses on the last attempt is left alone.
ExpiredWithinBudget(e) ==
    row[e].status = "running" /\ row[e].lockedBy \in lapsed /\ row[e].retries < MaxRetries

\* status='running' AND locked_until <= now.
Expired(e) == row[e].status = "running" /\ row[e].lockedBy \in lapsed

\* The table after requeue_expired: it runs on the periodic tick and inline
\* at the start of every claim.  A re-queued row is available at once.
AfterRequeue ==
    [e \in Ids |->
        IF Expired(e)
        THEN [Charged(row[e], row[e].retries, MaxRetries) EXCEPT !.ready = TRUE]
        ELSE row[e]]

Claimable(table) == {e \in Ids : table[e].status = "queued" /\ table[e].ready}

\* Mutation of BatchOf: NULL taken for a conversation like the others.
BatchOfNulls(table, head, coalesce) ==
    IF coalesce
    THEN {e \in Claimable(table) : table[e].conv = table[head].conv}
    ELSE {head}

\* claim_next takes the head alone; claim_batch_same_conversation takes every
\* claimable row of the head's conversation, unless that is NULL.
BatchOf(table, head, coalesce) ==
    IF coalesce /\ table[head].conv # NoConv
    THEN {e \in Claimable(table) : table[e].conv = table[head].conv}
    ELSE {head}

\* Mutation of MintClaimToken: the worker id of the process alone.
BareWorkerId == 1

\* mint_claim_token: a token no earlier claim has used.
MintClaimToken == minted + 1

-----------------------------------------------------------------------------
(* Operations.                                                             *)

\* INSERT OR IGNORE: a duplicate (source, source_message_id) inserts nothing.
Enqueue(c, k, ready) ==
    /\ lastId < MaxEvents
    /\ k = NoKey \/ \A e \in Inserted : row[e].key # k
    /\ lastId' = lastId + 1
    /\ row' = [row EXCEPT ![lastId + 1] =
                 [Absent EXCEPT !.status = "queued", !.conv = c,
                                !.key = k, !.ready = ready]]
    /\ UNCHANGED <<minted, lapsed, claims, granted>>

RequeueExpired ==
    /\ \E e \in Ids : Expired(e)
    /\ row' = AfterRequeue
    /\ UNCHANGED <<lastId, minted, lapsed, claims, granted>>

Claim(coalesce) ==
    /\ minted < MaxClaims
    /\ \E head \in Claimable(AfterRequeue) :
         LET batch == BatchOf(AfterRequeue, head, coalesce) IN
         /\ \A e \in Claimable(AfterRequeue) : head <= e
         /\ row' = [e \in Ids |->
                      IF e \in batch
                      THEN [AfterRequeue[e] EXCEPT !.status = "running",
                                                   !.lockedBy = MintClaimToken]
                      ELSE AfterRequeue[e]]
         /\ claims' = [e \in Ids |-> IF e \in batch THEN claims[e] + 1 ELSE claims[e]]
    /\ minted' = minted + 1
    /\ UNCHANGED <<lastId, lapsed, granted>>

\* renew_lease by the lease heartbeat of claim t.
RenewLease(t) ==
    /\ \E e \in Ids : Owns(e, t)
    /\ lapsed' = lapsed \ {t}
    /\ UNCHANGED <<row, lastId, minted, claims, granted>>

Complete(e, t) ==
    /\ Owns(e, t)
    /\ row' = [row EXCEPT ![e] = Released(@, "done")]
    /\ UNCHANGED <<lastId, minted, lapsed, claims, granted>>

\* complete() without expected_locked_by (jc-gateway complete).
CompleteUnguarded(e) ==
    /\ e \in Inserted
    /\ row' = [row EXCEPT ![e] = Released(@, "done")]
    /\ UNCHANGED <<lastId, minted, lapsed, claims, granted>>

\* A retry waits for its backoff: available_at is in the future.
Fail(e, t, m) ==
    /\ Owns(e, t)
    /\ row' = [row EXCEPT ![e] = [Charged(@, @.retries, m) EXCEPT !.ready = FALSE]]
    /\ UNCHANGED <<lastId, minted, lapsed, claims, granted>>

\* fail() without expected_locked_by: the UPDATE names the id alone and writes
\* the retry count n that a SELECT outside its transaction returned.  Retries
\* charged since then are lost, and so granted anew.
FailUnguarded(e, n, m) ==
    /\ e \in Inserted
    /\ row' = [row EXCEPT ![e] = [Charged(@, n, m) EXCEPT !.ready = FALSE]]
    /\ granted' = [granted EXCEPT ![e] =
                     IF n < Spent(row[e]) THEN @ + (Spent(row[e]) - n) ELSE @]
    /\ UNCHANGED <<lastId, minted, lapsed, claims>>

\* retry_now: any status, retry_count kept.
RetryNow(e) ==
    /\ e \in Inserted
    /\ row' = [row EXCEPT ![e] = [Released(@, "queued") EXCEPT !.ready = TRUE]]
    /\ granted' = [granted EXCEPT ![e] = IF row[e].status # "queued" THEN @ + 1 ELSE @]
    /\ UNCHANGED <<lastId, minted, lapsed, claims>>

\* reset_running_to_queued with expected_locked_by = t.
ResetRunningToQueued(e, t) ==
    /\ Owns(e, t)
    /\ row' = [row EXCEPT ![e] = [Released(@, "queued") EXCEPT !.ready = FALSE]]
    /\ granted' = [granted EXCEPT ![e] = @ + 1]
    /\ UNCHANGED <<lastId, minted, lapsed, claims>>

\* mark_event_failed, and the gateway's _park_deferred_event: any running row,
\* whoever holds it.
MarkEventFailed(e) ==
    /\ row[e].status = "running"
    /\ row' = [row EXCEPT ![e] = Released(@, "failed")]
    /\ UNCHANGED <<lastId, minted, lapsed, claims, granted>>

\* The clock passes the locked_until of a claim, the available_at of a row.
LeaseLapses(t) ==
    /\ t \notin lapsed
    /\ \E e \in Ids : Owns(e, t)
    /\ lapsed' = lapsed \cup {t}
    /\ UNCHANGED <<row, lastId, minted, claims, granted>>

BackoffElapses(e) ==
    /\ row[e].status = "queued"
    /\ ~row[e].ready
    /\ row' = [row EXCEPT ![e].ready = TRUE]
    /\ UNCHANGED <<lastId, minted, lapsed, claims, granted>>

-----------------------------------------------------------------------------
(* The queue under every caller it has, each calling whenever it likes: a  *)
(* claim holder may be alive, stalled past its lease, or dead.             *)

Tokens == 1 .. minted

QueueNext ==
    \/ \E c \in Conversations \cup {NoConv}, k \in Keys \cup {NoKey}, r \in BOOLEAN :
         Enqueue(c, k, r)
    \/ RequeueExpired
    \/ \E coalesce \in BOOLEAN : Claim(coalesce)
    \/ \E t \in Tokens : RenewLease(t)
    \/ \E t \in Tokens : LeaseLapses(t)
    \/ \E e \in Ids, t \in Tokens : Complete(e, t)
    \/ \E e \in Ids, t \in Tokens, m \in {0, MaxRetries} : Fail(e, t, m)
    \/ \E e \in Ids, t \in Tokens :
         granted[e] < MaxGranted /\ ResetRunningToQueued(e, t)
    \/ \E e \in Ids : granted[e] < MaxGranted /\ RetryNow(e)
    \/ \E e \in Ids : MarkEventFailed(e)
    \/ \E e \in Ids, n \in 0 .. MaxFailures, m \in {0, MaxRetries} :
         /\ granted[e] < MaxGranted
         /\ FailUnguarded(e, n, m)
    \/ \E e \in Ids : CompleteUnguarded(e)
    \/ \E e \in Ids : BackoffElapses(e)

QueueSpec == QueueInit /\ [][QueueNext]_queueVars

-----------------------------------------------------------------------------
(* Properties.                                                             *)

\* The columns and the histories have their types, no row carries a token that
\* was never minted, and a row is locked exactly while it runs: every
\* transition that ends a claim clears its lock (queue.py init_db).
QueueTypeOK ==
    /\ row \in [Ids -> Row]
    /\ lastId \in 0 .. MaxEvents
    /\ minted \in 0 .. MaxClaims
    /\ lapsed \subseteq Tokens
    /\ claims \in [Ids -> Nat]
    /\ granted \in [Ids -> Nat]
    /\ \A e \in Ids : row[e].lockedBy \in 0 .. minted
    /\ \A e \in Ids : row[e].lockedBy # NULL <=> row[e].status = "running"

\* Two rows under one token come from one coalesced batch, so they are of one
\* conversation, and that conversation is not NULL: one brain call never mixes
\* the messages of two chats (claim_batch_same_conversation).
OneConversationPerClaim ==
    \A d, e \in Ids :
        d # e /\ row[d].status = "running" /\ row[d].lockedBy = row[e].lockedBy
            => row[d].conv = row[e].conv /\ row[d].conv # NoConv

\* A poison event, one that burns its lease or fails each time it runs, is not
\* run forever: its claims never exceed the first one, max_retries retries and
\* the attempts somebody granted it (a supervisor reset, an operator retry, a
\* charge lost to an unguarded fail) (requeue_expired, fail).
AttemptsBounded ==
    \A e \in Ids : claims[e] <= 1 + MaxRetries + granted[e]

\* The same budget, step by step: an event that waits has not yet used the
\* attempt it waits for (the inductive form of AttemptsBounded,
\* which the proofs need).
BudgetKept ==
    \A e \in Ids :
        claims[e] + (IF row[e].status = "queued" THEN 1 ELSE 0)
            <= 1 + Spent(row[e]) + granted[e]

\* Once a claim has lost a row it never owns that row again, whatever happens
\* to the row afterwards: a stale worker's guard can only fail (mint_claim_token
\* and the `locked_by=?` guards).
StaleTokenNeverReturns ==
    [][\A e \in Ids, t \in Tokens : row[e].lockedBy # t => row'[e].lockedBy # t]_queueVars

\* A claim takes an event from nobody whose lease is live: the row was waiting
\* or its lease had lapsed (claim_next, requeue_expired, renew_lease).
LiveLeaseRespected ==
    [][\A e \in Ids :
         claims'[e] > claims[e] => row[e].status = "queued" \/ row[e].lockedBy \in lapsed]_queueVars
=============================================================================

-------------------------- MODULE GatewayDispatch --------------------------
(***************************************************************************)
(* The gateway's dispatch of events (src/lib/gateway/runtime.py and        *)
(* recovery_integration.py): what a thread does with the rows of one       *)
(* claim, from dispatch_once to the last complete() or fail(), composed    *)
(* with the queue (EventQueue) and the delivery ledger (DeliveryLedger)    *)
(* that it uses, with the restarts of the process, and with the supervisor *)
(* and the operator, who write the same rows.  A thread is named by its    *)
(* claim token.                                                            *)
(*                                                                         *)
(* The brain is a choice of outcomes.  One step here is one transaction,   *)
(* or one call to the brain or to the transport, of the thread; everything *)
(* else may happen between two of them.                                    *)
(***************************************************************************)
EXTENDS EventQueue, FiniteSetsExt, Sequences

CONSTANTS
    Coalesce,           \* reliability.coalesce_same_conversation
    MaxConcurrent,      \* parallel.max_concurrent; 1: the loop runs the brain
    Failures,           \* what may go wrong in a run, see FailureKinds
    Outsiders,          \* subset of {"supervisor", "operator"}
    TransportFaults,    \* see DeliveryLedger
    MaxMessages,        \* bound: messages the channels receive
    MaxCrashes,         \* bound: crashes of the gateway process
    MaxInterventions    \* bound: resets and replays of one event by outsiders

Handoffs == {"session_missing", "context_exhausted"}

\* AdapterFailures by the class the recovery classifier gives them, an
\* exception of another kind ("error"), and a database call that raises
\* ("locked").
FailureKinds == {"transient", "bad_input", "session_expired", "error", "locked"} \cup Handoffs

\* source_message_id of the row a recovery handler enqueues for event e.
CopyKey(kind, e) == <<kind, e>>
UserKeys == Keys \ {CopyKey(kind, e) : kind \in Handoffs, e \in Ids}

ASSUME DispatchConstants ==
    /\ Coalesce \in BOOLEAN
    /\ MaxConcurrent \in Nat \ {0}
    /\ Failures \subseteq FailureKinds
    /\ Outsiders \subseteq {"supervisor", "operator"}
    /\ {MaxMessages, MaxCrashes, MaxInterventions} \subseteq Nat
    /\ \A kind \in Handoffs \cap Failures, e \in Ids : CopyKey(kind, e) \in Keys

VARIABLES
    phase,      \* thread -> where it stands
    batch,      \* thread -> the ids it claimed
    left,       \* thread -> the ids its final loop has not written yet
    todo,       \* thread -> what the recovery decision still has to write
    seen,       \* thread -> the retry_count its fail() has read
    body,       \* id -> content and meta of the row
    observed,   \* id -> the lock the supervisor's snapshot saw
    crashes,    \* number of crashes so far
    ledger, sender, target, replies,
    answered    \* history: message -> times a reply to it reached the user

Threads == 1 .. MaxClaims
NoThread == 0
NoId == 0

Ledger == INSTANCE DeliveryLedger WITH
    Events <- Ids, Claims <- Threads, NoClaim <- NoThread, NoEvent <- NoId

ledgerVars == <<ledger, sender, target, replies>>
threadVars == <<phase, batch, left, todo, seen>>
worldVars == <<body, observed, crashes>>
dispatchVars == <<queueVars, ledgerVars, threadVars, worldVars, answered>>

Phases == {"none", "slot", "brain", "answer", "send", "closing", "failing",
           "classifying", "recovering", "charging", "over"}
Live == Phases \ {"none", "over"}

\* What an event says: the messages its content holds, meta.coalesced_ids, and
\* the redispatch markers in its meta.
NoBody == [covers |-> {}, listed |-> {}, marks |-> {}]

DispatchInit ==
    /\ QueueInit
    /\ Ledger!LedgerInit
    /\ phase = [t \in Threads |-> "none"]
    /\ batch = [t \in Threads |-> {}]
    /\ left = [t \in Threads |-> {}]
    /\ todo = [t \in Threads |-> <<>>]
    /\ seen = [t \in Threads |-> 0]
    /\ body = [e \in Ids |-> NoBody]
    /\ observed = [e \in Ids |-> NULL]
    /\ crashes = 0
    /\ answered = [e \in Ids |-> 0]

-----------------------------------------------------------------------------
(* Helpers.                                                                *)

\* event.id of the event a thread processes: _bundle_events keeps the first.
Lead(t) == Min(batch[t])

\* The event a thread processes: the row itself, or the bundle of its batch,
\* with the meta of the latest row.
Bundle(t) ==
    IF Cardinality(batch[t]) = 1
    THEN body[Lead(t)]
    ELSE [covers |-> UNION {body[e].covers : e \in batch[t]},
          listed |-> batch[t],
          marks |-> body[Max(batch[t])].marks]

\* The ids whose ownership _delivery_ownership_ok counts.
GateIds(t) == Bundle(t).listed \cup {Lead(t)}

\* Mutation of LoopFree: a serial loop that claims while the brain runs.
LoopNeverWaits == \A t \in Threads : phase[t] # "slot"

\* The dispatch loop is not inside dispatch_once: in serial mode it runs the
\* brain itself, in parallel mode it only finds a slot.
LoopFree ==
    \A t \in Threads :
        phase[t] \notin (IF MaxConcurrent = 1 THEN Live ELSE {"slot"})

\* Threads that occupy a slot of the conversation of t.
SlotsTaken(t) ==
    {u \in Threads : /\ phase[u] \in Live \ {"slot"}
                     /\ row[Lead(u)].conv = row[Lead(t)].conv}

\* The clock and the other actors leave the threads alone.
OnlyQueue == UNCHANGED <<threadVars, ledgerVars, worldVars, answered>>

\* A thread moves from one phase to another.
Moves(t, from, to) ==
    /\ phase[t] = from
    /\ phase' = [phase EXCEPT ![t] = to]

\* A thread moves and nothing is written.
Steps(t, from, to) ==
    /\ Moves(t, from, to)
    /\ UNCHANGED <<queueVars, ledgerVars, batch, left, todo, seen, worldVars, answered>>

\* A thread enters one of its final loops over all ids of its batch.
Closes(t, from, to) ==
    /\ Moves(t, from, to)
    /\ left' = [left EXCEPT ![t] = batch[t]]
    /\ UNCHANGED <<batch, todo, seen, worldVars>>

-----------------------------------------------------------------------------
(* The loop.                                                               *)

\* A channel enqueues a message; a redelivered one inserts nothing.
Receive(c, k) ==
    /\ Cardinality({e \in Inserted : row[e].key \notin Keys \ UserKeys}) < MaxMessages
    /\ Enqueue(c, k, TRUE)
    /\ body' = [body EXCEPT ![lastId + 1] = [NoBody EXCEPT !.covers = {lastId + 1}]]
    /\ UNCHANGED <<threadVars, ledgerVars, observed, crashes, answered>>

RequeueTick == LoopFree /\ RequeueExpired /\ OnlyQueue

\* dispatch_once: coalescing is for serial mode alone.
DispatchOnce ==
    /\ LoopFree
    /\ Claim(Coalesce /\ MaxConcurrent = 1)
    /\ LET t == MintClaimToken IN
       /\ phase' = [phase EXCEPT ![t] = IF MaxConcurrent = 1 THEN "brain" ELSE "slot"]
       /\ batch' = [batch EXCEPT ![t] = {e \in Ids : row'[e].lockedBy = t}]
    /\ UNCHANGED <<left, todo, seen, ledgerVars, worldVars, answered>>

\* _dispatch_parallel: a slot of the conversation is free.  An event of no
\* conversation is not counted and runs on slot 0.
TakeSlot(t) ==
    /\ phase[t] = "slot"
    /\ row[Lead(t)].conv = NoConv \/ Cardinality(SlotsTaken(t)) < MaxConcurrent
    /\ Steps(t, "slot", "brain")

\* All slots are busy, or the one that the classifier relates the message to.
WaitForSlot(t) ==
    /\ phase[t] = "slot"
    /\ row[Lead(t)].conv # NoConv /\ SlotsTaken(t) # {}
    /\ Moves(t, "slot", "over")
    /\ IF Owns(Lead(t), t) THEN ResetRunningToQueued(Lead(t), t) ELSE UNCHANGED queueVars
    /\ UNCHANGED <<batch, left, todo, seen, ledgerVars, worldVars, answered>>

-----------------------------------------------------------------------------
(* process_event.                                                          *)

\* The brain has a reply to deliver.
BrainReplies(t) == Steps(t, "brain", "answer")

\* Nothing to deliver through the ledger: a silent brain, a slash command.
NothingToSend(t) ==
    /\ Closes(t, "brain", "closing")
    /\ UNCHANGED <<queueVars, ledgerVars, answered>>

BrainRaises(t) ==
    /\ "error" \in Failures
    /\ Closes(t, "brain", "failing")
    /\ UNCHANGED <<queueVars, ledgerVars, answered>>

AdapterFails(t) ==
    /\ Failures \ {"error", "locked"} # {}
    /\ Steps(t, "brain", "classifying")

\* _delivery_ownership_ok.
GateOpens(t) ==
    /\ phase[t] = "answer"
    /\ \A e \in GateIds(t) : Owns(e, t)
    /\ Steps(t, "answer", "send")

GateRefuses(t) ==
    /\ phase[t] = "answer"
    /\ \E e \in GateIds(t) : ~Owns(e, t)
    /\ Closes(t, "answer", "closing")
    /\ UNCHANGED <<queueVars, ledgerVars, answered>>

\* _deliver_response_idempotent, one step at a time; the thread goes on when its
\* delivery is over, and what reaches the user answers all that it covers.
Deliver(t) ==
    /\ phase[t] = "send"
    /\ \/ Ledger!BeginDelivery(t, Lead(t))
       \/ Ledger!LiveDelivers(t)
       \/ Ledger!LiveAmbiguous(t)
       \/ Ledger!LiveUndelivered(t)
       \/ Ledger!FallbackDelivers(t)
       \/ Ledger!FallbackFails(t)
       \/ Ledger!FinishDelivery(t)
       \/ Ledger!ClearDelivery(t)
    /\ answered' = [m \in Ids |->
                      IF m \in Bundle(t).covers
                      THEN answered[m] + (replies'[Lead(t)] - replies[Lead(t)])
                      ELSE answered[m]]
    /\ IF sender'[t] \in Ledger!Over
       THEN Closes(t, "send", "closing")
       ELSE UNCHANGED <<threadVars, worldVars>>
    /\ UNCHANGED queueVars

\* Mutation of DeliverRaises: the handler of the exception drops the reservation.
DeliverRaisesReleases(t) ==
    /\ "locked" \in Failures
    /\ sender[t] \in {"idle", "confirmed", "undelivered"}
    /\ Closes(t, "send", "failing")
    /\ sender' = [sender EXCEPT ![t] = IF @ = "idle" THEN @ ELSE "crashed"]
    /\ ledger' = [ledger EXCEPT ![Lead(t)] = Ledger!NoRow]
    /\ UNCHANGED <<queueVars, target, replies, answered>>

\* A ledger write of the thread raises: begin, finish or clear.
DeliverRaises(t) ==
    /\ "locked" \in Failures
    /\ sender[t] \in {"idle", "confirmed", "undelivered"}
    /\ Closes(t, "send", "failing")
    /\ Ledger!Crash({t})
    /\ UNCHANGED <<queueVars, answered>>

\* The final loops write the rows that the claim still owns and skip the others.
NextLeft(t) == Min(left[t])

OneWritten(t, from) ==
    /\ phase[t] = from
    /\ left' = [left EXCEPT ![t] = @ \ {NextLeft(t)}]
    /\ phase' = [phase EXCEPT ![t] = IF left[t] = {NextLeft(t)} THEN "over" ELSE from]
    /\ UNCHANGED <<batch, todo, seen, ledgerVars, worldVars, answered>>

CompleteOne(t) ==
    /\ OneWritten(t, "closing")
    /\ IF Owns(NextLeft(t), t) THEN Complete(NextLeft(t), t) ELSE UNCHANGED queueVars

FailOne(t) ==
    /\ OneWritten(t, "failing")
    /\ IF Owns(NextLeft(t), t) THEN Fail(NextLeft(t), t, MaxRetries) ELSE UNCHANGED queueVars

\* complete() raises: every row of the batch goes to fail().
CompleteRaises(t) ==
    /\ "locked" \in Failures
    /\ Closes(t, "closing", "failing")
    /\ UNCHANGED <<queueVars, ledgerVars, answered>>

\* fail() raises: the rows stay running until their lease lapses.
FailRaises(t) == "locked" \in Failures /\ Steps(t, "failing", "over")

-----------------------------------------------------------------------------
(* handle_adapter_failure.  It knows the head of the batch alone, and its  *)
(* calls of fail() do not name the claim.                                  *)

\* Mutation of Plan: the original of a handoff is charged, not failed.
PlanKeepsOriginal(kind) ==
    CASE kind = "transient" -> <<"retry">>
      [] kind = "bad_input" -> <<"fail">>
      [] kind = "session_expired" -> <<"park">>
      [] kind = "session_missing" -> <<"retry", "park">>
      [] kind = "context_exhausted" -> <<"fail", "retry">>

\* The writes that a recovery decision leads to, in order: "fail" and "retry"
\* are fail() with max_retries 0 and MaxRetries, "park" is _park_deferred_event.
Plan(kind) ==
    CASE kind = "transient" -> <<"retry">>
      [] kind = "bad_input" -> <<"fail">>
      [] kind = "session_expired" -> <<"park">>
      [] kind = "session_missing" -> <<"fail", "park">>
      [] kind = "context_exhausted" -> <<"fail", "retry">>

\* The handoff is refused a second time, and without a conversation.
MayHandOff(t, kind) == kind \notin Bundle(t).marks /\ row[Lead(t)].conv # NoConv

\* A handoff enqueues a marked copy of the event, once.
HandOff(t, kind) ==
    IF \E e \in Inserted : row[e].key = CopyKey(kind, Lead(t))
    THEN UNCHANGED <<queueVars, body>>
    ELSE /\ \E ready \in IF kind = "session_missing" THEN BOOLEAN ELSE {TRUE} :
              Enqueue(row[Lead(t)].conv, CopyKey(kind, Lead(t)), ready)
         /\ body' = [body EXCEPT ![lastId + 1] =
                       [Bundle(t) EXCEPT !.marks = @ \cup {kind}]]

Decide(t) ==
    /\ Moves(t, "classifying", "recovering")
    /\ \E kind \in Failures \ {"error", "locked"} :
         IF kind \in Handoffs /\ MayHandOff(t, kind)
         THEN /\ HandOff(t, kind)
              /\ todo' = [todo EXCEPT ![t] = Plan(kind)]
         ELSE /\ todo' = [todo EXCEPT ![t] = Plan(IF kind \in Handoffs THEN "bad_input" ELSE kind)]
              /\ UNCHANGED <<queueVars, body>>
    /\ UNCHANGED <<batch, left, seen, ledgerVars, observed, crashes, answered>>

\* fail(): the SELECT of retry_count, outside the transaction of the UPDATE.
ReadRetries(t) ==
    /\ Moves(t, "recovering", "charging")
    /\ Head(todo[t]) \in {"fail", "retry"}
    /\ seen' = [seen EXCEPT ![t] = row[Lead(t)].retries]
    /\ UNCHANGED <<queueVars, ledgerVars, batch, left, todo, worldVars, answered>>

\* Mutation of Advances: the thread does not notice that its plan is done.
AdvancesForever(t, from) ==
    /\ Moves(t, from, "recovering")
    /\ todo' = [todo EXCEPT ![t] = Tail(@)]
    /\ UNCHANGED <<ledgerVars, batch, left, seen, worldVars, answered>>

\* The plan goes on, or the thread ends.
Advances(t, from) ==
    /\ Moves(t, from, IF Len(todo[t]) = 1 THEN "over" ELSE "recovering")
    /\ todo' = [todo EXCEPT ![t] = Tail(@)]
    /\ UNCHANGED <<ledgerVars, batch, left, seen, worldVars, answered>>

\* Mutation of Cap: one attempt too many.
CapOneMore(what) == IF what = "fail" THEN 0 ELSE MaxRetries + 1

Cap(what) == IF what = "fail" THEN 0 ELSE MaxRetries

ChargeRetry(t) ==
    /\ Advances(t, "charging")
    /\ FailUnguarded(Lead(t), seen[t], Cap(Head(todo[t])))

Park(t) ==
    /\ Advances(t, "recovering")
    /\ Head(todo[t]) = "park"
    /\ IF row[Lead(t)].status = "running" THEN MarkEventFailed(Lead(t)) ELSE UNCHANGED queueVars

\* A database call raises: inside a handler it becomes a retry, outside of it
\* the loop logs the error and the row stays as it is.
RecoveryRaises(t) ==
    /\ "locked" \in Failures
    /\ phase[t] \in {"recovering", "charging"}
    /\ IF Len(todo[t]) = 2
       THEN /\ todo' = [todo EXCEPT ![t] = <<"retry">>]
            /\ phase' = [phase EXCEPT ![t] = "recovering"]
       ELSE /\ todo' = [todo EXCEPT ![t] = <<>>]
            /\ phase' = [phase EXCEPT ![t] = "over"]
    /\ UNCHANGED <<queueVars, ledgerVars, batch, left, seen, worldVars, answered>>

-----------------------------------------------------------------------------
(* The heartbeat, the clock, the process and the other actors.             *)

\* _LeaseHeartbeat runs while process_event does.
Heartbeat(t) == phase[t] \in {"brain", "answer", "send"} /\ RenewLease(t) /\ OnlyQueue

Lapse(t) == LeaseLapses(t) /\ OnlyQueue

Backoff(e) == BackoffElapses(e) /\ OnlyQueue

\* The gateway process dies and is started again: no thread survives.
CrashProcess ==
    /\ crashes < MaxCrashes
    /\ crashes' = crashes + 1
    /\ \E t \in Threads : phase[t] \in Live
    /\ phase' = [t \in Threads |-> IF phase[t] \in Live THEN "over" ELSE phase[t]]
    /\ Ledger!Crash(Threads)
    /\ UNCHANGED <<queueVars, batch, left, todo, seen, body, observed, answered>>

\* The supervisor's snapshot finds a running row whose adapter is gone.
Observe(e) ==
    /\ "supervisor" \in Outsiders
    /\ row[e].status = "running"
    /\ phase[row[e].lockedBy] # "brain"
    /\ observed[e] # row[e].lockedBy
    /\ observed' = [observed EXCEPT ![e] = row[e].lockedBy]
    /\ UNCHANGED <<queueVars, threadVars, ledgerVars, body, crashes, answered>>

\* apply_recovery and escalate_to_failed act on that snapshot.
SupervisorResets(e) ==
    /\ observed[e] # NULL
    /\ granted[e] < MaxInterventions
    /\ ResetRunningToQueued(e, observed[e])
    /\ UNCHANGED <<threadVars, ledgerVars, worldVars, answered>>

SupervisorFails(e) ==
    /\ observed[e] # NULL
    /\ MarkEventFailed(e)
    /\ UNCHANGED <<threadVars, ledgerVars, worldVars, answered>>

\* jc-gateway retry, and the replay after a redeemed auth token.
Replay(e) ==
    /\ "operator" \in Outsiders
    /\ granted[e] < MaxInterventions
    /\ RetryNow(e)
    /\ OnlyQueue

-----------------------------------------------------------------------------
\* The steps a live thread takes when nothing raises.
ThreadStep(t) ==
    \/ TakeSlot(t)
    \/ WaitForSlot(t)
    \/ BrainReplies(t)
    \/ NothingToSend(t)
    \/ GateOpens(t)
    \/ GateRefuses(t)
    \/ Deliver(t)
    \/ CompleteOne(t)
    \/ FailOne(t)
    \/ Decide(t)
    \/ ReadRetries(t)
    \/ ChargeRetry(t)
    \/ Park(t)

Mishap(t) ==
    \/ BrainRaises(t)
    \/ AdapterFails(t)
    \/ DeliverRaises(t)
    \/ CompleteRaises(t)
    \/ FailRaises(t)
    \/ RecoveryRaises(t)

DispatchNext ==
    \/ \E c \in Conversations \cup {NoConv}, k \in UserKeys \cup {NoKey} : Receive(c, k)
    \/ RequeueTick
    \/ DispatchOnce
    \/ \E t \in Threads : ThreadStep(t)
    \/ \E t \in Threads : Mishap(t)
    \/ \E t \in Threads : Heartbeat(t)
    \/ \E t \in Threads : Lapse(t)
    \/ \E e \in Ids : Backoff(e)
    \/ CrashProcess
    \/ \E e \in Ids : Observe(e)
    \/ \E e \in Ids : SupervisorResets(e)
    \/ \E e \in Ids : SupervisorFails(e)
    \/ \E e \in Ids : Replay(e)

DispatchSpec == DispatchInit /\ [][DispatchNext]_dispatchVars

\* What the scheduling justifies: run_forever polls again and again, a thread
\* that nothing stops goes on, and time passes.  Nobody renews the lease of a
\* claim whose thread has ended.  No channel, mishap or outsider has to act.
DispatchFair ==
    /\ WF_dispatchVars(RequeueTick)
    /\ WF_dispatchVars(DispatchOnce)
    /\ \A t \in Threads : WF_dispatchVars(ThreadStep(t))
    /\ \A t \in Threads : WF_dispatchVars(phase[t] = "over" /\ Lapse(t))
    /\ \A e \in Ids : WF_dispatchVars(Backoff(e))

FairDispatchSpec == DispatchSpec /\ DispatchFair

-----------------------------------------------------------------------------
(* Properties.                                                             *)

\* The threads have their types, a live thread works on the rows of a claim
\* that was minted, and the ledger knows a claim only from its send on.
DispatchTypeOK ==
    /\ phase \in [Threads -> Phases]
    /\ batch \in [Threads -> SUBSET Ids]
    /\ left \in [Threads -> SUBSET Ids]
    /\ todo \in [Threads -> {<<>>, <<"park">>} \cup {Plan(kind) : kind \in Failures \ {"error", "locked"}}
                               \cup {Plan("bad_input"), Plan("transient")}]
    /\ seen \in [Threads -> Nat]
    /\ body \in [Ids -> [covers : SUBSET Ids, listed : SUBSET Ids, marks : SUBSET Handoffs]]
    /\ observed \in [Ids -> 0 .. MaxClaims]
    /\ crashes \in 0 .. MaxCrashes
    /\ answered \in [Ids -> Nat]
    /\ \A t \in Threads :
         /\ phase[t] = "none" <=> t > minted
         /\ batch[t] = {} <=> t > minted
         /\ left[t] \subseteq batch[t]
         /\ phase[t] \in {"closing", "failing"} => left[t] # {}
         /\ phase[t] \in {"recovering", "charging"} => todo[t] # <<>>
         /\ sender[t] \in Ledger!InFlight => phase[t] = "send"

\* Two replies to one message never reach the user, whichever claims, leases,
\* restarts, resets and replays the message goes through: what the ownership
\* gate and the ledger are for (_delivery_ownership_ok,
\* _deliver_response_idempotent).
AnsweredOnce == \A m \in Ids : answered[m] <= 1

\* A thread changes only rows that its claim still owns: a stale worker never
\* writes over the state of an event somebody else has claimed, reset or
\* finished in the meantime (the expected_locked_by guards).
StaleWorkerHarmless ==
    [][\A t \in Threads, e \in Ids :
         /\ phase[t] \in Live
         /\ <<phase[t], left[t], todo[t]>>' # <<phase[t], left[t], todo[t]>>
         /\ row[e].status # "absent"
         /\ row'[e] # row[e]
         => row[e].lockedBy = t]_dispatchVars

\* A finished event is not run again unless somebody replays it.
DoneIsFinal ==
    [][\A e \in Ids : row[e].status = "done" => row'[e].status = "done"]_dispatchVars

\* The rows that still may answer a message, or have done so.  The original of a
\* handoff that is under way is about to be given up.
Carriers(m) ==
    {e \in Inserted :
       /\ m \in body[e].covers
       /\ row[e].status \in {"queued", "running", "done"}
       /\ \A t \in Threads :
            phase[t] \in {"recovering", "charging"} => Lead(t) # e}

\* Between a handoff's end and whatever comes next, redelivery, backoff and a
\* second lost session included, one row at most carries a message on: none is
\* worked on, silently or not, by an original and by its copy
\* (session_missing's _reenqueue and _park_deferred_event).
CarriedOnce == \A m \in Ids : Cardinality(Carriers(m)) <= 1

\* A reply is withheld at the gate only by a thread that has lost a row of its
\* claim, so that the claim which took the row replies (_delivery_ownership_ok).
\* It fails where a bundle is handed off: the copy lists its rows.
SkipMeansLost ==
    [][\A t \in Threads :
         phase[t] = "answer" /\ phase'[t] = "closing"
            => \E e \in batch[t] : ~Owns(e, t)]_dispatchVars

\* When a reply was provably not delivered and its reservation is given back, the
\* event is kept for the retry that may deliver it (clear_delivery).
UnsentIsRetried ==
    \A t \in Threads :
        sender[t] = "cleared" /\ row[target[t]].status = "done"
            => ledger[target[t]].status # "none"

\* The gateway touches the table only by the operations of the queue, and the
\* `deliveries` only by the ledger's protocol, so what is proved of each alone
\* holds of the whole.
UsesQueue == QueueSpec
UsesLedger == Ledger!LedgerSpec

\* Every message is settled in the end, whatever fails and crashes on the way,
\* if the failures stop: it is done, or failed, which a user can be told.
EventuallySettled ==
    \A e \in Ids : row[e].status # "absent" ~> row[e].status \in {"done", "failed"}
=============================================================================

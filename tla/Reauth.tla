------------------------------- MODULE Reauth -------------------------------
(***************************************************************************)
(* The re-authentication round trip: an event whose brain has lost its     *)
(* session is parked on a row of auth_pending, the operator answers the    *)
(* prompt with a token, and a successful login replays what is parked.     *)
(* Every access to the table is a transaction of its own; expire_old has   *)
(* no caller, so that rows never expire.                                   *)
(*   lib/gateway/recovery/{state,dispatcher}.py, handlers/session_expired  *)
(***************************************************************************)
EXTENDS Naturals, FiniteSets

CONSTANTS
    Requests,       \* events that need the brain
    MaxPrompts,     \* bound: rows of auth_pending
    MaxOutages,     \* bound: crashes of the gateway
    SerialDispatch, \* parallel.max_concurrent = 1
    NoPrompt

ASSUME ReauthAssumption ==
    MaxPrompts \in Nat /\ NoPrompt \notin 1..MaxPrompts /\ MaxOutages \in Nat

VARIABLES
    prompt,     \* auth_pending of the operator's chat: state, and listed events
    request,    \* each event: its status, and the row it waits for
    handler,    \* where the handler of an event's failure stands
    redeemer,   \* where the redemption of a token stands
    loggedIn,
    outages

reauthVars == <<prompt, request, handler, redeemer, loggedIn, outages>>

Prompts == 1..MaxPrompts
HandlerAtRest == [at |-> "rest", row |-> NoPrompt, listed |-> {}]
RedeemerAtRest == [at |-> "rest", row |-> NoPrompt, replay |-> {}]

AuthPending == [state : {"none", "waiting", "redeeming", "done", "failed"},
                listed : SUBSET Requests, replayed : BOOLEAN]
RequestStates == [status : {"queued", "running", "parked", "failed", "done"},
                  row : Prompts \cup {NoPrompt}]
HandlerStates == [at : {"rest", "looking", "reading", "writing", "parking"},
                  row : Prompts \cup {NoPrompt}, listed : SUBSET Requests]
RedeemerStates == [at : {"rest", "redeeming", "replaying"}, row : Prompts \cup {NoPrompt},
                   replay : SUBSET Requests]

ReauthTypeOK ==
    /\ prompt \in [Prompts -> AuthPending]
    /\ request \in [Requests -> RequestStates]
    /\ handler \in [Requests -> HandlerStates]
    /\ redeemer \in RedeemerStates
    /\ loggedIn \in BOOLEAN
    /\ outages \in 0..MaxOutages

ReauthInit ==
    /\ prompt = [r \in Prompts |-> [state |-> "none", listed |-> {}, replayed |-> FALSE]]
    /\ request = [e \in Requests |-> [status |-> "queued", row |-> NoPrompt]]
    /\ handler = [e \in Requests |-> HandlerAtRest]
    /\ redeemer = RedeemerAtRest
    /\ loggedIn = FALSE
    /\ outages = 0

\* get_active_pending; the unique index allows one.
Active == {r \in Prompts : prompt[r].state \in {"waiting", "redeeming"}}

\* With one slot, the dispatch loop runs an event or redeems a token, not both.
LoopIdle ==
    SerialDispatch => /\ \A e \in Requests : request[e].status # "running"
                      /\ redeemer.at = "rest"

Becomes(e, status) == request' = [request EXCEPT ![e].status = status]

-----------------------------------------------------------------------------
\* An event runs; its brain answers, or has lost its session.  An event that is
\* replayed is claimed again after its handler has ended.
Runs(e) ==
    /\ request[e].status = "queued" /\ handler[e].at = "rest" /\ LoopIdle
    /\ Becomes(e, "running")
    /\ UNCHANGED <<prompt, handler, redeemer, loggedIn, outages>>

Answers(e) ==
    /\ request[e].status = "running" /\ handler[e].at = "rest" /\ loggedIn
    /\ Becomes(e, "done")
    /\ UNCHANGED <<prompt, handler, redeemer, loggedIn, outages>>

\* insert_pending, which the index refuses beside an active row.
InsertPending(e) ==
    /\ request[e].status = "running" /\ handler[e].at = "rest" /\ ~loggedIn
    /\ IF Active # {}
       THEN handler' = [handler EXCEPT ![e].at = "looking"] /\ UNCHANGED prompt
       ELSE \E r \in Prompts :
              /\ prompt[r].state = "none"
              /\ \A q \in 1..(r - 1) : prompt[q].state # "none"
              /\ prompt' = [prompt EXCEPT ![r].state = "waiting", ![r].listed = {e}]
              /\ handler' = [handler EXCEPT ![e] = [at |-> "parking", row |-> r, listed |-> {}]]
    /\ UNCHANGED <<request, redeemer, loggedIn, outages>>

\* The row beside which it was refused, if it is still active; else the event fails.
LookForRow(e) ==
    /\ handler[e].at = "looking"
    /\ IF Active = {}
       THEN Becomes(e, "failed") /\ handler' = [handler EXCEPT ![e] = HandlerAtRest]
       ELSE /\ \E r \in Active :
                 handler' = [handler EXCEPT ![e] = [at |-> "reading", row |-> r, listed |-> {}]]
            /\ UNCHANGED request
    /\ UNCHANGED <<prompt, redeemer, loggedIn, outages>>

\* append_pending_event: the list is read, and written with one event more.
AppendReads(e) ==
    /\ handler[e].at = "reading"
    /\ LET listed == prompt[handler[e].row].listed IN
       handler' = [handler EXCEPT ![e].at = IF e \in listed THEN "parking" ELSE "writing",
                                  ![e].listed = listed]
    /\ UNCHANGED <<prompt, request, redeemer, loggedIn, outages>>

AppendWrites(e) ==
    /\ handler[e].at = "writing"
    /\ prompt' = [prompt EXCEPT ![handler[e].row].listed = handler[e].listed \cup {e}]
    /\ handler' = [handler EXCEPT ![e].at = "parking"]
    /\ UNCHANGED <<request, redeemer, loggedIn, outages>>

\* _park_deferred_event: a row that was replayed in between is no longer running.
Parks(e) ==
    /\ handler[e].at = "parking"
    /\ request' = [request EXCEPT ![e] =
          IF @.status = "running" THEN [status |-> "parked", row |-> handler[e].row] ELSE @]
    /\ handler' = [handler EXCEPT ![e] = HandlerAtRest]
    /\ UNCHANGED <<prompt, redeemer, loggedIn, outages>>

-----------------------------------------------------------------------------
\* maybe_consume_auth_token: the rows for which the operator's token is taken.
\* Any other token is a message like every other.
Takes == {r \in Active : prompt[r].state \in {"waiting", "failed"}}

TakeToken ==
    /\ redeemer.at = "rest" /\ LoopIdle
    /\ \E r \in Takes :
          /\ prompt' = [prompt EXCEPT ![r].state = "redeeming"]
          /\ redeemer' = [at |-> "redeeming", row |-> r, replay |-> {}]
    /\ UNCHANGED <<request, handler, loggedIn, outages>>

ReplayListFirst(r) == {CHOOSE e \in prompt[r].listed : TRUE}  \* Mutation of ReplayList
ReplayList(r) == prompt[r].listed

\* _on_redeem_success: the events are those of the list as it is now.
Redeem ==
    /\ redeemer.at = "redeeming"
    /\ LET r == redeemer.row IN
       \/ /\ prompt' = [prompt EXCEPT ![r].state = "done"]
          /\ redeemer' = [at |-> "replaying", row |-> r, replay |-> ReplayList(r)]
          /\ loggedIn' = TRUE
       \/ /\ prompt' = [prompt EXCEPT ![r].state = "failed"]
          /\ redeemer' = RedeemerAtRest
          /\ UNCHANGED loggedIn
    /\ UNCHANGED <<request, handler, outages>>

\* retry_now of each event, whatever its status; then the loop is over.
Replay ==
    /\ redeemer.at = "replaying"
    /\ \/ \E e \in redeemer.replay :
             /\ request' = [request EXCEPT ![e] = [status |-> "queued", row |-> NoPrompt]]
             /\ redeemer' = [redeemer EXCEPT !.replay = @ \ {e}]
             /\ UNCHANGED prompt
       \/ /\ redeemer.replay = {}
          /\ redeemer' = RedeemerAtRest
          /\ prompt' = [prompt EXCEPT ![redeemer.row].replayed = TRUE]
          /\ UNCHANGED request
    /\ UNCHANGED <<handler, loggedIn, outages>>

-----------------------------------------------------------------------------
SessionEnds ==
    /\ loggedIn /\ loggedIn' = FALSE
    /\ UNCHANGED <<prompt, request, handler, redeemer, outages>>

\* The gateway crashes; what was running is requeued when its lease has lapsed.
Outage ==
    /\ outages < MaxOutages /\ outages' = outages + 1
    /\ request' = [e \in Requests |->
          IF request[e].status = "running" THEN [request[e] EXCEPT !.status = "queued"]
          ELSE request[e]]
    /\ handler' = [e \in Requests |-> HandlerAtRest]
    /\ redeemer' = RedeemerAtRest
    /\ UNCHANGED <<prompt, loggedIn>>

HandlerStep(e) ==
    InsertPending(e) \/ LookForRow(e) \/ AppendReads(e) \/ AppendWrites(e) \/ Parks(e)

ReauthNext ==
    \/ \E e \in Requests : Runs(e) \/ Answers(e) \/ HandlerStep(e)
    \/ TakeToken \/ Redeem \/ Replay
    \/ SessionEnds \/ Outage

ReauthSpec == ReauthInit /\ [][ReauthNext]_reauthVars

-----------------------------------------------------------------------------
(* Properties. *)

\* A login replays every event that was parked on its row, also those that came
\* after the first, crashes before the replay or not.  (session_expired.py: "so
\* all queued events get replayed on successful redemption".)  It needs the
\* serial loop: see the list that AppendReads reads.
ReplayedAll ==
    \A r \in Prompts : prompt[r].replayed =>
        \A e \in Requests : request[e].status = "parked" => request[e].row # r

\* After a failed login the operator's next token is taken: "Paste a fresh token
\* to retry." (_on_redeem_failure)
FreshTokenTaken ==
    \A r \in Prompts : prompt[r].state = "failed" /\ Active = {} => r \in Takes

=============================================================================

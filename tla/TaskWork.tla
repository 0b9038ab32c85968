------------------------------ MODULE TaskWork ------------------------------
(***************************************************************************)
(* What the gateway makes of the tasks of one conversation.  The company's *)
(* rows say that a task is assigned, updated or closed; an assigned task   *)
(* becomes the conversation's goal and goes to the brain, whose reply is   *)
(* written back to the company, and a closed one takes its goal away.      *)
(* Rows that are coalesced are taken as the latest of them.  Which rows    *)
(* are written is CompanyChannel's.                                        *)
(*   lib/gateway/{runtime,goal_cache}.py                                   *)
(*   lib/gateway/channels/company_inbox.py, lib/company/client.py          *)
(***************************************************************************)
EXTENDS Naturals, Sequences, FiniteSetsExt

CONSTANTS
    MaxDuties,      \* bound: tasks of the conversation
    MaxMemos,       \* bound: rows about them
    MaxTurns,       \* max_retries
    MaxStumbles,    \* bound: crashes and brains that raise
    Modes           \* of dispatch: a part of {"bundles", "single", "slots"}

ASSUME TaskWorkAssumption == {MaxDuties, MaxMemos, MaxTurns, MaxStumbles} \subseteq Nat

VARIABLES
    mode,       \* coalesce_same_conversation, max_concurrent_dispatches
    duty,       \* the company's status of each task
    memos,      \* the rows, in the order in which they came
    goal,       \* goal.json: the task that the conversation is anchored on, or 0
    lane,       \* what each dispatch works on
    heard,      \* history: comments that the company has of each task
    worked,     \* history: tasks whose assignment the brain was given
    stumbles

taskWorkVars == <<mode, duty, memos, goal, lane, heard, worked, stumbles>>

Duties == 1..MaxDuties
LaneAtRest == [batch |-> {}, at |-> "idle", reply |-> "none"]
TaskLanes == 1..2

TaskWorkTypeOK ==
    /\ duty \in [Duties -> {"none", "open", "over"}]
    /\ \A i \in DOMAIN memos :
          /\ memos[i].kind \in {"assigned", "updated", "closed"} /\ memos[i].of \in Duties
          /\ memos[i].tries <= MaxTurns + 1
          /\ memos[i].at = "failed" <=> memos[i].tries = MaxTurns + 1
    /\ goal \in 0..MaxDuties
    /\ \A l \in TaskLanes : \A i \in lane[l].batch : memos[i].at = "running"
    /\ lane[1].batch \cap lane[2].batch = {}
    /\ stumbles \in 0..MaxStumbles

TaskWorkInit ==
    /\ mode \in Modes
    /\ duty = [t \in Duties |-> "none"] /\ memos = <<>> /\ goal = 0
    /\ lane = [l \in TaskLanes |-> LaneAtRest]
    /\ heard = [t \in Duties |-> 0] /\ worked = {} /\ stumbles = 0

Stumble == stumbles < MaxStumbles /\ stumbles' = stumbles + 1

-----------------------------------------------------------------------------
(* The company, and the rows that the channel writes.                      *)

Written(kind, t) == \E i \in DOMAIN memos : memos[i].kind = kind /\ memos[i].of = t
WriteMemo(kind, t) ==
    /\ ~Written(kind, t) /\ Len(memos) < MaxMemos
    /\ memos' = Append(memos, [kind |-> kind, of |-> t, at |-> "queued", tries |-> 0,
                               sent |-> FALSE])

AssignDuty(t) ==
    /\ duty[t] = "none" /\ \A s \in 1..(t - 1) : duty[s] # "none"
    /\ duty' = [duty EXCEPT ![t] = "open"]
    /\ WriteMemo("assigned", t)
    /\ UNCHANGED <<mode, goal, lane, heard, worked, stumbles>>

\* Another comments on it (one time), and the company ends it.
UpdateDuty(t) ==
    /\ duty[t] = "open" /\ WriteMemo("updated", t)
    /\ UNCHANGED <<mode, duty, goal, lane, heard, worked, stumbles>>

Withdraw(t) ==
    /\ duty[t] = "open"
    /\ duty' = [duty EXCEPT ![t] = "over"]
    /\ UNCHANGED <<mode, memos, goal, lane, heard, worked, stumbles>>

TellClosed(t) ==
    /\ duty[t] = "over" /\ WriteMemo("closed", t)
    /\ UNCHANGED <<mode, duty, goal, lane, heard, worked, stumbles>>

-----------------------------------------------------------------------------
(* dispatch_once.                                                          *)

QueuedMemos == {i \in DOMAIN memos : memos[i].at = "queued"}
Bundle == IF mode = "bundles" THEN QueuedMemos ELSE {Min(QueuedMemos)}
Become(batch, at) ==
    [i \in DOMAIN memos |-> IF i \in batch THEN [memos[i] EXCEPT !.at = at] ELSE memos[i]]

\* queue.fail: once more, or this was the last time.
Charged(batch, at) ==
    [i \in DOMAIN memos |->
       IF i \notin batch THEN memos[i]
       ELSE [memos[i] EXCEPT !.tries = @ + 1,
                             !.at = IF memos[i].tries = MaxTurns THEN "failed" ELSE at]]

\* The meta of a bundle is that of its latest row (_bundle_events).
LastOf(batch) == memos[Max(batch)]

\* Mutation of Anchored: a close takes any goal away.
AnchoredClear(batch) ==
    CASE LastOf(batch).kind = "closed" -> 0
      [] LastOf(batch).kind = "assigned" -> LastOf(batch).of
      [] OTHER -> goal

\* _apply_goal_lifecycle: an assignment sets the goal, and a close takes its own away.
Anchored(batch) ==
    CASE LastOf(batch).kind = "closed" /\ goal = LastOf(batch).of -> 0
      [] LastOf(batch).kind = "assigned" -> LastOf(batch).of
      [] OTHER -> goal

\* A close is over with that, and so is what was bundled with it; the rest goes to
\* the brain.
TakeUp(l) ==
    /\ lane[l] = LaneAtRest /\ QueuedMemos # {}
    /\ l = 1 \/ (mode = "slots" /\ lane[1] # LaneAtRest)
    /\ goal' = Anchored(Bundle)
    /\ IF LastOf(Bundle).kind = "closed"
       THEN memos' = Become(Bundle, "done") /\ UNCHANGED lane
       ELSE /\ memos' = Become(Bundle, "running")
            /\ lane' = [lane EXCEPT ![l] = [LaneAtRest EXCEPT !.batch = Bundle, !.at = "brain"]]
    /\ UNCHANGED <<mode, duty, heard, worked, stumbles>>

\* _pick_slot: a row related to one that is worked on goes back for a second, and
\* so does any row when no slot is free; its goal is set by then.
SendBack ==
    /\ mode = "slots" /\ QueuedMemos # {} /\ LastOf(Bundle).kind # "closed"
    /\ \E l \in TaskLanes : lane[l] # LaneAtRest
    /\ goal' = Anchored(Bundle) /\ memos' = Become(Bundle, "waiting")
    /\ UNCHANGED <<mode, duty, lane, heard, worked, stumbles>>

Wait(i) ==
    /\ i \in DOMAIN memos /\ memos[i].at = "waiting"
    /\ memos' = Become({i}, "queued")
    /\ UNCHANGED <<mode, duty, goal, lane, heard, worked, stumbles>>

\* With the goal in its prompt.  Nothing, plain text, or the envelope that ends the
\* task (_parse_task_reply).
BrainAnswers(l) ==
    /\ lane[l].at = "brain"
    /\ \E reply \in {"nothing", "interim", "final"} :
          lane' = [lane EXCEPT ![l].at = "sending", ![l].reply = reply]
    /\ worked' = worked \cup {t \in Duties : \E i \in lane[l].batch :
                                memos[i].kind = "assigned" /\ memos[i].of = t}
    /\ UNCHANGED <<mode, duty, memos, goal, heard, stumbles>>

BrainFalls(l) ==
    /\ lane[l].at = "brain" /\ Stumble
    /\ memos' = Charged(lane[l].batch, "waiting")
    /\ lane' = [lane EXCEPT ![l] = LaneAtRest]
    /\ UNCHANGED <<mode, duty, goal, heard, worked>>

-----------------------------------------------------------------------------
(* CompanyInboxChannel.send, under the ledger of deliveries.               *)

Lead(l) == Min(lane[l].batch)

\* Mutation of Silent: what answers an update is written back.
SilentNever(l) == lane[l].reply = "nothing" \/ memos[Lead(l)].sent

\* Nothing is written back for an update, for an empty reply, and for a delivery
\* that the ledger has already.
Silent(l) ==
    LastOf(lane[l].batch).kind = "updated" \/ lane[l].reply = "nothing" \/ memos[Lead(l)].sent

\* comment_task, after which a pending task is accepted (it is as open as before);
\* complete_task, which the company refuses for a task that is over.
WriteBack(l) ==
    /\ lane[l].at = "sending"
    /\ LET t == LastOf(lane[l].batch).of
           ends == ~Silent(l) /\ lane[l].reply = "final"
       IN /\ heard' = IF ~Silent(l) /\ lane[l].reply = "interim"
                      THEN [heard EXCEPT ![t] = @ + 1] ELSE heard
          /\ IF ends /\ duty[t] = "over"
             THEN /\ memos' = Charged(lane[l].batch, "waiting")
                  /\ lane' = [lane EXCEPT ![l] = LaneAtRest]
                  /\ UNCHANGED duty
             ELSE /\ memos' = [memos EXCEPT ![Lead(l)].sent = @ \/ ~Silent(l)]
                  /\ lane' = [lane EXCEPT ![l] = [LaneAtRest EXCEPT !.batch = lane[l].batch,
                                                                !.at = "sent"]]
                  /\ duty' = IF ends THEN [duty EXCEPT ![t] = "over"] ELSE duty
    /\ UNCHANGED <<mode, goal, worked, stumbles>>

\* Nobody asks again what was sent for a row that is done.
TaskTurnEnds(l) ==
    /\ lane[l].at = "sent"
    /\ memos' = [i \in DOMAIN memos |-> IF i \in lane[l].batch
                   THEN [memos[i] EXCEPT !.at = "done", !.sent = FALSE] ELSE memos[i]]
    /\ lane' = [lane EXCEPT ![l] = LaneAtRest]
    /\ UNCHANGED <<mode, duty, goal, heard, worked, stumbles>>

\* The rows that it ran come back together, as their leases expire.
GatewayFalls ==
    /\ Stumble /\ \E l \in TaskLanes : lane[l] # LaneAtRest
    /\ memos' = Charged(lane[1].batch \cup lane[2].batch, "queued")
    /\ lane' = [l \in TaskLanes |-> LaneAtRest]
    /\ UNCHANGED <<mode, duty, goal, heard, worked>>

TaskWorkNext ==
    \/ \E t \in Duties : AssignDuty(t) \/ UpdateDuty(t) \/ Withdraw(t) \/ TellClosed(t)
    \/ \E l \in TaskLanes : TakeUp(l) \/ BrainAnswers(l) \/ BrainFalls(l) \/ WriteBack(l)
                            \/ TaskTurnEnds(l)
    \/ \E i \in 1..MaxMemos : Wait(i)
    \/ SendBack \/ GatewayFalls

TaskWorkSpec == TaskWorkInit /\ [][TaskWorkNext]_taskWorkVars

-----------------------------------------------------------------------------
(* Properties.                                                             *)

\* An assignment that is done, of a task that is still to be worked on, was given
\* to the brain: "task_assigned -> set the anchor, then dispatch normally (brain
\* works it)" (dispatch_once).
AssignedIsWorked ==
    \A i \in DOMAIN memos :
        memos[i].kind = "assigned" /\ memos[i].at = "done" /\ duty[memos[i].of] = "open"
        => memos[i].of \in worked

\* Two agents that tell each other of every comment would never end: the company
\* hears of a task at most once, for its assignment, and never for an update, with
\* retries and crashes in between (send).
NoEcho == \A t \in Duties : heard[t] <= 1

\* One row at a time and without retries, the goal is the task that was assigned
\* last, until that very task is closed (_apply_goal_lifecycle, goal_cache.clear).
TakenUp(kind) == {i \in DOMAIN memos : memos[i].kind = kind /\ memos[i].at # "queued"}
GoalFollowsTask ==
    mode = "single" /\ (\A i \in DOMAIN memos : memos[i].tries = 0) =>
        IF TakenUp("assigned") = {} THEN goal = 0
        ELSE LET t == memos[Max(TakenUp("assigned"))].of
             IN goal = IF \E i \in TakenUp("closed") : memos[i].of = t THEN 0 ELSE t

\* Rows that are coalesced keep neither of the first two.
TasksWorked == GoalFollowsTask /\ (mode # "bundles" => AssignedIsWorked /\ NoEcho)

=============================================================================

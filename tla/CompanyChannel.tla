---------------------------- MODULE CompanyChannel ----------------------------
(***************************************************************************)
(* The company-inbox channel.  It polls the tasks that the company has for *)
(* this agent, injects each new one into the queue, and says so when one   *)
(* that it injected is gone; what it has seen and injected is in memory.   *)
(* And it follows the feed of task updates with a cursor in a file: of the *)
(* updates behind the cursor it injects the latest of each task, and then  *)
(* saves the cursor; without a cursor it starts at the end of the feed.    *)
(*   lib/gateway/channels/company_inbox.py                                 *)
(***************************************************************************)
EXTENDS Naturals, Sequences, FiniteSets, FiniteSetsExt

CONSTANTS
    MaxTasks,       \* bound: tasks, numbered as they were created
    PollLimit,      \* CLOSURE_POLL_LIMIT: tasks that one answer can hold
    MaxNewPerTick,  \* max_new_per_tick
    MaxRestarts     \* bound: restarts, and polls that raise

ASSUME CompanyInboxAssumption ==
    {MaxTasks, PollLimit, MaxNewPerTick, MaxRestarts} \subseteq Nat

VARIABLES
    task,       \* what the company has made of each task
    poll,       \* the poll that is under way
    seen,       \* self._seen
    injected,   \* self._injected
    announced,  \* rows of the queue: tasks assigned, and tasks closed
    restarts

inboxVars == <<task, poll, seen, injected, announced, restarts>>

Tasks == 1..MaxTasks
PollAtRest == [at |-> "rest", todo |-> {}, present |-> {}, whole |-> FALSE]

InboxTypeOK ==
    /\ task \in [Tasks -> {"none", "open", "moved", "over", "away"}]
    /\ poll \in [at : {"rest", "injecting", "closing"}, todo : SUBSET Tasks,
                 present : SUBSET Tasks, whole : BOOLEAN]
    /\ seen \subseteq Tasks /\ injected \subseteq seen
    /\ announced \in [assigned : SUBSET Tasks, closed : SUBSET Tasks]
    /\ restarts \in 0..MaxRestarts

InboxInit ==
    /\ task = [t \in Tasks |-> "none"]
    /\ poll = PollAtRest /\ seen = {} /\ injected = {}
    /\ announced = [assigned |-> {}, closed |-> {}]
    /\ restarts = 0

\* A row is written, or the queue is at its depth cap and drops it without a word.
WriteRow(kind, t) ==
    announced' \in {announced, [announced EXCEPT ![kind] = @ \cup {t}]}

-----------------------------------------------------------------------------
(* The company. *)

\* A task may have been another agent's, and be older than those already here.
Assign(t) ==
    /\ task[t] = "none"
    /\ task' = [task EXCEPT ![t] = "open"]
    /\ UNCHANGED <<poll, seen, injected, announced, restarts>>

\* Work on a task moves it out of the statuses that are injected; at last it ends,
\* or gets another owner.
Advance(t) ==
    /\ task[t] \in {"open", "moved"}
    /\ \E s \in {"moved", "over", "away"} \ {task[t]} : task' = [task EXCEPT ![t] = s]
    /\ UNCHANGED <<poll, seen, injected, announced, restarts>>

-----------------------------------------------------------------------------
(* A poll. *)

ActiveTasks == {t \in Tasks : task[t] \in {"open", "moved"}}
Oldest(n, S) == {t \in S : Cardinality({s \in S : s < t}) < n}

\* The answer holds the oldest tasks; it is whole if it holds less than it may.
GetInbox ==
    /\ poll.at = "rest"
    /\ LET answer == Oldest(PollLimit, ActiveTasks) IN
       poll' = [at |-> "injecting", present |-> answer,
                whole |-> Cardinality(answer) < PollLimit,
                todo |-> Oldest(MaxNewPerTick, {t \in answer : task[t] = "open"} \ seen)]
    /\ UNCHANGED <<task, seen, injected, announced, restarts>>

Inject ==
    /\ poll.at = "injecting" /\ poll.todo # {}
    /\ LET t == Min(poll.todo) IN
       /\ WriteRow("assigned", t)
       /\ seen' = seen \cup {t} /\ injected' = injected \cup {t}
       /\ poll' = [poll EXCEPT !.todo = @ \ {t}]
    /\ UNCHANGED <<task, restarts>>

\* Absence from an answer that is not whole says nothing.
GoneAlways == injected \ poll.present    \* Mutation of Gone
Gone == IF poll.whole THEN injected \ poll.present ELSE {}

DetectClosures ==
    /\ poll.at = "injecting" /\ poll.todo = {}
    /\ poll' = [poll EXCEPT !.at = "closing", !.todo = Gone]
    /\ UNCHANGED <<task, seen, injected, announced, restarts>>

\* The task is forgotten before its row is written.
Close ==
    /\ poll.at = "closing"
    /\ \E t \in poll.todo :
          /\ injected' = injected \ {t} /\ seen' = seen \ {t}
          /\ WriteRow("closed", t)
          /\ poll' = [poll EXCEPT !.todo = @ \ {t}]
    /\ UNCHANGED <<task, restarts>>

InboxPolled ==
    /\ poll.at = "closing" /\ poll.todo = {}
    /\ poll' = PollAtRest
    /\ UNCHANGED <<task, seen, injected, announced, restarts>>

\* The queue raises, and the rest of the poll is off: a task that was to be injected
\* is not seen, one that was to be closed is forgotten.
PollRaises ==
    /\ poll.todo # {} /\ restarts < MaxRestarts /\ restarts' = restarts + 1
    /\ poll' = PollAtRest
    /\ IF poll.at = "closing"
       THEN \E t \in poll.todo : injected' = injected \ {t} /\ seen' = seen \ {t}
       ELSE UNCHANGED <<seen, injected>>
    /\ UNCHANGED <<task, announced>>

InboxRestarts ==
    /\ restarts < MaxRestarts /\ restarts' = restarts + 1
    /\ poll' = PollAtRest /\ seen' = {} /\ injected' = {}
    /\ UNCHANGED <<task, announced>>

InboxNext ==
    \/ \E t \in Tasks : Assign(t) \/ Advance(t)
    \/ GetInbox \/ Inject \/ DetectClosures \/ Close \/ InboxPolled
    \/ PollRaises \/ InboxRestarts

InboxSpec == InboxInit /\ [][InboxNext]_inboxVars

-----------------------------------------------------------------------------
(* Properties. *)

\* A task that is reported closed is over, or belongs to another agent: "a false
\* close would prematurely clear a goal" (_detect_closures).
ClosedMeansOver == \A t \in announced.closed : task[t] \in {"over", "away"}

-----------------------------------------------------------------------------
(* The feed. *)

CONSTANTS
    FeedTasks,
    MaxNotes,       \* bound: updates in the feed
    MaxBreaks       \* bound: restarts, and polls that raise

ASSUME CompanyFeedAssumption == MaxNotes \in Nat /\ MaxBreaks \in Nat

VARIABLES
    feed,       \* the task of each update
    reader,     \* the poll of the feed that is under way
    relayed,    \* updates that were handed to the queue
    cursor,     \* self._updates_cursor
    cursorFile, \* state/company/task_updates_cursor
    origin,     \* updates up to this one were older than a start without cursor
    breaks

feedVars == <<feed, reader, relayed, cursor, cursorFile, origin, breaks>>

NoCursor == MaxNotes + 1        \* None: no file, or one that cannot be read
ReaderAtRest == [at |-> "rest", todo |-> {}, upto |-> 0]

FeedTypeOK ==
    /\ feed \in UNION {[1..n -> FeedTasks] : n \in 0..MaxNotes}
    /\ reader \in [at : {"rest", "injecting", "saving"}, todo : SUBSET (1..MaxNotes),
                   upto : 0..MaxNotes]
    /\ relayed \subseteq 1..MaxNotes
    /\ {cursor, cursorFile} \subseteq 0..NoCursor
    /\ origin \in 0..MaxNotes /\ breaks \in 0..MaxBreaks

FeedInit ==
    /\ feed = <<>> /\ reader = ReaderAtRest /\ relayed = {}
    /\ cursor = NoCursor /\ cursorFile = NoCursor /\ origin = 0 /\ breaks = 0

\* Of the updates that an answer holds, those that no later one of it replaces.
LatestOfAll(n, upto) == n = upto     \* Mutation of Latest
Latest(n, upto) == \A k \in (n + 1)..upto : feed[k] # feed[n]

-----------------------------------------------------------------------------
Publish ==
    /\ Len(feed) < MaxNotes
    /\ \E t \in FeedTasks : feed' = Append(feed, t)
    /\ UNCHANGED <<reader, relayed, cursor, cursorFile, origin, breaks>>

\* list_task_updates, as many as one answer holds; the first time only its end.
ReadFeed ==
    /\ reader.at = "rest"
    /\ IF cursor = NoCursor
       THEN /\ cursor' = Len(feed) /\ origin' = Len(feed)
            /\ reader' = [ReaderAtRest EXCEPT !.at = "saving", !.upto = Len(feed)]
       ELSE /\ \E upto \in (cursor + 1)..Len(feed) :
                 reader' = [at |-> "injecting", upto |-> upto,
                            todo |-> {n \in (cursor + 1)..upto : Latest(n, upto)}]
            /\ UNCHANGED <<cursor, origin>>
    /\ UNCHANGED <<feed, relayed, cursorFile, breaks>>

InjectUpdate ==
    /\ reader.at = "injecting"
    /\ \E n \in reader.todo :
          /\ relayed' = relayed \cup {n}
          /\ reader' = [reader EXCEPT !.todo = @ \ {n}]
    /\ UNCHANGED <<feed, cursor, cursorFile, origin, breaks>>

AdvanceCursor ==
    /\ reader.at = "injecting" /\ reader.todo = {}
    /\ cursor' = reader.upto
    /\ reader' = [reader EXCEPT !.at = "saving"]
    /\ UNCHANGED <<feed, relayed, cursorFile, origin, breaks>>

\* The file, whose write may fail without a word.
SaveCursor ==
    /\ reader.at = "saving"
    /\ cursorFile' \in {reader.upto, cursorFile}
    /\ reader' = ReaderAtRest
    /\ UNCHANGED <<feed, relayed, cursor, origin, breaks>>

\* The queue raises: the cursor stays, and the updates are injected again.
UpdateRaises ==
    /\ reader.at = "injecting" /\ reader.todo # {}
    /\ breaks < MaxBreaks /\ breaks' = breaks + 1
    /\ reader' = ReaderAtRest
    /\ UNCHANGED <<feed, relayed, cursor, cursorFile, origin>>

\* A restart, perhaps while the file is written, which is not atomic.
FeedRestarts ==
    /\ breaks < MaxBreaks /\ breaks' = breaks + 1
    /\ cursorFile' \in {cursorFile} \cup IF reader.at = "saving" THEN {NoCursor} ELSE {}
    /\ cursor' = cursorFile'
    /\ reader' = ReaderAtRest
    /\ UNCHANGED <<feed, relayed, origin>>

FeedNext ==
    \/ Publish \/ ReadFeed \/ InjectUpdate \/ AdvanceCursor \/ SaveCursor
    \/ UpdateRaises \/ FeedRestarts

FeedSpec == FeedInit /\ [][FeedNext]_feedVars

-----------------------------------------------------------------------------
(* Properties. *)

\* Of every task, the last update that the cursor has passed was injected, or was
\* there when the channel last started without a cursor.
UpdatesTold ==
    cursor # NoCursor =>
        \A n \in (origin + 1)..cursor :
            n \in relayed \/ \E k \in (n + 1)..cursor : feed[k] = feed[n]

=============================================================================

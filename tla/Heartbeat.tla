------------------------------ MODULE Heartbeat ------------------------------
(***************************************************************************)
(* A heartbeat task that reports changes: cron starts it, the operator may *)
(* start it next to cron, for real or dry.  A run fetches, compares a hash *)
(* with the last one, asks a brain, and tells the destinations what the    *)
(* brain answered, unless the brain has sent it by itself.                 *)
(*   lib/heartbeat/runner.py, lib/heartbeat/lib/send_telegram.py,          *)
(*   lib/heartbeat/adapters/, bin/jc-heartbeat                             *)
(***************************************************************************)
EXTENDS Naturals, FiniteSets

CONSTANTS
    TaskRuns,       \* runs of the task that may be under way at a time
    NoTaskRun,
    Destinations,
    MaxVersions,    \* bound: versions of what is fetched
    MaxLostMarks    \* bound: push markers that could not be written

ASSUME HeartbeatAssumption ==
    NoTaskRun \notin TaskRuns /\ MaxVersions \in Nat \ {0} /\ MaxLostMarks \in Nat

VARIABLES
    version,    \* what a fetch would find now
    lastHash,   \* state/<task>.last_hash
    taskLock,   \* who holds state/<task>.lock
    session,    \* state/<task>.session is there
    taskRun,    \* run -> where it stands; what it fetched; what is known of a push
    told,       \* destination -> version -> messages
    lostMarks

heartbeatVars == <<version, lastHash, taskLock, session, taskRun, told, lostMarks>>

Versions == 1..MaxVersions
NoVersion == 0
NotRunning == [at |-> "idle", bundle |-> NoVersion, dry |-> FALSE, pushed |-> FALSE,
               marked |-> FALSE, left |-> {}]

HeartbeatTypeOK ==
    /\ version \in Versions /\ lastHash \in Versions \cup {NoVersion}
    /\ taskLock \in TaskRuns \cup {NoTaskRun} /\ session \in BOOLEAN
    /\ taskRun \in [TaskRuns ->
           [at : {"idle", "locked", "fetched", "asking", "answered", "sending"},
            bundle : Versions \cup {NoVersion}, dry : BOOLEAN, pushed : BOOLEAN,
            marked : BOOLEAN, left : SUBSET Destinations]]
    /\ told \in [Destinations -> [Versions -> 0..(1 + MaxLostMarks)]]
    /\ lostMarks \in 0..MaxLostMarks

HeartbeatInit ==
    /\ version = 1 /\ lastHash = NoVersion
    /\ taskLock = NoTaskRun /\ session = FALSE
    /\ taskRun = [r \in TaskRuns |-> NotRunning]
    /\ told = [d \in Destinations |-> [v \in Versions |-> 0]]
    /\ lostMarks = 0

Stands(r, at) == taskRun[r].at = at
Set(r, new) == taskRun' = [taskRun EXCEPT ![r] = new]

SourceChanges ==
    /\ version < MaxVersions /\ version' = version + 1
    /\ UNCHANGED <<lastHash, taskLock, session, taskRun, told, lostMarks>>

-----------------------------------------------------------------------------
\* FileLock.acquire; a run that finds it held is skipped.
BeginTaskUnlocked(r) ==  \* Mutation of BeginTask
    /\ Stands(r, "idle")
    /\ \E dry \in BOOLEAN : Set(r, [NotRunning EXCEPT !.at = "locked", !.dry = dry])
    /\ UNCHANGED <<version, lastHash, taskLock, session, told, lostMarks>>

BeginTask(r) ==
    /\ Stands(r, "idle") /\ taskLock = NoTaskRun
    /\ taskLock' = r
    /\ \E dry \in BOOLEAN : Set(r, [NotRunning EXCEPT !.at = "locked", !.dry = dry])
    /\ UNCHANGED <<version, lastHash, session, told, lostMarks>>

\* run_pre_fetch: the bundle, or a failure or a timeout.
PreFetch(r) ==
    /\ Stands(r, "locked")
    /\ Set(r, [taskRun[r] EXCEPT !.at = "fetched", !.bundle = version])
    /\ UNCHANGED <<version, lastHash, taskLock, session, told, lostMarks>>

\* The lock goes with the run, however it ends.
LetGo == IF \E r \in TaskRuns : taskLock = r /\ taskRun'[r].at = "idle"
            THEN taskLock' = NoTaskRun ELSE UNCHANGED taskLock

\* only_if_delta: no change, and nothing to do; else the hash is saved at once,
\* in a dry run too, and the brain is asked.
Delta(r) ==
    /\ Stands(r, "fetched")
    /\ IF taskRun[r].bundle = lastHash
       THEN Set(r, NotRunning) /\ UNCHANGED lastHash
       ELSE Set(r, [taskRun[r] EXCEPT !.at = "asking"]) /\ lastHash' = taskRun[r].bundle
    /\ LetGo
    /\ UNCHANGED <<version, session, told, lostMarks>>

\* The brain sends by itself, with send_telegram.py, which leaves a marker.
Push(r, d) ==
    /\ Stands(r, "asking") /\ ~taskRun[r].pushed
    /\ told' = [told EXCEPT ![d][taskRun[r].bundle] = @ + 1]
    /\ \/ Set(r, [taskRun[r] EXCEPT !.pushed = TRUE, !.marked = TRUE]) /\ UNCHANGED lostMarks
       \/ /\ lostMarks < MaxLostMarks /\ lostMarks' = lostMarks + 1
          /\ Set(r, [taskRun[r] EXCEPT !.pushed = TRUE])
    /\ UNCHANGED <<version, lastHash, taskLock, session>>

\* The adapter ends: its session is kept for the next run.
AdapterAnswers(r) ==
    /\ Stands(r, "asking")
    /\ Set(r, [taskRun[r] EXCEPT !.at = "answered"])
    /\ session' \in {session, TRUE}
    /\ UNCHANGED <<version, lastHash, taskLock, told, lostMarks>>

\* The envelope may say that the message was pushed; the marker says it too; an
\* empty message and a dry run tell nobody.
DeliverAnswerUnmarked(r) ==  \* Mutation of DeliverAnswer
    /\ Stands(r, "answered")
    /\ \/ Set(r, NotRunning)
       \/ /\ ~taskRun[r].dry
          /\ Set(r, [taskRun[r] EXCEPT !.at = "sending", !.left = Destinations])
    /\ LetGo
    /\ UNCHANGED <<version, lastHash, session, told, lostMarks>>

DeliverAnswer(r) ==
    /\ Stands(r, "answered")
    /\ \/ Set(r, NotRunning)
       \/ /\ ~taskRun[r].marked /\ ~taskRun[r].dry
          /\ Set(r, [taskRun[r] EXCEPT !.at = "sending", !.left = Destinations])
    /\ LetGo
    /\ UNCHANGED <<version, lastHash, session, told, lostMarks>>

\* One destination after the other; one that fails is logged and left.
SendTo(r, d) ==
    /\ Stands(r, "sending") /\ d \in taskRun[r].left
    /\ told' \in {told, [told EXCEPT ![d][taskRun[r].bundle] = @ + 1]}
    /\ Set(r, IF taskRun[r].left = {d} THEN NotRunning
                   ELSE [taskRun[r] EXCEPT !.left = @ \ {d}])
    /\ LetGo
    /\ UNCHANGED <<version, lastHash, session, lostMarks>>

\* A fetch, an adapter or a destination that fails or times out, or a run that
\* is killed.
TaskFails(r) ==
    /\ ~Stands(r, "idle")
    /\ Set(r, NotRunning) /\ LetGo
    /\ UNCHANGED <<version, lastHash, session, told, lostMarks>>

HeartbeatNext ==
    \/ SourceChanges
    \/ \E r \in TaskRuns :
          \/ BeginTask(r) \/ PreFetch(r) \/ Delta(r) \/ AdapterAnswers(r) \/ DeliverAnswer(r)
          \/ TaskFails(r)
          \/ \E d \in Destinations : Push(r, d) \/ SendTo(r, d)

HeartbeatSpec == HeartbeatInit /\ [][HeartbeatNext]_heartbeatVars

-----------------------------------------------------------------------------
(* Properties. *)

\* A change is told at most once to a destination, by the brain or by the runner,
\* with two runs at a time, dry runs, failures and kills anywhere: only a push
\* marker that could not be written costs a second message.
\* (run_task; FileLock; the hash before the brain; push_marker_sent)
ChangeToldOnce ==
    \A d \in Destinations, v \in Versions : told[d][v] <= 1 + lostMarks

=============================================================================

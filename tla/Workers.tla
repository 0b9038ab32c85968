------------------------------ MODULE Workers ------------------------------
(***************************************************************************)
(* Background workers: the `workers` table, the detached runner of each    *)
(* row, and the commands that write the same rows from other processes,    *)
(* cancel, reconcile and gc.  No write compares the status it replaces.    *)
(*   bin/jc-workers, lib/workers/db.py, lib/gateway/channels/jc_events.py  *)
(***************************************************************************)
EXTENDS FiniteSets

CONSTANT Workers

VARIABLES
    worker,     \* the table: status, and whether a pid is recorded
    spawner,    \* where `spawn` stands: none, created, forked, ended
    runner,     \* where the detached runner stands
    adapter,    \* the adapter process, in a session of its own: none, live, ended
    verdict,    \* what the runner will write: a terminal status
    fresh,      \* workers whose row is younger than ten seconds
    canceller,  \* where a `cancel` of the worker stands, with the pid it read
    reaper,     \* what a reconcile under way has read of the worker
    notice,     \* the event file of a worker and status: none, torn, whole, bad
    told        \* the statuses of a worker that reached the gateway's queue

workersVars == <<worker, spawner, runner, adapter, verdict, fresh, canceller,
                 reaper, notice, told>>

Terminal == {"done", "failed", "cancelled", "need_input"}
Outcomes == {"done", "failed", "need_input"}
Live == {"queued", "running"}

Row == [status : Live \cup Terminal \cup {"absent"}, pid : BOOLEAN]

\* A runner that has its process: reconcile's signal 0 finds it.
Alive == {"forked", "working", "ended", "marked", "telling"}

WorkersTypeOK ==
    /\ worker \in [Workers -> Row]
    /\ spawner \in [Workers -> {"none", "created", "forked", "ended"}]
    /\ runner \in [Workers -> Alive \cup {"none", "gone"}]
    /\ adapter \in [Workers -> {"none", "live", "ended"}]
    /\ verdict \in [Workers -> Outcomes]
    /\ fresh \subseteq Workers
    /\ canceller \in [Workers -> {"none", "sawPid", "sawNull", "killed", "marked", "telling"}]
    /\ reaper \in [Workers -> {"none", "sawPid", "sawNull", "orphan"}]
    /\ notice \in [Workers -> [Terminal -> {"none", "torn", "whole", "bad"}]]
    /\ told \in [Workers -> SUBSET Terminal]

WorkersInit ==
    /\ worker = [w \in Workers |-> [status |-> "absent", pid |-> FALSE]]
    /\ spawner = [w \in Workers |-> "none"]
    /\ runner = [w \in Workers |-> "none"]
    /\ adapter = [w \in Workers |-> "none"]
    /\ verdict = [w \in Workers |-> "failed"]
    /\ fresh = {}
    /\ canceller = [w \in Workers |-> "none"]
    /\ reaper = [w \in Workers |-> "none"]
    /\ notice = [w \in Workers |-> [s \in Terminal |-> "none"]]
    /\ told = [w \in Workers |-> {}]

-----------------------------------------------------------------------------
\* spawn: create the row, fork twice, record the runner's pid.  These are
\* three transactions of one short-lived process, which may die in between.

NewRow == [status |-> "queued", pid |-> FALSE]

Create(w) ==
    /\ spawner[w] = "none"
    /\ spawner' = [spawner EXCEPT ![w] = "created"]
    /\ worker' = [worker EXCEPT ![w] = NewRow]
    /\ fresh' = fresh \cup {w}
    /\ UNCHANGED <<runner, adapter, verdict, canceller, reaper, notice, told>>

DoubleFork(w) ==
    /\ spawner[w] = "created"
    /\ spawner' = [spawner EXCEPT ![w] = "forked"]
    /\ runner' = [runner EXCEPT ![w] = "forked"]
    /\ UNCHANGED <<worker, adapter, verdict, fresh, canceller, reaper, notice, told>>

RecordPid(w) ==
    /\ spawner[w] = "forked"
    /\ spawner' = [spawner EXCEPT ![w] = "ended"]
    /\ worker' = [worker EXCEPT ![w].pid = TRUE]
    /\ UNCHANGED <<runner, adapter, verdict, fresh, canceller, reaper, notice, told>>

SpawnDies(w) ==
    /\ spawner[w] \in {"created", "forked"}
    /\ spawner' = [spawner EXCEPT ![w] = "ended"]
    /\ UNCHANGED <<worker, runner, adapter, verdict, fresh, canceller, reaper, notice, told>>

-----------------------------------------------------------------------------
\* The runner.

\* mark_terminal, whoever calls it: no comparison, and the pid is cleared.
MarkTerminal(w, s) ==
    worker' = [worker EXCEPT ![w] =
        IF @.status = "absent" THEN @ ELSE [status |-> s, pid |-> FALSE]]

\* cmd_run up to the start of the adapter; without an adapter it fails at once.
StartRun(w) ==
    /\ runner[w] = "forked"
    /\ \/ /\ worker' = [worker EXCEPT ![w] = [status |-> "running", pid |-> TRUE]]
          /\ runner' = [runner EXCEPT ![w] = "working"]
          /\ adapter' = [adapter EXCEPT ![w] = "live"]
       \/ /\ MarkTerminal(w, "failed")
          /\ runner' = [runner EXCEPT ![w] = "marked"]
          /\ UNCHANGED adapter
    /\ UNCHANGED <<spawner, verdict, fresh, canceller, reaper, notice, told>>

\* The adapter ends by itself, or on the runner's timeout.
AdapterEnds(w) ==
    /\ adapter[w] = "live"
    /\ adapter' = [adapter EXCEPT ![w] = "ended"]
    /\ IF runner[w] = "working"
       THEN /\ runner' = [runner EXCEPT ![w] = "ended"]
            /\ \E s \in Outcomes : verdict' = [verdict EXCEPT ![w] = s]
       ELSE UNCHANGED <<runner, verdict>>
    /\ UNCHANGED <<worker, spawner, fresh, canceller, reaper, notice, told>>

Conclude(w) ==
    /\ runner[w] = "ended"
    /\ runner' = [runner EXCEPT ![w] = "marked"]
    /\ MarkTerminal(w, verdict[w])
    /\ UNCHANGED <<spawner, adapter, verdict, fresh, canceller, reaper, notice, told>>

\* _send_notification reads the row again; the event file is opened, which
\* truncates it, and is written a moment later.  A worker that has sent its own
\* message (the push marker) is not announced.
OpenNotice(w) ==
    notice' = [notice EXCEPT ![w][worker[w].status] = "torn"]
CloseNotice(w) ==
    notice' = [notice EXCEPT ![w] = [s \in Terminal |->
        IF @[s] = "torn" THEN "whole" ELSE @[s]]]

RunnerNotifies(w) ==
    /\ runner[w] = "marked"
    /\ \/ /\ worker[w].status \in Terminal
          /\ OpenNotice(w)
          /\ runner' = [runner EXCEPT ![w] = "telling"]
          /\ UNCHANGED told
       \/ /\ worker[w].status \in {"done", "need_input"}
          /\ told' = [told EXCEPT ![w] = @ \cup {worker[w].status}]
          /\ runner' = [runner EXCEPT ![w] = "gone"]
          /\ UNCHANGED notice
       \/ /\ worker[w].status \notin Terminal
          /\ runner' = [runner EXCEPT ![w] = "gone"]
          /\ UNCHANGED <<notice, told>>
    /\ UNCHANGED <<worker, spawner, adapter, verdict, fresh, canceller, reaper>>

RunnerWritesNotice(w) ==
    /\ runner[w] = "telling"
    /\ runner' = [runner EXCEPT ![w] = "gone"]
    /\ CloseNotice(w)
    /\ UNCHANGED <<worker, spawner, adapter, verdict, fresh, canceller, reaper, told>>

\* The runner is killed, or the machine restarts.
RunnerDies(w) ==
    /\ runner[w] \in Alive
    /\ runner' = [runner EXCEPT ![w] = "gone"]
    /\ UNCHANGED <<worker, spawner, adapter, verdict, fresh, canceller, reaper, notice, told>>

-----------------------------------------------------------------------------
\* cancel: read the row, kill the runner's process group (the adapter has its
\* own), then mark the row.

CancelReads(w) ==
    /\ canceller[w] = "none"
    /\ worker[w].status \in Live
    /\ canceller' = [canceller EXCEPT ![w] = IF worker[w].pid THEN "sawPid" ELSE "sawNull"]
    /\ UNCHANGED <<worker, spawner, runner, adapter, verdict, fresh, reaper, notice, told>>

CancelKills(w) ==
    /\ canceller[w] = "sawPid"
    /\ canceller' = [canceller EXCEPT ![w] = "killed"]
    /\ runner' = [runner EXCEPT ![w] = "gone"]
    /\ UNCHANGED <<worker, spawner, adapter, verdict, fresh, reaper, notice, told>>

CancelMarks(w) ==
    /\ canceller[w] \in {"killed", "sawNull"}
    /\ canceller' = [canceller EXCEPT ![w] = "marked"]
    /\ MarkTerminal(w, "cancelled")
    /\ UNCHANGED <<spawner, runner, adapter, verdict, fresh, reaper, notice, told>>

CancelNotifies(w) ==
    \/ /\ canceller[w] = "marked"
       /\ IF worker[w].status \in Terminal
          THEN OpenNotice(w) /\ canceller' = [canceller EXCEPT ![w] = "telling"]
          ELSE UNCHANGED notice /\ canceller' = [canceller EXCEPT ![w] = "none"]
       /\ UNCHANGED <<worker, spawner, runner, adapter, verdict, fresh, reaper, told>>
    \/ /\ canceller[w] = "telling"
       /\ canceller' = [canceller EXCEPT ![w] = "none"]
       /\ CloseNotice(w)
       /\ UNCHANGED <<worker, spawner, runner, adapter, verdict, fresh, reaper, told>>

-----------------------------------------------------------------------------
\* reconcile: one SELECT, then a signal 0 for each row, then the writes.

DoubtfulAnyAge ==  \* Mutation of Doubtful
    {w \in Workers : worker[w].status \in Live \cup {"need_input"}}

Doubtful == {w \in Workers :
    /\ worker[w].status \in Live \cup {"need_input"}
    /\ w \notin fresh}

ReconcileReads ==
    /\ \A w \in Workers : reaper[w] = "none"
    /\ Doubtful # {}
    /\ reaper' = [w \in Workers |->
          IF w \notin Doubtful THEN "none"
          ELSE IF worker[w].pid THEN "sawPid" ELSE "sawNull"]
    /\ UNCHANGED <<worker, spawner, runner, adapter, verdict, fresh, canceller, notice, told>>

OrphanedWithPid(w) == reaper[w] = "sawPid" /\ runner[w] \notin Alive  \* Mutation of Orphaned

Orphaned(w) ==
    \/ reaper[w] = "sawNull"
    \/ reaper[w] = "sawPid" /\ runner[w] \notin Alive

ReconcileChecks(w) ==
    /\ reaper[w] \in {"sawPid", "sawNull"}
    /\ reaper' = [reaper EXCEPT ![w] = IF Orphaned(w) THEN "orphan" ELSE "none"]
    /\ UNCHANGED <<worker, spawner, runner, adapter, verdict, fresh, canceller, notice, told>>

ReconcileMarks(w) ==
    /\ reaper[w] = "orphan"
    /\ \A v \in Workers : reaper[v] \in {"none", "orphan"}
    /\ reaper' = [reaper EXCEPT ![w] = "none"]
    /\ MarkTerminal(w, "failed")
    /\ UNCHANGED <<spawner, runner, adapter, verdict, fresh, canceller, notice, told>>

\* Ten seconds pass; a spawn and the start of its runner take less than that.
GrowsOld(w) ==
    /\ w \in fresh
    /\ spawner[w] = "ended"
    /\ runner[w] # "forked"
    /\ fresh' = fresh \ {w}
    /\ UNCHANGED <<worker, spawner, runner, adapter, verdict, canceller, reaper, notice, told>>

\* gc, days later: nobody holds on to the row any more.  A need_input row stays.
CollectGarbage(w) ==
    /\ worker[w].status \in {"done", "failed", "cancelled"}
    /\ w \notin fresh /\ runner[w] \in {"none", "gone"}
    /\ canceller[w] = "none" /\ reaper[w] = "none"
    /\ worker' = [worker EXCEPT ![w] = [status |-> "absent", pid |-> FALSE]]
    /\ UNCHANGED <<spawner, runner, adapter, verdict, fresh, canceller, reaper, notice, told>>

\* The jc-events channel reads every file it finds: a whole one is enqueued and
\* removed, a torn one is renamed and never read again.
ConsumeNotice(w) ==
    \E s \in Terminal :
        /\ notice[w][s] \in {"torn", "whole"}
        /\ IF notice[w][s] = "whole"
           THEN /\ told' = [told EXCEPT ![w] = @ \cup {s}]
                /\ notice' = [notice EXCEPT ![w][s] = "none"]
           ELSE /\ notice' = [notice EXCEPT ![w][s] = "bad"]
                /\ UNCHANGED told
        /\ UNCHANGED <<worker, spawner, runner, adapter, verdict, fresh, canceller, reaper>>

-----------------------------------------------------------------------------
RunnerStep(w) ==
    StartRun(w) \/ AdapterEnds(w) \/ Conclude(w) \/ RunnerNotifies(w) \/ RunnerWritesNotice(w)
ReconcileStep == ReconcileReads \/ \E w \in Workers : ReconcileChecks(w) \/ ReconcileMarks(w)

WorkersNext ==
    \/ \E w \in Workers :
          \/ Create(w) \/ DoubleFork(w) \/ RecordPid(w) \/ SpawnDies(w)
          \/ RunnerStep(w) \/ RunnerDies(w)
          \/ CancelReads(w) \/ CancelKills(w) \/ CancelMarks(w) \/ CancelNotifies(w)
          \/ GrowsOld(w) \/ CollectGarbage(w) \/ ConsumeNotice(w)
    \/ ReconcileStep

WorkersSpec == WorkersInit /\ [][WorkersNext]_workersVars

\* A runner runs on, adapters end (by themselves or on their timeout), time
\* passes, and reconcile is run again and again, at every start of a session.
WorkersFair ==
    /\ \A w \in Workers :
          /\ WF_workersVars(DoubleFork(w) \/ RecordPid(w))
          /\ WF_workersVars(RunnerStep(w))
          /\ WF_workersVars(GrowsOld(w))
    /\ WF_workersVars(ReconcileStep)

-----------------------------------------------------------------------------
(* Properties. *)

\* Reconcile declares no worker failed whose runner is starting or working:
\* not in the window in which the row has no pid yet, and not on an old pid.
\* (cmd_reconcile's ten seconds, and the pid that spawn and mark_running record.)
LiveRunnerNotReaped ==
    [][\A w \in Workers :
          reaper[w] = "orphan" /\ reaper'[w] = "none"
          => runner[w] \notin {"forked", "working"}]_workersVars

\* Whoever dies, a worker ends: no row stays queued or running for ever.
WorkersSettle ==
    \A w \in Workers : worker[w].status \in Live ~> worker[w].status \notin Live

\* A terminal status is final; gc may remove the row.
TerminalIsFinal ==
    [][\A w \in Workers : worker[w].status \in Terminal
          => worker'[w].status \in {worker[w].status, "absent"}]_workersVars

=============================================================================

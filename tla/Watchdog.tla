------------------------------ MODULE Watchdog ------------------------------
(***************************************************************************)
(* The watchdog of one child, the gateway daemon: a tick that cron starts  *)
(* every minute, and `jc watchdog reload` and `reset` beside it.  A tick   *)
(* loads the state file when it is constructed, before it asks for the     *)
(* lock, and saves what it has at its end; reset takes no lock.            *)
(*   lib/watchdog/{supervisor,policy,child,health,cli}.py                  *)
(***************************************************************************)
EXTENDS GatewayDaemon, Sequences

CONSTANTS
    MaxInWindow,    \* restart attempts allowed within the window
    Window,         \* its length, in minutes
    Backoff,        \* minutes to wait, by number of consecutive failures
    MaxDisturbed    \* bound: reloads, resets, and ticks that die

ASSUME WatchdogAssumption ==
    MaxInWindow \in Nat /\ Window \in Nat /\ MaxDisturbed \in Nat /\ Backoff \in Seq(Nat)

VARIABLES
    book,       \* state.json of the child: failures, attempts, alert
    tick,       \* the tick of cron, and the one of `reload`: step, and its copy
    restarts,   \* history: the `start` commands of the window, since the last reset
    disturbed   \* how many reloads, resets and deaths there were

watchdogVars == <<daemonVars, book, tick, restarts, disturbed>>

Ticks == {"cron", "reload"}
\* A `start` command: how many minutes ago, and what tells those of one minute apart:
\* 0 for the one of cron's tick, else the number of the reload.
Attempts == [age : 0..Window, of : 0..MaxDisturbed]
Book == [failures : 0..Len(Backoff), attempts : SUBSET Attempts, alert : BOOLEAN]
CleanBook == [failures |-> 0, attempts |-> {}, alert |-> FALSE]
Waiting == [at |-> "idle", book |-> CleanBook]

WatchdogTypeOK ==
    /\ DaemonTypeOK
    /\ book \in Book
    /\ tick \in [Ticks -> [at : {"idle", "done", "loaded", "locked", "starting", "saving"},
                           book : Book]]
    /\ restarts \subseteq Attempts
    /\ disturbed \in 0..MaxDisturbed

WatchdogInit ==
    /\ DaemonInit
    /\ book = CleanBook
    /\ tick = [t \in Ticks |-> Waiting]
    /\ restarts = {}
    /\ disturbed = 0

\* trim_window, a minute later: what is older than the window is dropped.
OlderKept(attempts) ==  \* Mutation of Older
    {[a EXCEPT !.age = @ + 1] : a \in attempts}

Older(attempts) ==
    {[age |-> a.age + 1, of |-> a.of] : a \in {b \in attempts : b.age < Window}}

Disturb == disturbed < MaxDisturbed /\ disturbed' = disturbed + 1

-----------------------------------------------------------------------------
\* Supervisor.__init__: the state is read.  Cron's tick runs once a minute.
Load(t) ==
    /\ tick[t].at = "idle"
    /\ tick' = [tick EXCEPT ![t] = [at |-> "loaded", book |-> book]]
    /\ IF t = "cron" THEN UNCHANGED disturbed ELSE Disturb
    /\ UNCHANGED <<daemonVars, book, restarts>>

Holders == {t \in Ticks : tick[t].at \in {"locked", "starting", "saving"}}

\* acquire_lock, which does not wait: without the lock the tick is skipped.
Lock(t) ==
    /\ tick[t].at = "loaded"
    /\ tick' = [tick EXCEPT ![t].at = IF Holders = {} THEN "locked" ELSE "done"]
    /\ UNCHANGED <<daemonVars, book, restarts, disturbed>>

\* health.check: the pidfile's process, and a fresh heartbeat; within the
\* grace after a start, the heartbeat is not looked at.
Graced(b) == \E a \in b.attempts : a.age = 0
Healthy(b) == \E p \in Canonical : proc[p] \in {"serving", "leaving"} \/ Graced(b)
Unhealthy(b) == \A p \in Canonical : proc[p] \in {"wedged", "forked"}

MayRestartAtLimit(b) == Cardinality(b.attempts) <= MaxInWindow  \* Mutation of MayRestart

MayRestart(b) == Cardinality(b.attempts) < MaxInWindow

AttemptDueInTable(b) ==  \* Mutation of AttemptDue
    \/ b.failures = 0
    \/ b.failures < Len(Backoff) /\ \A a \in b.attempts : a.age >= Backoff[b.failures]

AttemptDue(b) == b.failures = 0 \/ \A a \in b.attempts : a.age >= Backoff[b.failures]

\* _supervise_one, up to the start command.
Supervise(t) ==
    LET b == tick[t].book
        Keeps(c) == tick' = [tick EXCEPT ![t] = [at |-> "saving", book |-> c]]
    IN  /\ tick[t].at = "locked"
        /\ \/ b.alert /\ Keeps(b)
           \/ ~b.alert /\ Healthy(b) /\ Keeps([b EXCEPT !.failures = 0])
           \/ /\ ~b.alert /\ Unhealthy(b)
              /\ IF ~MayRestart(b) THEN Keeps([b EXCEPT !.alert = TRUE])
                 ELSE IF ~AttemptDue(b) THEN Keeps(b)
                 ELSE tick' = [tick EXCEPT ![t].at = "starting"]
        /\ UNCHANGED <<daemonVars, book, restarts, disturbed>>

\* The start command, when no other tick's is under way: the two never overlap.
RunStart(t) ==
    LET b == tick[t].book
        now == [age |-> 0, of |-> IF t = "cron" THEN 0 ELSE disturbed]
    IN  /\ tick[t].at = "starting"
        /\ StartLooks(Cron)
        /\ tick' = [tick EXCEPT ![t] = [at |-> "saving", book |->
              [failures |-> IF b.failures < Len(Backoff) THEN b.failures + 1 ELSE b.failures,
               attempts |-> b.attempts \cup {now}, alert |-> b.alert]]]
        /\ restarts' = restarts \cup {now}
        /\ UNCHANGED <<book, disturbed>>

\* The command has returned: the tick saves its copy and releases the lock.
Save(t) ==
    /\ tick[t].at = "saving" /\ starter[Cron] = AtRest
    /\ book' = tick[t].book
    /\ tick' = [tick EXCEPT ![t] = IF t = "cron" THEN [Waiting EXCEPT !.at = "done"] ELSE Waiting]
    /\ UNCHANGED <<daemonVars, restarts, disturbed>>

SkipDone ==
    /\ tick["reload"].at = "done"
    /\ tick' = [tick EXCEPT !["reload"] = Waiting]
    /\ UNCHANGED <<daemonVars, book, restarts, disturbed>>

TickDies(t) ==
    /\ tick[t].at \in {"loaded", "locked", "starting", "saving"} /\ starter[Cron] = AtRest
    /\ Disturb
    /\ tick' = [tick EXCEPT ![t] = IF t = "cron" THEN [Waiting EXCEPT !.at = "done"] ELSE Waiting]
    /\ UNCHANGED <<daemonVars, book, restarts>>

\* cmd_reset, between two steps of a tick or after it.
Reset ==
    /\ Disturb
    /\ book' = CleanBook /\ restarts' = {}
    /\ UNCHANGED <<daemonVars, tick>>

\* A minute is longer than a tick, a start, or the start-up of a process.
Minute ==
    /\ tick["cron"].at = "done" /\ tick["reload"] = Waiting
    /\ \A s \in Starters : starter[s] = AtRest
    /\ \A p \in Pids : proc[p] \notin {"forked", "leaving"}
    /\ book' = [book EXCEPT !.attempts = Older(@)]
    /\ restarts' = Older(restarts)
    /\ tick' = [tick EXCEPT !["cron"] = Waiting]
    /\ UNCHANGED <<daemonVars, disturbed>>

-----------------------------------------------------------------------------
TickStep(t) == Load(t) \/ Lock(t) \/ Supervise(t) \/ RunStart(t) \/ Save(t) \/ TickDies(t)

WatchdogNext ==
    \/ \E t \in Ticks : TickStep(t)
    \/ SkipDone \/ Reset \/ Minute
    \/ /\ \/ \E s \in Starters : StartStep(s)
          \/ \E p \in Pids : ProcessStep(p)
          \/ StartLooks(Operator) \/ StopKills
       /\ UNCHANGED <<book, tick, restarts, disturbed>>

WatchdogSpec == WatchdogInit /\ [][WatchdogNext]_watchdogVars

\* Cron runs, commands end, a forked process comes up and a leaving one goes.
Beside(A) == A /\ UNCHANGED <<book, tick, restarts, disturbed>>
WatchdogFair ==
    /\ WF_watchdogVars(Load("cron") \/ Lock("cron") \/ Supervise("cron")
                       \/ RunStart("cron") \/ Save("cron"))
    /\ WF_watchdogVars(Lock("reload") \/ Supervise("reload") \/ RunStart("reload")
                       \/ Save("reload") \/ SkipDone)
    /\ SF_watchdogVars(Minute)
    /\ \A s \in Starters : WF_watchdogVars(Beside(StartStep(s)))
    /\ \A p \in Pids :
          /\ WF_watchdogVars(Beside(Run(p) \/ EnsurePidfile(p)))
          /\ WF_watchdogVars(Beside(proc[p] = "leaving" /\ Die(p)))

-----------------------------------------------------------------------------
(* Properties. *)

\* The restarts of any window stay within the budget, but for one more for each
\* tick that died before it saved, or ran beside another and overwrote what
\* that had saved (may_restart, record_attempt, run_tick's lock).
RestartBudget == Cardinality(restarts) <= MaxInWindow + disturbed

\* A gateway that is down, or wedged, does not stay so unnoticed: it comes back,
\* or the watchdog ends in alert mode (run_tick, attempt_due).
DownIsHandled ==
    (\A p \in Pids : proc[p] # "serving")
        ~> (book.alert \/ \E p \in Pids : proc[p] = "serving")

=============================================================================

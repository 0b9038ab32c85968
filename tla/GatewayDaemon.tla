--------------------------- MODULE GatewayDaemon ---------------------------
(***************************************************************************)
(* The processes of one gateway instance: `jc-gateway start` (run by the   *)
(* operator, and by the watchdog when it finds the gateway down), `run`,   *)
(* `stop`, and the pidfile that they share without a lock.                 *)
(*   bin/jc-gateway                                                        *)
(***************************************************************************)
EXTENDS FiniteSets, Naturals

CONSTANTS
    Pids,       \* process ids that a gateway may get
    Operator,   \* the operator's `start`
    Cron        \* the `start` run by the watchdog

NoPid == "no pid"

ASSUME DaemonAssumption == Operator # Cron /\ NoPid \notin Pids

VARIABLES
    proc,       \* each gateway process
    pidfile,    \* the pid it names, or NoPid
    starter     \* how far each `start` is, and the processes it will reap

daemonVars == <<proc, pidfile, starter>>

Starters == {Operator, Cron}
AtRest == [at |-> "rest", reap |-> {}, pid |-> NoPid]

\* What a look at /proc finds: `jc-gateway ... run` of this instance.
Present == {p \in Pids : proc[p] \in {"forked", "serving", "wedged", "leaving"}}

DaemonTypeOK ==
    /\ proc \in [Pids -> {"none", "forked", "serving", "wedged", "leaving"}]
    /\ pidfile \in Pids \cup {NoPid}
    /\ starter \in [Starters -> [at : {"rest", "reaping", "forking", "recording"},
                                 reap : SUBSET Pids, pid : Pids \cup {NoPid}]]

DaemonInit ==
    /\ proc = [p \in Pids |-> "none"]
    /\ pidfile = NoPid
    /\ starter = [s \in Starters |-> AtRest]

-----------------------------------------------------------------------------
\* cmd_start: the pidfile names the process to keep, if it is a gateway of the
\* instance; every other gateway in /proc is to go.
Canonical == {pidfile} \cap Present

StartLooks(s) ==
    /\ starter[s].at = "rest"
    /\ starter' = [starter EXCEPT ![s] =
          [at |-> "reaping", reap |-> Present \ Canonical,
           pid |-> IF Canonical = {} THEN NoPid ELSE pidfile]]
    /\ UNCHANGED <<proc, pidfile>>

StartReapsNone(s) ==  \* Mutation of StartReaps
    /\ starter[s].at = "reaping"
    /\ starter' = [starter EXCEPT ![s] =
          IF starter[s].pid = NoPid THEN [AtRest EXCEPT !.at = "forking"] ELSE AtRest]
    /\ UNCHANGED <<proc, pidfile>>

\* SIGTERM, five seconds, SIGKILL: a victim that went in time took the pidfile
\* with it.  A start with a process to keep ends here, whatever its state.
StartReaps(s) ==
    /\ starter[s].at = "reaping"
    /\ proc' = [p \in Pids |-> IF p \in starter[s].reap THEN "none" ELSE proc[p]]
    /\ \/ UNCHANGED pidfile
       \/ starter[s].reap \cap Present # {} /\ pidfile' = NoPid
    /\ starter' = [starter EXCEPT ![s] =
          IF starter[s].pid = NoPid THEN [AtRest EXCEPT !.at = "forking"] ELSE AtRest]

\* remove_stale_pid, and the new process.
StartForks(s) ==
    /\ starter[s].at = "forking"
    /\ \E p \in Pids \ (Present \cup {pidfile}) :
          /\ proc' = [proc EXCEPT ![p] = "forked"]
          /\ starter' = [starter EXCEPT ![s].at = "recording", ![s].pid = p]
    /\ pidfile' = IF Canonical = {} THEN NoPid ELSE pidfile

StartRecords(s) ==
    /\ starter[s].at = "recording"
    /\ pidfile' = starter[s].pid
    /\ starter' = [starter EXCEPT ![s] = AtRest]
    /\ UNCHANGED proc

-----------------------------------------------------------------------------
\* cmd_run: a process that finds another gateway in the pidfile goes at once.
Run(p) ==
    /\ proc[p] = "forked"
    /\ IF Canonical \ {p} # {}
       THEN proc' = [proc EXCEPT ![p] = "none"] /\ UNCHANGED pidfile
       ELSE proc' = [proc EXCEPT ![p] = "serving"] /\ pidfile' = p
    /\ UNCHANGED starter

EnsurePidfile(p) ==
    /\ proc[p] = "serving" /\ pidfile = NoPid
    /\ pidfile' = p
    /\ UNCHANGED <<proc, starter>>

\* A signal, or changed code: the loop ends and unlinks the pidfile, whatever
\* it names; the process goes a moment later.
Leave(p) ==
    /\ proc[p] = "serving"
    /\ proc' = [proc EXCEPT ![p] = "leaving"]
    /\ pidfile' = NoPid
    /\ UNCHANGED starter

\* The end of a process that leaves, or a crash, which leaves the pidfile.
Die(p) ==
    /\ p \in Present
    /\ proc' = [proc EXCEPT ![p] = "none"]
    /\ UNCHANGED <<pidfile, starter>>

\* Neither the dispatch loop nor a lease makes progress any more.
Wedge(p) ==
    /\ proc[p] = "serving"
    /\ proc' = [proc EXCEPT ![p] = "wedged"]
    /\ UNCHANGED <<pidfile, starter>>

\* cmd_stop of a process that does not heed SIGTERM, with --kill, or when the
\* pidfile names none; one that heeds it leaves.
StopKills ==
    /\ \/ Canonical # {} /\ proc' = [proc EXCEPT ![pidfile] = "none"]
       \/ Canonical = {} /\ pidfile # NoPid /\ UNCHANGED proc
    /\ pidfile' = NoPid
    /\ UNCHANGED starter

StartStep(s) == StartReaps(s) \/ StartForks(s) \/ StartRecords(s)
ProcessStep(p) == Run(p) \/ EnsurePidfile(p) \/ Leave(p) \/ Die(p) \/ Wedge(p)

DaemonStep ==
    \/ \E s \in Starters : StartStep(s)
    \/ \E p \in Pids : ProcessStep(p)
    \/ StopKills

DaemonNext == DaemonStep \/ \E s \in Starters : StartLooks(s)

DaemonSpec == DaemonInit /\ [][DaemonNext]_daemonVars

-----------------------------------------------------------------------------
(* Properties. *)

\* However starts, stops and crashes follow each other, there are never more
\* gateways than starts can overlap: every start sweeps what earlier ones left
\* (reap_orphan_gateways).
OrphansSwept == Cardinality(Present) <= Cardinality(Starters)

\* Starts converge on a single process for the instance.
OneGateway == (\A s \in Starters : starter[s] = AtRest) => Cardinality(Present) <= 1

=============================================================================

----------------------------- MODULE MCDaemons ------------------------------
(***************************************************************************)
(* Two of the processes and threads that tick beside the gateway: the      *)
(* watchdog over the gateway that it starts, and the reporter to the       *)
(* company.  They share no state: in each behaviour one of them moves, as  *)
(* the first state says, and the fairness asks nothing of the other.       *)
(***************************************************************************)
EXTENDS Watchdog, CompanyReporter, TLC

VARIABLE focus

MCBackoff == <<1>>

daemonsVars == <<focus, watchdogVars, reporterVars>>

\* The steps of the watchdog, beside a reporter that rests.
Of(A) == focus = "watchdog" /\ A /\ UNCHANGED <<focus, reporterVars>>

Init ==
    /\ focus \in {"watchdog", "reporter"}
    /\ WatchdogInit /\ ReporterInit
    /\ focus # "reporter" => registered

Next ==
    \/ focus = "watchdog" /\ WatchdogNext /\ UNCHANGED <<focus, reporterVars>>
    \/ focus = "reporter" /\ ReporterNext /\ UNCHANGED <<focus, watchdogVars>>

\* WatchdogFair, of a watchdog that moves; see Watchdog.
Fair ==
    /\ WF_daemonsVars(Of(\/ Load("cron") \/ Lock("cron") \/ Supervise("cron")
                         \/ RunStart("cron") \/ Save("cron")))
    /\ WF_daemonsVars(Of(\/ Lock("reload") \/ Supervise("reload")
                         \/ RunStart("reload") \/ Save("reload") \/ SkipDone))
    /\ SF_daemonsVars(Of(Minute))
    /\ \A s \in Starters : WF_daemonsVars(Of(Beside(StartStep(s))))
    /\ \A p \in Pids :
          /\ WF_daemonsVars(Of(Beside(Run(p) \/ EnsurePidfile(p))))
          /\ WF_daemonsVars(Of(Beside(proc[p] = "leaving" /\ Die(p))))

Spec == Init /\ [][Next]_daemonsVars /\ Fair /\ ReporterFair

\* Nobody waits forever: a gateway that is down comes back or is reported, and what
\* there is to tell the company reaches it; see Watchdog and CompanyReporter.
NothingLeftWaiting ==
    /\ focus = "watchdog" => DownIsHandled
    /\ focus = "reporter" => EverythingReported

=============================================================================

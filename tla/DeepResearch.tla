---------------------------- MODULE DeepResearch ----------------------------
(***************************************************************************)
(* Deep research: a job is a process that drives the one browser profile   *)
(* of the host under a lock, and a state file that the starter, the job    *)
(* itself and a cancel each read and write back whole.  Its end is told by *)
(* an event file, after the state.                                         *)
(*   lib/skills/gemini_deep_research/, bin/jc-research                     *)
(***************************************************************************)
EXTENDS Naturals, FiniteSets

CONSTANTS
    Searches,
    MaxHaste    \* bound: jobs that end before their starter has written their
                \*        pid, or between the two steps of a cancel

ASSUME ResearchAssumption == MaxHaste \in Nat

VARIABLES
    begins,     \* job -> the `start` that detached it
    worker,     \* job -> its process
    record,     \* job -> its state file: status, whether the pid is there
    exitOk,     \* job -> its exit code is 0
    signingIn,  \* a browser of `jc research login` has the profile
    notice,     \* job -> the completion event, with the outcome it names
    cancels,    \* job -> a `cancel` that has read the state and decided
    haste

researchVars == <<begins, worker, record, exitOk, signingIn, notice, cancels, haste>>

NoRecord == [status |-> "none", pid |-> FALSE]
HasProfile == {"profiled", "browsing", "researching", "exported"}

ResearchTypeOK ==
    /\ begins \in [Searches -> {"none", "spawning", "recording", "done"}]
    /\ worker \in [Searches -> {"none", "begun", "waiting", "ok", "failed", "stated", "over"}
                              \cup HasProfile]
    /\ record \in [Searches -> [status : {"none", "running", "ok", "failed", "cancelled", "stale"},
                                pid : BOOLEAN]]
    /\ exitOk \in [Searches -> BOOLEAN] /\ signingIn \in BOOLEAN
    /\ notice \in [Searches -> {"none", "ok", "failed"}]
    /\ cancels \in [Searches -> {"none", "signalling", "cancelled", "stale"}]
    /\ haste \in 0..MaxHaste

ResearchInit ==
    /\ begins = [j \in Searches |-> "none"]
    /\ worker = [j \in Searches |-> "none"]
    /\ record = [j \in Searches |-> NoRecord]
    /\ exitOk = [j \in Searches |-> FALSE] /\ signingIn = FALSE
    /\ notice = [j \in Searches |-> "none"]
    /\ cancels = [j \in Searches |-> "none"]
    /\ haste = 0

Alive(j) == worker[j] \notin {"none", "over"}
Write(j, status, pid) == record' = [record EXCEPT ![j] = [status |-> status, pid |-> pid]]
Proc(j, s) == worker' = [worker EXCEPT ![j] = s]

\* Someone has yet to write what he read before the job's last word.
Overtaken(j) == begins[j] = "recording" \/ cancels[j] # "none"

-----------------------------------------------------------------------------
\* start: the state without a pid, the process, the state with it.
StartJob(j) ==
    /\ begins[j] = "none" /\ worker[j] = "none"
    /\ begins' = [begins EXCEPT ![j] = "spawning"]
    /\ Write(j, "running", FALSE)
    /\ UNCHANGED <<worker, exitOk, signingIn, notice, cancels, haste>>

\* The CLI is found, or not, and then the state stays as it is.
Detach(j) ==
    /\ begins[j] = "spawning"
    /\ \/ Proc(j, "begun") /\ begins' = [begins EXCEPT ![j] = "recording"]
       \/ UNCHANGED worker /\ begins' = [begins EXCEPT ![j] = "done"]
    /\ UNCHANGED <<record, exitOk, signingIn, notice, cancels, haste>>

RecordPid(j) ==
    /\ begins[j] = "recording"
    /\ begins' = [begins EXCEPT ![j] = "done"]
    /\ Write(j, "running", TRUE)
    /\ UNCHANGED <<worker, exitOk, signingIn, notice, cancels, haste>>

\* run, in the detached process or called in one's own.
RunJob(j) ==
    /\ \/ worker[j] = "begun"
       \/ worker[j] = "none" /\ begins[j] = "none"
    /\ Write(j, "running", TRUE) /\ Proc(j, "waiting")
    /\ begins' = [begins EXCEPT ![j] = IF @ = "none" THEN "done" ELSE @]
    /\ UNCHANGED <<exitOk, signingIn, notice, cancels, haste>>

\* acquire_lock: the profile, or EXIT_BUSY after a minute; inputs that are not
\* good fail before.
AcquireProfileUnlocked(j) ==  \* Mutation of AcquireProfile
    /\ worker[j] = "waiting"
    /\ Proc(j, "profiled")
    /\ UNCHANGED <<begins, record, exitOk, signingIn, notice, cancels, haste>>

AcquireProfile(j) ==
    /\ worker[j] = "waiting" /\ \A k \in Searches : worker[k] \notin HasProfile
    /\ Proc(j, "profiled")
    /\ UNCHANGED <<begins, record, exitOk, signingIn, notice, cancels, haste>>

\* The browser does not share its profile with the one of a login, which asks
\* for no lock.
LaunchBrowser(j) ==
    /\ worker[j] = "profiled"
    /\ Proc(j, IF signingIn THEN "failed" ELSE "browsing")
    /\ UNCHANGED <<begins, record, exitOk, signingIn, notice, cancels, haste>>

\* Deep Research is chosen, the prompt typed in, and its plan started.
SubmitQuery(j) ==
    /\ worker[j] = "browsing"
    /\ Proc(j, "researching")
    /\ UNCHANGED <<begins, record, exitOk, signingIn, notice, cancels, haste>>

\* The page says that it is done, and its text is read.
Export(j) ==
    /\ worker[j] = "researching"
    /\ Proc(j, "exported")
    /\ UNCHANGED <<begins, record, exitOk, signingIn, notice, cancels, haste>>

WriteReport(j) ==
    /\ worker[j] = "exported"
    /\ Proc(j, "ok")
    /\ UNCHANGED <<begins, record, exitOk, signingIn, notice, cancels, haste>>

\* The lock is not to be had, or a step fails: the sign-in page, a selector that
\* finds nothing, time, a file.
GiveUp(j) ==
    /\ worker[j] \in {"waiting"} \cup HasProfile
    /\ Proc(j, "failed")
    /\ UNCHANGED <<begins, record, exitOk, signingIn, notice, cancels, haste>>

OpenLogin ==
    /\ ~signingIn /\ \A j \in Searches : worker[j] \notin HasProfile \ {"profiled"}
    /\ signingIn' = TRUE
    /\ UNCHANGED <<begins, worker, record, exitOk, notice, cancels, haste>>

CloseLogin ==
    /\ signingIn /\ signingIn' = FALSE
    /\ UNCHANGED <<begins, worker, record, exitOk, notice, cancels, haste>>

\* The last state, then emit_completion_event.
Conclude(j) ==
    /\ worker[j] \in {"ok", "failed"}
    /\ IF Overtaken(j) THEN haste < MaxHaste /\ haste' = haste + 1 ELSE UNCHANGED haste
    /\ Write(j, worker[j], TRUE)
    /\ exitOk' = [exitOk EXCEPT ![j] = worker[j] = "ok"]
    /\ Proc(j, "stated")
    /\ UNCHANGED <<begins, signingIn, notice, cancels>>

Emit(j) ==
    /\ worker[j] = "stated"
    /\ notice' = [notice EXCEPT ![j] = IF exitOk[j] THEN "ok" ELSE "failed"]
    /\ Proc(j, "over")
    /\ UNCHANGED <<begins, record, exitOk, signingIn, cancels, haste>>

\* The process is killed, by a cancel's SIGTERM or otherwise.
Dies(j) ==
    /\ Alive(j)
    /\ Proc(j, "over")
    /\ UNCHANGED <<begins, record, exitOk, signingIn, notice, cancels, haste>>

-----------------------------------------------------------------------------
\* cancel: the state is read; a job that runs is signalled; the state that was
\* read is written back, cancelled, or stale if nobody was there.
ReadToCancelAny(j) ==  \* Mutation of ReadToCancel
    /\ cancels[j] = "none" /\ record[j].pid
    /\ cancels' = [cancels EXCEPT ![j] = "signalling"]
    /\ UNCHANGED <<begins, worker, record, exitOk, signingIn, notice, haste>>

ReadToCancel(j) ==
    /\ cancels[j] = "none" /\ record[j].status = "running" /\ record[j].pid
    /\ cancels' = [cancels EXCEPT ![j] = "signalling"]
    /\ UNCHANGED <<begins, worker, record, exitOk, signingIn, notice, haste>>

Signal(j) ==
    /\ cancels[j] = "signalling"
    /\ cancels' = [cancels EXCEPT ![j] = IF Alive(j) THEN "cancelled" ELSE "stale"]
    /\ UNCHANGED <<begins, worker, record, exitOk, signingIn, notice, haste>>

WriteCancelled(j) ==
    /\ cancels[j] \in {"cancelled", "stale"}
    /\ Write(j, cancels[j], TRUE)
    /\ cancels' = [cancels EXCEPT ![j] = "none"]
    /\ UNCHANGED <<begins, worker, exitOk, signingIn, notice, haste>>

ResearchNext ==
    \/ OpenLogin \/ CloseLogin
    \/ \E j \in Searches :
        \/ StartJob(j) \/ Detach(j) \/ RecordPid(j) \/ RunJob(j) \/ AcquireProfile(j)
        \/ LaunchBrowser(j) \/ SubmitQuery(j) \/ Export(j) \/ WriteReport(j) \/ GiveUp(j)
        \/ Conclude(j) \/ Emit(j) \/ Dies(j)
        \/ ReadToCancel(j) \/ Signal(j) \/ WriteCancelled(j)

ResearchSpec == ResearchInit /\ [][ResearchNext]_researchVars

-----------------------------------------------------------------------------
(* Properties. *)

\* Two jobs never have the profile at a time; and what a job said last of
\* itself stays, so that its report can be found, unless the starter or a
\* cancel had read the state before and writes it after.
\* (acquire_lock; run, start and cancel on one state file)
ResearchKept ==
    /\ \A j, k \in Searches : {worker[j], worker[k]} \subseteq HasProfile => j = k
    /\ \A j \in Searches : haste = 0 /\ notice[j] # "none" => record[j].status = notice[j]

=============================================================================

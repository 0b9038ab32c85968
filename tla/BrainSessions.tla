--------------------------- MODULE BrainSessions ---------------------------
(***************************************************************************)
(* The brains at work and the two buttons on a supervisor card: a session  *)
(* is one run of a brain's process for an event, entered in the registry   *)
(* while it runs; Stop kills it, Background lets it run on and sends its   *)
(* reply as a notice.  A brain's thread and the one poller that handles    *)
(* the taps work on the same entries.                                      *)
(*   lib/gateway/{actions_registry,actions}.py, brains/base.py invoke,     *)
(*   channels/telegram.py, runtime.py _handle_background_completion        *)
(***************************************************************************)
EXTENDS Naturals, FiniteSets

CONSTANTS
    Asks,           \* events of one chat
    MaxRuns,        \* bound: sessions
    MaxBackground,  \* actions.max_background_per_chat
    MaxFalls        \* bound: crashes of the gateway, edits that fail

ASSUME BrainAssumption ==
    Asks # {} /\ MaxRuns \in Nat /\ MaxBackground \in Nat /\ MaxFalls \in Nat

VARIABLES
    ask,        \* the event's row
    run,        \* session -> where its thread stands, and for which event
    child,      \* session -> its process, the leader of a group
    orphans,    \* sessions whose leader is gone while the brain that it waited for
                \* lives on
    actionEntry, \* session -> its ActionEntry: role, stopped
    role,       \* session -> the role its thread found when the process ended
    tap,        \* the tap the poller is handling
    recent,     \* sessions tapped less than two seconds ago
    signalled,  \* sessions with a process that lives and was sent a SIGTERM
    face,       \* what the buttons' edits have made of a session's card
    falls

brainVars == <<ask, run, child, orphans, actionEntry, role, tap, recent, signalled, face, falls>>

Runs == 1..MaxRuns
NoRun == 0
NoTap == [at |-> "idle", verb |-> "stop", of |-> NoRun]
Faces == {"buttons", "stopped", "running", "done"}
Fresh == [role |-> "primary", stopped |-> FALSE]
Started == {s \in Runs : run[s].at # "none"}
Registered == {s \in Runs : run[s].at \in {"running", "snapped"}}
Backgrounded == {s \in Registered : actionEntry[s].role = "backgrounded"}

BrainTypeOK ==
    /\ ask \in [Asks -> {"waiting", "running", "over"}]
    /\ run \in [Runs -> [at : {"none", "spawned", "running", "snapped", "leaving", "gone"},
                         of : Asks]]
    /\ child \in [Runs -> {"none", "alive", "ended", "failed", "killed"}]
    /\ actionEntry \in [Runs -> [role : {"primary", "backgrounded"}, stopped : BOOLEAN]]
    /\ role \in [Runs -> {"primary", "backgrounded"}]
    /\ recent \subseteq Runs
    /\ tap \in [at : {"idle", "resolved", "demoting", "signalling", "grace",
                      "telling"}, verb : {"stop", "background"}, of : Runs \cup {NoRun}]
    /\ signalled \subseteq Runs /\ orphans \subseteq Runs
    /\ face \in [Runs -> Faces]
    /\ falls \in 0..MaxFalls

BrainInit ==
    /\ ask = [e \in Asks |-> "waiting"]
    /\ run = [s \in Runs |-> [at |-> "none", of |-> CHOOSE e \in Asks : TRUE]]
    /\ child = [s \in Runs |-> "none"]
    /\ actionEntry = [s \in Runs |-> Fresh]
    /\ role = [s \in Runs |-> "primary"]
    /\ recent = {} /\ tap = NoTap
    /\ signalled = {} /\ orphans = {}
    /\ face = [s \in Runs |-> "buttons"]
    /\ falls = 0

-----------------------------------------------------------------------------
\* Brain.invoke, in the thread of the event's slot.  An adapter script execs the
\* brain, or runs it in a pipeline and waits for it (codex.sh).
Spawn(e) ==
    /\ ask[e] = "waiting" /\ Cardinality(Started) < MaxRuns
    /\ ask' = [ask EXCEPT ![e] = "running"]
    /\ LET s == Cardinality(Started) + 1 IN
       /\ run' = [run EXCEPT ![s] = [at |-> "spawned", of |-> e]]
       /\ child' = [child EXCEPT ![s] = "alive"]
    /\ UNCHANGED <<orphans, actionEntry, role, tap, recent, signalled, face, falls>>

RegisterRun(s) ==
    /\ run[s].at = "spawned"
    /\ run' = [run EXCEPT ![s] = [@ EXCEPT !.at = "running"]]
    /\ UNCHANGED <<ask, child, orphans, actionEntry, role, tap, recent, signalled, face, falls>>

\* The brain ends, well or not, and with it the shell that waits for it.
ChildEnds(s) ==
    /\ child[s] = "alive"
    /\ \E how \in {"ended", "failed"} : child' = [child EXCEPT ![s] = how]
    /\ signalled' = signalled \ {s}
    /\ UNCHANGED <<ask, run, orphans, actionEntry, role, tap, recent, face, falls>>

\* A SIGTERM to the group ends its leader, and what that waits for may go on.
LeaderFalls(s, how) ==
    /\ child[s] = "alive"
    /\ child' = [child EXCEPT ![s] = how]
    /\ \/ orphans' = orphans \cup {s} /\ signalled' = signalled \cup {s}
       \/ UNCHANGED orphans /\ signalled' = signalled \ {s}
    /\ UNCHANGED <<ask, run, actionEntry, role, tap, recent, face, falls>>

SigtermTakes(s) == s \in signalled /\ LeaderFalls(s, "killed")

\* The timeout of invoke: SIGTERM, five seconds, and SIGKILL to the group if its
\* leader is still there.
TimesOut(s) == run[s].at = "running" /\ LeaderFalls(s, "failed")

\* A brain that has outlived its leader ends by itself.
OrphanEnds(s) ==
    /\ s \in orphans
    /\ orphans' = orphans \ {s} /\ signalled' = signalled \ {s}
    /\ UNCHANGED <<ask, run, child, actionEntry, role, tap, recent, face, falls>>

Snapshot(s) ==
    /\ run[s].at = "running" /\ child[s] # "alive"
    /\ run' = [run EXCEPT ![s] = [@ EXCEPT !.at = "snapped"]]
    /\ role' = [role EXCEPT ![s] = actionEntry[s].role]
    /\ UNCHANGED <<ask, child, orphans, actionEntry, tap, recent, signalled, face, falls>>

Unregister(s) ==
    /\ run[s].at = "snapped"
    /\ run' = [run EXCEPT ![s] = [@ EXCEPT !.at = "leaving"]]
    /\ recent' = recent \ {s}
    /\ actionEntry' = [actionEntry EXCEPT ![s] = Fresh]
    /\ UNCHANGED <<ask, child, orphans, role, tap, signalled, face, falls>>

\* An edit of a session's card, which may fail.
Edits(s, to) ==
    \/ face' = [face EXCEPT ![s] = to] /\ UNCHANGED falls
    \/ falls < MaxFalls /\ falls' = falls + 1 /\ UNCHANGED face

\* The reply of a session sent to the background is a notice, and its card says so.
Notifies(s) == role[s] = "backgrounded" /\ child[s] = "ended"
CardIsDone(s) == IF Notifies(s) THEN Edits(s, "done") ELSE UNCHANGED <<face, falls>>

\* A process that ended well has answered: in the chat, or with a notice.  Of
\* any other the recovery makes a retry, or a failure; it does not ask who
\* killed it.
EndOf(s) == IF child[s] = "ended" THEN {"over"} ELSE {"waiting", "over"}

Settle(s) ==
    /\ run[s].at = "leaving"
    /\ run' = [run EXCEPT ![s] = [@ EXCEPT !.at = "gone"]]
    /\ \E next \in EndOf(s) : ask' = [ask EXCEPT ![run[s].of] = next]
    /\ CardIsDone(s)
    /\ role' = [role EXCEPT ![s] = "primary"]
    /\ UNCHANGED <<child, orphans, actionEntry, tap, recent, signalled>>

-----------------------------------------------------------------------------
\* A tap on the button of a session that the registry knows, on whatever card
\* is still there to show it; then the debounce.
TapButton(s, verb) ==
    /\ tap.at = "idle" /\ s \in Registered /\ s \notin recent
    /\ recent' = recent \cup {s}
    /\ tap' = [at |-> "resolved", verb |-> verb, of |-> s]
    /\ UNCHANGED <<ask, run, child, orphans, actionEntry, role, signalled, face, falls>>

TwoSecondsPass(s) ==
    /\ s \in recent
    /\ recent' = recent \ {s}
    /\ UNCHANGED <<ask, run, child, orphans, actionEntry, role, tap, signalled, face, falls>>

Handling(at, s) == tap.at = at /\ tap.of = s

\* stop_session: not found, already stopped, or marked.
Stop(s) ==
    /\ Handling("resolved", s) /\ tap.verb = "stop"
    /\ IF s \in Registered /\ ~actionEntry[s].stopped
       THEN /\ actionEntry' = [actionEntry EXCEPT ![s] = [@ EXCEPT !.stopped = TRUE]]
            /\ tap' = [tap EXCEPT !.at = "signalling"]
       ELSE tap' = [tap EXCEPT !.at = "telling"] /\ UNCHANGED actionEntry
    /\ UNCHANGED <<ask, run, child, orphans, role, recent, signalled, face, falls>>

\* background_session: not found, already done, at the cap, or on.
BackgroundPastCap(s) ==  \* Mutation of Background
    /\ Handling("resolved", s) /\ tap.verb = "background"
    /\ tap' = IF s \in Registered \ Backgrounded /\ Cardinality(Backgrounded) <= MaxBackground
              THEN [tap EXCEPT !.at = "demoting"]
              ELSE NoTap
    /\ UNCHANGED <<ask, run, child, orphans, actionEntry, role, recent, signalled, face, falls>>

Background(s) ==
    /\ Handling("resolved", s) /\ tap.verb = "background"
    /\ tap' = IF s \in Registered \ Backgrounded /\ Cardinality(Backgrounded) < MaxBackground
              THEN [tap EXCEPT !.at = "demoting"]
              ELSE NoTap
    /\ UNCHANGED <<ask, run, child, orphans, actionEntry, role, recent, signalled, face, falls>>

\* mark_backgrounded, whose answer is not looked at.
Demote(s) ==
    /\ Handling("demoting", s)
    /\ actionEntry' = IF s \in Registered
                      THEN [actionEntry EXCEPT ![s] = [@ EXCEPT !.role = "backgrounded"]]
                      ELSE actionEntry
    /\ tap' = [tap EXCEPT !.at = "telling"]
    /\ UNCHANGED <<ask, run, child, orphans, role, recent, signalled, face, falls>>

\* SIGTERM, if there is a process of the group, and SIGKILL to all of it when the
\* leader, whose pid alone is looked at, is still there after the grace.
Terminate(s) ==
    /\ Handling("signalling", s)
    /\ IF child[s] = "alive" \/ s \in orphans
       THEN /\ signalled' = signalled \cup {s}
            /\ tap' = [tap EXCEPT !.at = "grace"]
       ELSE tap' = [tap EXCEPT !.at = "telling"] /\ UNCHANGED signalled
    /\ UNCHANGED <<ask, run, child, orphans, actionEntry, role, recent, face, falls>>

GraceEndsSoftly(s) ==  \* Mutation of GraceEnds
    /\ Handling("grace", s)
    /\ tap' = [tap EXCEPT !.at = "telling"]
    /\ UNCHANGED <<ask, run, child, orphans, actionEntry, role, recent, signalled, face, falls>>

GraceEnds(s) ==
    /\ Handling("grace", s)
    /\ IF child[s] = "alive"
       THEN child' = [child EXCEPT ![s] = "killed"] /\ signalled' = signalled \ {s}
       ELSE UNCHANGED <<child, signalled>>
    /\ tap' = [tap EXCEPT !.at = "telling"]
    /\ UNCHANGED <<ask, run, orphans, actionEntry, role, recent, face, falls>>

\* The card is edited, whatever the result of the stop; for a session sent to
\* the background be it over by now.
CardIsStopped(s) == tap.verb = "stop" /\ Edits(s, "stopped")
CardIsRunning(s) == tap.verb = "background" /\ Edits(s, "running")

Tell(s) ==
    /\ Handling("telling", s)
    /\ tap' = NoTap
    /\ CardIsStopped(s) \/ CardIsRunning(s)
    /\ UNCHANGED <<ask, run, child, orphans, actionEntry, role, recent, signalled>>

-----------------------------------------------------------------------------
\* The gateway's process dies: the registry with it, the brains and files not.
Fall ==
    /\ falls < MaxFalls /\ falls' = falls + 1
    /\ run' = [s \in Runs |-> IF s \in Started THEN [run[s] EXCEPT !.at = "gone"] ELSE run[s]]
    /\ ask' = [e \in Asks |-> IF ask[e] = "running" THEN "waiting" ELSE ask[e]]
    /\ actionEntry' = [s \in Runs |-> Fresh] /\ role' = [s \in Runs |-> "primary"]
    /\ tap' = NoTap /\ recent' = {}
    /\ UNCHANGED <<child, orphans, signalled, face>>

BrainNext ==
    \/ \E e \in Asks : Spawn(e)
    \/ \E s \in Runs :
          \/ RegisterRun(s) \/ ChildEnds(s) \/ SigtermTakes(s) \/ TimesOut(s) \/ OrphanEnds(s)
          \/ Snapshot(s) \/ Unregister(s) \/ Settle(s)
          \/ TapButton(s, "stop") \/ TapButton(s, "background") \/ TwoSecondsPass(s)
          \/ Stop(s) \/ Background(s) \/ Demote(s)
          \/ Terminate(s) \/ GraceEnds(s) \/ Tell(s)
    \/ Fall

BrainSpec == BrainInit /\ [][BrainNext]_brainVars

-----------------------------------------------------------------------------
(* Properties. *)

\* A card says that its session is stopped only when the process that leads it is
\* gone, whatever that did of the signal, and when all that is left of its group
\* was told to end; and no more sessions of a chat are in the background than may
\* be.  (stop_session; invoke; background_session; unregister)
ButtonsKept ==
    /\ \A s \in Runs :
         face[s] = "stopped" => child[s] # "alive" /\ (s \in orphans => s \in signalled)
    /\ Cardinality(Backgrounded) <= MaxBackground

\* A session that is stopped has no process left. (docs/specs/supervisor-card-actions.md)
StoppedIsGone == \A s \in Runs : face[s] = "stopped" => child[s] # "alive" /\ s \notin orphans

\* A session that is stopped is not taken up again: its event is not run anew
\* unless the operator asks.  (docs/specs/supervisor-card-actions.md:43)
StopIsTerminal ==
    \A s, t \in Started :
        s < t /\ run[s].of = run[t].of => child[s] # "killed"

=============================================================================

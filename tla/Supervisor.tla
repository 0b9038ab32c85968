----------------------------- MODULE Supervisor -----------------------------
(***************************************************************************)
(* The supervisor: a tick under a lock that looks at the running events,   *)
(* recovers those whose adapter is gone, keeps one progress card for each  *)
(* in its chat, and reports them to the company.  It knows what it has     *)
(* done from state.json alone, which it reads first and writes last.       *)
(*   lib/supervisor/{runner,state,snapshot,recovery,delivery}.py           *)
(***************************************************************************)
EXTENDS Naturals, FiniteSets

CONSTANTS
    Jobs,           \* events of the queue
    MaxAttempts,    \* recovery attempts before an event is given up
    FinalizeCap,    \* attempts at the terminal card and report
    MaxJobClaims,   \* bound: claims of an event
    MaxCards,       \* bound: cards sent for an event
    MaxMishaps      \* bound: ticks that die, failed calls, lapsed pins

ASSUME SupervisorAssumption ==
    {MaxAttempts, FinalizeCap, MaxJobClaims, MaxCards, MaxMishaps} \subseteq Nat

VARIABLES
    job,        \* each event's row: status, claim, and whether it is old enough
    adapterPid, \* the pid of its last `adapter spawn` log line
    entry,      \* state.json: what the supervisor remembers of each event
    watch,      \* the tick under way: its snapshot, its copy, what is left to do
    shown,      \* the progress cards of an event that are in the chat
    carded,     \* cards sent so far
    opened,     \* the company's rows of the event that are not finished: boot ids
    bootId,     \* the boot id of the supervisor's process
    resets,     \* history: recoveries since the event last ended
    mishaps,
    chat        \* how the chat and the company are reached; this does not change:
                \* the channel of each event, whether the company is configured

supervisorVars == <<job, adapterPid, entry, watch, shown, carded, opened, bootId,
                    resets, mishaps, chat>>

Channels == {"telegram", "slack", "discord"}
NoCard == 0
Cards == 1..MaxCards
FreshEntry == [card |-> NoCard, attempts |-> 0, pin |-> "none", started |-> FALSE,
               finished |-> FALSE, finals |-> 0]
Entry == [card : Cards \cup {NoCard}, attempts : 0..MaxAttempts,
          pin : {"none", "held", "over"}, started : BOOLEAN, finished : BOOLEAN,
          finals : 0..FinalizeCap]
Unseen == [seen |-> FALSE, dead |-> FALSE, claim |-> 0]
NoTick == [at |-> "idle", view |-> [j \in Jobs |-> Unseen], todo |-> {}, spared |-> {},
           book |-> [j \in Jobs |-> FreshEntry]]

SupervisorTypeOK ==
    /\ job \in [Jobs -> [status : {"queued", "running", "done", "failed"},
                         claim : 0..MaxJobClaims, old : BOOLEAN]]
    /\ adapterPid \in [Jobs -> {"none", "live", "dead"}]
    /\ entry \in [Jobs -> Entry]
    /\ watch \in [at : {"idle", "snapped", "finalizing", "recovering", "announcing"},
                   view : [Jobs -> [seen : BOOLEAN, dead : BOOLEAN, claim : 0..MaxJobClaims]],
                   todo : SUBSET Jobs, spared : SUBSET Jobs, book : [Jobs -> Entry]]
    /\ shown \in [Jobs -> SUBSET Cards]
    /\ carded \in [Jobs -> 0..MaxCards]
    /\ opened \in [Jobs -> SUBSET (0..MaxMishaps)]
    /\ bootId \in 0..MaxMishaps
    /\ resets \in [Jobs -> Nat]
    /\ mishaps \in 0..MaxMishaps
    /\ chat \in [channel : [Jobs -> Channels], reporting : BOOLEAN]

SupervisorInit ==
    /\ job = [j \in Jobs |-> [status |-> "queued", claim |-> 0, old |-> FALSE]]
    /\ adapterPid = [j \in Jobs |-> "none"]
    /\ entry = [j \in Jobs |-> FreshEntry]
    /\ watch = NoTick
    /\ shown = [j \in Jobs |-> {}]
    /\ carded = [j \in Jobs |-> 0]
    /\ opened = [j \in Jobs |-> {}]
    /\ bootId = 0
    /\ resets = [j \in Jobs |-> 0]
    /\ mishaps = 0
    /\ chat \in [channel : [Jobs -> Channels], reporting : BOOLEAN]

Mishap == mishaps < MaxMishaps /\ mishaps' = mishaps + 1

-----------------------------------------------------------------------------
\* The gateway, its brains and its operator.
Status(j, s) == job' = [job EXCEPT ![j].status = s, ![j].old = FALSE]

ClaimJob(j) ==
    /\ job[j].status = "queued" /\ job[j].claim < MaxJobClaims
    /\ job' = [job EXCEPT ![j] = [status |-> "running", claim |-> @.claim + 1, old |-> FALSE]]
    /\ UNCHANGED <<adapterPid, entry, watch, shown, carded, opened, bootId, resets, mishaps, chat>>

\* notice_threshold passes since started_at.
ThresholdPasses(j) ==
    /\ job[j].status = "running" /\ ~job[j].old
    /\ job' = [job EXCEPT ![j].old = TRUE]
    /\ UNCHANGED <<adapterPid, entry, watch, shown, carded, opened, bootId, resets, mishaps, chat>>

SpawnAdapter(j) ==
    /\ job[j].status = "running" /\ adapterPid[j] # "live"
    /\ adapterPid' = [adapterPid EXCEPT ![j] = "live"]
    /\ UNCHANGED <<job, entry, watch, shown, carded, opened, bootId, resets, mishaps, chat>>

AdapterGone(j) ==
    /\ adapterPid[j] = "live"
    /\ adapterPid' = [adapterPid EXCEPT ![j] = "dead"]
    /\ UNCHANGED <<job, entry, watch, shown, carded, opened, bootId, resets, mishaps, chat>>

\* The event ends, or is re-queued by the gateway.
JobEnds(j) ==
    /\ job[j].status = "running"
    /\ \E s \in {"queued", "done", "failed"} :
          /\ Status(j, s)
          /\ resets' = IF s = "queued" THEN resets ELSE [resets EXCEPT ![j] = 0]
    /\ UNCHANGED <<adapterPid, entry, watch, shown, carded, opened, bootId, mishaps, chat>>

OperatorRetries(j) ==
    /\ job[j].status \in {"done", "failed"} /\ job[j].claim < MaxJobClaims
    /\ Status(j, "queued")
    /\ UNCHANGED <<adapterPid, entry, watch, shown, carded, opened, bootId, resets, mishaps, chat>>

-----------------------------------------------------------------------------
\* What a chat's service may answer to a call, and the answers that delivery.py
\* takes for success.  Unheard: the call was carried out, its answer is lost.
DeleteAnswers == {"ok", "missing", "undeletable", "refused", "unheard", "lost"}
EditAnswers == {"ok", "same", "plain", "missing", "refused", "lost"}
SendAnswers == {"ok", "plain", "refused", "unheard"}

\* A card that Telegram or Slack will not delete counts as deleted.  On Discord
\* every answer in JSON does, a refusal too: http_json does not raise for it.
TelegramDeleted == {"ok", "missing", "undeletable"}
SlackDeleted == {"ok", "missing", "undeletable"}
DiscordDeleted == {"ok", "missing", "undeletable", "refused"}
Deleted(channel) ==
    CASE channel = "slack" -> SlackDeleted
      [] channel = "discord" -> DiscordDeleted
      [] OTHER -> TelegramDeleted
Removed(a) == a \in {"ok", "missing", "unheard"}

\* Text that Telegram cannot parse is tried again as plain text.
TelegramEdited == {"ok", "same", "plain"}
SlackEdited == {"ok", "same"}
DiscordEdited == {"ok"}
Edited(channel) ==
    CASE channel = "slack" -> SlackEdited
      [] channel = "discord" -> DiscordEdited
      [] OTHER -> TelegramEdited

TelegramSent == {"ok", "plain"}
SlackSent == {"ok"}
DiscordSent == {"ok"}
Sent(channel) ==
    CASE channel = "slack" -> SlackSent
      [] channel = "discord" -> DiscordSent
      [] OTHER -> TelegramSent

-----------------------------------------------------------------------------
\* A tick: state.json, then the running events that are old enough, with the
\* pid that the log names, be it that of an earlier claim.
Snap ==
    /\ watch.at = "idle"
    /\ watch' = [at |-> "snapped", book |-> entry, todo |-> {}, spared |-> {},
                 view |-> [j \in Jobs |->
                     IF job[j].status = "running" /\ job[j].old
                     THEN [seen |-> TRUE, dead |-> adapterPid[j] = "dead", claim |-> job[j].claim]
                     ELSE Unseen]]
    /\ UNCHANGED <<job, adapterPid, entry, shown, carded, opened, bootId, resets, mishaps, chat>>

Seen == {j \in Jobs : watch.view[j].seen}
Booked(j, e) == [watch.book EXCEPT ![j] = e]

\* _fetch_statuses, for the events with a card or a report.
CandidatesReported == {j \in Jobs \ Seen : watch.book[j].started}  \* Mutation of Candidates

Candidates == {j \in Jobs \ Seen : watch.book[j].card # NoCard \/ watch.book[j].started}

FetchStatuses ==
    /\ watch.at = "snapped"
    /\ watch' = [watch EXCEPT !.at = "finalizing",
                    !.todo = {j \in Candidates : job[j].status \in {"done", "failed"}}]
    /\ UNCHANGED <<job, adapterPid, entry, shown, carded, opened, bootId, resets, mishaps, chat>>

\* The card is deleted and the report finished, each or not; the entry goes when
\* both are done, or the attempts are over.
AfterFinalize(e, cardOk, reportOk) ==
    LET f == [e EXCEPT !.card = IF cardOk THEN NoCard ELSE @,
                       !.finished = @ \/ (e.started /\ reportOk)]
    IN  IF (cardOk /\ reportOk) \/ e.finals + 1 >= FinalizeCap THEN FreshEntry
        ELSE [f EXCEPT !.finals = @ + 1]

\* The company finds the row of a report by the boot id of the process that sends it.
ReportFinished(j) == opened' = [opened EXCEPT ![j] = @ \ {bootId}]

Finalize(j) ==
    /\ watch.at = "finalizing" /\ j \in watch.todo
    /\ \E answer \in DeleteAnswers, reportOk \in BOOLEAN :
          LET e == watch.book[j]
              cardOk == answer \in Deleted(chat.channel[j])
              reports == e.started /\ ~e.finished IN
          /\ (e.card = NoCard => answer = "ok") /\ (~reports => reportOk)
          /\ IF answer \in {"ok", "missing"} /\ reportOk THEN UNCHANGED mishaps ELSE Mishap
          /\ shown' = [shown EXCEPT ![j] = IF Removed(answer) THEN @ \ {e.card} ELSE @]
          /\ IF reports /\ reportOk THEN ReportFinished(j) ELSE UNCHANGED opened
          /\ watch' = [watch EXCEPT !.todo = @ \ {j},
                          !.book = Booked(j, AfterFinalize(e, cardOk, reportOk))]
    /\ UNCHANGED <<job, adapterPid, entry, carded, bootId, resets, chat>>

BeginRecovery ==
    /\ watch.at = "finalizing" /\ watch.todo = {}
    /\ watch' = [watch EXCEPT !.at = "recovering", !.todo = {j \in Seen : watch.view[j].dead}]
    /\ UNCHANGED <<job, adapterPid, entry, shown, carded, opened, bootId, resets, mishaps, chat>>

\* apply_recovery compares the claim of the snapshot; escalate_to_failed only
\* the status, after the card has been made a final one.
ExhaustedLate(j) == watch.book[j].attempts > MaxAttempts  \* Mutation of Exhausted

Exhausted(j) == watch.book[j].attempts >= MaxAttempts

InTurn(j) == watch.at = "recovering" /\ j \in watch.todo
Handled(j) == watch' = [watch EXCEPT !.todo = @ \ {j}]

Recover(j) ==
    /\ InTurn(j) /\ ~Exhausted(j)
    /\ IF job[j].status = "running" /\ job[j].claim = watch.view[j].claim
       THEN /\ Status(j, "queued")
            /\ resets' = [resets EXCEPT ![j] = @ + 1]
            /\ watch' = [watch EXCEPT !.todo = @ \ {j}, !.spared = @ \cup {j},
                            !.book = Booked(j, [watch.book[j] EXCEPT !.attempts = @ + 1,
                                                                     !.pin = "held"])]
       ELSE Handled(j) /\ UNCHANGED <<job, resets>>
    /\ UNCHANGED <<adapterPid, entry, shown, carded, opened, bootId, mishaps, chat>>

StopCard(j) ==
    /\ InTurn(j) /\ Exhausted(j) /\ watch.book[j].card # NoCard
    /\ watch' = [watch EXCEPT !.book[j].card = NoCard]
    /\ \E answer \in EditAnswers :
          IF answer \in Edited(chat.channel[j])
          THEN shown' = [shown EXCEPT ![j] = @ \ {watch.book[j].card}] /\ UNCHANGED mishaps
          ELSE UNCHANGED shown /\ Mishap
    /\ UNCHANGED <<job, adapterPid, entry, carded, opened, bootId, resets, chat>>

Escalate(j) ==
    /\ InTurn(j) /\ Exhausted(j) /\ watch.book[j].card = NoCard
    /\ IF job[j].status = "running"
       THEN /\ Status(j, "failed")
            /\ resets' = [resets EXCEPT ![j] = 0]
            /\ watch' = [watch EXCEPT !.todo = @ \ {j}, !.spared = @ \cup {j}]
       ELSE Handled(j) /\ UNCHANGED <<job, resets>>
    /\ UNCHANGED <<adapterPid, entry, shown, carded, opened, bootId, mishaps, chat>>

BeginAnnouncing ==
    /\ watch.at = "recovering" /\ watch.todo = {}
    /\ watch' = [watch EXCEPT !.at = "announcing", !.todo = Seen]
    /\ UNCHANGED <<job, adapterPid, entry, shown, carded, opened, bootId, resets, mishaps, chat>>

\* The card of an event is left as it is (the event was just recovered, the card
\* is recent, or shows the same) or edited, or a new one is sent.
NextCard(j) == carded[j] + 1
CardStays(j) == [card |-> watch.book[j].card, up |-> shown[j], sent |-> carded[j], fails |-> 0]
CardSent(j, up, fails, answer) ==
    [card  |-> IF answer \in Sent(chat.channel[j]) THEN NextCard(j) ELSE NoCard,
     up    |-> IF answer = "refused" THEN up ELSE up \cup {NextCard(j)},
     sent  |-> IF answer = "refused" THEN carded[j] ELSE NextCard(j),
     fails |-> IF answer \in Sent(chat.channel[j]) THEN fails ELSE fails + 1]

\* A card that cannot be edited is deleted, if it can be, and sent anew.
CardReplaced(j, deleted, answer) ==
    CardSent(j, IF Removed(deleted) THEN shown[j] \ {watch.book[j].card} ELSE shown[j],
             IF deleted \in Deleted(chat.channel[j]) THEN 1 ELSE 2, answer)

CardOutcomes(j) ==
    {CardStays(j)} \cup
    IF j \in watch.spared \/ carded[j] = MaxCards THEN {}
    ELSE IF watch.book[j].card = NoCard
         THEN {CardSent(j, shown[j], 0, answer) : answer \in SendAnswers}
         ELSE {IF edited \in Edited(chat.channel[j]) THEN CardStays(j)
               ELSE CardReplaced(j, deleted, answer) :
                   edited \in EditAnswers, deleted \in DeleteAnswers, answer \in SendAnswers}

\* The report of its start, until one has been answered.
ReportOutcomes(j) ==
    IF watch.book[j].started \/ ~chat.reporting THEN {"none"} ELSE {"ok", "refused", "unheard"}
ReportStarted(j) == opened' = [opened EXCEPT ![j] = @ \cup {bootId}]
ReportFails(report) == IF report \in {"refused", "unheard"} THEN 1 ELSE 0

Announce(j) ==
    /\ watch.at = "announcing" /\ j \in watch.todo
    /\ \E report \in ReportOutcomes(j), outcome \in CardOutcomes(j) :
          /\ mishaps' = mishaps + outcome.fails + ReportFails(report)
          /\ mishaps' <= MaxMishaps
          /\ shown' = [shown EXCEPT ![j] = outcome.up]
          /\ carded' = [carded EXCEPT ![j] = outcome.sent]
          /\ IF report \in {"ok", "unheard"} THEN ReportStarted(j) ELSE UNCHANGED opened
          /\ watch' = [watch EXCEPT !.todo = @ \ {j},
                          !.book = Booked(j, [watch.book[j] EXCEPT
                              !.started = @ \/ report = "ok", !.card = outcome.card])]
    /\ UNCHANGED <<job, adapterPid, entry, bootId, resets, chat>>

\* prune and save.  A counter of recoveries is kept for ten minutes, what has a
\* card or an open report as long as it takes.
PruneCounters(j, e) ==  \* Mutation of Prune
    IF j \notin Seen /\ e.card = NoCard /\ (~e.started \/ e.finished) THEN FreshEntry ELSE e

PruneCards(j, e) ==  \* Mutation of Prune
    IF j \in Seen \/ e.attempts > 0 THEN e ELSE FreshEntry

Prune(j, e) ==
    IF j \in Seen THEN e
    ELSE IF e.attempts > 0 /\ e.pin # "over" THEN [e EXCEPT !.pin = "held"]
    ELSE IF e.card # NoCard \/ (e.started /\ ~e.finished) THEN e
    ELSE FreshEntry

SaveTick ==
    /\ watch.at = "announcing" /\ watch.todo = {}
    /\ entry' = [j \in Jobs |-> Prune(j, watch.book[j])]
    /\ watch' = NoTick
    /\ UNCHANGED <<job, adapterPid, shown, carded, opened, bootId, resets, mishaps, chat>>

PinLapses(j) ==
    /\ watch.at = "idle" /\ entry[j].pin = "held"
    /\ Mishap
    /\ entry' = [entry EXCEPT ![j].pin = "over"]
    /\ UNCHANGED <<job, adapterPid, watch, shown, carded, opened, bootId, resets, chat>>

\* A tick that dies, or raises, saves nothing; a new process has a new boot id.
NewProcess == bootId' = bootId + 1

TickEnds ==
    /\ Mishap
    /\ watch' = NoTick
    /\ bootId' = bootId \/ NewProcess
    /\ UNCHANGED <<job, adapterPid, entry, shown, carded, opened, resets, chat>>

-----------------------------------------------------------------------------
SupervisorStep ==
    \/ Snap \/ FetchStatuses \/ BeginRecovery \/ BeginAnnouncing \/ SaveTick
    \/ \E j \in Jobs : Finalize(j) \/ Recover(j) \/ StopCard(j) \/ Escalate(j) \/ Announce(j)

SupervisorNext ==
    \/ SupervisorStep
    \/ \E j \in Jobs :
          \/ ClaimJob(j) \/ ThresholdPasses(j) \/ SpawnAdapter(j) \/ AdapterGone(j)
          \/ JobEnds(j) \/ OperatorRetries(j) \/ PinLapses(j)
    \/ TickEnds

SupervisorSpec == SupervisorInit /\ [][SupervisorNext]_supervisorVars

-----------------------------------------------------------------------------
(* Properties. *)

\* An event whose adapter keeps dying is recovered at most MaxAttempts times in
\* its life, whatever claims, re-queues and ticks come in between; a tick that
\* dies or a pin that lapses may grant as many again.
\* (decide, and what prune keeps of the counter)
RecoveriesBounded == \A j \in Jobs : resets[j] <= MaxAttempts * (1 + mishaps)

\* Every progress card in a chat, and every report that the company has open, is
\* one the supervisor remembers, and so it will be taken away: but for one for
\* each call that failed and each tick that died.
\* (_render_and_send, _finalize_completed, prune)
Tracked ==
    \A j \in Jobs :
        LET e == IF watch.at = "idle" THEN entry[j] ELSE watch.book[j] IN
        /\ Cardinality(shown[j] \ {e.card}) <= mishaps
        /\ opened[j] # {} /\ mishaps = 0 => e.started /\ ~e.finished

\* What the supervisor remembers outlives the ticks and the events' comings and
\* goings: the recoveries it has spent, and what it has put up (StateStore).
SupervisorRemembers == RecoveriesBounded /\ Tracked

\* The card of an event that has ended goes away.
CardGoes ==
    \A j \in Jobs : job[j].status \in {"done", "failed"} /\ mishaps = 0
                      ~> shown[j] = {} \/ job[j].status \in {"queued", "running"} \/ mishaps > 0

=============================================================================

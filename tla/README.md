# A verification project for juliuscaesar

juliuscaesar keeps a personal assistant running: chat channels write messages into a
durable queue, a gateway process hands each message to a "brain" (a command-line
language model), and sends the brain's answer back. Around it are a supervisor that
recovers stuck messages, a watchdog that restarts processes, background workers,
approvals, timed commitments, a link to the company that gives the assistant tasks,
and a number of pipelines over files that form its persona and its memory.

The core of the program, and the part its own audits (`docs/specs/jc-audit-phase1.md`
to `-phase3.md`) come back to, is the way of one message through the gateway: it must
not be lost, must not be run for ever, and must be answered at most once, although
leases lapse, processes crash, brains fail, the supervisor and the operator write the
same rows, and a send may time out after it was accepted. That part is modelled,
checked and proved about; the components around it are modelled and checked, each with
the faults that it has to live with.

## 1. Inventory

How the parts interact: channels call `enqueue`; the dispatch loop polls and claims;
brain threads call the ledger and then `complete` or `fail`; heartbeat threads call
`renew_lease`; recovery handlers call `enqueue` and `fail`; the supervisor calls
`reset_running_to_queued` and `mark_event_failed` from another process; the operator
calls `retry_now`. All of it meets in two SQLite tables, so one committed transaction
is one step of the models. The other components meet in files: a YAML, JSON, JSONL or
`.env` file that several processes read and write back whole, mostly without a lock. In
their models one read or one write of a file is one step.

| component | state it keeps | hard behaviour | correct when | module |
|---|---|---|---|---|
| Event queue `lib/gateway/queue.py` | table `events` | several processes and threads write one table; leases lapse under live holders; some callers do not name their claim | a lost claim never comes back; a live lease is respected; attempts are bounded; one claim is one conversation | `EventQueue` |
| Delivery ledger `queue.py`, `delivery.py`, `channels/registry.py` | table `deliveries` | death between send and record; a send fails after it was accepted | a reply is sent at most once; `sent` was sent | `DeliveryLedger`, `ReplyPromise` |
| Telegram sending `telegram_outbound.py` | none between calls | parts, voice and text, throttling, timeouts | no part twice, no gap | `TelegramSend` |
| Gateway dispatch `runtime.py` | threads, batches, slots, heartbeats | check before send, send before complete; batches written row by row; re-claims overtake threads | a message is answered once and settled; stale threads change nothing | `GatewayDispatch` |
| Triage and routing `router.py`, `overrides.py`, `brain_failure.py`, `triage/` | sticky brain, marks of failed brains and their file, verdict cache | marks change between triage and run; two slots save one file | a message goes where operator, triage and marks send it | `Routing` |
| Task work `goal_cache.py`, `runtime.py` | the goal of a conversation | bundles and slots mix the rows of tasks | every assignment is worked on; no echo; the goal follows the task | `TaskWork` |
| Adapter-failure recovery `recovery/` | markers in `meta`; `auth_pending` | handoff in two transactions; writes that do not name the claim | original and copy do not both answer; what was parked is replayed | `GatewayDispatch`, `Reauth`, `Sessions` |
| Supervisor `lib/supervisor/` | `state.json` | ticks that die; events leave and re-enter | recoveries bounded; every card goes | `Supervisor` |
| Sessions and compaction `sessions.py`, `lifecycle/` | session per slot, its telemetry | rotation races with a running brain | a session that is gated does not outgrow its limit | `Sessions` |
| Background cards `actions.py`, `actions_registry.py` | registry of runs | a button meets the end of the run | a stopped session has lost its leader and told the rest to end; the cap holds | `BrainSessions` |
| Gateway start and stop `bin/jc-gateway` | pidfile | two starts; recycled pids | orphans are swept | `GatewayDaemon` |
| Watchdog `lib/watchdog/` | `state.json` of a child | state read before the lock | restart budget; down is handled or reported | `Watchdog` |
| Workers `lib/workers/`, `bin/jc-workers` | table `workers`, event files | cancel, end and reconcile at once | a live runner is not reaped; all end | `Workers` |
| Approvals `lib/approvals/` | table `approvals` | decision against expiry; death inside the callback | a change has consent; a decision stands | `Approvals` |
| Self and user model `lib/self_model`, `lib/user_model` | staging, applied and rejected JSONL | files rewritten whole while others append | no proposal is lost or repeated | `Proposals` |
| Commitments, re-engagement `lib/commitments`, `lib/reengage` | one file per commitment | sent before archived; cancelled while sent | a touch goes out once | `Commitments` |
| Telegram polling, chat authorization | offset; `gateway.yaml` and `.env` | rewind in a batch; two files | every update accounted for; the operator's last word holds | `TelegramPoll`, `ChatAuth` |
| E-mail `lib/channels/email`, `bin/jc-email` | watermark, draft files | newest first; commands that cross | every mail accounted for; a draft is sent once | `EmailChannel` |
| Company `company_inbox.py`, `lib/company/` | seen tasks, cursor, outbox, key | cut-off answers, torn cursor, replay beside a drain, three writers of `.env` | closed means over; all is told and reported; the key is kept | `CompanyChannel`, `CompanyReporter`, `Enrollment` |
| Channel supervision `channel_lifecycle.py` | table of the channels' health, its file | threads that end while they are told to stop | table and file agree; given up for a stop alone | `ChannelThreads` |
| WhatsApp | sidecar, credentials, drafts | restart against stop and login | no sidecar left over but for a reader that fails, no deaf channel | `WhatsApp` |
| Codex tokens `lib/codex_auth` | `auth.json` | a refresh token is good once | it is not spent twice | `CodexAuth` |
| Deep research `lib/skills/gemini_deep_research` | job file, profile lock | starter, runner and cancel write one file | one job per profile; its end is kept | `DeepResearch` |
| Heartbeat tasks, cron `lib/heartbeat` | hashes, push markers, crontab | hash before brain; crontab without lock, or misread | a change is told once; blocks are kept | `Heartbeat`, `CronSync` |
| Memory `lib/memory`, tidying | notes, index, archive | rebuild beside writes; kill between archive and sheet | index follows files; nothing is tidied away | `MemoryIndex`, `Tidy` |
| Persona interview, dream | bindings, sections, reports, retained copies | kills; sections written meanwhile; windows by file name | no answer and no text is lost | `Interview`, `Dream` |

## 2. Modules

`EventQueueProofs`, `DeliveryLedgerProofs`, `GatewayDispatchProofs`, `ServicesProofs`,
`DaemonsProofs`, `SupervisorProofs` and `PeripheryProofs` hold theorems (section 5); `MCQueueStore`, `MCGatewayDispatch`, `MCServices`,
`MCDaemons`, `MCSupervisor` and `MCPeriphery` are the instances for TLC (section 3). Conventions of all modules: an
operator named `...Init`, `...Next`, `...TypeOK` per module; bounds are constants whose
comment begins with "bound"; a variable whose comment begins with "history" is read by
properties only; a counter of what went wrong (`upsets`, `mishaps`, `troubles`, ...) both bounds the
faults and lets a property say how much each fault may cost. An operator with a comment
"Mutation of X" is a plausible bug of X; no specification uses it.

### The way of a message

**EventQueue.** `row` is the table, with the columns a decision reads. The two comparisons
with the clock are kept and the clock is not: `lapsed` is the set of claim tokens whose
`locked_until` is past, `row[e].ready` says that `available_at` is. All rows of one claim
renew the same `locked_until`, so lapsing is a property of the token. A token is a number,
minted in order, as `mint_claim_token` never returns one twice; 0 is NULL. `claims` and
`granted` are history. Every operation of `queue.py` is one action; guarded `complete` and
`fail` are `Complete` and `Fail`, the calls without `expected_locked_by` are
`CompleteUnguarded` and `FailUnguarded`, which takes the retry count that its SELECT read
in an earlier transaction. `QueueNext` lets every caller call with any claim ever minted,
alive, stalled or dead.

**DeliveryLedger** and **ReplyPromise.** `sender[c]` is where claim `c` stands between
`begin_delivery` and the last ledger write; `replies[e]` counts what the user saw. A live
send returns an id, proves that nothing was sent, or is ambiguous; the second goes on to
the stateless fallback. `Crash` may hit any set of claims between any two steps.
`TransportFaults` adds two accidents that the code misjudges: a stateless send that times
out after it was accepted, and a long reply refused after its first part. `ReplyPromise`
is the abstract specification: it knows the stage of a reply and how often it arrived;
`KeepsPromise` maps the ledger to it.

**GatewayDispatch.** A thread is named by its claim token and goes through `phase`: waiting
for a slot, in the brain, at the ownership gate, sending, in the final loop of `complete`
or of `fail`, or in `handle_adapter_failure`. Each step is one transaction, one brain call
or one transport call. The brain is a choice: a reply, nothing to send, an exception, or
an `AdapterFailure` of a class in `Failures`. Coalesced batches are merged as
`_bundle_events` does, with `meta.coalesced_ids` (`listed`) and the redispatch markers
(`marks`) of the last row; `covers` is the set of messages whose text the event carries, so
that `answered[m]` counts replies to a message through its copies and bundles. The queue's
actions are those of `EventQueue` (extended), the ledger's those of `DeliveryLedger`
(instantiated). `LoopFree` is the serial loop: with `max_concurrent = 1` the loop runs the
brain itself and neither claims nor re-queues meanwhile.

**TelegramSend** is one delivery of the ledger in detail: the calls for a voice and for each
part of a text, each accepted, throttled, refused, unparsed, unreached or timed out, the
text after a failed voice, the stateless sender after a live one that provably did not
send. `said` is what is in the chat, in order.

**Routing** decides the brain of each message of one conversation over one or two lanes (the
serial loop or the slots): `/brain` and the sticky brain, the inline override, triage with
its cache, the unsafe verdict, pictures, the default, the marks of brains whose login has
ended with their file, and the backup. A lane goes through triage, the look at the marks,
the run, the save of the marks; a mark may expire or be written by another lane between
any two.

**TaskWork** follows the rows of the company's tasks (`memos`) through dispatch in one of
three modes: coalesced bundles, one row at a time, two slots. It keeps the goal, what the
brain was given and what the company heard.

**Reauth** has the rows of `auth_pending` with the list of parked events, read and written in
two transactions, the handler of each failing event, the token that is taken and redeemed,
and the replay. **Sessions** has the mapping slot to native session and the measured size
beside the true size, turns on the slots, the model that triage chose, the pressure gate of a model
with a context profile and the turns that pass it ungated, rotation, sessions the brain has lost, a context profile that is unavailable, and `/compact` as list, compare, delete.
**BrainSessions** has the process that leads a brain's group, what may outlive it (`orphans`: a codex
under the shell of its adapter), the registered entry, the thread that waits, and the poller's thread
that handles a tap on Stop or Background: debounce, SIGTERM to the group, a grace in which the leader
alone is looked at, SIGKILL, demotion; `role` is what the thread's snapshot found when the leader ended.

### Processes

**Supervisor**: a tick as its steps (load, snapshot, finalize, recover or escalate, announce
card by card, prune, save) on its own copy `watch.book` of `entry`; the queue's rows move
meanwhile. **GatewayDaemon**: processes, the pidfile, and `start` as look, fork, record, reap.
**Watchdog** runs over GatewayDaemon's processes: the tick of cron and the tick of `reload`
with load, lock, supervise, run `start`, save; time is `Minute`, which ages the attempts. **Workers**: row, spawner, runner, adapter process, canceller,
reconcile (`reaper`) and the event file (`notice`) of a worker. **Commitments**: each file with
its retries, the tick file by file, the queuer that adds the next touch of a silence, the
gateway's reset, the operator's cancel. **Approvals**: rows, raisers, one open decision
transaction, the readers that write an expiry, and the callback of each row as its steps up
to the file, the archive and the stamp. **Proposals**: what a cycle stages and how a proposal
leaves the staging file, as read, copy, rewrite. **DeepResearch**: starter, detached runner,
state file, profile lock, cancel. **Heartbeat**: a task's runs with lock, hash, brain, push marker
and delivery. **CronSync**: read, or take for empty what could not be read, compose, install, for two instances. **CodexAuth**: callers that
read, lock, re-read, post, save and call; generations of tokens are numbers.

### Channels, company and persona

**TelegramPoll**: `getUpdates`, the offset that passes an update before it is handled, the
rewind. **EmailChannel** (polls with the watermark; drafts and the
commands on them), **CompanyChannel** (tasks seen and taken as over; the feed and its cursor), **CompanyReporter**,
**Enrollment** (three writers of `.env` through one scratch file, the channel's key and id);
**ChatAuth** (each decision as a write of `gateway.yaml` and then of `.env`, from lists read
before); **WhatsApp** (the channel's thread, the sidecar, its reader thread and the events it fails on, sidecars
that a relaunch has left behind, logins, tiers and drafts). **MemoryIndex**: a note's file, its row, its links and `INDEX.md`, with clerks and a
rebuild that goes note by note. **Tidy**: a sweep as read, archive item by item, rewrite.
**Interview**: names asked, written into the files and recorded; sections asked about, backed
up and replaced; a brain that fills sections meanwhile. **Dream**: windows from report names,
artifacts with the text they replaced, replays, rejections.

## 3. Runs

Deadlock checking is off in all of them: when the bounds on messages, faults and commands
are used up, the instances come to rest, as the system does when nothing arrives.

`services`, `daemons`, `supervisor` and `periphery` each check several components that
share no state. A variable `focus`, chosen in the first state, says which of them moves;
the others stay in one initial state. So the behaviours of each are exactly those of its own
specification, the state spaces add up instead of multiplying, and one property of the run
(`SentOnce`, `NothingLostOrRepeated`, ...) is the conjunction, over the components, of
"when this one moves, its property holds". A fair action of a resting component is disabled, so
fairness asks nothing of it.

| run | instance | distinct states | what it shows |
|---|---|---|---|
| `queue_store` | 2 rows, 2 conversations and NULL, 3 claims, 1 retry; the ledger with 3 claims of 2 events, crashes | 678,150 | a lost claim stays lost, live leases are respected, attempts are bounded, one claim is one conversation; the ledger implements `ReplyPromise` |
| `dispatch_serial` | 1 message, 3 claims, every failure that is not handed on, 1 crash, supervisor and operator | 1,515,321 | `AnsweredOnce`; dispatch refines the ledger |
| `dispatch_parallel` | 2 messages of one conversation on 2 slots, 3 claims | 1,224,578 | `AnsweredOnce` with a re-claim beside the thread whose lease lapsed |
| `dispatch_handoff` | 2 messages, one with an id that channels repeat, 4 rows, 3 claims, lost sessions | 127,669 | original and copy do not both answer; a handed-off message lives on in one row; dispatch refines the queue; done is final; stale workers change nothing |
| `dispatch_settles` | 2 messages, coalescing, 4 claims, a retry, a crash; fair | 457,095 | each message ends done or failed |
| `services` | Workers, Approvals, GatewayDaemon, Commitments, Reauth, Sessions, TelegramPoll, EmailChannel (polls, drafts), CompanyChannel (tasks, feed), Enrollment, TelegramSend | 879,962 | a change follows consent and a decision stands; no worker is reaped alive and each ends; orphans are swept; a login replays what was parked; gated sessions stay bounded; nothing a source offered is passed over; drafts, touches and parts are sent once; tasks are reached |
| `daemons` | Watchdog over GatewayDaemon with 2 pids, 2 attempts in a window; CompanyReporter with 1 worker, 1 message and 1 incident; fair | 261,602 | restarts stay within the budget; a gateway that is down is started or reported; what was to be told to the company is told |
| `supervisor` | Supervisor with 1 job, 2 claims, 2 cards and 2 mishaps; TaskWork with 2 tasks and 3 rows; Routing with 2 messages | 998,968 | recoveries are bounded, what is shown is not forgotten, cards go; each task is worked on and told once; a message goes to the brain that was decided |
| `periphery` | BrainSessions, CodexAuth, DeepResearch, Heartbeat, CronSync, MemoryIndex, Tidy, ChatAuth, WhatsApp, Interview, Dream, Proposals, ChannelThreads | 2,382,600 | the operator is obeyed; nothing is lost or repeated; what is kept twice agrees |

The instances of `services` and `periphery`, per component, are in `MCServices.cfg` and
`MCPeriphery.cfg`, each constant under the name that its module explains. In `periphery` one
component moves and the others rest in their initial states, so the run's `VIEW`, the
variables of the one that moves, tells all reachable states apart and is cheaper to compare.

Why the bounds are enough. A row's life involves at most two claims at a time plus the
outsiders, so two events and three claims already show a stale holder, a fresh holder
and a third claim after both. `MaxRetries = 1` shows a first attempt, a retry and the cap.
One crash between any two steps leaves each kind of unfinished write; a second one meets
the same states. The queue run uses two conversations and NULL, the least with which
batches can mix. Around the gateway the hazards are pairs: two writers of a file, a reader
and a writer, an act and its record with a death in between. Each instance has two of each
process that can overlap with itself, two or three items where an order or a selection
matters (three updates for a rewind in the middle of a batch, three tasks for an answer
limited to two, three parts for a later part that is not the last), and one fault, two where
a fault meets the recovery from another. Where one item suffices (`Jobs`, `Hands`, `Talks`,
`Drafts`, `Wishes`) the component treats items independently, and each behaviour has the
item go round several times.

`StaleWorkerHarmless` and `DoneIsFinal` are checked for the serial gateway without
outsiders, where it is the loop's own waiting that protects the row (the mutant that lets
the loop claim meanwhile breaks both). With slots and a failing adapter `StaleWorkerHarmless` does
not hold of the code, see `stale_failure`; without one it is proved, see section 5.

Many properties of the components around the gateway have the form "it happens once, and
once more for each fault". The counter says which faults the code does not protect against, and what one of them
costs; with the bound on the faults at 0 the property has its plain form.

### What the code does and its documents do not say

Three runs are expected to find a violation, each of one property:

| run | what happens |
|---|---|
| `context_handoff_runs_twice` | `context_exhausted` enqueues a copy, fails the original, and returns Retry, whose unguarded `fail` re-queues the original: two replies |
| `stale_failure` | `handle_adapter_failure` calls `fail` without the claim's token; a slot thread that lost its lease changes a row of another claim |
| `task_swallowed` | the close of one task, coalesced behind the assignment of another, completes both as "(task closed)" and the assignment is never worked on |

More can be seen by changing one constant of a configuration, or by naming in it a property
that a module states and no run checks:

| change | what it shows |
|---|---|
| `MaxCrashes = 1` in `MCDispatchHandoff.cfg` | `AnsweredOnce`: a crash between the enqueue of a copy and the `fail` of its original (two transactions in `session_missing.py`) leaves both to reply (and `CarriedOnce`: both are worked on) |
| `Coalesce = TRUE`, `MaxCrashes = 1` in `MCDispatchHandoff.cfg`, no handoffs | `AnsweredOnce`: the ledger knows a batch by its head, so a crash between two completes (`runtime.py:873`) leaves a sibling that is answered again |
| `Coalesce = TRUE` in `MCDispatchHandoff.cfg` | `SkipMeansLost`: a copy of a coalesced event inherits `coalesced_ids` (`session_missing.py:77`), the gate finds the old rows lost and withholds the reply |
| `TransportFaults = {"lateTimeout"}` in `MCQueueStore.cfg` | `AtMostOnce`: the stateless sender's timeout becomes None (`registry.py:92`), and the reservation of a delivered reply is cleared |
| `TransportFaults = {"partialSend"}` there | `AtMostOnce`: a refusal of a later part makes `deliver_response` send all parts again |
| `SerialDispatch = FALSE` in `MCServices.cfg` | `ReplayedAll`: two slots append to one row from lists each has read, and an event is left parked though `session_expired.py:9-10` says that all are replayed |
| `FreshTokenTaken` of `Reauth` | after a failed login the prompt asks for a fresh token, and `Active` finds no row that would take it |
| `TerminalIsFinal` of `Workers` | a cancel next to the runner's end replaces one final status by another; `docs/kb/subsystem/workers-background-agents.md:33` has one terminal state |
| `OneGateway` of `GatewayDaemon` | two starts at once leave two gateways; `tests/test_gateway_orphan_reap.py:13` |
| `TerminalImmutable`, `AppliedOnce` of `Approvals` | an expiry found by a read overwrites a decision, and a callback run again adds the text again; `docs/specs/unified-approval-system.md:54`, `:127` |
| `LostSessionCleared`, `QueuedIsCompacted`, `FreshTurnRuns` of `Sessions` | a lost session may be resumed again; slots that `/compact` reports as queued are never compacted (`compaction.py:126-127`); in parallel slots a turn without a session can be refused for the size of one that is gone |
| `MailNotLost` of `EmailChannel` | the watermark passes a mail whose fetch failed (`adapter.py:149`, `imap_client.py:123-124`); `docs/specs/email-channel.md:84-87` says that it cannot |
| `OversizedNotResumed` of `Sessions`, with `Models = {"small"}` in `MCServices.cfg` | `_triage_capacity_guard` moves a large conversation to `claude:opus`, which has no context profile, so every later turn resumes the session ungated, of any size (`runtime.py:1851`, `:2737`); `docs/specs/context-aware-session-lifecycle.md:51` |
| `StopIsTerminal` of `BrainSessions` | a stopped session fails, and its event is retried in a new one; `docs/specs/supervisor-card-actions.md:43` |
| `StoppedIsGone` of `BrainSessions` | Stop polls the leader alone and sends no SIGKILL once that is gone (`actions.py:126`); a codex in its pipeline (`codex.sh:102`) may work on under a "Stopped" card; `docs/specs/supervisor-card-actions.md:24`, `:191` |
| `OthersUntouched` of `CronSync` | any exit status 1 of `crontab -l` reads as an empty crontab (`cron_sync.py:149`), and the blocks of the other instances are overwritten; `docs/specs/heartbeat-cron-sync.md:89-92` |
| `OneSidecar` of `WhatsApp` | an event that the reader fails to handle makes it start a second sidecar on the same login beside the first (`whatsapp_sidecar.py:192-198`, `:154`), which `stop` does not know of |
| `RebuildSyncs` of `MemoryIndex`, with `Odd = {n1}` in `MCPeriphery.cfg` | a rebuild gives a note whose frontmatter names another slug a row that it then deletes; `docs/kb/subsystem/memory-system.md:59` |

And what reading the code beside its documents shows, kept in the models as the code has it:

* Dispatch. A provably undelivered reply gives its reservation back for a retry
  (`runtime.py:2155-2157`), but the event is completed and none follows. `/brain` and `[brain]` inside a coalesced bundle
  are plain text. The sticky brain is never refreshed by messages (`docs/GATEWAY.md:70-71`
  says that it is). A backgrounded session makes every later message start a fresh one. A rejection notice whose send fails
  is lost (`docs/kb/subsystem/gateway-queue.md:126`). The backup for a brain without a login
  diverts only what triage classified. With two slots the saves of the failure marks can
  cross, so a mark need not survive a restart (`brain_failure.py:6`).
* Tasks. `[closed, updated]` of one bundle gives the control event to the brain; of two
  assignments in a bundle only the later task hears the reply; in slots an assigned row that waits a second sets its goal
  again after its close. `goal_cache.sweep` and `_close_task_from_reply` have no caller.
* Telegram. A voice that times out after it arrived is followed by the text. A later part that
  is not reached makes the stateless sender say the whole reply again. A reply throttled three
  times or refused keeps its reservation and is never sent again.
* Company. An agent id that could not be written to `.env` is dropped by the next reload, and
  every poll is then refused silently (`company_inbox.py:692-705`). The reporter never reloads its key. Overlapping
  writers of `.env` lose each other's keys.
* Authorization. `jc chats approve` answers "already approved" for a chat that is also
  blocked; a rejected sender approval neither blocks nor leaves
  (`unified-approval-system.md:265`; `leave_on_reject` is never read); `_block_chat` says that `.env` is not touched, and it is.
* Sessions. With `session_lifecycle` off, the default, nothing is measured or rotated before a turn; a brain
  that compacts by itself and a model without a context profile are resumed as they are. The capacity guard sends what has grown
  too large for `sonnet` or `haiku` to such a model.
* WhatsApp. A draft of a chat that is then trusted is sent by nobody
  (`docs/specs/whatsapp-channel.md:139`). The restart counter never resets. A start that fails leaves the channel
  deaf. The modes of login that show a QR code end the sidecar before it can be scanned.
* Background cards. A stopped session's event may be retried while the codex of the first run still works. Mid-task sends are "suppressed" by a parameter that no caller passes; a
  Background tap between the snapshot and `unregister` lets the end be told as a normal
  reply; in the serial loop Background frees nothing.
* Research, heartbeat, memory. The state file of a job can be overwritten by its starter or a
  late cancel. The hash of a task's input is saved before the brain runs, so a failed run's
  change is not told again. Links to a note that is removed and re-created are lost.
* Persona. The sections with `<slug>` in their path can never be filled (`splice.py` does not resolve it, `gaps.py`
  does). A section written while an interview goes on is overwritten unasked, with a backup.
  A kill between the files and `_save_bindings` loses recorded names. An empty answer is
  recorded and never asked again.
* Dream. Report names sort "replay-..." after all others, so after one replay every window begins
  at that replay's end. Ids contain the window's end, so a second run is never recognised as
  such (`docs/specs/dreaming-and-self-improve.md:425`). A reminder is rewritten each night, a day later.
  Rejections out of order bring rejected text back.
* Self and user model. `user_model/corpus.py:65` selects a status, `finished`, that the queue
  never writes, so the user model sees no event. The cooldown looks at staging only, so a
  rejected proposal comes back (`docs/specs/autonomous-user-model.md:251`). A proposal appended while another is
  moved is lost.
* Re-authentication and supervisor. `expire_pending_rows` has no caller. A supervisor that restarts finishes
  reports under a new boot id; those opened under the old one stay open.
* Cards. On Discord any JSON answer, a refusal with 403 or 429 too, counts as a deleted card, and so does "can't be
  deleted" on Telegram and Slack, while the docstrings say "success or already gone" (the model has one kind of channel,
  whose answers are Telegram's and Slack's). The edit of a demotion ("running in background")
  can land after the edit that says "done" and leave a stale card (`face` of `BrainSessions`).

## 4. Fairness

Only actions that something in the code makes happen again are fair. No message, fault, restart,
operator or outsider has to act.

* **Dispatch** (`DispatchFair`, `dispatch_settles`). `run_forever` catches what a pass raises and
  goes on, so the re-queueing of expired rows and `DispatchOnce` are weakly fair; a thread that
  is not stopped goes on (`ThreadStep`); time passes, so a backoff elapses and the lease of a
  claim whose thread has ended lapses. A living thread's lease need not lapse.
* **Workers** (`WorkersFair`). Spawner, runner and the `reconcile` of cron are weakly fair; a
  worker grows older than ten seconds. A cancel is not fair.
* **Watchdog** (`Fair` of `MCDaemons`). Cron runs the tick, and a tick, a start or a gateway that began goes on.
  `Minute` is strongly fair: the clock goes on, although other steps interrupt the state in
  which the model lets it tick.
* **Reporter** (`ReporterFair`). The loop registers, collects, posts and drains; `DrainSends` is strongly fair:
  the company is reachable again and again. Nothing is claimed for a company that stays away.
* **Supervisor** (`SupervisorMoves`). The daemon ticks every thirty seconds; within a tick one
  step follows the other.
* `SessionsFair` belongs to no run. It is there for `QueuedIsCompacted`, which the code does not have (section 3).

## 5. Proofs

The theorems hold for every value of the constants under the assumptions that the modules name
(`QueueBounds`, `DispatchConstants`, ...): bounds are naturals, and values like `NoConv` are none of the
things they stand beside. What else a theorem assumes is in its statement. Each follows the same
argument: an inductive invariant, which was first checked by TLC on the run's instance; a lemma that
the initial states satisfy it; lemmas, per action or group of actions, that a step keeps it; and the property from it.

**EventQueueProofs.** `QueueInv` has the types, that a row is locked exactly while it runs
and by a token that was minted, and that the rows of a token share a conversation. From it
`QueueTypeCorrect`, `ClaimsKeepToOneConversation`, and as action properties
`StaleWorkersStayStale` (a token is minted once and only the claim that mints it gives it to a
row) and `LiveLeasesAreRespected`. `PoisonEventStops` needs `BudgetKept`: a claim is paid for by
a charge or by what was granted; the bound alone does not survive a step.

**DeliveryLedgerProofs.** All assume `TransportFaults = {}`, that is, a transport that reports truly; the
two faults that the code misjudges break them (section 3). The invariant ties each sender's place to
the row that it reserved and to the count of replies. From it `LedgerTypeCorrect`, `RepliesAtMostOnce`,
`SentMeansDelivered`, `ReservationsStandWhenDelivered`, and the refinement `LedgerKeepsPromise`, step by step: each ledger
action is the promise's action on the same event or a stutter.

**GatewayDispatchProofs.** `DispatchInv` adds to the queue's invariant what threads hold: a batch that is
not empty, rows that exist. `MinOfSet` (a non-empty set of numbers has a least one, by the well-foundedness of `<`)
gives the lead of a batch. With it:
* `GatewayKeepsQueueTyped`, `GatewayKeepsConversationsApart`, `GatewayStopsPoisonEvents`: the queue's
  invariants within the gateway. They are proved of the invariants and not by way of
  `UsesQueue`, since the two bounds `MaxGranted` and `MaxFailures` stop the queue's own actions
  and not the gateway's: that refinement is checked by TLC on an instance where they do not bite.
* `GatewayUsesLedger`: the refinement of the ledger's protocol by the gateway, and with it
  `GatewayDeliversAtMostOnce`.
* `MessagesAnsweredOnce`: no message is answered twice, given `OneRowPerClaim` (no failure hands an
  event on as a copy, and no bundles: `coalesce_same_conversation` is off, or there are slots) and a transport that
  reports truly. `SingleMessages` says that a row carries one message and that what answered it
  was delivered for the row. With handoffs it is model-checked, and for `context_exhausted` it
  is false (`context_handoff_runs_twice`); bundles with a crash break it too (section 3).
* `StaleThreadsAreHarmless`, `DoneEventsStayDone` while no adapter fails
  (`NoAdapterFailures`: the unguarded `fail` of `handle_adapter_failure` is what breaks them, `stale_failure`);
  the last also without an operator, whose replay is there to run a finished event again.
* `GatewayIsTyped`: the queue's and the ledger's types, and those of the gateway's own variables from `WorkKept` (a
  thread's plan is about rows that exist, and a thread that was minted has begun), `WorldTyped` and `SendsOpenly` (only a
  thread that sends has a sender in flight). It needs no assumption about adapters, slots or transport.

**ServicesProofs.** Per component:
* `UpdatesHaveAnEnd` from `TracedBelow`: nothing without an end lies below the offset, below what
  Telegram has forgotten, or before an update that has one.
* `MailsHaveAnEnd` from `PollSound`: what a poll has passed is accounted for or in its batch, with any number of pollers.
* `TasksAreTold` from `ToldUpTo` (of each task the last update up to a cursor was told) for the cursor, its file and the poll's
  next cursor (`PollTells`).
* `NothingIsPassedOver`: the three in the composition, as the run checks it.
* `RunnersAreNotReaped` from `Together`, which relates a worker's row, spawner, runner and a reconcile that has read the row.
* `OrphansAreSwept` from `FewSpared`: of two starts about to fork each spares only what the other reaps.
* `SessionsStayBounded` from `Room`, `SlotSound`, `Apart`, `SizesBounded`: what a gate may let pass, with the
  growth that nobody measured and the turns that no gate saw (both are counted in `blind`), for any choice of `Models`. A measure that is reset beside a turn counts as growth unmeasured.
* `LoginReplaysAll`, with `SerialDispatch` (the default): handlers run one at a time, append to the row
  that is active, and what is parked is on the list that the replay reads.
* `ChangesHaveConsent` and, for steps, `DecisionsStand`, from `ApprovalsInv`: an applier past the gate has consent (`Consented`), an approval that
  is marked as applied was written (`Written`), an open decision is about a pending row
  (`DecidesPending`).
* `ClosuresAreTrue` from `InboxSound`: the closures that a poll is about to tell come from an answer that was whole.
* `KeyIsKept` from `OneWrites`: unless something adverse happened one writes at a time, and writes what `.env` holds
  with its own keys changed; `SaidSo` counts the channel's warnings.
* `DraftsGoOnce` from `Paid`: the sends of a reply and those that its commands may still make (`Owes`) are one, and one
  more for each slip.
* `PartsAreSaidOnce` from `Begun`: the parts before the one that a send is at are the end of the chat, and all of it
  while nothing is in doubt.
* `TouchesGoOnce` from `TouchSound`: the sends of a touch, the ticks that may send it (`Spenders`), a file that waits for a
  tick and one that the task is about to add are together at most one, and one more for each upset; `RetriesInv`
  bounds the number in a file, without which a file could not be told from a torn one.
* `TasksAreReached` and `WritingsGoOnce`: the first two and the last three in the composition, as the run checks them.
* `ServicesAreTyped`: each invariant above with the rest of its component's types (`TelegramRest`, `SendRest`,
  `CommitmentsRest`, ...). These say more than kinds: an update that was given up lies before the offset, a voice part is
  spoken only of an answer that has one, and a file is torn, absent or holds a number of retries. `RowsNamed` gives the
  types of `Reauth` without `SerialDispatch`.

**DaemonsProofs.** `WatchdogIsTyped`, and `BudgetIsKept` from `CopiesPaid`. The ticks work on copies of the state file,
so the proof counts what a copy does not know: the starts of the window that it lacks are paid for by the reloads,
resets and deaths there were, and a tick that has started and not yet saved owes the file one. The starts are a set, and the
argument is about cardinalities of differences of sets that lose their oldest members as the window moves.

**SupervisorProofs.** Three components and their composition:
* `SupervisorKeepsAccount` and `NothingIsForgotten` from `WatchInv`. That an event is recovered `MaxAttempts` times and
  `MaxAttempts` more for each mishap does not survive a step, as an entry is pruned with its count. `Accounted` counts the
  attempts that the entry knows of (`Credit`) against the recoveries there were; `EndedAnew` says that a pruned entry has
  none to account for. `TrackedOf` does the same for cards (`Stray`: those that the entry does not name) and incidents.
* `TasksAreWorked` from `WorkInv`: an assignment has one row, before the row that closes it (`RowsKnown`); what the company
  has heard is on that row (`HeardOnce`, `GivenToBrain`; not where rows are bundled); and one row at a time, without
  retries, the goal is that of the latest assignment taken up which is not closed (`InOrder`, `GoalKnown`).
* `MessagesAreRouted` from `RouteInv`. `Spared` counts for each message the runs lost on a brain without a login, the one
  that is at risk (`AtRisk`: no mark is fresh, or it was sent there before) and the mark that is about to go (`Dropped`);
  `Noticed` counts the notices sent and the one that may follow. For the newest pin, `PinsKept`: in the serial loop, while
  nothing went wrong and the login holds (`Calm`), pins are taken up in the order they came, and the newest one obeyed is
  the sticky one. The hypothesis about the login in `NewestPinHolds` comes from this proof: with three messages, rows that
  were bundled with a head whose login has ended return to the queue, and an older `/brain` among them is then obeyed last.
* `BrainIsAsDecided` and `WatchedIsTyped`: the last two, and the types of all three (`RowsTyped`), in the composition.

**PeripheryProofs.** Per component:
* `CrontabKeepsBlocks` from `ReadIsCurrent`: while no two syncs overlap, a sync has in hand what the crontab holds, or
  nothing when it misread it; and a block is the one last installed, or `spoilt`.
* `TokensAreSpentOnce` from `RefreshesAlone` and `HoldsGood`: who holds the lock is the only one to refresh, and who is
  about to save has the good pair.
* `ChangesAreToldOnce` from `RunsAlone` (one run of the task between lock and end) and `ToldSoFar`, which counts what the run
  may still tell.
* `ButtonsAreKept` from `StartedInOrder`, `RunsInOrder`, `TapSound`, `RoomForOne`: what the poller's one tap knows of the
  process it is about, and that between its look at the cap and the demotion nobody else demotes; and `OrphansTold`: what
  outlives the leader of its group has had the signal that ended the leader.
* `LastWordsHold` from `ReadsCurrent`, `DeniedAreBlocked`, `OneWriter`: what a writer read is what the file
  holds, unless two raced; the yaml decides against `.env`.
* `ResearchIsKept` from `OneProfile` and `JobSound`: a job that has written its end without haste is alone with its state file.
* `NothingIsTidiedAway` from `Put`, which places an item between its sheet, the archive and what a sweep has read of it.
* `ProposalsAreHandled` from `InOrder`: of what no two moves have in hand, everyone who moves has read what is staged, and
  what is staged or about to be holds a wish once.
* `InterviewIsKept` from `Spelling` (what a file spells is the session's answer or the record's) and `GapsOpen` (a gap that was
  empty at the look is empty still, if nobody else fills sections).
* `ChannelsAreTold` from `ThreadKeeps`: what the table says of a thread follows from its step (`RunTold`, `OverTold`), and
  what is on file from who is about to write.
* `LineIsKept` from `ReaderSound`: a reader that would start a process anew has looked at the flag before it was set,
  or sees it when it wakes; and `StraysCounted`: each sidecar left behind, and the one that a reader about to start a process
  would leave, has an exception to it.
* `IndexIsKept` from `AloneSound` (what a rebuild that nothing disturbed has copied is as in the files) and `InStep` (but for
  the note of the one that is at work, index and files agree), with `Odd = {}`: no frontmatter names another slug than
  its path, which is what breaks it (section 3).
* `DreamsAreKept` from `WindowsJoin` (the window under way touches what was reported before) and `Standing` (a dream replaces
  what was there before it, and what was rejected neither stands nor waits to be put back).
* `OperatorIsObeyed`, `NothingIsLostOrRepeated`, `CopiesAreKeptInStep`: two, six and five of these components in the composition,
  as the run checks them; the last with `Odd = {}`.
* `PeripheryIsTyped`: each invariant above with the rest of its component's types (`LineRest`, `CodexRest`, `AuthRest`, ...),
  for instance that a reader which is alive has relaunched no oftener than it may (`LineRest`), that a refresh token is posted four times at
  most (`CodexRest`) and that a prompt in memory has its card (`AuthRest`). It holds with any `Odd`.

Every invariant that a run checks is the statement of a theorem, some under the hypotheses named above. Only model-checked
are: `UsesQueue` (the bounds, see above); `AnsweredOnce` and `CarriedOnce` with handoffs; and `DoneIsFinal` and
`StaleWorkerHarmless` with adapters that fail (in the serial loop). Out of the
provers' reach are the liveness properties (`EventuallySettled`, `WorkersSettle`, `CardGoes`, `NothingLeftWaiting`), since the
installed provers handle neither fairness with `ENABLED` nor induction over data.

## 6. What is left out

* Of the queue: claiming by hand without `max_retries` (`jc-gateway claim`), the claim with a list of
  sources (a filter on the same selection), read-only commands.
* Of dispatch: replies that go out beside the ledger are `NothingToSend` (slash commands, notices). The
  token of a login and the control events of tasks complete at once there; `Reauth` and `TaskWork` have them in detail.
  Which slot a parallel turn takes is "any free one": the prefilter and the classifier that decide whether a
  message waits or runs beside another are planned (section 7). Backpressure at the depth cap is left out: the count and the
  insert are two transactions, so the cap is approximate, and nothing depends on it being exact.
* Of the channels: Slack and Discord keep no position that a property could be about; media, albums,
  voice synthesis and recognition are calls to services.
* Of the processes: the intelligence tick of the watchdog, and its second child, which is the first once more.
* Of sessions and brains: the gate's upgrade to a larger profile, which takes a session on instead of rotating it;
  the fresh session that a backgrounded one forces on the conversation (`runtime.py:1864-1875`); a brain's leader that is killed
  alone from outside, and what a brain detaches from its process group.
* Of the self model: notes for `JOURNAL.md`, which ask for no consent (`applier.py:42`, `cli.py:124`); `Approvals` is about the
  files that do.
* Of the data: in `Sessions` the classifier may answer any slot (`Related`), and when a slot was used is not kept (`LeastUsed`); the
  watchdog's attempts are a set of records (age and tick), as the list's order is never read; a draft's slips are counted per
  reply, and the files of `done/` and `failed/` per silence, as the task counts them.
* Of the bounds: `MaxFalls` of `BrainSessions` counts failed edits as well as crashes of the gateway; in `ChatAuth`
  deaths and overlaps together stay within `MaxSlips`.
* Skills, installers, the upgrade, `jc-doctor` and the parsing of the configuration are single passes by one process
  with no state in between.

## 7. Plan

In this order:

1. `AnsweredOnce` with the handoff of a lost session in the serial loop, whose argument is that original and copy never
   both are alive.
2. A module for the slots of a conversation (prefilter, the classifier's verdict, waiting), with one run per slot and
   nobody waiting for ever.

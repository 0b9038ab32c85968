------------------------------ MODULE Routing -------------------------------
(***************************************************************************)
(* Which brain a message of one conversation goes to: the `/brain` command *)
(* and the `[brain]` prefix, the sticky brain, triage with its cache, the  *)
(* brain for what triage finds unsafe, and the marks of brains whose login *)
(* has ended, which route a class of messages to its backup.  The serial   *)
(* loop coalesces what is ready, and the slots take one message each.  Of  *)
(* the specs "claude:opus" and "claude:haiku" only the brain is kept: one  *)
(* login, one mark.  What the send of a reply does is DeliveryLedger's.    *)
(*   lib/gateway/{runtime,router,overrides,brain_failure}.py,              *)
(*   lib/gateway/triage/cache.py, lib/gateway/sessions.py                  *)
(***************************************************************************)
EXTENDS Naturals, FiniteSets, FiniteSetsExt

CONSTANTS
    MaxInbound,     \* messages, in the order in which they arrive
    MaxTries,       \* max_retries
    MaxMischief     \* bound: crashes, failed calls, failed sends, marks that expire

ASSUME RoutingAssumption == {MaxInbound, MaxTries, MaxMischief} \subseteq Nat

VARIABLES
    setup,      \* gateway.yaml: max_concurrent, the unsafe brain, the pinned default
    sort,       \* message -> what is in it
    phase,      \* message -> its row
    tries,      \* message -> retry_count
    backing,    \* messages that may not be claimed yet
    sticky,     \* the message whose `/brain` is in force, or 0
    verdicts,   \* the triage cache: what was asked together -> the verdict
    login,      \* whether claude's login holds: "good", "gone", then "renewed"
    mark,       \* claude's mark in memory: "none", "fresh", "old"
    stored,     \* and in brain_failure.json
    run,        \* slot -> the event that it runs
    notices,    \* history: message -> answers sent outside the ledger
    obeyed,     \* history: `/brain` messages that set the sticky brain
    spent,      \* history: message -> runs lost on claude, of a class with a backup
    clears,     \* history: how often a success took the mark away
    mischief    \* how much went wrong

routingVars == <<setup, sort, phase, tries, backing, sticky, verdicts, login, mark,
                 stored, run, notices, obeyed, spent, clears, mischief>>

Inbound == 1..MaxInbound
Lanes == 1..2
Marks == {"none", "fresh", "old"}
Brains == {"none", "claude", "spare", "contained"}
Hints == {"none", "override", "odd", "sticky", "voice", "work", "unsure", "unsafe", "primary"}
NoJob == [batch |-> {}, at |-> "idle", hint |-> "none", brain |-> "none",
         why |-> "none", began |-> TRUE, copy |-> "none", then |-> "idle"]

RoutingTypeOK ==
    /\ phase \in [Inbound -> {"away", "queued", "running", "done", "failed"}]
    /\ tries \in [Inbound -> 0..(MaxTries + 1)] /\ backing \subseteq Inbound
    /\ sticky \in 0..MaxInbound
    /\ mark \in Marks /\ stored \in Marks
    /\ \A l \in Lanes :
          /\ run[l].hint \in Hints /\ run[l].brain \in Brains
          /\ (run[l].at = "idle") <=> (run[l].batch = {})
          /\ \A m \in run[l].batch : phase[m] = "running"
    /\ run[1].batch \cap run[2].batch = {}
    /\ \A m \in Inbound : phase[m] = "failed" <=> tries[m] = MaxTries + 1
    /\ obeyed \subseteq Inbound /\ mischief \in 0..MaxMischief

RoutingInit ==
    /\ setup \in {[lanes |-> n, unsafe |-> u, pinned |-> p] :
                    n \in 1..2, u \in {"reject", "contain"}, p \in BOOLEAN}
    /\ setup.pinned => setup.unsafe = "contain" /\ setup.lanes = 1
    /\ sort \in [Inbound -> {"text", "picture", "voice", "inline", "odd", "pin"}]
    /\ Cardinality({m \in Inbound : sort[m] \notin {"text", "pin"}}) <= 1
    /\ \A m \in Inbound : setup.lanes = 2 => setup.unsafe = "contain" /\ sort[m] = "text"
    /\ \A m \in Inbound : setup.pinned => sort[m] \in {"text", "picture"}
    /\ \A m \in Inbound : setup.unsafe = "reject" => sort[m] \in {"text", "pin"}
    /\ phase = [m \in Inbound |-> "away"]
    /\ tries = [m \in Inbound |-> 0] /\ backing = {}
    /\ sticky = 0 /\ verdicts = [b \in SUBSET Inbound |-> "none"]
    /\ login = "good" /\ mark = "none" /\ stored = "none"
    /\ run = [l \in Lanes |-> NoJob]
    /\ notices = [m \in Inbound |-> 0] /\ obeyed = {}
    /\ spent = [m \in Inbound |-> 0] /\ clears = 0 /\ mischief = 0

Mischief == mischief < MaxMischief /\ mischief' = mischief + 1

rowVars == <<phase, tries, backing>>
markVars == <<mark, stored, clears>>
sideVars == <<sticky, verdicts, notices, obeyed, spent>>
fixedVars == <<setup, sort>>

-----------------------------------------------------------------------------
(* The loop.                                                               *)

Arrive(m) ==
    /\ phase[m] = "away" /\ \A n \in 1..(m - 1) : phase[n] # "away"
    /\ phase' = [phase EXCEPT ![m] = "queued"]
    /\ UNCHANGED <<fixedVars, tries, backing, sideVars, login, markVars, run, mischief>>

Ready == {m \in Inbound \ backing : phase[m] = "queued"}

\* dispatch_once: the serial loop takes all that is ready in one bundle; with slots
\* the oldest goes to a free one (which one matters to the sessions alone).
Taken == IF setup.lanes = 1 THEN Ready ELSE {Min(Ready)}

ClaimFor(l) ==
    /\ l = Min({k \in 1..setup.lanes : run[k] = NoJob} \cup {3}) /\ Ready # {}
    /\ run' = [run EXCEPT ![l] = [NoJob EXCEPT !.batch = Taken, !.at = "claimed"]]
    /\ phase' = [m \in Inbound |-> IF m \in Taken THEN "running" ELSE phase[m]]
    /\ UNCHANGED <<fixedVars, tries, backing, sideVars, login, markVars, mischief>>

\* _pick_slot: related to a slot that is busy, or all are: back for a second.
SlotQueued ==
    /\ setup.lanes = 2 /\ Ready # {} /\ \E l \in Lanes : run[l] # NoJob
    /\ backing' = backing \cup {Min(Ready)}
    /\ UNCHANGED <<fixedVars, phase, tries, sideVars, login, markVars, run, mischief>>

BackoffOver(m) ==
    /\ m \in backing
    /\ backing' = backing \ {m}
    /\ UNCHANGED <<fixedVars, phase, tries, sideVars, login, markVars, run, mischief>>

Lone(l) == CHOOSE m \in Inbound : run[l].batch = {m}
Content(l) == IF Cardinality(run[l].batch) = 1 THEN sort[Lone(l)] ELSE "text"
Goes(l, at, hint) == run' = [run EXCEPT ![l].at = at, ![l].hint = hint]
GoesOn(l, at) == run' = [run EXCEPT ![l] = [NoJob EXCEPT !.batch = run[l].batch, !.at = at]]

\* _handle_slash: `/brain` sets the sticky brain, and is answered next.
Pin(l) ==
    /\ run[l].at = "claimed" /\ Content(l) = "pin"
    /\ sticky' = Lone(l) /\ obeyed' = obeyed \cup {Lone(l)}
    /\ GoesOn(l, "noticing")
    /\ UNCHANGED <<fixedVars, rowVars, verdicts, notices, spent, login, markVars, mischief>>

StickyHolds == sticky # 0

\* Up to the classifier.  A bundle is neither a command nor has it a prefix; what
\* is prefixed, sticky, a voice message or in the cache is not classified.
Hinted(l) ==
    CASE Content(l) = "inline" -> "override"
      [] Content(l) = "odd" -> "odd"
      [] Content(l) \notin {"inline", "odd"} /\ StickyHolds -> "sticky"
      [] Content(l) = "voice" /\ ~StickyHolds -> "voice"
      [] OTHER -> verdicts[run[l].batch]

Begin(l) ==
    /\ run[l].at = "claimed" /\ Content(l) # "pin"
    /\ Goes(l, IF Hinted(l) = "none" THEN "asking" ELSE "route", Hinted(l))
    /\ UNCHANGED <<fixedVars, rowVars, sideVars, login, markVars, mischief>>

\* The classifier answers, surely or below the threshold, and the cache keeps it.
Classify(l) ==
    /\ run[l].at = "asking"
    /\ \E v \in {"work", "unsure", "unsafe"} :
          /\ Goes(l, "route", v)
          /\ verdicts' = [verdicts EXCEPT ![run[l].batch] = v]
    /\ UNCHANGED <<fixedVars, rowVars, sticky, notices, obeyed, spent, login, markVars,
                   mischief>>

\* It fails: no hint.
ClassifyFails(l) ==
    /\ run[l].at = "asking" /\ Mischief
    /\ Goes(l, "route", "none")
    /\ UNCHANGED <<fixedVars, rowVars, sideVars, login, markVars>>

\* is_failed, while a class is turned into a hint: an expired mark is found.
Expired(hint) == hint \in {"work", "unsure", "voice"} /\ mark = "old"

FindExpired(l) ==
    /\ run[l].at = "route" /\ Expired(run[l].hint)
    /\ Goes(l, "dropping", run[l].hint)
    /\ UNCHANGED <<fixedVars, rowVars, sideVars, login, markVars, mischief>>

\* Unsafe, and there is no brain for it: only a notice.
Rejects(hint) == hint = "unsafe" /\ setup.unsafe = "reject"

Reject(l) ==
    /\ run[l].at = "route" /\ Rejects(run[l].hint)
    /\ GoesOn(l, "noticing")
    /\ UNCHANGED <<fixedVars, rowVars, sideVars, login, markVars, mischief>>

\* Mutation of Triaged: the marks are not consulted.
TriagedAlways(hint) == IF hint = "unsafe" THEN "contained" ELSE "claude"

\* _triage_to_hint, and _triage_unsafe_fallback_hint: the class "work" has a backup,
\* voice messages and what triage is unsure of have none.
Triaged(hint) ==
    CASE hint = "unsafe" -> "contained"
      [] hint = "work" /\ mark # "none" -> "spare"
      [] OTHER -> "claude"

\* Mutation of Selected: the pinned default comes before the unsafe brain.
SelectedPinnedFirst(hint) ==
    CASE hint \in {"override", "odd"} ->
           [brain |-> IF hint = "odd" THEN "contained" ELSE "claude", why |-> "override"]
      [] hint \notin {"override", "odd"} /\ setup.pinned ->
           [brain |-> "claude", why |-> "default"]
      [] hint \in {"work", "voice", "primary", "unsafe"} /\ ~setup.pinned ->
           [brain |-> Triaged(hint), why |-> "triage"]
      [] OTHER -> [brain |-> "claude", why |-> hint]

\* route: the first of these that applies.
Selected(hint) ==
    CASE hint \in {"override", "odd"} ->
           [brain |-> IF hint = "odd" THEN "contained" ELSE "claude", why |-> "override"]
      [] hint = "unsafe" -> [brain |-> Triaged(hint), why |-> "triage"]
      [] hint \notin {"override", "odd", "unsafe"} /\ setup.pinned ->
           [brain |-> "claude", why |-> "default"]
      [] hint \in {"work", "voice", "primary"} /\ ~setup.pinned ->
           [brain |-> Triaged(hint), why |-> "triage"]
      [] OTHER -> [brain |-> "claude", why |-> hint]

\* A picture needs a brain that sees, whatever the choice was.
SeenMarks(l, choice) ==
    IF /\ \E m \in run[l].batch : m = Max(run[l].batch) /\ sort[m] = "picture"
       /\ ~setup.pinned /\ choice.brain = "contained"
    THEN [brain |-> "claude", why |-> "vision"]
    ELSE choice

\* process_event, up to the brain.
Route(l) ==
    /\ run[l].at = "route" /\ run[l].hint # "odd"
    /\ ~Expired(run[l].hint) /\ ~Rejects(run[l].hint)
    /\ LET choice == SeenMarks(l, Selected(run[l].hint))
       IN run' = [run EXCEPT ![l].at = "running", ![l].brain = choice.brain,
                             ![l].why = choice.why, ![l].began = login # "gone"]
    /\ UNCHANGED <<fixedVars, rowVars, sideVars, login, markVars, mischief>>

-----------------------------------------------------------------------------
(* How it ends.                                                            *)

Ends(l) == run' = [run EXCEPT ![l] = NoJob]

\* queue.fail on some rows: one more try, or the last.
Charge(batch) ==
    /\ tries' = [m \in Inbound |-> IF m \in batch THEN tries[m] + 1 ELSE tries[m]]
    /\ phase' = [m \in Inbound |-> IF m \notin batch THEN phase[m]
                                   ELSE IF tries[m] = MaxTries THEN "failed" ELSE "queued"]

\* Something raises: every row of the batch is charged, and backs off.  So it is
\* with a prefix that names the brain for unsafe messages, which is refused, and
\* with a mark that another slot drops in the meantime.
Raises(l) ==
    /\ \/ run[l].at = "route" /\ run[l].hint = "odd" /\ UNCHANGED mischief
       \/ run[l].at = "dropping" /\ mark = "none" /\ UNCHANGED mischief
       \/ run[l].at = "running" /\ Mischief
    /\ Charge(run[l].batch)
    /\ backing' = backing \cup {m \in run[l].batch : tries[m] < MaxTries}
    /\ Ends(l)
    /\ UNCHANGED <<fixedVars, sideVars, login, markVars>>

\* The store: the memory changes, and the file is written after it, with what the
\* memory was.
Stores(l, value, then, hint) ==
    /\ mark' = value
    /\ run' = [run EXCEPT ![l] = [NoJob EXCEPT !.batch = run[l].batch, !.at = "saving",
                                              !.copy = value, !.then = then, !.hint = hint]]
    /\ UNCHANGED stored

Save(l) ==
    /\ run[l].at = "saving"
    /\ stored' = run[l].copy
    /\ run' = [run EXCEPT ![l].at = run[l].then, ![l].copy = "none",
                          ![l].then = "idle"]
    /\ UNCHANGED <<fixedVars, rowVars, sideVars, login, mark, clears, mischief>>

\* The class goes to its first brain, whatever is marked from here on.
DropMark(l) ==
    /\ run[l].at = "dropping" /\ mark # "none"
    /\ Stores(l, "none", "route", IF run[l].hint = "work" THEN "primary" ELSE run[l].hint)
    /\ UNCHANGED <<fixedVars, rowVars, sideVars, login, clears, mischief>>

\* A brain that answers is no longer marked.
Clears(l) == mark # "none" /\ run[l].brain = "claude"

\* A run that began while the login held may still end well.
Succeeds(l) ==
    /\ run[l].at = "running"
    /\ IF Clears(l)
       THEN /\ Stores(l, "none", "finishing", "none")
            /\ clears' = IF run[l].brain = "claude" THEN clears + 1 ELSE clears
       ELSE GoesOn(l, "finishing") /\ UNCHANGED markVars
    /\ run[l].brain = "claude" => login # "gone" \/ run[l].began
    /\ UNCHANGED <<fixedVars, rowVars, sideVars, login, mischief>>

\* _try_brain_backup: the adapter says that the login has ended.  Some class goes
\* to claude and has a backup, so that it is marked and the event retried at once,
\* whoever chose claude.
LoginRefused(l) ==
    /\ run[l].at = "running" /\ run[l].brain = "claude"
    /\ login = "gone" \/ ~run[l].began
    /\ Stores(l, "fresh", "retrying", "none")
    /\ spent' = [m \in Inbound |->
                   IF m \in run[l].batch /\ run[l].hint \in {"work", "primary"} /\ run[l].why = "triage"
                   THEN spent[m] + 1 ELSE spent[m]]
    /\ UNCHANGED <<fixedVars, rowVars, sticky, verdicts, notices, obeyed, login, clears,
                   mischief>>

\* The head is charged; what was bundled with it stays running.
Retry(l) ==
    /\ run[l].at = "retrying"
    /\ Charge({Min(run[l].batch)})
    /\ Ends(l)
    /\ UNCHANGED <<fixedVars, backing, sideVars, login, markVars, mischief>>

\* The answer to `/brain`, and the notice: sent beside the ledger, and done even
\* when the send fails.
Notify(l) ==
    /\ run[l].at = "noticing"
    /\ \/ /\ notices' = [m \in Inbound |->
                           IF m \in run[l].batch THEN notices[m] + 1 ELSE notices[m]]
          /\ UNCHANGED mischief
       \/ Mischief /\ UNCHANGED notices
    /\ GoesOn(l, "finishing")
    /\ UNCHANGED <<fixedVars, rowVars, sticky, verdicts, obeyed, spent, login, markVars>>

\* Nobody asks again for what is done.
Finish(l) ==
    /\ run[l].at = "finishing"
    /\ phase' = [m \in Inbound |-> IF m \in run[l].batch THEN "done" ELSE phase[m]]
    /\ verdicts' = [verdicts EXCEPT ![run[l].batch] = "none"]
    /\ spent' = [m \in Inbound |-> IF m \in run[l].batch THEN 0 ELSE spent[m]]
    /\ tries' = [m \in Inbound |-> IF m \in run[l].batch THEN 0 ELSE tries[m]]
    /\ Ends(l)
    /\ UNCHANGED <<fixedVars, backing, sticky, notices, obeyed, login, markVars,
                   mischief>>

\* A row that nobody runs: its lease expires.
Lapse(m) ==
    /\ phase[m] = "running" /\ \A l \in Lanes : m \notin run[l].batch
    /\ Charge({m})
    /\ UNCHANGED <<fixedVars, backing, sideVars, login, markVars, run, mischief>>

-----------------------------------------------------------------------------
(* The gateway, the clock and the login.                                   *)

\* The gateway dies and is started again: it reads its file of marks.
Reboot ==
    /\ Mischief /\ \E l \in Lanes : run[l] # NoJob
    /\ run' = [l \in Lanes |-> NoJob]
    /\ mark' = stored /\ verdicts' = [b \in SUBSET Inbound |-> "none"]
    /\ UNCHANGED <<fixedVars, rowVars, sticky, notices, obeyed, spent, login, stored, clears>>

\* Six hours, which no write of the file takes.
MarkAges ==
    /\ Mischief /\ mark = "fresh" /\ \A l \in Lanes : run[l].at # "saving"
    /\ mark' = "old" /\ stored' = IF stored = "fresh" THEN "old" ELSE stored
    /\ UNCHANGED <<fixedVars, rowVars, sideVars, login, run, clears>>

\* Thirty seconds, and the idle time of a sticky brain.
VerdictsLapse ==
    /\ \E b \in SUBSET Inbound : verdicts[b] # "none"
    /\ verdicts' = [b \in SUBSET Inbound |-> "none"]
    /\ UNCHANGED <<fixedVars, rowVars, sticky, notices, obeyed, spent, login, markVars, run,
                   mischief>>

StickyLapses ==
    /\ sticky # 0
    /\ sticky' = 0
    /\ UNCHANGED <<fixedVars, rowVars, verdicts, notices, obeyed, spent, login, markVars, run,
                   mischief>>

LoginChanges ==
    /\ login # "renewed"
    /\ login' = IF login = "good" THEN "gone" ELSE "renewed"
    /\ UNCHANGED <<fixedVars, rowVars, sideVars, markVars, run, mischief>>

LaneStep(l) ==
    \/ ClaimFor(l) \/ Pin(l) \/ Begin(l) \/ Classify(l) \/ ClassifyFails(l)
    \/ FindExpired(l) \/ Reject(l) \/ Route(l) \/ Raises(l) \/ Save(l) \/ DropMark(l)
    \/ Succeeds(l) \/ LoginRefused(l) \/ Retry(l) \/ Notify(l) \/ Finish(l)

RoutingNext ==
    \/ \E m \in Inbound : Arrive(m) \/ BackoffOver(m) \/ Lapse(m)
    \/ \E l \in Lanes : LaneStep(l)
    \/ SlotQueued \/ Reboot \/ MarkAges \/ VerdictsLapse \/ StickyLapses \/ LoginChanges

RoutingSpec == RoutingInit /\ [][RoutingNext]_routingVars

-----------------------------------------------------------------------------
(* Properties. *)

\* What triage sends to a brain whose login has ended goes on to the backup: a
\* message is lost on that brain once, and again only for each answer of the brain
\* that took the mark away, and for what went wrong (_triage_to_hint, clear).
DivertedInTime == \A m \in Inbound : spent[m] <= 1 + clears + 2 * mischief

\* A message that triage found unsafe runs on the brain for such messages and on no
\* other, unless it is a picture, which goes to a brain that sees (_maybe_triage,
\* route, process_event).
UnsafeContained ==
    \A l \in Lanes : run[l].at = "running" /\ run[l].hint = "unsafe" =>
        setup.unsafe = "contain" /\ (run[l].brain = "contained" \/ run[l].why = "vision")

\* In the serial loop the sticky brain is that of the newest `/brain` obeyed, until
\* a crash, a failure or a login that ends has an older one repeated: the rows that
\* were bundled with a refused head lapse in any order (_handle_slash, record_response).
NewestPinHolds ==
    setup.lanes = 1 /\ mischief = 0 /\ login = "good" /\ sticky # 0 => sticky = Max(obeyed)

\* The serial loop keeps the file of marks as the memory is, so that they survive
\* a restart (brain_failure.py).
MarksOnDisk ==
    setup.lanes = 1 /\ (\A l \in Lanes : run[l].at # "saving") => stored = mark

\* What is answered beside the ledger is answered once, and again only after a
\* crash; a rejection or a `/brain` that is over was answered, unless a send failed.
NoticesGiven ==
    \A m \in Inbound :
        /\ notices[m] <= 1 + mischief
        /\ m \in obeyed /\ phase[m] = "done" /\ mischief = 0 => notices[m] = 1

RoutedAsDecided ==
    DivertedInTime /\ UnsafeContained /\ NewestPinHolds /\ MarksOnDisk /\ NoticesGiven

=============================================================================

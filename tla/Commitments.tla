---------------------------- MODULE Commitments ----------------------------
(***************************************************************************)
(* Commitments, one YAML file each, and the re-engagement task that writes *)
(* them: a tick fires what is due and archives it, the task queues the     *)
(* next touch of a chat that is silent, a reply removes what is queued.    *)
(* Files are the only shared state, and nothing locks them.                *)
(*   lib/commitments/engine.py, lib/reengage/queuer.py, bin/jc-commitments *)
(***************************************************************************)
EXTENDS Naturals, FiniteSets

CONSTANTS
    NoSlug,
    Tickers,        \* the tick of the heartbeat, `jc-commitments tick` by hand
    Repeating,      \* slugs of commitments added by hand, which repeat daily
    MaxTouches,     \* touches per silence
    MaxSilences,    \* bound: how often the chat falls silent
    MaxUpsets       \* bound: ticks that die, overlap, meet a cancel or are half read

Touches == [silence : 1..MaxSilences, n : 1..MaxTouches]
Slugs == Touches \cup Repeating

ASSUME CommitmentsAssumption ==
    /\ IsFiniteSet(Tickers)
    /\ MaxTouches \in Nat /\ MaxSilences \in Nat /\ MaxUpsets \in Nat
    /\ NoSlug \notin Slugs /\ Touches \cap Repeating = {}

VARIABLES
    pending,    \* each slug's file in state/commitments: its retries, if whole
    filed,      \* how many files of each silence's touches are in done/ and failed/
    givenUp,    \* the slugs with a file in failed/
    ticker,     \* the tick of the heartbeat, and `jc-commitments tick`
    queuer,     \* the touch that the re-engagement task will add
    silence,    \* the chat's silence: its number, and whether it is long yet
    resetDue,   \* the gateway has not completed the chat's last message yet
    sent,       \* history: how often a touch was sent
    upsets      \* ticks that died, overlapped, met a cancel, were half read

commitmentsVars == <<pending, filed, givenUp, ticker, queuer, silence, resetDue,
                     sent, upsets>>

\* A file's content: the number of retries it holds; or the file is half
\* written, or not there.
Retries == 0..(3 + MaxUpsets)
Torn == 4 + MaxUpsets
Absent == 5 + MaxUpsets

Resting == [at |-> "rest", slug |-> NoSlug, retries |-> 0, gives |-> FALSE]

Whole(s) == pending[s] \in Retries

CommitmentsTypeOK ==
    /\ pending \in [Slugs -> Retries \cup {Absent, Torn}]
    /\ filed \in [1..MaxSilences -> Nat]
    /\ givenUp \subseteq Slugs
    /\ \A t \in Tickers :
          /\ ticker[t].at \in {"rest", "sending", "ok", "opening", "writing", "moving"}
          /\ ticker[t].slug \in Slugs \cup {NoSlug}
          /\ ticker[t].retries \in Retries
          /\ ticker[t].gives \in BOOLEAN
    /\ queuer.at \in {"idle", "adding", "writing"}
    /\ queuer.slug \in Touches \cup {NoSlug}
    /\ silence \in [number : 0..MaxSilences, long : BOOLEAN]
    /\ resetDue \in BOOLEAN
    /\ sent \in [Touches -> Nat]
    /\ upsets \in 0..MaxUpsets

CommitmentsInit ==
    /\ pending = [s \in Slugs |-> IF s \in Repeating THEN 0 ELSE Absent]
    /\ filed = [i \in 1..MaxSilences |-> 0]
    /\ givenUp = {}
    /\ ticker = [t \in Tickers |-> Resting]
    /\ queuer = [at |-> "idle", slug |-> NoSlug]
    /\ silence = [number |-> 0, long |-> FALSE]
    /\ resetDue = FALSE
    /\ sent = [s \in Touches |-> 0]
    /\ upsets = 0

UpsetIf(cond) ==
    /\ cond => upsets < MaxUpsets
    /\ upsets' = IF cond THEN upsets + 1 ELSE upsets

GivesUpLate(retries) == retries > 3  \* Mutation of GivesUp
GivesUp(retries) == retries >= 3

Goto(t, step) == ticker' = [ticker EXCEPT ![t].at = step]
Rests(t) == ticker' = [ticker EXCEPT ![t] = Resting]
Files(s) == filed' = [filed EXCEPT ![s.silence] = @ + 1]

-----------------------------------------------------------------------------
\* A tick takes the files of the directory one by one: it loads the file, sends
\* the commitment, and archives it.

\* A file that is gone, torn or not due is passed over.
TickLoads(t) ==
    /\ ticker[t].at = "rest"
    /\ \E s \in Slugs :
          /\ Whole(s)
          /\ ticker' = [ticker EXCEPT ![t] =
                [at |-> "sending", slug |-> s, retries |-> pending[s], gives |-> FALSE]]
          /\ UpsetIf(\E u \in Tickers : ticker[u].slug = s)
    /\ UNCHANGED <<pending, filed, givenUp, queuer, silence, resetDue, sent>>

\* telegram_send or jc_event: delivered, or a failure, which _handle_failure
\* counts, and which is the last one or one for good.
TickSends(t) ==
    /\ ticker[t].at = "sending"
    /\ LET s == ticker[t].slug
           retries == ticker[t].retries + 1 IN
       \/ /\ Goto(t, "ok")
          /\ sent' = IF s \in Touches THEN [sent EXCEPT ![s] = @ + 1] ELSE sent
       \/ \E fatal \in BOOLEAN :
             /\ ticker' = [ticker EXCEPT ![t] =
                   [at |-> "opening", slug |-> s, retries |-> retries,
                    gives |-> fatal \/ GivesUp(retries)]]
             /\ UNCHANGED sent
    /\ UNCHANGED <<pending, filed, givenUp, queuer, silence, resetDue, upsets>>

\* _archive_success: the file of a touch is renamed; that of a repeating
\* commitment is copied, then written again for its next date, with no retries.
RetriesAfterSuccess(t) == 0

TickArchives(t) ==
    /\ ticker[t].at = "ok"
    /\ LET s == ticker[t].slug IN
       \/ /\ pending[s] = Absent
          /\ Rests(t)
          /\ UNCHANGED <<pending, filed>>
       \/ /\ pending[s] # Absent /\ s \in Touches
          /\ pending' = [pending EXCEPT ![s] = Absent]
          /\ Files(s)
          /\ Rests(t)
       \/ /\ pending[s] # Absent /\ s \in Repeating
          /\ ticker' = [ticker EXCEPT ![t].at = "opening", ![t].retries = RetriesAfterSuccess(t)]
          /\ UNCHANGED <<pending, filed>>
    /\ UNCHANGED <<givenUp, queuer, silence, resetDue, sent, upsets>>

\* dump: the file is truncated, or created again, and then written.
TickOpens(t) ==
    /\ ticker[t].at = "opening"
    /\ pending' = [pending EXCEPT ![ticker[t].slug] = Torn]
    /\ Goto(t, "writing")
    /\ UNCHANGED <<filed, givenUp, queuer, silence, resetDue, sent, upsets>>

\* The writing creates no file that was removed meanwhile.
TickWrites(t) ==
    /\ ticker[t].at = "writing"
    /\ pending' = [pending EXCEPT ![ticker[t].slug] =
          IF @ = Absent THEN @ ELSE ticker[t].retries]
    /\ IF ticker[t].gives THEN Goto(t, "moving") ELSE Rests(t)
    /\ UNCHANGED <<filed, givenUp, queuer, silence, resetDue, sent, upsets>>

TickGivesUp(t) ==
    /\ ticker[t].at = "moving"
    /\ LET s == ticker[t].slug IN
       IF pending[s] = Absent
       THEN Rests(t) /\ UNCHANGED <<pending, filed, givenUp>>
       ELSE /\ pending' = [pending EXCEPT ![s] = Absent]
            /\ givenUp' = givenUp \cup {s}
            /\ IF s \in Touches THEN Files(s) ELSE UNCHANGED filed
            /\ Rests(t)
    /\ UNCHANGED <<queuer, silence, resetDue, sent, upsets>>

TickDies(t) ==
    /\ ticker[t].at # "rest"
    /\ Rests(t)
    /\ UpsetIf(TRUE)
    /\ UNCHANGED <<pending, filed, givenUp, queuer, silence, resetDue, sent>>

-----------------------------------------------------------------------------
\* The re-engagement task of the heartbeat, alone under its task's lock.

\* cancel_by_tag: a torn file does not load, and stays.
Untouched == [s \in Slugs |-> IF s \in Touches /\ Whole(s) THEN Absent ELSE pending[s]]

ResetTouches ==
    /\ queuer.at = "idle" /\ silence.number > 0 /\ ~silence.long
    /\ \E s \in Touches : Whole(s)
    /\ pending' = Untouched
    /\ UNCHANGED <<filed, givenUp, ticker, queuer, silence, resetDue, sent, upsets>>

\* _next_touch: one more than the touches of this silence, pending or archived.
OfThisSilence == {s \in Touches : s.silence = silence.number}
QueuedAlready == Cardinality({s \in OfThisSilence : Whole(s)})  \* Mutation of Queued
Queued == filed[silence.number] + Cardinality({s \in OfThisSilence : Whole(s)})

ChooseTouch ==
    /\ queuer.at = "idle" /\ silence.number > 0 /\ silence.long
    /\ \A s \in Touches : ~Whole(s)
    /\ Queued < MaxTouches
    /\ queuer' = [at |-> "adding", slug |-> [silence |-> silence.number, n |-> Queued + 1]]
    /\ UpsetIf(\E s \in Touches : pending[s] = Torn)
    /\ UNCHANGED <<pending, filed, givenUp, ticker, silence, resetDue, sent>>

\* add_commitment: a file of that name is left as it is; else it is written.
AddTouch ==
    /\ \/ /\ queuer.at = "adding" /\ pending[queuer.slug] = Absent
          /\ pending' = [pending EXCEPT ![queuer.slug] = Torn]
          /\ queuer' = [queuer EXCEPT !.at = "writing"]
       \/ /\ queuer.at = "adding" /\ pending[queuer.slug] # Absent
          /\ queuer' = [at |-> "idle", slug |-> NoSlug]
          /\ UNCHANGED pending
       \/ /\ queuer.at = "writing"
          /\ pending' = [pending EXCEPT ![queuer.slug] = IF @ = Absent THEN @ ELSE 0]
          /\ queuer' = [at |-> "idle", slug |-> NoSlug]
    /\ UNCHANGED <<filed, givenUp, ticker, silence, resetDue, sent, upsets>>

QueuerDies ==
    /\ queuer.at # "idle"
    /\ queuer' = [at |-> "idle", slug |-> NoSlug]
    /\ UNCHANGED <<pending, filed, givenUp, ticker, silence, resetDue, sent, upsets>>

-----------------------------------------------------------------------------
\* The chat, the gateway and the operator.

\* A message of the user is in the transcript; its event completes later.
UserWrites ==
    /\ silence.number < MaxSilences
    /\ silence' = [number |-> silence.number + 1, long |-> FALSE]
    /\ resetDue' = TRUE
    /\ UNCHANGED <<pending, filed, givenUp, ticker, queuer, sent, upsets>>

\* _cancel_reengage_on_inbound_reply
GatewayResets ==
    /\ resetDue /\ resetDue' = FALSE
    /\ pending' = Untouched
    /\ UNCHANGED <<filed, givenUp, ticker, queuer, silence, sent, upsets>>

\* Two days go by: the event of the last message has ended, well or not.
SilenceIsLong ==
    /\ silence.number > 0 /\ ~silence.long
    /\ silence' = [silence EXCEPT !.long = TRUE]
    /\ resetDue' = FALSE
    /\ UNCHANGED <<pending, filed, givenUp, ticker, queuer, sent, upsets>>

\* cmd_cancel, and cmd_add of a repeating commitment that is not there.
CancelByHand(s) ==
    /\ pending[s] # Absent
    /\ pending' = [pending EXCEPT ![s] = Absent]
    /\ UpsetIf(\E t \in Tickers : ticker[t].slug = s)
    /\ UNCHANGED <<filed, givenUp, ticker, queuer, silence, resetDue, sent>>

TickStep(t) ==
    \/ TickLoads(t) \/ TickSends(t) \/ TickArchives(t)
    \/ TickOpens(t) \/ TickWrites(t) \/ TickGivesUp(t) \/ TickDies(t)

CommitmentsNext ==
    \/ \E t \in Tickers : TickStep(t)
    \/ ResetTouches \/ ChooseTouch \/ AddTouch \/ QueuerDies
    \/ UserWrites \/ GatewayResets \/ SilenceIsLong
    \/ \E s \in Slugs : CancelByHand(s)

CommitmentsSpec == CommitmentsInit /\ [][CommitmentsNext]_commitmentsVars

-----------------------------------------------------------------------------
(* Properties. *)

\* No touch of a silence goes out twice, and so no silence has more touches
\* than the configured number, unless a tick dies between the message and the
\* archive, two ticks overlap, the operator cancels what is being sent, or the
\* task looks at a file that a tick has half written.
\* (_next_touch counts files that the tick moves meanwhile.)
TouchedOnce == \A s \in Touches : sent[s] <= 1 + upsets

=============================================================================

---------------------------- MODULE TelegramPoll ----------------------------
(***************************************************************************)
(* The long poll of the Telegram channel.  Telegram offers every update    *)
(* again until a getUpdates asks for a higher one; what the poller asks    *)
(* for is in memory only.  Handling an update moves that offset past it    *)
(* first, and only a failed insert into the queue moves it back.           *)
(*   lib/gateway/channels/telegram.py                                      *)
(***************************************************************************)
EXTENDS Naturals, FiniteSets

CONSTANTS
    MaxUpdates,     \* bound: updates that the bot is sent
    MaxTroubles     \* bound: exceptions and crashes

ASSUME TelegramAssumption == MaxUpdates \in Nat /\ MaxTroubles \in Nat

VARIABLES
    arrived,    \* updates sent to the bot so far, numbered in their order
    confirmed,  \* Telegram has forgotten the updates below this one
    offset,     \* self.offset
    failing,    \* self._enqueue_failures: an update, and its count
    results,    \* updates of the last answer that are still to be handled
    fate,       \* what became of each update
    escaped,    \* updates whose handling raised out of the loop over the answer
    troubles

telegramVars == <<arrived, confirmed, offset, failing, results, fate, escaped, troubles>>

Updates == 1..MaxUpdates
Tries == 3
NoFailure == [update |-> 0, count |-> 0]

TelegramTypeOK ==
    /\ arrived \in 0..MaxUpdates
    /\ confirmed \in 0..(MaxUpdates + 1) /\ offset \in 0..(MaxUpdates + 1)
    /\ failing \in [update : 0..MaxUpdates, count : 0..Tries]
    /\ results \subseteq Updates
    /\ fate \in [Updates -> {"none", "queued", "handled", "dropped"}]
    /\ escaped \subseteq Updates
    /\ troubles \in 0..MaxTroubles

TelegramInit ==
    /\ arrived = 0 /\ confirmed = 0 /\ offset = 0
    /\ failing = NoFailure /\ results = {}
    /\ fate = [u \in Updates |-> "none"]
    /\ escaped = {} /\ troubles = 0

Earliest(u) == \A v \in results : u <= v     \* u is the next one of the answer
Past(u) == IF offset > u THEN offset ELSE u + 1

\* What was queued before a crash or a lost commit is deduplicated by its number.
Settles(u, end) == fate' = [fate EXCEPT ![u] = IF @ = "none" THEN end ELSE @]

-----------------------------------------------------------------------------
UpdateArrives ==
    /\ arrived < MaxUpdates /\ arrived' = arrived + 1
    /\ UNCHANGED <<confirmed, offset, failing, results, fate, escaped, troubles>>

\* getUpdates; an answer that is not ok, or none, changes nothing.
GetUpdates ==
    /\ results = {}
    /\ confirmed' = IF offset > confirmed THEN offset ELSE confirmed
    /\ results' = {u \in 1..arrived : u >= confirmed'}
    /\ UNCHANGED <<arrived, offset, failing, fate, escaped, troubles>>

\* Membership changes, taps, blocked and unauthorised chats, mentions of others
\* and slash commands end here; a recording that cannot be read is dropped.
HandledHere(u) ==
    /\ Settles(u, "handled")
    /\ offset' = Past(u) /\ results' = results \ {u}
    /\ UNCHANGED <<arrived, confirmed, failing, escaped, troubles>>

\* The queue takes it, or is at its depth cap and drops it without a word.
Enqueued(u) ==
    /\ \E end \in {"queued", "dropped"} : Settles(u, end)
    /\ offset' = Past(u) /\ results' = results \ {u}
    /\ failing' = NoFailure
    /\ UNCHANGED <<arrived, confirmed, escaped, troubles>>

RewoundPast(u) == u + 1         \* Mutation of Rewound
Rewound(u) == u

\* enqueue raises, with the row written or not; the third time the update goes.
EnqueueRaises(u) ==
    LET count == IF failing.update = u THEN failing.count + 1 ELSE 1 IN
    /\ troubles < MaxTroubles /\ troubles' = troubles + 1
    /\ failing' = [update |-> u, count |-> count]
    /\ \/ Settles(u, "queued")
       \/ IF count >= Tries THEN Settles(u, "dropped") ELSE UNCHANGED fate
    /\ IF count >= Tries
       THEN offset' = Past(u) /\ results' = results \ {u}
       ELSE offset' = Rewound(u) /\ results' = {}
    /\ UNCHANGED <<arrived, confirmed, escaped>>

\* Any other exception is caught outside the loop, with the offset moved on.
Escapes(u) ==
    /\ troubles < MaxTroubles /\ troubles' = troubles + 1
    /\ escaped' = escaped \cup {u}
    /\ offset' = Past(u) /\ results' = {}
    /\ UNCHANGED <<arrived, confirmed, failing, fate>>

PollerCrashes ==
    /\ troubles < MaxTroubles /\ troubles' = troubles + 1
    /\ offset' = 0 /\ failing' = NoFailure /\ results' = {}
    /\ UNCHANGED <<arrived, confirmed, fate, escaped>>

TelegramNext ==
    \/ UpdateArrives \/ GetUpdates \/ PollerCrashes
    \/ \E u \in results :
          /\ Earliest(u)
          /\ HandledHere(u) \/ Enqueued(u) \/ EnqueueRaises(u) \/ Escapes(u)

TelegramSpec == TelegramInit /\ [][TelegramNext]_telegramVars

-----------------------------------------------------------------------------
(* Properties. *)

\* An update that Telegram has forgotten, or that a later one has overtaken, was
\* queued or handled or dropped on purpose, whatever raised and crashed, unless
\* its own handling raised out of the loop.
UpdatesAccountedFor ==
    \A u \in Updates :
        (u < confirmed \/ \E v \in Updates : v > u /\ fate[v] # "none")
            => fate[u] # "none" \/ u \in escaped

=============================================================================

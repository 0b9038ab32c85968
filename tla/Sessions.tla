------------------------------ MODULE Sessions ------------------------------
(***************************************************************************)
(* The native sessions of one conversation and brain: the row per slot     *)
(* that says which session the next turn resumes, the measured size beside *)
(* it, and who writes the two: turns, the pressure gate before a turn,     *)
(* /compact, and the recovery of a session that the brain has lost.        *)
(* Sizes are small numbers; a prompt with its reserves adds one.           *)
(*   lib/gateway/sessions.py, lifecycle/{compaction,routing,telemetry}.py, *)
(*   recovery/session_drop.py, recovery/handlers/                        *)
(*   {session_missing,context_profile_unavailable}.py,                     *)
(*   runtime.py: process_event, _handle_compact                            *)
(***************************************************************************)
EXTENDS Naturals, FiniteSets

CONSTANTS
    MaxConcurrent,  \* slots of the conversation
    Models,         \* what triage may choose: subset of ModelKinds
    RotateAt,       \* size at which a resumed session is rotated
    RerouteAt,      \* size above which a conversation leaves the small models
    Capacity,       \* size that the model's profile can take
    Growth,         \* bound: what one turn may add to a session
    MaxSessions,    \* bound: native sessions
    MaxBlind        \* bound: turns that are not measured, or resume ungated

\* A model with a context profile; one that has a profile and that the capacity
\* guard knows as small (sonnet-*, haiku-*); and one that the gate passes over:
\* it has no profile, the bare aliases say, its provider compacts by itself, or
\* session_lifecycle is off.
ModelKinds == {"profiled", "small", "bare"}

ASSUME SessionsAssumption ==
    Models \subseteq ModelKinds /\ RerouteAt \in Nat /\
    {MaxConcurrent, RotateAt} \subseteq Nat \ {0} /\ {Capacity, Growth, MaxSessions, MaxBlind} \subseteq Nat

VARIABLES
    session,    \* sessions: the native session of a slot, or none
    usage,      \* session_lifecycle: its measured size, 0 when there is none
    size,       \* each native session's true size
    lost,       \* native sessions that the brain no longer finds
    minted,     \* native sessions made so far
    turn,       \* what the thread of a slot does
    compactor,  \* what is left to do of a /compact
    awaiting,   \* slots reported as queued: "runs after the slot goes idle"
    blind       \* history: turns whose growth no measurement followed, and turns
                \* that resumed ungated what the gate would have rotated

sessionsVars == <<session, usage, size, lost, minted, turn, compactor, awaiting, blind>>

Slots == 0..(MaxConcurrent - 1)
None == 0
Natives == 1..MaxSessions
AtRestTurn == [at |-> "rest", resume |-> None]

SessionsTypeOK ==
    /\ session \in [Slots -> Natives \cup {None}]
    /\ usage \in [Slots -> Nat]
    /\ size \in [Natives -> Nat]
    /\ lost \subseteq Natives
    /\ minted \in 0..MaxSessions
    /\ turn \in [Slots -> [at : {"rest", "picked", "read", "ungated", "rotating", "brain", "ended",
                                 "recorded", "missing", "compacting"},
                           resume : Natives \cup {None}]]
    /\ compactor \in [slots : SUBSET Slots, expected : [Slots -> Natives \cup {None}],
                      compared : SUBSET Slots]
    /\ awaiting \subseteq Slots
    /\ blind \in 0..MaxBlind

NoCompaction == [slots |-> {}, expected |-> [s \in Slots |-> None], compared |-> {}]

SessionsInit ==
    /\ session = [s \in Slots |-> None]
    /\ usage = [s \in Slots |-> 0]
    /\ size = [n \in Natives |-> 0]
    /\ lost = {}
    /\ minted = 0
    /\ turn = [s \in Slots |-> AtRestTurn]
    /\ compactor = NoCompaction
    /\ awaiting = {}
    /\ blind = 0

Busy == {s \in Slots : turn[s].at # "rest"}
Mapped == {s \in Slots : session[s] # None}
Goes(s, step) == turn' = [turn EXCEPT ![s].at = step]
TurnEnds(s) == turn' = [turn EXCEPT ![s] = AtRestTurn]
Blind(cond) ==
    /\ cond => blind < MaxBlind
    /\ blind' = IF cond THEN blind + 1 ELSE blind

\* The DELETE and the reset of the measure are one transaction.
Unmap(s) ==
    /\ session' = [session EXCEPT ![s] = None]
    /\ usage' = [usage EXCEPT ![s] = 0]
    /\ awaiting' = awaiting \ {s}

-----------------------------------------------------------------------------
\* What the classifier answers, if it answers: a slot that the message is about,
\* which nobody holds against the slots that were described to it.
Related == Slots

\* The free slot that was used least: the lowest one without a session, else any.
Cold == Slots \ (Busy \cup Mapped)
LeastUsed(s) == s \notin Busy /\ (Cold # {} => s \in Cold /\ \A x \in Cold : s <= x)

\* A turn: the loop gives it a free slot; it reads the session to resume.
PickSlot(s) ==
    /\ s \in Related \ Busy \/ LeastUsed(s)
    /\ Goes(s, "picked")
    /\ UNCHANGED <<session, usage, size, lost, minted, compactor, awaiting, blind>>

\* _triage_capacity_guard: a small model is left for one without a profile when
\* any slot of the conversation measures too much for it.
Profiled(model) ==
    \/ model = "profiled"
    \/ model = "small" /\ \A x \in Slots : usage[x] <= RerouteAt

ReadSession(s) ==
    /\ turn[s].at = "picked"
    /\ \E model \in Models :
         turn' = [turn EXCEPT ![s] = [at |-> IF Profiled(model) THEN "read" ELSE "ungated",
                                      resume |-> session[s]]]
    /\ UNCHANGED <<session, usage, size, lost, minted, compactor, awaiting, blind>>

\* evaluate_pressure, without a larger profile to upgrade to.
NeedsRotationLate(s) == usage[s] > RotateAt  \* Mutation of NeedsRotation

NeedsRotation(s) == usage[s] >= RotateAt \/ usage[s] + 1 > Capacity
Fits(s) == usage[s] + 1 <= Capacity

\* The gate of a model that has a profile: a resumed session that is too large is
\* rotated first, a session that fits is resumed; a fresh one that seems not to
\* fit fails the event.
RefusesFresh(s) == turn[s].resume = None /\ ~Fits(s) /\ TurnEnds(s)

Gate(s) ==
    /\ turn[s].at = "read"
    /\ \/ turn[s].resume # None /\ NeedsRotation(s) /\ Goes(s, "rotating")
       \/ turn[s].resume # None /\ ~NeedsRotation(s) /\ Goes(s, "brain")
       \/ turn[s].resume = None /\ Fits(s) /\ Goes(s, "brain")
       \/ RefusesFresh(s)
    /\ UNCHANGED <<session, usage, size, lost, minted, compactor, awaiting, blind>>

\* Without a profile the turn goes on as it is, with a session of any size.
PassesUngated(s) ==
    /\ turn[s].at = "ungated"
    /\ Goes(s, "brain")
    /\ Blind(turn[s].resume # None /\ NeedsRotation(s))
    /\ UNCHANGED <<session, usage, size, lost, minted, compactor, awaiting>>

\* rotate_slot with the session it has read: nothing else writes the row of a
\* slot in use between the comparison and the DELETE, save a /compact that saw
\* the slot idle, and which deletes as well.
GateRotates(s) ==
    /\ turn[s].at = "rotating"
    /\ turn' = [turn EXCEPT ![s] = [at |-> "brain", resume |-> None]]
    /\ IF session[s] = turn[s].resume THEN Unmap(s) ELSE UNCHANGED <<session, usage, awaiting>>
    /\ UNCHANGED <<size, lost, minted, compactor, blind>>

\* The brain resumes the session, or makes a new one, and the session grows; it
\* may find the session missing; it may fail, or move to the background, and
\* then the growth is not recorded.
BrainRuns(s) ==
    /\ turn[s].at = "brain"
    /\ \E n \in Natives, g \in 1..Growth :
          /\ IF turn[s].resume = None THEN n = minted + 1 ELSE n = turn[s].resume
          /\ n \notin lost
          /\ minted' = IF n > minted THEN n ELSE minted
          /\ size' = [size EXCEPT ![n] = @ + g]
          /\ \/ /\ turn' = [turn EXCEPT ![s] = [at |-> "ended", resume |-> n]]
                /\ Blind(FALSE)
             \/ TurnEnds(s) /\ Blind(TRUE)
    /\ UNCHANGED <<session, usage, lost, compactor, awaiting>>

SessionIsMissing(s) ==
    /\ turn[s].at = "brain" /\ turn[s].resume \in lost
    /\ Goes(s, "missing")
    /\ UNCHANGED <<session, usage, size, lost, minted, compactor, awaiting, blind>>

\* upsert_session, then record_usage in a transaction of its own; a provider
\* that reports no usage leaves the last measure.
Upsert(s, n) == session' = [session EXCEPT ![s] = n]

RecordSession(s) ==
    /\ turn[s].at = "ended"
    /\ Upsert(s, turn[s].resume)
    /\ Goes(s, "recorded")
    /\ UNCHANGED <<usage, size, lost, minted, compactor, awaiting, blind>>

RecordUsage(s) ==
    /\ turn[s].at = "recorded"
    /\ \/ usage' = [usage EXCEPT ![s] = size[turn[s].resume]] /\ Blind(FALSE)
       \/ UNCHANGED usage /\ Blind(TRUE)
    /\ TurnEnds(s)
    /\ UNCHANGED <<session, size, lost, minted, compactor, awaiting>>

-----------------------------------------------------------------------------
\* clear_sticky_session, whatever the slot: it compares the row of slot 0, and
\* deletes those of all slots.  The measures stay.
MayClear(s) == session[0] = turn[s].resume

MissingRecovers(s) ==
    /\ turn[s].at = "missing"
    /\ session' = IF MayClear(s) THEN [x \in Slots |-> None] ELSE session
    /\ TurnEnds(s)
    /\ UNCHANGED <<usage, size, lost, minted, compactor, awaiting, blind>>

\* The larger profile of the model is not to be had.  If a measured session fits the
\* standard one, the rows of all slots go and the measures stay; else each slot is
\* rotated (what a turn next to it stores in between is as if stored before), and a
\* turn that is about to resume the session of its slot finds the measure gone.
FitsStandard == \E x \in Mapped : usage[x] \in 1..Capacity

ProfileUnavailable(s) ==
    /\ turn[s].at = "brain" /\ turn[s].resume # None
    /\ session' = [x \in Slots |-> None]
    /\ usage' = IF FitsStandard THEN usage
                ELSE [x \in Slots |-> IF session[x] = None THEN usage[x] ELSE 0]
    /\ awaiting' = {x \in awaiting : FitsStandard \/ session[x] = None}
    /\ TurnEnds(s)
    /\ Blind(\E x \in Busy \ {s} : usage'[x] # usage[x])
    /\ UNCHANGED <<size, lost, minted, compactor>>

\* The files of a session are deleted, or the account is switched.
LoseSession(n) ==
    /\ n \in 1..minted \ lost
    /\ lost' = lost \cup {n}
    /\ UNCHANGED <<session, usage, size, minted, turn, compactor, awaiting, blind>>

-----------------------------------------------------------------------------
\* /compact, in the thread of a slot of its own: what is busy is reported as
\* queued, and nothing rotates it later.  The serial loop keeps no busy set.
BusyForCompact(s) == IF MaxConcurrent = 1 THEN {} ELSE Busy \cup {s}

CompactLists(s) ==
    /\ s \notin Busy /\ compactor = NoCompaction
    /\ Mapped # {}
    /\ Goes(s, "compacting")
    /\ compactor' = [slots |-> Mapped \ BusyForCompact(s), expected |-> session,
                     compared |-> {}]
    /\ awaiting' = awaiting \cup (Mapped \cap BusyForCompact(s))
    /\ UNCHANGED <<session, usage, size, lost, minted, blind>>

\* rotate_slot: the comparison, and the transaction that follows it.
CompactCompares(x) ==
    /\ x \in compactor.slots \ compactor.compared
    /\ compactor' = IF session[x] = compactor.expected[x]
                    THEN [compactor EXCEPT !.compared = @ \cup {x}]
                    ELSE [compactor EXCEPT !.slots = @ \ {x}]
    /\ UNCHANGED <<session, usage, size, lost, minted, turn, awaiting, blind>>

CompactRotates(x) ==
    /\ x \in compactor.compared
    /\ compactor' = [compactor EXCEPT !.slots = @ \ {x}, !.compared = @ \ {x}]
    /\ Unmap(x)
    /\ Blind(x \in Busy /\ turn[x].at # "compacting")
    /\ UNCHANGED <<size, lost, minted, turn>>

CompactEnds(s) ==
    /\ turn[s].at = "compacting" /\ compactor.slots = {}
    /\ compactor' = NoCompaction
    /\ TurnEnds(s)
    /\ UNCHANGED <<session, usage, size, lost, minted, awaiting, blind>>

\* The gateway stops; what its threads were doing is gone.
Restart ==
    /\ turn # [s \in Slots |-> AtRestTurn]
    /\ turn' = [s \in Slots |-> AtRestTurn]
    /\ compactor' = NoCompaction
    /\ awaiting' = {}
    /\ Blind(\E s \in Slots : turn[s].at \in {"ended", "recorded"})
    /\ UNCHANGED <<session, usage, size, lost, minted>>

TurnStep(s) ==
    \/ ReadSession(s) \/ Gate(s) \/ PassesUngated(s) \/ GateRotates(s) \/ BrainRuns(s)
    \/ SessionIsMissing(s) \/ RecordSession(s) \/ RecordUsage(s) \/ MissingRecovers(s) \/ CompactEnds(s)
CompactStep == \E x \in Slots : CompactCompares(x) \/ CompactRotates(x)

SessionsNext ==
    \/ \E s \in Slots : TurnStep(s) \/ PickSlot(s) \/ CompactLists(s)
                       \/ ProfileUnavailable(s)
    \/ CompactStep
    \/ \E n \in Natives : LoseSession(n)
    \/ Restart

SessionsSpec == SessionsInit /\ [][SessionsNext]_sessionsVars

\* The threads of the slots run on.
SessionsFair ==
    /\ \A s \in Slots : WF_sessionsVars(TurnStep(s))
    /\ WF_sessionsVars(CompactStep)

-----------------------------------------------------------------------------
(* Properties. *)

\* No session outgrows the threshold by more than one turn, and one turn more
\* for each whose growth is not measured or which resumed it without a gate;
\* rotations, /compact and the loss of sessions in between.
\* (_apply_routing_pressure, _record_context_usage)
GrowthBounded ==
    \A n \in Natives : size[n] < RotateAt + (1 + blind) * Growth

\* "Every resumed session must eventually rotate": one that has reached the
\* threshold is never resumed again, whatever model triage chooses.
\* (docs/specs/context-aware-session-lifecycle.md)
OversizedNotResumed ==
    [][\A s \in Slots :
         /\ turn[s].at \in {"read", "ungated"} /\ turn'[s].at = "brain"
         /\ turn[s].resume # None
         => ~NeedsRotation(s)]_sessionsVars

\* A session that the brain has lost is resumed once: "Clears the sticky
\* session-id mapping ... The next dispatch runs without `--resume`."
\* (session_missing.py)
LostSessionCleared ==
    [][\A s \in Slots : MissingRecovers(s) => session'[s] # turn[s].resume]_sessionsVars

\* A slot that /compact found busy is compacted when it is idle: "the gateway
\* re-runs maintenance for them after they go idle". (compact_conversation)
QueuedIsCompacted == \A s \in Slots : s \in awaiting ~> s \notin awaiting

\* A turn without a session to resume starts a fresh one; it is not refused for
\* the size of a session that is gone. (session_missing.py)
FreshTurnRuns == \A s \in Slots : turn[s].at = "read" /\ turn[s].resume = None => Fits(s)

=============================================================================

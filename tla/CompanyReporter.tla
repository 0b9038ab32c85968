-------------------------- MODULE CompanyReporter ---------------------------
(***************************************************************************)
(* The reporter thread of the gateway: each tick compares the workers with *)
(* its cursor, takes the conversation messages from memory, and posts both *)
(* to the company in chunks.  A chunk that fails goes to an outbox on      *)
(* disk, which the tick then drains, as `jc company replay` does too.  The *)
(* outbox's lock is in memory, so that the two do not see each other.      *)
(*   lib/company/{reporter,cli}.py                                         *)
(***************************************************************************)
EXTENDS Naturals, FiniteSets

CONSTANTS
    Hands,          \* background workers, rows of the workers' database
    Talks,          \* conversations, an inbound and an outbound message each
    MaxIncidents    \* bound: crashes, evictions, and replays by hand

ASSUME ReporterAssumption == MaxIncidents \in Nat

VARIABLES
    hand,       \* each worker's row
    talked,     \* talks that on_conversation was called for
    held,       \* self._pending_events
    known,      \* WorkersCursor._cache; its file counts for one boot only
    boot,       \* instance_boot_id
    phase,      \* of the tick: "rest", "sending" or "draining"
    batch,      \* what the tick has to send
    outbox,     \* state/company/outbox
    drain,      \* what each drainer has read of it, and has left to send
    registered, \* there is an API key
    received,   \* what the company has taken
    gone,       \* what an eviction or a replay took from the outbox, and the
                \* messages that a crash took from memory
    incidents

reporterVars == <<hand, talked, held, known, boot, phase, batch, outbox, drain,
                  registered, received, gone, incidents>>

Drainers == {"reporter", "replay"}
BootIds == 1..(MaxIncidents + 1)
Start(w, b) == [what |-> "started", of |-> w, boot |-> b]
Finish(w, b) == [what |-> "finished", of |-> w, boot |-> b]
Message(m) == [what |-> "message", of |-> m, boot |-> 0]
Reports == {Start(w, b) : w \in Hands, b \in BootIds}
           \cup {Finish(w, b) : w \in Hands, b \in BootIds} \cup {Message(m) : m \in Talks}
DrainAtRest == [on |-> FALSE, read |-> {}, left |-> {}]
HandStates == {"none", "running", "ended"}

ReporterTypeOK ==
    /\ hand \in [Hands -> HandStates] /\ known \in [Hands -> HandStates]
    /\ talked \subseteq Talks /\ boot \in BootIds
    /\ phase \in {"rest", "sending", "draining"}
    /\ {held, batch, outbox, received, gone} \subseteq SUBSET Reports
    /\ drain \in [Drainers -> [on : BOOLEAN, read : SUBSET Reports, left : SUBSET Reports]]
    /\ registered \in BOOLEAN /\ incidents \in 0..MaxIncidents

ReporterInit ==
    /\ hand = [w \in Hands |-> "none"] /\ known = [w \in Hands |-> "none"]
    /\ talked = {} /\ held = {} /\ boot = 1
    /\ phase = "rest" /\ batch = {} /\ outbox = {}
    /\ drain = [d \in Drainers |-> DrainAtRest]
    /\ registered \in BOOLEAN
    /\ received = {} /\ gone = {} /\ incidents = 0

Incident == incidents < MaxIncidents /\ incidents' = incidents + 1

-----------------------------------------------------------------------------
(* What there is to report. *)

HandMoves(w) ==
    /\ hand[w] # "ended"
    /\ hand' = [hand EXCEPT ![w] = IF @ = "none" THEN "running" ELSE "ended"]
    /\ UNCHANGED <<talked, held, known, boot, phase, batch, outbox, drain,
                   registered, received, gone, incidents>>

OnConversation(m) ==
    /\ m \notin talked /\ talked' = talked \cup {m}
    /\ held' = held \cup {Message(m)}
    /\ UNCHANGED <<hand, known, boot, phase, batch, outbox, drain, registered,
                   received, gone, incidents>>

\* diff: a row that is new to the cursor is reported started, and if it has ended
\* finished as well.
DiffIfRunning ==        \* Mutation of Diff
    {Start(w, boot) : w \in {v \in Hands : hand[v] # "none" /\ known[v] = "none"}}
    \cup {Finish(w, boot) : w \in {v \in Hands : hand[v] = "ended" /\ known[v] = "running"}}
Diff ==
    {Start(w, boot) : w \in {v \in Hands : hand[v] # "none" /\ known[v] = "none"}}
    \cup {Finish(w, boot) : w \in {v \in Hands : hand[v] = "ended" /\ known[v] # "ended"}}

-----------------------------------------------------------------------------
(* A tick. *)

Register ==
    /\ phase = "rest" /\ ~registered /\ registered' = TRUE
    /\ UNCHANGED <<hand, talked, held, known, boot, phase, batch, outbox, drain,
                   received, gone, incidents>>

\* Without a key only the messages go to the outbox.
ParkMessages ==
    /\ phase = "rest" /\ ~registered /\ held # {}
    /\ outbox' = outbox \cup held /\ held' = {}
    /\ UNCHANGED <<hand, talked, known, boot, phase, batch, drain, registered,
                   received, gone, incidents>>

\* The cursor is saved with what is not sent yet.  A tick without work is left out.
Collect ==
    /\ phase = "rest" /\ registered
    /\ Diff \cup held \cup outbox # {}
    /\ batch' = Diff \cup held /\ known' = hand /\ held' = {}
    /\ phase' = "sending"
    /\ UNCHANGED <<hand, talked, boot, outbox, drain, registered, received, gone, incidents>>

\* A chunk of the batch is taken; what the company rejects of it is not sent again.
Post ==
    /\ phase = "sending"
    /\ \E chunk \in SUBSET batch \ {{}} :
          received' = received \cup chunk /\ batch' = batch \ chunk
    /\ UNCHANGED <<hand, talked, held, known, boot, phase, outbox, drain,
                   registered, gone, incidents>>

\* It is not, or its answer is lost, and it is appended to the outbox.
PostFails ==
    /\ phase = "sending"
    /\ \E chunk \in SUBSET batch \ {{}} :
          /\ received' \in {received, received \cup chunk}
          /\ outbox' = outbox \cup chunk /\ batch' = batch \ chunk
    /\ UNCHANGED <<hand, talked, held, known, boot, phase, drain, registered,
                   gone, incidents>>

-----------------------------------------------------------------------------
(* Outbox.drain, in the tick and by hand. *)

Reads(d) == drain' = [drain EXCEPT ![d] = [on |-> TRUE, read |-> outbox, left |-> outbox]]

TickDrains ==
    /\ phase = "sending" /\ batch = {}
    /\ IF outbox = {} THEN phase' = "rest" /\ UNCHANGED drain
       ELSE phase' = "draining" /\ Reads("reporter")
    /\ UNCHANGED <<hand, talked, held, known, boot, batch, outbox, registered,
                   received, gone, incidents>>

ReplayByHand ==
    /\ registered /\ outbox # {} /\ ~drain["replay"].on
    /\ Incident /\ Reads("replay")
    /\ UNCHANGED <<hand, talked, held, known, boot, phase, batch, outbox,
                   registered, received, gone>>

DrainSends(d) ==
    /\ drain[d].on
    /\ \E chunk \in SUBSET drain[d].left \ {{}} :
          /\ received' = received \cup chunk
          /\ drain' = [drain EXCEPT ![d].left = @ \ chunk]
    /\ UNCHANGED <<hand, talked, held, known, boot, phase, batch, outbox,
                   registered, gone, incidents>>

\* The file is removed, or after a failure written with what is left of what was
\* read: what came between is gone.
UnsentDropped(left) == {}         \* Mutation of Unsent
Unsent(left) == left

DrainEnds(d) ==
    /\ drain[d].on
    /\ outbox' = Unsent(drain[d].left)
    /\ gone' = gone \cup (outbox \ drain[d].read)
    /\ drain' = [drain EXCEPT ![d] = DrainAtRest]
    /\ phase' = IF d = "reporter" THEN "rest" ELSE phase
    /\ UNCHANGED <<hand, talked, held, known, boot, batch, registered, received, incidents>>

\* trim, over the caps on size and age.
Evict ==
    /\ phase = "rest" /\ registered /\ outbox # {} /\ Incident
    /\ gone' = gone \cup outbox /\ outbox' = {}
    /\ UNCHANGED <<hand, talked, held, known, boot, phase, batch, drain,
                   registered, received>>

\* The gateway crashes and boots: the cursor of another boot does not count.
GatewayReboots ==
    /\ Incident
    /\ gone' = gone \cup ((held \cup batch) \cap {Message(m) : m \in Talks})
    /\ held' = {} /\ batch' = {} /\ boot' = boot + 1
    /\ known' = [w \in Hands |-> "none"]
    /\ phase' = "rest" /\ drain' = [drain EXCEPT !["reporter"] = DrainAtRest]
    /\ UNCHANGED <<hand, talked, outbox, registered, received>>

ReporterNext ==
    \/ \E w \in Hands : HandMoves(w)
    \/ \E m \in Talks : OnConversation(m)
    \/ Register \/ ParkMessages \/ Collect \/ Post \/ PostFails
    \/ TickDrains \/ ReplayByHand \/ Evict \/ GatewayReboots
    \/ \E d \in Drainers : DrainSends(d) \/ DrainEnds(d)

ReporterSpec == ReporterInit /\ [][ReporterNext]_reporterVars

\* The thread ticks; and a company that answers again and again takes some chunk.
ReporterFair ==
    /\ WF_reporterVars(Register) /\ WF_reporterVars(Collect) /\ WF_reporterVars(TickDrains)
    /\ WF_reporterVars(DrainEnds("reporter"))
    /\ WF_reporterVars(Post) /\ SF_reporterVars(DrainSends("reporter"))

-----------------------------------------------------------------------------
(* Properties. *)

\* Whatever fails, crashes and is posted twice, every message and the end of every
\* worker reaches the company, unless an eviction, a replay beside the gateway, or,
\* of messages, a crash has taken it.
Arrived(e) == e \in received \cup gone
EverythingReported ==
    /\ \A m \in Talks : m \in talked ~> Arrived(Message(m))
    /\ \A w \in Hands : hand[w] = "ended" ~> \E b \in BootIds : Arrived(Finish(w, b))

=============================================================================

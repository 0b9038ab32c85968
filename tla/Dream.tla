-------------------------------- MODULE Dream --------------------------------
(***************************************************************************)
(* The nightly dream: from where the last report ended it looks at what    *)
(* happened, writes notes and reminders into the instance, keeps what each *)
(* replaced, and reports.  The operator may replay a window, edit what was *)
(* written, or reject it.                                                  *)
(*   lib/dream/, with the emitters of lib/dream/emitters/, none of which   *)
(*   makes an artifact that would be staged for approval                   *)
(***************************************************************************)
EXTENDS FiniteSets, Integers

CONSTANTS
    Drafts,         \* stubs, skills and learnings: written only where nothing is
    MaxDreams,      \* bound: dreams begun; the n-th begins at time n
    MaxReplays      \* bound: of these, replays of a window

ASSUME DreamAssumption == MaxDreams \in Nat /\ MaxReplays \in Nat

VARIABLES
    dreams,         \* dreams begun
    dream,          \* the one under way: its window, what it found and has still to write
    reports,        \* state/dreams/*.md: name, by its kind and the end of its window
    dreamt,         \* history: moments some reported window holds
    skipped,        \* history: a replay began apart from all that was reported
    note,           \* path -> 0: absent, else the dream that wrote it, or Own
    retained,       \* state/dreams/retained, or rejected: dream, path -> what was replaced
    unordered       \* history: paths where a rejection passed over a later one

dreamVars == <<dreams, dream, reports, dreamt, skipped, note, retained, unordered>>

Artifacts == Drafts \cup {"reminder"}   \* a commitment, written over the last one
Own == MaxDreams + 1
Nobody == [at |-> "none", from |-> 0, to |-> 0, replay |-> FALSE, todo |-> {}]
Unkept == -1
Rejected == -2

DreamTypeOK ==
    /\ dreams \in 0..MaxDreams
    /\ dream \in [at : {"none", "writing"}, from : 0..MaxDreams, to : 0..MaxDreams,
                  replay : BOOLEAN, todo : SUBSET Artifacts]
    /\ reports \subseteq [replay : BOOLEAN, to : 0..MaxDreams] /\ dreamt \subseteq 1..MaxDreams
    /\ skipped \in BOOLEAN
    /\ note \in [Artifacts -> 0..Own]
    /\ retained \in [1..MaxDreams -> [Artifacts -> Rejected..Own]]
    /\ unordered \subseteq Artifacts

DreamInit ==
    /\ dreams = 0 /\ dream = Nobody /\ reports = {} /\ dreamt = {} /\ skipped = FALSE
    /\ note = [p \in Artifacts |-> 0]
    /\ retained = [n \in 1..MaxDreams |-> [p \in Artifacts |-> Unkept]]
    /\ unordered = {}

-----------------------------------------------------------------------------
\* The report that comes last by its name, and so any replay before a live one.
LastReport ==
    LET named == {r \in reports : r.replay \/ \A q \in reports : ~q.replay}
    IN {r \in named : \A q \in named : q.to <= r.to}

WindowStartYesterday(now) == {now - 1}  \* Mutation of WindowStart

\* _last_dream_end, or the day before.
WindowStart(now) ==
    IF reports = {} THEN {now - 1} ELSE {r.to : r \in LastReport}

\* What consolidate may find, and codify make of it: a stub for a broken link, a
\* skill or a learning from a signal, a reminder for an entry out of date.  A stub
\* does not mend a link with a path in it, which is found again.
Findings == SUBSET Artifacts

LiveDream ==
    /\ dream = Nobody /\ dreams < MaxDreams
    /\ dreams' = dreams + 1
    /\ \E found \in Findings : \E start \in WindowStart(dreams + 1) :
          dream' = [at |-> "writing", from |-> start, to |-> dreams + 1,
                    replay |-> FALSE, todo |-> found]
    /\ UNCHANGED <<reports, dreamt, skipped, note, retained, unordered>>

\* jc-dream run --since --until
Replay(from, to) ==
    /\ dream = Nobody /\ dreams < MaxDreams /\ from < to /\ to <= dreams + 1
    /\ Cardinality({r \in reports : r.replay}) < MaxReplays
    /\ dreams' = dreams + 1
    /\ \E found \in Findings :
          dream' = [at |-> "writing", from |-> from, to |-> to, replay |-> TRUE, todo |-> found]
    /\ skipped' = (skipped \/ (dreamt # {} /\ dreamt \cap (from..(to + 1)) = {}))
    /\ UNCHANGED <<reports, dreamt, note, retained, unordered>>

\* Drafts are written first, as codify lists them.
Following == IF dream.todo \subseteq {"reminder"} THEN dream.todo ELSE dream.todo \cap Drafts

Keep(p) == retained' = [retained EXCEPT ![dreams][p] = note[p]]

WriteArtifactOver(p) ==  \* Mutation of WriteArtifact
    /\ dream # Nobody /\ p \in Following
    /\ dream' = [dream EXCEPT !.todo = @ \ {p}]
    /\ Keep(p) /\ note' = [note EXCEPT ![p] = dreams]
    /\ UNCHANGED <<dreams, reports, dreamt, skipped, unordered>>

\* _write_artifact
WriteArtifact(p) ==
    /\ dream # Nobody /\ p \in Following
    /\ dream' = [dream EXCEPT !.todo = @ \ {p}]
    /\ IF p \in Drafts /\ note[p] # 0 THEN UNCHANGED <<note, retained>>
       ELSE Keep(p) /\ note' = [note EXCEPT ![p] = dreams]
    /\ UNCHANGED <<dreams, reports, dreamt, skipped, unordered>>

\* Two replays of windows with one end write one report.
ReportDream ==
    /\ dream # Nobody /\ dream.todo = {}
    /\ reports' = reports \cup {[replay |-> dream.replay, to |-> dream.to]}
    /\ dreamt' = dreamt \cup ((dream.from + 1)..dream.to)
    /\ dream' = Nobody
    /\ UNCHANGED <<dreams, skipped, note, retained, unordered>>

\* The dream dies, between two artifacts or between what it keeps and what it writes.
DreamDies ==
    /\ dream # Nobody /\ dream' = Nobody
    /\ \/ UNCHANGED retained
       \/ \E p \in Following : (p \in Drafts => note[p] = 0) /\ Keep(p)
    /\ UNCHANGED <<dreams, reports, dreamt, skipped, note, unordered>>

-----------------------------------------------------------------------------
\* jc-dream reject: the text before goes back over whatever stands there.
RejectDreamt(n, p) ==
    /\ retained[n][p] \notin {Unkept, Rejected}
    /\ note' = [note EXCEPT ![p] = retained[n][p]]
    /\ retained' = [retained EXCEPT ![n][p] = Rejected]
    /\ unordered' = IF \E m \in (n + 1)..MaxDreams : retained[m][p] = n
                    THEN unordered \cup {p} ELSE unordered
    /\ UNCHANGED <<dreams, dream, reports, dreamt, skipped>>

\* The operator writes the note, or edits it.
OperatorEdits(p) ==
    /\ p \in Drafts /\ note' = [note EXCEPT ![p] = Own]
    /\ UNCHANGED <<dreams, dream, reports, dreamt, skipped, retained, unordered>>

\* The commitments' engine, when the reminder is due.
ReminderGoes ==
    /\ note["reminder"] # 0 /\ note' = [note EXCEPT !["reminder"] = 0]
    /\ UNCHANGED <<dreams, dream, reports, dreamt, skipped, retained, unordered>>

DreamNext ==
    \/ LiveDream \/ ReportDream \/ DreamDies \/ ReminderGoes
    \/ \E from, to \in 0..MaxDreams : Replay(from, to)
    \/ \E p \in Artifacts :
          \/ WriteArtifact(p) \/ OperatorEdits(p)
          \/ \E n \in 1..MaxDreams : RejectDreamt(n, p)

DreamSpec == DreamInit /\ [][DreamNext]_dreamVars

-----------------------------------------------------------------------------
(* Properties. *)

\* The reported windows leave no moment out between two that they hold, whatever
\* dreams died, unless a replay was begun apart from all of them.
\* (_last_dream_end; docs/specs/dreaming-and-self-improve.md:320)
WindowsCover == ~skipped => \A a, b \in dreamt : a..b \subseteq dreamt

\* What a dream replaced in a note is nothing: the operator's text, and an earlier
\* dream's, stay.  (docs/specs/dreaming-and-self-improve.md:277)
NothingOverwritten ==
    \A n \in 1..MaxDreams : \A p \in Drafts : retained[n][p] \in {Unkept, Rejected, 0}

\* What was rejected does not stand, in the order of any rejections, but for a
\* reminder of which an earlier one was rejected before a later one.
\* (docs/specs/dreaming-and-self-improve.md:426)
RejectedIsGone ==
    \A n \in 1..MaxDreams : \A p \in Artifacts \ unordered :
        retained[n][p] = Rejected => note[p] # n

DreamsKept == WindowsCover /\ NothingOverwritten /\ RejectedIsGone

=============================================================================

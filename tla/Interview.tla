------------------------------ MODULE Interview ------------------------------
(***************************************************************************)
(* `jc persona interview`: a terminal session of minutes or hours that     *)
(* first asks for the names the persona's files leave open and writes them *)
(* in, then looks for the sections that are missing or empty, asks for     *)
(* each and splices the answers.  The files are the brain's memory: it     *)
(* may write a section in the meantime, and the session may be killed.     *)
(*   lib/persona_interview/engine.py, gaps.py, splice.py, compose.py       *)
(***************************************************************************)
EXTENDS Naturals

CONSTANTS
    PlainSlots,         \* sections of a file of memory/L1
    TemplatedSlots,     \* sections of memory/L2/character-bible/<slug>.md
    MaxNames,           \* bound: values a name can get, 1 being the empty answer
    MaxTexts,           \* bound: texts written, as numbers from 2 on
    MaxKills            \* bound: sessions killed, and sections the brain fills
                        \*        while a session goes on

ASSUME InterviewAssumption ==
    /\ PlainSlots # {} /\ PlainSlots \cap TemplatedSlots = {}
    /\ MaxNames \in Nat \ {0} /\ MaxTexts \in Nat /\ MaxKills \in Nat

VARIABLES
    spelled,        \* file -> name -> its value in the text, 0: still {{persona.name}}
    recorded,       \* ops/persona-macros.json: name -> value, 0: not there
    body,           \* section -> 0: no heading, 1: nothing filled in, else a text
    backups,        \* texts under state/persona/redo/
    talk,           \* the run: where it is, the answers, the gaps it found
    texts,          \* texts written so far
    kills, fills,   \* what happened from outside
    cut,            \* history: files that a kill left bound and not recorded, or empty
    overwritten     \* history: texts a splice replaced, with whether one was asked

interviewVars == <<spelled, recorded, body, backups, talk, texts, kills, fills, cut,
                   overwritten>>

Files == {"l1", "bible"}
Names == {"name", "slug"}
Slots == PlainSlots \cup TemplatedSlots
FileOf(s) == IF s \in PlainSlots THEN "l1" ELSE "bible"
Spells(f) == IF f = "l1" THEN {"name"} ELSE Names
NoSection == 0
Unfilled == 1

NoSession == [at |-> "none", values |-> [n \in Names |-> 0], ask |-> {}, files |-> {},
              every |-> FALSE, gaps |-> {}, populated |-> {}, slot |-> CHOOSE s \in Slots : TRUE]

Talks ==
    [at : {"none", "names", "files", "gaps", "slots", "offered", "asked"},
     values : [Names -> 0..MaxNames], ask : SUBSET Names, files : SUBSET Files, every : BOOLEAN,
     gaps : SUBSET Slots, populated : SUBSET Slots, slot : Slots]

InterviewTypeOK ==
    /\ spelled \in [Files -> [Names -> 0..MaxNames]] /\ recorded \in [Names -> 0..MaxNames]
    /\ body \in [Slots -> 0..(MaxTexts + 1)] /\ backups \subseteq 2..(MaxTexts + 1)
    /\ talk \in Talks
    /\ texts \in 0..MaxTexts /\ kills \in 0..MaxKills /\ fills \in 0..MaxKills
    /\ cut \subseteq Files \cup {"record"}
    /\ overwritten \subseteq [text : 2..(MaxTexts + 1), how : {"agreed", "unseen"}]

\* An instance made from the templates: nothing is spelled out or filled in.
InterviewInit ==
    /\ spelled = [f \in Files |-> [n \in Names |-> 0]] /\ recorded = [n \in Names |-> 0]
    /\ body = [s \in Slots |-> IF s \in PlainSlots THEN Unfilled ELSE NoSection]
    /\ backups = {} /\ talk = NoSession /\ texts = 0 /\ kills = 0 /\ fills = 0
    /\ cut = {} /\ overwritten = {}

At(step) == talk.at = step
NewText == texts + 2

-----------------------------------------------------------------------------
(* The names.                                                              *)

\* Names a file still leaves open, without those recorded before.
OpenNames(f) == {n \in Spells(f) : spelled[f][n] = 0 /\ recorded[n] = 0}

BeginInterview(every) ==
    /\ At("none")
    /\ talk' = [NoSession EXCEPT
            !.at = "names", !.every = every, !.values = recorded,
            !.ask = UNION {OpenNames(f) : f \in Files},
            !.files = {f \in Files : \E n \in Spells(f) : spelled[f][n] = 0}]
    /\ UNCHANGED <<spelled, recorded, body, backups, texts, kills, fills, cut, overwritten>>

\* Return alone is an answer too, the empty one.
AnswerName(n, v) ==
    /\ At("names") /\ n \in talk.ask
    /\ talk' = [talk EXCEPT !.ask = @ \ {n}, !.values = [@ EXCEPT ![n] = v]]
    /\ UNCHANGED <<spelled, recorded, body, backups, texts, kills, fills, cut, overwritten>>

NamesAsked ==
    /\ At("names") /\ talk.ask = {}
    /\ talk' = [talk EXCEPT
            !.at = IF \A n \in Names : talk.values[n] = 0 THEN "gaps" ELSE "files"]
    /\ UNCHANGED <<spelled, recorded, body, backups, texts, kills, fills, cut, overwritten>>

\* bind_macros, or _bind_partial for what is still open.
Bound(f) == [n \in Names |-> IF n \in Spells(f) /\ spelled[f][n] = 0
                             THEN talk.values[n] ELSE spelled[f][n]]

RewriteFile(f) ==
    /\ At("files") /\ f \in talk.files
    /\ spelled' = [spelled EXCEPT ![f] = Bound(f)]
    /\ talk' = [talk EXCEPT !.files = @ \ {f}]
    /\ UNCHANGED <<recorded, body, backups, texts, kills, fills, cut, overwritten>>

SaveNamesOnce ==  \* Mutation of SaveNames
    /\ At("files") /\ talk.files = {}
    /\ recorded' = IF \A n \in Names : recorded[n] = 0 THEN talk.values ELSE recorded
    /\ talk' = [talk EXCEPT !.at = "gaps"]
    /\ UNCHANGED <<spelled, body, backups, texts, kills, fills, cut, overwritten>>

\* _save_bindings, after the last file.
SaveNames ==
    /\ At("files") /\ talk.files = {}
    /\ recorded' = talk.values
    /\ talk' = [talk EXCEPT !.at = "gaps"]
    /\ UNCHANGED <<spelled, body, backups, texts, kills, fills, cut, overwritten>>

-----------------------------------------------------------------------------
(* The sections.                                                           *)

\* classify_slot: a path that names an unknown or empty slug has no file.
Resolved(s) == s \in PlainSlots \/ recorded["slug"] > 1
State(s) == IF Resolved(s) THEN body[s] ELSE NoSection
Populated(s) == State(s) > Unfilled

FindGaps ==
    /\ At("gaps")
    /\ LET full == {s \in Slots : Populated(s)}
           gaps == IF talk.every THEN Slots ELSE Slots \ full
       IN talk' = IF gaps = {} THEN NoSession
                     ELSE [NoSession EXCEPT !.at = "slots", !.gaps = gaps,
                                            !.populated = gaps \cap full]
    /\ UNCHANGED <<spelled, recorded, body, backups, texts, kills, fills, cut, overwritten>>

\* --redo: one section, whatever its state.
FindOne(s) ==
    /\ At("gaps") /\ talk.every
    /\ talk' = [NoSession EXCEPT !.at = "slots", !.gaps = {s},
                                    !.populated = IF Populated(s) THEN {s} ELSE {}]
    /\ UNCHANGED <<spelled, recorded, body, backups, texts, kills, fills, cut, overwritten>>

\* On to a section, as it was when the gaps were looked for.
TurnTo(s) ==
    /\ At("slots") /\ s \in talk.gaps
    /\ talk' = [talk EXCEPT !.slot = s,
                        !.at = IF s \in talk.populated THEN "offered" ELSE "asked"]
    /\ UNCHANGED <<spelled, recorded, body, backups, texts, kills, fills, cut, overwritten>>

Rest(done) == IF talk.gaps = {done} THEN NoSession
              ELSE [talk EXCEPT !.at = "slots", !.gaps = @ \ {done}]

Replace ==
    /\ At("offered") /\ talk' = [talk EXCEPT !.at = "asked"]
    /\ UNCHANGED <<spelled, recorded, body, backups, texts, kills, fills, cut, overwritten>>

\* Kept or skipped at the offer; aborted at the preview; a required answer left
\* out, or one that fails its validation twice.
LeaveSlot ==
    /\ At("offered") \/ At("asked")
    /\ talk' = Rest(talk.slot)
    /\ UNCHANGED <<spelled, recorded, body, backups, texts, kills, fills, cut, overwritten>>

\* splice_slot_body looks the target up by the path as the bank has it: no file is
\* called <slug>.md, and the slot fails.
SpliceFails ==
    /\ At("asked") /\ talk.slot \in TemplatedSlots
    /\ talk' = Rest(talk.slot)
    /\ UNCHANGED <<spelled, recorded, body, backups, texts, kills, fills, cut, overwritten>>

TextsOf(f) == {body[s] : s \in {t \in Slots : FileOf(t) = f /\ body[t] > Unfilled}}

SpliceNoBackup(t) ==  \* Mutation of Splice
    /\ At("asked") /\ talk.slot \in PlainSlots
    /\ body' = [body EXCEPT ![talk.slot] = t]
    /\ talk' = Rest(talk.slot)
    /\ texts' = IF t = Unfilled THEN texts ELSE texts + 1
    /\ UNCHANGED <<spelled, recorded, backups, kills, fills, cut, overwritten>>

\* The whole file is put by, as it is now, then replaced by a rename.  Answers that
\* compose to nothing leave the section unfilled.
Splice(t) ==
    /\ At("asked") /\ talk.slot \in PlainSlots
    /\ LET s == talk.slot IN
       /\ backups' = IF body[s] = t THEN backups ELSE backups \cup TextsOf("l1")
       /\ body' = [body EXCEPT ![s] = t]
       /\ overwritten' = IF body[s] <= Unfilled THEN overwritten
            ELSE overwritten \cup {[text |-> body[s],
                   how |-> IF s \in talk.populated THEN "agreed" ELSE "unseen"]}
    /\ talk' = Rest(talk.slot)
    /\ texts' = IF t = Unfilled THEN texts ELSE texts + 1
    /\ UNCHANGED <<spelled, recorded, kills, fills, cut>>

-----------------------------------------------------------------------------
(* From outside.                                                           *)

\* The brain fills a section itself (docs/specs/agent-persona-fill.md).
BrainFills(s) ==
    /\ fills < MaxKills /\ texts < MaxTexts
    /\ body[s] <= Unfilled
    /\ fills' = fills + 1 /\ texts' = texts + 1
    /\ body' = [body EXCEPT ![s] = NewText]
    /\ UNCHANGED <<spelled, recorded, backups, talk, kills, cut, overwritten>>

\* It records a name, the slug above all, for the paths that need it.
BrainRecords(n) ==
    /\ fills < MaxKills /\ recorded[n] = 0
    /\ fills' = fills + 1
    /\ recorded' = [recorded EXCEPT ![n] = MaxNames]
    /\ UNCHANGED <<spelled, body, backups, talk, texts, kills, cut, overwritten>>

\* Ctrl-C, the end of the input, or the terminal closed: what was asked is gone.
Killed ==
    /\ ~At("none") /\ kills < MaxKills
    /\ kills' = kills + 1 /\ talk' = NoSession
    /\ cut' = IF At("files") /\ recorded # talk.values THEN cut \cup {"record"} ELSE cut
    /\ UNCHANGED <<spelled, recorded, body, backups, texts, fills, overwritten>>

\* In the middle of write_text, which empties the file first: no name is open in it.
KilledWriting(f) ==
    /\ At("files") /\ f \in talk.files /\ kills < MaxKills
    /\ kills' = kills + 1 /\ talk' = NoSession
    /\ cut' = cut \cup {"record", f}
    /\ body' = [s \in Slots |-> IF FileOf(s) = f THEN NoSection ELSE body[s]]
    /\ spelled' = [spelled EXCEPT ![f] = [n \in Names |-> 1]]
    /\ UNCHANGED <<recorded, backups, texts, fills, overwritten>>

InterviewNext ==
    \/ \E every \in BOOLEAN : BeginInterview(every)
    \/ \E n \in Names, v \in 1..MaxNames : AnswerName(n, v)
    \/ NamesAsked \/ SaveNames \/ FindGaps \/ Replace \/ LeaveSlot \/ SpliceFails \/ Killed
    \/ \E f \in Files : RewriteFile(f) \/ KilledWriting(f)
    \/ \E n \in Names : BrainRecords(n)
    \/ \E s \in Slots : FindOne(s) \/ TurnTo(s) \/ BrainFills(s)
    \/ Splice(Unfilled) \/ (texts < MaxTexts /\ Splice(NewText))

InterviewSpec == InterviewInit /\ [][InterviewNext]_interviewVars

-----------------------------------------------------------------------------
(* Properties.                                                             *)

\* A name that a file spells out is spelled as it is recorded, and so the same in
\* every file, after any number of sessions none of which was killed while it wrote.
\* (engine.py: "recoverable if the operator re-runs")
NamesAgree ==
    ~At("files") /\ cut = {} =>
        \A f \in Files : \A n \in Spells(f) : spelled[f][n] \in {0, recorded[n]}

\* No text a section ever held is lost but in a file a kill emptied, whatever was
\* replaced and whoever wrote it: it stands, or a backup has it.
\* (docs/specs/persona-system.md:252)
TextsKept ==
    cut \cap Files = {} =>
        \A t \in 2..(texts + 1) : t \in backups \/ \E s \in Slots : body[s] = t

\* A text is replaced without a question only if it was written after the session
\* had looked.  (docs/specs/persona-system.md:29)
AskedBeforeReplaced ==
    \A o \in overwritten : o.how = "unseen" => fills > 0

InterviewKept == NamesAgree /\ TextsKept /\ AskedBeforeReplaced

=============================================================================

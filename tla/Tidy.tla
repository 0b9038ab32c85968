-------------------------------- MODULE Tidy --------------------------------
(***************************************************************************)
(* The two sheets of memory that a nightly task keeps short: HOT.md, whose *)
(* sections hold a few items each, and JOURNAL.md, whose entries age.  A   *)
(* sweep reads the sheet, copies what must go to the archive, and writes   *)
(* the rest back whole; brains write in the sheet all the while.           *)
(*   lib/heartbeat/builtins/{hot_tidy,journal_tidy}.py                     *)
(***************************************************************************)
EXTENDS Naturals, FiniteSets

CONSTANTS
    MaxItems,       \* bound: bullets of a section, entries of the journal
    KeepItems,      \* MAX_ITEMS_PER_SECTION
    MaxSweeps,      \* bound: sweeps that write
    MaxOmens        \* bound: sweeps killed between their writes, and edits
                    \*        that fall between a sweep's read and its last write

ASSUME TidyAssumption == {MaxItems, KeepItems, MaxSweeps, MaxOmens} \subseteq Nat

VARIABLES
    which,      \* the sheet: HOT.md or JOURNAL.md
    sheet,      \* its items, numbered as they were written: the newest is on top
    state,      \* item of the journal -> open, or how it ended
    old,        \* items of the journal older than ROLLING_DAYS
    sweep,      \* the sweep: what it keeps of what it read, what it has yet to copy
    archive,    \* item -> copies under memory/L2
    written,    \* the items ever written
    sweeps, omens

tidyVars == <<which, sheet, state, old, sweep, archive, written, sweeps, omens>>

States == {"open", "resolved", "promoted"}
Items == 1..MaxItems
NoSweep == [at |-> "idle", kept |-> {}, left |-> {}]

TidyTypeOK ==
    /\ written \in 0..MaxItems /\ sheet \subseteq 1..written
    /\ state \in [Items -> States] /\ old \subseteq Items
    /\ which \in {"hot", "journal"}
    /\ sweep \in [at : {"idle", "copying"}, kept : SUBSET (1..written), left : SUBSET (1..written)]
    /\ archive \in [Items -> Nat]
    /\ sweeps \in 0..MaxSweeps /\ omens \in 0..MaxOmens

TidyInit ==
    /\ which \in {"hot", "journal"} /\ sheet = {}
    /\ state = [i \in Items |-> "open"] /\ old = {}
    /\ sweep = NoSweep
    /\ archive = [i \in Items |-> 0] /\ written = 0
    /\ sweeps = 0 /\ omens = 0

Omen == omens < MaxOmens /\ omens' = omens + 1
OmenIf(p) == IF p THEN Omen ELSE UNCHANGED omens

-----------------------------------------------------------------------------
\* A brain or a person writes a new item on top, or settles one of the journal.
AddItem ==
    /\ written < MaxItems /\ written' = written + 1
    /\ OmenIf(sweep.at # "idle")
    /\ sheet' = sheet \cup {written + 1}
    /\ UNCHANGED <<which, state, old, sweep, archive, sweeps>>

SettleItem(i, s) ==
    /\ which = "journal" /\ i \in sheet /\ state[i] = "open" /\ s # "open" /\ sweep.at = "idle"
    /\ state' = [state EXCEPT ![i] = s]
    /\ UNCHANGED <<which, sheet, old, sweep, archive, sweeps, omens, written>>

ThirtyDays(i) ==
    /\ which = "journal" /\ i \in sheet \ old
    /\ old' = old \cup {i}
    /\ UNCHANGED <<which, sheet, state, sweep, archive, sweeps, omens, written>>

-----------------------------------------------------------------------------
\* What leaves the sheet: the overflow, or what is over and has aged; of that,
\* what was promoted is in L2 already and is dropped.
Leaves ==
    IF which = "hot" THEN {i \in sheet : Cardinality({j \in sheet : j > i}) >= KeepItems}
    ELSE {i \in sheet \cap old : state[i] # "open"}

DroppedSettled ==  \* Mutation of Dropped
    IF which = "hot" THEN {} ELSE {i \in Items : state[i] # "open"}

Dropped == IF which = "hot" THEN {} ELSE {i \in Items : state[i] = "promoted"}

ReadSheet ==
    /\ sweep.at = "idle" /\ sweeps < MaxSweeps /\ sweeps' = sweeps + 1
    /\ sweep' = [at |-> "copying", left |-> Leaves \ Dropped, kept |-> sheet \ Leaves]
    /\ UNCHANGED <<which, sheet, state, old, archive, omens, written>>

\* Under a file name of its own, or at the end of the month's file.
CopyToArchive(i) ==
    /\ sweep.at = "copying" /\ i \in sweep.left
    /\ archive' = [archive EXCEPT ![i] = @ + 1]
    /\ sweep' = [sweep EXCEPT !.left = @ \ {i}]
    /\ UNCHANGED <<which, sheet, state, old, sweeps, omens, written>>

RewriteSheetFirst ==  \* Mutation of RewriteSheet
    /\ sweep.at = "copying"
    /\ sheet' = sweep.kept /\ sweep' = NoSweep
    /\ UNCHANGED <<which, state, old, archive, sweeps, omens, written>>

RewriteSheet ==
    /\ sweep.at = "copying" /\ sweep.left = {}
    /\ sheet' = sweep.kept /\ sweep' = NoSweep
    /\ UNCHANGED <<which, state, old, archive, sweeps, omens, written>>

\* Killed before the sheet is written, or while it is.
SweepKilled ==
    /\ sweep.at # "idle" /\ Omen
    /\ sheet' \in {sheet} \cup (IF sweep.left = {} THEN {{}} ELSE {})
    /\ sweep' = NoSweep
    /\ UNCHANGED <<which, state, old, archive, sweeps, written>>

TidyNext ==
    \/ AddItem
    \/ \E i \in Items : ThirtyDays(i) \/ CopyToArchive(i)
    \/ \E i \in Items, s \in States : SettleItem(i, s)
    \/ ReadSheet \/ RewriteSheet \/ SweepKilled

TidySpec == TidyInit /\ [][TidyNext]_tidyVars

-----------------------------------------------------------------------------
(* Properties. *)

\* What was written on a sheet is on it or in the archive, never twice and never
\* nowhere, but for what was promoted to L2 by hand; as long as no sweep is killed
\* and nobody writes between the moment it reads the sheet and the one it writes
\* it back.  (hot_tidy.run, journal_tidy.run: the archive first)
NothingTidiedAway ==
    omens = 0 /\ sweep.at = "idle" =>
        \A i \in 1..written :
            \/ i \in sheet /\ archive[i] = 0
            \/ i \notin sheet /\ (archive[i] = 1 \/ (state[i] = "promoted" /\ i \in old))

=============================================================================

----------------------------- MODULE MemoryIndex -----------------------------
(***************************************************************************)
(* The memory of an instance: markdown files, which brains and people also *)
(* edit by hand, and an SQLite index derived from them, which the commands *)
(* `jc memory new/write/link` follow up on and `rebuild` derives anew.     *)
(*   lib/memory/{db,scaffolding}.py, bin/jc-memory                         *)
(***************************************************************************)
EXTENDS Naturals, FiniteSets

CONSTANTS
    Notes,          \* files, each named for its slug
    Odd,            \* notes whose frontmatter gives another slug than the path
    Clerks,         \* commands that write a note, at a time
    MaxRevisions    \* bound: contents of the notes

ASSUME MemoryIndexAssumption == Odd \subseteq Notes /\ Notes # {} /\ MaxRevisions \in Nat

VARIABLES
    text,       \* note -> its revision, 0 when there is no file
    row,        \* note -> the revision its row in `entries` has, 0 for no row
    backlinks,  \* the table of links: from, to
    table,      \* INDEX.md: the notes it lists
    clerk,      \* command -> where it stands, on which note
    rebuild,    \* the rebuild: where, what it has listed, parsed and changed
    drifted     \* history: the index may differ from the files, see Properties

memoryVars == <<text, row, backlinks, table, clerk, rebuild, drifted>>

Revisions == 0..MaxRevisions
NotePairs == Notes \X Notes
OnDisk == {n \in Notes : text[n] > 0}
AtDesk == [at |-> "idle", note |-> CHOOSE n \in Notes : TRUE, read |-> 0, link |-> FALSE]
NoRebuild == [at |-> "idle", listed |-> {}, left |-> {}, note |-> CHOOSE n \in Notes : TRUE,
              read |-> 0, row |-> [n \in Notes |-> 0], links |-> {}, alone |-> FALSE]

\* What a note links to: with every other revision, all the others.
LinksFrom(n, rev) == {p \in NotePairs : p[1] = n /\ p[2] # n /\ rev % 2 = 1}

MemoryTypeOK ==
    /\ text \in [Notes -> Revisions] /\ row \in [Notes -> Revisions]
    /\ backlinks \subseteq NotePairs /\ table \subseteq Notes
    /\ clerk \in [Clerks -> [at : {"idle", "written", "parsed", "indexed"}, note : Notes,
                             read : Revisions, link : BOOLEAN]]
    /\ rebuild \in [at : {"idle", "listed", "parsed", "inTx", "synced"}, listed : SUBSET Notes,
                    left : SUBSET Notes, note : Notes, read : Revisions,
                    row : [Notes -> Revisions], links : SUBSET NotePairs, alone : BOOLEAN]
    /\ drifted \in BOOLEAN

MemoryInit ==
    /\ text = [n \in Notes |-> 0] /\ row = [n \in Notes |-> 0]
    /\ backlinks = {} /\ table = {}
    /\ clerk = [c \in Clerks |-> AtDesk]
    /\ rebuild = NoRebuild
    /\ drifted = FALSE

Quiet == rebuild.at = "idle" /\ \A c \in Clerks : clerk[c].at = "idle"

\* Something else than the rebuild moves: the rebuild is not alone.
Disturbed == rebuild' = [rebuild EXCEPT !.alone = FALSE]

-----------------------------------------------------------------------------
\* A brain's own tools, an editor, a scaffold: the file, and not the index.
EditByHand(n) ==
    /\ \E rev \in Revisions \ {text[n]} : text' = [text EXCEPT ![n] = rev]
    /\ drifted' = TRUE /\ Disturbed
    /\ UNCHANGED <<row, backlinks, table, clerk>>

\* cmd_new, cmd_write, cmd_link: the file first.  A link is added to a note that
\* is there, and leaves INDEX.md alone.
WriteNote(c, n, link) ==
    /\ clerk[c].at = "idle" /\ (link => n \in OnDisk)
    /\ \E rev \in Revisions \ {0, text[n]} : text' = [text EXCEPT ![n] = rev]
    /\ clerk' = [clerk EXCEPT ![c] = [AtDesk EXCEPT !.at = "written", !.note = n,
                                                    !.link = link]]
    /\ drifted' = (drifted \/ ~Quiet) /\ Disturbed
    /\ UNCHANGED <<row, backlinks, table>>

ParseNote(c) ==
    /\ clerk[c].at = "written" /\ clerk[c].note \in OnDisk
    /\ clerk' = [clerk EXCEPT ![c].at = "parsed", ![c].read = text[clerk[c].note]]
    /\ UNCHANGED <<text, row, backlinks, table, rebuild, drifted>>

\* upsert: the row, and the links from it anew.
UpsertedKeepingLinks(links, n, read) ==  \* Mutation of Upserted
    links \cup LinksFrom(n, read)

Upserted(links, n, read) == {p \in links : p[1] # n} \cup LinksFrom(n, read)

UpsertNote(c) ==
    /\ clerk[c].at = "parsed" /\ rebuild.at # "inTx"
    /\ row' = [row EXCEPT ![clerk[c].note] = clerk[c].read]
    /\ backlinks' = Upserted(backlinks, clerk[c].note, clerk[c].read)
    /\ clerk' = [clerk EXCEPT ![c] = IF @.link THEN AtDesk ELSE [@ EXCEPT !.at = "indexed"]]
    /\ Disturbed
    /\ UNCHANGED <<text, table, drifted>>

\* _write_index, from the rows.
Rows == {n \in Notes : row[n] > 0}

ClerkTables(c) ==
    /\ clerk[c].at = "indexed"
    /\ table' = Rows
    /\ clerk' = [clerk EXCEPT ![c] = AtDesk]
    /\ UNCHANGED <<text, row, backlinks, rebuild, drifted>>

\* Killed, or the database is locked for five seconds, or the file is missing.
ClerkFails(c) ==
    /\ clerk[c].at # "idle"
    /\ clerk' = [clerk EXCEPT ![c] = AtDesk]
    /\ drifted' = TRUE /\ Disturbed
    /\ UNCHANGED <<text, row, backlinks, table>>

-----------------------------------------------------------------------------
\* rebuild: the paths; then each file parsed and upserted, the first upsert
\* beginning the transaction; then the rows of no path deleted, and the commit.
ListNotes ==
    /\ rebuild.at = "idle"
    /\ rebuild' = [NoRebuild EXCEPT !.at = "listed", !.listed = OnDisk, !.left = OnDisk,
                                    !.alone = Quiet]
    /\ drifted' = (drifted \/ ~Quiet)
    /\ UNCHANGED <<text, row, backlinks, table, clerk>>

ParseFirst(n) ==
    /\ rebuild.at = "listed" /\ n \in rebuild.left \cap OnDisk
    /\ rebuild' = [rebuild EXCEPT !.at = "parsed", !.note = n, !.read = text[n],
                                  !.left = rebuild.left \ {n}]
    /\ UNCHANGED <<text, row, backlinks, table, clerk, drifted>>

UpsertFirst ==
    /\ rebuild.at = "parsed"
    /\ rebuild' = [rebuild EXCEPT !.at = "inTx", !.read = 0,
          !.row = [row EXCEPT ![rebuild.note] = rebuild.read],
          !.links = Upserted(backlinks, rebuild.note, rebuild.read)]
    /\ UNCHANGED <<text, row, backlinks, table, clerk, drifted>>

UpsertNext(n) ==
    /\ rebuild.at = "inTx" /\ n \in rebuild.left \cap OnDisk
    /\ rebuild' = [rebuild EXCEPT !.left = rebuild.left \ {n},
                                  !.row = [rebuild.row EXCEPT ![n] = text[n]],
                                  !.links = Upserted(rebuild.links, n, text[n])]
    /\ UNCHANGED <<text, row, backlinks, table, clerk, drifted>>

\* delete_missing, with the slugs of the paths: a row whose slug is not its
\* path's is missing.  The links from and to a row that goes, go.
MissingNone(rows) ==  \* Mutation of Missing
    {}

Missing(rows) == {n \in Notes : rows[n] > 0 /\ n \notin rebuild.listed \ Odd}

DeleteMissing ==
    /\ rebuild.at \in {"listed", "inTx"} /\ rebuild.left = {}
    /\ LET rows == IF rebuild.at = "inTx" THEN rebuild.row ELSE row
           links == IF rebuild.at = "inTx" THEN rebuild.links ELSE backlinks
           missing == Missing(rows)
       IN /\ row' = [n \in Notes |-> IF n \in missing THEN 0 ELSE rows[n]]
          /\ backlinks' = {p \in links : p[1] \notin missing /\ p[2] \notin missing}
    /\ rebuild' = [NoRebuild EXCEPT !.at = "synced", !.alone = rebuild.alone]
    /\ UNCHANGED <<text, table, clerk, drifted>>

RebuildTables ==
    /\ rebuild.at = "synced"
    /\ table' = Rows
    /\ drifted' = (drifted /\ ~rebuild.alone)
    /\ rebuild' = NoRebuild
    /\ UNCHANGED <<text, row, backlinks, clerk>>

\* Killed, the database is locked, or a file that was listed is missing; what was
\* not committed is rolled back.
RebuildFails ==
    /\ rebuild.at # "idle"
    /\ rebuild' = NoRebuild
    /\ drifted' = TRUE
    /\ UNCHANGED <<text, row, backlinks, table, clerk>>

MemoryNext ==
    \/ \E n \in Notes : EditByHand(n) \/ ParseFirst(n) \/ UpsertNext(n)
    \/ \E c \in Clerks, n \in Notes, link \in BOOLEAN : WriteNote(c, n, link)
    \/ \E c \in Clerks : ParseNote(c) \/ UpsertNote(c) \/ ClerkTables(c) \/ ClerkFails(c)
    \/ ListNotes \/ UpsertFirst \/ DeleteMissing \/ RebuildTables \/ RebuildFails

MemorySpec == MemoryInit /\ [][MemoryNext]_memoryVars

-----------------------------------------------------------------------------
(* Properties.  The index may differ from the files (drifted) once a file   *)
(* is edited by hand, a command fails, or two overlap; a rebuild that ends  *)
(* with nothing else under way since it began makes up for all of it.       *)

LinksOfFiles == UNION {LinksFrom(n, text[n]) : n \in Notes}

\* Commands that do not overlap keep the index in step with the files, and a
\* rebuild brings it back there from whatever edits, kills and lost races left
\* behind: every row, every line of INDEX.md, and no link that no file has.
\* (cmd_new, cmd_write, cmd_link, rebuild, _write_index)
IndexFollows ==
    Quiet /\ ~drifted =>
        /\ \A n \in Notes : row[n] = text[n]
        /\ backlinks \subseteq LinksOfFiles
        /\ table = OnDisk

\* The index is the one that the markdown gives: "the DB can be deleted and
\* rebuilt from markdown" (docs/kb/subsystem/memory-system.md:59), whatever slug
\* a note's frontmatter gives, and with the broken links that lint should find.
RebuildSyncs ==
    Quiet /\ ~drifted =>
        /\ \A n \in Notes : row[n] = text[n]
        /\ backlinks = LinksOfFiles

=============================================================================

----------------------------- MODULE Approvals -----------------------------
(***************************************************************************)
(* The approvals table and the change to a memory file that one proposal   *)
(* asks for.  Rows of the proposal are raised, decided, expired and        *)
(* deleted by several processes; an approved row starts the callback that  *)
(* edits the file and moves the proposal out of staging, and an operator   *)
(* may run the same steps again.                                           *)
(*   lib/approvals/{service,dispatch,cli,db}.py, lib/self_model/           *)
(***************************************************************************)
EXTENDS Naturals

CONSTANTS
    Rows,       \* ids of the rows that may be raised for the proposal
    Producers,  \* processes that raise it
    MaxCopies   \* bound: how often the file is changed

VARIABLES
    approval,   \* the rows: status, and whether applied_at is set
    overdue,    \* rows whose expires_at has passed
    raiser,     \* producers that found no row for the source
    deciding,   \* the decision whose transaction is open, or the idle one
    expiring,   \* rows a reader saw pending and overdue, and will write expired
    applier,    \* the callback of each row, and the operator's command
    copies,     \* how often the change is in the file
    change,     \* which model it is for, and whether it adds text or replaces some
    staged,     \* the proposal is in the staging file
    archives,   \* the files it was moved to: applied, rejected
    consent     \* history: some row of the proposal was approved

approvalsVars == <<approval, overdue, raiser, deciding, expiring, applier, copies,
                   change, staged, archives, consent>>

ByHand == "by hand"
Appliers == Rows \cup {ByHand}
NoRow == "no row"
ASSUME ApprovalsAssumption == NoRow \notin Rows /\ MaxCopies \in Nat

Undecided == [row |-> NoRow, to |-> "pending"]
Changes == [model : {"self", "user"}, adds : BOOLEAN]
Idle == [at |-> "idle", row |-> NoRow]
Applying == [at : {"called", "gated", "written", "rejecting", "archived", "moved"},
             row : Rows \cup {NoRow}]
Standings == [status : {"absent", "pending", "approved", "rejected", "expired"}, applied : BOOLEAN]
NotRaised == [status |-> "absent", applied |-> FALSE]

ApprovalsTypeOK ==
    /\ approval \in [Rows -> Standings]
    /\ overdue \subseteq Rows
    /\ raiser \subseteq Producers
    /\ deciding \in [row : Rows, to : {"approved", "rejected"}] \cup {Undecided}
    /\ expiring \subseteq Rows
    /\ applier \in [Appliers -> Applying \cup {Idle}]
    /\ copies \in 0..MaxCopies
    /\ change \in Changes
    /\ staged \in BOOLEAN
    /\ archives \subseteq {"applied", "rejected"}
    /\ consent \in BOOLEAN

ApprovalsInit ==
    /\ approval = [r \in Rows |-> NotRaised]
    /\ overdue = {} /\ raiser = {} /\ expiring = {}
    /\ deciding = Undecided
    /\ applier = [a \in Appliers |-> Idle]
    /\ copies = 0
    /\ change \in Changes
    /\ staged = TRUE
    /\ archives = {}
    /\ consent = FALSE

\* A transaction of decide holds the write lock; readers go on.
Unlocked == deciding = Undecided

\* _select_by_source: the latest row of the source.  Rows of one source coexist
\* only when their raises overlapped, in one second, so any of them is found.
SelectBySource == {r \in Rows : approval[r].status # "absent"}

SetStatus(r, s) == approval' = [approval EXCEPT ![r].status = s]

-----------------------------------------------------------------------------
\* raise_: a SELECT by source, then an INSERT; no UNIQUE holds them together.

RaiseLooks(p) ==
    /\ staged /\ SelectBySource = {} /\ p \notin raiser
    /\ raiser' = raiser \cup {p}
    /\ UNCHANGED <<approval, overdue, deciding, expiring, applier, copies, change,
                   staged, archives, consent>>

RaiseInserts(p) ==
    /\ p \in raiser /\ Unlocked
    /\ raiser' = raiser \ {p}
    /\ \E r \in Rows : approval[r].status = "absent" /\ SetStatus(r, "pending")
    /\ UNCHANGED <<overdue, deciding, expiring, applier, copies, change, staged,
                   archives, consent>>

BecomesOverdue(r) ==
    /\ approval[r].status # "absent" /\ r \notin overdue
    /\ overdue' = overdue \cup {r}
    /\ UNCHANGED <<approval, raiser, deciding, expiring, applier, copies, change,
                   staged, archives, consent>>

\* decide, in BEGIN IMMEDIATE: the checks, then the write and the commit.  An
\* overdue row is refused, and the expiry written for it is rolled back by the
\* exception that says so.
MayDecideAgain(r) == approval[r].status # "absent" /\ r \notin overdue  \* Mutation of MayDecide

MayDecide(r) == approval[r].status = "pending" /\ r \notin overdue

DecideChecks(r, to) ==
    /\ Unlocked /\ MayDecide(r)
    /\ deciding' = [row |-> r, to |-> to]
    /\ UNCHANGED <<approval, overdue, raiser, expiring, applier, copies, change,
                   staged, archives, consent>>

DecideCommits ==
    /\ ~Unlocked
    /\ SetStatus(deciding.row, deciding.to)
    /\ deciding' = Undecided
    /\ IF deciding.to = "approved"
       THEN /\ consent' = TRUE
            /\ applier' = [applier EXCEPT ![deciding.row] =
                              [at |-> "called", row |-> deciding.row]]
       ELSE UNCHANGED <<consent, applier>>
    /\ UNCHANGED <<overdue, raiser, expiring, copies, change, staged, archives>>

\* expire, in BEGIN IMMEDIATE.
Expire(r) ==
    /\ Unlocked /\ approval[r].status = "pending"
    /\ SetStatus(r, "expired")
    /\ UNCHANGED <<overdue, raiser, deciding, expiring, applier, copies, change,
                   staged, archives, consent>>

\* get and list_pending: the expiry is found by a plain read, and written later
\* without a look at what the status has become.
FindExpired(r) ==
    /\ approval[r].status = "pending" /\ r \in overdue /\ r \notin expiring
    /\ expiring' = expiring \cup {r}
    /\ UNCHANGED <<approval, overdue, raiser, deciding, applier, copies, change,
                   staged, archives, consent>>

WriteExpired(r) ==
    /\ r \in expiring /\ Unlocked
    /\ expiring' = expiring \ {r}
    /\ IF approval[r].status = "absent" THEN UNCHANGED approval ELSE SetStatus(r, "expired")
    /\ UNCHANGED <<overdue, raiser, deciding, applier, copies, change, staged,
                   archives, consent>>

\* cmd_gc, months later.
DeleteDecided(r) ==
    /\ approval[r].status \notin {"absent", "pending"}
    /\ Unlocked /\ raiser = {} /\ expiring = {}
    /\ \A a \in Appliers : applier[a] = Idle
    /\ approval' = [approval EXCEPT ![r] = NotRaised]
    /\ overdue' = overdue \ {r}
    /\ UNCHANGED <<raiser, deciding, expiring, applier, copies, change, staged,
                   archives, consent>>

-----------------------------------------------------------------------------
\* The change is made by a row's callback, by `jc approvals apply`, which runs
\* the callback of an approved row again, or by `jc self-model approve`, which
\* finds the approved row itself and stamps nothing.

At(a, step) == applier' = [applier EXCEPT ![a].at = step]
Ends(a) == applier' = [applier EXCEPT ![a] = Idle]

MayApplyAny(r) == approval[r].status # "absent"  \* Mutation of MayApply

MayApply(r) == approval[r].status = "approved"

OperatorApplies(r) ==
    /\ applier[ByHand] = Idle /\ MayApply(r)
    /\ \E stamped \in {r} \cup (IF change.model = "self" THEN {NoRow} ELSE {}) :
          applier' = [applier EXCEPT ![ByHand] = [at |-> "called", row |-> stamped]]
    /\ UNCHANGED <<approval, overdue, raiser, deciding, expiring, copies, change,
                   staged, archives, consent>>

\* The proposal is looked for in staging.  The self model's apply_proposal also
\* asks for an approved row, but for a note in JOURNAL.md, which needs no consent and
\* is not what is proposed here; the user model's does not; the checks on paths and
\* frozen sections are those this proposal passes.
Permitted == change.model = "user" \/ \E r \in SelectBySource : approval[r].status = "approved"
Refused ==
    /\ change.model = "self"
    /\ SelectBySource = {} \/ \E r \in SelectBySource : approval[r].status # "approved"

PassGate(a) ==
    /\ applier[a].at = "called"
    /\ \/ staged /\ Permitted /\ At(a, "gated")
       \/ (~staged \/ Refused) /\ Ends(a)
    /\ UNCHANGED <<approval, overdue, raiser, deciding, expiring, copies, change,
                   staged, archives, consent>>

\* An added text is added again; a text to replace is gone after the first time.
WriteFile(a) ==
    /\ applier[a].at = "gated" /\ copies < MaxCopies
    /\ IF change.adds \/ copies = 0
       THEN At(a, "written") /\ copies' = copies + 1
       ELSE Ends(a) /\ UNCHANGED copies
    /\ UNCHANGED <<approval, overdue, raiser, deciding, expiring, change, staged,
                   archives, consent>>

ArchiveAfterwards(a) ==  \* Mutation of Archive
    /\ applier[a].at \in {"written", "rejecting"}
    /\ At(a, IF staged THEN "archived" ELSE "moved")
    /\ UNCHANGED <<approval, overdue, raiser, deciding, expiring, copies, change,
                   staged, archives, consent>>

\* move_proposal: nothing when the proposal has left staging; else a line is
\* appended to the archive, and then the staging file is written without it.
Archive(a) ==
    /\ applier[a].at \in {"written", "rejecting"}
    /\ IF staged
       THEN /\ archives' = archives \cup
                  {IF applier[a].at = "written" THEN "applied" ELSE "rejected"}
            /\ applier' = [applier EXCEPT ![a].at = "archived",
                                          ![a].row = IF applier[a].at = "written" THEN @ ELSE NoRow]
       ELSE UNCHANGED archives /\ At(a, "moved")
    /\ UNCHANGED <<approval, overdue, raiser, deciding, expiring, copies, change,
                   staged, consent>>

Unstage(a) ==
    /\ applier[a].at = "archived"
    /\ staged' = FALSE
    /\ At(a, "moved")
    /\ UNCHANGED <<approval, overdue, raiser, deciding, expiring, copies, change,
                   archives, consent>>

FinishedOrTried(a) == applier[a].at \in {"moved", "gated"}  \* Mutation of Finished

\* The end of _run_callback: the row is stamped, whatever its status is by now.
Finished(a) == applier[a].at = "moved"
StampApplied(a) ==
    /\ Finished(a) /\ Unlocked
    /\ Ends(a)
    /\ approval' = [r \in Rows |->
          IF r = applier[a].row /\ approval[r].status # "absent"
          THEN [approval[r] EXCEPT !.applied = TRUE] ELSE approval[r]]
    /\ UNCHANGED <<overdue, raiser, deciding, expiring, copies, change, staged,
                   archives, consent>>

\* `reject` of either model: the proposal is moved, in its staging file; the user
\* model's then decides the row like anyone else.
RejectProposal ==
    /\ applier[ByHand] = Idle /\ staged
    /\ applier' = [applier EXCEPT ![ByHand] = [at |-> "rejecting", row |-> NoRow]]
    /\ UNCHANGED <<approval, overdue, raiser, deciding, expiring, copies, change,
                   staged, archives, consent>>

ApplierDies(a) ==
    /\ applier[a] # Idle
    /\ Ends(a)
    /\ UNCHANGED <<approval, overdue, raiser, deciding, expiring, copies, change,
                   staged, archives, consent>>

-----------------------------------------------------------------------------
ApplierStep(a) ==
    \/ PassGate(a) \/ WriteFile(a)
    \/ Archive(a) \/ Unstage(a) \/ StampApplied(a) \/ ApplierDies(a)

ApprovalsNext ==
    \/ \E p \in Producers : RaiseLooks(p) \/ RaiseInserts(p)
    \/ \E r \in Rows :
          \/ BecomesOverdue(r) \/ Expire(r) \/ FindExpired(r) \/ WriteExpired(r)
          \/ DeleteDecided(r) \/ OperatorApplies(r)
          \/ \E to \in {"approved", "rejected"} : DecideChecks(r, to)
    \/ DecideCommits
    \/ \E a \in Appliers : ApplierStep(a)
    \/ RejectProposal

ApprovalsSpec == ApprovalsInit /\ [][ApprovalsNext]_approvalsVars

-----------------------------------------------------------------------------
(* Properties. *)

\* The file is changed only after some row of the proposal was approved,
\* however many rows, callbacks and operators there are, and whatever has
\* become of the row since (decide, apply_callback_now, apply_proposal).
ConsentBeforeChange == copies > 0 => consent

\* applied_at says that the change is in the file: not that it was only tried,
\* or that the proposal was found to be gone (_run_callback).
StampedIsChanged == \A r \in Rows : approval[r].applied => copies > 0

\* No decision is replaced by the opposite one, two principals' taps and
\* e-mails notwithstanding; the expiry may overwrite it (decide).
DecisionStands ==
    [][\A r \in Rows :
          approval[r].status \in {"approved", "rejected"}
          => approval'[r].status \in {approval[r].status, "expired", "absent"}]_approvalsVars

\* The proposal is in staging or in an archive whoever dies in between, so the
\* change can still be made, or looked up (move_proposal's order of writes).
ProposalKept == staged \/ archives # {}

\* A change is made with consent, is said to be made only when it is, and its
\* proposal is not lost on the way.
ChangeFollowsConsent == ConsentBeforeChange /\ StampedIsChanged /\ ProposalKept

\* Terminal states are immutable.
TerminalImmutable ==
    [][\A r \in Rows :
          approval[r].status \in {"approved", "rejected", "expired"}
          => approval'[r].status \in {approval[r].status, "absent"}]_approvalsVars

\* A second run of the applier adds nothing.
AppliedOnce == copies <= 1

=============================================================================

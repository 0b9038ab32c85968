------------------------------ MODULE Proposals ------------------------------
(***************************************************************************)
(* The proposals to change the persona's rules or the user's profile: a    *)
(* cycle reads what is staged, asks the model, and appends what is new;    *)
(* who decides on one moves its line to the applied or the rejected ones,  *)
(* rewriting the staged.  One file, no lock, and any of them may die.      *)
(* What a decision needs and does to the target is Approvals'.             *)
(*   lib/self_model/{store,runner,proposer}.py, lib/user_model/ likewise   *)
(***************************************************************************)
EXTENDS Naturals, Sequences

CONSTANTS
    Wishes,         \* content hashes: what a proposal proposes
    Deciders,       \* processes that move a proposal: the gateway, a command
    MaxProposals,   \* bound: proposals made, numbered as they are made
    MaxDeaths       \* bound: cycles and deciders that die

ASSUME ProposalsAssumption == MaxProposals \in Nat /\ MaxDeaths \in Nat

VARIABLES
    wish,           \* proposal -> its content hash
    batch,          \* proposal -> the cycle that made it
    staged,         \* proposals in *-staging.jsonl
    archived,       \* proposals in *-applied.jsonl and *-rejected.jsonl
    cooled,         \* proposals made before the cooldown
    cycle,          \* the cycle under way: its proposals not yet appended
    decider,        \* decider -> its proposal, and the lines that it read
    casualties,
    appended,       \* history: proposals that were appended
    entangled,      \* history: proposals appended, or moved, within another move
    torn            \* history: proposals whose decider died before or in its rewrite

proposalsVars == <<wish, batch, staged, archived, cooled, cycle, decider, casualties,
                   appended, entangled, torn>>

Ids == 1..Len(wish)
AtRest == [at |-> "rest", id |-> 0, lines |-> {}]
Emptied == 0
NoCycle == [at |-> "none", todo |-> {}]
Moving == {d \in Deciders : decider[d].at # "rest"}

ProposalsTypeOK ==
    /\ wish \in Seq(Wishes) /\ batch \in Seq(Nat)
    /\ Len(wish) <= MaxProposals /\ Len(batch) = Len(wish)
    /\ appended \subseteq Ids /\ cooled \subseteq Ids
    /\ staged \cup archived \cup entangled \subseteq appended
    /\ torn \subseteq Ids \cup {Emptied}
    /\ cycle \in [at : {"none", "saving"}, todo : SUBSET (Ids \ appended)]
    /\ decider \in [Deciders -> [at : {"rest", "read", "copied"}, id : Ids \cup {0},
                                 lines : SUBSET appended]]
    /\ \A d \in Moving : decider[d].id \in decider[d].lines
    /\ casualties \in 0..MaxDeaths

ProposalsInit ==
    /\ wish = <<>> /\ batch = <<>> /\ staged = {} /\ archived = {} /\ cooled = {}
    /\ cycle = NoCycle /\ decider = [d \in Deciders |-> AtRest]
    /\ casualties = 0 /\ appended = {} /\ entangled = {} /\ torn = {}

-----------------------------------------------------------------------------
(* A cycle.                                                                *)

RecentNever(w) == FALSE  \* Mutation of Recent

\* has_recent_proposal: what was decided is not looked at.
Recent(w) == \E p \in staged \ cooled : wish[p] = w

\* The model answers with up to three proposals, among them the same one twice.
\* All are looked up before the first is appended, and those that are new are kept.
BeginCycle(new) ==
    /\ cycle = NoCycle /\ \A i \in DOMAIN new : ~Recent(new[i])
    /\ Len(wish) + Len(new) <= MaxProposals
    /\ wish' = wish \o new
    /\ batch' = batch \o [i \in DOMAIN new |-> Len(wish) + 1]
    /\ cycle' = [at |-> "saving", todo |-> (Len(wish) + 1)..(Len(wish) + Len(new))]
    /\ UNCHANGED <<staged, archived, cooled, decider, casualties, appended, entangled,
                   torn>>

\* save_proposal, in their order.
SaveProposal ==
    /\ \E p \in cycle.todo :
       /\ \A r \in cycle.todo : p <= r
       /\ staged' = staged \cup {p} /\ appended' = appended \cup {p}
       /\ entangled' = IF Moving # {} THEN entangled \cup {p} ELSE entangled
       /\ cycle' = IF cycle.todo = {p} THEN NoCycle ELSE [cycle EXCEPT !.todo = @ \ {p}]
    /\ UNCHANGED <<wish, batch, archived, cooled, decider, casualties, torn>>

CycleDies ==
    /\ cycle # NoCycle /\ casualties < MaxDeaths
    /\ casualties' = casualties + 1 /\ cycle' = NoCycle
    /\ UNCHANGED <<wish, batch, staged, archived, cooled, decider, appended,
                   entangled, torn>>

-----------------------------------------------------------------------------
(* move_proposal.                                                          *)

ReadStaged(d, p) ==
    /\ decider[d] = AtRest /\ p \in staged
    /\ decider' = [decider EXCEPT ![d] = [at |-> "read", id |-> p, lines |-> staged]]
    /\ entangled' = IF Moving = {} THEN entangled
                ELSE entangled \cup {p} \cup {decider[e].id : e \in Moving}
    /\ UNCHANGED <<wish, batch, staged, archived, cooled, cycle, casualties, appended,
                   torn>>

CopyAfterwards(d) ==  \* Mutation of CopyLine
    /\ decider[d].at = "read"
    /\ staged' = decider[d].lines \ {decider[d].id}
    /\ decider' = [decider EXCEPT ![d].at = "copied"]
    /\ UNCHANGED <<wish, batch, archived, cooled, cycle, casualties, appended,
                   entangled, torn>>

CopyLine(d) ==
    /\ decider[d].at = "read"
    /\ archived' = archived \cup {decider[d].id}
    /\ decider' = [decider EXCEPT ![d].at = "copied"]
    /\ UNCHANGED <<wish, batch, staged, cooled, cycle, casualties, appended,
                   entangled, torn>>

RewriteStaged(d) ==
    /\ decider[d].at = "copied"
    /\ staged' = decider[d].lines \ {decider[d].id}
    /\ decider' = [decider EXCEPT ![d] = AtRest]
    /\ UNCHANGED <<wish, batch, archived, cooled, cycle, casualties, appended,
                   entangled, torn>>

\* Between two steps, or in the write, which empties the file first.
DeciderDies(d, writing) ==
    /\ d \in Moving /\ casualties < MaxDeaths
    /\ writing => decider[d].at = "copied"
    /\ casualties' = casualties + 1
    /\ decider' = [decider EXCEPT ![d] = AtRest]
    /\ staged' = IF writing THEN {} ELSE staged
    /\ torn' = torn \cup {IF writing THEN Emptied ELSE decider[d].id}
    /\ UNCHANGED <<wish, batch, archived, cooled, cycle, appended, entangled>>

CooldownEnds(p) ==
    /\ p \in Ids \ (cooled \cup cycle.todo) /\ cooled' = cooled \cup {p}
    /\ UNCHANGED <<wish, batch, staged, archived, cycle, decider, casualties,
                   appended, entangled, torn>>

ProposalsNext ==
    \/ \E v, w \in Wishes : BeginCycle(<<v>>) \/ BeginCycle(<<v, w>>)
    \/ SaveProposal \/ CycleDies
    \/ \E d \in Deciders :
          \/ \E p \in Ids : ReadStaged(d, p)
          \/ CopyLine(d) \/ RewriteStaged(d)
          \/ \E writing \in BOOLEAN : DeciderDies(d, writing)
    \/ \E p \in Ids : CooldownEnds(p)

ProposalsSpec == ProposalsInit /\ [][ProposalsNext]_proposalsVars

-----------------------------------------------------------------------------
(* Properties.                                                             *)

\* A proposal that was appended is staged or archived, whatever dies, unless it was
\* appended or moved while another was moved, or a rewrite was cut, which empties the
\* file.
SavedIsKept == appended \ entangled \subseteq staged \cup archived

\* A proposal that was moved leaves the staged ones, with the same exceptions and
\* that of a move that was cut.
DecidedLeaves ==
    \A p \in (archived \cap staged) \ (entangled \cup torn) :
        \E d \in Deciders : decider[d].at = "copied" /\ decider[d].id = p

\* A change is not staged twice within the cooldown, but by one answer of the model
\* or after a race.  (docs/specs/autonomous-user-model.md:251)
ProposedOnce ==
    \A p, q \in staged \ (cooled \cup entangled) :
        p < q /\ wish[p] = wish[q] => batch[p] = batch[q]

ProposalsHandled == Emptied \notin torn => SavedIsKept /\ DecidedLeaves /\ ProposedOnce

=============================================================================

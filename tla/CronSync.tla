------------------------------ MODULE CronSync ------------------------------
(***************************************************************************)
(* `jc heartbeat cron sync`: each instance of a user keeps a block of its  *)
(* own, made of its tasks.yaml, in the user's one crontab, which a sync    *)
(* reads and installs whole.                                               *)
(*   lib/heartbeat/cron_sync.py, bin/jc-heartbeat                          *)
(***************************************************************************)
EXTENDS Naturals

CONSTANTS
    Homes,          \* instances of one user
    MaxEdits,       \* bound: edits of a tasks.yaml
    MaxOverlaps     \* bound: crontabs installed while another sync has read one

ASSUME CronAssumption == MaxEdits \in Nat /\ MaxOverlaps \in Nat

VARIABLES
    schedule,   \* instance -> its tasks.yaml, by edits; 0 has nothing scheduled
    crontab,    \* instance -> its block
    syncer,     \* instance -> its sync: where, its block, the crontab it read
    synced,     \* history: instance -> the block it installed last
    spoilt,     \* history: instances whose block a misread crontab cost, or kept,
                \* since their last sync
    overlaps

cronVars == <<schedule, crontab, syncer, synced, spoilt, overlaps>>

Blocks == 0..MaxEdits
Empty == [h \in Homes |-> 0]
NoSync == [at |-> "idle", block |-> 0, prior |-> Empty]

CronTypeOK ==
    /\ schedule \in [Homes -> Blocks] /\ crontab \in [Homes -> Blocks]
    /\ syncer \in [Homes -> [at : {"idle", "built", "read", "misread"}, block : Blocks,
                             prior : [Homes -> Blocks]]]
    /\ synced \in [Homes -> Blocks] /\ spoilt \subseteq Homes
    /\ overlaps \in 0..MaxOverlaps

CronInit ==
    /\ schedule = Empty /\ crontab = Empty
    /\ syncer = [h \in Homes |-> NoSync]
    /\ synced = Empty /\ spoilt = {}
    /\ overlaps = 0

Edit(h) ==
    /\ \E b \in Blocks \ {schedule[h]} :
          /\ b = schedule[h] + 1 \/ b = 0
          /\ schedule' = [schedule EXCEPT ![h] = b]
    /\ UNCHANGED <<crontab, syncer, synced, spoilt, overlaps>>

\* build_block, or ValueError for a schedule that is none.
BuildBlock(h) ==
    /\ syncer[h].at = "idle"
    /\ syncer' = [syncer EXCEPT ![h] = [NoSync EXCEPT !.at = "built", !.block = schedule[h]]]
    /\ UNCHANGED <<schedule, crontab, synced, spoilt, overlaps>>

\* read_current_crontab: `crontab -l` that fails with exit status 1, for whatever
\* reason, reads as a crontab that is empty.
ReadCrontab(h) ==
    /\ syncer[h].at = "built"
    /\ \/ syncer' = [syncer EXCEPT ![h] = [@ EXCEPT !.at = "read", !.prior = crontab]]
       \/ /\ crontab # Empty
          /\ syncer' = [syncer EXCEPT ![h] = [@ EXCEPT !.at = "misread", !.prior = Empty]]
    /\ UNCHANGED <<schedule, crontab, synced, spoilt, overlaps>>

\* compose_crontab: the block is taken out of what was read and put at its end.
ComposeAlone(h) ==  \* Mutation of Compose
    [i \in Homes |-> IF i = h THEN syncer[h].block ELSE 0]

Compose(h) == [syncer[h].prior EXCEPT ![h] = syncer[h].block]

\* What a sync that has misread the crontab does harm to: it writes its own block
\* over all others; without one it writes nothing, and its old block stays.
Harmed(h) ==
    {i \in IF syncer[h].block = 0 THEN {h} ELSE Homes \ {h} :
       syncer[h].at = "misread" /\ crontab[i] # 0}

HasRead(h) == syncer[h].at \in {"read", "misread"}

\* A text that is what was read is not written.
Install(h) ==
    /\ HasRead(h)
    /\ IF \E i \in Homes \ {h} : HasRead(i)
       THEN overlaps < MaxOverlaps /\ overlaps' = overlaps + 1
       ELSE UNCHANGED overlaps
    /\ crontab' = IF Compose(h) = syncer[h].prior THEN crontab ELSE Compose(h)
    /\ synced' = [synced EXCEPT ![h] = syncer[h].block]
    /\ spoilt' = (spoilt \ {h}) \cup Harmed(h)
    /\ syncer' = [syncer EXCEPT ![h] = NoSync]
    /\ UNCHANGED schedule

\* A dry run, a crontab that cannot be installed, one whose reading fails with
\* another status, a sync that is killed.
SyncEnds(h) ==
    /\ syncer[h].at # "idle"
    /\ syncer' = [syncer EXCEPT ![h] = NoSync]
    /\ UNCHANGED <<schedule, crontab, synced, spoilt, overlaps>>

CronNext ==
    \E h \in Homes : Edit(h) \/ BuildBlock(h) \/ ReadCrontab(h) \/ Install(h) \/ SyncEnds(h)

CronSpec == CronInit /\ [][CronNext]_cronVars

-----------------------------------------------------------------------------
(* Properties. *)

\* The crontab holds for each instance the block of its last sync: no other sync
\* takes it away, unless the two read the crontab before either had written, or a
\* sync took it for empty; and then its own next sync puts it right, even
\* next to further edits and syncs of the others.
\* (sync, compose_crontab, strip_block; nothing locks the crontab)
BlocksKept == overlaps = 0 => \A h \in Homes \ spoilt : crontab[h] = synced[h]

\* "Lines outside the marker block are preserved untouched", which holds of a
\* crontab that could be read. (docs/specs/heartbeat-cron-sync.md)
OthersUntouched ==
    [][\A h \in Homes : HasRead(h) /\ Install(h) /\ overlaps' = 0
          => \A i \in Homes \ {h} : crontab'[i] = crontab[i]]_cronVars

=============================================================================

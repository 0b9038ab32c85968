--------------------------- MODULE PeripheryProofs ---------------------------
(***************************************************************************)
(* The components of MCPeriphery that share a file, a lock or a registry:  *)
(* what each of them promises, for any number of processes, chats, runs    *)
(* and jobs.                                                               *)
(***************************************************************************)
EXTENDS MCPeriphery, FiniteSetTheorems, SequenceTheorems, TLAPS

-----------------------------------------------------------------------------
(* The crontab: every instance rewrites it whole from what it has read. *)

CronTyped ==
    /\ schedule \in [Homes -> Blocks] /\ crontab \in [Homes -> Blocks]
    /\ synced \in [Homes -> Blocks] /\ overlaps \in Nat /\ spoilt \subseteq Homes
    /\ syncer \in [Homes -> [at : {"idle", "built", "read", "misread"}, block : Blocks,
                             prior : [Homes -> Blocks]]]

\* While no two syncs have overlapped, the crontab holds what was installed, where no
\* misreading has spoilt that, and a sync has in hand the crontab of now, or none.
ReadIsCurrent ==
    overlaps = 0 =>
        /\ \A h \in Homes \ spoilt : crontab[h] = synced[h]
        /\ \A h \in Homes : /\ syncer[h].at = "read" => syncer[h].prior = crontab
                            /\ syncer[h].at = "misread" => syncer[h].prior = Empty

CronInv == CronTyped /\ ReadIsCurrent

LEMMA CronInitially == CronInit => CronInv
  BY CronAssumption DEF CronAssumption, CronInit, CronInv, CronTyped, ReadIsCurrent, NoSync,
     Blocks, Empty

\* A sync that gets on, or ends, without installing anything.
LEMMA SyncGetsOn ==
    ASSUME CronInv, NEW h \in Homes,
           NEW new \in [at : {"idle", "built", "read", "misread"}, block : Blocks,
                        prior : [Homes -> Blocks]],
           new.at = "read" => new.prior = crontab,
           new.at = "misread" => new.prior = Empty,
           syncer' = [syncer EXCEPT ![h] = new],
           UNCHANGED <<schedule, crontab, synced, spoilt, overlaps>>
    PROVE  CronInv'
  <1>1. \A i \in Homes : syncer'[i] = IF i = h THEN new ELSE syncer[i]
    BY DEF CronInv, CronTyped
  <1>2. CronTyped'
    BY DEF CronInv, CronTyped
  <1>3. ReadIsCurrent'
    BY <1>1 DEF CronInv, ReadIsCurrent, Empty
  <1>4. QED
    BY <1>2, <1>3 DEF CronInv

LEMMA InstallKeeps ==
    ASSUME CronInv, NEW h \in Homes, Install(h)
    PROVE  CronInv'
  <1> DEFINE next == Compose(h)
             block == syncer[h].block
  <1>1. HasRead(h) /\ block \in Blocks /\ syncer[h].prior \in [Homes -> Blocks]
    BY DEF Install, CronInv, CronTyped
  <1>2. next \in [Homes -> Blocks]
    BY <1>1 DEF Compose
  <1>3. NoSync \in [at : {"idle", "built", "read", "misread"}, block : Blocks,
                    prior : [Homes -> Blocks]]
    BY CronAssumption DEF CronAssumption, NoSync, Blocks, Empty
  <1>4. overlaps' \in Nat /\ (overlaps' = 0 => overlaps = 0)
    BY DEF Install, CronInv, CronTyped
  <1>5. crontab' = (IF next = syncer[h].prior THEN crontab ELSE next)
    BY DEF Install
  <1>6. CronTyped'
    BY <1>1, <1>2, <1>3, <1>4, <1>5 DEF Install, CronInv, CronTyped, Harmed
  <1>7. \A i \in Homes : synced'[i] = IF i = h THEN block ELSE synced[i]
    BY DEF Install, CronInv, CronTyped
  <1>8. ASSUME overlaps' = 0
        PROVE  /\ \A i \in Homes \ spoilt' : crontab'[i] = synced'[i]
               /\ \A i \in Homes : ~HasRead(i)'
    <2>1. /\ \A i \in Homes \ spoilt : crontab[i] = synced[i]
          /\ syncer[h].at = "read" => syncer[h].prior = crontab
          /\ syncer[h].at = "misread" => syncer[h].prior = Empty
      BY <1>4, <1>8 DEF CronInv, ReadIsCurrent
    <2>2. spoilt' = (spoilt \ {h}) \cup Harmed(h)
      BY DEF Install
    <2>3. \A i \in Homes \ {h} : ~HasRead(i)
      BY <1>4, <1>8 DEF Install, CronInv, CronTyped
    <2>4. \A i \in Homes : syncer'[i] = IF i = h THEN NoSync ELSE syncer[i]
      BY DEF Install, CronInv, CronTyped
    <2>5. \A i \in Homes : ~HasRead(i)'
      BY <2>3, <2>4 DEF HasRead, NoSync
    <2>6. CASE syncer[h].at = "read"
      <3>1. next = [crontab EXCEPT ![h] = block]
        BY <2>1, <2>6 DEF Compose
      <3>2. crontab' = next /\ Harmed(h) = {}
        BY <1>5, <2>1, <2>6 DEF Harmed
      <3>3. \A i \in Homes : crontab'[i] = IF i = h THEN block ELSE crontab[i]
        BY <3>1, <3>2 DEF CronInv, CronTyped
      <3>4. QED
        BY <1>7, <2>1, <2>2, <2>5, <3>2, <3>3
    <2>7. CASE syncer[h].at = "misread" /\ block = 0
      <3>1. next = syncer[h].prior
        BY <2>1, <2>7 DEF Compose, Empty
      <3>2. crontab' = crontab /\ (crontab[h] # 0 => h \in Harmed(h))
        BY <1>5, <2>7, <3>1 DEF Harmed
      <3>3. QED
        BY <1>7, <2>1, <2>2, <2>5, <2>7, <3>2
    <2>8. CASE syncer[h].at = "misread" /\ block # 0
      <3>1. next = [Empty EXCEPT ![h] = block]
        BY <2>1, <2>8 DEF Compose
      <3>2. \A i \in Homes : next[i] = IF i = h THEN block ELSE 0
        BY <3>1 DEF Empty
      <3>3. next # syncer[h].prior
        BY <2>1, <2>8, <3>2 DEF Empty
      <3>4. crontab' = next
        BY <1>5, <3>3
      <3>5. \A i \in Homes \ {h} : crontab[i] # 0 => i \in Harmed(h)
        BY <2>8 DEF Harmed
      <3>6. QED
        BY <1>7, <2>1, <2>2, <2>5, <3>2, <3>4, <3>5
    <2>9. QED
      BY <1>1, <2>6, <2>7, <2>8 DEF HasRead
  <1>9. ReadIsCurrent'
    BY <1>8 DEF ReadIsCurrent, HasRead
  <1>10. QED
    BY <1>6, <1>9 DEF CronInv

LEMMA CronStays == CronInv /\ [CronNext]_cronVars => CronInv'
  <1> SUFFICES ASSUME CronInv, [CronNext]_cronVars
               PROVE  CronInv'
    OBVIOUS
  <1> DEFINE Syncs == [at : {"idle", "built", "read", "misread"}, block : Blocks,
                       prior : [Homes -> Blocks]]
  <1>0. NoSync \in Syncs /\ NoSync.at = "idle" /\ Empty \in [Homes -> Blocks]
    BY CronAssumption DEF CronAssumption, NoSync, Blocks, Empty
  <1>1. ASSUME NEW h \in Homes, Edit(h)
        PROVE  CronInv'
    BY <1>1 DEF Edit, CronInv, CronTyped, ReadIsCurrent, Empty
  <1>2. ASSUME NEW h \in Homes, BuildBlock(h)
        PROVE  CronInv'
    <2> DEFINE new == [NoSync EXCEPT !.at = "built", !.block = schedule[h]]
    <2>1. new \in Syncs /\ new.at = "built"
      BY <1>0 DEF CronInv, CronTyped, NoSync
    <2>2. /\ syncer' = [syncer EXCEPT ![h] = new]
          /\ UNCHANGED <<schedule, crontab, synced, spoilt, overlaps>>
      BY <1>2 DEF BuildBlock
    <2> HIDE DEF new
    <2>3. QED
      BY <2>1, <2>2, SyncGetsOn
  <1>3. ASSUME NEW h \in Homes, ReadCrontab(h)
        PROVE  CronInv'
    <2> DEFINE reads == [syncer[h] EXCEPT !.at = "read", !.prior = crontab]
               misreads == [syncer[h] EXCEPT !.at = "misread", !.prior = Empty]
    <2>0. syncer[h] \in Syncs
      BY DEF CronInv, CronTyped
    <2>1. /\ reads \in Syncs /\ reads.at = "read" /\ reads.prior = crontab
          /\ misreads \in Syncs /\ misreads.at = "misread" /\ misreads.prior = Empty
      BY <1>0, <2>0 DEF CronInv, CronTyped
    <2>2. /\ \/ syncer' = [syncer EXCEPT ![h] = reads]
             \/ syncer' = [syncer EXCEPT ![h] = misreads]
          /\ UNCHANGED <<schedule, crontab, synced, spoilt, overlaps>>
      BY <1>3 DEF ReadCrontab
    <2> HIDE DEF reads, misreads
    <2>3. CASE syncer' = [syncer EXCEPT ![h] = reads]
      BY <2>1, <2>2, <2>3, SyncGetsOn
    <2>4. CASE syncer' = [syncer EXCEPT ![h] = misreads]
      BY <2>1, <2>2, <2>4, SyncGetsOn
    <2>5. QED
      BY <2>2, <2>3, <2>4
  <1>4. ASSUME NEW h \in Homes, SyncEnds(h)
        PROVE  CronInv'
    BY <1>0, <1>4, SyncGetsOn DEF SyncEnds
  <1>5. CASE UNCHANGED cronVars
    BY <1>5 DEF cronVars, CronInv, CronTyped, ReadIsCurrent, Empty
  <1>6. QED
    BY <1>1, <1>2, <1>3, <1>4, <1>5, InstallKeeps DEF CronNext

\* A sync of one instance never takes away the block of another, however many
\* instances there are, unless it had read the crontab before that was written, or
\* had taken it for empty; and an instance whose block was lost that way has it
\* back with its own next sync.
THEOREM CrontabKeepsBlocks == CronSpec => []BlocksKept
  <1>1. CronInv => BlocksKept
    BY DEF CronInv, ReadIsCurrent, BlocksKept
  <1>2. QED
    BY <1>1, CronInitially, CronStays, PTL DEF CronSpec

-----------------------------------------------------------------------------
(* The Codex tokens: a refresh token is good once. *)

Holds == [at : {"idle", "wanting", "posting", "saving", "calling"},
          pair : Pairs \cup {NoPair}, again : BOOLEAN, tries : Nat]

CodexTyped ==
    /\ file \in Pairs /\ good \in Pairs /\ unlucky \in Nat
    /\ cli \in Pairs \cup {NoPair} /\ locker \in Callers \cup {NoCaller}
    /\ caller \in [Callers -> Holds]

\* Who refreshes has the lock, and a pair, from its post until its file is written.
RefreshesAlone ==
    \A c \in Callers : caller[c].at \in {"posting", "saving"}
                          => locker = c /\ caller[c].pair \in Pairs

\* Who refreshes holds what is good, and the file holds it unless someone is about
\* to write it; while nothing that costs a pair has happened.
HoldsGood ==
    unlucky = 0 =>
        /\ ~banished /\ cli = NoPair
        /\ \A c \in Callers : caller[c].at \in {"posting", "saving"} => caller[c].pair = good
        /\ (\A c \in Callers : caller[c].at # "saving") => file = good

CodexInv == CodexTyped /\ RefreshesAlone /\ HoldsGood

LEMMA CodexInitially == CodexInit => CodexInv
  BY CodexAssumption DEF CodexAssumption, CodexInit, CodexInv, CodexTyped, RefreshesAlone,
     HoldsGood, Holds, Idle, Pairs, NoPair

\* A caller that stands nowhere near a refresh afterwards, and had no new pair.
LEMMA CallerRests ==
    ASSUME CodexInv, NEW c \in Callers, NEW new \in Holds,
           new.at \notin {"posting", "saving"},
           caller[c].at # "saving" \/ caller[c].pair = file \/ unlucky' # 0,
           caller' = [caller EXCEPT ![c] = new],
           locker' = locker \/ (locker = c /\ locker' = NoCaller),
           unlucky' \in Nat, unlucky' = 0 => unlucky = 0 /\ ~banished' /\ good' = good,
           good' \in Pairs,
           UNCHANGED <<file, cli>>
    PROVE  CodexInv'
  <1>1. \A d \in Callers : caller'[d] = IF d = c THEN new ELSE caller[d]
    BY DEF CodexInv, CodexTyped
  <1>2. CodexTyped'
    BY DEF CodexInv, CodexTyped
  <1>3. RefreshesAlone'
    BY <1>1 DEF CodexInv, RefreshesAlone
  <1>4. HoldsGood'
    <2> SUFFICES ASSUME unlucky' = 0
                 PROVE  HoldsGood'
      BY DEF HoldsGood
    <2>1. unlucky = 0 /\ ~banished' /\ good' = good
      OBVIOUS
    <2>2. \A d \in Callers : caller'[d].at \in {"posting", "saving"} => caller'[d].pair = good'
      BY <1>1, <2>1 DEF CodexInv, HoldsGood
    <2>3. ASSUME \A d \in Callers : caller'[d].at # "saving"
          PROVE  file' = good'
      <3>1. CASE caller[c].at = "saving"
        BY <3>1, <2>1 DEF CodexInv, HoldsGood
      <3>2. CASE caller[c].at # "saving"
        BY <3>2, <2>1, <2>3, <1>1 DEF CodexInv, HoldsGood
      <3>3. QED
        BY <3>1, <3>2
    <2>4. QED
      BY <2>1, <2>2, <2>3 DEF CodexInv, HoldsGood
  <1>5. QED
    BY <1>2, <1>3, <1>4 DEF CodexInv

\* A caller that holds the lock for its refresh, with what is good in its hands.
LEMMA CallerRefreshes ==
    ASSUME CodexInv, NEW c \in Callers, NEW new \in Holds,
           new.at \in {"posting", "saving"}, new.pair \in Pairs,
           caller' = [caller EXCEPT ![c] = new],
           locker \in {c, NoCaller}, locker' = c,
           unlucky' \in Nat, good' \in Pairs,
           unlucky' = 0 => /\ unlucky = 0 /\ new.pair = good'
                           /\ new.at = "posting" => file = good',
           UNCHANGED <<file, cli, banished>>
    PROVE  CodexInv'
  <1>1. \A d \in Callers : caller'[d] = IF d = c THEN new ELSE caller[d]
    BY DEF CodexInv, CodexTyped
  <1>2. CodexTyped'
    BY DEF CodexInv, CodexTyped
  <1>3. \A d \in Callers : d # c => caller[d].at \notin {"posting", "saving"}
    BY CodexAssumption DEF CodexAssumption, CodexInv, RefreshesAlone
  <1>4. RefreshesAlone'
    BY <1>1, <1>3 DEF RefreshesAlone
  <1>5. HoldsGood'
    <2> SUFFICES ASSUME unlucky' = 0
                 PROVE  HoldsGood'
      BY DEF HoldsGood
    <2>1. unlucky = 0 /\ new.pair = good' /\ (new.at = "posting" => file = good')
      OBVIOUS
    <2>2. \A d \in Callers : caller'[d].at \in {"posting", "saving"} => caller'[d].pair = good'
      BY <1>1, <1>3, <2>1
    <2>3. (\A d \in Callers : caller'[d].at # "saving") => file' = good'
      BY <1>1, <2>1
    <2>4. QED
      BY <2>1, <2>2, <2>3 DEF CodexInv, HoldsGood
  <1>6. QED
    BY <1>2, <1>4, <1>5 DEF CodexInv

\* Refresh reads the file again under the lock; the server's answer is a new pair.
LEMMA RefreshSteps ==
    ASSUME CodexInv, NEW c \in Callers, Refresh(c) \/ Granted(c) \/ NoAnswer(c)
    PROVE  CodexInv'
  <1>0. caller[c] \in Holds /\ file \in Pairs /\ good \in Pairs /\ unlucky \in Nat /\ MaxPairs \in Nat
    BY CodexAssumption DEF CodexAssumption, CodexInv, CodexTyped
  <1>1. CASE Refresh(c)
    <2>1. CASE caller[c].again \/ file \in aged
      <3> DEFINE new == [caller[c] EXCEPT !.at = "posting", !.pair = file, !.tries = 0]
      <3>1. new \in Holds /\ new.at = "posting" /\ new.pair = file
        BY <1>0 DEF Holds
      <3>2. caller' = [caller EXCEPT ![c] = new] /\ locker = NoCaller /\ locker' = c
        BY <1>1, <2>1 DEF Refresh, Moves
      <3>3. UNCHANGED <<file, good, aged, cli, unlucky, banished>>
        BY <1>1 DEF Refresh
      <3>4. \A d \in Callers : caller[d].at # "saving"
        BY <3>2, CodexAssumption DEF CodexAssumption, CodexInv, RefreshesAlone
      <3>5. unlucky = 0 => file = good
        BY <3>4 DEF CodexInv, HoldsGood
      <3> HIDE DEF new
      <3>6. QED
        BY <1>0, <3>1, <3>2, <3>3, <3>5, CallerRefreshes
    <2>2. CASE ~(caller[c].again \/ file \in aged)
      <3> DEFINE new == [caller[c] EXCEPT !.at = "calling", !.pair = file]
      <3>1. new \in Holds /\ new.at = "calling"
        BY <1>0 DEF Holds
      <3>2. caller' = [caller EXCEPT ![c] = new] /\ UNCHANGED <<locker, file, good, cli, unlucky, banished>>
        BY <1>1, <2>2 DEF Refresh, Moves
      <3>3. caller[c].at = "wanting" /\ (unlucky = 0 => ~banished)
        BY <1>1 DEF Refresh, CodexInv, HoldsGood
      <3> HIDE DEF new
      <3>4. QED
        BY <1>0, <3>1, <3>2, <3>3, CallerRests
    <2>3. QED
      BY <2>1, <2>2
  <1>2. CASE Granted(c)
    <2>1. caller[c].at = "posting" /\ caller[c].pair = good /\ locker = c
      BY <1>2 DEF Granted, CodexInv, RefreshesAlone
    <2>2. UNCHANGED <<file, locker, cli, unlucky, banished>>
      BY <1>2 DEF Granted
    <2>3. CASE good < MaxPairs /\ good' = good + 1
               /\ Moves(c, [caller[c] EXCEPT !.at = "saving", !.pair = good + 1])
      <3> DEFINE new == [caller[c] EXCEPT !.at = "saving", !.pair = good + 1]
      <3>1. good' \in Pairs
        BY <2>3, <1>0 DEF Pairs
      <3>2. new \in Holds /\ new.at = "saving" /\ new.pair = good'
        BY <2>3, <3>1, <1>0 DEF Holds
      <3>3. caller' = [caller EXCEPT ![c] = new]
        BY <2>3 DEF Moves
      <3> HIDE DEF new
      <3>4. QED
        BY <1>0, <2>1, <2>2, <3>1, <3>2, <3>3, CallerRefreshes
    <2>4. CASE good' = good /\ Moves(c, [caller[c] EXCEPT !.at = "saving"])
      <3> DEFINE new == [caller[c] EXCEPT !.at = "saving"]
      <3>1. new \in Holds /\ new.at = "saving" /\ new.pair = good
        BY <2>1, <1>0 DEF Holds
      <3>2. caller' = [caller EXCEPT ![c] = new]
        BY <2>4 DEF Moves
      <3> HIDE DEF new
      <3>3. QED
        BY <1>0, <2>1, <2>2, <2>4, <3>1, <3>2, CallerRefreshes
    <2>5. QED
      BY <1>2, <2>3, <2>4 DEF Granted
  <1>3. CASE NoAnswer(c)
    <2>1. caller[c].at = "posting" /\ locker = c /\ UNCHANGED <<file, cli, banished>>
      BY <1>3 DEF NoAnswer, CodexInv, RefreshesAlone
    <2>2. /\ unlucky' \in Nat /\ good' \in Pairs
          /\ unlucky' = 0 => unlucky = 0 /\ good' = good
      BY <1>3, <1>0 DEF NoAnswer, Unlucky, Pairs
    <2>3. unlucky = 0 => ~banished /\ caller[c].pair = good /\ file = good
      <3>1. \A d \in Callers : caller[d].at # "saving"
        BY <2>1 DEF CodexInv, RefreshesAlone
      <3>2. QED
        BY <2>1, <3>1 DEF CodexInv, HoldsGood
    <2>4. CASE LastPost(c)
      <3>1. Idle \in Holds /\ Idle.at = "idle"
        BY DEF Idle, Holds
      <3>2. caller' = [caller EXCEPT ![c] = Idle] /\ locker' = NoCaller
        BY <1>3, <2>1, <2>4 DEF NoAnswer, Moves, Release
      <3>3. QED
        BY <2>1, <2>2, <2>3, <3>1, <3>2, CallerRests
    <2>5. CASE ~LastPost(c)
      <3> DEFINE new == [caller[c] EXCEPT !.tries = @ + 1]
      <3>1. new \in Holds /\ new.at = "posting" /\ new.pair = caller[c].pair
        BY <1>0, <2>1 DEF Holds
      <3>0. caller[c].pair \in Pairs
        BY <2>1 DEF CodexInv, RefreshesAlone
      <3>2. caller' = [caller EXCEPT ![c] = new] /\ locker' = locker
        BY <1>3, <2>5 DEF NoAnswer, Moves
      <3> HIDE DEF new
      <3>3. QED
        BY <2>1, <2>2, <2>3, <3>0, <3>1, <3>2, CallerRefreshes
    <2>6. QED
      BY <2>4, <2>5
  <1>4. QED
    BY <1>1, <1>2, <1>3

\* _atomic_write puts what is good into the file.
LEMMA SaveKeeps ==
    ASSUME CodexInv, NEW c \in Callers, SaveTokens(c)
    PROVE  CodexInv'
  <1> DEFINE new == [caller[c] EXCEPT !.at = "calling"]
  <1>1. caller[c] \in Holds /\ caller[c].at = "saving" /\ locker = c
    BY DEF SaveTokens, CodexInv, CodexTyped, RefreshesAlone
  <1>2. new \in Holds /\ new.at = "calling"
    BY <1>1 DEF Holds
  <1>3. caller' = [caller EXCEPT ![c] = new] /\ locker' = NoCaller /\ file' = caller[c].pair
    BY <1>1 DEF SaveTokens, Moves, Release
  <1>4. UNCHANGED <<good, cli, unlucky, banished>>
    BY DEF SaveTokens
  <1>5. \A d \in Callers : d # c => caller[d].at \notin {"posting", "saving"}
    BY <1>1 DEF CodexInv, RefreshesAlone
  <1>6. \A d \in Callers : caller'[d] = IF d = c THEN new ELSE caller[d]
    BY <1>3 DEF CodexInv, CodexTyped
  <1>7. \A d \in Callers : caller'[d].at \notin {"posting", "saving"}
    BY <1>2, <1>5, <1>6
  <1>8. file' \in Pairs /\ (unlucky = 0 => file' = good)
    BY <1>1, <1>3 DEF CodexInv, RefreshesAlone, HoldsGood
  <1>9. CodexTyped'
    BY <1>2, <1>3, <1>4, <1>8 DEF CodexInv, CodexTyped
  <1>10. QED
    BY <1>4, <1>7, <1>8, <1>9 DEF CodexInv, RefreshesAlone, HoldsGood

LEMMA CodexStays == CodexInv /\ [CodexNext]_codexVars => CodexInv'
  <1> SUFFICES ASSUME CodexInv, [CodexNext]_codexVars
               PROVE  CodexInv'
    OBVIOUS
  <1>0. /\ file \in Pairs /\ good \in Pairs /\ unlucky \in Nat /\ MaxPairs \in Nat
        /\ \A c \in Callers : caller[c] \in Holds
        /\ unlucky = 0 => ~banished
    BY CodexAssumption DEF CodexAssumption, CodexInv, CodexTyped, HoldsGood
  <1>1. Idle \in Holds /\ Idle.at = "idle"
    BY DEF Idle, Holds
  <1>2. ASSUME NEW c \in Callers, GetBearer(c)
        PROVE  CodexInv'
    <2> DEFINE new == [Idle EXCEPT !.at = IF file \in aged THEN "wanting" ELSE "calling",
                                   !.pair = file]
    <2>1. new \in Holds /\ new.at \in {"wanting", "calling"}
      BY <1>0 DEF Idle, Holds
    <2>2. caller' = [caller EXCEPT ![c] = new] /\ UNCHANGED <<locker, file, good, cli, unlucky, banished>>
      BY <1>2 DEF GetBearer, Moves
    <2>3. caller[c].at = "idle"
      BY <1>2 DEF GetBearer
    <2> HIDE DEF new
    <2>4. QED
      BY <1>0, <2>1, <2>2, <2>3, CallerRests
  <1>3. ASSUME NEW c \in Callers, LockTimesOut(c)
        PROVE  CodexInv'
    BY <1>0, <1>1, <1>3, CallerRests DEF LockTimesOut, Moves
  <1>4. ASSUME NEW c \in Callers, RefreshExpired(c)
        PROVE  CodexInv'
    <2>1. unlucky # 0 /\ locker = c
      BY <1>4 DEF RefreshExpired, CodexInv, HoldsGood, RefreshesAlone
    <2>2. QED
      BY <1>0, <1>1, <1>4, <2>1, CallerRests DEF RefreshExpired, Moves, Release
  <1>5. ASSUME NEW c \in Callers, Call(c)
        PROVE  CodexInv'
    <2> DEFINE again == [caller[c] EXCEPT !.at = "wanting", !.again = TRUE]
    <2>1. again \in Holds /\ again.at = "wanting"
      BY <1>0 DEF Holds
    <2>2. /\ caller' = [caller EXCEPT ![c] = again] \/ caller' = [caller EXCEPT ![c] = Idle]
          /\ UNCHANGED <<locker, file, good, cli, unlucky, banished>>
      BY <1>5 DEF Call, Moves
    <2>3. caller[c].at = "calling"
      BY <1>5 DEF Call
    <2> HIDE DEF again
    <2>4. QED
      BY <1>0, <1>1, <2>1, <2>2, <2>3, CallerRests
  <1>6. ASSUME NEW c \in Callers, CallerDies(c)
        PROVE  CodexInv'
    <2>1. /\ unlucky' \in Nat /\ (unlucky' = 0 => unlucky = 0)
          /\ caller[c].at = "saving" => caller[c].pair = file \/ unlucky' # 0
      BY <1>0, <1>6 DEF CallerDies, Unlucky
    <2>2. UNCHANGED <<file, good, cli, banished>> /\ caller' = [caller EXCEPT ![c] = Idle]
          /\ (locker' = locker \/ (locker = c /\ locker' = NoCaller))
      BY <1>6 DEF CallerDies, Moves, Release
    <2>3. QED
      BY <1>0, <1>1, <2>1, <2>2, CallerRests
  <1>7. CASE AccessAges \/ UNCHANGED codexVars
    BY <1>7 DEF AccessAges, codexVars, CodexInv, CodexTyped, RefreshesAlone, HoldsGood
  <1>8. CASE CliRefreshes
    <2>1. good' \in Pairs /\ cli' \in Pairs /\ unlucky' \in Nat \ {0}
      BY <1>0, <1>8 DEF CliRefreshes, Unlucky, Pairs
    <2>2. QED
      BY <1>8, <2>1 DEF CliRefreshes, CodexInv, CodexTyped, RefreshesAlone, HoldsGood
  <1>9. CASE CliWrites
    BY <1>9 DEF CliWrites, CodexInv, CodexTyped, RefreshesAlone, HoldsGood, Pairs, NoPair
  <1>10. QED
    BY <1>2, <1>3, <1>4, <1>5, <1>6, <1>7, <1>8, <1>9, RefreshSteps, SaveKeeps DEF CodexNext

\* However many processes refresh the tokens at a time, none spends a token that
\* another has spent, and the good one is in the file or about to be.
THEOREM TokensAreSpentOnce == CodexSpec => []TokenNotSpentTwice
  <1>1. CodexInv => TokenNotSpentTwice
    BY DEF CodexInv, HoldsGood, TokenNotSpentTwice
  <1>2. QED
    BY <1>1, CodexInitially, CodexStays, PTL DEF CodexSpec

-----------------------------------------------------------------------------
(* Heartbeat tasks: a change is told once, by the brain or by the runner. *)

TaskStates ==
    [at : {"idle", "locked", "fetched", "asking", "answered", "sending"},
     bundle : Versions \cup {NoVersion}, dry : BOOLEAN, pushed : BOOLEAN,
     marked : BOOLEAN, left : SUBSET Destinations]

HeartbeatTyped ==
    /\ version \in Versions /\ lastHash \in Versions \cup {NoVersion}
    /\ taskLock \in TaskRuns \cup {NoTaskRun} /\ lostMarks \in Nat
    /\ taskRun \in [TaskRuns -> TaskStates]
    /\ told \in [Destinations -> [Versions -> Nat]]

\* One run at a time, which knows no version that the source does not have.
RunsAlone ==
    /\ lastHash =< version
    /\ \A r \in TaskRuns :
          /\ taskRun[r].at # "idle" => taskLock = r
          /\ taskRun[r].at = "fetched" =>
                taskRun[r].bundle \in Versions /\ lastHash =< taskRun[r].bundle
          /\ taskRun[r].bundle =< version

\* Nobody has heard of what comes after the hash; of what has the hash, a run that
\* is not through has told at most what it has pushed, and a push leaves a marker
\* or a lost one.
ToldSoFar ==
    /\ \A d \in Destinations, v \in Versions :
          told[d][v] =< 1 + lostMarks /\ (v > lastHash => told[d][v] = 0)
    /\ \A r \in TaskRuns :
          /\ taskRun[r].at \in {"asking", "answered", "sending"} => taskRun[r].bundle = lastHash
                                                                   /\ lastHash \in Versions
          /\ taskRun[r].at \in {"asking", "answered"} =>
                \A d \in Destinations :
                    /\ told[d][lastHash] =< 1
                    /\ ~taskRun[r].pushed => told[d][lastHash] = 0
          /\ taskRun[r].pushed /\ ~taskRun[r].marked => lostMarks >= 1
          /\ taskRun[r].at = "sending" =>
                \A d \in taskRun[r].left : told[d][lastHash] =< lostMarks

HeartbeatInv == HeartbeatTyped /\ RunsAlone /\ ToldSoFar

LEMMA HeartbeatInitially == HeartbeatInit => HeartbeatInv
  <1> SUFFICES ASSUME HeartbeatInit
               PROVE  HeartbeatInv
    OBVIOUS
  <1>1. NotRunning \in TaskStates /\ NotRunning.at = "idle" /\ NotRunning.bundle = 0
        /\ ~NotRunning.pushed
    BY DEF NotRunning, TaskStates, NoVersion
  <1>2. HeartbeatTyped
    BY <1>1, HeartbeatAssumption DEF HeartbeatAssumption, HeartbeatInit, HeartbeatTyped,
       Versions
  <1>3. \A r \in TaskRuns : taskRun[r] = NotRunning
    BY DEF HeartbeatInit
  <1>4. \A d \in Destinations, v \in Versions : told[d][v] = 0
    BY DEF HeartbeatInit
  <1>5. RunsAlone
    BY <1>1, <1>3 DEF HeartbeatInit, RunsAlone, NoVersion
  <1>6. ToldSoFar
    BY <1>1, <1>3, <1>4 DEF HeartbeatInit, ToldSoFar
  <1>7. QED
    BY <1>2, <1>5, <1>6 DEF HeartbeatInv

\* A step of the run that has the lock, or takes it: the others rest.
LEMMA RunGetsOn ==
    ASSUME HeartbeatInv, NEW r \in TaskRuns, NEW new \in TaskStates,
           taskRun' = [taskRun EXCEPT ![r] = new],
           taskLock \in {r, NoTaskRun},
           taskLock' \in {r, NoTaskRun}, new.at # "idle" => taskLock' = r,
           new.at = "fetched" => new.bundle \in Versions /\ lastHash' =< new.bundle,
           new.bundle =< version,
           version' = version,
           lastHash' \in Versions \cup {NoVersion}, lastHash' =< version,
           lostMarks' \in Nat,
           told' \in [Destinations -> [Versions -> Nat]],
           \A d \in Destinations, v \in Versions :
               told'[d][v] =< 1 + lostMarks' /\ (v > lastHash' => told'[d][v] = 0),
           new.at \in {"asking", "answered", "sending"} => new.bundle = lastHash'
                                                           /\ lastHash' \in Versions,
           new.at \in {"asking", "answered"} =>
               \A d \in Destinations :
                   /\ told'[d][lastHash'] =< 1
                   /\ ~new.pushed => told'[d][lastHash'] = 0,
           new.pushed /\ ~new.marked => lostMarks' >= 1,
           new.at = "sending" => \A d \in new.left : told'[d][lastHash'] =< lostMarks',
           lostMarks =< lostMarks'
    PROVE  HeartbeatInv'
  <1>1. \A q \in TaskRuns : taskRun'[q] = IF q = r THEN new ELSE taskRun[q]
    BY DEF HeartbeatInv, HeartbeatTyped
  <1>2. \A q \in TaskRuns : q # r => taskRun[q].at = "idle"
    BY HeartbeatAssumption DEF HeartbeatAssumption, HeartbeatInv, RunsAlone
  <1>3. HeartbeatTyped'
    BY DEF HeartbeatInv, HeartbeatTyped
  <1>4. RunsAlone'
    BY <1>1, <1>2 DEF HeartbeatInv, RunsAlone
  <1>5. \A q \in TaskRuns : q # r => (taskRun[q].pushed /\ ~taskRun[q].marked => lostMarks' >= 1)
    BY DEF HeartbeatInv, HeartbeatTyped, ToldSoFar
  <1>6. \A q \in TaskRuns :
          /\ taskRun'[q].at \in {"asking", "answered", "sending"} => taskRun'[q].bundle = lastHash'
                                                                    /\ lastHash' \in Versions
          /\ taskRun'[q].at \in {"asking", "answered"} =>
                \A d \in Destinations :
                    /\ told'[d][lastHash'] =< 1
                    /\ ~taskRun'[q].pushed => told'[d][lastHash'] = 0
          /\ taskRun'[q].pushed /\ ~taskRun'[q].marked => lostMarks' >= 1
          /\ taskRun'[q].at = "sending" =>
                \A d \in taskRun'[q].left : told'[d][lastHash'] =< lostMarks'
    <2> SUFFICES ASSUME NEW q \in TaskRuns
                 PROVE  /\ taskRun'[q].at \in {"asking", "answered", "sending"}
                              => taskRun'[q].bundle = lastHash' /\ lastHash' \in Versions
                        /\ taskRun'[q].at \in {"asking", "answered"} =>
                              \A d \in Destinations :
                                  /\ told'[d][lastHash'] =< 1
                                  /\ ~taskRun'[q].pushed => told'[d][lastHash'] = 0
                        /\ taskRun'[q].pushed /\ ~taskRun'[q].marked => lostMarks' >= 1
                        /\ taskRun'[q].at = "sending" =>
                              \A d \in taskRun'[q].left : told'[d][lastHash'] =< lostMarks'
      OBVIOUS
    <2>1. CASE q = r
      <3>1. taskRun'[q] = new
        BY <1>1, <2>1
      <3>2. QED
        BY <3>1
    <2>2. CASE q # r
      <3>1. taskRun'[q] = taskRun[q] /\ taskRun[q].at = "idle"
        BY <1>1, <1>2, <2>2
      <3>2. QED
        BY <1>5, <2>2, <3>1
    <2>3. QED
      BY <2>1, <2>2
  <1>7. ToldSoFar'
    BY <1>6 DEF ToldSoFar
  <1>8. QED
    BY <1>3, <1>4, <1>7 DEF HeartbeatInv

\* The lock goes when the run that has it ends.
LEMMA LockGoesWithRun ==
    ASSUME HeartbeatInv, NEW r \in TaskRuns, ~Stands(r, "idle"), NEW new,
           taskRun' = [taskRun EXCEPT ![r] = new], LetGo
    PROVE  taskLock = r /\ taskLock' \in {r, NoTaskRun} /\ (new.at # "idle" => taskLock' = r)
  <1>1. taskLock = r /\ taskRun'[r] = new
    BY DEF HeartbeatInv, HeartbeatTyped, RunsAlone, Stands
  <1>2. QED
    BY <1>1 DEF LetGo

LEMMA RunEnds ==
    ASSUME HeartbeatInv, NEW r \in TaskRuns, ~Stands(r, "idle"),
           taskRun' = [taskRun EXCEPT ![r] = NotRunning], LetGo,
           UNCHANGED <<version, lastHash, told, lostMarks>>
    PROVE  HeartbeatInv'
  <1>1. NotRunning \in TaskStates /\ NotRunning.at = "idle" /\ NotRunning.bundle = 0
        /\ ~NotRunning.pushed
    BY DEF NotRunning, TaskStates, NoVersion
  <1>2. taskLock = r /\ taskLock' \in {r, NoTaskRun}
    BY LockGoesWithRun
  <1>3. /\ version \in Versions /\ lastHash \in Versions \cup {NoVersion} /\ lastHash =< version
        /\ lostMarks \in Nat /\ told \in [Destinations -> [Versions -> Nat]]
        /\ \A d \in Destinations, v \in Versions :
              told[d][v] =< 1 + lostMarks /\ (v > lastHash => told[d][v] = 0)
    BY DEF HeartbeatInv, HeartbeatTyped, RunsAlone, ToldSoFar
  <1>4. NotRunning.bundle =< version
    BY <1>1, <1>3 DEF Versions
  <1>5. /\ lastHash' \in Versions \cup {NoVersion} /\ lastHash' =< version
        /\ lostMarks' \in Nat /\ lostMarks =< lostMarks'
        /\ told' \in [Destinations -> [Versions -> Nat]]
        /\ \A d \in Destinations, v \in Versions :
              told'[d][v] =< 1 + lostMarks' /\ (v > lastHash' => told'[d][v] = 0)
    BY <1>3
  <1> HIDE DEF NotRunning
  <1>6. QED
    BY <1>1, <1>2, <1>4, <1>5, RunGetsOn

\* A step of a run that tells nobody anything and leaves the hash alone.
LEMMA RunGoesOn ==
    ASSUME HeartbeatInv, NEW r \in TaskRuns, NEW new \in TaskStates,
           taskRun' = [taskRun EXCEPT ![r] = new], new.at # "idle",
           taskLock \in {r, NoTaskRun}, taskLock' = r,
           new.at = "fetched" => new.bundle = version,
           new.bundle \in {NoVersion, version, taskRun[r].bundle},
           new.at \in {"answered", "sending"} => /\ Stands(r, "asking") \/ Stands(r, "answered")
                                                 /\ new.bundle = taskRun[r].bundle,
           new.at = "sending" => ~new.marked,
           new.at # "asking",
           new.pushed => taskRun[r].pushed /\ taskRun[r].marked = new.marked,
           ~new.pushed /\ new.at \in {"answered", "sending"} => ~taskRun[r].pushed,
           UNCHANGED <<version, lastHash, told, lostMarks>>
    PROVE  HeartbeatInv'
  <1>1. /\ version \in Versions /\ lastHash \in Versions \cup {NoVersion} /\ lastHash =< version
        /\ lostMarks \in Nat /\ told \in [Destinations -> [Versions -> Nat]]
        /\ \A d \in Destinations, v \in Versions :
              told[d][v] =< 1 + lostMarks /\ (v > lastHash => told[d][v] = 0)
    BY DEF HeartbeatInv, HeartbeatTyped, RunsAlone, ToldSoFar
  <1>2. taskRun[r].bundle =< version /\ new.bundle =< version
    BY <1>1 DEF HeartbeatInv, RunsAlone, Versions, NoVersion
  <1>3. new.pushed /\ ~new.marked => lostMarks >= 1
    BY DEF HeartbeatInv, ToldSoFar
  <1>4. ASSUME new.at \in {"answered", "sending"}
        PROVE  /\ new.bundle = lastHash /\ lastHash \in Versions
               /\ \A d \in Destinations : /\ told[d][lastHash] =< 1
                                          /\ ~new.pushed => told[d][lastHash] = 0
    BY <1>4 DEF HeartbeatInv, ToldSoFar, Stands
  <1>5. ASSUME new.at = "sending", NEW d \in new.left
        PROVE  told[d][lastHash] =< lostMarks
    <2>1. d \in Destinations
      BY <1>5 DEF TaskStates
    <2>2. told[d][lastHash] =< 1 /\ (~new.pushed => told[d][lastHash] = 0)
      BY <1>4, <1>5, <2>1
    <2>3. told[d][lastHash] \in Nat
      BY <1>1, <1>4, <1>5, <2>1
    <2>4. QED
      BY <1>1, <1>3, <1>5, <2>2, <2>3
  <1>6. new.at = "fetched" => new.bundle \in Versions /\ lastHash' =< new.bundle
    BY <1>1
  <1>7. /\ lastHash' \in Versions \cup {NoVersion} /\ lastHash' =< version
        /\ lostMarks' \in Nat /\ lostMarks =< lostMarks'
        /\ told' \in [Destinations -> [Versions -> Nat]]
        /\ \A d \in Destinations, v \in Versions :
              told'[d][v] =< 1 + lostMarks' /\ (v > lastHash' => told'[d][v] = 0)
    BY <1>1
  <1>8. /\ new.at \in {"asking", "answered", "sending"} => new.bundle = lastHash'
                                                           /\ lastHash' \in Versions
        /\ new.at \in {"asking", "answered"} =>
               \A d \in Destinations :
                   /\ told'[d][lastHash'] =< 1
                   /\ ~new.pushed => told'[d][lastHash'] = 0
        /\ new.pushed /\ ~new.marked => lostMarks' >= 1
        /\ new.at = "sending" => \A d \in new.left : told'[d][lastHash'] =< lostMarks'
    BY <1>3, <1>4, <1>5
  <1>9. QED
    BY <1>2, <1>6, <1>7, <1>8, RunGetsOn

LEMMA HeartbeatStays == HeartbeatInv /\ [HeartbeatNext]_heartbeatVars => HeartbeatInv'
  <1> SUFFICES ASSUME HeartbeatInv, [HeartbeatNext]_heartbeatVars
               PROVE  HeartbeatInv'
    OBVIOUS
  <1>0. /\ version \in Versions /\ lastHash \in Versions \cup {NoVersion} /\ lastHash =< version
        /\ lostMarks \in Nat /\ told \in [Destinations -> [Versions -> Nat]]
        /\ Versions \subseteq Nat /\ 0 \notin Versions
        /\ \A d \in Destinations, v \in Versions :
              told[d][v] =< 1 + lostMarks /\ (v > lastHash => told[d][v] = 0)
        /\ \A r \in TaskRuns : taskRun[r] \in TaskStates
    BY DEF HeartbeatInv, HeartbeatTyped, RunsAlone, ToldSoFar, Versions
  <1>00. NotRunning \in TaskStates /\ NotRunning.at = "idle" /\ NotRunning.bundle = NoVersion
        /\ NotRunning.pushed = FALSE /\ NotRunning.marked = FALSE
    BY DEF NotRunning, TaskStates
  <1>01. lastHash \in Nat /\ version \in Nat /\ lostMarks \in Nat
    BY <1>0 DEF NoVersion
  <1>1. CASE SourceChanges
    <2>1. version' \in Versions /\ version' = version + 1
      BY <1>0, <1>1, HeartbeatAssumption DEF HeartbeatAssumption, SourceChanges, Versions
    <2>2. RunsAlone'
      <3>1. \A r \in TaskRuns : taskRun[r].bundle \in Nat
        <4> SUFFICES ASSUME NEW r \in TaskRuns
                     PROVE  taskRun[r].bundle \in Nat
          OBVIOUS
        <4>1. taskRun[r].bundle \in Versions \cup {NoVersion}
          BY <1>0 DEF TaskStates
        <4>2. QED
          BY <4>1 DEF NoVersion, Versions
      <3>2. lastHash =< version + 1 /\ \A r \in TaskRuns : taskRun[r].bundle =< version + 1
        BY <1>01, <3>1 DEF HeartbeatInv, RunsAlone
      <3>3. QED
        BY <1>1, <2>1, <3>2 DEF SourceChanges, HeartbeatInv, RunsAlone
    <2>3. QED
      BY <1>1, <2>1, <2>2 DEF SourceChanges, HeartbeatInv, HeartbeatTyped, ToldSoFar
  <1>2. ASSUME NEW r \in TaskRuns, BeginTask(r)
        PROVE  HeartbeatInv'
    <2>1. PICK dry \in BOOLEAN :
             taskRun' = [taskRun EXCEPT ![r] = [NotRunning EXCEPT !.at = "locked", !.dry = dry]]
      BY <1>2 DEF BeginTask, Set
    <2> DEFINE new == [NotRunning EXCEPT !.at = "locked", !.dry = dry]
    <2>2. new \in TaskStates /\ new.at = "locked" /\ new.bundle = NoVersion /\ ~new.pushed
      BY DEF NotRunning, TaskStates
    <2>3. taskLock = NoTaskRun /\ taskLock' = r /\ UNCHANGED <<version, lastHash, told, lostMarks>>
      BY <1>2 DEF BeginTask
    <2>4. taskRun' = [taskRun EXCEPT ![r] = new]
      BY <2>1
    <2> HIDE DEF new
    <2>5. QED
      BY <2>2, <2>3, <2>4, RunGoesOn
  <1>3. ASSUME NEW r \in TaskRuns, PreFetch(r)
        PROVE  HeartbeatInv'
    <2> DEFINE new == [taskRun[r] EXCEPT !.at = "fetched", !.bundle = version]
    <2>1. new \in TaskStates /\ new.at = "fetched" /\ new.bundle = version
          /\ new.pushed = taskRun[r].pushed /\ new.marked = taskRun[r].marked
      BY <1>0 DEF TaskStates
    <2>2. taskLock = r /\ taskRun' = [taskRun EXCEPT ![r] = new]
          /\ UNCHANGED <<version, lastHash, taskLock, told, lostMarks>>
      BY <1>3 DEF PreFetch, Stands, Set, HeartbeatInv, RunsAlone
    <2> HIDE DEF new
    <2>3. QED
      BY <2>1, <2>2, RunGoesOn
  <1>4. ASSUME NEW r \in TaskRuns, Delta(r)
        PROVE  HeartbeatInv'
    <2>1. /\ ~Stands(r, "idle") /\ LetGo /\ UNCHANGED <<version, told, lostMarks>>
          /\ taskRun[r].at = "fetched"
      BY <1>4 DEF Delta, Stands
    <2>2. CASE taskRun[r].bundle = lastHash
      BY <1>4, <2>1, <2>2, RunEnds DEF Delta, Set
    <2>3. CASE taskRun[r].bundle # lastHash
      <3> DEFINE new == [taskRun[r] EXCEPT !.at = "asking"]
      <3>1. new \in TaskStates /\ new.at = "asking" /\ new.bundle = taskRun[r].bundle
            /\ new.pushed = taskRun[r].pushed /\ new.marked = taskRun[r].marked
        BY <1>0 DEF TaskStates
      <3>2. taskRun' = [taskRun EXCEPT ![r] = new] /\ lastHash' = taskRun[r].bundle
        BY <1>4, <2>3 DEF Delta, Set
      <3>3. taskLock = r /\ taskLock' = r
        <4>1. new.at # "idle"
          BY <3>1
        <4> HIDE DEF new
        <4>2. QED
          BY <2>1, <3>2, <4>1, LockGoesWithRun
      <3>4. lastHash' \in Versions /\ lastHash' =< version /\ lastHash < lastHash'
        <4>1. taskRun[r].bundle \in Versions /\ lastHash =< taskRun[r].bundle
              /\ taskRun[r].bundle =< version
          BY <2>1 DEF HeartbeatInv, RunsAlone
        <4>2. lastHash \in Nat /\ taskRun[r].bundle \in Nat
          BY <1>01, <4>1 DEF Versions
        <4>3. QED
          BY <2>3, <3>2, <4>1, <4>2
      <3>5. new.pushed /\ ~new.marked => lostMarks' >= 1
        BY <2>1, <3>1 DEF HeartbeatInv, ToldSoFar
      <3>6. \A d \in Destinations, v \in Versions :
               told'[d][v] =< 1 + lostMarks' /\ (v > lastHash' => told'[d][v] = 0)
        <4> SUFFICES ASSUME NEW d \in Destinations, NEW v \in Versions
                     PROVE  told[d][v] =< 1 + lostMarks /\ (v > lastHash' => told[d][v] = 0)
          BY <2>1
        <4>1. v \in Nat /\ lastHash \in Nat /\ lastHash' \in Nat
          BY <1>01, <3>4 DEF Versions
        <4>2. v > lastHash' => v > lastHash
          BY <3>4, <4>1
        <4>3. QED
          BY <1>0, <4>2
      <3>7. \A d \in Destinations : told'[d][lastHash'] =< 1
                                    /\ (~new.pushed => told'[d][lastHash'] = 0)
        <4>1. lastHash' > lastHash
          BY <1>01, <3>4 DEF Versions
        <4>2. QED
          BY <1>0, <2>1, <3>4, <4>1
      <3>8. /\ lostMarks' \in Nat /\ lostMarks =< lostMarks'
            /\ told' \in [Destinations -> [Versions -> Nat]] /\ version' = version
        BY <1>0, <2>1
      <3>9. new.bundle =< version /\ new.bundle = lastHash'
        BY <3>1, <3>2, <3>4
      <3> HIDE DEF new
      <3>10. QED
        BY <3>1, <3>2, <3>3, <3>4, <3>5, <3>6, <3>7, <3>8, <3>9, RunGetsOn
    <2>4. QED
      BY <2>2, <2>3
  <1>5. ASSUME NEW r \in TaskRuns, AdapterAnswers(r)
        PROVE  HeartbeatInv'
    <2> DEFINE new == [taskRun[r] EXCEPT !.at = "answered"]
    <2>1. new \in TaskStates /\ new.at = "answered" /\ new.bundle = taskRun[r].bundle
          /\ new.pushed = taskRun[r].pushed /\ new.marked = taskRun[r].marked
      BY <1>0 DEF TaskStates
    <2>2. taskLock = r /\ taskRun' = [taskRun EXCEPT ![r] = new] /\ Stands(r, "asking")
          /\ UNCHANGED <<version, lastHash, taskLock, told, lostMarks>>
      BY <1>5 DEF AdapterAnswers, Stands, Set, HeartbeatInv, RunsAlone
    <2> HIDE DEF new
    <2>3. QED
      BY <2>1, <2>2, RunGoesOn
  <1>6. ASSUME NEW r \in TaskRuns, DeliverAnswer(r)
        PROVE  HeartbeatInv'
    <2>1. ~Stands(r, "idle") /\ LetGo /\ UNCHANGED <<version, lastHash, told, lostMarks>>
          /\ Stands(r, "answered")
      BY <1>6 DEF DeliverAnswer, Stands
    <2>2. CASE Set(r, NotRunning)
      BY <2>1, <2>2, RunEnds DEF Set
    <2>3. CASE ~taskRun[r].marked /\ Set(r, [taskRun[r] EXCEPT !.at = "sending", !.left = Destinations])
      <3> DEFINE new == [taskRun[r] EXCEPT !.at = "sending", !.left = Destinations]
      <3>1. new \in TaskStates /\ new.at = "sending" /\ new.bundle = taskRun[r].bundle
            /\ new.pushed = taskRun[r].pushed /\ new.marked = taskRun[r].marked
        BY <1>0 DEF TaskStates
      <3>2. taskRun' = [taskRun EXCEPT ![r] = new]
        BY <2>3 DEF Set
      <3> HIDE DEF new
      <3>3. taskLock = r /\ taskLock' = r
        BY <2>1, <3>1, <3>2, LockGoesWithRun
      <3>4. QED
        BY <2>1, <2>3, <3>1, <3>2, <3>3, RunGoesOn
    <2>4. QED
      BY <1>6, <2>2, <2>3 DEF DeliverAnswer
  <1>7. ASSUME NEW r \in TaskRuns, TaskFails(r)
        PROVE  HeartbeatInv'
    BY <1>7, RunEnds DEF TaskFails, Set
  <1>8. ASSUME NEW r \in TaskRuns, NEW d \in Destinations, Push(r, d)
        PROVE  HeartbeatInv'
    <2>1. /\ taskRun[r].at = "asking" /\ ~taskRun[r].pushed
          /\ taskRun[r].bundle = lastHash /\ lastHash \in Versions /\ taskLock = r
          /\ \A e \in Destinations : told[e][lastHash] = 0
      BY <1>8 DEF Push, Stands, HeartbeatInv, RunsAlone, ToldSoFar
    <2>2. UNCHANGED <<version, lastHash, taskLock>>
          /\ told' = [told EXCEPT ![d][lastHash] = @ + 1]
      BY <1>8, <2>1 DEF Push
    <2>3. /\ told' \in [Destinations -> [Versions -> Nat]]
          /\ \A e \in Destinations, v \in Versions :
                told'[e][v] = IF e = d /\ v = lastHash THEN told[e][v] + 1 ELSE told[e][v]
      BY <1>0, <2>1, <2>2
    <2>4. ASSUME NEW new \in TaskStates, new.at = "asking", new.bundle = lastHash, new.pushed,
                 taskRun' = [taskRun EXCEPT ![r] = new],
                 lostMarks' \in Nat, lostMarks =< lostMarks', ~new.marked => lostMarks' >= 1
          PROVE  HeartbeatInv'
      <3>1. \A e \in Destinations, v \in Versions :
               told'[e][v] =< 1 + lostMarks' /\ (v > lastHash' => told'[e][v] = 0)
        <4> SUFFICES ASSUME NEW e \in Destinations, NEW v \in Versions
                     PROVE  told'[e][v] =< 1 + lostMarks' /\ (v > lastHash => told'[e][v] = 0)
          BY <2>2
        <4>1. told[e][v] =< 1 + lostMarks /\ (v > lastHash => told[e][v] = 0) /\ told[e][v] \in Nat
          BY <1>0
        <4>2. v = lastHash => told'[e][v] =< 1
          BY <2>1, <2>3
        <4>3. v # lastHash => told'[e][v] = told[e][v]
          BY <2>3
        <4>4. v \in Nat /\ told'[e][v] \in Nat
          BY <1>0, <2>3
        <4>5. QED
          BY <1>01, <2>4, <4>1, <4>2, <4>3, <4>4
      <3>2. \A e \in Destinations : told'[e][lastHash'] =< 1
        BY <2>1, <2>2, <2>3
      <3>3. version' = version /\ lastHash' = lastHash /\ taskLock' = r
            /\ lastHash' \in Versions /\ lastHash' =< version
        BY <1>0, <2>1, <2>2
      <3>4. QED
        BY <2>1, <2>3, <2>4, <3>1, <3>2, <3>3, RunGetsOn, ZenonT(30)
    <2>5. CASE Set(r, [taskRun[r] EXCEPT !.pushed = TRUE, !.marked = TRUE]) /\ UNCHANGED lostMarks
      <3> DEFINE new == [taskRun[r] EXCEPT !.pushed = TRUE, !.marked = TRUE]
      <3>1. new \in TaskStates /\ new.at = "asking" /\ new.bundle = lastHash /\ new.pushed
            /\ new.marked
        BY <1>0, <2>1 DEF TaskStates
      <3>2. taskRun' = [taskRun EXCEPT ![r] = new] /\ lostMarks' \in Nat /\ lostMarks =< lostMarks'
        BY <1>01, <2>5 DEF Set
      <3> HIDE DEF new
      <3>3. QED
        BY <2>4, <3>1, <3>2
    <2>6. CASE lostMarks' = lostMarks + 1 /\ Set(r, [taskRun[r] EXCEPT !.pushed = TRUE])
      <3> DEFINE new == [taskRun[r] EXCEPT !.pushed = TRUE]
      <3>1. new \in TaskStates /\ new.at = "asking" /\ new.bundle = lastHash /\ new.pushed
        BY <1>0, <2>1 DEF TaskStates
      <3>2. taskRun' = [taskRun EXCEPT ![r] = new] /\ lostMarks' \in Nat /\ lostMarks =< lostMarks'
            /\ lostMarks' >= 1
        BY <1>01, <2>6 DEF Set
      <3> HIDE DEF new
      <3>3. QED
        BY <2>4, <3>1, <3>2
    <2>7. QED
      BY <1>8, <2>5, <2>6 DEF Push
  <1>9. ASSUME NEW r \in TaskRuns, NEW d \in Destinations, SendTo(r, d)
        PROVE  HeartbeatInv'
    <2>1. /\ taskRun[r].at = "sending" /\ d \in taskRun[r].left /\ ~Stands(r, "idle")
          /\ taskRun[r].bundle = lastHash /\ lastHash \in Versions
          /\ \A e \in taskRun[r].left : told[e][lastHash] =< lostMarks
      BY <1>9 DEF SendTo, Stands, HeartbeatInv, ToldSoFar
    <2>2. LetGo /\ UNCHANGED <<version, lastHash, lostMarks>>
          /\ told' \in {told, [told EXCEPT ![d][lastHash] = @ + 1]}
      BY <1>9, <2>1 DEF SendTo
    <2>3. /\ told' \in [Destinations -> [Versions -> Nat]]
          /\ \A e \in Destinations, v \in Versions :
                told'[e][v] = told[e][v] \/ (e = d /\ v = lastHash /\ told'[e][v] = told[e][v] + 1)
      <3>1. CASE told' = told
        BY <1>0, <3>1
      <3>2. CASE told' = [told EXCEPT ![d][lastHash] = @ + 1]
        BY <1>0, <2>1, <3>2
      <3>3. QED
        BY <2>2, <3>1, <3>2
    <2>4. \A e \in Destinations, v \in Versions :
             told'[e][v] =< 1 + lostMarks' /\ (v > lastHash' => told'[e][v] = 0)
      <3> SUFFICES ASSUME NEW e \in Destinations, NEW v \in Versions
                   PROVE  told'[e][v] =< 1 + lostMarks /\ (v > lastHash => told'[e][v] = 0)
        BY <2>2
      <3>1. CASE told'[e][v] = told[e][v]
        BY <1>0, <3>1
      <3>2. CASE e = d /\ v = lastHash /\ told'[e][v] = told[e][v] + 1
        <4>1. told[e][v] =< lostMarks /\ told[e][v] \in Nat
          BY <1>0, <2>1, <3>2
        <4>2. QED
          BY <1>01, <3>2, <4>1
      <3>3. QED
        BY <2>3, <3>1, <3>2
    <2>5. /\ version' = version /\ lastHash' = lastHash /\ lastHash' \in Versions \cup {NoVersion}
          /\ lastHash' =< version /\ lostMarks' \in Nat /\ lostMarks =< lostMarks'
      BY <1>0, <1>01, <2>2
    <2>6. CASE taskRun[r].left = {d}
      <3>1. taskRun' = [taskRun EXCEPT ![r] = NotRunning]
        BY <1>9, <2>6 DEF SendTo, Set
      <3>2. taskLock = r /\ taskLock' \in {r, NoTaskRun}
        BY <2>1, <2>2, <3>1, LockGoesWithRun
      <3>3. NotRunning.bundle =< version
        BY <1>00, <1>01 DEF NoVersion
      <3>4. QED
        BY <1>00, <2>3, <2>4, <2>5, <3>1, <3>2, <3>3, RunGetsOn
    <2>7. CASE taskRun[r].left # {d}
      <3> DEFINE new == [taskRun[r] EXCEPT !.left = @ \ {d}]
      <3>1. /\ new \in TaskStates /\ new.at = "sending" /\ new.bundle = lastHash
            /\ new.left = taskRun[r].left \ {d}
            /\ new.pushed = taskRun[r].pushed /\ new.marked = taskRun[r].marked
        BY <1>0, <2>1 DEF TaskStates
      <3>2. taskRun' = [taskRun EXCEPT ![r] = new]
        BY <1>9, <2>7 DEF SendTo, Set
      <3> HIDE DEF new
      <3>3. taskLock = r /\ taskLock' = r
        BY <2>1, <2>2, <3>1, <3>2, LockGoesWithRun
      <3>4. \A e \in new.left : told'[e][lastHash'] =< lostMarks'
        <4> SUFFICES ASSUME NEW e \in new.left
                     PROVE  told'[e][lastHash] =< lostMarks
          BY <2>2
        <4>1. e \in Destinations /\ e # d /\ e \in taskRun[r].left
          BY <3>1 DEF TaskStates
        <4>2. QED
          BY <2>1, <2>3, <4>1
      <3>5. new.pushed /\ ~new.marked => lostMarks' >= 1
        BY <2>2, <3>1 DEF HeartbeatInv, ToldSoFar
      <3>6. new.bundle =< version /\ new.bundle = lastHash' /\ lastHash' \in Versions
        BY <1>0, <2>1, <2>5, <3>1
      <3>7. QED
        BY <2>3, <2>4, <2>5, <3>1, <3>2, <3>3, <3>4, <3>5, <3>6, RunGetsOn
    <2>8. QED
      BY <2>6, <2>7
  <1>10. CASE UNCHANGED heartbeatVars
    BY <1>10 DEF heartbeatVars, HeartbeatInv, HeartbeatTyped, RunsAlone, ToldSoFar
  <1>11. QED
    BY <1>1, <1>2, <1>3, <1>4, <1>5, <1>6, <1>7, <1>8, <1>9, <1>10 DEF HeartbeatNext

\* However the runs of a task fail, are killed, and meet, a destination hears of a
\* change once, and once more for each push whose marker could not be written.
THEOREM ChangesAreToldOnce == HeartbeatSpec => []ChangeToldOnce
  <1>1. HeartbeatInv => ChangeToldOnce
    BY DEF HeartbeatInv, ToldSoFar, ChangeToldOnce
  <1>2. QED
    BY <1>1, HeartbeatInitially, HeartbeatStays, PTL DEF HeartbeatSpec

-----------------------------------------------------------------------------
(* Stop and Background: what a card says, and how many run on behind it. *)

RunStates == [at : {"none", "spawned", "running", "snapped", "leaving", "gone"}, of : Asks]
EntryStates == [role : {"primary", "backgrounded"}, stopped : BOOLEAN]
TapStates == [at : {"idle", "resolved", "demoting", "signalling", "grace", "telling"},
              verb : {"stop", "background"}, of : Runs \cup {NoRun}]

ButtonsTyped ==
    /\ run \in [Runs -> RunStates]
    /\ child \in [Runs -> {"none", "alive", "ended", "failed", "killed"}]
    /\ actionEntry \in [Runs -> EntryStates]
    /\ tap \in TapStates
    /\ face \in [Runs -> Faces]

StartedInOrder == \E k \in 0..MaxRuns : Started = 1..k

\* A session that has not begun has left no trace; one that the registry does not
\* know has a fresh entry; and a thread looks at the entry when its process is over.
RunsInOrder ==
    \A s \in Runs :
        /\ run[s].at = "none" => child[s] = "none" /\ face[s] # "stopped"
        /\ s \notin Registered => actionEntry[s] = Fresh
        /\ run[s].at \in {"snapped", "leaving"} => child[s] # "alive"

\* The poller handles one tap at a time; the process of a session that it has
\* marked as stopped is dead, or the poller is still at it.
TapSound ==
    /\ tap.at # "idle" =>
          /\ tap.of \in Registered \/ (tap.of \in Started /\ child[tap.of] # "alive")
          /\ tap.at \in {"signalling", "grace"} => tap.verb = "stop"
          /\ tap.at = "demoting" => tap.verb = "background"
          /\ tap.at = "telling" /\ tap.verb = "stop" => child[tap.of] # "alive"
    /\ \A s \in Runs :
          actionEntry[s].stopped /\ child[s] = "alive"
              => tap.of = s /\ tap.at \in {"signalling", "grace"}
    /\ \A s \in Runs : face[s] = "stopped" => child[s] # "alive"

\* Between the look at the cap and the demotion there is room for one more.
RoomForOne ==
    /\ Cardinality(Backgrounded) =< MaxBackground
    /\ tap.at = "demoting" => Cardinality(Backgrounded) < MaxBackground

PollerInv == ButtonsTyped /\ StartedInOrder /\ RunsInOrder /\ TapSound /\ RoomForOne

LEMMA PollerInitially == BrainInit => PollerInv
  <1> SUFFICES ASSUME BrainInit
               PROVE  PollerInv
    OBVIOUS
  <1>1. PICK e \in Asks : run = [s \in Runs |-> [at |-> "none", of |-> e]]
    BY BrainAssumption DEF BrainAssumption, BrainInit
  <1>2. ButtonsTyped
    BY <1>1 DEF BrainInit, ButtonsTyped, RunStates, EntryStates, TapStates, Fresh, NoTap, Faces
  <1>3. Started = {} /\ Registered = {} /\ Backgrounded = {}
    BY <1>1 DEF Started, Registered, Backgrounded
  <1>4. StartedInOrder
    <2>1. 0 \in 0..MaxRuns /\ 1..0 = {}
      BY BrainAssumption DEF BrainAssumption
    <2>2. QED
      BY <1>3, <2>1 DEF StartedInOrder
  <1>5. RunsInOrder
    BY <1>1 DEF BrainInit, RunsInOrder
  <1>6. TapSound
    BY DEF BrainInit, TapSound, NoTap
  <1>7. RoomForOne
    BY <1>3, FS_EmptySet, BrainAssumption DEF BrainAssumption, BrainInit, RoomForOne, NoTap
  <1>8. QED
    BY <1>2, <1>4, <1>5, <1>6, <1>7 DEF PollerInv

LEMMA BackgroundedFinite ==
    ASSUME PollerInv
    PROVE  IsFiniteSet(Backgrounded) /\ Cardinality(Backgrounded) \in Nat
  <1>1. IsFiniteSet(Runs)
    BY FS_Interval, BrainAssumption DEF BrainAssumption, Runs
  <1>2. Backgrounded \in SUBSET Runs
    BY DEF Backgrounded, Registered
  <1>3. QED
    BY <1>1, <1>2, FS_Subset, FS_CardinalityType

\* A step that begins no session and sends none to the background.
LEMMA ButtonsFollow ==
    ASSUME PollerInv, ButtonsTyped', RunsInOrder', TapSound',
           \A s \in Runs : run'[s].at = "none" <=> run[s].at = "none",
           Backgrounded' \subseteq Backgrounded,
           tap'.at = "demoting" => tap.at = "demoting" \/ Cardinality(Backgrounded) < MaxBackground
    PROVE  PollerInv'
  <1>1. Started' = Started
    BY DEF Started
  <1>2. StartedInOrder'
    BY <1>1 DEF PollerInv, StartedInOrder
  <1>3. Cardinality(Backgrounded') \in Nat /\ Cardinality(Backgrounded') =< Cardinality(Backgrounded)
    BY BackgroundedFinite, FS_Subset, FS_CardinalityType
  <1>4. RoomForOne'
    BY <1>3, BackgroundedFinite, BrainAssumption DEF BrainAssumption, PollerInv, RoomForOne
  <1>5. QED
    BY <1>2, <1>4 DEF PollerInv

\* A step of a session's thread or process, which looks at no tap.
LEMMA RunSteps ==
    ASSUME PollerInv, NEW s \in Runs,
           \/ RegisterRun(s) \/ ChildEnds(s) \/ SigtermTakes(s) \/ TimesOut(s) \/ OrphanEnds(s)
           \/ Snapshot(s) \/ Unregister(s) \/ Settle(s)
    PROVE  PollerInv'
  <1>0. /\ run \in [Runs -> RunStates] /\ run[s] \in RunStates
        /\ child \in [Runs -> {"none", "alive", "ended", "failed", "killed"}]
        /\ actionEntry \in [Runs -> EntryStates] /\ tap \in TapStates /\ face \in [Runs -> Faces]
        /\ RunsInOrder /\ TapSound
    BY DEF PollerInv, ButtonsTyped
  <1>1. ASSUME NEW at \in {"running", "snapped", "leaving", "gone"},
               run' = [run EXCEPT ![s] = [@ EXCEPT !.at = at]]
        PROVE  /\ run' \in [Runs -> RunStates]
               /\ run'[s].at = at
               /\ \A t \in Runs : t # s => run'[t] = run[t]
    BY <1>0, <1>1 DEF RunStates
  <1>2. CASE RegisterRun(s)
    <2>1. /\ run[s].at = "spawned" /\ run' = [run EXCEPT ![s] = [@ EXCEPT !.at = "running"]]
          /\ UNCHANGED <<child, actionEntry, tap, face>>
      BY <1>2 DEF RegisterRun
    <2>2. run' \in [Runs -> RunStates] /\ run'[s].at = "running" /\ \A t \in Runs : t # s => run'[t] = run[t]
      BY <1>1, <2>1
    <2>3. actionEntry[s] = Fresh /\ Registered' = Registered \cup {s}
      BY <1>0, <2>1, <2>2 DEF RunsInOrder, Registered
    <2>4. ButtonsTyped'
      BY <1>0, <2>1, <2>2 DEF ButtonsTyped
    <2>5. Backgrounded' \subseteq Backgrounded
      BY <2>1, <2>3 DEF Backgrounded, Fresh
    <2>6. RunsInOrder'
      BY <1>0, <2>1, <2>2, <2>3 DEF RunsInOrder
    <2>7. TapSound'
      BY <1>0, <2>1, <2>2, <2>3 DEF TapSound, Started
    <2>8. QED
      BY <2>1, <2>2, <2>4, <2>5, <2>6, <2>7, ButtonsFollow
  <1>3. CASE ChildEnds(s) \/ SigtermTakes(s) \/ TimesOut(s)
    <2>1. PICK how \in {"ended", "failed", "killed"} : child' = [child EXCEPT ![s] = how]
      BY <1>3 DEF ChildEnds, SigtermTakes, TimesOut, LeaderFalls
    <2>2. UNCHANGED <<run, actionEntry, tap, face>> /\ child[s] = "alive"
      BY <1>3 DEF ChildEnds, SigtermTakes, TimesOut, LeaderFalls
    <2>3. \A t \in Runs : child'[t] = IF t = s THEN how ELSE child[t]
      BY <1>0, <2>1
    <2>4. ButtonsTyped'
      BY <1>0, <2>1, <2>2 DEF ButtonsTyped
    <2>5. Backgrounded' = Backgrounded /\ Registered' = Registered /\ Started' = Started
      BY <2>2 DEF Backgrounded, Registered, Started
    <2>6. RunsInOrder'
      BY <1>0, <2>2, <2>3, <2>5 DEF RunsInOrder
    <2>7. TapSound'
      <3>1. Started \subseteq Runs
        BY DEF Started
      <3>2. QED
        BY <1>0, <2>1, <2>2, <2>3, <2>5, <3>1 DEF TapSound
    <2>8. QED
      BY <2>2, <2>4, <2>5, <2>6, <2>7, ButtonsFollow
  <1>4. CASE Snapshot(s)
    <2>1. /\ run[s].at = "running" /\ run' = [run EXCEPT ![s] = [@ EXCEPT !.at = "snapped"]]
          /\ UNCHANGED <<child, actionEntry, tap, face>> /\ child[s] # "alive"
      BY <1>4 DEF Snapshot
    <2>2. run' \in [Runs -> RunStates] /\ run'[s].at = "snapped" /\ \A t \in Runs : t # s => run'[t] = run[t]
      BY <1>1, <2>1
    <2>3. Registered' = Registered /\ Started' = Started
      BY <2>1, <2>2 DEF Registered, Started
    <2>4. ButtonsTyped'
      BY <1>0, <2>1, <2>2 DEF ButtonsTyped
    <2>5. Backgrounded' \subseteq Backgrounded
      BY <2>1, <2>3 DEF Backgrounded
    <2>6. RunsInOrder'
      BY <1>0, <2>1, <2>2, <2>3 DEF RunsInOrder
    <2>7. TapSound'
      BY <1>0, <2>1, <2>3 DEF TapSound
    <2>8. QED
      BY <2>1, <2>2, <2>4, <2>5, <2>6, <2>7, ButtonsFollow
  <1>5. CASE Unregister(s)
    <2>1. /\ run[s].at = "snapped" /\ run' = [run EXCEPT ![s] = [@ EXCEPT !.at = "leaving"]]
          /\ UNCHANGED <<child, tap, face>> /\ actionEntry' = [actionEntry EXCEPT ![s] = Fresh]
      BY <1>5 DEF Unregister
    <2>2. run' \in [Runs -> RunStates] /\ run'[s].at = "leaving" /\ \A t \in Runs : t # s => run'[t] = run[t]
      BY <1>1, <2>1
    <2>3. Registered' = Registered \ {s} /\ Started' = Started /\ s \in Started /\ child[s] # "alive"
      BY <1>0, <2>1, <2>2 DEF Registered, Started, RunsInOrder
    <2>4. Fresh \in EntryStates /\ \A t \in Runs : actionEntry'[t] = IF t = s THEN Fresh ELSE actionEntry[t]
      BY <1>0, <2>1 DEF Fresh, EntryStates
    <2>5. ButtonsTyped'
      BY <1>0, <2>1, <2>2, <2>4 DEF ButtonsTyped
    <2>6. Backgrounded' \subseteq Backgrounded
      BY <2>3, <2>4 DEF Backgrounded, Registered
    <2>7. RunsInOrder'
      BY <1>0, <2>1, <2>2, <2>3, <2>4 DEF RunsInOrder
    <2>8. TapSound'
      BY <1>0, <2>1, <2>3, <2>4 DEF TapSound, Fresh
    <2>9. QED
      BY <2>1, <2>2, <2>5, <2>6, <2>7, <2>8, ButtonsFollow
  <1>6. CASE Settle(s)
    <2>1. /\ run[s].at = "leaving" /\ run' = [run EXCEPT ![s] = [@ EXCEPT !.at = "gone"]]
          /\ UNCHANGED <<child, tap, actionEntry>>
          /\ face' = face \/ face' = [face EXCEPT ![s] = "done"]
      BY <1>6 DEF Settle, CardIsDone, Edits
    <2>2. run' \in [Runs -> RunStates] /\ run'[s].at = "gone" /\ \A t \in Runs : t # s => run'[t] = run[t]
      BY <1>1, <2>1
    <2>3. Registered' = Registered /\ Started' = Started
      BY <2>1, <2>2 DEF Registered, Started
    <2>4. face' \in [Runs -> Faces] /\ \A t \in Runs : face'[t] = "stopped" => face[t] = "stopped"
      BY <1>0, <2>1 DEF Faces
    <2>5. ButtonsTyped'
      BY <1>0, <2>1, <2>2, <2>4 DEF ButtonsTyped
    <2>6. Backgrounded' \subseteq Backgrounded
      BY <2>1, <2>3 DEF Backgrounded
    <2>7. RunsInOrder'
      BY <1>0, <2>1, <2>2, <2>3, <2>4 DEF RunsInOrder
    <2>8. TapSound'
      BY <1>0, <2>1, <2>3, <2>4 DEF TapSound
    <2>9. QED
      BY <2>1, <2>2, <2>5, <2>6, <2>7, <2>8, ButtonsFollow
  <1>7. CASE OrphanEnds(s)
    BY <1>0, <1>7, ButtonsFollow
       DEF OrphanEnds, ButtonsTyped, RunsInOrder, TapSound, Backgrounded, Registered, Started
  <1>8. QED
    BY <1>2, <1>3, <1>4, <1>5, <1>6, <1>7

\* A step of the poller at its tap, which leaves the threads alone.
LEMMA TapSteps ==
    ASSUME PollerInv, NEW s \in Runs,
           \/ TapButton(s, "stop") \/ TapButton(s, "background") \/ TwoSecondsPass(s)
           \/ Stop(s) \/ Background(s) \/ Terminate(s) \/ GraceEnds(s) \/ Tell(s)
    PROVE  PollerInv'
  <1>0. /\ run \in [Runs -> RunStates] /\ tap \in TapStates /\ face \in [Runs -> Faces]
        /\ child \in [Runs -> {"none", "alive", "ended", "failed", "killed"}]
        /\ actionEntry \in [Runs -> EntryStates]
        /\ RunsInOrder /\ TapSound
        /\ Started \subseteq Runs /\ Registered \subseteq Started
    BY DEF PollerInv, ButtonsTyped, Started, Registered
  <1>1. run' = run /\ Started' = Started /\ Registered' = Registered
    <2>1. run' = run
      BY DEF TapButton, TwoSecondsPass, Stop, Background, Terminate, GraceEnds, Tell
    <2>2. QED
      BY <2>1 DEF Started, Registered
  <1>2. ASSUME NEW at \in {"demoting", "signalling", "grace", "telling"},
               tap' = [tap EXCEPT !.at = at]
        PROVE  tap' \in TapStates /\ tap'.at = at /\ tap'.of = tap.of /\ tap'.verb = tap.verb
    BY <1>0, <1>2 DEF TapStates
  <1>3. NoTap \in TapStates /\ NoTap.at = "idle"
    BY DEF NoTap, TapStates
  <1>4. CASE TapButton(s, "stop") \/ TapButton(s, "background")
    <2>1. PICK verb \in {"stop", "background"} :
             tap' = [at |-> "resolved", verb |-> verb, of |-> s]
      BY <1>4 DEF TapButton
    <2>2. tap' \in TapStates /\ tap'.at = "resolved" /\ tap'.of = s
      BY <2>1 DEF TapStates
    <2>3. tap.at = "idle" /\ s \in Registered /\ UNCHANGED <<child, actionEntry, face>>
      BY <1>4 DEF TapButton
    <2>4. ButtonsTyped' /\ RunsInOrder' /\ Backgrounded' \subseteq Backgrounded
      BY <1>0, <1>1, <2>2, <2>3 DEF ButtonsTyped, RunsInOrder, Backgrounded
    <2>5. TapSound'
      BY <1>0, <1>1, <2>2, <2>3 DEF TapSound
    <2>6. QED
      BY <1>1, <2>2, <2>4, <2>5, ButtonsFollow
  <1>5. CASE TwoSecondsPass(s)
    BY <1>0, <1>1, <1>5, ButtonsFollow
       DEF TwoSecondsPass, ButtonsTyped, RunsInOrder, TapSound, Backgrounded
  <1>6. CASE Stop(s)
    <2>0. tap.at = "resolved" /\ tap.of = s /\ tap.verb = "stop" /\ UNCHANGED <<child, face>>
      BY <1>6 DEF Stop, Handling
    <2>1. CASE s \in Registered /\ ~actionEntry[s].stopped
      <3>1. actionEntry' = [actionEntry EXCEPT ![s] = [@ EXCEPT !.stopped = TRUE]]
            /\ tap' = [tap EXCEPT !.at = "signalling"]
        BY <1>6, <2>1 DEF Stop
      <3>2. tap' \in TapStates /\ tap'.at = "signalling" /\ tap'.of = s /\ tap'.verb = "stop"
        BY <1>2, <2>0, <3>1
      <3>3. /\ actionEntry' \in [Runs -> EntryStates]
            /\ \A t \in Runs : actionEntry'[t].role = actionEntry[t].role
            /\ \A t \in Runs : t # s => actionEntry'[t] = actionEntry[t]
        BY <1>0, <3>1 DEF EntryStates
      <3>4. ButtonsTyped'
        BY <1>0, <1>1, <2>0, <3>2, <3>3 DEF ButtonsTyped
      <3>5. RunsInOrder'
        BY <1>0, <1>1, <2>0, <2>1, <3>3 DEF RunsInOrder
      <3>6. Backgrounded' \subseteq Backgrounded
        BY <1>0, <1>1, <3>3 DEF Backgrounded
      <3>7. TapSound'
        BY <1>0, <1>1, <2>0, <2>1, <3>2, <3>3 DEF TapSound
      <3>8. QED
        BY <1>1, <3>2, <3>4, <3>5, <3>6, <3>7, ButtonsFollow
    <2>2. CASE ~(s \in Registered /\ ~actionEntry[s].stopped)
      <3>1. actionEntry' = actionEntry /\ tap' = [tap EXCEPT !.at = "telling"]
        BY <1>6, <2>2 DEF Stop
      <3>2. tap' \in TapStates /\ tap'.at = "telling" /\ tap'.of = s /\ tap'.verb = "stop"
        BY <1>2, <2>0, <3>1
      <3>3. child[s] # "alive"
        BY <1>0, <2>0, <2>2 DEF TapSound
      <3>4. ButtonsTyped' /\ RunsInOrder' /\ Backgrounded' \subseteq Backgrounded
        BY <1>0, <1>1, <2>0, <3>1, <3>2 DEF ButtonsTyped, RunsInOrder, Backgrounded
      <3>5. TapSound'
        BY <1>0, <1>1, <2>0, <3>1, <3>2, <3>3 DEF TapSound
      <3>6. QED
        BY <1>1, <3>2, <3>4, <3>5, ButtonsFollow
    <2>3. QED
      BY <2>1, <2>2
  <1>7. CASE Background(s)
    <2>0. /\ tap.at = "resolved" /\ tap.of = s /\ tap.verb = "background"
          /\ UNCHANGED <<child, face, actionEntry>>
      BY <1>7 DEF Background, Handling
    <2>1. ASSUME tap' \in TapStates,
                 tap'.at = "idle" \/ /\ tap'.at = "demoting" /\ tap'.of = s /\ tap'.verb = "background"
                                     /\ s \in Registered
                                     /\ Cardinality(Backgrounded) < MaxBackground
          PROVE  PollerInv'
      <3>1. ButtonsTyped' /\ RunsInOrder' /\ Backgrounded' \subseteq Backgrounded
        BY <1>0, <1>1, <2>0, <2>1 DEF ButtonsTyped, RunsInOrder, Backgrounded
      <3>2. TapSound'
        BY <1>0, <1>1, <2>0, <2>1 DEF TapSound
      <3>3. QED
        BY <1>1, <2>1, <3>1, <3>2, ButtonsFollow
    <2>2. CASE s \in Registered \ Backgrounded /\ Cardinality(Backgrounded) < MaxBackground
      <3>1. tap' = [tap EXCEPT !.at = "demoting"]
        BY <1>7, <2>2 DEF Background
      <3>2. QED
        BY <1>2, <2>0, <2>1, <2>2, <3>1
    <2>3. CASE ~(s \in Registered \ Backgrounded /\ Cardinality(Backgrounded) < MaxBackground)
      <3>1. tap' = NoTap
        BY <1>7, <2>3 DEF Background
      <3>2. QED
        BY <1>3, <2>1, <3>1
    <2>4. QED
      BY <2>2, <2>3
  <1>8. CASE Terminate(s)
    <2>0. tap.at = "signalling" /\ tap.of = s /\ UNCHANGED <<child, face, actionEntry>>
      BY <1>8 DEF Terminate, Handling
    <2>1. /\ tap' \in TapStates /\ tap'.of = s /\ tap'.verb = tap.verb
          /\ tap'.at \in {"grace", "telling"} /\ (tap'.at = "telling" => child[s] # "alive")
      <3>1. CASE child[s] = "alive"
        <4>1. tap' = [tap EXCEPT !.at = "grace"]
          BY <1>8, <3>1 DEF Terminate
        <4>2. QED
          BY <1>2, <2>0, <4>1
      <3>2. CASE child[s] # "alive"
        <4>1. PICK at \in {"grace", "telling"} : tap' = [tap EXCEPT !.at = at]
          BY <1>8 DEF Terminate
        <4>2. QED
          BY <1>2, <2>0, <3>2, <4>1
      <3>3. QED
        BY <3>1, <3>2
    <2>2. ButtonsTyped' /\ RunsInOrder' /\ Backgrounded' \subseteq Backgrounded
      BY <1>0, <1>1, <2>0, <2>1 DEF ButtonsTyped, RunsInOrder, Backgrounded
    <2>3. TapSound'
      BY <1>0, <1>1, <2>0, <2>1 DEF TapSound
    <2>4. QED
      BY <1>1, <2>1, <2>2, <2>3, ButtonsFollow
  <1>9. CASE GraceEnds(s)
    <2>0. tap.at = "grace" /\ tap.of = s /\ UNCHANGED <<face, actionEntry>>
          /\ tap' = [tap EXCEPT !.at = "telling"]
      BY <1>9 DEF GraceEnds, Handling
    <2>1. tap' \in TapStates /\ tap'.at = "telling" /\ tap'.of = s /\ tap'.verb = tap.verb
      BY <1>2, <2>0
    <2>2. /\ child' \in [Runs -> {"none", "alive", "ended", "failed", "killed"}]
          /\ child'[s] # "alive"
          /\ \A t \in Runs : /\ child'[t] = "alive" => child[t] = "alive"
                             /\ child[t] = "none" => child'[t] = "none"
      BY <1>0, <1>9 DEF GraceEnds
    <2>3. ButtonsTyped' /\ RunsInOrder' /\ Backgrounded' \subseteq Backgrounded
      BY <1>0, <1>1, <2>0, <2>1, <2>2 DEF ButtonsTyped, RunsInOrder, Backgrounded
    <2>4. TapSound'
      BY <1>0, <1>1, <2>0, <2>1, <2>2 DEF TapSound
    <2>5. QED
      BY <1>1, <2>1, <2>3, <2>4, ButtonsFollow
  <1>10. CASE Tell(s)
    <2>0. tap.at = "telling" /\ tap.of = s /\ tap' = NoTap /\ UNCHANGED <<child, actionEntry>>
      BY <1>10 DEF Tell, Handling
    <2>1. \/ face' = face \/ (tap.verb = "stop" /\ face' = [face EXCEPT ![s] = "stopped"])
          \/ face' = [face EXCEPT ![s] = "running"]
      BY <1>10 DEF Tell, CardIsStopped, CardIsRunning, Edits
    <2>2. /\ face' \in [Runs -> Faces]
          /\ \A t \in Runs : face'[t] = "stopped" => face[t] = "stopped" \/ (t = s /\ tap.verb = "stop")
      BY <1>0, <2>1 DEF Faces
    <2>3. s \in Started /\ (tap.verb = "stop" => child[s] # "alive")
      BY <1>0, <2>0 DEF TapSound
    <2>4. ButtonsTyped' /\ Backgrounded' \subseteq Backgrounded
      BY <1>0, <1>1, <1>3, <2>0, <2>2 DEF ButtonsTyped, Backgrounded
    <2>5. RunsInOrder'
      BY <1>0, <1>1, <2>0, <2>2, <2>3 DEF RunsInOrder, Started
    <2>6. TapSound'
      BY <1>0, <1>1, <1>3, <2>0, <2>2, <2>3 DEF TapSound
    <2>7. QED
      BY <1>1, <1>3, <2>0, <2>4, <2>5, <2>6, ButtonsFollow
  <1>11. QED
    BY <1>4, <1>5, <1>6, <1>7, <1>8, <1>9, <1>10

\* The demotion takes the room that the look at the cap had left.
LEMMA DemoteKeeps ==
    ASSUME PollerInv, NEW s \in Runs, Demote(s)
    PROVE  PollerInv'
  <1>0. /\ run \in [Runs -> RunStates] /\ tap \in TapStates
        /\ actionEntry \in [Runs -> EntryStates]
        /\ RunsInOrder /\ TapSound /\ Started \subseteq Runs /\ Registered \subseteq Started
    BY DEF PollerInv, ButtonsTyped, Started, Registered
  <1>1. /\ tap.at = "demoting" /\ tap.of = s /\ tap' = [tap EXCEPT !.at = "telling"]
        /\ UNCHANGED <<run, child, face>>
    BY DEF Demote, Handling
  <1>2. tap' \in TapStates /\ tap'.at = "telling" /\ tap'.of = s /\ tap'.verb = "background"
    BY <1>0, <1>1 DEF TapStates, TapSound
  <1>3. Started' = Started /\ Registered' = Registered
    BY <1>1 DEF Started, Registered
  <1>4. /\ actionEntry' \in [Runs -> EntryStates]
        /\ \A t \in Runs : /\ actionEntry'[t].stopped = actionEntry[t].stopped
                           /\ t # s \/ t \notin Registered => actionEntry'[t] = actionEntry[t]
    <2>1. CASE s \in Registered
      <3>1. actionEntry' = [actionEntry EXCEPT ![s] = [@ EXCEPT !.role = "backgrounded"]]
        BY <2>1 DEF Demote
      <3>2. QED
        BY <1>0, <2>1, <3>1 DEF EntryStates
    <2>2. CASE s \notin Registered
      BY <1>0, <2>2 DEF Demote
    <2>3. QED
      BY <2>1, <2>2
  <1>5. ButtonsTyped'
    BY <1>1, <1>2, <1>4 DEF PollerInv, ButtonsTyped
  <1>6. StartedInOrder'
    BY <1>3 DEF PollerInv, StartedInOrder
  <1>7. RunsInOrder'
    BY <1>0, <1>1, <1>3, <1>4 DEF RunsInOrder
  <1>8. TapSound'
    BY <1>0, <1>1, <1>2, <1>3, <1>4 DEF TapSound
  <1>9. RoomForOne'
    <2>1. Backgrounded' \in SUBSET (Backgrounded \cup {s})
      BY <1>3, <1>4 DEF Backgrounded, Registered
    <2>2. /\ IsFiniteSet(Backgrounded \cup {s})
          /\ Cardinality(Backgrounded \cup {s}) =< Cardinality(Backgrounded) + 1
          /\ Cardinality(Backgrounded \cup {s}) \in Nat
      BY BackgroundedFinite, FS_AddElement, FS_CardinalityType
    <2>3. Cardinality(Backgrounded') \in Nat
          /\ Cardinality(Backgrounded') =< Cardinality(Backgrounded \cup {s})
      BY <2>1, <2>2, FS_Subset, FS_CardinalityType
    <2>4. Cardinality(Backgrounded) < MaxBackground
      BY <1>1 DEF PollerInv, RoomForOne
    <2>5. QED
      BY <1>2, <2>2, <2>3, <2>4, BackgroundedFinite, BrainAssumption
         DEF BrainAssumption, RoomForOne
  <1>10. QED
    BY <1>5, <1>6, <1>7, <1>8, <1>9 DEF PollerInv

\* A session begins under the next number, which nothing knows yet.
LEMMA SpawnKeeps ==
    ASSUME PollerInv, NEW e \in Asks, Spawn(e)
    PROVE  PollerInv'
  <1>0. /\ run \in [Runs -> RunStates] /\ tap \in TapStates
        /\ child \in [Runs -> {"none", "alive", "ended", "failed", "killed"}]
        /\ actionEntry \in [Runs -> EntryStates]
        /\ RunsInOrder /\ TapSound /\ Registered \subseteq Started
    BY DEF PollerInv, ButtonsTyped, Started, Registered
  <1>1. PICK k \in 0..MaxRuns : Started = 1..k
    BY DEF PollerInv, StartedInOrder
  <1>2. Cardinality(Started) = k /\ k \in Nat
    BY <1>1, FS_Interval, BrainAssumption DEF BrainAssumption
  <1>3. k + 1 \in Runs /\ k + 1 \notin Started /\ k + 1 \in 0..MaxRuns
    BY <1>1, <1>2, BrainAssumption DEF Spawn, BrainAssumption, Runs
  <1> DEFINE s == k + 1
  <1>4. /\ run' = [run EXCEPT ![s] = [at |-> "spawned", of |-> e]]
        /\ child' = [child EXCEPT ![s] = "alive"]
        /\ UNCHANGED <<actionEntry, tap, face>>
    BY <1>2 DEF Spawn
  <1>5. s \in Runs /\ s \notin Started
    BY <1>3
  <1>6. Started' = 1..s
    <2>1. \A t \in Runs : run'[t].at # "none" <=> t = s \/ run[t].at # "none"
      BY <1>0, <1>4, <1>5
    <2>2. Started' = Started \cup {s}
      BY <1>5, <2>1 DEF Started
    <2>3. 1..(k + 1) = (1..k) \cup {k + 1}
      BY <1>2
    <2>4. QED
      BY <1>1, <2>2, <2>3
  <1>7. s \in 0..MaxRuns
    BY <1>3
  <1> HIDE DEF s
  <1>8. /\ run[s].at = "none" /\ s \notin Registered /\ actionEntry[s] = Fresh /\ face[s] # "stopped"
    BY <1>0, <1>5 DEF Started, Registered, RunsInOrder
  <1>9. run' \in [Runs -> RunStates] /\ run'[s].at = "spawned" /\ \A t \in Runs : t # s => run'[t] = run[t]
    BY <1>0, <1>4, <1>5 DEF RunStates
  <1>10. /\ Registered' = Registered /\ Started \subseteq Started'
    BY <1>8, <1>9 DEF Registered, Started
  <1>11. ButtonsTyped'
    BY <1>4, <1>5, <1>9 DEF PollerInv, ButtonsTyped
  <1>12. StartedInOrder'
    BY <1>6, <1>7 DEF StartedInOrder
  <1>13. RunsInOrder'
    BY <1>0, <1>4, <1>5, <1>8, <1>9, <1>10 DEF RunsInOrder
  <1>14. TapSound'
    BY <1>0, <1>4, <1>5, <1>8, <1>10 DEF TapSound, Fresh
  <1>15. RoomForOne'
    BY <1>4, <1>10 DEF PollerInv, RoomForOne, Backgrounded
  <1>16. QED
    BY <1>11, <1>12, <1>13, <1>14, <1>15 DEF PollerInv

LEMMA PollerStays == PollerInv /\ [BrainNext]_brainVars => PollerInv'
  <1> SUFFICES ASSUME PollerInv, [BrainNext]_brainVars
               PROVE  PollerInv'
    OBVIOUS
  <1>1. CASE Fall
    <2>0. /\ run \in [Runs -> RunStates] /\ RunsInOrder /\ TapSound
          /\ child \in [Runs -> {"none", "alive", "ended", "failed", "killed"}]
          /\ face \in [Runs -> Faces]
      BY DEF PollerInv, ButtonsTyped
    <2>1. /\ run' = [s \in Runs |-> IF s \in Started THEN [run[s] EXCEPT !.at = "gone"] ELSE run[s]]
          /\ actionEntry' = [s \in Runs |-> Fresh] /\ tap' = NoTap
          /\ UNCHANGED <<child, face>>
      BY <1>1 DEF Fall
    <2>2. /\ run' \in [Runs -> RunStates]
          /\ \A s \in Runs : run'[s].at = IF s \in Started THEN "gone" ELSE "none"
      BY <2>0, <2>1 DEF Started, RunStates
    <2>3. NoTap \in TapStates /\ NoTap.at = "idle" /\ Fresh \in EntryStates
      BY DEF NoTap, TapStates, Fresh, EntryStates
    <2>4. Registered' = {} /\ Backgrounded' = {}
      BY <2>2 DEF Registered, Backgrounded
    <2>5. \A s \in Runs : run'[s].at = "none" <=> run[s].at = "none"
      BY <2>2 DEF Started
    <2>6. ButtonsTyped'
      BY <2>0, <2>1, <2>2, <2>3 DEF ButtonsTyped
    <2>7. RunsInOrder'
      BY <2>0, <2>1, <2>2, <2>5 DEF RunsInOrder
    <2>8. TapSound'
      BY <2>0, <2>1, <2>3 DEF TapSound, Fresh
    <2>9. QED
      BY <2>1, <2>3, <2>4, <2>5, <2>6, <2>7, <2>8, ButtonsFollow
  <1>2. CASE UNCHANGED brainVars
    BY <1>2 DEF brainVars, PollerInv, ButtonsTyped, StartedInOrder, RunsInOrder, TapSound,
                RoomForOne, Started, Registered, Backgrounded
  <1>3. QED
    BY <1>1, <1>2, RunSteps, TapSteps, DemoteKeeps, SpawnKeeps DEF BrainNext

\* A brain that has outlived its leader has had the signal that ended the leader.
OrphansTold ==
    /\ orphans \subseteq Runs /\ orphans \subseteq signalled
    /\ \A s \in orphans : child[s] \notin {"none", "alive"}

ButtonsInv == PollerInv /\ OrphansTold

LEMMA ButtonsInitially == BrainInit => ButtonsInv
  BY PollerInitially DEF BrainInit, ButtonsInv, OrphansTold

LEMMA OrphansStayTold == ButtonsInv /\ [BrainNext]_brainVars => OrphansTold'
  <1> SUFFICES ASSUME ButtonsInv, [BrainNext]_brainVars
               PROVE  OrphansTold'
    OBVIOUS
  <1>0. /\ child \in [Runs -> {"none", "alive", "ended", "failed", "killed"}]
        /\ run \in [Runs -> RunStates] /\ OrphansTold
        /\ \A s \in Runs : run[s].at = "none" => child[s] = "none"
    BY DEF ButtonsInv, PollerInv, ButtonsTyped, RunsInOrder
  <1>1. CASE UNCHANGED <<child, orphans, signalled>>
    BY <1>0, <1>1 DEF OrphansTold
  <1>2. ASSUME NEW s \in Runs, ChildEnds(s) \/ GraceEnds(s)
        PROVE  OrphansTold'
    <2>1. /\ orphans' = orphans
          /\ \/ UNCHANGED <<child, signalled>>
             \/ /\ child[s] = "alive" /\ signalled' = signalled \ {s}
                /\ \E how \in {"ended", "failed", "killed"} : child' = [child EXCEPT ![s] = how]
      BY <1>2 DEF ChildEnds, GraceEnds
    <2>2. QED
      BY <1>0, <2>1 DEF OrphansTold
  <1>3. ASSUME NEW s \in Runs, SigtermTakes(s) \/ TimesOut(s)
        PROVE  OrphansTold'
    <2>1. PICK how \in {"failed", "killed"} : LeaderFalls(s, how)
      BY <1>3 DEF SigtermTakes, TimesOut
    <2>2. QED
      BY <1>0, <2>1 DEF LeaderFalls, OrphansTold
  <1>4. ASSUME NEW s \in Runs, OrphanEnds(s)
        PROVE  OrphansTold'
    BY <1>0, <1>4 DEF OrphanEnds, OrphansTold
  <1>5. ASSUME NEW s \in Runs, Terminate(s)
        PROVE  OrphansTold'
    BY <1>0, <1>5 DEF Terminate, OrphansTold
  <1>6. ASSUME NEW e \in Asks, Spawn(e)
        PROVE  OrphansTold'
    <2>1. PICK k \in 0..MaxRuns : Started = 1..k
      BY DEF ButtonsInv, PollerInv, StartedInOrder
    <2>2. Cardinality(Started) = k /\ k \in Nat
      BY <2>1, FS_Interval, BrainAssumption DEF BrainAssumption
    <2>3. k + 1 \in Runs /\ k + 1 \notin Started
      BY <1>6, <2>1, <2>2, BrainAssumption DEF Spawn, BrainAssumption, Runs
    <2>4. child' = [child EXCEPT ![k + 1] = "alive"] /\ UNCHANGED <<orphans, signalled>>
      BY <1>6, <2>2 DEF Spawn
    <2>5. k + 1 \notin orphans
      BY <1>0, <2>3 DEF Started, OrphansTold
    <2>6. QED
      BY <1>0, <2>4, <2>5 DEF OrphansTold
  <1>7. ASSUME NEW s \in Runs,
               \/ RegisterRun(s) \/ Snapshot(s) \/ Unregister(s) \/ Settle(s)
               \/ TapButton(s, "stop") \/ TapButton(s, "background") \/ TwoSecondsPass(s)
               \/ Stop(s) \/ Background(s) \/ Demote(s) \/ Tell(s)
        PROVE  OrphansTold'
    BY <1>1, <1>7 DEF RegisterRun, Snapshot, Unregister, Settle, TapButton, TwoSecondsPass,
       Stop, Background, Demote, Tell
  <1>8. CASE Fall
    BY <1>1, <1>8 DEF Fall
  <1>9. QED
    BY <1>1, <1>2, <1>3, <1>4, <1>5, <1>6, <1>7, <1>8 DEF BrainNext, brainVars

LEMMA ButtonsStay == ButtonsInv /\ [BrainNext]_brainVars => ButtonsInv'
  BY PollerStays, OrphansStayTold DEF ButtonsInv

\* A card says "stopped" only when the leader of the session's processes is gone and
\* all that it may have left was told to end, and no more sessions are in the
\* background than may be, however taps, ends, crashes and failed edits meet.
THEOREM ButtonsAreKept == BrainSpec => []ButtonsKept
  <1>1. ButtonsInv => ButtonsKept
    BY DEF ButtonsInv, PollerInv, OrphansTold, TapSound, RoomForOne, ButtonsKept
  <1>2. QED
    BY <1>1, ButtonsInitially, ButtonsStay, PTL DEF BrainSpec

-----------------------------------------------------------------------------
(* Who may speak to the assistant: two files, each rewritten whole. *)

WriterStates ==
    [at : {"idle", "yaml", "between", "env"}, what : Decisions, chat : Groups,
     allowed : SUBSET Groups, blocked : SUBSET Groups, mirrors : BOOLEAN]

ListsTyped ==
    /\ chatIds \subseteq Groups /\ blockedIds \subseteq Groups /\ envIds \subseteq Groups
    /\ writer \in [Writers -> WriterStates]
    /\ deaths \in Nat /\ overlap \in Nat
    /\ lastWord \in [Groups -> Decisions \cup {"none"}]

\* Without a race, what a writer has read is what the file holds.
ReadsCurrent ==
    ~raced =>
        \A w \in Writers :
            /\ writer[w].at = "yaml" => writer[w].allowed = chatIds
                                        /\ writer[w].blocked = blockedIds
            /\ writer[w].at = "env" => writer[w].allowed = envIds

\* A denied chat is on the yaml's list of the blocked, whatever .env says.
DeniedAreBlocked == ~raced => \A c \in Groups : lastWord[c] = "deny" => c \in blockedIds

\* When no decision has met another and nobody has died, there is one writer; its
\* word is the last once it has written the yaml; an allowed chat is on a list and
\* not blocked; and what is blocked is on the other list of the yaml no more, and if
\* it is still in .env, about to leave it.
OneWriter ==
    ~raced /\ deaths = 0 /\ overlap = 0 =>
        /\ \A v, w \in Writers : Writing(v) /\ Writing(w) => v = w
        /\ chatIds \cap blockedIds = {}
        /\ \A w \in Writers : writer[w].at \in {"between", "env"}
                                 => lastWord[writer[w].chat] = writer[w].what
        /\ \A c \in Groups :
              /\ lastWord[c] = "allow" => Authorized(c)
              /\ c \in blockedIds /\ c \in chatIds \cup envIds =>
                    \E w \in Writers : /\ writer[w].at \in {"between", "env"}
                                       /\ writer[w].what = "deny" /\ writer[w].chat = c

AuthInv == ListsTyped /\ ReadsCurrent /\ DeniedAreBlocked /\ OneWriter

LEMMA AuthInitially == AuthInit => AuthInv
  <1> SUFFICES ASSUME AuthInit
               PROVE  AuthInv
    OBVIOUS
  <1>1. NotWriting \in WriterStates /\ NotWriting.at = "idle"
    BY AuthAssumption DEF AuthAssumption, NotWriting, WriterStates, Decisions
  <1>2. \A w \in Writers : writer[w] = NotWriting
    BY DEF AuthInit
  <1>3. ListsTyped
    BY <1>1, AuthAssumption DEF AuthAssumption, AuthInit, ListsTyped, Decisions
  <1>4. ReadsCurrent
    BY <1>1, <1>2 DEF ReadsCurrent
  <1>5. DeniedAreBlocked
    BY DEF AuthInit, DeniedAreBlocked
  <1>6. OneWriter
    BY <1>1, <1>2 DEF AuthInit, OneWriter, Writing, Authorized
  <1>7. QED
    BY <1>3, <1>4, <1>5, <1>6 DEF AuthInv

\* A decision begins: it has read both lists, and if another is under way it counts
\* as one that overlaps.
LEMMA BeginKeeps ==
    ASSUME AuthInv, NEW w \in Writers, NEW what \in Decisions, NEW c \in Groups,
           NEW mirrors \in BOOLEAN, BeginDecision(w, what, c, mirrors),
           UNCHANGED <<chatIds, blockedIds, envIds, deaths, raced, lastWord>>
    PROVE  AuthInv'
  <1> DEFINE new == [at |-> "yaml", what |-> what, chat |-> c, allowed |-> chatIds,
                     blocked |-> blockedIds, mirrors |-> mirrors]
  <1>1. new \in WriterStates /\ new.at = "yaml" /\ new.allowed = chatIds /\ new.blocked = blockedIds
    BY DEF WriterStates, AuthInv, ListsTyped
  <1>2. writer' = [writer EXCEPT ![w] = new] /\ ~Writing(w) /\ Overlaps
    BY DEF BeginDecision
  <1> HIDE DEF new
  <1>3. \A v \in Writers : writer'[v] = IF v = w THEN new ELSE writer[v]
    BY <1>2 DEF AuthInv, ListsTyped
  <1>4. overlap' \in Nat /\ (overlap' = 0 => overlap = 0 /\ \A v \in Writers : ~Writing(v))
    BY <1>2 DEF Overlaps, AuthInv, ListsTyped
  <1>5. ListsTyped'
    BY <1>1, <1>2, <1>4 DEF AuthInv, ListsTyped
  <1>6. ReadsCurrent' /\ DeniedAreBlocked'
    BY <1>1, <1>3 DEF AuthInv, ReadsCurrent, DeniedAreBlocked
  <1>7. OneWriter'
    <2> SUFFICES ASSUME ~raced, deaths = 0, overlap' = 0
                 PROVE  OneWriter'
      BY DEF OneWriter
    <2>1. \A v \in Writers : writer[v].at = "idle"
      BY <1>4 DEF Writing
    <2>2. /\ \A v, u \in Writers : Writing(v)' /\ Writing(u)' => v = u
          /\ \A v \in Writers : writer'[v].at \notin {"between", "env"}
      BY <1>1, <1>3, <2>1 DEF Writing
    <2>3. /\ chatIds \cap blockedIds = {}
          /\ \A d \in Groups : /\ lastWord[d] = "allow" => Authorized(d)
                               /\ ~(d \in blockedIds /\ d \in chatIds \cup envIds)
      BY <1>4, <2>1 DEF AuthInv, OneWriter
    <2>4. QED
      BY <2>2, <2>3 DEF OneWriter, Authorized
  <1>8. QED
    BY <1>5, <1>6, <1>7 DEF AuthInv

\* What the command finds as it wants it to be: its answer is the last word.
LEMMA AlreadySoKeeps ==
    ASSUME AuthInv, NEW c \in Groups, NEW what \in Decisions, AlreadySo(c, what),
           ~Writing("shell"), Overlaps, lastWord' = [lastWord EXCEPT ![c] = what],
           UNCHANGED <<chatIds, blockedIds, envIds, writer, deaths, raced>>
    PROVE  AuthInv'
  <1>1. \A d \in Groups : lastWord'[d] = IF d = c THEN what ELSE lastWord[d]
    BY DEF AuthInv, ListsTyped
  <1>2. overlap' \in Nat /\ (overlap' = 0 => overlap = 0 /\ \A v \in Writers : ~Writing(v))
    BY DEF Overlaps, AuthInv, ListsTyped
  <1>3. ListsTyped'
    BY <1>2 DEF AuthInv, ListsTyped
  <1>4. ReadsCurrent' /\ DeniedAreBlocked'
    BY <1>1 DEF AuthInv, ReadsCurrent, DeniedAreBlocked, AlreadySo
  <1>5. OneWriter'
    <2> SUFFICES ASSUME ~raced, deaths = 0, overlap' = 0
                 PROVE  OneWriter'
      BY DEF OneWriter
    <2>1. \A v \in Writers : writer[v].at = "idle" /\ ~Writing(v)
      BY <1>2 DEF Writing
    <2>2. /\ chatIds \cap blockedIds = {}
          /\ \A d \in Groups : /\ lastWord[d] = "allow" => Authorized(d)
                               /\ ~(d \in blockedIds /\ d \in chatIds \cup envIds)
      BY <1>2, <2>1 DEF AuthInv, OneWriter
    <2>3. what = "allow" => Authorized(c)
      BY <2>2 DEF AlreadySo, Authorized
    <2>4. QED
      BY <1>1, <2>1, <2>2, <2>3 DEF OneWriter, Authorized, Writing
  <1>6. QED
    BY <1>3, <1>4, <1>5 DEF AuthInv

\* The yaml is written: without a race, one chat changes sides.
LEMMA WriteYamlKeeps ==
    ASSUME AuthInv, NEW w \in Writers, WriteYaml(w)
    PROVE  AuthInv'
  <1> DEFINE c == writer[w].chat
             what == writer[w].what
             new == [writer[w] EXCEPT !.at = "between"]
             allowed == With(writer[w].allowed, w, "allow")
             blocked == With(writer[w].blocked, w, "deny")
  <1>1. /\ writer[w] \in WriterStates /\ writer[w].at = "yaml" /\ c \in Groups /\ what \in Decisions
        /\ writer \in [Writers -> WriterStates]
        /\ lastWord \in [Groups -> Decisions \cup {"none"}]
    BY DEF WriteYaml, AuthInv, ListsTyped, WriterStates
  <1>2. new \in WriterStates /\ new.at = "between" /\ new.what = what /\ new.chat = c
    BY <1>1 DEF WriterStates
  <1>3. writer' = [writer EXCEPT ![w] = new] /\ lastWord' = [lastWord EXCEPT ![c] = what]
        /\ UNCHANGED <<envIds, deaths, overlap>>
    BY DEF WriteYaml, Step
  <1>4. \/ <<allowed, blocked>> = <<writer[w].allowed, writer[w].blocked>>
              /\ UNCHANGED <<chatIds, blockedIds, raced>>
        \/ chatIds' = allowed /\ blockedIds' = blocked /\ Races(w, "yaml")
    BY DEF WriteYaml
  <1>5. allowed \subseteq Groups /\ blocked \subseteq Groups
    BY <1>1 DEF With, WriterStates
  <1>6. ListsTyped'
    BY <1>1, <1>2, <1>3, <1>4, <1>5 DEF AuthInv, ListsTyped
  <1>7. \A v \in Writers : writer'[v] = IF v = w THEN new ELSE writer[v]
    BY <1>1, <1>3
  <1>8. \A d \in Groups : lastWord'[d] = IF d = c THEN what ELSE lastWord[d]
    BY <1>1, <1>3
  <1>9. ASSUME ~raced'
        PROVE  /\ ~raced
               /\ chatIds' = IF what = "allow" THEN chatIds \cup {c} ELSE chatIds \ {c}
               /\ blockedIds' = IF what = "deny" THEN blockedIds \cup {c} ELSE blockedIds \ {c}
               /\ (\A v \in Writers \ {w} : writer[v].at # "yaml")
                  \/ (chatIds' = chatIds /\ blockedIds' = blockedIds)
    <2>1. ~raced
      BY <1>4, <1>9 DEF Races
    <2>2. writer[w].allowed = chatIds /\ writer[w].blocked = blockedIds
      BY <1>1, <2>1 DEF AuthInv, ReadsCurrent
    <2>3. /\ allowed = IF what = "allow" THEN chatIds \cup {c} ELSE chatIds \ {c}
          /\ blocked = IF what = "deny" THEN blockedIds \cup {c} ELSE blockedIds \ {c}
      BY <2>2 DEF With
    <2> HIDE DEF allowed, blocked, c, what
    <2>4. QED
      BY <1>4, <1>9, <2>1, <2>2, <2>3 DEF Races
  <1> HIDE DEF allowed, blocked, c, what, new
  <1>10. ReadsCurrent'
    BY <1>2, <1>3, <1>7, <1>9 DEF AuthInv, ReadsCurrent
  <1>11. DeniedAreBlocked'
    BY <1>1, <1>8, <1>9 DEF AuthInv, DeniedAreBlocked, Decisions
  <1>12. OneWriter'
    <2> SUFFICES ASSUME ~raced', deaths = 0, overlap = 0
                 PROVE  OneWriter'
      BY <1>3 DEF OneWriter
    <2>1. \A v \in Writers : v # w => writer[v].at = "idle"
      BY <1>1, <1>9 DEF AuthInv, OneWriter, Writing
    <2>2. \A d \in Groups : ~(d \in blockedIds /\ d \in chatIds \cup envIds)
      BY <1>1, <1>9, <2>1 DEF AuthInv, OneWriter
    <2>3. \A d \in Groups : lastWord[d] = "allow" => Authorized(d)
      BY <1>9 DEF AuthInv, OneWriter
    <2>4. /\ \A v, u \in Writers : Writing(v)' /\ Writing(u)' => v = u
          /\ chatIds' \cap blockedIds' = {}
      BY <1>1, <1>5, <1>7, <1>9, <2>1, <2>2 DEF Writing, Decisions, AuthInv, ListsTyped
    <2>5. \A v \in Writers : writer'[v].at \in {"between", "env"} => lastWord'[writer'[v].chat] = writer'[v].what
      BY <1>1, <1>2, <1>7, <1>8, <2>1
    <2>6. ASSUME NEW d \in Groups
          PROVE  /\ lastWord'[d] = "allow" => Authorized(d)'
                 /\ d \in blockedIds' /\ d \in chatIds' \cup envIds' =>
                       \E v \in Writers : /\ writer'[v].at \in {"between", "env"}
                                          /\ writer'[v].what = "deny" /\ writer'[v].chat = d
      <3>1. CASE d = c
        <4>1. what = "allow" => d \in chatIds' /\ d \notin blockedIds'
          BY <1>9, <3>1
        <4>2. what = "deny" => writer'[w].at = "between" /\ writer'[w].what = "deny" /\ writer'[w].chat = d
          BY <1>2, <1>7, <3>1
        <4>3. QED
          BY <1>1, <1>8, <3>1, <4>1, <4>2 DEF Authorized, Decisions
      <3>2. CASE d # c
        BY <1>3, <1>8, <1>9, <2>2, <2>3, <3>2 DEF Authorized
      <3>3. QED
        BY <3>1, <3>2
    <2>7. QED
      BY <2>4, <2>5, <2>6 DEF OneWriter
  <1>13. QED
    BY <1>6, <1>10, <1>11, <1>12 DEF AuthInv

LEMMA ReadEnvKeeps ==
    ASSUME AuthInv, NEW w \in Writers, ReadEnv(w)
    PROVE  AuthInv'
  <1> DEFINE new == [writer[w] EXCEPT !.at = "env", !.allowed = envIds, !.blocked = {}]
  <1>1. writer[w] \in WriterStates /\ writer[w].at = "between" /\ envIds \subseteq Groups
    BY DEF ReadEnv, AuthInv, ListsTyped
  <1>2. new \in WriterStates /\ new.at = "env" /\ new.allowed = envIds
        /\ new.what = writer[w].what /\ new.chat = writer[w].chat
    BY <1>1 DEF WriterStates
  <1>3. writer' = [writer EXCEPT ![w] = new]
        /\ UNCHANGED <<chatIds, blockedIds, envIds, deaths, overlap, raced, lastWord>>
    BY DEF ReadEnv
  <1> HIDE DEF new
  <1>4. \A v \in Writers : writer'[v] = IF v = w THEN new ELSE writer[v]
    BY <1>3 DEF AuthInv, ListsTyped
  <1>5. ListsTyped'
    BY <1>2, <1>3 DEF AuthInv, ListsTyped
  <1>6. ReadsCurrent' /\ DeniedAreBlocked'
    BY <1>2, <1>3, <1>4 DEF AuthInv, ReadsCurrent, DeniedAreBlocked
  <1>7. \A v \in Writers : /\ Writing(v)' <=> Writing(v)
                           /\ writer'[v].at \in {"between", "env"} <=> writer[v].at \in {"between", "env"}
                           /\ writer'[v].what = writer[v].what /\ writer'[v].chat = writer[v].chat
    BY <1>1, <1>2, <1>4 DEF Writing
  <1>8. OneWriter'
    BY <1>3, <1>7 DEF AuthInv, OneWriter, Authorized
  <1>9. QED
    BY <1>5, <1>6, <1>8 DEF AuthInv

\* .env is written: the decision is through.
LEMMA WriteEnvKeeps ==
    ASSUME AuthInv, NEW w \in Writers, WriteEnv(w)
    PROVE  AuthInv'
  <1> DEFINE c == writer[w].chat
             what == writer[w].what
             ids == With(writer[w].allowed, w, "allow")
  <1>1. /\ writer[w] \in WriterStates /\ writer[w].at = "env" /\ c \in Groups /\ what \in Decisions
        /\ writer \in [Writers -> WriterStates]
    BY DEF WriteEnv, AuthInv, ListsTyped, WriterStates
  <1>2. NotWriting \in WriterStates /\ NotWriting.at = "idle"
    BY AuthAssumption DEF AuthAssumption, NotWriting, WriterStates, Decisions
  <1>3. writer' = [writer EXCEPT ![w] = NotWriting]
        /\ UNCHANGED <<chatIds, blockedIds, deaths, overlap, lastWord>>
    BY DEF WriteEnv
  <1>4. \/ ids = writer[w].allowed /\ UNCHANGED <<envIds, raced>>
        \/ envIds' = ids /\ Races(w, "env")
    BY DEF WriteEnv
  <1>5. ids \subseteq Groups
    BY <1>1 DEF With, WriterStates
  <1>6. ListsTyped'
    BY <1>1, <1>2, <1>3, <1>4, <1>5 DEF AuthInv, ListsTyped
  <1>7. \A v \in Writers : writer'[v] = IF v = w THEN NotWriting ELSE writer[v]
    BY <1>1, <1>3
  <1>8. ASSUME ~raced'
        PROVE  /\ ~raced
               /\ envIds' = IF what = "allow" THEN envIds \cup {c} ELSE envIds \ {c}
               /\ (\A v \in Writers \ {w} : writer[v].at # "env") \/ envIds' = envIds
    <2>1. ~raced
      BY <1>4, <1>8 DEF Races
    <2>2. writer[w].allowed = envIds
      BY <1>1, <2>1 DEF AuthInv, ReadsCurrent
    <2>3. ids = IF what = "allow" THEN envIds \cup {c} ELSE envIds \ {c}
      BY <2>2 DEF With
    <2> HIDE DEF ids, c, what
    <2>4. QED
      BY <1>4, <1>8, <2>1, <2>2, <2>3 DEF Races
  <1> HIDE DEF ids, c, what
  <1>9. ReadsCurrent'
    BY <1>2, <1>3, <1>7, <1>8 DEF AuthInv, ReadsCurrent
  <1>10. DeniedAreBlocked'
    BY <1>3, <1>8 DEF AuthInv, DeniedAreBlocked
  <1>11. OneWriter'
    <2> SUFFICES ASSUME ~raced', deaths = 0, overlap = 0
                 PROVE  OneWriter'
      BY <1>3 DEF OneWriter
    <2>1. \A v \in Writers : v # w => writer[v].at = "idle"
      BY <1>1, <1>8 DEF AuthInv, OneWriter, Writing
    <2>2. \A v \in Writers : writer'[v].at = "idle"
      BY <1>2, <1>7, <2>1
    <2>3. lastWord[c] = what /\ chatIds \cap blockedIds = {}
      BY <1>1, <1>8 DEF AuthInv, OneWriter, c, what
    <2>4. \A d \in Groups : d # c => ~(d \in blockedIds /\ d \in chatIds \cup envIds)
      BY <1>1, <1>8, <2>1 DEF AuthInv, OneWriter, c
    <2>5. \A d \in Groups : lastWord[d] = "allow" => Authorized(d)
      BY <1>8 DEF AuthInv, OneWriter
    <2>6. ASSUME NEW d \in Groups
          PROVE  /\ lastWord[d] = "allow" => Authorized(d)'
                 /\ ~(d \in blockedIds' /\ d \in chatIds' \cup envIds')
      <3>1. CASE d = c /\ what = "allow"
        BY <1>3, <1>8, <2>3, <2>5, <3>1 DEF Authorized
      <3>2. CASE d = c /\ what = "deny"
        BY <1>3, <1>8, <2>3, <3>2
      <3>3. CASE d # c
        BY <1>3, <1>8, <2>4, <2>5, <3>3 DEF Authorized
      <3>4. QED
        BY <1>1, <3>1, <3>2, <3>3 DEF Decisions
    <2>7. QED
      BY <1>3, <2>2, <2>3, <2>6 DEF OneWriter, Writing
  <1>12. QED
    BY <1>6, <1>9, <1>10, <1>11 DEF AuthInv

LEMMA AuthStays == AuthInv /\ [AuthNext]_authVars => AuthInv'
  <1> SUFFICES ASSUME AuthInv, [AuthNext]_authVars
               PROVE  AuthInv'
    OBVIOUS
  <1>0. "gateway" \in Writers /\ "shell" \in Writers /\ "allow" \in Decisions /\ "deny" \in Decisions
    BY DEF Writers, Decisions
  <1>1. ASSUME UNCHANGED <<chatIds, blockedIds, envIds, writer, deaths, overlap, raced, lastWord>>
        PROVE  AuthInv'
    BY <1>1 DEF AuthInv, ListsTyped, ReadsCurrent, DeniedAreBlocked, OneWriter, Writing, Authorized
  <1>2. ASSUME NEW c \in Groups, Prompt(c) \/ BotRemoved(c) \/ ApprovalRejected(c)
        PROVE  AuthInv'
    BY <1>1, <1>2 DEF Prompt, BotRemoved, ApprovalRejected
  <1>3. ASSUME NEW c \in Groups, HandleLeft(c) \/ ApprovalAllows(c)
        PROVE  AuthInv'
    BY <1>0, <1>3, BeginKeeps DEF HandleLeft, ApprovalAllows
  <1>4. ASSUME NEW c \in Groups, NEW what \in Decisions, Tap(c, what)
        PROVE  AuthInv'
    BY <1>0, <1>4, BeginKeeps DEF Tap
  <1>5. ASSUME NEW c \in Groups, NEW what \in Decisions, CommandDecides(c, what)
        PROVE  AuthInv'
    <2>1. CASE AlreadySo(c, what)
      BY <1>5, <2>1, AlreadySoKeeps DEF CommandDecides
    <2>2. CASE ~AlreadySo(c, what)
      BY <1>0, <1>5, <2>2, BeginKeeps DEF CommandDecides
    <2>3. QED
      BY <2>1, <2>2
  <1>6. ASSUME NEW w \in Writers, WriterDies(w)
        PROVE  AuthInv'
    <2>1. NotWriting \in WriterStates /\ NotWriting.at = "idle"
      BY AuthAssumption DEF AuthAssumption, NotWriting, WriterStates, Decisions
    <2>2. UNCHANGED <<chatIds, blockedIds, envIds, overlap, raced, lastWord>>
          /\ writer' = [writer EXCEPT ![w] = NotWriting]
      BY <1>6 DEF WriterDies
    <2>3. \A v \in Writers : writer'[v] = IF v = w THEN NotWriting ELSE writer[v]
      BY <2>2 DEF AuthInv, ListsTyped
    <2>4. deaths' \in Nat /\ (deaths' = 0 => deaths = 0 /\ writer[w].at = "idle")
      BY <1>6 DEF WriterDies, AuthInv, ListsTyped, Writing
    <2>5. ListsTyped'
      BY <2>1, <2>2, <2>4 DEF AuthInv, ListsTyped
    <2>6. ReadsCurrent' /\ DeniedAreBlocked'
      BY <2>1, <2>2, <2>3 DEF AuthInv, ReadsCurrent, DeniedAreBlocked
    <2>7. OneWriter'
      <3> SUFFICES ASSUME ~raced, deaths' = 0, overlap = 0
                   PROVE  OneWriter'
        BY <2>2 DEF OneWriter
      <3>1. \A v \in Writers : writer'[v].at = writer[v].at
                               /\ (writer[v].at # "idle" => writer'[v] = writer[v])
        BY <2>1, <2>3, <2>4
      <3>2. QED
        BY <2>2, <2>4, <3>1 DEF AuthInv, OneWriter, Writing, Authorized
    <2>8. QED
      BY <2>5, <2>6, <2>7 DEF AuthInv
  <1>7. CASE UNCHANGED authVars
    BY <1>1, <1>7 DEF authVars
  <1>8. QED
    BY <1>2, <1>3, <1>4, <1>5, <1>6, <1>7, WriteYamlKeeps, ReadEnvKeeps, WriteEnvKeeps DEF AuthNext

\* The operator's last decision about a chat holds, for any number of chats and
\* wherever a writer dies, unless two writers raced for a file.
THEOREM LastWordsHold == AuthSpec => []LastWordHolds
  <1>1. AuthInv => LastWordHolds
    BY DEF AuthInv, DeniedAreBlocked, OneWriter, LastWordHolds, Authorized
  <1>2. QED
    BY <1>1, AuthInitially, AuthStays, PTL DEF AuthSpec


-----------------------------------------------------------------------------
(* Deep research: the profile, and the last word about a job. *)

OneProfile == \A j, k \in Searches : worker[j] \in HasProfile /\ worker[k] \in HasProfile => j = k

\* A process was started, and its starter writes or is done.  Without haste a job
\* that has written its end is alone with its state file, and what it told is the end.
JobSound(j) ==
    /\ worker[j] # "none" => begins[j] \in {"recording", "done"}
    /\ notice[j] # "none" => worker[j] = "over"
    /\ haste = 0 /\ (worker[j] = "stated" \/ notice[j] # "none") =>
          /\ begins[j] = "done" /\ cancels[j] = "none"
          /\ record[j].status = IF exitOk[j] THEN "ok" ELSE "failed"
    /\ haste = 0 /\ notice[j] # "none" => notice[j] = IF exitOk[j] THEN "ok" ELSE "failed"

StateFile == [status : {"none", "running", "ok", "failed", "cancelled", "stale"}, pid : BOOLEAN]

ResearchInv == ResearchTypeOK /\ OneProfile /\ \A j \in Searches : JobSound(j)

JobStep(j) ==
    \/ StartJob(j) \/ Detach(j) \/ RecordPid(j) \/ RunJob(j) \/ AcquireProfile(j)
    \/ LaunchBrowser(j) \/ SubmitQuery(j) \/ Export(j) \/ WriteReport(j) \/ GiveUp(j)
    \/ Conclude(j) \/ Emit(j) \/ Dies(j)
    \/ ReadToCancel(j) \/ Signal(j) \/ WriteCancelled(j)

LEMMA ResearchInitially == ResearchInit => ResearchInv
  <1> SUFFICES ASSUME ResearchInit
               PROVE  ResearchInv
    OBVIOUS
  <1>1. NoRecord \in StateFile
    BY DEF NoRecord, StateFile
  <1>2. ResearchTypeOK
    <2>1. record \in [Searches -> StateFile]
      BY <1>1 DEF ResearchInit
    <2>2. haste \in 0..MaxHaste
      BY ResearchAssumption DEF ResearchInit, ResearchAssumption
    <2>3. /\ begins \in [Searches -> {"none", "spawning", "recording", "done"}]
          /\ worker \in [Searches -> {"none", "begun", "waiting", "ok", "failed", "stated", "over"}
                                      \cup HasProfile]
          /\ exitOk \in [Searches -> BOOLEAN] /\ signingIn \in BOOLEAN
          /\ notice \in [Searches -> {"none", "ok", "failed"}]
          /\ cancels \in [Searches -> {"none", "signalling", "cancelled", "stale"}]
      BY DEF ResearchInit
    <2>4. QED
      BY <2>1, <2>2, <2>3, Zenon DEF ResearchTypeOK, StateFile
  <1>3. OneProfile /\ \A j \in Searches : JobSound(j)
    BY DEF ResearchInit, OneProfile, JobSound, HasProfile
  <1>4. QED
    BY <1>2, <1>3 DEF ResearchInv

\* A state file that is written back whole is one again.
LEMMA WriteKeepsFiles ==
    ASSUME ResearchTypeOK, NEW j \in Searches, NEW p \in BOOLEAN,
           NEW s \in {"none", "running", "ok", "failed", "cancelled", "stale"}, Write(j, s, p)
    PROVE  /\ record' \in [Searches -> StateFile]
           /\ record'[j].status = s
  <1> DEFINE r == [status |-> s, pid |-> p]
  <1>1. r \in StateFile /\ r.status = s
    BY DEF StateFile
  <1>2. record \in [Searches -> StateFile] /\ record' = [record EXCEPT ![j] = r]
    BY DEF ResearchTypeOK, StateFile, Write
  <1> HIDE DEF r
  <1>3. QED
    BY <1>1, <1>2

\* A step of one job leaves the others alone, and haste only grows.
LEMMA OtherJobsRest ==
    ASSUME ResearchTypeOK, NEW j \in Searches, JobStep(j)
    PROVE  /\ haste' = 0 => haste = 0
           /\ \A k \in Searches \ {j} :
                  /\ begins'[k] = begins[k] /\ worker'[k] = worker[k] /\ record'[k] = record[k]
                  /\ exitOk'[k] = exitOk[k] /\ notice'[k] = notice[k] /\ cancels'[k] = cancels[k]
  BY ResearchAssumption DEF ResearchTypeOK, JobStep, StartJob, Detach, RecordPid, RunJob, AcquireProfile,
     LaunchBrowser, SubmitQuery, Export, WriteReport, GiveUp, Conclude, Emit, Dies, ReadToCancel, Signal,
     WriteCancelled, Write, Proc, ResearchAssumption

LEMMA ResearchTypeStep ==
    ASSUME ResearchTypeOK, NEW j \in Searches, JobStep(j)
    PROVE  ResearchTypeOK'
  <1>1. /\ begins' \in [Searches -> {"none", "spawning", "recording", "done"}]
        /\ signingIn' \in BOOLEAN /\ haste' \in 0..MaxHaste
    <2>1. \/ UNCHANGED haste
          \/ haste < MaxHaste /\ haste' = haste + 1
      BY DEF JobStep, StartJob, Detach, RecordPid, RunJob,
         AcquireProfile, LaunchBrowser, SubmitQuery, Export, WriteReport, GiveUp, Conclude, Emit, Dies,
         ReadToCancel, Signal, WriteCancelled
    <2>2. UNCHANGED signingIn
      BY DEF JobStep, StartJob, Detach, RecordPid, RunJob,
         AcquireProfile, LaunchBrowser, SubmitQuery, Export, WriteReport, GiveUp, Conclude, Emit, Dies,
         ReadToCancel, Signal, WriteCancelled
    <2>3. begins' \in [Searches -> {"none", "spawning", "recording", "done"}]
      <3>1. \/ UNCHANGED begins
            \/ \E b \in {"spawning", "recording", "done", begins[j]} : begins' = [begins EXCEPT ![j] = b]
        BY DEF JobStep, StartJob, Detach, RecordPid, RunJob,
           AcquireProfile, LaunchBrowser, SubmitQuery, Export, WriteReport, GiveUp, Conclude, Emit, Dies,
           ReadToCancel, Signal, WriteCancelled
      <3>2. QED
        BY <3>1 DEF ResearchTypeOK
    <2>4. QED
      BY <2>1, <2>2, <2>3, ResearchAssumption DEF ResearchTypeOK, ResearchAssumption
  <1>2. worker' \in [Searches -> {"none", "begun", "waiting", "ok", "failed", "stated", "over"}
                                \cup HasProfile]
    <2>1. \/ UNCHANGED worker
          \/ \E s \in {"begun", "waiting", "ok", "failed", "stated", "over"} \cup HasProfile : Proc(j, s)
      <3>1. CASE StartJob(j) \/ RecordPid(j) \/ ReadToCancel(j) \/ Signal(j) \/ WriteCancelled(j)
        BY <3>1 DEF StartJob, RecordPid, ReadToCancel, Signal, WriteCancelled
      <3>2. CASE Detach(j) \/ RunJob(j) \/ AcquireProfile(j)
        BY <3>2 DEF Detach, RunJob, AcquireProfile, HasProfile
      <3>3. CASE LaunchBrowser(j) \/ SubmitQuery(j) \/ Export(j) \/ WriteReport(j)
        BY <3>3 DEF LaunchBrowser, SubmitQuery, Export, WriteReport, HasProfile
      <3>4. CASE GiveUp(j) \/ Conclude(j) \/ Emit(j) \/ Dies(j)
        BY <3>4 DEF GiveUp, Conclude, Emit, Dies
      <3>5. QED
        BY <3>1, <3>2, <3>3, <3>4 DEF JobStep
    <2>2. QED
      BY <2>1 DEF ResearchTypeOK, Proc
  <1>3. record' \in [Searches -> StateFile]
    <2>1. record \in [Searches -> StateFile]
      BY DEF ResearchTypeOK, StateFile
    <2>2. \/ UNCHANGED record
          \/ \E s \in {"running", "ok", "failed", "cancelled", "stale"} : \E p \in BOOLEAN : Write(j, s, p)
      BY DEF JobStep, StartJob, Detach, RecordPid, RunJob,
         AcquireProfile, LaunchBrowser, SubmitQuery, Export, WriteReport, GiveUp, Conclude, Emit, Dies,
         ReadToCancel, Signal, WriteCancelled
    <2>3. QED
      BY <2>1, <2>2, WriteKeepsFiles
  <1>4. exitOk' \in [Searches -> BOOLEAN]
    <2>1. UNCHANGED exitOk \/ exitOk' = [exitOk EXCEPT ![j] = worker[j] = "ok"]
      BY DEF JobStep, StartJob, Detach, RecordPid, RunJob,
         AcquireProfile, LaunchBrowser, SubmitQuery, Export, WriteReport, GiveUp, Conclude, Emit, Dies,
         ReadToCancel, Signal, WriteCancelled
    <2>2. (worker[j] = "ok") \in BOOLEAN
      OBVIOUS
    <2>3. QED
      BY <2>1, <2>2, Zenon DEF ResearchTypeOK
  <1>5. /\ notice' \in [Searches -> {"none", "ok", "failed"}]
        /\ cancels' \in [Searches -> {"none", "signalling", "cancelled", "stale"}]
    BY DEF ResearchTypeOK, JobStep, StartJob, Detach, RecordPid, RunJob,
       AcquireProfile, LaunchBrowser, SubmitQuery, Export, WriteReport, GiveUp, Conclude, Emit, Dies,
       ReadToCancel, Signal, WriteCancelled
  <1>6. QED
    BY <1>1, <1>2, <1>3, <1>4, <1>5 DEF ResearchTypeOK, StateFile

\* The profile passes only to the job that finds no other in it.
LEMMA ProfileStays ==
    ASSUME ResearchTypeOK, OneProfile, NEW j \in Searches, JobStep(j)
    PROVE  OneProfile'
  <1>1. \A k \in Searches \ {j} : worker'[k] = worker[k]
    BY OtherJobsRest
  <1>2. CASE AcquireProfile(j)
    BY <1>1, <1>2 DEF AcquireProfile, OneProfile
  <1>3. CASE ~AcquireProfile(j)
    <2>1. worker'[j] \in HasProfile => worker[j] \in HasProfile
      BY <1>3 DEF ResearchTypeOK, JobStep, StartJob, Detach, RecordPid, RunJob, LaunchBrowser, SubmitQuery,
         Export, WriteReport, GiveUp, Conclude, Emit, Dies, ReadToCancel, Signal, WriteCancelled, Proc,
         HasProfile
    <2>2. QED
      BY <1>1, <2>1 DEF OneProfile
  <1>4. QED
    BY <1>2, <1>3

LEMMA JobStaysSound ==
    ASSUME ResearchTypeOK, NEW j \in Searches, JobStep(j), JobSound(j)
    PROVE  JobSound(j)'
  <1> USE DEF ResearchTypeOK, JobSound
  <1>1. CASE StartJob(j) \/ Detach(j) \/ RecordPid(j) \/ RunJob(j)
    BY <1>1 DEF StartJob, Detach, RecordPid, RunJob, Write, Proc
  <1>2. CASE AcquireProfile(j) \/ LaunchBrowser(j) \/ SubmitQuery(j) \/ Export(j) \/ WriteReport(j)
    BY <1>2 DEF AcquireProfile, LaunchBrowser, SubmitQuery, Export, WriteReport, Proc, HasProfile
  <1>3. CASE GiveUp(j) \/ Dies(j)
    BY <1>3 DEF GiveUp, Dies, Proc, HasProfile, Alive
  \* The end is written over whatever was there; with somebody else about to write,
  \* that is haste.
  <1>4. CASE Conclude(j)
    <2>1. worker'[j] = "stated" /\ UNCHANGED <<begins, cancels, notice>>
          /\ worker[j] \in {"ok", "failed"} /\ exitOk'[j] = (worker[j] = "ok")
      BY <1>4 DEF Conclude, Proc
    <2>2. record'[j].status = worker[j]
      BY <1>4, <2>1, WriteKeepsFiles DEF Conclude
    <2>3. haste' = 0 => ~Overtaken(j)
      BY <1>4, ResearchAssumption DEF Conclude, ResearchAssumption
    <2>4. QED
      BY <2>1, <2>2, <2>3 DEF Overtaken
  <1>5. CASE Emit(j)
    BY <1>5 DEF Emit, Proc
  <1>6. CASE ReadToCancel(j) \/ Signal(j) \/ WriteCancelled(j)
    BY <1>6 DEF ReadToCancel, Signal, WriteCancelled, Write, Alive
  <1>7. QED
    BY <1>1, <1>2, <1>3, <1>4, <1>5, <1>6 DEF JobStep

LEMMA ResearchStays == ResearchInv /\ [ResearchNext]_researchVars => ResearchInv'
  <1> SUFFICES ASSUME ResearchInv, [ResearchNext]_researchVars
               PROVE  ResearchInv'
    OBVIOUS
  <1>1. ASSUME NEW j \in Searches, JobStep(j)
        PROVE  ResearchInv'
    <2>1. ResearchTypeOK' /\ OneProfile'
      BY <1>1, ResearchTypeStep, ProfileStays DEF ResearchInv
    <2>2. JobSound(j)'
      BY <1>1, JobStaysSound DEF ResearchInv
    <2>3. ASSUME NEW k \in Searches, k # j
          PROVE  JobSound(k)'
      BY <1>1, <2>3, OtherJobsRest DEF ResearchInv, JobSound
    <2>4. QED
      BY <2>1, <2>2, <2>3 DEF ResearchInv
  <1>2. CASE OpenLogin \/ CloseLogin
    <2>1. signingIn' \in BOOLEAN
      BY <1>2 DEF OpenLogin, CloseLogin
    <2>2. UNCHANGED <<begins, worker, record, exitOk, notice, cancels, haste>>
      BY <1>2 DEF OpenLogin, CloseLogin
    <2>3. QED
      BY <2>1, <2>2 DEF ResearchInv, ResearchTypeOK, OneProfile, JobSound
  <1>3. CASE UNCHANGED researchVars
    BY <1>3 DEF researchVars, ResearchInv, ResearchTypeOK, OneProfile, JobSound
  <1>4. QED
    BY <1>1, <1>2, <1>3 DEF ResearchNext, JobStep

LEMMA ResearchInvKeeps == ResearchInv => ResearchKept
  <1> SUFFICES ASSUME ResearchInv
               PROVE  ResearchKept
    OBVIOUS
  <1>1. \A j, k \in Searches : {worker[j], worker[k]} \subseteq HasProfile => j = k
    BY DEF ResearchInv, OneProfile
  <1>2. \A j \in Searches : haste = 0 /\ notice[j] # "none" => record[j].status = notice[j]
    BY DEF ResearchInv, JobSound
  <1>3. QED
    BY <1>1, <1>2 DEF ResearchKept

\* For any number of jobs, two never share the profile; and the end that a job has
\* told is the one in its state file, unless somebody was about to write that file
\* from what he had read before.
THEOREM ResearchIsKept == ResearchSpec => []ResearchKept
  BY ResearchInvKeeps, ResearchInitially, ResearchStays, PTL DEF ResearchSpec

-----------------------------------------------------------------------------
(* The sheets of memory: where an item is while a sweep is at it. *)

\* Nobody interfered: an item that was written is on the sheet or went from it.
Gone(i) == archive[i] = 1 \/ (state[i] = "promoted" /\ i \in old)

Put(i) ==
    /\ sweep.at = "idle" =>
          (i \in sheet /\ archive[i] = 0) \/ (i \notin sheet /\ Gone(i))
    /\ sweep.at = "copying" =>
          \/ i \in sheet /\ i \in sweep.kept /\ i \notin sweep.left /\ archive[i] = 0
          \/ i \in sheet /\ i \notin sweep.kept /\ i \in sweep.left /\ archive[i] = 0
          \/ i \notin sweep.kept /\ i \notin sweep.left /\ Gone(i)

NoneUnwritten == \A i \in Items : i > written => archive[i] = 0

TidyInv == TidyTypeOK /\ NoneUnwritten /\ (omens = 0 => \A i \in 1..written : Put(i))

LEMMA TidyInitially == TidyInit => TidyInv
  <1> SUFFICES ASSUME TidyInit
               PROVE  TidyInv
    OBVIOUS
  <1>1. TidyTypeOK
    BY TidyAssumption DEF TidyInit, TidyTypeOK, NoSweep, Items, States, TidyAssumption
  <1>2. NoneUnwritten /\ \A i \in 1..written : Put(i)
    BY DEF TidyInit, NoneUnwritten
  <1>3. QED
    BY <1>1, <1>2 DEF TidyInv

LEMMA TidyTypeStep == TidyTypeOK /\ TidyNext => TidyTypeOK'
  <1> SUFFICES ASSUME TidyTypeOK, TidyNext
               PROVE  TidyTypeOK'
    OBVIOUS
  <1> USE TidyAssumption DEF TidyTypeOK, TidyAssumption, Items
  <1>1. CASE AddItem
    BY <1>1 DEF AddItem, OmenIf, Omen
  <1>2. ASSUME NEW i \in Items, ThirtyDays(i)
        PROVE  TidyTypeOK'
    BY <1>2 DEF ThirtyDays
  <1>3. ASSUME NEW i \in Items, CopyToArchive(i)
        PROVE  TidyTypeOK'
    <2>1. archive' \in [Items -> Nat]
      BY <1>3 DEF CopyToArchive
    <2>2. sweep' \in [at : {"idle", "copying"}, kept : SUBSET (1..written'), left : SUBSET (1..written')]
      BY <1>3 DEF CopyToArchive
    <2>3. QED
      BY <1>3, <2>1, <2>2 DEF CopyToArchive
  <1>4. ASSUME NEW i \in Items, NEW s \in States, SettleItem(i, s)
        PROVE  TidyTypeOK'
    BY <1>4 DEF SettleItem
  <1>5. CASE ReadSheet
    <2>1. Leaves \subseteq sheet /\ sheet \subseteq 1..written
      BY DEF Leaves
    <2>2. sweep' \in [at : {"idle", "copying"}, kept : SUBSET (1..written'), left : SUBSET (1..written')]
      BY <1>5, <2>1 DEF ReadSheet
    <2>3. sweeps' \in 0..MaxSweeps
      BY <1>5 DEF ReadSheet
    <2>4. UNCHANGED <<which, sheet, state, old, archive, omens, written>>
      BY <1>5 DEF ReadSheet
    <2>5. QED
      BY <2>2, <2>3, <2>4
  <1>6. CASE RewriteSheet
    BY <1>6 DEF RewriteSheet, NoSweep
  <1>7. CASE SweepKilled
    BY <1>7 DEF SweepKilled, NoSweep, Omen
  <1>8. QED
    BY <1>1, <1>2, <1>3, <1>4, <1>5, <1>6, <1>7 DEF TidyNext

\* What leaves the sheet and is not copied was promoted and is old.
LEMMA DroppedWasPromoted ==
    ASSUME TidyTypeOK, NEW i \in Leaves
    PROVE  /\ i \in sheet
           /\ i \in Dropped => state[i] = "promoted" /\ i \in old
  BY DEF Leaves, Dropped

LEMMA TidyTypesStay == TidyTypeOK /\ [TidyNext]_tidyVars => TidyTypeOK'
  <1>1. TidyTypeOK /\ UNCHANGED tidyVars => TidyTypeOK'
    BY DEF TidyTypeOK, tidyVars
  <1>2. QED
    BY <1>1, TidyTypeStep

LEMMA UnwrittenStay == TidyTypeOK /\ NoneUnwritten /\ [TidyNext]_tidyVars => NoneUnwritten'
  <1> SUFFICES ASSUME TidyTypeOK, NoneUnwritten, [TidyNext]_tidyVars, NEW i \in Items, i > written'
               PROVE  archive'[i] = 0
    BY DEF NoneUnwritten, Items
  <1>1. written' >= written /\ written \in Nat /\ written' \in Nat
    BY DEF TidyTypeOK, TidyNext, AddItem, ThirtyDays, CopyToArchive, SettleItem, ReadSheet, RewriteSheet,
       SweepKilled, tidyVars
  <1>2. archive'[i] = archive[i] \/ i \in sweep.left
    BY DEF TidyTypeOK, TidyNext, AddItem, ThirtyDays, CopyToArchive, SettleItem, ReadSheet, RewriteSheet,
       SweepKilled, tidyVars
  <1>3. sweep.left \subseteq 1..written /\ i \in Nat
    BY DEF TidyTypeOK, Items
  <1>4. QED
    BY <1>1, <1>2, <1>3 DEF NoneUnwritten

LEMMA TidyStays == TidyInv /\ [TidyNext]_tidyVars => TidyInv'
  <1> SUFFICES ASSUME TidyInv, [TidyNext]_tidyVars, omens' = 0
               PROVE  \A i \in 1..written' : Put(i)'
    BY TidyTypesStay, UnwrittenStay DEF TidyInv
  <1>1. TidyTypeOK /\ TidyTypeOK'
    BY TidyTypesStay DEF TidyInv
  \* Whatever interferes counts, so nothing has.
  <1>2. omens = 0
    BY <1>1 DEF TidyNext, AddItem, ThirtyDays, CopyToArchive, SettleItem, ReadSheet, RewriteSheet,
       SweepKilled, OmenIf, Omen, TidyTypeOK, tidyVars
  <1>3. \A i \in 1..written : Put(i)
    BY <1>2 DEF TidyInv
  <1> SUFFICES ASSUME NEW i \in 1..written'
               PROVE  Put(i)'
    OBVIOUS
  <1> USE DEF TidyTypeOK, Items
  <1>4. CASE AddItem
    BY <1>1, <1>2, <1>3, <1>4 DEF AddItem, OmenIf, Omen, Put, Gone, TidyInv, NoneUnwritten
  <1>5. ASSUME NEW j \in Items, ThirtyDays(j)
        PROVE  Put(i)'
    BY <1>3, <1>5 DEF ThirtyDays, Put, Gone
  <1>6. ASSUME NEW j \in Items, CopyToArchive(j)
        PROVE  Put(i)'
    BY <1>1, <1>3, <1>6 DEF CopyToArchive, Put, Gone
  <1>7. ASSUME NEW j \in Items, NEW s \in States, SettleItem(j, s)
        PROVE  Put(i)'
    BY <1>1, <1>3, <1>7 DEF SettleItem, Put, Gone
  <1>8. CASE ReadSheet
    BY <1>1, <1>3, <1>8, DroppedWasPromoted DEF ReadSheet, Put, Gone
  <1>9. CASE RewriteSheet
    BY <1>1, <1>3, <1>9 DEF RewriteSheet, NoSweep, Put, Gone
  <1>10. CASE SweepKilled
    BY <1>2, <1>10 DEF SweepKilled, Omen
  <1>11. CASE UNCHANGED tidyVars
    BY <1>3, <1>11 DEF tidyVars, Put, Gone
  <1>12. QED
    BY <1>4, <1>5, <1>6, <1>7, <1>8, <1>9, <1>10, <1>11 DEF TidyNext

\* No item of a sheet is lost or archived twice, for any number of items, caps and
\* sweeps, as long as no sweep is killed and nobody writes while one is at work.
THEOREM NothingIsTidiedAway == TidySpec => []NothingTidiedAway
  <1>1. TidyInv => NothingTidiedAway
    BY DEF TidyInv, NothingTidiedAway, Put, Gone
  <1>2. QED
    BY <1>1, TidyInitially, TidyStays, PTL DEF TidySpec

-----------------------------------------------------------------------------
(* Proposals: one file of what is staged, rewritten whole by who moves a   *)
(* proposal out of it.                                                     *)

\* Of what is not entangled, everyone who moves something has read what is staged.
ReadsAgree == \A d \in Moving, p \in Ids \ entangled : p \in staged <=> p \in decider[d].lines

\* Two that move at a time have entangled what they move.
MovesEntangle == \A d, e \in Moving : d # e => decider[d].id \in entangled

CopiedFirst == \A d \in Deciders : decider[d].at = "copied" => decider[d].id \in archived

\* What the cooldown covers, staged or about to be: of one wish, one answer.
AtHand == (staged \cup cycle.todo) \ (cooled \cup entangled)
OncePerWish == \A p, q \in AtHand : p < q /\ wish[p] = wish[q] => batch[p] = batch[q]

InOrder == /\ ReadsAgree /\ MovesEntangle /\ CopiedFirst
           /\ SavedIsKept /\ DecidedLeaves /\ OncePerWish

ProposalsInv == ProposalsTypeOK /\ (Emptied \notin torn => InOrder)

LEMMA ProposalsInitially == ProposalsInit => ProposalsInv
  <1> SUFFICES ASSUME ProposalsInit
               PROVE  ProposalsInv
    OBVIOUS
  <1>1. Len(wish) = 0 /\ Len(batch) = 0 /\ wish \in Seq(Wishes) /\ batch \in Seq(Nat)
    BY DEF ProposalsInit
  <1>2. Moving = {}
    BY DEF ProposalsInit, Moving, AtRest
  <1>3. cycle \in [at : {"none", "saving"}, todo : SUBSET (Ids \ appended)]
    BY DEF ProposalsInit, NoCycle
  <1>4. decider \in [Deciders -> [at : {"rest", "read", "copied"}, id : Ids \cup {0},
                                  lines : SUBSET appended]]
    BY DEF ProposalsInit, AtRest
  <1>5. ProposalsTypeOK
    BY <1>1, <1>2, <1>3, <1>4, ProposalsAssumption DEF ProposalsInit, ProposalsTypeOK, ProposalsAssumption
  <1>6. InOrder
    BY <1>2 DEF ProposalsInit, InOrder, ReadsAgree, MovesEntangle, CopiedFirst, SavedIsKept,
       DecidedLeaves, OncePerWish, AtHand, NoCycle, AtRest
  <1>7. QED
    BY <1>5, <1>6 DEF ProposalsInv

\* A cycle's proposals come after the others, with what was asked for and its number.
LEMMA CycleNumbers ==
    ASSUME ProposalsTypeOK, NEW new \in Seq(Wishes), BeginCycle(new)
    PROVE  /\ wish' \in Seq(Wishes) /\ batch' \in Seq(Nat)
           /\ Len(wish') = Len(wish) + Len(new) /\ Len(batch') = Len(wish')
           /\ \A p \in Ids : wish'[p] = wish[p] /\ batch'[p] = batch[p]
           /\ \A p \in cycle'.todo : /\ p \in Ids' \ Ids
                                     /\ p - Len(wish) \in DOMAIN new
                                     /\ wish'[p] = new[p - Len(wish)]
                                     /\ batch'[p] = Len(wish) + 1
  <1> DEFINE n == Len(wish)
             numbers == [i \in DOMAIN new |-> n + 1]
  <1>1. wish \in Seq(Wishes) /\ batch \in Seq(Nat) /\ Len(batch) = n /\ n \in Nat /\ Len(new) \in Nat
    BY DEF ProposalsTypeOK
  <1>2. DOMAIN new = 1..Len(new)
    BY LenProperties
  <1>3. numbers \in Seq(Nat) /\ Len(numbers) = Len(new) /\ \A i \in 1..Len(new) : numbers[i] = n + 1
    BY <1>1, <1>2, IsASeq
  <1>4. /\ wish' = wish \o new /\ batch' = batch \o numbers
        /\ cycle'.todo = (n + 1)..(n + Len(new))
    BY DEF BeginCycle
  <1> HIDE DEF numbers
  <1>5. /\ wish \o new \in Seq(Wishes) /\ Len(wish \o new) = n + Len(new)
        /\ \A i \in 1..(n + Len(new)) : (wish \o new)[i] = IF i <= n THEN wish[i] ELSE new[i - n]
    <2>1. wish \in Seq(Wishes) /\ new \in Seq(Wishes)
      BY <1>1
    <2>2. QED
      BY <2>1, ConcatProperties, ZenonT(30)
  <1>6. /\ batch \o numbers \in Seq(Nat) /\ Len(batch \o numbers) = n + Len(new)
        /\ \A i \in 1..(n + Len(new)) : (batch \o numbers)[i] = IF i <= n THEN batch[i] ELSE numbers[i - n]
    <2>1. /\ batch \o numbers \in Seq(Nat) /\ Len(batch \o numbers) = Len(batch) + Len(numbers)
          /\ \A i \in 1..(Len(batch) + Len(numbers)) :
                (batch \o numbers)[i] = IF i <= Len(batch) THEN batch[i] ELSE numbers[i - Len(batch)]
      <3>1. batch \in Seq(Nat) /\ numbers \in Seq(Nat)
        BY <1>1, <1>3
      <3>2. QED
        BY <3>1, ConcatProperties, ZenonT(30)
    <2>2. Len(batch) = n /\ Len(numbers) = Len(new)
      BY <1>1, <1>3
    <2>3. QED
      BY <2>1, <2>2
  <1>7. /\ wish' \in Seq(Wishes) /\ batch' \in Seq(Nat)
        /\ Len(wish') = n + Len(new) /\ Len(batch') = n + Len(new)
    BY <1>4, <1>5, <1>6
  <1>8. ASSUME NEW p \in 1..n
        PROVE  wish'[p] = wish[p] /\ batch'[p] = batch[p]
    <2>1. p \in 1..(n + Len(new)) /\ p <= n
      BY <1>1
    <2>2. QED
      BY <2>1, <1>4, <1>5, <1>6
  <1>9. ASSUME NEW p \in (n + 1)..(n + Len(new))
        PROVE  /\ p \in 1..(n + Len(new)) /\ p \notin 1..n /\ p - n \in 1..Len(new)
               /\ wish'[p] = new[p - n] /\ batch'[p] = n + 1
    <2>1. p \in 1..(n + Len(new)) /\ p \notin 1..n /\ p - n \in 1..Len(new) /\ ~(p <= n)
      BY <1>1
    <2>2. wish'[p] = new[p - n]
      BY <2>1, <1>4, <1>5
    <2>3. batch'[p] = numbers[p - n]
      BY <2>1, <1>4, <1>6
    <2>4. numbers[p - n] = n + 1
      BY <2>1, <1>3
    <2>5. QED
      BY <2>1, <2>2, <2>3, <2>4
  <1>10. Ids = 1..n /\ Ids' = 1..(n + Len(new))
    BY <1>7 DEF Ids
  <1> HIDE DEF n
  <1>11. /\ wish' \in Seq(Wishes) /\ batch' \in Seq(Nat)
         /\ Len(wish') = n + Len(new) /\ Len(batch') = Len(wish')
         /\ \A p \in Ids : wish'[p] = wish[p] /\ batch'[p] = batch[p]
         /\ \A p \in cycle'.todo : /\ p \in Ids' \ Ids
                                   /\ p - n \in DOMAIN new
                                   /\ wish'[p] = new[p - n]
                                   /\ batch'[p] = n + 1
    BY <1>2, <1>4, <1>7, <1>8, <1>9, <1>10
  <1>12. QED
    BY <1>11 DEF n

\* A cycle that dies, or one more proposal of it, or a new one: the numbers stay.
LEMMA ProposalsTypeStep == ProposalsTypeOK /\ [ProposalsNext]_proposalsVars => ProposalsTypeOK'
  <1> SUFFICES ASSUME ProposalsTypeOK, [ProposalsNext]_proposalsVars
               PROVE  ProposalsTypeOK'
    OBVIOUS
  <1>0. Ids \subseteq Nat \ {0} /\ appended \subseteq Ids
    BY DEF Ids, ProposalsTypeOK
  <1>1. ASSUME NEW new \in Seq(Wishes), BeginCycle(new)
        PROVE  ProposalsTypeOK'
    <2>1. /\ wish' \in Seq(Wishes) /\ batch' \in Seq(Nat) /\ Len(batch') = Len(wish')
          /\ Len(wish') = Len(wish) + Len(new) /\ Len(new) \in Nat /\ Len(wish) \in Nat
      BY <1>1, CycleNumbers, LenProperties DEF ProposalsTypeOK
    <2>2. Ids \subseteq Ids'
      BY <2>1 DEF Ids
    <2>3. cycle' \in [at : {"none", "saving"}, todo : SUBSET (Ids' \ appended)]
      BY <1>1, <1>0, <2>1 DEF BeginCycle, Ids
    <2>4. UNCHANGED <<staged, archived, cooled, decider, casualties, appended, entangled, torn>>
      BY <1>1 DEF BeginCycle
    <2>5. decider \in [Deciders -> [at : {"rest", "read", "copied"}, id : Ids' \cup {0},
                                    lines : SUBSET appended]]
      BY <2>2 DEF ProposalsTypeOK
    <2>6. Len(wish') <= MaxProposals
      BY <1>1, <2>1 DEF BeginCycle
    <2>7. QED
      BY <2>1, <2>2, <2>3, <2>4, <2>5, <2>6 DEF ProposalsTypeOK, Moving
  <1>2. CASE SaveProposal
    <2>1. PICK p \in cycle.todo :
              /\ staged' = staged \cup {p} /\ appended' = appended \cup {p}
              /\ entangled' \in {entangled, entangled \cup {p}}
              /\ cycle' = IF cycle.todo = {p} THEN NoCycle ELSE [cycle EXCEPT !.todo = @ \ {p}]
      BY <1>2 DEF SaveProposal
    <2>2. UNCHANGED <<wish, batch, archived, cooled, decider, casualties, torn>>
      BY <1>2 DEF SaveProposal
    <2>3. cycle' \in [at : {"none", "saving"}, todo : SUBSET (Ids \ appended')]
      BY <2>1 DEF ProposalsTypeOK, NoCycle
    <2>4. decider \in [Deciders -> [at : {"rest", "read", "copied"}, id : Ids \cup {0},
                                    lines : SUBSET appended']]
      BY <2>1 DEF ProposalsTypeOK
    <2>5. p \in Ids
      BY DEF ProposalsTypeOK
    <2>6. QED
      BY <2>1, <2>2, <2>3, <2>4, <2>5 DEF ProposalsTypeOK, Ids, Moving
  <1>3. CASE CycleDies
    BY <1>3, ProposalsAssumption DEF CycleDies, ProposalsTypeOK, NoCycle, Ids, Moving, ProposalsAssumption
  <1>4. ASSUME NEW d \in Deciders, NEW p \in Ids, ReadStaged(d, p)
        PROVE  ProposalsTypeOK'
    <2>1. /\ decider' = [decider EXCEPT ![d] = [at |-> "read", id |-> p, lines |-> staged]]
          /\ p \in staged /\ staged \subseteq appended
          /\ UNCHANGED <<wish, batch, staged, archived, cooled, cycle, casualties, appended, torn>>
      BY <1>4 DEF ReadStaged, ProposalsTypeOK
    <2>2. decider' \in [Deciders -> [at : {"rest", "read", "copied"}, id : Ids \cup {0},
                                     lines : SUBSET appended]]
      BY <2>1 DEF ProposalsTypeOK
    <2>3. \A e \in Moving' : decider'[e].id \in decider'[e].lines
      BY <2>1 DEF Moving, ProposalsTypeOK
    <2>4. entangled' \subseteq appended
      <3>1. \A e \in Moving : decider[e].id \in decider[e].lines /\ decider[e].lines \subseteq appended
        BY DEF ProposalsTypeOK, Moving
      <3>2. QED
        BY <1>4, <2>1, <3>1 DEF ReadStaged, ProposalsTypeOK
    <2>5. QED
      BY <2>1, <2>2, <2>3, <2>4 DEF ProposalsTypeOK, Ids, Moving
  <1>5. ASSUME NEW d \in Deciders, CopyLine(d)
        PROVE  ProposalsTypeOK'
    <2>1. /\ decider' = [decider EXCEPT ![d].at = "copied"] /\ d \in Moving
          /\ archived' = archived \cup {decider[d].id}
          /\ UNCHANGED <<wish, batch, staged, cooled, cycle, casualties, appended, entangled, torn>>
      BY <1>5 DEF CopyLine, Moving
    <2>2. decider' \in [Deciders -> [at : {"rest", "read", "copied"}, id : Ids \cup {0},
                                     lines : SUBSET appended]]
      BY <2>1 DEF ProposalsTypeOK
    <2>3. /\ Moving' = Moving
          /\ \A e \in Deciders : decider'[e].id = decider[e].id /\ decider'[e].lines = decider[e].lines
      BY <2>1 DEF Moving, ProposalsTypeOK
    <2>4. decider[d].id \in appended
      BY <2>1 DEF ProposalsTypeOK, Moving
    <2>5. QED
      BY <2>1, <2>2, <2>3, <2>4 DEF ProposalsTypeOK, Ids, Moving
  <1>6. ASSUME NEW d \in Deciders, RewriteStaged(d) \/ \E w \in BOOLEAN : DeciderDies(d, w)
        PROVE  ProposalsTypeOK'
    <2>1. /\ decider' = [decider EXCEPT ![d] = AtRest]
          /\ staged' \subseteq staged \cup decider[d].lines
          /\ torn' \subseteq torn \cup {Emptied, decider[d].id}
          /\ casualties' \in 0..MaxDeaths
          /\ UNCHANGED <<wish, batch, archived, cooled, cycle, appended, entangled>>
      BY <1>6, ProposalsAssumption DEF RewriteStaged, DeciderDies, ProposalsTypeOK, ProposalsAssumption
    <2>2. decider' \in [Deciders -> [at : {"rest", "read", "copied"}, id : Ids \cup {0},
                                     lines : SUBSET appended]]
      BY <2>1 DEF ProposalsTypeOK, AtRest
    <2>3. \A e \in Moving' : e \in Moving /\ decider'[e] = decider[e]
      BY <2>1 DEF Moving, ProposalsTypeOK, AtRest
    <2>4. decider[d].lines \subseteq appended /\ decider[d].id \in Ids \cup {0}
      BY DEF ProposalsTypeOK
    <2>5. QED
      BY <2>1, <2>2, <2>3, <2>4 DEF ProposalsTypeOK, Ids, Moving, Emptied
  <1>7. ASSUME NEW p \in Ids, CooldownEnds(p)
        PROVE  ProposalsTypeOK'
    BY <1>7 DEF CooldownEnds, ProposalsTypeOK, Ids, Moving
  <1>8. CASE UNCHANGED proposalsVars
    BY <1>8 DEF proposalsVars, ProposalsTypeOK, Ids, Moving
  <1>9. \A v, w \in Wishes : <<v>> \in Seq(Wishes) /\ <<v, w>> \in Seq(Wishes)
    OBVIOUS
  <1>10. QED
    BY <1>1, <1>2, <1>3, <1>4, <1>5, <1>6, <1>7, <1>8, <1>9 DEF ProposalsNext

\* A new cycle: none of its wishes is staged and warm.
LEMMA BeginKeepsOrder ==
    ASSUME ProposalsTypeOK, InOrder, NEW new \in Seq(Wishes), BeginCycle(new)
    PROVE  InOrder'
  <1>1. /\ UNCHANGED <<staged, archived, cooled, decider, casualties, appended, entangled, torn>>
        /\ cycle.todo = {} /\ \A i \in DOMAIN new : ~Recent(new[i])
    BY DEF BeginCycle, NoCycle
  <1>2. Moving' = Moving
    BY <1>1 DEF Moving
  <1>3. staged \subseteq Ids /\ Ids \subseteq Nat /\ entangled \subseteq Ids
        /\ \A d \in Moving : decider[d].lines \subseteq Ids
    <2>1. Ids \subseteq Nat
      BY DEF Ids
    <2>2. appended \subseteq Ids /\ staged \cup entangled \subseteq appended
      BY DEF ProposalsTypeOK
    <2>3. \A d \in Deciders : decider[d].lines \subseteq appended
      BY DEF ProposalsTypeOK
    <2>4. QED
      BY <2>1, <2>2, <2>3 DEF Moving
  <1>4. ReadsAgree'
    <2> SUFFICES ASSUME NEW d \in Moving, NEW p \in Ids' \ entangled
                 PROVE  p \in staged <=> p \in decider[d].lines
      BY <1>1, <1>2 DEF ReadsAgree
    <2>1. CASE p \in Ids
      BY <2>1 DEF InOrder, ReadsAgree
    <2>2. CASE p \notin Ids
      BY <1>3, <2>2
    <2>3. QED
      BY <2>1, <2>2
  <1>5. OncePerWish'
    <2> SUFFICES ASSUME NEW p \in AtHand', NEW q \in AtHand', p < q, wish'[p] = wish'[q]
                 PROVE  batch'[p] = batch'[q]
      BY DEF OncePerWish
    <2>1. \A r \in AtHand' : r \in staged \ (cooled \cup entangled) \/ r \in cycle'.todo
      BY <1>1 DEF AtHand
    <2>2. \A r \in staged \ (cooled \cup entangled) : r \in AtHand /\ r \in Ids
      BY <1>3 DEF AtHand
    <2>3. \A r \in Ids : wish'[r] = wish[r] /\ batch'[r] = batch[r]
      BY CycleNumbers
    <2>4. \A r \in cycle'.todo : /\ r \in Ids' \ Ids
                                 /\ r - Len(wish) \in DOMAIN new
                                 /\ wish'[r] = new[r - Len(wish)]
                                 /\ batch'[r] = Len(wish) + 1
      BY CycleNumbers
    <2>5. CASE p \in staged \ (cooled \cup entangled) /\ q \in staged \ (cooled \cup entangled)
      BY <2>2, <2>3, <2>5 DEF InOrder, OncePerWish
    <2>6. CASE p \in staged \ (cooled \cup entangled) /\ q \in cycle'.todo
      BY <1>1, <2>2, <2>3, <2>4, <2>6 DEF Recent
    <2>7. CASE p \in cycle'.todo /\ q \in staged \ (cooled \cup entangled)
      <3>1. p \in Nat /\ p > Len(wish) /\ q <= Len(wish) /\ q \in Nat /\ Len(wish) \in Nat
        BY <1>3, <2>2, <2>4, <2>7, LenProperties DEF Ids, ProposalsTypeOK
      <3>2. QED
        BY <3>1
    <2>8. CASE p \in cycle'.todo /\ q \in cycle'.todo
      BY <2>4, <2>8
    <2>9. QED
      BY <2>1, <2>5, <2>6, <2>7, <2>8
  <1>6. QED
    BY <1>1, <1>2, <1>4, <1>5 DEF InOrder, MovesEntangle, CopiedFirst, SavedIsKept, DecidedLeaves

\* What is appended while somebody moves is entangled, as his rewrite may drop it.
LEMMA SaveKeepsOrder ==
    ASSUME ProposalsTypeOK, InOrder, SaveProposal
    PROVE  InOrder'
  <1>1. PICK p \in cycle.todo :
            /\ staged' = staged \cup {p} /\ appended' = appended \cup {p}
            /\ entangled' = IF Moving # {} THEN entangled \cup {p} ELSE entangled
            /\ cycle'.todo \subseteq cycle.todo
    <2>1. PICK p \in cycle.todo :
              /\ staged' = staged \cup {p} /\ appended' = appended \cup {p}
              /\ entangled' = IF Moving # {} THEN entangled \cup {p} ELSE entangled
              /\ cycle' = IF cycle.todo = {p} THEN NoCycle ELSE [cycle EXCEPT !.todo = @ \ {p}]
      BY DEF SaveProposal
    <2>2. cycle'.todo \subseteq cycle.todo
      BY <2>1 DEF NoCycle, ProposalsTypeOK
    <2>3. QED
      BY <2>1, <2>2
  <1>2. UNCHANGED <<wish, batch, archived, cooled, decider, casualties, torn>>
    BY DEF SaveProposal
  <1>3. p \in Ids /\ p \notin appended /\ p \notin archived /\ entangled \subseteq entangled'
    BY <1>1 DEF ProposalsTypeOK
  <1>4. Moving' = Moving /\ Ids' = Ids
    BY <1>2 DEF Moving, Ids
  <1>5. ReadsAgree' /\ MovesEntangle' /\ CopiedFirst'
    BY <1>1, <1>2, <1>3, <1>4 DEF InOrder, ReadsAgree, MovesEntangle, CopiedFirst
  <1>6. SavedIsKept' /\ DecidedLeaves'
    BY <1>1, <1>2, <1>3 DEF InOrder, SavedIsKept, DecidedLeaves
  <1>7. AtHand' \subseteq AtHand
    BY <1>1, <1>2, <1>3 DEF AtHand
  <1>8. OncePerWish'
    BY <1>2, <1>7 DEF InOrder, OncePerWish
  <1>9. QED
    BY <1>5, <1>6, <1>8 DEF InOrder

LEMMA ReadKeepsOrder ==
    ASSUME ProposalsTypeOK, InOrder, NEW d \in Deciders, NEW p \in Ids, ReadStaged(d, p)
    PROVE  InOrder'
  <1>1. /\ decider' = [decider EXCEPT ![d] = [at |-> "read", id |-> p, lines |-> staged]]
        /\ entangled' = IF Moving = {} THEN entangled
                        ELSE entangled \cup {p} \cup {decider[e].id : e \in Moving}
        /\ UNCHANGED <<wish, batch, staged, archived, cooled, cycle, casualties, appended, torn>>
        /\ d \notin Moving
    BY DEF ReadStaged, Moving, AtRest
  <1>2. /\ \A e \in Deciders : decider'[e] = IF e = d THEN [at |-> "read", id |-> p, lines |-> staged]
                                             ELSE decider[e]
        /\ Moving' = Moving \cup {d} /\ entangled \subseteq entangled' /\ Ids' = Ids
    BY <1>1 DEF ProposalsTypeOK, Moving, Ids
  <1>3. ReadsAgree'
    BY <1>1, <1>2 DEF InOrder, ReadsAgree, Moving
  <1>4. MovesEntangle'
    <2> SUFFICES ASSUME NEW e \in Moving', NEW f \in Moving', e # f
                 PROVE  decider'[e].id \in entangled'
      BY DEF MovesEntangle
    <2>1. CASE Moving = {}
      BY <1>2, <2>1
    <2>2. CASE Moving # {}
      BY <1>1, <1>2, <2>2 DEF Moving
    <2>3. QED
      BY <2>1, <2>2
  <1>5. CopiedFirst' /\ SavedIsKept'
    BY <1>1, <1>2 DEF InOrder, CopiedFirst, SavedIsKept
  <1>6. DecidedLeaves'
    <2> SUFFICES ASSUME NEW q \in (archived \cap staged) \ (entangled \cup torn)
                 PROVE  \E e \in Deciders : decider'[e].at = "copied" /\ decider'[e].id = q
      BY <1>1, <1>2 DEF DecidedLeaves
    <2>1. PICK e \in Deciders : decider[e].at = "copied" /\ decider[e].id = q
      BY DEF InOrder, DecidedLeaves
    <2>2. e # d
      BY <1>1, <2>1 DEF Moving
    <2>3. QED
      BY <1>2, <2>1, <2>2
  <1>7. OncePerWish'
    BY <1>1, <1>2 DEF InOrder, OncePerWish, AtHand
  <1>8. QED
    BY <1>3, <1>4, <1>5, <1>6, <1>7 DEF InOrder

LEMMA CopyKeepsOrder ==
    ASSUME ProposalsTypeOK, InOrder, NEW d \in Deciders, CopyLine(d)
    PROVE  InOrder'
  <1>1. /\ decider' = [decider EXCEPT ![d].at = "copied"] /\ decider[d].at = "read"
        /\ archived' = archived \cup {decider[d].id}
        /\ UNCHANGED <<wish, batch, staged, cooled, cycle, casualties, appended, entangled, torn>>
    BY DEF CopyLine
  <1>2. /\ \A e \in Deciders : /\ decider'[e].id = decider[e].id /\ decider'[e].lines = decider[e].lines
                               /\ decider'[e].at = IF e = d THEN "copied" ELSE decider[e].at
        /\ Moving' = Moving /\ Ids' = Ids
    BY <1>1 DEF ProposalsTypeOK, Moving, Ids
  <1>3. ReadsAgree' /\ MovesEntangle' /\ CopiedFirst'
    BY <1>1, <1>2 DEF InOrder, ReadsAgree, MovesEntangle, CopiedFirst, Moving
  <1>4. SavedIsKept' /\ OncePerWish'
    BY <1>1, <1>2 DEF InOrder, SavedIsKept, OncePerWish, AtHand
  <1>5. DecidedLeaves'
    BY <1>1, <1>2 DEF InOrder, DecidedLeaves
  <1>6. QED
    BY <1>3, <1>4, <1>5 DEF InOrder

\* The end of a move: of what is not entangled it takes away its own alone.
LEMMA RewriteKeepsOrder ==
    ASSUME ProposalsTypeOK, InOrder, NEW d \in Deciders, RewriteStaged(d)
    PROVE  InOrder'
  <1>1. /\ decider' = [decider EXCEPT ![d] = AtRest] /\ decider[d].at = "copied" /\ d \in Moving
        /\ staged' = decider[d].lines \ {decider[d].id}
        /\ UNCHANGED <<wish, batch, archived, cooled, cycle, casualties, appended, entangled, torn>>
    BY DEF RewriteStaged, Moving
  <1>2. /\ \A e \in Deciders : e # d => decider'[e] = decider[e]
        /\ Moving' = Moving \ {d} /\ Ids' = Ids
    BY <1>1 DEF ProposalsTypeOK, Moving, Ids, AtRest
  <1>3. \A p \in Ids \ entangled : p \in staged' <=> p \in staged /\ p # decider[d].id
    BY <1>1 DEF InOrder, ReadsAgree
  <1>4. \A e \in Moving \ {d} : decider[d].id \in entangled /\ decider[e].id \in entangled
    BY <1>1 DEF InOrder, MovesEntangle
  <1>5. staged \subseteq Ids /\ staged' \subseteq Ids /\ appended \subseteq Ids /\ cycle.todo \subseteq Ids
    BY <1>1 DEF ProposalsTypeOK
  <1>6. ReadsAgree' /\ MovesEntangle'
    BY <1>1, <1>2, <1>3, <1>4 DEF InOrder, ReadsAgree, MovesEntangle
  <1>7. CopiedFirst'
    BY <1>1, <1>2 DEF InOrder, CopiedFirst, ProposalsTypeOK, AtRest
  <1>8. SavedIsKept'
    BY <1>1, <1>3, <1>5 DEF InOrder, SavedIsKept, CopiedFirst
  <1>9. DecidedLeaves'
    <2> SUFFICES ASSUME NEW q \in (archived \cap staged') \ (entangled \cup torn)
                 PROVE  \E e \in Deciders : decider'[e].at = "copied" /\ decider'[e].id = q
      BY <1>1 DEF DecidedLeaves
    <2>1. q \in staged /\ q # decider[d].id
      BY <1>3, <1>5
    <2>2. PICK e \in Deciders : decider[e].at = "copied" /\ decider[e].id = q
      BY <2>1 DEF InOrder, DecidedLeaves
    <2>3. e # d
      BY <2>1, <2>2
    <2>4. QED
      BY <1>2, <2>2, <2>3
  <1>10. AtHand' \subseteq AtHand
    BY <1>1, <1>3, <1>5 DEF AtHand
  <1>11. OncePerWish'
    BY <1>1, <1>10 DEF InOrder, OncePerWish
  <1>12. QED
    BY <1>6, <1>7, <1>8, <1>9, <1>11 DEF InOrder

\* A move that is cut between two steps; in the write it empties the file.
LEMMA DeathKeepsOrder ==
    ASSUME ProposalsTypeOK, InOrder, NEW d \in Deciders, DeciderDies(d, FALSE)
    PROVE  InOrder'
  <1>1. /\ decider' = [decider EXCEPT ![d] = AtRest] /\ d \in Moving
        /\ torn' = torn \cup {decider[d].id}
        /\ UNCHANGED <<wish, batch, staged, archived, cooled, cycle, appended, entangled>>
    BY DEF DeciderDies
  <1>2. /\ \A e \in Deciders : e # d => decider'[e] = decider[e]
        /\ Moving' = Moving \ {d} /\ Ids' = Ids
    BY <1>1 DEF ProposalsTypeOK, Moving, Ids, AtRest
  <1>3. ReadsAgree' /\ MovesEntangle'
    BY <1>1, <1>2 DEF InOrder, ReadsAgree, MovesEntangle
  <1>4. CopiedFirst'
    BY <1>1, <1>2 DEF InOrder, CopiedFirst, ProposalsTypeOK, AtRest
  <1>5. SavedIsKept' /\ OncePerWish'
    BY <1>1 DEF InOrder, SavedIsKept, OncePerWish, AtHand
  <1>6. DecidedLeaves'
    BY <1>1, <1>2 DEF InOrder, DecidedLeaves
  <1>7. QED
    BY <1>3, <1>4, <1>5, <1>6 DEF InOrder

LEMMA ProposalsStay == ProposalsInv /\ [ProposalsNext]_proposalsVars => ProposalsInv'
  <1> SUFFICES ASSUME ProposalsInv, [ProposalsNext]_proposalsVars
               PROVE  ProposalsInv'
    OBVIOUS
  <1>1. ProposalsTypeOK /\ ProposalsTypeOK'
    BY ProposalsTypeStep DEF ProposalsInv
  <1> SUFFICES ASSUME Emptied \notin torn'
               PROVE  InOrder'
    BY <1>1 DEF ProposalsInv
  <1>2. torn \subseteq torn'
    BY DEF ProposalsNext, BeginCycle, SaveProposal, CycleDies, ReadStaged, CopyLine, RewriteStaged,
       DeciderDies, CooldownEnds, proposalsVars
  <1>3. InOrder
    BY <1>2 DEF ProposalsInv
  <1>4. ASSUME NEW v \in Wishes, NEW w \in Wishes, BeginCycle(<<v>>) \/ BeginCycle(<<v, w>>)
        PROVE  InOrder'
    <2>1. <<v>> \in Seq(Wishes) /\ <<v, w>> \in Seq(Wishes)
      OBVIOUS
    <2>2. QED
      BY <1>1, <1>3, <1>4, <2>1, BeginKeepsOrder
  <1>5. CASE CycleDies
    <2>1. cycle'.todo = {}
          /\ UNCHANGED <<wish, batch, staged, archived, cooled, decider, appended, entangled, torn>>
      BY <1>5 DEF CycleDies, NoCycle
    <2>2. QED
      BY <1>3, <2>1 DEF InOrder, ReadsAgree, MovesEntangle, CopiedFirst, SavedIsKept, DecidedLeaves,
         OncePerWish, AtHand, Moving, Ids
  <1>6. ASSUME NEW d \in Deciders, NEW writing \in BOOLEAN, DeciderDies(d, writing)
        PROVE  InOrder'
    <2>1. writing = FALSE
      BY <1>6 DEF DeciderDies
    <2>2. DeciderDies(d, FALSE)
      BY <1>6, <2>1
    <2>3. QED
      BY <1>1, <1>3, <2>2, DeathKeepsOrder
  <1>7. ASSUME NEW p \in Ids, CooldownEnds(p)
        PROVE  InOrder'
    BY <1>3, <1>7 DEF CooldownEnds, InOrder, ReadsAgree, MovesEntangle, CopiedFirst, SavedIsKept,
       DecidedLeaves, OncePerWish, AtHand, Moving, Ids
  <1>8. CASE UNCHANGED proposalsVars
    BY <1>3, <1>8 DEF proposalsVars, InOrder, ReadsAgree, MovesEntangle, CopiedFirst, SavedIsKept,
       DecidedLeaves, OncePerWish, AtHand, Moving, Ids
  <1>9. QED
    BY <1>1, <1>3, <1>4, <1>5, <1>6, <1>7, <1>8, SaveKeepsOrder, ReadKeepsOrder, CopyKeepsOrder,
       RewriteKeepsOrder DEF ProposalsNext

LEMMA ProposalsInvKeeps == ProposalsInv => ProposalsHandled
  <1> SUFFICES ASSUME ProposalsInv, Emptied \notin torn
               PROVE  SavedIsKept /\ DecidedLeaves /\ ProposedOnce
    BY DEF ProposalsHandled
  <1>1. InOrder
    BY DEF ProposalsInv
  <1>2. ProposedOnce
    BY <1>1 DEF InOrder, OncePerWish, AtHand, ProposedOnce
  <1>3. QED
    BY <1>1, <1>2 DEF InOrder

\* For any number of wishes, cycles and deciders: what was appended is staged or
\* archived, what was moved is staged no more, and no wish is staged twice within
\* its cooldown, but for what two of them had at hand at once.
THEOREM ProposalsAreHandled == ProposalsSpec => []ProposalsHandled
  BY ProposalsInvKeeps, ProposalsInitially, ProposalsStay, PTL DEF ProposalsSpec

-----------------------------------------------------------------------------
(* The interview: names in files and record, texts in sections and backups. *)

\* Names: what a file spells is what the session has, or what is recorded.
Spelling ==
    cut = {} =>
        \A f \in Files : \A n \in Spells(f) :
            /\ ~At("files") => spelled[f][n] \in {0, recorded[n]}
            /\ At("files") \/ At("names") => spelled[f][n] \in {0, talk.values[n]}
            /\ At("names") /\ n \in talk.ask => spelled[f][n] = 0

\* Sections: a gap that was not populated is so still, if nobody fills one.
GapsOpen ==
    At("slots") \/ At("offered") \/ At("asked") =>
        /\ fills = 0 => \A s \in (talk.gaps \ talk.populated) \cap PlainSlots : body[s] <= Unfilled
        /\ ~At("slots") => talk.slot \in talk.gaps

InterviewInv == InterviewTypeOK /\ Spelling /\ GapsOpen /\ TextsKept /\ AskedBeforeReplaced

LEMMA NoSessionIsOne ==
    /\ NoSession \in Talks /\ NoSession.at = "none"
    /\ NoSession.gaps = {} /\ NoSession.populated = {}
  <1>1. (CHOOSE s \in Slots : TRUE) \in Slots
    BY InterviewAssumption DEF Slots, InterviewAssumption
  <1>2. [n \in Names |-> 0] \in [Names -> 0..MaxNames]
    BY InterviewAssumption DEF InterviewAssumption
  <1>3. QED
    BY <1>1, <1>2 DEF NoSession, Talks

LEMMA InterviewInitially == InterviewInit => InterviewInv
  <1> SUFFICES ASSUME InterviewInit
               PROVE  InterviewInv
    OBVIOUS
  <1> USE InterviewAssumption DEF InterviewAssumption
  <1>1. talk \in Talks /\ At("none")
    BY NoSessionIsOne DEF InterviewInit, At
  <1>2. /\ spelled \in [Files -> [Names -> 0..MaxNames]] /\ recorded \in [Names -> 0..MaxNames]
        /\ body \in [Slots -> 0..(MaxTexts + 1)] /\ texts \in 0..MaxTexts
        /\ kills \in 0..MaxKills /\ fills \in 0..MaxKills
    BY DEF InterviewInit, Unfilled, NoSection
  <1>3. InterviewTypeOK
    BY <1>1, <1>2 DEF InterviewTypeOK, InterviewInit
  <1>4. Spelling
    BY <1>1 DEF Spelling, InterviewInit, At, Spells, Names
  <1>5. GapsOpen /\ TextsKept /\ AskedBeforeReplaced
    BY <1>1 DEF GapsOpen, TextsKept, AskedBeforeReplaced, InterviewInit, At
  <1>6. QED
    BY <1>3, <1>4, <1>5 DEF InterviewInv

\* Whatever a step does to the session it leaves a session.
LEMMA SessionStays ==
    ASSUME InterviewTypeOK, InterviewNext
    PROVE  talk' \in Talks
  <1> USE DEF InterviewTypeOK
  <1>1. ASSUME NEW every \in BOOLEAN, BeginInterview(every)
        PROVE  talk' \in Talks
    <2>1. {f \in Files : \E n \in Spells(f) : spelled[f][n] = 0} \in SUBSET Files
      OBVIOUS
    <2>2. UNION {OpenNames(f) : f \in Files} \in SUBSET Names
      BY DEF OpenNames, Spells, Names
    <2>3. QED
      BY <1>1, <2>1, <2>2, NoSessionIsOne DEF BeginInterview, Talks
  <1>2. ASSUME NEW n \in Names, NEW v \in 1..MaxNames, AnswerName(n, v)
        PROVE  talk' \in Talks
    <2>1. [talk.values EXCEPT ![n] = v] \in [Names -> 0..MaxNames]
      BY InterviewAssumption DEF Talks, InterviewAssumption
    <2>2. QED
      BY <1>2, <2>1 DEF AnswerName, Talks
  <1>3. CASE NamesAsked \/ SaveNames \/ Replace
    BY <1>3 DEF NamesAsked, SaveNames, Replace, Talks
  <1>4. CASE FindGaps \/ \E s \in Slots : FindOne(s)
    <2>1. \A s \in Slots : {s} \in SUBSET Slots /\ {} \in SUBSET Slots
      OBVIOUS
    <2>2. CASE FindGaps
      <3> DEFINE full == {s \in Slots : Populated(s)}
                 gaps == IF talk.every THEN Slots ELSE Slots \ full
      <3>1. gaps \in SUBSET Slots /\ gaps \cap full \in SUBSET Slots
        OBVIOUS
      <3>2. talk' = IF gaps = {} THEN NoSession
                    ELSE [NoSession EXCEPT !.at = "slots", !.gaps = gaps, !.populated = gaps \cap full]
        BY <2>2 DEF FindGaps
      <3> HIDE DEF gaps, full
      <3>3. QED
        BY <3>1, <3>2, NoSessionIsOne DEF Talks
    <2>3. ASSUME NEW s \in Slots, FindOne(s)
          PROVE  talk' \in Talks
      <3>1. (IF Populated(s) THEN {s} ELSE {}) \in SUBSET Slots
        BY <2>1
      <3>2. QED
        BY <2>1, <2>3, <3>1, NoSessionIsOne DEF FindOne, Talks
    <2>4. QED
      BY <1>4, <2>2, <2>3
  <1>5. ASSUME NEW s \in Slots, TurnTo(s)
        PROVE  talk' \in Talks
    BY <1>5 DEF TurnTo, Talks
  <1>6. Rest(talk.slot) \in Talks
    <2>1. [talk EXCEPT !.at = "slots", !.gaps = @ \ {talk.slot}] \in Talks
      BY DEF Talks
    <2>2. QED
      BY <2>1, NoSessionIsOne DEF Rest
  <1>7. CASE LeaveSlot \/ SpliceFails \/ Splice(Unfilled) \/ Splice(NewText)
    BY <1>6, <1>7 DEF LeaveSlot, SpliceFails, Splice
  <1>8. ASSUME NEW f \in Files, RewriteFile(f) \/ KilledWriting(f) \/ Killed
        PROVE  talk' \in Talks
    <2>1. CASE RewriteFile(f)
      BY <2>1 DEF RewriteFile, Talks
    <2>2. CASE KilledWriting(f) \/ Killed
      BY <2>2, NoSessionIsOne DEF KilledWriting, Killed
    <2>3. QED
      BY <1>8, <2>1, <2>2
  <1>9. ASSUME NEW n \in Names, NEW s \in Slots, BrainRecords(n) \/ BrainFills(s)
        PROVE  talk' \in Talks
    BY <1>9 DEF BrainRecords, BrainFills
  <1>10. Files # {} /\ Names # {} /\ Slots # {}
    BY InterviewAssumption DEF Files, Names, Slots, InterviewAssumption
  <1>11. QED
    BY <1>1, <1>2, <1>3, <1>4, <1>5, <1>7, <1>8, <1>9, <1>10 DEF InterviewNext

LEMMA InterviewTypeStep == InterviewTypeOK /\ InterviewNext => InterviewTypeOK'
  <1> SUFFICES ASSUME InterviewTypeOK, InterviewNext
               PROVE  InterviewTypeOK'
    OBVIOUS
  <1> USE InterviewAssumption DEF InterviewAssumption
  <1>1. spelled' \in [Files -> [Names -> 0..MaxNames]]
    <2>1. \A f \in Files : Bound(f) \in [Names -> 0..MaxNames]
      BY DEF Bound, InterviewTypeOK, Talks
    <2>2. [n \in Names |-> 1] \in [Names -> 0..MaxNames]
      OBVIOUS
    <2>3. \/ UNCHANGED spelled
          \/ \E f \in Files : \E g \in [Names -> 0..MaxNames] : spelled' = [spelled EXCEPT ![f] = g]
      BY <2>1, <2>2 DEF InterviewNext, BeginInterview, AnswerName, NamesAsked, SaveNames, FindGaps, Replace,
         LeaveSlot, SpliceFails, Killed, RewriteFile, KilledWriting, BrainRecords, FindOne, TurnTo, BrainFills, Splice
    <2>4. QED
      BY <2>3 DEF InterviewTypeOK
  <1>2. recorded' \in [Names -> 0..MaxNames]
    <2>1. talk.values \in [Names -> 0..MaxNames]
      BY DEF InterviewTypeOK, Talks
    <2>2. \/ UNCHANGED recorded \/ recorded' = talk.values
          \/ \E n \in Names : recorded' = [recorded EXCEPT ![n] = MaxNames]
      BY DEF InterviewNext, BeginInterview, AnswerName, NamesAsked, SaveNames, FindGaps, Replace,
         LeaveSlot, SpliceFails, Killed, RewriteFile, KilledWriting, BrainRecords, FindOne, TurnTo, BrainFills, Splice
    <2>3. QED
      BY <2>1, <2>2 DEF InterviewTypeOK
  <1>3. /\ texts' \in 0..MaxTexts /\ kills' \in 0..MaxKills /\ fills' \in 0..MaxKills
    <2>1. /\ UNCHANGED texts \/ (texts < MaxTexts /\ texts' = texts + 1)
          /\ UNCHANGED kills \/ (kills < MaxKills /\ kills' = kills + 1)
          /\ UNCHANGED fills \/ (fills < MaxKills /\ fills' = fills + 1)
      BY DEF InterviewNext, BeginInterview, AnswerName, NamesAsked, SaveNames, FindGaps, Replace,
         LeaveSlot, SpliceFails, Killed, RewriteFile, KilledWriting, BrainRecords, FindOne, TurnTo, BrainFills, Splice
    <2>2. QED
      BY <2>1 DEF InterviewTypeOK
  <1>4. body' \in [Slots -> 0..(MaxTexts + 1)]
    <2>1. Unfilled \in 0..(MaxTexts + 1) /\ NoSection \in 0..(MaxTexts + 1)
          /\ (texts < MaxTexts => NewText \in 0..(MaxTexts + 1))
      BY DEF Unfilled, NoSection, NewText, InterviewTypeOK
    <2>2. \/ UNCHANGED body
          \/ \E s \in Slots, t \in 0..(MaxTexts + 1) : body' = [body EXCEPT ![s] = t]
          \/ \E f \in Files : body' = [s \in Slots |-> IF FileOf(s) = f THEN NoSection ELSE body[s]]
      <3>1. talk.slot \in Slots
        BY DEF InterviewTypeOK, Talks
      <3>2. QED
        BY <2>1, <3>1 DEF InterviewNext, BeginInterview, AnswerName, NamesAsked, SaveNames, FindGaps, Replace,
         LeaveSlot, SpliceFails, Killed, RewriteFile, KilledWriting, BrainRecords, FindOne, TurnTo, BrainFills, Splice
    <2>3. QED
      BY <2>1, <2>2 DEF InterviewTypeOK
  <1>5. backups' \subseteq 2..(MaxTexts + 1)
    <2>1. \A f \in Files : TextsOf(f) \subseteq 2..(MaxTexts + 1)
      BY DEF TextsOf, InterviewTypeOK, Unfilled
    <2>2. UNCHANGED backups \/ backups' = backups \cup TextsOf("l1")
      BY DEF InterviewNext, BeginInterview, AnswerName, NamesAsked, SaveNames, FindGaps, Replace,
         LeaveSlot, SpliceFails, Killed, RewriteFile, KilledWriting, BrainRecords, FindOne, TurnTo, BrainFills, Splice
    <2>3. QED
      BY <2>1, <2>2 DEF InterviewTypeOK, Files
  <1>6. cut' \subseteq Files \cup {"record"}
    BY DEF InterviewTypeOK, InterviewNext, BeginInterview, AnswerName, NamesAsked, SaveNames, FindGaps, Replace,
         LeaveSlot, SpliceFails, Killed, RewriteFile, KilledWriting, BrainRecords, FindOne, TurnTo, BrainFills, Splice
  <1>7. overwritten' \subseteq [text : 2..(MaxTexts + 1), how : {"agreed", "unseen"}]
    <2>1. \/ UNCHANGED overwritten
          \/ \E s \in Slots, h \in {"agreed", "unseen"} :
                /\ body[s] > Unfilled
                /\ overwritten' = overwritten \cup {[text |-> body[s], how |-> h]}
      <3>1. CASE Splice(Unfilled) \/ Splice(NewText)
        <4>1. talk.slot \in Slots /\ (body[talk.slot] <= Unfilled \/ body[talk.slot] > Unfilled)
          BY DEF InterviewTypeOK, Talks, Unfilled
        <4>2. QED
          BY <3>1, <4>1 DEF Splice
      <3>2. CASE ~(Splice(Unfilled) \/ Splice(NewText))
        BY <3>2 DEF InterviewNext, BeginInterview, AnswerName, NamesAsked, SaveNames, FindGaps, Replace,
         LeaveSlot, SpliceFails, Killed, RewriteFile, KilledWriting, BrainRecords, FindOne, TurnTo, BrainFills
      <3>3. QED
        BY <3>1, <3>2
    <2>2. \A s \in Slots : body[s] > Unfilled => body[s] \in 2..(MaxTexts + 1)
      BY DEF InterviewTypeOK, Unfilled
    <2>3. QED
      BY <2>1, <2>2 DEF InterviewTypeOK
  <1>8. QED
    BY <1>1, <1>2, <1>3, <1>4, <1>5, <1>6, <1>7, SessionStays DEF InterviewTypeOK

\* Steps from one section to the next leave the names alone.
Sectioning ==
    \/ FindGaps \/ Replace \/ LeaveSlot \/ SpliceFails \/ Splice(Unfilled) \/ Splice(NewText)
    \/ \E s \in Slots : FindOne(s) \/ TurnTo(s)

LEMMA SectionsAlone ==
    ASSUME InterviewTypeOK, Sectioning
    PROVE  /\ UNCHANGED <<spelled, recorded, kills, fills, cut>>
           /\ ~At("names") /\ ~At("files") /\ ~At("names")' /\ ~At("files")'
  <1>1. ASSUME NEW d \in Slots
        PROVE  ~At("names") /\ ~At("files") /\ talk \in Talks =>
                 Rest(d).at \notin {"names", "files"}
    BY NoSessionIsOne DEF Rest, Talks, At
  <1>2. talk \in Talks /\ talk.slot \in Slots
    BY DEF InterviewTypeOK, Talks
  <1>3. CASE LeaveSlot \/ SpliceFails \/ Splice(Unfilled) \/ Splice(NewText)
    BY <1>1, <1>2, <1>3 DEF LeaveSlot, SpliceFails, Splice, At
  <1>4. CASE Replace \/ \E s \in Slots : TurnTo(s)
    BY <1>2, <1>4 DEF Replace, TurnTo, At, Talks
  <1>5. CASE FindGaps \/ \E s \in Slots : FindOne(s)
    BY <1>5, NoSessionIsOne DEF FindGaps, FindOne, At, Talks
  <1>6. QED
    BY <1>3, <1>4, <1>5 DEF Sectioning

LEMMA SpellingStep ==
    ASSUME InterviewTypeOK, InterviewNext, Spelling
    PROVE  Spelling'
  <1> SUFFICES ASSUME cut' = {}, NEW f \in Files, NEW n \in Spells(f)
               PROVE  /\ ~At("files")' => spelled'[f][n] \in {0, recorded'[n]}
                      /\ At("files")' \/ At("names")' => spelled'[f][n] \in {0, talk'.values[n]}
                      /\ At("names")' /\ n \in talk'.ask => spelled'[f][n] = 0
    BY DEF Spelling, At
  <1> DEFINE Goal == /\ ~At("files")' => spelled'[f][n] \in {0, recorded'[n]}
                     /\ At("files")' \/ At("names")' => spelled'[f][n] \in {0, talk'.values[n]}
                     /\ At("names")' /\ n \in talk'.ask => spelled'[f][n] = 0
  <1>1. talk \in Talks /\ recorded \in [Names -> 0..MaxNames] /\ n \in Names
        /\ spelled \in [Files -> [Names -> 0..MaxNames]]
    BY DEF InterviewTypeOK, Spells, Names
  <1>2. cut = {} => /\ ~At("files") => spelled[f][n] \in {0, recorded[n]}
                    /\ At("files") \/ At("names") => spelled[f][n] \in {0, talk.values[n]}
                    /\ At("names") /\ n \in talk.ask => spelled[f][n] = 0
    BY DEF Spelling
  <1>3. ASSUME NEW every \in BOOLEAN, BeginInterview(every)
        PROVE  Goal
    <2>1. /\ At("none") /\ UNCHANGED <<spelled, recorded, cut>>
          /\ talk'.values = recorded /\ talk'.at = "names"
          /\ talk'.ask = UNION {OpenNames(g) : g \in Files}
      BY <1>3, NoSessionIsOne DEF BeginInterview, Talks
    <2>2. n \in talk'.ask => recorded[n] = 0
      BY <2>1 DEF OpenNames
    <2>3. QED
      BY <1>2, <2>1, <2>2 DEF At
  <1>4. ASSUME NEW m \in Names, NEW v \in 1..MaxNames, AnswerName(m, v)
        PROVE  Goal
    <2>1. /\ UNCHANGED <<spelled, recorded, cut>> /\ At("names") /\ At("names")'
          /\ m \in talk.ask /\ talk'.ask = talk.ask \ {m}
          /\ n # m => talk'.values[n] = talk.values[n]
      BY <1>1, <1>4 DEF AnswerName, Talks, At
    <2>2. ~At("files") /\ cut = {} /\ spelled'[f][n] = spelled[f][n] /\ recorded'[n] = recorded[n]
      BY <2>1 DEF At
    <2>3. CASE n = m
      BY <1>2, <2>1, <2>2, <2>3
    <2>4. CASE n # m
      BY <1>2, <2>1, <2>2, <2>4
    <2>5. QED
      BY <2>3, <2>4
  <1>5. CASE NamesAsked
    <2>1. /\ UNCHANGED <<spelled, recorded, cut>> /\ At("names") /\ ~At("names")'
          /\ talk'.values = talk.values
      BY <1>1, <1>5 DEF NamesAsked, Talks, At
    <2>2. ~At("files") /\ cut = {} /\ spelled'[f][n] = spelled[f][n] /\ recorded'[n] = recorded[n]
      BY <2>1 DEF At
    <2>3. QED
      BY <1>2, <2>1, <2>2
  <1>6. CASE SaveNames
    BY <1>1, <1>2, <1>6 DEF SaveNames, Talks, At
  <1>7. ASSUME NEW g \in Files, RewriteFile(g)
        PROVE  Goal
    <2>1. /\ UNCHANGED <<recorded, cut>> /\ At("files") /\ At("files")'
          /\ talk'.values = talk.values /\ spelled'[f][n] \in {spelled[f][n], talk.values[n]}
      BY <1>1, <1>7 DEF RewriteFile, Bound, Talks, At
    <2>2. QED
      BY <1>2, <2>1 DEF At
  <1>8. ASSUME NEW g \in Files, KilledWriting(g)
        PROVE  Goal
    BY <1>8 DEF KilledWriting
  <1>9. CASE Killed
    <2>1. /\ UNCHANGED <<spelled, recorded>> /\ talk'.at = "none" /\ cut = {}
          /\ At("files") => recorded = talk.values
      BY <1>9, NoSessionIsOne DEF Killed
    <2>2. QED
      BY <1>2, <2>1 DEF At
  <1>10. ASSUME NEW m \in Names, BrainRecords(m)
         PROVE  Goal
    <2>1. /\ UNCHANGED <<spelled, talk, cut>> /\ recorded[m] = 0
          /\ n # m => recorded'[n] = recorded[n]
      BY <1>1, <1>10 DEF BrainRecords
    <2>2. QED
      BY <1>2, <2>1 DEF At
  <1>11. ASSUME NEW s \in Slots, BrainFills(s)
         PROVE  Goal
    BY <1>2, <1>11 DEF BrainFills, At
  <1>12. CASE Sectioning
    BY <1>2, <1>12, SectionsAlone DEF At
  <1>13. QED
    BY <1>3, <1>4, <1>5, <1>6, <1>7, <1>8, <1>9, <1>10, <1>11, <1>12 DEF InterviewNext, Sectioning

\* A session that goes on has the rest of its gaps, in the same state or filled by
\* the splice of the section it leaves.
LEMMA RestOfGaps ==
    ASSUME InterviewTypeOK, GapsOpen, At("offered") \/ At("asked"), talk' = Rest(talk.slot),
           UNCHANGED fills, \A s \in Slots : s # talk.slot => body'[s] = body[s]
    PROVE  GapsOpen'
  <1>1. talk \in Talks
    BY DEF InterviewTypeOK
  <1>2. CASE talk' = NoSession
    BY <1>2, NoSessionIsOne DEF GapsOpen, At
  <1>3. CASE talk' # NoSession
    <2>1. talk' = [talk EXCEPT !.at = "slots", !.gaps = @ \ {talk.slot}]
      BY <1>3 DEF Rest
    <2>2. talk'.at = "slots" /\ talk'.gaps = talk.gaps \ {talk.slot} /\ talk'.populated = talk.populated
      BY <1>1, <2>1 DEF Talks
    <2>3. fills = 0 => \A s \in (talk.gaps \ talk.populated) \cap PlainSlots : body[s] <= Unfilled
      BY DEF GapsOpen
    <2>4. QED
      BY <2>2, <2>3 DEF GapsOpen, At, Slots
  <1>4. QED
    BY <1>2, <1>3

LEMMA GapsStep ==
    ASSUME InterviewTypeOK, InterviewNext, GapsOpen
    PROVE  GapsOpen'
  <1> DEFINE InSlots == At("slots") \/ At("offered") \/ At("asked")
  <1>1. talk \in Talks /\ fills \in Nat /\ body \in [Slots -> 0..(MaxTexts + 1)]
    BY InterviewAssumption DEF InterviewTypeOK, InterviewAssumption
  <1>2. ASSUME NEW every \in BOOLEAN, BeginInterview(every)
        PROVE  GapsOpen'
    <2>1. talk'.at = "names"
      BY <1>2, NoSessionIsOne DEF BeginInterview, Talks
    <2>2. QED
      BY <2>1 DEF GapsOpen, At
  <1>3. ASSUME NEW m \in Names, NEW v \in 1..MaxNames, AnswerName(m, v)
        PROVE  GapsOpen'
    <2>1. talk'.at = "names"
      BY <1>1, <1>3 DEF AnswerName, Talks, At
    <2>2. QED
      BY <2>1 DEF GapsOpen, At
  <1>4. CASE NamesAsked \/ SaveNames \/ \E f \in Files : RewriteFile(f)
    <2>1. talk'.at \in {"files", "gaps"}
      BY <1>1, <1>4 DEF NamesAsked, SaveNames, RewriteFile, Talks, At
    <2>2. QED
      BY <2>1 DEF GapsOpen, At
  <1>5. CASE Killed \/ \E f \in Files : KilledWriting(f)
    BY <1>5, NoSessionIsOne DEF Killed, KilledWriting, GapsOpen, At
  <1>6. CASE FindGaps
    <2> DEFINE full == {s \in Slots : Populated(s)}
               gaps == IF talk.every THEN Slots ELSE Slots \ full
    <2>1. talk' = IF gaps = {} THEN NoSession
                  ELSE [NoSession EXCEPT !.at = "slots", !.gaps = gaps, !.populated = gaps \cap full]
      BY <1>6 DEF FindGaps
    <2>2. \A s \in (gaps \ full) \cap PlainSlots : body[s] <= Unfilled
      BY <1>1 DEF Populated, State, Resolved, Unfilled
    <2> HIDE DEF gaps, full
    <2>3. CASE gaps # {}
      <3>1. talk'.at = "slots" /\ talk'.gaps = gaps /\ talk'.populated = gaps \cap full
        BY <2>1, <2>3, NoSessionIsOne DEF Talks
      <3>2. UNCHANGED body
        BY <1>6 DEF FindGaps
      <3>3. QED
        BY <2>2, <3>1, <3>2 DEF GapsOpen, At
    <2>4. CASE gaps = {}
      BY <2>1, <2>4, NoSessionIsOne DEF GapsOpen, At
    <2>5. QED
      BY <2>3, <2>4
  <1>7. ASSUME NEW s \in Slots, FindOne(s)
        PROVE  GapsOpen'
    <2>1. /\ talk'.at = "slots" /\ talk'.gaps = {s} /\ UNCHANGED body
          /\ talk'.populated = IF Populated(s) THEN {s} ELSE {}
      BY <1>7, NoSessionIsOne DEF FindOne, Talks
    <2>2. s \in PlainSlots /\ ~Populated(s) => body[s] <= Unfilled
      BY <1>1 DEF Populated, State, Resolved, Unfilled
    <2>3. QED
      BY <2>1, <2>2 DEF GapsOpen, At
  <1>8. ASSUME NEW s \in Slots, TurnTo(s)
        PROVE  GapsOpen'
    <2>1. /\ At("slots") /\ s \in talk.gaps /\ talk'.slot = s /\ talk'.gaps = talk.gaps
          /\ talk'.populated = talk.populated /\ UNCHANGED <<body, fills>>
      BY <1>1, <1>8 DEF TurnTo, Talks
    <2>2. QED
      BY <2>1 DEF GapsOpen, At
  <1>9. CASE Replace
    <2>1. /\ At("offered") /\ talk'.slot = talk.slot /\ talk'.gaps = talk.gaps
          /\ talk'.populated = talk.populated /\ UNCHANGED <<body, fills>>
      BY <1>1, <1>9 DEF Replace, Talks
    <2>2. QED
      BY <2>1 DEF GapsOpen, At
  <1>10. CASE LeaveSlot \/ SpliceFails
    BY <1>10, RestOfGaps DEF LeaveSlot, SpliceFails
  <1>11. ASSUME NEW t, Splice(t)
         PROVE  GapsOpen'
    <2>1. \A s \in Slots : s # talk.slot => body'[s] = body[s]
      BY <1>1, <1>11 DEF Splice
    <2>2. QED
      BY <1>11, <2>1, RestOfGaps DEF Splice
  <1>12. ASSUME NEW s \in Slots, BrainFills(s)
         PROVE  GapsOpen'
    BY <1>1, <1>12 DEF BrainFills, GapsOpen, At
  <1>13. ASSUME NEW n \in Names, BrainRecords(n)
         PROVE  GapsOpen'
    BY <1>1, <1>13 DEF BrainRecords, GapsOpen, At
  <1>14. QED
    BY <1>2, <1>3, <1>4, <1>5, <1>6, <1>7, <1>8, <1>9, <1>10, <1>11, <1>12, <1>13 DEF InterviewNext

\* A section goes from one text to another only through a backup.
LEMMA TextsStep ==
    ASSUME InterviewTypeOK, InterviewNext, TextsKept
    PROVE  TextsKept'
  <1> SUFFICES ASSUME cut' \cap Files = {}, NEW t \in 2..(texts' + 1)
               PROVE  t \in backups' \/ \E s \in Slots : body'[s] = t
    BY DEF TextsKept
  <1>1. /\ texts \in Nat /\ body \in [Slots -> 0..(MaxTexts + 1)]
        /\ talk \in Talks /\ talk.slot \in Slots
    BY InterviewAssumption DEF InterviewTypeOK, InterviewAssumption, Talks
  <1>2. cut \cap Files = {} /\ t \in 2..(texts + 1) => t \in backups \/ \E s \in Slots : body[s] = t
    BY DEF TextsKept
  <1>3. ASSUME NEW v \in {Unfilled, NewText}, Splice(v)
        PROVE  t \in backups' \/ \E s \in Slots : body'[s] = t
    <2>1. /\ talk.slot \in PlainSlots /\ UNCHANGED cut /\ body' = [body EXCEPT ![talk.slot] = v]
          /\ backups' = IF body[talk.slot] = v THEN backups ELSE backups \cup TextsOf("l1")
          /\ texts' = IF v = Unfilled THEN texts ELSE texts + 1
      BY <1>3 DEF Splice
    <2>2. CASE t = texts + 2
      BY <1>1, <2>1, <2>2 DEF NewText
    <2>3. CASE t # texts + 2
      <3>1. t \in 2..(texts + 1)
        BY <1>1, <2>1, <2>3
      <3>2. PICK s \in Slots : t \in backups \/ body[s] = t
        BY <1>1, <1>2, <2>1, <3>1
      <3>3. CASE t \in backups \/ s # talk.slot \/ body[talk.slot] = v
        BY <1>1, <2>1, <3>2, <3>3
      <3>4. CASE t \notin backups /\ s = talk.slot /\ body[talk.slot] # v
        <4>1. t \in TextsOf("l1")
          BY <2>1, <3>1, <3>2, <3>4 DEF TextsOf, FileOf, Unfilled
        <4>2. QED
          BY <2>1, <3>4, <4>1
      <3>5. QED
        BY <3>3, <3>4
    <2>4. QED
      BY <2>2, <2>3
  <1>4. ASSUME NEW s \in Slots, BrainFills(s)
        PROVE  t \in backups' \/ \E q \in Slots : body'[q] = t
    <2>1. /\ UNCHANGED <<cut, backups>> /\ body[s] <= Unfilled /\ texts' = texts + 1
          /\ body' = [body EXCEPT ![s] = texts + 2]
      BY <1>4 DEF BrainFills, NewText
    <2>2. QED
      BY <1>1, <1>2, <2>1 DEF Unfilled
  <1>5. ASSUME NEW f \in Files, KilledWriting(f)
        PROVE  FALSE
    BY <1>5 DEF KilledWriting
  <1>6. CASE ~\E v \in {Unfilled, NewText} : Splice(v)
    <2>1. CASE UNCHANGED <<body, backups, texts>> /\ cut' \in {cut, cut \cup {"record"}}
      BY <1>2, <2>1
    <2>2. QED
      BY <1>4, <1>5, <1>6, <2>1 DEF InterviewNext, BeginInterview, AnswerName, NamesAsked, SaveNames, FindGaps,
         Replace, LeaveSlot, SpliceFails, Killed, RewriteFile, BrainRecords, FindOne, TurnTo
  <1>7. QED
    BY <1>3, <1>6

LEMMA AskedStep ==
    ASSUME InterviewTypeOK, InterviewNext, GapsOpen, AskedBeforeReplaced
    PROVE  AskedBeforeReplaced'
  <1>1. /\ talk \in Talks /\ talk.slot \in Slots /\ fills \in Nat
        /\ body \in [Slots -> 0..(MaxTexts + 1)]
    BY InterviewAssumption DEF InterviewTypeOK, InterviewAssumption, Talks
  <1>2. fills' = fills \/ fills' = fills + 1
    BY DEF InterviewNext, BeginInterview, AnswerName, NamesAsked, SaveNames, FindGaps, Replace, LeaveSlot,
       SpliceFails, Splice, Killed, RewriteFile, KilledWriting, BrainRecords, BrainFills, FindOne, TurnTo
  <1>3. ASSUME NEW v, Splice(v)
        PROVE  AskedBeforeReplaced'
    <2>1. /\ At("asked") /\ talk.slot \in PlainSlots /\ UNCHANGED fills
          /\ overwritten' = IF body[talk.slot] <= Unfilled THEN overwritten
               ELSE overwritten \cup {[text |-> body[talk.slot],
                      how |-> IF talk.slot \in talk.populated THEN "agreed" ELSE "unseen"]}
      BY <1>3 DEF Splice
    <2>2. talk.slot \notin talk.populated /\ fills = 0 => body[talk.slot] <= Unfilled
      BY <2>1 DEF GapsOpen, At
    <2>3. QED
      BY <1>1, <2>1, <2>2 DEF AskedBeforeReplaced
  <1>4. CASE UNCHANGED overwritten
    BY <1>1, <1>2, <1>4 DEF AskedBeforeReplaced
  <1>5. QED
    BY <1>3, <1>4 DEF InterviewNext, BeginInterview, AnswerName, NamesAsked, SaveNames, FindGaps, Replace,
       LeaveSlot, SpliceFails, Killed, RewriteFile, KilledWriting, BrainRecords, BrainFills, FindOne, TurnTo

LEMMA InterviewStays == InterviewInv /\ [InterviewNext]_interviewVars => InterviewInv'
  <1> SUFFICES ASSUME InterviewInv, [InterviewNext]_interviewVars
               PROVE  InterviewInv'
    OBVIOUS
  <1>1. CASE InterviewNext
    BY <1>1, InterviewTypeStep, SpellingStep, GapsStep, TextsStep, AskedStep DEF InterviewInv
  <1>2. CASE UNCHANGED interviewVars
    BY <1>2 DEF InterviewInv, interviewVars, InterviewTypeOK, Spelling, GapsOpen, TextsKept,
       AskedBeforeReplaced, At, FileOf
  <1>3. QED
    BY <1>1, <1>2

LEMMA InterviewInvKeeps == InterviewInv => InterviewKept
  BY DEF InterviewInv, InterviewKept, Spelling, NamesAgree, At

\* What several sessions leave behind: names that agree, every text somewhere, and
\* nothing replaced unasked but what was written meanwhile (engine.py, splice.py).
THEOREM InterviewIsKept == InterviewSpec => []InterviewKept
  <1>1. InterviewSpec => []InterviewInv
    BY InterviewInitially, InterviewStays, PTL DEF InterviewSpec
  <1>2. QED
    BY <1>1, InterviewInvKeeps, PTL

-----------------------------------------------------------------------------
(* The threads of the channels: what the table says of a thread follows    *)
(* from its step, and what is on file from who is about to write.          *)

\* What the table says while a channel runs.
RunTold(c) ==
    \/ health[c].state = "running"
    \/ health[c].state = "build-failed" /\ c \in tried /\ health[c].restarts > 0

\* What it says when a thread is over, or about to be.
OverTold(c) ==
    /\ health[c].state \in {"stopped", "running", "build-failed", "not-ready"}
    /\ stopping = "no" => c \notin tried /\ health[c].state = "not-ready"

\* What it says at each step of a thread.
ThreadKeeps(c) ==
    /\ thread[c].at \notin {"start", "spawn"}
    /\ c \in untried => c \notin instances /\ thread[c].at = "unborn"
    /\ c \notin tried => health[c].restarts = 0
    /\ thread[c].at = "unborn" /\ c \in instances => health[c].state = "running"
    /\ thread[c].at # "unborn" => stopping = "closed" \/ c \in instances
    /\ thread[c].at \in {"top", "run"} => RunTold(c)
    /\ WritesFile(c) =>
          \/ thread[c].then = "top" /\ RunTold(c)
          \/ /\ thread[c].then = "bump" /\ c \in tried
             /\ health[c].state = "backoff" /\ health[c].restarts < MaxEnds
          \/ thread[c].then = "over" /\ OverTold(c)
    /\ thread[c].at = "bump" =>
          c \in tried /\ health[c].state = "backoff" /\ health[c].restarts < MaxEnds
    /\ thread[c].at \in {"sleep", "build"} =>
          c \in tried /\ health[c].state = "backoff" /\ health[c].restarts > 0
    /\ thread[c].at = "over" => OverTold(c)

\* A table on its way to the file, or there, next to the table in memory.
Follows(copied) ==
    \A c \in Channels :
        /\ copied[c].state = health[c].state
        /\ \/ copied[c].restarts = health[c].restarts
           \/ /\ thread[c].at \in {"sleep", "build"}
              /\ copied[c].restarts + 1 = health[c].restarts

\* With one writer at a time and no failure, what is written follows the table.
FileKeeps ==
    ~overlapped /\ unwritten = 0 =>
        /\ \A v, w \in HealthWriters : WritesFile(v) /\ WritesFile(w) => v = w
        /\ \A w \in HealthWriters :
              /\ WritesFile(w) => Follows(thread[w].copy)
              /\ thread[w].at = "replace" => interim = {thread[w].copy}
        /\ (\A w \in HealthWriters : ~WritesFile(w)) => Follows(onFile)

ChannelsInv == ChannelsTypeOK /\ (\A c \in Channels : ThreadKeeps(c)) /\ FileKeeps

Shown == {"unknown", "running", "build-failed", "not-ready", "backoff", "stopped"}

LEMMA SetHealthSets ==
    ASSUME ChannelsTypeOK, NEW w \in HealthWriters, NEW c \in Channels,
           NEW shown \in Shown, NEW next \in Afters, SetHealth(w, c, shown, next)
    PROVE  /\ health' \in Table
           /\ thread' \in [HealthWriters -> [at : Steps, copy : Table, then : Afters]]
           /\ overlapped' \in BOOLEAN
           /\ health'[c].state = shown /\ health'[c].restarts = health[c].restarts
           /\ \A d \in Channels \ {c} : health'[d] = health[d]
           /\ thread'[w].at = "write" /\ thread'[w].copy = health' /\ thread'[w].then = next
           /\ \A v \in HealthWriters \ {w} : thread'[v] = thread[v]
           /\ ~overlapped' => ~overlapped /\ \A v \in HealthWriters \ {w} : ~WritesFile(v)
<1>1. health \in [Channels -> Entry] /\ health' = [health EXCEPT ![c].state = shown]
  BY DEF ChannelsTypeOK, Table, SetHealth
<1>2. health[c] \in Entry
  BY <1>1
<1>3. /\ [health[c] EXCEPT !.state = shown] \in Entry
      /\ [health[c] EXCEPT !.state = shown].state = shown
      /\ [health[c] EXCEPT !.state = shown].restarts = health[c].restarts
  BY <1>2 DEF Entry, Shown
<1>4. /\ health' \in Table /\ health'[c] = [health[c] EXCEPT !.state = shown]
      /\ \A d \in Channels \ {c} : health'[d] = health[d]
  BY <1>1, <1>3 DEF Table
<1>5. [at |-> "write", copy |-> health', then |-> next] \in [at : Steps, copy : Table, then : Afters]
  BY <1>4 DEF Steps, Afters
<1>6. thread' = [thread EXCEPT ![w] = [at |-> "write", copy |-> health', then |-> next]]
  BY DEF SetHealth
<1>7. /\ thread' \in [HealthWriters -> [at : Steps, copy : Table, then : Afters]]
      /\ thread'[w].at = "write" /\ thread'[w].copy = health' /\ thread'[w].then = next
      /\ \A v \in HealthWriters \ {w} : thread'[v] = thread[v]
  BY <1>5, <1>6 DEF ChannelsTypeOK
<1>8. overlapped' = (overlapped \/ \E v \in HealthWriters \ {w} : WritesFile(v))
  BY DEF SetHealth
<1>9. overlapped' \in BOOLEAN
  BY <1>8, Zenon
<1> QED
  BY <1>3, <1>4, <1>7, <1>8, <1>9

LEMMA StepsToSteps ==
    ASSUME ChannelsTypeOK, NEW w \in HealthWriters, NEW step \in Steps, StepsTo(w, step)
    PROVE  /\ thread' \in [HealthWriters -> [at : Steps, copy : Table, then : Afters]]
           /\ thread'[w].at = step /\ thread'[w].copy = thread[w].copy
           /\ thread'[w].then = thread[w].then
           /\ \A v \in HealthWriters \ {w} : thread'[v] = thread[v]
<1>1. /\ thread \in [HealthWriters -> [at : Steps, copy : Table, then : Afters]]
      /\ thread' = [thread EXCEPT ![w] = [thread[w] EXCEPT !.at = step]]
  BY DEF ChannelsTypeOK, StepsTo
<1>2. thread[w] \in [at : Steps, copy : Table, then : Afters]
  BY <1>1
<1>3. /\ [thread[w] EXCEPT !.at = step] \in [at : Steps, copy : Table, then : Afters]
      /\ [thread[w] EXCEPT !.at = step].at = step
      /\ [thread[w] EXCEPT !.at = step].copy = thread[w].copy
      /\ [thread[w] EXCEPT !.at = step].then = thread[w].then
  BY <1>2
<1>4. thread'[w] = [thread[w] EXCEPT !.at = step]
  BY <1>1
<1> QED
  BY <1>1, <1>3, <1>4

LEMMA WrittenSteps ==
    ASSUME ChannelsTypeOK, NEW w \in HealthWriters, Written(w)
    PROVE  /\ thread' \in [HealthWriters -> [at : Steps, copy : Table, then : Afters]]
           /\ thread'[w].at = thread[w].then /\ ~WritesFile(w)'
           /\ \A v \in HealthWriters \ {w} : thread'[v] = thread[v]
<1>1. thread[w] \in [at : Steps, copy : Table, then : Afters]
  BY DEF ChannelsTypeOK
<1>2. Blank \in Table
  BY ChannelThreadsAssumption DEF Blank, Table, Entry
<1>3. [at |-> thread[w].then, copy |-> Blank, then |-> "over"]
         \in [at : Steps, copy : Table, then : Afters]
  BY <1>1, <1>2 DEF Steps, Afters
<1>4. /\ thread' \in [HealthWriters -> [at : Steps, copy : Table, then : Afters]]
      /\ thread'[w].at = thread[w].then
      /\ \A v \in HealthWriters \ {w} : thread'[v] = thread[v]
  BY <1>1, <1>3 DEF ChannelsTypeOK, Written
<1> QED
  BY <1>1, <1>4 DEF WritesFile, Afters

LEMMA ChannelsInitially == ChannelsInit => ChannelsInv
<1> SUFFICES ASSUME ChannelsInit PROVE ChannelsInv
  OBVIOUS
<1>1. Blank \in Table
  BY ChannelThreadsAssumption DEF Blank, Table, Entry
<1>2. thread \in [HealthWriters -> [at : Steps, copy : Table, then : Afters]]
  BY <1>1 DEF ChannelsInit, Steps, Afters
<1>3. ChannelsTypeOK
  <2>1. backoff \in [Channels -> 0..MaxBackoff] /\ unwritten \in 0..MaxUnwritten
    BY ChannelThreadsAssumption DEF ChannelsInit
  <2>2. /\ untried \subseteq Channels /\ instances \subseteq Channels /\ tried \subseteq Channels
        /\ health \in Table /\ onFile \in Table /\ interim \subseteq Table
        /\ stopping \in {"no", "asked", "closed"} /\ overlapped \in BOOLEAN
    BY <1>1, Zenon DEF ChannelsInit
  <2> QED
    BY <1>2, <2>1, <2>2, Zenon DEF ChannelsTypeOK
<1>4. \A c \in Channels : thread[c].at = "unborn" /\ health[c].restarts = 0
  BY ChannelThreadsAssumption DEF ChannelsInit, Blank, HealthWriters
<1>5. \A c \in Channels : ThreadKeeps(c)
  BY <1>4 DEF ChannelsInit, ThreadKeeps, WritesFile
<1>6. \A w \in HealthWriters : thread[w].at \in {"start", "unborn"}
  BY DEF ChannelsInit
<1>7. FileKeeps
  BY <1>6 DEF ChannelsInit, FileKeeps, Follows, WritesFile
<1> QED
  BY <1>3, <1>5, <1>7 DEF ChannelsInv

LEMMA ChannelsTyped ==
    ASSUME ChannelsTypeOK, \A c \in Channels : ThreadKeeps(c), [ChannelsNext]_channelVars
    PROVE  ChannelsTypeOK'
<1> USE DEF Steps, Afters
<1>1. ASSUME NEW c \in Channels, ChannelStep(c) PROVE ChannelsTypeOK'
  <2> c \in HealthWriters /\ Main \in HealthWriters
    BY DEF HealthWriters
  <2>1. CASE Build(c)
    <3>1. \/ instances' = instances \cup {c} /\ SetHealth(Main, c, "running", "spawn")
          \/ UNCHANGED instances /\ SetHealth(Main, c, "build-failed", "start")
      BY <2>1 DEF Build
    <3>2. /\ health' \in Table /\ overlapped' \in BOOLEAN
          /\ thread' \in [HealthWriters -> [at : Steps, copy : Table, then : Afters]]
      BY <3>1, SetHealthSets DEF Shown
    <3> QED
      BY <2>1, <3>1, <3>2 DEF Build, ChannelsTypeOK
  <2>2. CASE StartThread(c)
    <3>0. c # Main
      BY ChannelThreadsAssumption
    <3>1. thread' = [thread EXCEPT ![Main] = [thread[Main] EXCEPT !.at = "start"],
                                   ![c] = [thread[c] EXCEPT !.at = "top"]]
      BY <2>2, <3>0 DEF StartThread, ChannelsTypeOK
    <3>2. /\ [thread[Main] EXCEPT !.at = "start"] \in [at : Steps, copy : Table, then : Afters]
          /\ [thread[c] EXCEPT !.at = "top"] \in [at : Steps, copy : Table, then : Afters]
      BY DEF ChannelsTypeOK
    <3>3. thread' \in [HealthWriters -> [at : Steps, copy : Table, then : Afters]]
      BY <3>1, <3>2 DEF ChannelsTypeOK
    <3> QED
      BY <2>2, <3>3 DEF StartThread, ChannelsTypeOK
  <2>3. CASE Top(c)
    <3>1. PICK step \in Steps : StepsTo(c, step)
      BY <2>3 DEF Top
    <3> QED
      BY <2>3, <3>1, StepsToSteps DEF Top, ChannelsTypeOK
  <2>4. CASE RunStops(c) \/ Park(c) \/ SleepStops(c)
    <3>1. \E shown \in Shown, next \in Afters : SetHealth(c, c, shown, next)
      BY <2>4 DEF RunStops, Park, SleepStops, Shown
    <3>2. /\ health' \in Table /\ overlapped' \in BOOLEAN
          /\ thread' \in [HealthWriters -> [at : Steps, copy : Table, then : Afters]]
      BY <3>1, SetHealthSets
    <3> QED
      BY <2>4, <3>2 DEF RunStops, Park, SleepStops, ChannelsTypeOK
  <2>5. CASE RunBreaksOff(c)
    <3>1. /\ health' \in Table /\ overlapped' \in BOOLEAN
          /\ thread' \in [HealthWriters -> [at : Steps, copy : Table, then : Afters]]
      BY <2>5, SetHealthSets DEF RunBreaksOff, Shown
    <3>2. backoff' \in [Channels -> 0..MaxBackoff]
      BY <2>5, ChannelThreadsAssumption DEF RunBreaksOff, ChannelsTypeOK
    <3> QED
      BY <2>5, <3>1, <3>2 DEF RunBreaksOff, ChannelsTypeOK
  <2>6. CASE CountRestart(c)
    <3>1. health[c] \in Entry /\ health[c].restarts < MaxEnds
      BY <2>6 DEF ChannelsTypeOK, Table, CountRestart, ThreadKeeps
    <3>2. [health[c] EXCEPT !.restarts = health[c].restarts + 1] \in Entry
      BY <2>6, <3>1, ChannelThreadsAssumption DEF Entry
    <3>3. health' = [health EXCEPT ![c] = [health[c] EXCEPT !.restarts = health[c].restarts + 1]]
      BY <2>6 DEF CountRestart
    <3>4. health' \in Table
      BY <3>2, <3>3 DEF ChannelsTypeOK, Table
    <3> QED
      BY <2>6, <3>4, StepsToSteps DEF CountRestart, ChannelsTypeOK
  <2>7. CASE SleepOver(c)
    <3>1. backoff' \in [Channels -> 0..MaxBackoff]
      BY <2>7, ChannelThreadsAssumption DEF SleepOver, ChannelsTypeOK
    <3> QED
      BY <2>7, <3>1, StepsToSteps DEF SleepOver, ChannelsTypeOK
  <2>8. CASE Rebuild(c)
    <3>1. \E shown \in Shown, next \in Afters : SetHealth(c, c, shown, next)
      BY <2>8 DEF Rebuild, Shown
    <3>2. /\ health' \in Table /\ overlapped' \in BOOLEAN
          /\ thread' \in [HealthWriters -> [at : Steps, copy : Table, then : Afters]]
      BY <3>1, SetHealthSets
    <3> QED
      BY <2>8, <3>2 DEF Rebuild, ChannelsTypeOK
  <2> QED
    BY <1>1, <2>1, <2>2, <2>3, <2>4, <2>5, <2>6, <2>7, <2>8 DEF ChannelStep
<1>2. ASSUME NEW w \in HealthWriters, FileStep(w) PROVE ChannelsTypeOK'
  <2>1. CASE WriteInterim(w)
    <3>1. thread[w].copy \in Table
      BY DEF ChannelsTypeOK
    <3> QED
      BY <2>1, <3>1, StepsToSteps DEF WriteInterim, ChannelsTypeOK
  <2>2. CASE ReplaceFile(w)
    BY <2>2, WrittenSteps DEF ReplaceFile, ChannelsTypeOK
  <2>3. CASE WriteFails(w)
    BY <2>3, WrittenSteps, ChannelThreadsAssumption DEF WriteFails, ChannelsTypeOK
  <2> QED
    BY <1>2, <2>1, <2>2, <2>3 DEF FileStep
<1>3. CASE AskToStop \/ Close \/ UNCHANGED channelVars
  BY <1>3 DEF AskToStop, Close, channelVars, ChannelsTypeOK
<1> QED
  BY <1>1, <1>2, <1>3 DEF ChannelsNext

\* One thread's step leaves what holds of the other channels.
LEMMA OthersKeep ==
    ASSUME NEW d \in Channels, ThreadKeeps(d), thread'[d] = thread[d], health'[d] = health[d],
           d \in tried' <=> d \in tried, d \in untried' => d \in untried,
           \/ d \in instances' <=> d \in instances
           \/ stopping' = "closed" /\ d \notin instances',
           stopping' = "no" => stopping = "no", stopping = "closed" => stopping' = "closed"
    PROVE  ThreadKeeps(d)'
  BY DEF ThreadKeeps, WritesFile, RunTold, OverTold

LEMMA ThreadsKeep ==
    ASSUME ChannelsTypeOK, \A c \in Channels : ThreadKeeps(c), [ChannelsNext]_channelVars,
           NEW d \in Channels
    PROVE  ThreadKeeps(d)'
<1> USE ChannelThreadsAssumption
<1> d \in HealthWriters /\ Main \in HealthWriters /\ d # Main
  BY DEF HealthWriters
<1>0. ThreadKeeps(d) /\ health[d].restarts \in 0..MaxEnds
  BY DEF ChannelsTypeOK, Table, Entry
<1>1. ASSUME NEW c \in Channels, ChannelStep(c) PROVE ThreadKeeps(d)'
  <2> c \in HealthWriters /\ c # Main
    BY DEF HealthWriters
  <2>1. CASE Build(c)
    <3>1. CASE instances' = instances \cup {c} /\ SetHealth(Main, c, "running", "spawn")
      <4>1. /\ health'[c].state = "running" /\ health'[c].restarts = health[c].restarts
            /\ \A e \in Channels \ {c} : health'[e] = health[e]
            /\ \A v \in HealthWriters \ {Main} : thread'[v] = thread[v]
        BY <3>1, SetHealthSets DEF Shown, Steps, Afters
      <4>2. CASE c = d
        BY <1>0, <2>1, <3>1, <4>1, <4>2 DEF Build, ThreadKeeps, WritesFile, RunTold, OverTold
      <4>3. CASE c # d
        BY <1>0, <2>1, <3>1, <4>1, <4>3, OthersKeep DEF Build
      <4> QED
        BY <4>2, <4>3
    <3>2. CASE UNCHANGED instances /\ SetHealth(Main, c, "build-failed", "start")
      <4>1. /\ health'[c].state = "build-failed" /\ health'[c].restarts = health[c].restarts
            /\ \A e \in Channels \ {c} : health'[e] = health[e]
            /\ \A v \in HealthWriters \ {Main} : thread'[v] = thread[v]
        BY <3>2, SetHealthSets DEF Shown, Steps, Afters
      <4>2. CASE c = d
        BY <1>0, <2>1, <3>2, <4>1, <4>2 DEF Build, ThreadKeeps, WritesFile, RunTold, OverTold
      <4>3. CASE c # d
        BY <1>0, <2>1, <3>2, <4>1, <4>3, OthersKeep DEF Build
      <4> QED
        BY <4>2, <4>3
    <3> QED
      BY <2>1, <3>1, <3>2 DEF Build
  <2>2. CASE StartThread(c)
    <3>1. /\ thread'[c].at = "top"
          /\ \A v \in HealthWriters \ {Main, c} : thread'[v] = thread[v]
      BY <2>2 DEF StartThread, ChannelsTypeOK
    <3>2. CASE c = d
      BY <1>0, <2>2, <3>1, <3>2 DEF StartThread, ThreadKeeps, WritesFile, RunTold, OverTold
    <3>3. CASE c # d
      BY <1>0, <2>2, <3>1, <3>3, OthersKeep DEF StartThread
    <3> QED
      BY <3>2, <3>3
  <2>3. CASE Top(c) \/ SleepOver(c)
    <3>1. PICK step \in Steps : StepsTo(c, step)
      BY <2>3 DEF Top, SleepOver, Steps
    <3>2. \A v \in HealthWriters \ {c} : thread'[v] = thread[v]
      BY <3>1, StepsToSteps
    <3>3. thread'[c].at = IF SleepOver(c) THEN "build"
                          ELSE IF stopping = "no" /\ c \in instances THEN "run" ELSE "over"
      BY <2>3, StepsToSteps DEF Top, SleepOver, Steps
    <3>4. UNCHANGED <<untried, instances, health, tried, stopping>>
      BY <2>3 DEF Top, SleepOver
    <3>5. CASE c = d
      <4>1. CASE Top(c)
        BY <1>0, <3>3, <3>4, <3>5, <4>1 DEF Top, SleepOver, ThreadKeeps, WritesFile, RunTold, OverTold
      <4>2. CASE SleepOver(c)
        BY <1>0, <3>3, <3>4, <3>5, <4>2 DEF SleepOver, ThreadKeeps, WritesFile, RunTold, OverTold
      <4> QED
        BY <2>3, <4>1, <4>2
    <3>6. CASE c # d
      BY <1>0, <3>2, <3>4, <3>6, OthersKeep
    <3> QED
      BY <3>5, <3>6
  <2>4. CASE RunStops(c) \/ Park(c) \/ SleepStops(c) \/ RunBreaksOff(c) \/ Rebuild(c)
    <3>1. PICK shown \in Shown, next \in Afters : SetHealth(c, c, shown, next)
      BY <2>4 DEF RunStops, Park, SleepStops, RunBreaksOff, Rebuild, Shown, Steps, Afters
    <3>2. /\ \A e \in Channels \ {c} : health'[e] = health[e]
          /\ \A v \in HealthWriters \ {c} : thread'[v] = thread[v]
          /\ thread'[c].at = "write" /\ health'[c].restarts = health[c].restarts
      BY <3>1, SetHealthSets
    <3>3. /\ UNCHANGED <<untried, stopping>>
          /\ tried' = IF RunBreaksOff(c) THEN tried \cup {c} ELSE tried
          /\ instances' \in {instances, instances \cup {c}}
      BY <2>4 DEF RunStops, Park, SleepStops, RunBreaksOff, Rebuild
    <3>4. CASE c # d
      BY <1>0, <3>2, <3>3, <3>4, OthersKeep
    <3>5. CASE c = d /\ RunStops(c)
      <4>1. health'[c].state = "stopped" /\ thread'[c].then = "over"
        <5>1. SetHealth(c, c, "stopped", "over")
          BY <3>5 DEF RunStops
        <5>2. "stopped" \in Shown /\ "over" \in Afters
          BY DEF Shown, Afters, Steps
        <5> QED
          BY <5>1, <5>2, SetHealthSets
      <4> QED
        BY <1>0, <3>2, <3>5, <4>1 DEF RunStops, ThreadKeeps, WritesFile, RunTold, OverTold
    <3>6. CASE c = d /\ Park(c)
      <4>1. health'[c].state = "not-ready" /\ thread'[c].then = "over"
        <5>1. SetHealth(c, c, "not-ready", "over")
          BY <3>6 DEF Park
        <5>2. "not-ready" \in Shown /\ "over" \in Afters
          BY DEF Shown, Afters, Steps
        <5> QED
          BY <5>1, <5>2, SetHealthSets
      <4> QED
        BY <1>0, <3>2, <3>6, <4>1 DEF Park, ThreadKeeps, WritesFile, RunTold, OverTold
    <3>7. CASE c = d /\ SleepStops(c)
      <4>1. health'[c].state = "stopped" /\ thread'[c].then = "over"
        <5>1. SetHealth(c, c, "stopped", "over")
          BY <3>7 DEF SleepStops
        <5>2. "stopped" \in Shown /\ "over" \in Afters
          BY DEF Shown, Afters, Steps
        <5> QED
          BY <5>1, <5>2, SetHealthSets
      <4> QED
        BY <1>0, <3>2, <3>7, <4>1 DEF SleepStops, ThreadKeeps, WritesFile, RunTold, OverTold
    <3>8. CASE c = d /\ RunBreaksOff(c)
      <4>1. health'[c].state = "backoff" /\ thread'[c].then = "bump"
        <5>1. SetHealth(c, c, "backoff", "bump")
          BY <3>8 DEF RunBreaksOff
        <5>2. "backoff" \in Shown /\ "bump" \in Afters
          BY DEF Shown, Afters, Steps
        <5> QED
          BY <5>1, <5>2, SetHealthSets
      <4> QED
        BY <1>0, <3>2, <3>8, <4>1 DEF RunBreaksOff, ThreadKeeps, WritesFile, RunTold, OverTold
    <3>9. CASE c = d /\ Rebuild(c)
      <4>1. health'[c].state \in {"running", "build-failed"} /\ thread'[c].then = "top"
        <5>1. PICK shownNow \in {"running", "build-failed"} : SetHealth(c, c, shownNow, "top")
          BY <3>9 DEF Rebuild
        <5>2. shownNow \in Shown /\ "top" \in Afters
          BY DEF Shown, Afters, Steps
        <5> QED
          BY <5>1, <5>2, SetHealthSets
      <4> QED
        BY <1>0, <3>2, <3>9, <4>1 DEF Rebuild, ThreadKeeps, WritesFile, RunTold, OverTold
    <3> QED
      BY <2>4, <3>4, <3>5, <3>6, <3>7, <3>8, <3>9
  <2>5. CASE CountRestart(c)
    <3>1. /\ thread'[c].at = "sleep" /\ \A v \in HealthWriters \ {c} : thread'[v] = thread[v]
      BY <2>5, StepsToSteps DEF CountRestart, Steps
    <3>2. health[c] \in Entry
      BY DEF ChannelsTypeOK, Table
    <3>3. /\ health'[c].state = health[c].state
          /\ health'[c].restarts = health[c].restarts + 1
          /\ \A e \in Channels \ {c} : health'[e] = health[e]
      BY <2>5, <3>2 DEF CountRestart, ChannelsTypeOK, Table, Entry
    <3>4. CASE c = d
      BY <1>0, <2>5, <3>1, <3>3, <3>4 DEF CountRestart, ThreadKeeps, WritesFile, RunTold, OverTold
    <3>5. CASE c # d
      BY <1>0, <2>5, <3>1, <3>3, <3>5, OthersKeep DEF CountRestart
    <3> QED
      BY <3>4, <3>5
  <2> QED
    BY <1>1, <2>1, <2>2, <2>3, <2>4, <2>5 DEF ChannelStep
<1>2. ASSUME NEW w \in HealthWriters, FileStep(w) PROVE ThreadKeeps(d)'
  <2>1. UNCHANGED <<untried, instances, health, tried, stopping>>
    BY <1>2 DEF FileStep, WriteInterim, ReplaceFile, WriteFails
  <2>2. CASE w # d
    <3>1. thread'[d] = thread[d]
      BY <1>2, <2>2, StepsToSteps, WrittenSteps DEF FileStep, WriteInterim, ReplaceFile, WriteFails, Steps
    <3> QED
      BY <1>0, <2>1, <3>1, OthersKeep
  <2>3. CASE w = d /\ WriteInterim(w)
    <3>1. thread'[d].at = "replace" /\ thread'[d].then = thread[d].then
      BY <2>3, StepsToSteps DEF WriteInterim, Steps
    <3> QED
      BY <1>0, <2>1, <2>3, <3>1 DEF WriteInterim, ThreadKeeps, WritesFile, RunTold, OverTold
  <2>4. CASE w = d /\ (ReplaceFile(w) \/ WriteFails(w))
    <3>1. WritesFile(d) /\ thread'[d].at = thread[d].then
      BY <2>4, WrittenSteps DEF ReplaceFile, WriteFails, WritesFile
    <3> QED
      BY <1>0, <2>1, <3>1 DEF ThreadKeeps, WritesFile, RunTold, OverTold
  <2> QED
    BY <1>2, <2>2, <2>3, <2>4 DEF FileStep
<1>3. CASE AskToStop \/ Close \/ UNCHANGED channelVars
  <2>1. /\ UNCHANGED <<untried, thread, health, tried>>
        /\ stopping' = "no" => stopping = "no"
        /\ stopping = "closed" => stopping' = "closed"
        /\ instances' = instances \/ (stopping' = "closed" /\ instances' = {})
    BY <1>3 DEF AskToStop, Close, channelVars
  <2> QED
    BY <1>0, <2>1, OthersKeep
<1> QED
  BY <1>1, <1>2, <1>3 DEF ChannelsNext

\* What follows the table does so after a step that leaves the table, and who waits.
LEMMA FollowsOn ==
    ASSUME NEW copied, Follows(copied), UNCHANGED health,
           \A c \in Channels :
              thread[c].at \in {"sleep", "build"} => thread'[c].at \in {"sleep", "build"}
    PROVE  \A c \in Channels :
              /\ copied[c].state = health'[c].state
              /\ \/ copied[c].restarts = health'[c].restarts
                 \/ /\ thread'[c].at \in {"sleep", "build"}
                    /\ copied[c].restarts + 1 = health'[c].restarts
  BY DEF Follows

\* Who sets an entry becomes the writer, of the table as it is.
LEMMA SetHealthFileKeeps ==
    ASSUME ChannelsTypeOK, NEW w \in HealthWriters, NEW c \in Channels,
           NEW shown \in Shown, NEW next \in Afters, SetHealth(w, c, shown, next),
           UNCHANGED unwritten
    PROVE  FileKeeps'
<1> SUFFICES ASSUME ~overlapped', unwritten' = 0
             PROVE  /\ \A v, u \in HealthWriters : WritesFile(v)' /\ WritesFile(u)' => v = u
                    /\ \A v \in HealthWriters :
                          /\ WritesFile(v)' => Follows(thread[v].copy)'
                          /\ thread'[v].at = "replace" => interim' = {thread'[v].copy}
                    /\ (\A v \in HealthWriters : ~WritesFile(v)') => Follows(onFile)'
  BY DEF FileKeeps
<1>1. /\ thread'[w].at = "write" /\ thread'[w].copy = health'
      /\ \A v \in HealthWriters \ {w} : thread'[v] = thread[v] /\ ~WritesFile(v)
  BY SetHealthSets
<1>2. /\ WritesFile(w)' /\ Follows(thread[w].copy)'
      /\ \A v \in HealthWriters \ {w} : ~WritesFile(v)' /\ thread'[v].at # "replace"
  BY <1>1 DEF WritesFile, Follows
<1> QED
  BY <1>1, <1>2

LEMMA FilesKeep ==
    ASSUME ChannelsInv, [ChannelsNext]_channelVars
    PROVE  FileKeeps'
<1> USE ChannelThreadsAssumption DEF ChannelsInv
<1> SUFFICES ASSUME ~overlapped', unwritten' = 0 PROVE FileKeeps'
  BY DEF FileKeeps
<1>1. ASSUME NEW c \in Channels, ChannelStep(c) PROVE FileKeeps'
  <2> c \in HealthWriters /\ Main \in HealthWriters /\ c # Main
    BY DEF HealthWriters
  <2>1. CASE Build(c) \/ RunStops(c) \/ Park(c) \/ SleepStops(c) \/ RunBreaksOff(c) \/ Rebuild(c)
    <3>1. /\ \E w \in HealthWriters, shown \in Shown, next \in Afters : SetHealth(w, c, shown, next)
          /\ UNCHANGED unwritten
      BY <2>1 DEF Build, RunStops, Park, SleepStops, RunBreaksOff, Rebuild, Shown, Steps, Afters
    <3> QED
      BY <3>1, SetHealthFileKeeps
  <2>2. CASE StartThread(c) \/ Top(c) \/ SleepOver(c) \/ CountRestart(c)
    <3>1. /\ UNCHANGED <<interim, onFile, unwritten, overlapped>>
          /\ ~WritesFile(c) /\ ~WritesFile(c)'
          /\ thread'[c].at \in {"top", "run", "over", "build", "sleep"}
          /\ thread[c].at \in {"sleep", "build"} => thread'[c].at \in {"sleep", "build"}
      BY <2>2, StepsToSteps DEF StartThread, Top, SleepOver, CountRestart, WritesFile, ChannelsTypeOK, Steps
    <3>2. \A v \in HealthWriters \ {c} :
             /\ thread'[v].copy = thread[v].copy
             /\ v # Main => thread'[v].at = thread[v].at
             /\ WritesFile(v) <=> WritesFile(v)'
             /\ thread'[v].at = "replace" => thread[v].at = "replace"
      <4>1. CASE StartThread(c)
        BY <4>1 DEF StartThread, WritesFile, ChannelsTypeOK
      <4>2. CASE ~StartThread(c)
        <5>1. \E step \in Steps : StepsTo(c, step)
          BY <2>2, <4>2 DEF Top, SleepOver, CountRestart, Steps
        <5>2. \A v \in HealthWriters \ {c} : thread'[v] = thread[v]
          BY <5>1, StepsToSteps
        <5> QED
          BY <5>2 DEF WritesFile
      <4> QED
        BY <4>1, <4>2
    <3>3. \A d \in Channels : d \in HealthWriters /\ d # Main
      BY DEF HealthWriters
    <3>4. ASSUME NEW copied \in Table, Follows(copied) PROVE Follows(copied)'
      <4>1. CASE ~CountRestart(c)
        <5>1. UNCHANGED health
          BY <2>2, <4>1 DEF StartThread, Top, SleepOver
        <5>2. \A d \in Channels :
                 thread[d].at \in {"sleep", "build"} => thread'[d].at \in {"sleep", "build"}
          BY <3>1, <3>2, <3>3
        <5> QED
          BY <3>4, <5>1, <5>2, FollowsOn DEF Follows
      <4>2. CASE CountRestart(c)
        <5>1. /\ thread[c].at = "bump" /\ thread'[c].at = "sleep" /\ health[c] \in Entry
              /\ health' = [health EXCEPT ![c] = [health[c] EXCEPT !.restarts = health[c].restarts + 1]]
          BY <4>2, StepsToSteps DEF CountRestart, ChannelsTypeOK, Table, Steps
        <5>2. /\ health'[c].state = health[c].state
              /\ health'[c].restarts = health[c].restarts + 1
              /\ \A d \in Channels \ {c} : health'[d] = health[d]
          BY <5>1 DEF ChannelsTypeOK, Table, Entry
        <5>3. copied[c].restarts = health[c].restarts
          BY <3>4, <5>1 DEF Follows
        <5> QED
          BY <3>2, <3>3, <3>4, <5>1, <5>2, <5>3 DEF Follows
      <4> QED
        BY <4>1, <4>2
    <3>5. onFile \in Table /\ \A w \in HealthWriters : thread[w].copy \in Table
      BY DEF ChannelsTypeOK
    <3>6. /\ \A v, w \in HealthWriters : WritesFile(v)' /\ WritesFile(w)' => v = w
          /\ \A w \in HealthWriters : thread'[w].at = "replace" => interim' = {thread'[w].copy}
      BY <3>1, <3>2 DEF FileKeeps
    <3>7. \A w \in HealthWriters : WritesFile(w)' => Follows(thread[w].copy)'
      <4> SUFFICES ASSUME NEW w \in HealthWriters, WritesFile(w)' PROVE Follows(thread[w].copy)'
        OBVIOUS
      <4>1. Follows(thread[w].copy) /\ thread'[w].copy = thread[w].copy
        BY <3>1, <3>2 DEF FileKeeps
      <4>2. ASSUME NEW copied, copied = thread[w].copy PROVE Follows(copied)'
        BY <3>4, <3>5, <4>1, <4>2
      <4> QED
        BY <4>1, <4>2 DEF Follows
    <3>8. (\A w \in HealthWriters : ~WritesFile(w)') => Follows(onFile)'
      <4> SUFFICES ASSUME \A w \in HealthWriters : ~WritesFile(w)' PROVE Follows(onFile)'
        OBVIOUS
      <4>1. Follows(onFile) /\ onFile' = onFile
        BY <3>1, <3>2 DEF FileKeeps
      <4>2. ASSUME NEW copied, copied = onFile PROVE Follows(copied)'
        BY <3>4, <3>5, <4>1, <4>2
      <4> QED
        BY <4>1, <4>2 DEF Follows
    <3> QED
      BY <3>6, <3>7, <3>8 DEF FileKeeps
  <2> QED
    BY <1>1, <2>1, <2>2 DEF ChannelStep
<1>2. ASSUME NEW w \in HealthWriters, FileStep(w) PROVE FileKeeps'
  <2>1. ~WriteFails(w) /\ UNCHANGED <<health, unwritten, overlapped>> /\ WritesFile(w)
    BY <1>2 DEF FileStep, WriteInterim, ReplaceFile, WriteFails, WritesFile, ChannelsTypeOK
  <2>2. /\ \A v \in HealthWriters \ {w} : ~WritesFile(v)
        /\ Follows(thread[w].copy) /\ (thread[w].at = "replace" => interim = {thread[w].copy})
    BY <2>1 DEF FileKeeps
  <2>3. \A v \in HealthWriters \ {w} : thread'[v] = thread[v]
    BY <1>2, <2>1, StepsToSteps, WrittenSteps DEF FileStep, WriteInterim, ReplaceFile, Steps
  <2>4. \A c \in Channels :
           thread[c].at \in {"sleep", "build"} => thread'[c].at \in {"sleep", "build"}
    BY <2>1, <2>3 DEF WritesFile, HealthWriters
  <2>5. ASSUME NEW copied, copied = thread[w].copy PROVE Follows(copied)'
    BY <2>1, <2>2, <2>4, <2>5, FollowsOn DEF Follows
  <2>6. \A v \in HealthWriters \ {w} : ~WritesFile(v)' /\ thread'[v].at # "replace"
    BY <2>2, <2>3 DEF WritesFile
  <2>7. CASE WriteInterim(w)
    <3>1. /\ thread'[w].at = "replace" /\ thread'[w].copy = thread[w].copy
          /\ interim' = {thread[w].copy}
      BY <2>7, StepsToSteps DEF WriteInterim, Steps
    <3>2. WritesFile(w)' /\ Follows(thread[w].copy)'
      BY <2>5, <3>1 DEF WritesFile, Follows
    <3> QED
      BY <2>6, <3>1, <3>2 DEF FileKeeps
  <2>8. CASE ReplaceFile(w)
    <3>1. ~WritesFile(w)' /\ thread'[w].at # "replace" /\ onFile' = thread[w].copy
      BY <2>2, <2>8, WrittenSteps DEF ReplaceFile, WritesFile
    <3>2. Follows(onFile)'
      BY <2>5, <3>1 DEF Follows
    <3> QED
      BY <2>6, <3>1, <3>2 DEF FileKeeps
  <2> QED
    BY <1>2, <2>1, <2>7, <2>8 DEF FileStep
<1>3. CASE AskToStop \/ Close \/ UNCHANGED channelVars
  BY <1>3 DEF AskToStop, Close, channelVars, FileKeeps, Follows, WritesFile
<1> QED
  BY <1>1, <1>2, <1>3 DEF ChannelsNext

LEMMA ChannelsStay == ChannelsInv /\ [ChannelsNext]_channelVars => ChannelsInv'
  BY ChannelsTyped, ThreadsKeep, FilesKeep DEF ChannelsInv

LEMMA ChannelsInvKeeps == ChannelsInv => ChannelsTypeOK /\ ChannelsTold
<1> SUFFICES ASSUME ChannelsInv PROVE ChannelsTypeOK /\ ChannelsTold
  OBVIOUS
<1>1. HealthOnFile
  BY DEF ChannelsInv, FileKeeps, Follows, HealthOnFile
<1>2. ASSUME NEW c \in Channels
      PROVE  /\ thread[c].at = "over" /\ stopping = "no" =>
                   c \notin tried /\ health[c] = [state |-> "not-ready", restarts |-> 0]
             /\ thread[c].at = "run" =>
                   \/ health[c].state = "running"
                   \/ health[c].state = "build-failed" /\ c \in tried /\ health[c].restarts > 0
             /\ thread[c].at = "over" => health[c].state \notin {"backoff", "unknown"}
  <2>1. health[c] \in Entry
    BY DEF ChannelsInv, ChannelsTypeOK, Table
  <2> QED
    BY <2>1 DEF ChannelsInv, ThreadKeeps, RunTold, OverTold, Entry
<1> QED
  BY <1>1, <1>2 DEF ChannelsInv, ChannelsTold, ThreadsTold

\* The table of the channels' health and its file agree, and a channel is given up
\* for a stop alone, as ChannelThreads states it (channel_lifecycle.py).
THEOREM ChannelsAreTold == ChannelsInit /\ [][ChannelsNext]_channelVars => []ChannelsTold
  BY ChannelsInitially, ChannelsStay, ChannelsInvKeeps, PTL

-----------------------------------------------------------------------------
(* The WhatsApp channel. *)

\* What the stop of a channel and the end of its sidecar leave to its reader: one
\* that would start a process anew has looked at the flag before it was set, or
\* sees it when it wakes.
ReaderSound ==
    /\ channel = "off" => sidecar = "none" /\ reader = "none"
    /\ channel = "running" => ~halted
    /\ channel \in {"stopping", "ended"} /\ ~hasty =>
           reader = "none" \/ (halted /\ reader # "starting")
    /\ channel = "ended" /\ ~hasty => ~Up
    /\ channel = "running" /\ misfires = 0 => reader # "none" \/ fatal

\* Each sidecar left behind has an exception to it, and so has the one that a reader
\* about to start a process would leave.
StraysCounted ==
    /\ stray \in Nat /\ raised \in Nat /\ stray <= raised
    /\ Up /\ reader \in {"sleeping", "starting"} => stray < raised

LineInv ==
    /\ channel \in {"off", "running", "stopping", "ended"}
    /\ sidecar \in {"none", "up", "linked", "dead"}
    /\ halted \in BOOLEAN /\ fatal \in BOOLEAN /\ hasty \in BOOLEAN /\ misfires \in Nat
    /\ ReaderSound /\ StraysCounted

LEMMA LineInitially == LineInit => LineInv
  <1> SUFFICES ASSUME LineInit
               PROVE  LineInv
    OBVIOUS
  <1>1. misfires \in Nat
    BY DEF LineInit
  <1>2. ~halted /\ ~fatal /\ ~hasty /\ halted \in BOOLEAN /\ fatal \in BOOLEAN /\ hasty \in BOOLEAN
    BY DEF LineInit, LineAtRest
  <1>3. channel = "off" /\ sidecar = "none" /\ reader = "none"
    BY DEF LineInit, LineAtRest
  <1>4. StraysCounted
    BY DEF LineInit, LineAtRest, StraysCounted, Up
  <1>5. QED
    BY <1>1, <1>2, <1>3, <1>4 DEF LineInv, ReaderSound, Up

LEMMA StraysStay == LineInv /\ [LineNext]_lineVars => StraysCounted'
  <1> SUFFICES ASSUME LineInv, [LineNext]_lineVars
               PROVE  StraysCounted'
    OBVIOUS
  <1>0. StraysCounted /\ (channel = "off" => reader = "none")
    BY DEF LineInv, ReaderSound
  <1>1. CASE UNCHANGED <<sidecar, reader, stray, raised>>
    BY <1>0, <1>1 DEF StraysCounted, Up
  <1>2. CASE RunChannel
    BY <1>0, <1>2 DEF RunChannel, StraysCounted, Up
  <1>3. CASE SocketOpens \/ SocketCloses \/ SidecarDies
    BY <1>0, <1>3 DEF SocketOpens, SocketCloses, SidecarDies, StraysCounted, Up
  <1>4. CASE StrayDies
    BY <1>0, <1>4 DEF StrayDies, StraysCounted, Up
  <1>5. CASE ReaderLeaves
    <2>1. CASE sidecar = "dead" /\ UNCHANGED raised
      BY <1>0, <1>5, <2>1 DEF ReaderLeaves, StraysCounted, Up
    <2>2. CASE raised' = raised + 1
      BY <1>0, <1>5, <2>2 DEF ReaderLeaves, StraysCounted, Up
    <2>3. QED
      BY <1>5, <2>1, <2>2 DEF ReaderLeaves, HandlerRaises
  <1>6. CASE ReaderWakes
    BY <1>0, <1>6 DEF ReaderWakes, StraysCounted, Up
  <1>7. CASE ReaderStarts
    BY <1>0, <1>7 DEF ReaderStarts, StraysCounted, Up
  <1>8. CASE StopSidecar
    BY <1>0, <1>8 DEF StopSidecar, StraysCounted, Up
  <1>9. CASE GatewayAnew
    BY <1>0, <1>9 DEF GatewayAnew, StraysCounted, Up
  <1>10. CASE SaveCreds \/ Logout \/ BeginLogin \/ LoginIsScanned \/ LoginEnds \/ ChannelStops
    BY <1>1, <1>10 DEF SaveCreds, Logout, BeginLogin, LoginIsScanned, LoginEnds, ChannelStops
  <1>11. ASSUME NEW m \in Posts, Answer(m) \/ SendResult(m) \/ \E g \in BOOLEAN : OnMessage(m, g)
         PROVE  StraysCounted'
    BY <1>1, <1>11 DEF Answer, SendResult, OnMessage
  <1>12. ASSUME NEW p \in Parties, NEW t \in Tiers, SetTier(p, t)
         PROVE  StraysCounted'
    BY <1>1, <1>12 DEF SetTier
  <1>13. QED
    BY <1>1, <1>2, <1>3, <1>4, <1>5, <1>6, <1>7, <1>8, <1>9, <1>10, <1>11, <1>12
       DEF LineNext, lineVars

\* Messages, tiers and logins leave the channel and its processes alone.
LEMMA LineStays == LineInv /\ [LineNext]_lineVars => LineInv'
  <1> SUFFICES ASSUME LineInv, [LineNext]_lineVars, StraysCounted'
               PROVE  LineInv'
    BY StraysStay
  <1>0. /\ channel \in {"off", "running", "stopping", "ended"}
        /\ sidecar \in {"none", "up", "linked", "dead"}
        /\ halted \in BOOLEAN /\ fatal \in BOOLEAN /\ hasty \in BOOLEAN /\ misfires \in Nat
        /\ ReaderSound
    BY DEF LineInv
  <1>1. CASE UNCHANGED <<channel, halted, sidecar, reader, fatal, misfires, hasty>>
    BY <1>0, <1>1 DEF LineInv, ReaderSound, Up
  <1>2. CASE RunChannel
    BY <1>0, <1>2 DEF RunChannel, LineInv, ReaderSound, Up
  <1>3. CASE SocketOpens \/ SocketCloses \/ SidecarDies
    <2>1. /\ channel' = channel /\ halted' = halted /\ reader' = reader /\ hasty' = hasty
          /\ misfires' = misfires /\ (fatal' = fatal \/ fatal' = TRUE) /\ Up
          /\ sidecar' \in {"none", "up", "linked", "dead"}
      BY <1>0, <1>3 DEF SocketOpens, SocketCloses, SidecarDies, Up
    <2>2. channel \in {"running", "stopping"} \/ hasty
      BY <1>0, <2>1 DEF ReaderSound, Up
    <2>3. fatal' \in BOOLEAN /\ (fatal => fatal')
      <3>1. CASE fatal' = fatal
        BY <1>0, <3>1
      <3>2. CASE fatal' = TRUE
        BY <3>2
      <3>3. QED
        BY <2>1, <3>1, <3>2
    <2>4. ReaderSound'
      BY <1>0, <2>1, <2>2, <2>3 DEF ReaderSound, Up
    <2>5. QED
      BY <1>0, <2>1, <2>3, <2>4 DEF LineInv
  <1>4. CASE ReaderLeaves
    BY <1>0, <1>4 DEF ReaderLeaves, LineInv, ReaderSound, Up
  <1>5. CASE ReaderWakes
    BY <1>0, <1>5 DEF ReaderWakes, LineInv, ReaderSound, Up
  <1>6. CASE ReaderStarts
    <2>1. /\ channel' = channel /\ hasty' = hasty /\ fatal' = fatal /\ reader = "starting"
          /\ \/ /\ reader' = "reading" /\ sidecar' = "up" /\ halted' = FALSE
                /\ misfires' = misfires
             \/ /\ reader' = "none" /\ sidecar' = sidecar /\ halted' = halted
                /\ misfires' \in Nat /\ misfires' # 0
      BY <1>0, <1>6 DEF ReaderStarts
    <2>2. channel = "running" \/ hasty
      BY <1>0, <2>1 DEF ReaderSound
    <2>3. halted' \in BOOLEAN /\ (halted' => halted)
      <3>1. CASE halted' = halted
        BY <1>0, <3>1
      <3>2. CASE halted' = FALSE
        BY <3>2
      <3>3. QED
        BY <2>1, <3>1, <3>2
    <2>4. ReaderSound'
      BY <1>0, <2>1, <2>2, <2>3 DEF ReaderSound, Up
    <2>5. QED
      BY <1>0, <2>1, <2>3, <2>4 DEF LineInv
  <1>7. CASE ChannelStops
    BY <1>0, <1>7 DEF ChannelStops, LineInv, ReaderSound, Up
  <1>8. CASE StopSidecar
    BY <1>0, <1>8 DEF StopSidecar, LineInv, ReaderSound, Up
  <1>9. CASE GatewayAnew
    BY <1>0, <1>9 DEF GatewayAnew, LineInv, ReaderSound, Up
  <1>10. CASE SaveCreds \/ Logout \/ BeginLogin \/ LoginIsScanned \/ LoginEnds \/ StrayDies
    BY <1>1, <1>10 DEF SaveCreds, Logout, BeginLogin, LoginIsScanned, LoginEnds, StrayDies
  <1>11. ASSUME NEW m \in Posts, Answer(m) \/ SendResult(m) \/ \E g \in BOOLEAN : OnMessage(m, g)
         PROVE  LineInv'
    BY <1>1, <1>11 DEF Answer, SendResult, OnMessage
  <1>12. ASSUME NEW p \in Parties, NEW t \in Tiers, SetTier(p, t)
         PROVE  LineInv'
    BY <1>1, <1>12 DEF SetTier
  <1>13. QED
    BY <1>1, <1>2, <1>3, <1>4, <1>5, <1>6, <1>7, <1>8, <1>9, <1>10, <1>11, <1>12
       DEF LineNext, lineVars

LEMMA LineInvKeeps == LineInv => LineKept
  BY DEF LineInv, ReaderSound, StraysCounted, LineKept

\* A WhatsApp channel that has ended leaves no sidecar but those that exceptions in its
\* reader have made it lose, one each, and one that runs is not deaf for good without a
\* word, whatever dies, raises, reconnects, is stopped or started anew.
THEOREM LineIsKept == LineSpec => []LineKept
  <1>1. LineInv /\ [LineNext]_lineVars => LineInv'
    BY LineStays
  <1>2. QED
    BY <1>1, LineInitially, LineInvKeeps, PTL DEF LineSpec

-----------------------------------------------------------------------------
(* The memory index. *)

AtWork(c) == clerk[c].at # "idle"

\* What the index has of a note is what its file has.
Current(n) ==
    /\ row[n] = text[n]
    /\ \A p \in backlinks : p[1] = n => p \in LinksFrom(n, text[n])

\* The same of what a rebuild has not committed yet.
Copied(n) ==
    /\ rebuild.row[n] = text[n]
    /\ \A p \in rebuild.links : p[1] = n => p \in LinksFrom(n, text[n])

\* A rebuild that was disturbed by nothing has the files before it as they are.
AloneSound ==
    rebuild.alone =>
        /\ rebuild.at # "idle" /\ \A c \in Clerks : ~AtWork(c)
        /\ rebuild.at \in {"listed", "parsed", "inTx"} => rebuild.listed = OnDisk
        /\ rebuild.at = "listed" => rebuild.left = OnDisk
        /\ rebuild.at = "parsed" => /\ rebuild.left = OnDisk \ {rebuild.note}
                                    /\ rebuild.read = text[rebuild.note]
        /\ rebuild.at = "inTx" => \A n \in OnDisk \ rebuild.left : Copied(n)
        /\ rebuild.at = "synced" => \A n \in Notes : Current(n)

\* A link comes from a note that has a row.
LinksHaveRows ==
    /\ \A p \in backlinks : row[p[1]] > 0
    /\ rebuild.at = "inTx" => \A p \in rebuild.links : rebuild.row[p[1]] > 0
    /\ rebuild.at = "parsed" => rebuild.read > 0
    /\ \A c \in Clerks : clerk[c].at = "parsed" => clerk[c].read > 0

\* A command that nothing crossed, and what it still has to put right.
ClerkSound(c) ==
    AtWork(c) =>
        /\ clerk[c].note \in OnDisk
        /\ clerk[c].at = "parsed" => clerk[c].read = text[clerk[c].note]
        /\ clerk[c].at = "indexed" => Current(clerk[c].note)
        /\ clerk[c].link => clerk[c].note \in table

\* Unless the index has drifted, one is at work at most, and all but its note agrees.
InStep ==
    ~drifted =>
        /\ rebuild.at # "idle" => rebuild.alone
        /\ \A c, d \in Clerks : AtWork(c) /\ AtWork(d) => c = d
        /\ \A c \in Clerks : ClerkSound(c)
        /\ \A n \in Notes : (\A c \in Clerks : AtWork(c) => clerk[c].note # n) =>
               Current(n) /\ (n \in table <=> n \in OnDisk)

MemoryInv == MemoryTypeOK /\ AloneSound /\ LinksHaveRows /\ InStep

LEMMA RevisionsCount == \A rev \in Revisions : rev \in Nat
  BY MemoryIndexAssumption DEF Revisions

LEMMA LinksFromHere ==
    ASSUME NEW n, NEW rev
    PROVE  LinksFrom(n, rev) \subseteq NotePairs /\ \A p \in LinksFrom(n, rev) : p[1] = n
  BY DEF LinksFrom

\* An upsert changes the links from one note.
LEMMA UpsertedHere ==
    ASSUME NEW links, links \subseteq NotePairs, NEW n, NEW read
    PROVE  /\ Upserted(links, n, read) \subseteq NotePairs
           /\ \A p \in Upserted(links, n, read) :
                  IF p[1] = n THEN p \in LinksFrom(n, read) ELSE p \in links
  BY LinksFromHere DEF Upserted

ClerkRecord == [at : {"idle", "written", "parsed", "indexed"}, note : Notes, read : Revisions,
                link : BOOLEAN]

RebuildRecord == [at : {"idle", "listed", "parsed", "inTx", "synced"}, listed : SUBSET Notes,
                  left : SUBSET Notes, note : Notes, read : Revisions,
                  row : [Notes -> Revisions], links : SUBSET NotePairs, alone : BOOLEAN]

LEMMA DeskTyped ==
    /\ AtDesk \in ClerkRecord /\ AtDesk.at = "idle"
    /\ NoRebuild \in RebuildRecord /\ NoRebuild.at = "idle" /\ ~NoRebuild.alone
    /\ [n \in Notes |-> 0] \in [Notes -> Revisions]
  <1>1. 0 \in Revisions /\ (CHOOSE n \in Notes : TRUE) \in Notes
    BY MemoryIndexAssumption DEF Revisions
  <1>2. [n \in Notes |-> 0] \in [Notes -> Revisions]
    BY <1>1
  <1>3. QED
    BY <1>1, <1>2 DEF AtDesk, NoRebuild, ClerkRecord, RebuildRecord

LEMMA MemoryInitially == MemoryInit => MemoryInv
  <1> SUFFICES ASSUME MemoryInit
               PROVE  MemoryInv
    OBVIOUS
  <1>1. MemoryTypeOK
    BY DeskTyped DEF MemoryInit, MemoryTypeOK, ClerkRecord, RebuildRecord
  <1>2. /\ rebuild.at = "idle" /\ ~rebuild.alone /\ \A c \in Clerks : clerk[c].at = "idle"
        /\ backlinks = {} /\ table = {} /\ \A n \in Notes : row[n] = 0 /\ text[n] = 0
    BY DeskTyped DEF MemoryInit
  <1>3. QED
    BY <1>1, <1>2 DEF MemoryInv, AloneSound, LinksHaveRows, InStep, ClerkSound, AtWork, Current, OnDisk

\* What a step does to the commands, one of which moves, and to the rebuild.
LEMMA DisturbedSets ==
    ASSUME MemoryTypeOK, Disturbed
    PROVE  /\ rebuild' \in RebuildRecord /\ ~rebuild'.alone
           /\ \A f \in {"at", "listed", "left", "note", "read", "row", "links"} :
                  rebuild'[f] = rebuild[f]
  BY DEF Disturbed, MemoryTypeOK, RebuildRecord

LEMMA ClerkMoves ==
    ASSUME MemoryTypeOK, NEW c \in Clerks, NEW r \in ClerkRecord,
           clerk' = [clerk EXCEPT ![c] = r]
    PROVE  /\ clerk' \in [Clerks -> ClerkRecord]
           /\ clerk'[c] = r /\ \A d \in Clerks \ {c} : clerk'[d] = clerk[d]
  BY DEF MemoryTypeOK, ClerkRecord

LEMMA MemoryTyped == MemoryTypeOK /\ MemoryNext => MemoryTypeOK'
  <1> SUFFICES ASSUME MemoryTypeOK, MemoryNext
               PROVE  MemoryTypeOK'
    OBVIOUS
  <1>0. /\ text \in [Notes -> Revisions] /\ row \in [Notes -> Revisions]
        /\ backlinks \subseteq NotePairs /\ table \subseteq Notes /\ drifted \in BOOLEAN
        /\ clerk \in [Clerks -> ClerkRecord] /\ rebuild \in RebuildRecord
    BY DEF MemoryTypeOK, ClerkRecord, RebuildRecord
  <1> DEFINE Typed == /\ text' \in [Notes -> Revisions] /\ row' \in [Notes -> Revisions]
                      /\ backlinks' \subseteq NotePairs /\ table' \subseteq Notes
                      /\ drifted' \in BOOLEAN
                      /\ clerk' \in [Clerks -> ClerkRecord] /\ rebuild' \in RebuildRecord
  <1> SUFFICES Typed
    BY DEF MemoryTypeOK, ClerkRecord, RebuildRecord
  <1>1. ASSUME NEW n \in Notes, EditByHand(n)
        PROVE  Typed
    BY <1>0, <1>1, DisturbedSets DEF EditByHand
  <1>2. ASSUME NEW c \in Clerks, NEW n \in Notes, NEW link \in BOOLEAN, WriteNote(c, n, link)
        PROVE  Typed
    <2>1. [AtDesk EXCEPT !.at = "written", !.note = n, !.link = link] \in ClerkRecord
      BY DeskTyped DEF ClerkRecord
    <2>2. text' \in [Notes -> Revisions] /\ drifted' \in BOOLEAN
      BY <1>0, <1>2 DEF WriteNote
    <2>3. QED
      BY <1>0, <1>2, <2>1, <2>2, DisturbedSets, ClerkMoves DEF WriteNote
  <1>3. ASSUME NEW c \in Clerks, ParseNote(c)
        PROVE  Typed
    BY <1>0, <1>3 DEF ParseNote, ClerkRecord
  <1>4. ASSUME NEW c \in Clerks, UpsertNote(c)
        PROVE  Typed
    <2>1. clerk[c].note \in Notes /\ clerk[c].read \in Revisions
      BY <1>0 DEF ClerkRecord
    <2>2. backlinks' \subseteq NotePairs
      BY <1>0, <1>4, <2>1, UpsertedHere DEF UpsertNote
    <2>3. row' \in [Notes -> Revisions]
      BY <1>0, <1>4, <2>1 DEF UpsertNote
    <2>4. clerk' \in [Clerks -> ClerkRecord]
      BY <1>0, <1>4, DeskTyped DEF UpsertNote, ClerkRecord
    <2>5. QED
      BY <1>0, <1>4, <2>2, <2>3, <2>4, DisturbedSets DEF UpsertNote
  <1>5. ASSUME NEW c \in Clerks, ClerkTables(c) \/ ClerkFails(c)
        PROVE  Typed
    <2>1. clerk' \in [Clerks -> ClerkRecord]
      BY <1>0, <1>5, DeskTyped DEF ClerkTables, ClerkFails
    <2>2. QED
      BY <1>0, <1>5, <2>1, DisturbedSets DEF ClerkTables, ClerkFails, Rows
  <1>6. CASE ListNotes
    <2>1. rebuild' \in RebuildRecord
      BY <1>6, DeskTyped DEF ListNotes, RebuildRecord, OnDisk, Quiet
    <2>2. drifted' \in BOOLEAN
      BY <1>0, <1>6 DEF ListNotes
    <2>3. UNCHANGED <<text, row, backlinks, table, clerk>>
      BY <1>6 DEF ListNotes
    <2>4. QED
      BY <1>0, <2>1, <2>2, <2>3
  <1>7. ASSUME NEW n \in Notes, ParseFirst(n) \/ UpsertNext(n)
        PROVE  Typed
    <2>1. /\ text[n] \in Revisions /\ rebuild.links \subseteq NotePairs
          /\ rebuild.left \ {n} \in SUBSET Notes
          /\ [rebuild.row EXCEPT ![n] = text[n]] \in [Notes -> Revisions]
      BY <1>0 DEF RebuildRecord
    <2>2. Upserted(rebuild.links, n, text[n]) \subseteq NotePairs
      BY <2>1, UpsertedHere
    <2>3. ParseFirst(n) => rebuild' \in RebuildRecord
      BY <1>0, <2>1 DEF ParseFirst, RebuildRecord
    <2>4. UpsertNext(n) => rebuild' \in RebuildRecord
      BY <1>0, <2>1, <2>2 DEF UpsertNext, RebuildRecord
    <2>5. UNCHANGED <<text, row, backlinks, table, clerk, drifted>>
      BY <1>7 DEF ParseFirst, UpsertNext
    <2>6. QED
      BY <1>0, <1>7, <2>3, <2>4, <2>5
  <1>8. CASE UpsertFirst
    <2>1. rebuild.note \in Notes /\ rebuild.read \in Revisions /\ 0 \in Revisions
      BY <1>0, MemoryIndexAssumption DEF RebuildRecord, Revisions
    <2>2. /\ Upserted(backlinks, rebuild.note, rebuild.read) \subseteq NotePairs
          /\ [row EXCEPT ![rebuild.note] = rebuild.read] \in [Notes -> Revisions]
      BY <1>0, <2>1, UpsertedHere
    <2>3. rebuild' \in RebuildRecord
      BY <1>0, <1>8, <2>1, <2>2 DEF UpsertFirst, RebuildRecord
    <2>4. UNCHANGED <<text, row, backlinks, table, clerk, drifted>>
      BY <1>8 DEF UpsertFirst
    <2>5. QED
      BY <1>0, <2>3, <2>4
  <1>9. CASE DeleteMissing
    <2>1. /\ 0 \in Revisions /\ rebuild.row \in [Notes -> Revisions]
          /\ rebuild.links \subseteq NotePairs /\ rebuild.alone \in BOOLEAN
      BY <1>0, MemoryIndexAssumption DEF RebuildRecord, Revisions
    <2>2. row' \in [Notes -> Revisions] /\ backlinks' \subseteq NotePairs
      BY <1>0, <1>9, <2>1 DEF DeleteMissing
    <2>3. rebuild' \in RebuildRecord
      BY <1>9, <2>1, DeskTyped DEF DeleteMissing, RebuildRecord
    <2>4. UNCHANGED <<text, table, clerk, drifted>>
      BY <1>9 DEF DeleteMissing
    <2>5. QED
      BY <1>0, <2>2, <2>3, <2>4
  <1>10. CASE RebuildTables \/ RebuildFails
    <2>1. rebuild' \in RebuildRecord /\ UNCHANGED <<text, row, backlinks, clerk>>
      BY <1>10, DeskTyped DEF RebuildTables, RebuildFails
    <2>2. table' \subseteq Notes /\ drifted' \in BOOLEAN
      BY <1>0, <1>10 DEF RebuildTables, RebuildFails, Rows
    <2>3. QED
      BY <1>0, <2>1, <2>2
  <1>11. QED
    BY <1>1, <1>2, <1>3, <1>4, <1>5, <1>6, <1>7, <1>8, <1>9, <1>10 DEF MemoryNext

\* Of a step that does not touch the rebuild but to say that it is not alone.
LEMMA DisturbedSound ==
    ASSUME MemoryTypeOK, LinksHaveRows, Disturbed
    PROVE  /\ AloneSound' /\ rebuild'.at = rebuild.at
           /\ rebuild.at = "inTx" => \A p \in rebuild'.links : rebuild'.row[p[1]] > 0
           /\ rebuild.at = "parsed" => rebuild'.read > 0
  <1>1. /\ ~rebuild'.alone /\ rebuild'.at = rebuild.at /\ rebuild'.links = rebuild.links
        /\ rebuild'.row = rebuild.row /\ rebuild'.read = rebuild.read
    BY DisturbedSets
  <1>2. QED
    BY <1>1 DEF AloneSound, LinksHaveRows

\* The commands.
LEMMA CommandsKeep ==
    ASSUME MemoryInv, NEW c \in Clerks,
           \/ \E n \in Notes, link \in BOOLEAN : WriteNote(c, n, link)
           \/ ParseNote(c) \/ UpsertNote(c) \/ ClerkTables(c) \/ ClerkFails(c)
    PROVE  AloneSound' /\ LinksHaveRows' /\ InStep'
  <1>0. /\ MemoryTypeOK /\ AloneSound /\ LinksHaveRows /\ InStep
        /\ clerk \in [Clerks -> ClerkRecord] /\ rebuild \in RebuildRecord
        /\ \A n \in Notes : text[n] \in Nat /\ row[n] \in Nat
        /\ text \in [Notes -> Revisions] /\ row \in [Notes -> Revisions]
        /\ backlinks \subseteq NotePairs /\ table \subseteq Notes
        /\ clerk[c].note \in Notes /\ clerk[c].read \in Nat
    BY RevisionsCount DEF MemoryInv, MemoryTypeOK, ClerkRecord, RebuildRecord
  <1>1. ASSUME NEW n \in Notes, NEW link \in BOOLEAN, WriteNote(c, n, link)
        PROVE  AloneSound' /\ LinksHaveRows' /\ InStep'
    <2>1. /\ Disturbed /\ UNCHANGED <<row, backlinks, table>>
          /\ clerk[c].at = "idle" /\ (link => n \in OnDisk)
          /\ drifted' = (drifted \/ ~Quiet)
      BY <1>1 DEF WriteNote
    <2>2. PICK rev \in Revisions \ {0, text[n]} : text' = [text EXCEPT ![n] = rev]
      BY <1>1 DEF WriteNote
    <2>3. rev \in Nat /\ rev > 0 /\ text'[n] = rev /\ \A m \in Notes \ {n} : text'[m] = text[m]
      BY <1>0, <2>2, RevisionsCount
    <2>4. /\ clerk'[c].at = "written" /\ clerk'[c].note = n /\ clerk'[c].link = link
          /\ \A d \in Clerks \ {c} : clerk'[d] = clerk[d]
      <3>1. [AtDesk EXCEPT !.at = "written", !.note = n, !.link = link] \in ClerkRecord
        BY DeskTyped DEF ClerkRecord
      <3>2. AtDesk \in ClerkRecord
        BY DeskTyped
      <3>3. QED
        BY <1>0, <1>1, <3>1, <3>2, ClerkMoves DEF WriteNote, ClerkRecord
    <2>5. AloneSound' /\ rebuild'.at = rebuild.at
      BY <1>0, <2>1, DisturbedSound
    <2>6. LinksHaveRows'
      BY <1>0, <2>1, <2>4, <2>5, DisturbedSound DEF LinksHaveRows
    <2>7. ASSUME ~drifted'
          PROVE  InStep'
      <3>1. ~drifted /\ rebuild.at = "idle" /\ \A d \in Clerks : ~AtWork(d)
        BY <2>1, <2>7 DEF Quiet, AtWork
      <3>2. \A m \in Notes : Current(m) /\ (m \in table <=> m \in OnDisk)
        BY <1>0, <3>1 DEF InStep
      <3>3. \A d \in Clerks : AtWork(d)' <=> d = c
        BY <2>4, <3>1 DEF AtWork
      <3>4. \A m \in Notes \ {n} : Current(m)' /\ (m \in table' <=> m \in OnDisk')
        BY <2>1, <2>3, <3>2 DEF Current, OnDisk
      <3>5. n \in OnDisk' /\ (link => n \in table')
        BY <2>1, <2>3, <3>2 DEF OnDisk
      <3>6. \A d \in Clerks : ClerkSound(d)'
        BY <2>4, <3>3, <3>5 DEF ClerkSound
      <3>7. QED
        BY <2>4, <2>5, <3>1, <3>3, <3>4, <3>6 DEF InStep
    <2>8. QED
      BY <2>5, <2>6, <2>7 DEF InStep
  <1>2. ASSUME ParseNote(c)
        PROVE  AloneSound' /\ LinksHaveRows' /\ InStep'
    <2>1. /\ UNCHANGED <<text, row, backlinks, table, rebuild, drifted>>
          /\ clerk[c].at = "written" /\ clerk[c].note \in OnDisk
      BY <1>2 DEF ParseNote
    <2>2. /\ clerk'[c].at = "parsed" /\ clerk'[c].note = clerk[c].note
          /\ clerk'[c].link = clerk[c].link /\ clerk'[c].read = text[clerk[c].note]
          /\ \A d \in Clerks \ {c} : clerk'[d] = clerk[d]
      BY <1>0, <1>2 DEF ParseNote, ClerkRecord
    <2>3. AtWork(c) /\ ~rebuild.alone
      BY <1>0, <2>1 DEF AtWork, AloneSound
    <2>4. AloneSound'
      BY <2>1, <2>3 DEF AloneSound
    <2>5. LinksHaveRows'
      BY <1>0, <2>1, <2>2 DEF LinksHaveRows, OnDisk
    <2>6. \A d \in Clerks : (AtWork(d)' <=> AtWork(d)) /\ clerk'[d].note = clerk[d].note
      BY <2>2, <2>3 DEF AtWork
    <2>7. ASSUME ~drifted
          PROVE  \A d \in Clerks : ClerkSound(d)'
      BY <1>0, <2>1, <2>2, <2>3, <2>6, <2>7 DEF InStep, ClerkSound, OnDisk, Current, AtWork
    <2>8. InStep'
      BY <1>0, <2>1, <2>6, <2>7 DEF InStep, Current, OnDisk
    <2>9. QED
      BY <2>4, <2>5, <2>8
  <1>3. ASSUME UpsertNote(c)
        PROVE  AloneSound' /\ LinksHaveRows' /\ InStep'
    <2> DEFINE m == clerk[c].note
    <2>1. /\ UNCHANGED <<text, table, drifted>> /\ Disturbed
          /\ clerk[c].at = "parsed" /\ rebuild.at # "inTx"
          /\ backlinks' = Upserted(backlinks, m, clerk[c].read)
      BY <1>3 DEF UpsertNote
    <2>2. /\ clerk'[c].at = IF clerk[c].link THEN "idle" ELSE "indexed"
          /\ ~clerk[c].link => clerk'[c].note = m /\ clerk'[c].link = clerk[c].link
          /\ \A d \in Clerks \ {c} : clerk'[d] = clerk[d]
      BY <1>0, <1>3, DeskTyped DEF UpsertNote, ClerkRecord
    <2>3. row'[m] = clerk[c].read /\ \A n \in Notes \ {m} : row'[n] = row[n]
      BY <1>0, <1>3 DEF UpsertNote
    <2>4. \A p \in backlinks' : IF p[1] = m THEN p \in LinksFrom(m, clerk[c].read)
                                           ELSE p \in backlinks
      BY <1>0, <2>1, UpsertedHere
    <2>5. \A p \in backlinks : p[1] \in Notes
      BY <1>0 DEF NotePairs
    <2>6. AloneSound' /\ rebuild'.at = rebuild.at
      BY <1>0, <2>1, DisturbedSound
    <2>7. LinksHaveRows'
      <3>1. clerk[c].read > 0 /\ \A p \in backlinks : row[p[1]] > 0
        BY <1>0, <2>1 DEF LinksHaveRows
      <3>2. \A p \in backlinks' : row'[p[1]] > 0
        BY <2>3, <2>4, <2>5, <3>1
      <3>3. \A d \in Clerks : clerk'[d].at = "parsed" => clerk'[d].read > 0
        BY <1>0, <2>2 DEF LinksHaveRows
      <3>4. QED
        BY <1>0, <2>1, <2>6, <3>2, <3>3, DisturbedSound DEF LinksHaveRows
    <2>8. ASSUME ~drifted
          PROVE  InStep'
      <3>1. /\ AtWork(c) /\ ~rebuild.alone /\ rebuild.at = "idle"
            /\ \A d \in Clerks \ {c} : ~AtWork(d)
            /\ m \in OnDisk /\ clerk[c].read = text[m] /\ (clerk[c].link => m \in table)
        BY <1>0, <2>1, <2>8 DEF InStep, ClerkSound, AtWork, AloneSound
      <3>2. \A n \in Notes \ {m} : Current(n) /\ (n \in table <=> n \in OnDisk)
        BY <1>0, <2>8, <3>1 DEF InStep
      <3>3. \A n \in Notes : Current(n)'
        BY <2>1, <2>3, <2>4, <3>1, <3>2 DEF Current
      <3>4. /\ \A n \in Notes \ {m} : n \in table' <=> n \in OnDisk'
            /\ m \in OnDisk' /\ (clerk[c].link => m \in table')
        BY <2>1, <3>1, <3>2 DEF OnDisk
      <3>5. \A d \in Clerks : AtWork(d)' <=> d = c /\ ~clerk[c].link
        BY <2>2, <3>1 DEF AtWork
      <3>6. \A d \in Clerks : ClerkSound(d)'
        BY <2>2, <3>3, <3>4, <3>5, <1>0 DEF ClerkSound
      <3>7. QED
        BY <1>0, <2>2, <2>6, <3>1, <3>3, <3>4, <3>5, <3>6 DEF InStep
    <2>9. QED
      BY <2>1, <2>6, <2>7, <2>8 DEF InStep
  <1>4. ASSUME ClerkTables(c)
        PROVE  AloneSound' /\ LinksHaveRows' /\ InStep'
    <2>1. /\ UNCHANGED <<text, row, backlinks, rebuild, drifted>>
          /\ clerk[c].at = "indexed" /\ table' = Rows
      BY <1>4 DEF ClerkTables
    <2>2. clerk'[c].at = "idle" /\ \A d \in Clerks \ {c} : clerk'[d] = clerk[d]
      BY <1>0, <1>4, DeskTyped DEF ClerkTables
    <2>3. AtWork(c) /\ ~rebuild.alone
      BY <1>0, <2>1 DEF AtWork, AloneSound
    <2>4. AloneSound'
      BY <2>1, <2>3 DEF AloneSound
    <2>5. LinksHaveRows'
      BY <1>0, <2>1, <2>2 DEF LinksHaveRows
    <2>6. ASSUME ~drifted
          PROVE  InStep'
      <3>1. /\ \A d \in Clerks \ {c} : ~AtWork(d)
            /\ Current(clerk[c].note)
        BY <1>0, <2>1, <2>3, <2>6 DEF InStep, ClerkSound
      <3>2. \A n \in Notes : Current(n)
        BY <1>0, <2>6, <3>1 DEF InStep
      <3>3. \A n \in Notes : Current(n)' /\ (n \in table' <=> n \in OnDisk')
        BY <2>1, <3>2 DEF Current, Rows, OnDisk
      <3>4. \A d \in Clerks : ~AtWork(d)'
        BY <2>2, <3>1 DEF AtWork
      <3>5. QED
        BY <1>0, <2>1, <2>3, <2>6, <3>3, <3>4 DEF InStep, ClerkSound
    <2>7. QED
      BY <2>1, <2>4, <2>5, <2>6 DEF InStep
  <1>5. ASSUME ClerkFails(c)
        PROVE  AloneSound' /\ LinksHaveRows' /\ InStep'
    <2>1. /\ UNCHANGED <<text, row, backlinks, table>> /\ Disturbed /\ drifted' = TRUE
          /\ clerk'[c].at = "idle" /\ \A d \in Clerks \ {c} : clerk'[d] = clerk[d]
      BY <1>0, <1>5, DeskTyped DEF ClerkFails
    <2>2. LinksHaveRows'
      BY <1>0, <2>1, DisturbedSound DEF LinksHaveRows
    <2>3. QED
      BY <1>0, <2>1, <2>2, DisturbedSound DEF InStep
  <1>6. QED
    BY <1>1, <1>2, <1>3, <1>4, <1>5

\* The rebuild; a note whose frontmatter gives another slug loses its row in it.
LEMMA RebuildKeeps ==
    ASSUME Odd = {}, MemoryInv,
           \/ ListNotes \/ UpsertFirst \/ DeleteMissing \/ RebuildTables \/ RebuildFails
           \/ \E n \in Notes : ParseFirst(n) \/ UpsertNext(n)
    PROVE  AloneSound' /\ LinksHaveRows' /\ InStep'
  <1>0. /\ MemoryTypeOK /\ AloneSound /\ LinksHaveRows /\ InStep
        /\ rebuild \in RebuildRecord
        /\ \A n \in Notes : text[n] \in Nat /\ row[n] \in Nat
        /\ text \in [Notes -> Revisions] /\ row \in [Notes -> Revisions]
        /\ backlinks \subseteq NotePairs /\ table \subseteq Notes
        /\ rebuild.links \subseteq NotePairs /\ rebuild.row \in [Notes -> Revisions]
        /\ rebuild.note \in Notes /\ rebuild.read \in Nat
        /\ rebuild.left \subseteq Notes /\ OnDisk \subseteq Notes
    BY RevisionsCount DEF MemoryInv, MemoryTypeOK, RebuildRecord, OnDisk
  <1>1. CASE ListNotes
    <2>1. /\ UNCHANGED <<text, row, backlinks, table, clerk>>
          /\ drifted' = (drifted \/ ~Quiet)
      BY <1>1 DEF ListNotes
    <2>2. /\ rebuild'.at = "listed" /\ rebuild'.listed = OnDisk /\ rebuild'.left = OnDisk
          /\ rebuild'.alone = Quiet
      BY <1>1, DeskTyped DEF ListNotes, RebuildRecord
    <2>3. OnDisk' = OnDisk /\ (\A c \in Clerks : AtWork(c)' <=> AtWork(c))
      BY <2>1 DEF OnDisk, AtWork
    <2>4. AloneSound'
      BY <2>2, <2>3 DEF AloneSound, Quiet, AtWork
    <2>5. LinksHaveRows'
      BY <1>0, <2>1, <2>2 DEF LinksHaveRows
    <2>6. InStep'
      BY <1>0, <2>1, <2>2, <2>3 DEF InStep, ClerkSound, Current, AtWork
    <2>7. QED
      BY <2>4, <2>5, <2>6
  <1>2. ASSUME NEW n \in Notes, ParseFirst(n)
        PROVE  AloneSound' /\ LinksHaveRows' /\ InStep'
    <2>1. /\ UNCHANGED <<text, row, backlinks, table, clerk, drifted>>
          /\ rebuild.at = "listed" /\ n \in OnDisk
      BY <1>2 DEF ParseFirst
    <2>2. /\ rebuild'.at = "parsed" /\ rebuild'.note = n /\ rebuild'.read = text[n]
          /\ rebuild'.left = rebuild.left \ {n} /\ rebuild'.listed = rebuild.listed
          /\ rebuild'.alone = rebuild.alone
      BY <1>0, <1>2 DEF ParseFirst, RebuildRecord
    <2>3. OnDisk' = OnDisk /\ (\A c \in Clerks : AtWork(c)' <=> AtWork(c))
      BY <2>1 DEF OnDisk, AtWork
    <2>4. AloneSound'
      BY <1>0, <2>1, <2>2, <2>3 DEF AloneSound
    <2>5. LinksHaveRows'
      BY <1>0, <2>1, <2>2 DEF LinksHaveRows, OnDisk
    <2>6. InStep'
      BY <1>0, <2>1, <2>2, <2>3 DEF InStep, ClerkSound, Current, AtWork
    <2>7. QED
      BY <2>4, <2>5, <2>6
  <1>3. CASE UpsertFirst
    <2> DEFINE m == rebuild.note
    <2>1. /\ UNCHANGED <<text, row, backlinks, table, clerk, drifted>>
          /\ rebuild.at = "parsed"
      BY <1>3 DEF UpsertFirst
    <2>2. /\ rebuild'.at = "inTx" /\ rebuild'.row = [row EXCEPT ![m] = rebuild.read]
          /\ rebuild'.links = Upserted(backlinks, m, rebuild.read)
          /\ rebuild'.left = rebuild.left /\ rebuild'.listed = rebuild.listed
          /\ rebuild'.alone = rebuild.alone
      BY <1>0, <1>3 DEF UpsertFirst, RebuildRecord
    <2>3. OnDisk' = OnDisk /\ (\A c \in Clerks : AtWork(c)' <=> AtWork(c))
      BY <2>1 DEF OnDisk, AtWork
    <2>4. \A p \in rebuild'.links : p[1] \in Notes /\
              IF p[1] = m THEN p \in LinksFrom(m, rebuild.read) ELSE p \in backlinks
      BY <1>0, <2>2, UpsertedHere DEF NotePairs
    <2>5. rebuild'.row[m] = rebuild.read /\ \A x \in Notes \ {m} : rebuild'.row[x] = row[x]
      BY <1>0, <2>2
    <2>6. AloneSound'
      <3>1. rebuild.alone => rebuild.left = OnDisk \ {m} /\ rebuild.read = text[m]
        BY <1>0, <2>1 DEF AloneSound
      <3>2. rebuild.alone => \A x \in OnDisk \ rebuild.left : Copied(x)'
        BY <1>0, <2>1, <2>4, <2>5, <3>1 DEF Copied
      <3>3. QED
        BY <1>0, <2>1, <2>2, <2>3, <3>2 DEF AloneSound
    <2>7. LinksHaveRows'
      <3>1. rebuild.read > 0 /\ \A p \in backlinks : row[p[1]] > 0
        BY <1>0, <2>1 DEF LinksHaveRows
      <3>2. \A p \in rebuild'.links : rebuild'.row[p[1]] > 0
        BY <2>4, <2>5, <3>1
      <3>3. QED
        BY <1>0, <2>1, <2>2, <3>2 DEF LinksHaveRows
    <2>8. InStep'
      BY <1>0, <2>1, <2>2, <2>3 DEF InStep, ClerkSound, Current, AtWork
    <2>9. QED
      BY <2>6, <2>7, <2>8
  <1>4. ASSUME NEW n \in Notes, UpsertNext(n)
        PROVE  AloneSound' /\ LinksHaveRows' /\ InStep'
    <2>1. /\ UNCHANGED <<text, row, backlinks, table, clerk, drifted>>
          /\ rebuild.at = "inTx" /\ n \in OnDisk
      BY <1>4 DEF UpsertNext
    <2>2. /\ rebuild'.at = "inTx" /\ rebuild'.row = [rebuild.row EXCEPT ![n] = text[n]]
          /\ rebuild'.links = Upserted(rebuild.links, n, text[n])
          /\ rebuild'.left = rebuild.left \ {n} /\ rebuild'.listed = rebuild.listed
          /\ rebuild'.alone = rebuild.alone
      BY <1>0, <1>4 DEF UpsertNext, RebuildRecord
    <2>3. OnDisk' = OnDisk /\ (\A c \in Clerks : AtWork(c)' <=> AtWork(c))
      BY <2>1 DEF OnDisk, AtWork
    <2>4. \A p \in rebuild'.links : p[1] \in Notes /\
              IF p[1] = n THEN p \in LinksFrom(n, text[n]) ELSE p \in rebuild.links
      BY <1>0, <2>2, UpsertedHere DEF NotePairs
    <2>5. rebuild'.row[n] = text[n] /\ \A x \in Notes \ {n} : rebuild'.row[x] = rebuild.row[x]
      BY <1>0, <2>2
    <2>6. AloneSound'
      <3>1. rebuild.alone => \A x \in OnDisk \ rebuild.left : Copied(x)
        BY <1>0, <2>1 DEF AloneSound
      <3>2. rebuild.alone => \A x \in OnDisk \ rebuild'.left : Copied(x)'
        BY <1>0, <2>1, <2>2, <2>4, <2>5, <3>1 DEF Copied
      <3>3. QED
        BY <1>0, <2>1, <2>2, <2>3, <3>2 DEF AloneSound
    <2>7. LinksHaveRows'
      <3>1. text[n] > 0 /\ \A p \in rebuild.links : rebuild.row[p[1]] > 0
        BY <1>0, <2>1 DEF LinksHaveRows, OnDisk
      <3>2. \A p \in rebuild'.links : rebuild'.row[p[1]] > 0
        BY <2>4, <2>5, <3>1
      <3>3. QED
        BY <1>0, <2>1, <2>2, <3>2 DEF LinksHaveRows
    <2>8. InStep'
      BY <1>0, <2>1, <2>2, <2>3 DEF InStep, ClerkSound, Current, AtWork
    <2>9. QED
      BY <2>6, <2>7, <2>8
  <1>5. CASE DeleteMissing
    <2> DEFINE rows == IF rebuild.at = "inTx" THEN rebuild.row ELSE row
               links == IF rebuild.at = "inTx" THEN rebuild.links ELSE backlinks
    <2>1. /\ UNCHANGED <<text, table, clerk, drifted>>
          /\ rebuild.at \in {"listed", "inTx"} /\ rebuild.left = {}
          /\ row' = [n \in Notes |-> IF n \in Missing(rows) THEN 0 ELSE rows[n]]
          /\ backlinks' = {p \in links : p[1] \notin Missing(rows) /\ p[2] \notin Missing(rows)}
      BY <1>5 DEF DeleteMissing
    <2>2. rebuild'.at = "synced" /\ rebuild'.alone = rebuild.alone
      BY <1>0, <1>5, DeskTyped DEF DeleteMissing, RebuildRecord
    <2>3. OnDisk' = OnDisk /\ (\A c \in Clerks : AtWork(c)' <=> AtWork(c))
      BY <2>1 DEF OnDisk, AtWork
    <2>4. /\ \A p \in links : p[1] \in Notes /\ rows[p[1]] > 0
          /\ \A n \in Notes : rows[n] \in Nat
      BY <1>0, <2>1, RevisionsCount DEF LinksHaveRows, NotePairs
    <2>5. \A n \in Notes : n \in Missing(rows) <=> rows[n] > 0 /\ n \notin rebuild.listed
      BY DEF Missing
    <2>6. \A n \in Notes : row'[n] = IF n \in Missing(rows) THEN 0 ELSE rows[n]
      BY <2>1
    <2>7. \A p \in backlinks' : p \in links /\ p[1] \notin Missing(rows)
      BY <2>1
    <2>8. LinksHaveRows'
      <3>1. \A p \in backlinks' : row'[p[1]] > 0
        BY <2>4, <2>6, <2>7
      <3>2. QED
        BY <1>0, <2>1, <2>2, <3>1 DEF LinksHaveRows
    <2>9. ASSUME rebuild.alone
          PROVE  \A n \in Notes : Current(n)'
      <3>1. rebuild.listed = OnDisk
        BY <1>0, <2>1, <2>9 DEF AloneSound
      <3>2. \A n \in OnDisk : rebuild.at = "inTx" /\ Copied(n)
        BY <1>0, <2>1, <2>9 DEF AloneSound
      <3>3. SUFFICES ASSUME NEW n \in Notes
                     PROVE  Current(n)'
        OBVIOUS
      <3>4. CASE n \in OnDisk
        <4>1. n \notin Missing(rows) /\ rebuild.at = "inTx" /\ Copied(n)
          BY <2>5, <3>1, <3>2, <3>4
        <4>2. row'[n] = text[n]
          BY <2>6, <4>1 DEF Copied
        <4>3. \A p \in backlinks' : p[1] = n => p \in LinksFrom(n, text[n])
          BY <2>7, <4>1 DEF Copied
        <4>4. QED
          BY <2>1, <4>2, <4>3 DEF Current
      <3>5. CASE n \notin OnDisk
        <4>1. text[n] = 0 /\ n \notin rebuild.listed
          BY <1>0, <3>1, <3>5 DEF OnDisk
        <4>2. row'[n] = 0
          BY <2>4, <2>5, <2>6, <4>1
        <4>3. \A p \in backlinks' : p[1] # n
          BY <2>4, <2>5, <2>7, <4>1
        <4>4. QED
          BY <2>1, <4>1, <4>2, <4>3 DEF Current
      <3>6. QED
        BY <3>4, <3>5
    <2>10. AloneSound'
      BY <1>0, <2>2, <2>3, <2>9 DEF AloneSound
    <2>11. ASSUME ~drifted
           PROVE  InStep'
      <3>1. rebuild.alone /\ \A c \in Clerks : ~AtWork(c)
        BY <1>0, <2>1, <2>11 DEF InStep, AloneSound
      <3>2. \A n \in Notes : n \in table' <=> n \in OnDisk'
        BY <1>0, <2>1, <2>3, <2>11, <3>1 DEF InStep
      <3>3. QED
        BY <2>2, <2>3, <2>9, <3>1, <3>2 DEF InStep, ClerkSound
    <2>12. QED
      BY <2>1, <2>8, <2>10, <2>11 DEF InStep
  <1>6. CASE RebuildTables
    <2>1. /\ UNCHANGED <<text, row, backlinks, clerk>> /\ table' = Rows
          /\ rebuild.at = "synced" /\ drifted' = (drifted /\ ~rebuild.alone)
          /\ rebuild'.at = "idle" /\ ~rebuild'.alone
      BY <1>6, DeskTyped DEF RebuildTables
    <2>2. LinksHaveRows'
      BY <1>0, <2>1 DEF LinksHaveRows
    <2>3. ASSUME ~drifted'
          PROVE  InStep'
      <3>1. rebuild.alone
        BY <1>0, <2>1, <2>3 DEF InStep
      <3>2. (\A c \in Clerks : ~AtWork(c)) /\ \A n \in Notes : Current(n)
        BY <1>0, <2>1, <3>1 DEF AloneSound
      <3>3. \A n \in Notes : Current(n)' /\ (n \in table' <=> n \in OnDisk')
        BY <2>1, <3>2 DEF Current, Rows, OnDisk
      <3>4. \A c \in Clerks : ~AtWork(c)'
        BY <2>1, <3>2 DEF AtWork
      <3>5. QED
        BY <2>1, <3>3, <3>4 DEF InStep, ClerkSound
    <2>4. QED
      BY <2>1, <2>2, <2>3 DEF InStep, AloneSound
  <1>7. CASE RebuildFails
    <2>1. /\ UNCHANGED <<text, row, backlinks, table, clerk>> /\ drifted' = TRUE
          /\ rebuild'.at = "idle" /\ ~rebuild'.alone
      BY <1>7, DeskTyped DEF RebuildFails
    <2>2. QED
      BY <1>0, <2>1 DEF LinksHaveRows, AloneSound, InStep
  <1>8. QED
    BY <1>1, <1>2, <1>3, <1>4, <1>5, <1>6, <1>7

LEMMA MemoryStays == Odd = {} /\ MemoryInv /\ [MemoryNext]_memoryVars => MemoryInv'
  <1> SUFFICES ASSUME Odd = {}, MemoryInv, [MemoryNext]_memoryVars
               PROVE  MemoryInv'
    OBVIOUS
  <1>1. CASE UNCHANGED memoryVars
    BY <1>1 DEF memoryVars, MemoryInv, MemoryTypeOK, AloneSound, LinksHaveRows, InStep, ClerkSound,
       Current, Copied, AtWork, OnDisk
  <1>2. CASE MemoryNext
    <2>1. MemoryTypeOK'
      BY <1>2, MemoryTyped DEF MemoryInv
    <2>2. ASSUME NEW n \in Notes, EditByHand(n)
          PROVE  AloneSound' /\ LinksHaveRows' /\ InStep'
      <3>1. Disturbed /\ drifted' = TRUE /\ UNCHANGED <<row, backlinks, table, clerk>>
        BY <2>2 DEF EditByHand
      <3>2. QED
        BY <3>1, DisturbedSound DEF MemoryInv, LinksHaveRows, InStep
    <2>3. AloneSound' /\ LinksHaveRows' /\ InStep'
      BY <1>2, <2>2, CommandsKeep, RebuildKeeps DEF MemoryNext
    <2>4. QED
      BY <2>1, <2>3 DEF MemoryInv
  <1>3. QED
    BY <1>1, <1>2

LEMMA MemoryInvKeeps == MemoryInv => IndexFollows
  <1> SUFFICES ASSUME MemoryInv, Quiet, ~drifted
               PROVE  /\ \A n \in Notes : row[n] = text[n]
                      /\ backlinks \subseteq LinksOfFiles
                      /\ table = OnDisk
    BY DEF IndexFollows
  <1>1. \A n \in Notes : Current(n) /\ (n \in table <=> n \in OnDisk)
    BY DEF MemoryInv, InStep, Quiet, AtWork
  <1>2. \A p \in backlinks : p[1] \in Notes
    BY DEF MemoryInv, MemoryTypeOK, NotePairs
  <1>3. table \subseteq Notes /\ OnDisk \subseteq Notes
    BY DEF MemoryInv, MemoryTypeOK, OnDisk
  <1>4. QED
    BY <1>1, <1>2, <1>3 DEF Current, LinksOfFiles

\* Commands that do not overlap keep the index in step with the files, and a rebuild
\* that nothing disturbs brings it back from whatever was left behind; no note gives
\* another slug than its path.
THEOREM IndexIsKept == ASSUME Odd = {} PROVE MemorySpec => []IndexFollows
  <1>1. MemoryInv /\ [MemoryNext]_memoryVars => MemoryInv'
    BY MemoryStays
  <1>2. QED
    BY <1>1, MemoryInitially, MemoryInvKeeps, PTL DEF MemorySpec

-----------------------------------------------------------------------------
(* Dreams: what was replaced is kept once, and windows are joined.         *)

Numbers == 1..MaxDreams

\* A reported end is a moment that was dreamt, and the window under way goes forward
\* and, unless a replay was begun apart, touches what was reported before.
WindowsJoin ==
    /\ (reports = {}) <=> (dreamt = {})
    /\ \A r \in reports : r.to \in dreamt
    /\ \A t \in dreamt : t <= dreams
    /\ dream # Nobody =>
          /\ dream.from < dream.to /\ dream.to <= dreams
          /\ ~skipped /\ dreamt # {} =>
                \E t \in dreamt : dream.from <= t /\ t <= dream.to + 1

\* What stands at one path and what dreams replaced there: a dream replaces what was
\* there before it, once; what it wrote, or what a later one found of it, is kept; and
\* what was rejected neither stands nor is waiting to be put back.
Standing(p) ==
    /\ \A n \in Numbers : n > dreams => retained[n][p] = Unkept
    /\ \A n \in Numbers : note[p] = n => retained[n][p] # Unkept
    /\ \A n, m \in Numbers : retained[n][p] = m => m < n /\ retained[m][p] # Unkept
    /\ p \notin unordered =>
          \A n, m \in Numbers : retained[n][p] = m => retained[m][p] # Rejected
    /\ p \notin unordered => \A n \in Numbers : retained[n][p] = Rejected => note[p] # n
    /\ p \in Drafts => \A n \in Numbers : retained[n][p] \in {Unkept, Rejected, 0}
    /\ dream # Nobody /\ p \in dream.todo => retained[dreams][p] = Unkept

DreamInv ==
    /\ DreamTypeOK /\ (dream # Nobody => dreams \in Numbers)
    /\ WindowsCover /\ WindowsJoin
    /\ \A p \in Artifacts : Standing(p)

\* Keeping what a path held changes one entry of what is retained.
LEMMA RetainedAt ==
    ASSUME DreamTypeOK, NEW n \in Numbers, NEW p \in Artifacts, NEW v \in Rejected..Own,
           retained' = [retained EXCEPT ![n][p] = v]
    PROVE  /\ retained' \in [Numbers -> [Artifacts -> Rejected..Own]]
           /\ retained'[n][p] = v
           /\ \A m \in Numbers, q \in Artifacts :
                 m # n \/ q # p => retained'[m][q] = retained[m][q]
  <1>1. retained \in [Numbers -> [Artifacts -> Rejected..Own]]
    BY DEF DreamTypeOK, Numbers
  <1>2. retained' = [retained EXCEPT ![n] = [retained[n] EXCEPT ![p] = v]]
    OBVIOUS
  <1>3. /\ retained[n] \in [Artifacts -> Rejected..Own]
        /\ [retained[n] EXCEPT ![p] = v] \in [Artifacts -> Rejected..Own]
    BY <1>1
  <1>4. QED
    BY <1>1, <1>2, <1>3

\* A path that a step leaves alone stands as before.
LEMMA StandsAsBefore ==
    ASSUME NEW p \in Artifacts, Standing(p),
           note'[p] = note[p], \A n \in Numbers : retained'[n][p] = retained[n][p],
           dreams' = dreams, p \in unordered => p \in unordered',
           dream' # Nobody /\ p \in dream'.todo => dream # Nobody /\ p \in dream.todo,
           dream # Nobody => dreams \in Numbers
    PROVE  Standing(p)'
  BY DEF Standing

\* What it replaces is kept by the dream under way.
LEMMA KeepStands ==
    ASSUME DreamTypeOK, NEW p \in Artifacts, Standing(p), dreams \in Numbers,
           dream # Nobody, p \in dream.todo, p \in Drafts => note[p] = 0, Keep(p),
           dreams' = dreams, unordered' = unordered, note'[p] \in {note[p], dreams},
           dream' # Nobody => p \notin dream'.todo
    PROVE  Standing(p)'
  <1>1. note[p] \in 0..Own /\ MaxDreams \in Nat /\ Own = MaxDreams + 1 /\ dreams \in Nat
    BY DreamAssumption DEF DreamTypeOK, Own
  <1>2. Unkept = -1 /\ Rejected = -2
    BY DEF Unkept, Rejected
  <1>3. note[p] \in Rejected..Own
    BY <1>1, <1>2
  <1>4. /\ retained'[dreams][p] = note[p]
        /\ \A m \in Numbers : m # dreams => retained'[m][p] = retained[m][p]
    BY <1>3, RetainedAt DEF Keep
  <1>5. retained[dreams][p] = Unkept
    BY DEF Standing
  <1>6. \A n \in Numbers : n \in Nat /\ n # 0
    BY DEF Numbers
  <1>7. note[p] # dreams
    BY <1>5 DEF Standing
  <1>8. \A n \in Numbers : note[p] = n => n < dreams
    <2>1. \A n \in Numbers : n > dreams => retained[n][p] = Unkept
      BY DEF Standing
    <2>2. \A n \in Numbers : note[p] = n => retained[n][p] # Unkept
      BY DEF Standing
    <2>3. QED
      BY <2>1, <2>2, <1>1, <1>6, <1>7
  <1>9. retained'[dreams][p] # Unkept /\ retained'[dreams][p] # Rejected
    BY <1>1, <1>2, <1>4
  <1>10. \A n \in Numbers : n > dreams => retained'[n][p] = Unkept
    BY <1>1, <1>4, <1>6 DEF Standing
  <1>11. \A n \in Numbers : note'[p] = n => retained'[n][p] # Unkept
    BY <1>4, <1>9 DEF Standing
  <1>12. \A n, m \in Numbers : retained'[n][p] = m => m < n /\ retained'[m][p] # Unkept
    BY <1>4, <1>8, <1>9 DEF Standing
  <1>13. p \notin unordered =>
            \A n, m \in Numbers : retained'[n][p] = m => retained'[m][p] # Rejected
    BY <1>4, <1>9 DEF Standing
  <1>14. p \notin unordered => \A n \in Numbers : retained'[n][p] = Rejected => note'[p] # n
    BY <1>4, <1>9 DEF Standing
  <1>15. p \in Drafts => \A n \in Numbers : retained'[n][p] \in {Unkept, Rejected, 0}
    BY <1>4 DEF Standing
  <1>16. dream' # Nobody /\ p \in dream'.todo => retained'[dreams'][p] = Unkept
    OBVIOUS
  <1>17. dreams' = dreams /\ unordered' = unordered
    OBVIOUS
  <1>18. QED
    BY <1>10, <1>11, <1>12, <1>13, <1>14, <1>15, <1>16, <1>17 DEF Standing

\* What was replaced goes back over what stands.
LEMMA RejectionStands ==
    ASSUME DreamTypeOK, NEW n \in Numbers, NEW p \in Artifacts, Standing(p), RejectDreamt(n, p),
           dream # Nobody => dreams \in Numbers
    PROVE  Standing(p)'
  <1>1. /\ retained[n][p] \in Rejected..Own /\ MaxDreams \in Nat /\ dreams \in Nat
        /\ Unkept = -1 /\ Rejected = -2 /\ Own = MaxDreams + 1 /\ Rejected \in Rejected..Own
    BY DreamAssumption DEF DreamTypeOK, Own, Unkept, Rejected, Numbers
  <1>2. /\ retained'[n][p] = Rejected
        /\ \A m \in Numbers : m # n => retained'[m][p] = retained[m][p]
    BY <1>1, RetainedAt DEF RejectDreamt
  <1>3. /\ note'[p] = retained[n][p] /\ dreams' = dreams /\ dream' = dream
        /\ unordered \subseteq unordered'
        /\ retained[n][p] # Unkept /\ retained[n][p] # Rejected
    BY DEF RejectDreamt, DreamTypeOK
  <1>4. p \notin unordered' => ~\E m \in (n + 1)..MaxDreams : retained[m][p] = n
    BY DEF RejectDreamt
  <1>5. \A m \in Numbers : m \in Nat /\ m <= MaxDreams /\ m # Rejected /\ m # Unkept
    BY <1>1 DEF Numbers
  <1>6. p \notin unordered' => \A m \in Numbers : retained[m][p] # n
    <2>1. \A m \in Numbers : retained[m][p] = n => n < m
      BY DEF Standing
    <2>2. \A m \in Numbers : n < m => m \in (n + 1)..MaxDreams
      BY <1>5, <1>1
    <2>3. QED
      BY <2>1, <2>2, <1>4
  <1>7. \A m \in Numbers : m > dreams => retained'[m][p] = Unkept
    BY <1>2, <1>3 DEF Standing
  <1>8. \A m \in Numbers : note'[p] = m => retained'[m][p] # Unkept
    <2>1. TAKE m \in Numbers
    <2>2. HAVE note'[p] = m
    <2>3. retained[m][p] # Unkept
      BY <2>2, <1>3 DEF Standing
    <2>4. CASE m = n
      BY <2>4, <1>1, <1>2
    <2>5. CASE m # n
      BY <2>3, <2>5, <1>2
    <2>6. QED
      BY <2>4, <2>5
  <1>9. \A m, k \in Numbers : retained'[m][p] = k => k < m /\ retained'[k][p] # Unkept
    <2>1. TAKE m, k \in Numbers
    <2>2. HAVE retained'[m][p] = k
    <2>3. m # n /\ retained[m][p] = k
      BY <2>2, <1>2, <1>5
    <2>4. k < m /\ retained[k][p] # Unkept
      BY <2>3 DEF Standing
    <2>5. QED
      BY <2>4, <1>1, <1>2
  <1>10. p \notin unordered' =>
            \A m, k \in Numbers : retained'[m][p] = k => retained'[k][p] # Rejected
    BY <1>2, <1>3, <1>5, <1>6 DEF Standing
  <1>11. p \notin unordered' => \A m \in Numbers : retained'[m][p] = Rejected => note'[p] # m
    <2>1. HAVE p \notin unordered'
    <2>2. TAKE m \in Numbers
    <2>3. HAVE retained'[m][p] = Rejected
    <2>4. SUFFICES ASSUME retained[n][p] = m PROVE FALSE
      BY <1>3
    <2>5. m # n
      BY <2>4 DEF Standing, Numbers
    <2>6. retained[m][p] = Rejected
      BY <2>3, <2>5, <1>2
    <2>7. QED
      BY <2>1, <2>4, <2>6, <1>3 DEF Standing
  <1>12. p \in Drafts => \A m \in Numbers : retained'[m][p] \in {Unkept, Rejected, 0}
    BY <1>2 DEF Standing
  <1>13. dream' # Nobody /\ p \in dream'.todo => retained'[dreams'][p] = Unkept
    BY <1>2, <1>3 DEF Standing
  <1>14. QED
    BY <1>3, <1>7, <1>8, <1>9, <1>10, <1>11, <1>12, <1>13 DEF Standing

\* An action that neither writes nor keeps: the paths stand.
LEMMA PathsStand ==
    ASSUME DreamTypeOK, dream # Nobody => dreams \in Numbers, dreams' = dreams,
           note' = note, retained' = retained, unordered' = unordered,
           \/ dream' = Nobody \/ dream' = dream,
           \A p \in Artifacts : Standing(p)
    PROVE  \A p \in Artifacts : Standing(p)'
  BY DEF Standing

\* A dream that begins has kept nothing yet.
LEMMA BeginStands ==
    ASSUME DreamTypeOK, dream = Nobody, dreams < MaxDreams, dreams' = dreams + 1,
           note' = note, retained' = retained, unordered' = unordered,
           \A p \in Artifacts : Standing(p)
    PROVE  dreams' \in Numbers /\ \A p \in Artifacts : Standing(p)'
  <1>1. dreams \in Nat /\ MaxDreams \in Nat
    BY DreamAssumption DEF DreamTypeOK
  <1>2. dreams' \in Numbers /\ dreams' > dreams
    BY <1>1 DEF Numbers
  <1>3. \A n \in Numbers : n \in Nat
    BY DEF Numbers
  <1>4. ASSUME NEW p \in Artifacts PROVE Standing(p)'
    <2>1. Standing(p)
      OBVIOUS
    <2>2. \A n \in Numbers : n > dreams' => n > dreams
      BY <1>1, <1>3
    <2>3. \A n \in Numbers : n > dreams => retained[n][p] = Unkept
      BY <2>1 DEF Standing
    <2>4. retained[dreams'][p] = Unkept
      BY <2>3, <1>2
    <2>5. QED
      BY <2>1, <2>2, <2>3, <2>4 DEF Standing
  <1>5. QED
    BY <1>2, <1>4

\* A window that touches what was reported, or is the first, leaves no moment out.
LEMMA WindowsJoined ==
    ASSUME DreamTypeOK, WindowsCover, ~skipped, NEW from \in Nat, NEW to \in Nat, from < to,
           dreamt # {} => \E t \in dreamt : from <= t /\ t <= to + 1
    PROVE  \A a, b \in dreamt \cup ((from + 1)..to) : a..b \subseteq dreamt \cup ((from + 1)..to)
  <1> DEFINE joined == dreamt \cup ((from + 1)..to)
  <1>1. \A t \in dreamt : t \in Nat
    BY DreamAssumption DEF DreamTypeOK
  <1>2. \A a, b \in dreamt : a..b \subseteq dreamt
    BY DEF WindowsCover
  <1>3. SUFFICES ASSUME NEW a \in joined, NEW b \in joined, NEW x \in a..b PROVE x \in joined
    OBVIOUS
  <1>4. a \in Nat /\ b \in Nat /\ x \in Nat /\ a <= x /\ x <= b
    BY <1>1
  <1>5. CASE a \in dreamt /\ b \in dreamt
    BY <1>2, <1>5
  <1>6. CASE a \notin dreamt /\ b \notin dreamt
    BY <1>4, <1>6
  <1>7. CASE a \in dreamt /\ b \notin dreamt
    <2>1. PICK t \in dreamt : from <= t /\ t <= to + 1
      BY <1>7
    <2>2. b \in (from + 1)..to
      BY <1>7
    <2>3. CASE x > from
      BY <2>2, <2>3, <1>4
    <2>4. CASE x <= from
      <3>1. x \in a..t
        BY <2>1, <2>4, <1>1, <1>4
      <3>2. QED
        BY <3>1, <1>2, <1>7
    <2>5. QED
      BY <2>3, <2>4, <1>4
  <1>8. CASE a \notin dreamt /\ b \in dreamt
    <2>1. PICK t \in dreamt : from <= t /\ t <= to + 1
      BY <1>8
    <2>2. a \in (from + 1)..to
      BY <1>8
    <2>3. CASE x <= to
      BY <2>2, <2>3, <1>4
    <2>4. CASE x > to
      <3>1. x \in t..b
        BY <2>1, <2>4, <1>1, <1>4
      <3>2. QED
        BY <3>1, <1>2, <1>8
    <2>5. QED
      BY <2>3, <2>4, <1>4
  <1>9. QED
    BY <1>5, <1>6, <1>7, <1>8

\* What leaves the reports and the one under way alone, or ends it, leaves the windows.
LEMMA WindowsAsBefore ==
    ASSUME WindowsCover, WindowsJoin, dreams' = dreams, reports' = reports, dreamt' = dreamt,
           skipped' = skipped,
           \/ dream' = Nobody
           \/ /\ dream # Nobody
              /\ dream'.from = dream.from /\ dream'.to = dream.to
           \/ dream' = dream
    PROVE  (WindowsCover /\ WindowsJoin)'
  BY DEF WindowsCover, WindowsJoin

LEMMA DreamInitially == DreamInit => DreamInv
  <1>1. SUFFICES ASSUME DreamInit PROVE DreamInv
    OBVIOUS
  <1>2. MaxDreams \in Nat /\ Unkept \in Rejected..Own /\ Unkept # Rejected /\ 0 \in 0..Own
        /\ 0 \in 0..MaxDreams /\ 0 \notin Numbers /\ Unkept \notin Numbers
    BY DreamAssumption DEF Unkept, Rejected, Own, Numbers
  <1>3. /\ dreams = 0 /\ dream = Nobody /\ reports = {} /\ dreamt = {} /\ skipped \in BOOLEAN
        /\ note = [p \in Artifacts |-> 0]
        /\ unordered = {}
    BY <1>1 DEF DreamInit
  <1>4. retained = [n \in 1..MaxDreams |-> [p \in Artifacts |-> Unkept]]
    BY <1>1 DEF DreamInit
  <1>5. /\ \A p \in Artifacts : note[p] = 0
        /\ \A n \in Numbers, p \in Artifacts : retained[n][p] = Unkept
    BY <1>3, <1>4 DEF Numbers
  <1>6. \A p \in Artifacts : Standing(p)
    BY <1>2, <1>3, <1>5 DEF Standing
  <1>7. retained \in [1..MaxDreams -> [Artifacts -> Rejected..Own]]
    BY <1>2, <1>4 DEF Numbers
  <1>8. dream \in [at : {"none", "writing"}, from : 0..MaxDreams, to : 0..MaxDreams,
                   replay : BOOLEAN, todo : SUBSET Artifacts]
    BY <1>2, <1>3 DEF Nobody
  <1>9. note \in [Artifacts -> 0..Own]
    BY <1>2, <1>3
  <1>10. DreamTypeOK
    BY <1>2, <1>3, <1>7, <1>8, <1>9 DEF DreamTypeOK
  <1>11. WindowsCover /\ WindowsJoin
    BY <1>3 DEF WindowsCover, WindowsJoin
  <1>12. QED
    BY <1>3, <1>6, <1>10, <1>11 DEF DreamInv

LEMMA DreamStays == DreamInv /\ [DreamNext]_dreamVars => DreamInv'
  <1> SUFFICES ASSUME DreamInv, [DreamNext]_dreamVars PROVE DreamInv'
    OBVIOUS
  <1> DEFINE Goal == DreamInv'
             Windows == (WindowsCover /\ WindowsJoin)'
             Paths == \A p \in Artifacts : Standing(p)'
             Typed == DreamTypeOK' /\ (dream # Nobody => dreams \in Numbers)'
  <1>1. /\ DreamTypeOK /\ (dream # Nobody => dreams \in Numbers)
        /\ WindowsCover /\ WindowsJoin /\ \A p \in Artifacts : Standing(p)
    BY DEF DreamInv
  <1>2. MaxDreams \in Nat /\ dreams \in Nat /\ Unkept = -1 /\ Rejected = -2
        /\ Own = MaxDreams + 1
    BY <1>1, DreamAssumption DEF DreamTypeOK, Unkept, Rejected, Own
  <1>3. SUFFICES Typed /\ Windows /\ Paths
    BY DEF DreamInv
  <1>4. /\ dreams \in 0..MaxDreams
        /\ dream \in [at : {"none", "writing"}, from : 0..MaxDreams, to : 0..MaxDreams,
                     replay : BOOLEAN, todo : SUBSET Artifacts]
        /\ reports \subseteq [replay : BOOLEAN, to : 0..MaxDreams]
        /\ dreamt \subseteq 1..MaxDreams /\ skipped \in BOOLEAN
        /\ note \in [Artifacts -> 0..Own]
        /\ retained \in [1..MaxDreams -> [Artifacts -> Rejected..Own]]
        /\ unordered \subseteq Artifacts
    BY <1>1 DEF DreamTypeOK
  <1>5. Nobody \in [at : {"none", "writing"}, from : 0..MaxDreams, to : 0..MaxDreams,
                    replay : BOOLEAN, todo : SUBSET Artifacts]
    BY <1>2 DEF Nobody
  <1>6. ASSUME NEW from \in 0..MaxDreams, NEW to \in 0..MaxDreams, NEW replay \in BOOLEAN,
               NEW found \in Findings, from < to, to <= dreams + 1,
               dream = Nobody, dreams < MaxDreams, dreams' = dreams + 1,
               dream' = [at |-> "writing", from |-> from, to |-> to, replay |-> replay,
                         todo |-> found],
               skipped' \in BOOLEAN, skipped => skipped',
               ~skipped' /\ dreamt # {} =>
                  \E t \in dreamt : from <= t /\ t <= to + 1,
               reports' = reports, dreamt' = dreamt, note' = note, retained' = retained,
               unordered' = unordered
        PROVE  Typed /\ Windows /\ Paths
    <2>1. dreams' \in Numbers /\ Paths
      BY <1>1, <1>6, BeginStands
    <2>2. dreams' \in 0..MaxDreams
      BY <1>2, <1>6
    <2>3. dream' \in [at : {"none", "writing"}, from : 0..MaxDreams, to : 0..MaxDreams,
                      replay : BOOLEAN, todo : SUBSET Artifacts]
      BY <1>6 DEF Findings
    <2>4. Typed
      BY <1>4, <1>6, <2>1, <2>2, <2>3 DEF DreamTypeOK
    <2>5. WindowsCover'
      BY <1>1, <1>6 DEF WindowsCover
    <2>6. dream'.from = from /\ dream'.to = to
      BY <1>6
    <2>7. \A t \in dreamt : t <= dreams'
      BY <1>1, <1>2, <1>4, <1>6 DEF WindowsJoin
    <2>8. WindowsJoin'
      BY <1>1, <1>6, <2>6, <2>7 DEF WindowsJoin
    <2>9. QED
      BY <2>1, <2>4, <2>5, <2>8
  <1>7. CASE LiveDream
    <2>1. PICK found \in Findings, start \in WindowStart(dreams + 1) :
             dream' = [at |-> "writing", from |-> start, to |-> dreams + 1, replay |-> FALSE,
                       todo |-> found]
      BY <1>7 DEF LiveDream
    <2>2. /\ dream = Nobody /\ dreams < MaxDreams /\ dreams' = dreams + 1
          /\ reports' = reports /\ dreamt' = dreamt /\ skipped' = skipped /\ note' = note
          /\ retained' = retained /\ unordered' = unordered
      BY <1>7 DEF LiveDream
    <2>3. CASE reports = {}
      <3>1. start = dreams
        BY <2>3, <1>2 DEF WindowStart
      <3>2. dreamt = {} /\ start \in 0..MaxDreams /\ start < dreams + 1
        BY <3>1, <2>3, <1>1, <1>2, <1>4 DEF WindowsJoin
      <3>3. dreams + 1 \in 0..MaxDreams /\ dreams + 1 <= dreams + 1
        BY <1>2, <2>2
      <3>4. QED
        BY <3>2, <3>3, <2>1, <2>2, <1>4, <1>6
    <2>4. CASE reports # {}
      <3>1. PICK r \in reports : start = r.to
        BY <2>4 DEF WindowStart, LastReport
      <3>2. start \in dreamt /\ start <= dreams
        BY <3>1, <1>1 DEF WindowsJoin
      <3>3. start \in 0..MaxDreams /\ start < dreams + 1 /\ start <= start
            /\ start <= (dreams + 1) + 1
        BY <3>2, <1>2, <1>4
      <3>4. dreams + 1 \in 0..MaxDreams /\ dreams + 1 <= dreams + 1
        BY <1>2, <2>2
      <3>5. QED
        BY <3>2, <3>3, <3>4, <2>1, <2>2, <1>4, <1>6
    <2>5. QED
      BY <2>3, <2>4
  <1>8. ASSUME NEW from \in 0..MaxDreams, NEW to \in 0..MaxDreams, Replay(from, to)
        PROVE  Typed /\ Windows /\ Paths
    <2>1. PICK found \in Findings :
             dream' = [at |-> "writing", from |-> from, to |-> to, replay |-> TRUE,
                       todo |-> found]
      BY <1>8 DEF Replay
    <2>2. /\ dream = Nobody /\ dreams < MaxDreams /\ dreams' = dreams + 1
          /\ reports' = reports /\ dreamt' = dreamt /\ note' = note
          /\ retained' = retained /\ unordered' = unordered /\ from < to /\ to <= dreams + 1
      BY <1>8 DEF Replay
    <2>3. skipped' = (skipped \/ (dreamt # {} /\ dreamt \cap (from..(to + 1)) = {}))
      BY <1>8 DEF Replay
    <2>4. skipped' \in BOOLEAN /\ (skipped => skipped')
      BY <2>3
    <2>5. ~skipped' /\ dreamt # {} => \E t \in dreamt : t \in from..(to + 1)
      BY <2>3
    <2>6. ~skipped' /\ dreamt # {} => \E t \in dreamt : from <= t /\ t <= to + 1
      BY <2>5
    <2>7. QED
      BY <2>1, <2>2, <2>4, <2>6, <1>6
  <1>9. CASE ReportDream
    <2>1. /\ dream # Nobody /\ dream' = Nobody /\ dreams' = dreams /\ skipped' = skipped
          /\ note' = note /\ retained' = retained /\ unordered' = unordered
          /\ reports' = reports \cup {[replay |-> dream.replay, to |-> dream.to]}
          /\ dreamt' = dreamt \cup ((dream.from + 1)..dream.to)
      BY <1>9 DEF ReportDream
    <2>2. Paths
      BY <2>1, <1>1, PathsStand
    <2>3. /\ dream.from \in 0..MaxDreams /\ dream.to \in 0..MaxDreams
          /\ dream.replay \in BOOLEAN
      BY <1>4
    <2>4. dream.from < dream.to /\ dream.to <= dreams
      BY <1>1, <2>1 DEF WindowsJoin
    <2>5. (dream.from + 1)..dream.to \subseteq 1..MaxDreams
      BY <2>3, <1>2
    <2>6. /\ [replay |-> dream.replay, to |-> dream.to] \in [replay : BOOLEAN, to : 0..MaxDreams]
          /\ dreamt' \subseteq 1..MaxDreams
      BY <2>1, <2>3, <2>5, <1>4
    <2>7. reports' \subseteq [replay : BOOLEAN, to : 0..MaxDreams]
      BY <2>1, <2>6, <1>4
    <2>8. Typed
      BY <2>1, <2>6, <2>7, <1>4, <1>5 DEF DreamTypeOK
    <2>9. dream.to \in (dream.from + 1)..dream.to
      BY <2>3, <2>4
    <2>10. WindowsJoin'
      <3>1. (reports' = {}) <=> (dreamt' = {})
        BY <2>1, <2>9
      <3>2. \A r \in reports' : r.to \in dreamt'
        BY <2>1, <2>9, <1>1 DEF WindowsJoin
      <3>3. \A t \in (dream.from + 1)..dream.to : t <= dreams
        BY <2>3, <2>4, <1>2
      <3>4. \A t \in dreamt' : t <= dreams'
        BY <2>1, <3>3, <1>1 DEF WindowsJoin
      <3>5. QED
        BY <3>1, <3>2, <3>4, <2>1 DEF WindowsJoin
    <2>11. WindowsCover'
      <3>1. SUFFICES ASSUME ~skipped PROVE \A a, b \in dreamt' : a..b \subseteq dreamt'
        BY <2>1 DEF WindowsCover
      <3>2. dreamt # {} => \E t \in dreamt : dream.from <= t /\ t <= dream.to + 1
        BY <3>1, <2>1, <1>1 DEF WindowsJoin
      <3>3. dream.from \in Nat /\ dream.to \in Nat
        BY <2>3
      <3>4. \A a, b \in dreamt \cup ((dream.from + 1)..dream.to) :
               a..b \subseteq dreamt \cup ((dream.from + 1)..dream.to)
        BY <3>1, <3>2, <3>3, <2>4, <1>1, WindowsJoined
      <3>5. QED
        BY <3>4, <2>1
    <2>12. QED
      BY <2>2, <2>8, <2>10, <2>11
  <1>10. CASE DreamDies
    <2>1. /\ dream # Nobody /\ dream' = Nobody
          /\ dreams' = dreams /\ reports' = reports /\ dreamt' = dreamt /\ skipped' = skipped
          /\ note' = note /\ unordered' = unordered
      BY <1>10 DEF DreamDies
    <2>2. Windows
      BY <2>1, <1>1, WindowsAsBefore
    <2>3. CASE UNCHANGED retained
      <3>1. Paths
        BY <2>1, <2>3, <1>1, PathsStand
      <3>2. Typed
        BY <2>1, <2>3, <1>4, <1>5 DEF DreamTypeOK
      <3>3. QED
        BY <2>2, <3>1, <3>2
    <2>4. ASSUME NEW p \in Following, p \in Drafts => note[p] = 0, Keep(p)
          PROVE  Typed /\ Paths
      <3>1. p \in dream.todo /\ p \in Artifacts
        BY <2>4, <1>4 DEF Following
      <3>2. dreams \in Numbers /\ note[p] \in Rejected..Own
        BY <3>1, <2>1, <1>1, <1>2, <1>4
      <3>3. /\ retained' \in [Numbers -> [Artifacts -> Rejected..Own]]
            /\ \A m \in Numbers, q \in Artifacts :
                  m # dreams \/ q # p => retained'[m][q] = retained[m][q]
        BY <3>1, <3>2, <2>4, <1>1, RetainedAt DEF Keep
      <3>4. Typed
        BY <3>3, <2>1, <1>4, <1>5 DEF DreamTypeOK, Numbers
      <3>5. Standing(p)'
        BY <3>1, <3>2, <2>1, <2>4, <1>1, KeepStands
      <3>6. ASSUME NEW q \in Artifacts, q # p PROVE Standing(q)'
        BY <3>3, <3>6, <2>1, <1>1, StandsAsBefore
      <3>7. QED
        BY <3>4, <3>5, <3>6
    <2>5. QED
      BY <1>10, <2>2, <2>3, <2>4 DEF DreamDies
  <1>11. ASSUME NEW p \in Artifacts, WriteArtifact(p)
         PROVE  Typed /\ Windows /\ Paths
    <2>1. /\ dream # Nobody /\ p \in dream.todo
          /\ dream' = [dream EXCEPT !.todo = dream.todo \ {p}]
          /\ dreams' = dreams /\ reports' = reports /\ dreamt' = dreamt /\ skipped' = skipped
          /\ unordered' = unordered
      BY <1>11 DEF WriteArtifact, Following
    <2>2. /\ dream'.from = dream.from /\ dream'.to = dream.to
          /\ dream'.todo = dream.todo \ {p}
          /\ dream' \in [at : {"none", "writing"}, from : 0..MaxDreams, to : 0..MaxDreams,
                         replay : BOOLEAN, todo : SUBSET Artifacts]
      BY <2>1, <1>4
    <2>3. Windows
      BY <2>1, <2>2, <1>1, WindowsAsBefore
    <2>4. CASE p \in Drafts /\ note[p] # 0
      <3>1. note' = note /\ retained' = retained
        BY <1>11, <2>4 DEF WriteArtifact
      <3>2. Typed
        BY <3>1, <2>1, <2>2, <1>1, <1>4 DEF DreamTypeOK
      <3>3. ASSUME NEW q \in Artifacts PROVE Standing(q)'
        BY <3>1, <2>1, <2>2, <1>1, StandsAsBefore
      <3>4. QED
        BY <2>3, <3>2, <3>3
    <2>5. CASE ~(p \in Drafts /\ note[p] # 0)
      <3>1. Keep(p) /\ note' = [note EXCEPT ![p] = dreams]
        BY <1>11, <2>5 DEF WriteArtifact
      <3>2. dreams \in Numbers /\ note[p] \in Rejected..Own /\ dreams \in 0..Own
        BY <2>1, <1>1, <1>2, <1>4
      <3>3. /\ retained' \in [Numbers -> [Artifacts -> Rejected..Own]]
            /\ \A m \in Numbers, q \in Artifacts :
                  m # dreams \/ q # p => retained'[m][q] = retained[m][q]
        BY <3>1, <3>2, <1>1, RetainedAt DEF Keep
      <3>4. /\ note' \in [Artifacts -> 0..Own] /\ note'[p] = dreams
            /\ \A q \in Artifacts : q # p => note'[q] = note[q]
        BY <3>1, <3>2, <1>4
      <3>5. Typed
        BY <3>2, <3>3, <3>4, <2>1, <2>2, <1>4 DEF DreamTypeOK, Numbers
      <3>6. Standing(p)'
        BY <3>1, <3>2, <3>4, <2>1, <2>2, <2>5, <1>1, KeepStands
      <3>7. ASSUME NEW q \in Artifacts, q # p PROVE Standing(q)'
        BY <3>3, <3>4, <3>7, <2>1, <2>2, <1>1, StandsAsBefore
      <3>8. QED
        BY <2>3, <3>5, <3>6, <3>7
    <2>6. QED
      BY <2>4, <2>5
  <1>12. ASSUME NEW p \in Artifacts, NEW n \in 1..MaxDreams, RejectDreamt(n, p)
         PROVE  Typed /\ Windows /\ Paths
    <2>1. /\ dreams' = dreams /\ dream' = dream /\ reports' = reports /\ dreamt' = dreamt
          /\ skipped' = skipped /\ note' = [note EXCEPT ![p] = retained[n][p]]
          /\ retained' = [retained EXCEPT ![n][p] = Rejected]
          /\ retained[n][p] # Unkept /\ retained[n][p] # Rejected
          /\ unordered' \subseteq unordered \cup {p} /\ unordered \subseteq unordered'
      BY <1>12 DEF RejectDreamt
    <2>2. n \in Numbers /\ Rejected \in Rejected..Own
      BY <1>2 DEF Numbers
    <2>3. /\ retained' \in [Numbers -> [Artifacts -> Rejected..Own]]
          /\ \A m \in Numbers, q \in Artifacts :
                m # n \/ q # p => retained'[m][q] = retained[m][q]
      <3>1. retained' = [retained EXCEPT ![n][p] = Rejected] /\ DreamTypeOK
        BY <2>1, <1>1
      <3>2. QED
        BY <2>2, <3>1, RetainedAt
    <2>4. retained[n][p] \in 0..Own
      <3>1. retained[n][p] \in Rejected..Own
        BY <1>4
      <3>2. QED
        BY <3>1, <2>1, <1>2
    <2>5. note' \in [Artifacts -> 0..Own] /\ \A q \in Artifacts : q # p => note'[q] = note[q]
      BY <2>1, <2>4, <1>4
    <2>6. Typed
      BY <2>1, <2>3, <2>5, <1>1, <1>4 DEF DreamTypeOK, Numbers
    <2>7. Windows
      BY <2>1, <1>1, WindowsAsBefore
    <2>8. Standing(p)'
      BY <2>2, <1>1, <1>12, RejectionStands
    <2>9. ASSUME NEW q \in Artifacts, q # p PROVE Standing(q)'
      BY <2>1, <2>3, <2>5, <2>9, <1>1, StandsAsBefore
    <2>10. QED
      BY <2>6, <2>7, <2>8, <2>9
  <1>13. ASSUME NEW p \in Artifacts, NEW v \in {0, Own}, note' = [note EXCEPT ![p] = v],
                dreams' = dreams, dream' = dream, reports' = reports, dreamt' = dreamt,
                skipped' = skipped, retained' = retained, unordered' = unordered
         PROVE  Typed /\ Windows /\ Paths
    <2>1. v \in 0..Own /\ v \notin Numbers
      BY <1>2 DEF Numbers
    <2>2. /\ note' \in [Artifacts -> 0..Own] /\ note'[p] = v
          /\ \A q \in Artifacts : q # p => note'[q] = note[q]
      BY <2>1, <1>4, <1>13
    <2>3. Typed
      BY <2>2, <1>1, <1>4, <1>13 DEF DreamTypeOK
    <2>4. Windows
      BY <1>1, <1>13, WindowsAsBefore
    <2>5. Standing(p)'
      BY <2>1, <2>2, <1>1, <1>13 DEF Standing
    <2>6. ASSUME NEW q \in Artifacts, q # p PROVE Standing(q)'
      BY <2>2, <2>6, <1>1, <1>13, StandsAsBefore
    <2>7. QED
      BY <2>3, <2>4, <2>5, <2>6
  <1>14. ASSUME NEW p \in Artifacts, OperatorEdits(p) PROVE Typed /\ Windows /\ Paths
    BY <1>13, <1>14 DEF OperatorEdits
  <1>15. CASE ReminderGoes
    BY <1>13, <1>15 DEF ReminderGoes, Artifacts
  <1>16. CASE UNCHANGED dreamVars
    <2>1. /\ dreams' = dreams /\ dream' = dream /\ reports' = reports /\ dreamt' = dreamt
          /\ skipped' = skipped /\ note' = note /\ retained' = retained
          /\ unordered' = unordered
      BY <1>16 DEF dreamVars
    <2>2. Typed
      BY <2>1, <1>1 DEF DreamTypeOK
    <2>3. QED
      BY <2>1, <2>2, <1>1, WindowsAsBefore, PathsStand
  <1>17. QED
    BY <1>7, <1>8, <1>9, <1>10, <1>11, <1>12, <1>14, <1>15, <1>16 DEF DreamNext

\* What the invariant says of the dreams.
LEMMA DreamInvKeeps == DreamInv => DreamsKept
  <1>1. DreamInv => WindowsCover
    BY DEF DreamInv
  <1>2. DreamInv => NothingOverwritten
    BY DEF DreamInv, Standing, NothingOverwritten, Numbers, Artifacts
  <1>3. DreamInv => RejectedIsGone
    BY DEF DreamInv, Standing, RejectedIsGone, Numbers
  <1>4. QED
    BY <1>1, <1>2, <1>3 DEF DreamsKept

\* The reported windows leave out no moment between two that they hold, whatever
\* dreams died; what a dream replaced in a note is nothing; and what was rejected
\* does not stand.
THEOREM DreamsAreKept == DreamSpec => []DreamsKept
  BY DreamInitially, DreamStays, DreamInvKeeps, PTL DEF DreamSpec

-----------------------------------------------------------------------------
(* All of it side by side: what holds of each holds of the whole. *)

\* A step of the whole is, on each component, a step of it or a stutter.
LEMMA EachMovesAlone ==
    ASSUME [Next]_peripheryVars
    PROVE  /\ [BrainNext]_brainVars /\ [AuthNext]_authVars
           /\ [ResearchNext]_researchVars /\ [TidyNext]_tidyVars /\ [CodexNext]_codexVars
           /\ [HeartbeatNext]_heartbeatVars /\ [InterviewNext]_interviewVars
           /\ [ProposalsNext]_proposalsVars /\ [MemoryNext]_memoryVars
           /\ [CronNext]_cronVars /\ [LineNext]_lineVars
           /\ [DreamNext]_dreamVars /\ [ChannelsNext]_channelVars
  BY DEF Next, peripheryVars

\* What the operator tapped or typed last is what holds, in the whole as well.
THEOREM OperatorIsObeyed == Spec => []OperatorObeyed
  <1>1. Init => ButtonsInv /\ AuthInv
    BY ButtonsInitially, AuthInitially DEF Init
  <1>2. ButtonsInv /\ AuthInv /\ [Next]_peripheryVars => (ButtonsInv /\ AuthInv)'
    BY EachMovesAlone, ButtonsStay, AuthStays
  <1>3. ButtonsInv => ButtonsKept
    BY DEF ButtonsInv, PollerInv, OrphansTold, TapSound, RoomForOne, ButtonsKept
  <1>4. AuthInv => LastWordHolds
    BY DEF AuthInv, DeniedAreBlocked, OneWriter, LastWordHolds, Authorized
  <1>5. QED
    BY <1>1, <1>2, <1>3, <1>4, PTL DEF Spec, OperatorObeyed

\* What each component remembers of what it has begun, written or told.
AllKept == ResearchInv /\ TidyInv /\ CodexInv /\ HeartbeatInv /\ InterviewInv /\ ProposalsInv

\* Nothing that was begun or written is lost and nothing is done again, in the whole
\* as well: research jobs, tidied items, refresh tokens, told changes, the
\* interview's answers, proposals.
THEOREM NothingIsLostOrRepeated == Spec => []NothingLostOrRepeated
  <1>1. Init => AllKept
    BY ResearchInitially, TidyInitially, CodexInitially, HeartbeatInitially, InterviewInitially,
       ProposalsInitially DEF Init, AllKept
  <1>2. AllKept /\ [Next]_peripheryVars => AllKept'
    BY EachMovesAlone, ResearchStays, TidyStays, CodexStays, HeartbeatStays, InterviewStays,
       ProposalsStay DEF AllKept
  <1>3. TidyInv => NothingTidiedAway
    BY DEF TidyInv, NothingTidiedAway, Put, Gone
  <1>4. CodexInv => TokenNotSpentTwice
    BY DEF CodexInv, HoldsGood, TokenNotSpentTwice
  <1>5. HeartbeatInv => ChangeToldOnce
    BY DEF HeartbeatInv, ToldSoFar, ChangeToldOnce
  <1>6. AllKept => NothingLostOrRepeated
    BY <1>3, <1>4, <1>5, ResearchInvKeeps, InterviewInvKeeps, ProposalsInvKeeps
       DEF AllKept, NothingLostOrRepeated
  <1>7. QED
    BY <1>1, <1>2, <1>6, PTL DEF Spec

\* What keeps the two copies of each component in step.
AllAgree == CronInv /\ LineInv /\ DreamInv /\ ChannelsInv

\* What is kept twice agrees, in the whole as well: the index and the notes, the
\* crontab and the schedules, the sidecar and its channel, the dreams' reports and
\* what they wrote, a thread's health and the file that tells of it.
THEOREM CopiesAreKeptInStep == ASSUME Odd = {} PROVE Spec => []KeptInStep
  <1>1. Init => AllAgree /\ MemoryInv
    BY CronInitially, LineInitially, DreamInitially, ChannelsInitially, MemoryInitially
       DEF Init, AllAgree
  <1>2. AllAgree /\ [Next]_peripheryVars => AllAgree'
    BY EachMovesAlone, CronStays, LineStays, DreamStays, ChannelsStay DEF AllAgree
  <1>3. MemoryInv /\ [Next]_peripheryVars => MemoryInv'
    BY EachMovesAlone, MemoryStays
  <1>4. CronInv => BlocksKept
    BY DEF CronInv, ReadIsCurrent, BlocksKept
  <1>5. AllAgree /\ MemoryInv => KeptInStep
    BY <1>4, LineInvKeeps, DreamInvKeeps, ChannelsInvKeeps, MemoryInvKeeps
       DEF AllAgree, KeptInStep
  <1>6. QED
    BY <1>1, <1>2, <1>3, <1>5, PTL DEF Spec

-----------------------------------------------------------------------------
(* The types of the periphery: what the promises do not need, kept with    *)
(* the invariants that the promises rest on.                               *)

\* The types that the promises of the crontab, of the tokens and of the sidecar do not
\* need: the syncs that cross stay within their bound, a refresh token is posted four
\* times at most, and a reader relaunches its sidecar no more often than it may.
CronRest == overlaps <= MaxOverlaps

LEMMA CronIsTyped ==
    /\ CronInit => CronRest
    /\ CronInv /\ CronRest /\ [CronNext]_cronVars => CronRest'
    /\ CronInv /\ CronRest => CronTypeOK
  <1>1. MaxOverlaps \in Nat
    BY CronAssumption DEF CronAssumption
  <1>2. CronInit => CronRest
    BY <1>1 DEF CronInit, CronRest
  <1>3. CronInv /\ CronRest /\ [CronNext]_cronVars => CronRest'
    <2>1. CronInv => overlaps \in Nat
      BY DEF CronInv, CronTyped
    <2>2. [CronNext]_cronVars => overlaps' = overlaps \/ (overlaps < MaxOverlaps /\ overlaps' = overlaps + 1)
      <3>1. \A h \in Homes : Edit(h) \/ BuildBlock(h) \/ ReadCrontab(h) \/ SyncEnds(h) => UNCHANGED overlaps
        BY DEF Edit, BuildBlock, ReadCrontab, SyncEnds
      <3>2. \A h \in Homes : Install(h) =>
               overlaps' = overlaps \/ (overlaps < MaxOverlaps /\ overlaps' = overlaps + 1)
        BY DEF Install
      <3>3. QED
        BY <3>1, <3>2 DEF CronNext, cronVars
    <2>3. QED
      BY <1>1, <2>1, <2>2 DEF CronRest
  <1>4. CronInv /\ CronRest => CronTypeOK
    BY <1>1 DEF CronInv, CronTyped, CronRest, CronTypeOK
  <1>5. QED
    BY <1>2, <1>3, <1>4

CodexRest ==
    /\ aged \subseteq Pairs /\ unlucky <= MaxUnlucky /\ banished \in BOOLEAN
    /\ \A c \in Callers : caller[c].tries < MaxPosts

LEMMA CodexRests ==
    ASSUME CodexInv, CodexRest, [CodexNext]_codexVars
    PROVE  CodexRest'
  <1>0. /\ MaxPosts \in Nat /\ MaxPosts > 0 /\ MaxUnlucky \in Nat
        /\ caller \in [Callers -> Holds] /\ file \in Pairs /\ unlucky \in Nat
    BY CodexAssumption DEF CodexAssumption, CodexInv, CodexTyped
  <1>1. (aged \subseteq Pairs)' /\ banished' \in BOOLEAN
    <2>1. ASSUME NEW c \in Callers,
                 GetBearer(c) \/ Refresh(c) \/ LockTimesOut(c) \/ RefreshExpired(c) \/ NoAnswer(c)
                 \/ SaveTokens(c) \/ Call(c) \/ CallerDies(c)
          PROVE  aged' = aged /\ banished' \in {banished, TRUE}
      BY <2>1 DEF GetBearer, Refresh, LockTimesOut, RefreshExpired, NoAnswer, SaveTokens, Call,
         CallerDies
    <2>2. ASSUME NEW c \in Callers, Granted(c)
          PROVE  aged' \subseteq aged /\ banished' = banished
      BY <2>2 DEF Granted
    <2>3. CASE AccessAges \/ CliRefreshes \/ CliWrites \/ UNCHANGED codexVars
      BY <1>0, <2>3 DEF CodexRest, AccessAges, CliRefreshes, CliWrites, codexVars
    <2>4. QED
      BY <2>1, <2>2, <2>3 DEF CodexRest, CodexNext
  <1>2. unlucky' <= MaxUnlucky
    <2>1. ASSUME NEW c \in Callers,
                 GetBearer(c) \/ Refresh(c) \/ LockTimesOut(c) \/ Granted(c) \/ RefreshExpired(c)
                 \/ SaveTokens(c) \/ Call(c)
          PROVE  unlucky' = unlucky
      BY <2>1 DEF GetBearer, Refresh, LockTimesOut, Granted, RefreshExpired, SaveTokens, Call
    <2>2. ASSUME NEW c \in Callers, NoAnswer(c) \/ CallerDies(c)
          PROVE  unlucky' = unlucky \/ Unlucky
      BY <2>2 DEF NoAnswer, CallerDies
    <2>3. CASE AccessAges \/ CliRefreshes \/ CliWrites \/ UNCHANGED codexVars
      BY <1>0, <2>3 DEF CodexRest, AccessAges, CliRefreshes, CliWrites, codexVars, Unlucky
    <2>4. QED
      BY <1>0, <2>1, <2>2, <2>3 DEF CodexRest, CodexNext, Unlucky
  <1>3. \A c \in Callers : caller'[c].tries < MaxPosts
    <2>1. Idle.tries = 0
      BY DEF Idle
    <2>2. ASSUME NEW c \in Callers, NEW s, Moves(c, s), s.tries < MaxPosts
          PROVE  \A d \in Callers : caller'[d].tries < MaxPosts
      BY <1>0, <2>2 DEF Moves, CodexRest
    <2>3. ASSUME NEW c \in Callers, GetBearer(c)
          PROVE  \E s : Moves(c, s) /\ s.tries = 0
      <3> DEFINE s == [Idle EXCEPT !.at = IF file \in aged THEN "wanting" ELSE "calling",
                                   !.pair = file]
      <3>1. Moves(c, s) /\ s.tries = 0
        BY <2>3 DEF GetBearer, Idle
      <3>2. QED
        BY <3>1
    <2>4. ASSUME NEW c \in Callers, Refresh(c)
          PROVE  \E s : Moves(c, s) /\ s.tries \in {0, caller[c].tries}
      <3>1. caller[c] \in Holds
        BY <1>0
      <3> DEFINE posts == [caller[c] EXCEPT !.at = "posting", !.pair = file, !.tries = 0]
                 calls == [caller[c] EXCEPT !.at = "calling", !.pair = file]
      <3>2. posts.tries = 0 /\ calls.tries = caller[c].tries
        BY <3>1 DEF Holds
      <3>3. Moves(c, posts) \/ Moves(c, calls)
        BY <2>4 DEF Refresh
      <3> HIDE DEF posts, calls
      <3>4. QED
        BY <3>2, <3>3
    <2>5. ASSUME NEW c \in Callers, LockTimesOut(c) \/ RefreshExpired(c) \/ CallerDies(c)
          PROVE  Moves(c, Idle)
      BY <2>5 DEF LockTimesOut, RefreshExpired, CallerDies
    <2>6. ASSUME NEW c \in Callers, Granted(c) \/ SaveTokens(c) \/ Call(c)
          PROVE  \E s : Moves(c, s) /\ s.tries \in {0, caller[c].tries}
      <3>1. caller[c] \in Holds
        BY <1>0
      <3> DEFINE saves == [caller[c] EXCEPT !.at = "saving", !.pair = good + 1]
                 keeps == [caller[c] EXCEPT !.at = "saving"]
                 calls == [caller[c] EXCEPT !.at = "calling"]
                 wants == [caller[c] EXCEPT !.at = "wanting", !.again = TRUE]
      <3>2. \A s \in {saves, keeps, calls, wants} : s.tries = caller[c].tries
        BY <3>1 DEF Holds
      <3>3. Moves(c, saves) \/ Moves(c, keeps) \/ Moves(c, calls) \/ Moves(c, wants) \/ Moves(c, Idle)
        <4>1. CASE Granted(c)
          BY <4>1 DEF Granted, Moves
        <4>2. CASE SaveTokens(c)
          BY <4>2 DEF SaveTokens, Moves
        <4>3. CASE Call(c)
          BY <4>3 DEF Call, Moves
        <4>4. QED
          BY <2>6, <4>1, <4>2, <4>3
      <3> HIDE DEF saves, keeps, calls, wants
      <3>4. QED
        BY <2>1, <3>2, <3>3
    <2>7. ASSUME NEW c \in Callers, NoAnswer(c)
          PROVE  \E s : Moves(c, s) /\ s.tries < MaxPosts
      <3>1. caller[c] \in Holds
        BY <1>0
      <3>2. QED
        BY <1>0, <2>1, <2>7, <3>1 DEF NoAnswer, LastPost, Holds
    <2>8. \A c \in Callers : caller[c].tries < MaxPosts
      BY DEF CodexRest
    <2>9. QED
      BY <1>0, <2>1, <2>2, <2>3, <2>4, <2>5, <2>6, <2>7, <2>8
         DEF CodexNext, codexVars, AccessAges, CliRefreshes, CliWrites
  <1>4. QED
    BY <1>1, <1>2, <1>3 DEF CodexRest

LEMMA CodexIsTyped == (CodexInit => CodexRest) /\ (CodexInv /\ CodexRest => CodexTypeOK)
  <1>1. MaxPosts \in Nat /\ MaxPosts > 0 /\ MaxUnlucky \in Nat /\ MaxPairs \in Nat \ {0}
    BY CodexAssumption DEF CodexAssumption
  <1>2. CodexInit => CodexRest
    <2>1. {1} \subseteq Pairs
      BY <1>1 DEF Pairs
    <2>2. CodexInit => aged \subseteq Pairs
      BY <2>1 DEF CodexInit
    <2>3. CodexInit => banished \in BOOLEAN
      BY Zenon DEF CodexInit
    <2>4. CodexInit => unlucky <= MaxUnlucky
      BY <1>1 DEF CodexInit
    <2>5. CodexInit => \A c \in Callers : caller[c].tries < MaxPosts
      BY <1>1 DEF CodexInit, Idle
    <2>6. QED
      BY <2>2, <2>3, <2>4, <2>5 DEF CodexRest
  <1>3. ASSUME CodexInv, CodexRest
        PROVE  CodexTypeOK
    <2> DEFINE Full == [at : {"idle", "wanting", "posting", "saving", "calling"},
                        pair : Pairs \cup {NoPair}, again : BOOLEAN, tries : 0..(MaxPosts - 1)]
    <2>1. ASSUME NEW c \in Callers
          PROVE  caller[c] \in Full
      <3>1. caller[c] \in Holds /\ caller[c].tries < MaxPosts
        BY <1>3 DEF CodexInv, CodexTyped, CodexRest
      <3>2. caller[c].tries \in 0..(MaxPosts - 1)
        BY <1>1, <3>1 DEF Holds
      <3>3. QED
        BY <3>1, <3>2 DEF Holds
    <2>2. caller \in [Callers -> Full]
      BY <1>3, <2>1 DEF CodexInv, CodexTyped
    <2>3. QED
      BY <1>1, <1>3, <2>2 DEF CodexInv, CodexTyped, CodexRest, CodexTypeOK
  <1>4. QED
    BY <1>2, <1>3

PostRecord == [at : {"new", "dropped", "queued", "drafted", "approved", "denied",
                     "handed", "sent", "lost"}, tier : Tiers]
LineRest ==
    /\ creds \in BOOLEAN /\ linking \in BOOLEAN /\ misfires <= MaxMisfires
    /\ raised <= MaxRaises
    /\ reader \in {"none", "reading", "sleeping", "starting"}
    /\ relaunches \in 0..(MaxRestarts + 1)
    /\ channel = "off" => relaunches = 0
    /\ reader # "none" => relaunches <= MaxRestarts
    /\ tier \in [Parties -> Tiers]
    /\ post \in [Posts -> PostRecord]

LEMMA PostGoesOn ==
    ASSUME NEW m \in PostRecord, NEW at \in {"approved", "denied", "drafted", "handed", "lost", "sent"}
    PROVE  [m EXCEPT !.at = at] \in PostRecord
  BY DEF PostRecord

LEMMA LineRests ==
    ASSUME LineInv, LineRest, [LineNext]_lineVars
    PROVE  LineRest'
  <1>0. MaxRestarts \in Nat /\ MaxMisfires \in Nat /\ MaxRaises \in Nat
    BY LineAssumption DEF LineAssumption
  <1>1. ASSUME UNCHANGED <<channel, reader, relaunches, creds, linking, misfires, raised>>
        PROVE  /\ creds' \in BOOLEAN /\ linking' \in BOOLEAN /\ misfires' <= MaxMisfires
               /\ raised' <= MaxRaises
               /\ reader' \in {"none", "reading", "sleeping", "starting"}
               /\ relaunches' \in 0..(MaxRestarts + 1)
               /\ channel' = "off" => relaunches' = 0
               /\ reader' # "none" => relaunches' <= MaxRestarts
    BY <1>1 DEF LineRest
  <1>2. ASSUME ~UNCHANGED <<channel, reader, relaunches, creds, linking, misfires, raised>>
        PROVE  /\ creds' \in BOOLEAN /\ linking' \in BOOLEAN /\ misfires' <= MaxMisfires
               /\ raised' <= MaxRaises
               /\ reader' \in {"none", "reading", "sleeping", "starting"}
               /\ relaunches' \in 0..(MaxRestarts + 1)
               /\ channel' = "off" => relaunches' = 0
               /\ reader' # "none" => relaunches' <= MaxRestarts
    <2>0. /\ channel \in {"off", "running", "stopping", "ended"} /\ misfires \in Nat
          /\ raised \in Nat /\ (channel = "off" => reader = "none")
      BY DEF LineInv, ReaderSound, StraysCounted
    <2>1. CASE RunChannel
      BY <1>0, <2>0, <2>1 DEF LineRest, RunChannel
    <2>2. CASE SocketOpens \/ SocketCloses \/ SaveCreds \/ Logout \/ BeginLogin \/ LoginIsScanned
               \/ LoginEnds \/ SidecarDies \/ StrayDies
      BY <1>0, <2>0, <2>2 DEF LineRest, SocketOpens, SocketCloses, SaveCreds, Logout, BeginLogin,
         LoginIsScanned, LoginEnds, SidecarDies, StrayDies
    <2>3. CASE ReaderLeaves
      BY <1>0, <2>0, <2>3 DEF LineRest, ReaderLeaves, HandlerRaises
    <2>4. CASE ReaderWakes
      BY <1>0, <2>0, <2>4 DEF LineRest, ReaderWakes
    <2>5. CASE ReaderStarts
      BY <1>0, <2>0, <2>5 DEF LineRest, ReaderStarts
    <2>6. CASE ChannelStops \/ StopSidecar \/ GatewayAnew
      BY <1>0, <2>0, <2>6 DEF LineRest, ChannelStops, StopSidecar, GatewayAnew
    <2>7. CASE \/ \E m \in Posts : Answer(m) \/ SendResult(m) \/ \E g \in BOOLEAN : OnMessage(m, g)
               \/ \E p \in Parties, t \in Tiers : SetTier(p, t)
      BY <1>2, <2>7 DEF Answer, SendResult, OnMessage, SetTier
    <2>8. QED
      BY <1>2, <2>1, <2>2, <2>3, <2>4, <2>5, <2>6, <2>7 DEF LineNext, lineVars
  <1>3. tier' \in [Parties -> Tiers]
    BY DEF LineRest, LineNext, lineVars, RunChannel, SocketOpens, SocketCloses,
       SaveCreds, Logout, BeginLogin, LoginIsScanned, LoginEnds, SidecarDies, StrayDies,
       ReaderLeaves, ReaderWakes, ReaderStarts, ChannelStops, StopSidecar, GatewayAnew, Answer, SendResult,
       OnMessage, SetTier
  <1>4. post' \in [Posts -> PostRecord]
    <2>0. post \in [Posts -> PostRecord] /\ tier \in [Parties -> Tiers]
      BY DEF LineRest
    <2>1. ASSUME NEW m \in Posts, Answer(m)
          PROVE  post' \in [Posts -> PostRecord]
      <3>1. PICK at \in {"drafted", "handed", "lost"} : post' = [post EXCEPT ![m].at = at]
        BY <2>1 DEF Answer
      <3>2. [post[m] EXCEPT !.at = at] \in PostRecord
        BY <2>0, PostGoesOn
      <3>3. QED
        BY <2>0, <3>1, <3>2
    <2>2. ASSUME NEW m \in Posts, SendResult(m)
          PROVE  post' \in [Posts -> PostRecord]
      <3>1. PICK at \in {"sent", "lost"} : post' = [post EXCEPT ![m].at = at]
        BY <2>2 DEF SendResult
      <3>2. [post[m] EXCEPT !.at = at] \in PostRecord
        BY <2>0, PostGoesOn
      <3>3. QED
        BY <2>0, <3>1, <3>2
    <2>3. ASSUME NEW m \in Posts, NEW g \in BOOLEAN, OnMessage(m, g)
          PROVE  post' \in [Posts -> PostRecord]
      <3>1. TierOf(g) \in Tiers
        BY DEF TierOf, Tiers
      <3>2. PICK at \in {"dropped", "queued"} : post' = [post EXCEPT ![m] = [at |-> at, tier |-> TierOf(g)]]
        BY <2>3 DEF OnMessage
      <3>3. [at |-> at, tier |-> TierOf(g)] \in PostRecord
        BY <3>1 DEF PostRecord
      <3>4. QED
        BY <2>0, <3>2, <3>3
    <2>4. ASSUME NEW p \in Parties, NEW t \in Tiers, SetTier(p, t)
          PROVE  post' \in [Posts -> PostRecord]
      <3>1. \A m \in Posts : DraftAfter(m, p, t) \in PostRecord
        <4> SUFFICES ASSUME NEW m \in Posts
                     PROVE  DraftAfter(m, p, t) \in PostRecord
          OBVIOUS
        <4>1. [post[m] EXCEPT !.at = "approved"] \in PostRecord /\ [post[m] EXCEPT !.at = "denied"] \in PostRecord
          BY <2>0, PostGoesOn
        <4>2. [post[m] EXCEPT !.at = IF t = "trusted" THEN "approved" ELSE "denied"] \in PostRecord
          BY <4>1
        <4>3. QED
          BY <2>0, <4>2 DEF DraftAfter
      <3>2. QED
        BY <2>4, <3>1 DEF SetTier
    <2>5. CASE ReaderLeaves
      <3>1. ASSUME NEW m \in Posts, post' = [post EXCEPT ![m].at = "lost"]
            PROVE  post' \in [Posts -> PostRecord]
        <4>1. [post[m] EXCEPT !.at = "lost"] \in PostRecord
          BY <2>0, PostGoesOn
        <4>2. QED
          BY <2>0, <3>1, <4>1
      <3>2. QED
        BY <2>0, <2>5, <3>1 DEF ReaderLeaves, HandlerRaises
    <2>6. QED
      BY <2>0, <2>1, <2>2, <2>3, <2>4, <2>5 DEF LineNext, lineVars, RunChannel, SocketOpens,
         SocketCloses, SaveCreds, Logout, BeginLogin, LoginIsScanned, LoginEnds, SidecarDies,
         StrayDies, ReaderWakes, ReaderStarts, ChannelStops, StopSidecar, GatewayAnew
  <1>5. QED
    BY <1>1, <1>2, <1>3, <1>4 DEF LineRest

LEMMA LineIsTyped == (LineInit => LineRest) /\ (LineInv /\ LineRest => LineTypeOK)
  <1>0. MaxRestarts \in Nat /\ MaxMisfires \in Nat /\ MaxRaises \in Nat
    BY LineAssumption DEF LineAssumption
  <1>1. NewPost \in PostRecord
    BY DEF NewPost, PostRecord, Tiers
  <1>2. LineInit => LineRest
    <2>1. LineInit => post \in [Posts -> PostRecord] /\ tier \in [Parties -> Tiers]
      BY <1>1 DEF LineInit
    <2>2. /\ LineInit => relaunches = 0 /\ reader = "none"
          /\ LineInit => misfires <= MaxMisfires /\ raised <= MaxRaises
      BY <1>0 DEF LineInit, LineAtRest
    <2>3. LineInit => creds \in BOOLEAN /\ linking \in BOOLEAN
      BY DEF LineInit
    <2>4. QED
      BY <1>0, <2>1, <2>2, <2>3 DEF LineRest
  <1>3. LineInv /\ LineRest => LineTypeOK
    BY <1>0 DEF LineInv, StraysCounted, LineRest, LineTypeOK, PostRecord
  <1>4. QED
    BY <1>2, <1>3

\* The types that the promises of the heartbeat, of the chats and of the buttons do not
\* need: what fails stays within its bound, a prompt that was sent has its card, and a
\* row of the approvals table is asked for, decided, or neither.
HeartbeatRest == session \in BOOLEAN /\ lostMarks <= MaxLostMarks

LEMMA HeartbeatRests ==
    ASSUME HeartbeatInv, HeartbeatRest, [HeartbeatNext]_heartbeatVars
    PROVE  HeartbeatRest'
  <1>0. lostMarks \in Nat /\ MaxLostMarks \in Nat
    BY HeartbeatAssumption DEF HeartbeatAssumption, HeartbeatInv, HeartbeatTyped
  <1>1. ASSUME NEW r \in TaskRuns,
               BeginTask(r) \/ PreFetch(r) \/ Delta(r) \/ DeliverAnswer(r) \/ TaskFails(r)
               \/ \E d \in Destinations : SendTo(r, d)
        PROVE  UNCHANGED <<session, lostMarks>>
    BY <1>1 DEF BeginTask, PreFetch, Delta, DeliverAnswer, TaskFails, SendTo
  <1>2. ASSUME NEW r \in TaskRuns, AdapterAnswers(r)
        PROVE  session' \in {session, TRUE} /\ UNCHANGED lostMarks
    BY <1>2 DEF AdapterAnswers
  <1>3. ASSUME NEW r \in TaskRuns, NEW d \in Destinations, Push(r, d)
        PROVE  /\ UNCHANGED session
               /\ lostMarks' = lostMarks \/ (lostMarks < MaxLostMarks /\ lostMarks' = lostMarks + 1)
    BY <1>3 DEF Push
  <1>4. session' \in {session, TRUE}
    BY <1>1, <1>2, <1>3, Zenon DEF HeartbeatNext, heartbeatVars, SourceChanges
  <1>5. session' \in BOOLEAN
    BY <1>4, Zenon DEF HeartbeatRest
  <1>6. lostMarks' = lostMarks \/ (lostMarks < MaxLostMarks /\ lostMarks' = lostMarks + 1)
    BY <1>1, <1>2, <1>3, Zenon DEF HeartbeatNext, heartbeatVars, SourceChanges
  <1>7. lostMarks' <= MaxLostMarks
    BY <1>0, <1>6 DEF HeartbeatRest
  <1>8. QED
    BY <1>5, <1>7 DEF HeartbeatRest

LEMMA HeartbeatIsTyped ==
    /\ HeartbeatInit => HeartbeatRest
    /\ HeartbeatInv /\ HeartbeatRest => HeartbeatTypeOK
  <1>1. MaxLostMarks \in Nat
    BY HeartbeatAssumption DEF HeartbeatAssumption
  <1>2. HeartbeatInit => HeartbeatRest
    <2>1. HeartbeatInit => session \in BOOLEAN
      BY Zenon DEF HeartbeatInit
    <2>2. HeartbeatInit => lostMarks <= MaxLostMarks
      BY <1>1 DEF HeartbeatInit
    <2>3. QED
      BY <2>1, <2>2 DEF HeartbeatRest
  <1>3. ASSUME HeartbeatInv, HeartbeatRest
        PROVE  HeartbeatTypeOK
    <2>1. lostMarks \in 0..MaxLostMarks
      BY <1>1, <1>3 DEF HeartbeatInv, HeartbeatTyped, HeartbeatRest
    <2>2. \A d \in Destinations, v \in Versions : told[d][v] \in 0..(1 + MaxLostMarks)
      <3> SUFFICES ASSUME NEW d \in Destinations, NEW v \in Versions
                   PROVE  told[d][v] \in 0..(1 + MaxLostMarks)
        OBVIOUS
      <3>1. told[d][v] \in Nat /\ told[d][v] =< 1 + lostMarks
        BY <1>3 DEF HeartbeatInv, HeartbeatTyped, ToldSoFar
      <3>2. QED
        BY <1>1, <2>1, <3>1
    <2>3. told \in [Destinations -> [Versions -> 0..(1 + MaxLostMarks)]]
      BY <1>3, <2>2 DEF HeartbeatInv, HeartbeatTyped
    <2>4. QED
      BY <1>3, <2>1, <2>3 DEF HeartbeatInv, HeartbeatTyped, HeartbeatRest, TaskStates, HeartbeatTypeOK
  <1>4. QED
    BY <1>2, <1>3

AuthRest ==
    /\ leftOf \subseteq Groups /\ promptsSent \subseteq cards /\ cards \subseteq Groups
    /\ asked \in [Groups -> {"none", "pending", "decided"}]
    /\ deaths + overlap <= MaxSlips /\ raced \in BOOLEAN

LEMMA AuthRests ==
    ASSUME AuthInv, AuthRest, [AuthNext]_authVars
    PROVE  AuthRest'
  <1>0. /\ deaths \in Nat /\ overlap \in Nat /\ MaxSlips \in Nat
        /\ \A w \in Writers : writer[w].chat \in Groups
    BY AuthAssumption DEF AuthAssumption, AuthInv, ListsTyped, WriterStates
  <1>1. ASSUME NEW c \in Groups, NEW what \in Decisions,
               HandleLeft(c) \/ ApprovalAllows(c) \/ Tap(c, what) \/ CommandDecides(c, what)
        PROVE  /\ deaths' = deaths /\ raced' = raced
               /\ overlap' = overlap \/ (deaths + overlap < MaxSlips /\ overlap' = overlap + 1)
    BY <1>1 DEF HandleLeft, ApprovalAllows, Tap, CommandDecides, BeginDecision, Overlaps
  <1>2. ASSUME NEW c \in Groups, NEW what \in Decisions,
               HandleLeft(c) \/ ApprovalAllows(c) \/ Tap(c, what) \/ CommandDecides(c, what)
        PROVE  /\ UNCHANGED <<promptsSent, cards>> /\ leftOf' \subseteq leftOf
               /\ asked' = asked \/ MirrorDecision(c)
    BY <1>2 DEF HandleLeft, ApprovalAllows, Tap, CommandDecides
  <1>3. ASSUME NEW c \in Groups, MirrorPrompt(c) \/ MirrorDecision(c)
        PROVE  asked' \in [Groups -> {"none", "pending", "decided"}]
    BY <1>3 DEF AuthRest, MirrorPrompt, MirrorDecision
  <1>4. ASSUME NEW c \in Groups, Prompt(c) \/ BotRemoved(c) \/ ApprovalRejected(c)
        PROVE  AuthRest'
    BY <1>0, <1>3, <1>4 DEF AuthRest, Prompt, BotRemoved, ApprovalRejected
  <1>5. ASSUME NEW w \in Writers, WriteYaml(w) \/ ReadEnv(w)
        PROVE  AuthRest'
    BY <1>0, <1>5 DEF AuthRest, WriteYaml, ReadEnv, Races
  <1>6. ASSUME NEW w \in Writers, WriteEnv(w)
        PROVE  AuthRest'
    <2>1. /\ UNCHANGED <<leftOf, promptsSent, cards, deaths, overlap>>
          /\ asked' = asked \/ MirrorDecision(writer[w].chat)
          /\ raced' \in BOOLEAN
      BY <1>6 DEF AuthRest, WriteEnv, Races
    <2>2. QED
      BY <1>0, <1>3, <2>1 DEF AuthRest
  <1>7. ASSUME NEW w \in Writers, WriterDies(w)
        PROVE  AuthRest'
    BY <1>0, <1>7 DEF AuthRest, WriterDies
  <1>8. CASE UNCHANGED authVars
    BY <1>8 DEF authVars, AuthRest
  <1>9. ASSUME NEW c \in Groups, NEW what \in Decisions,
               HandleLeft(c) \/ ApprovalAllows(c) \/ Tap(c, what) \/ CommandDecides(c, what)
        PROVE  AuthRest'
    BY <1>0, <1>1, <1>2, <1>3, <1>9 DEF AuthRest
  <1>10. "allow" \in Decisions
    BY DEF Decisions
  <1>11. QED
    BY <1>4, <1>5, <1>6, <1>7, <1>8, <1>9, <1>10 DEF AuthNext

LEMMA AuthIsTyped == (AuthInit => AuthRest) /\ (AuthInv /\ AuthRest => AuthTypeOK)
  <1>1. MaxSlips \in Nat
    BY AuthAssumption DEF AuthAssumption
  <1>2. AuthInit => AuthRest
    <2>1. AuthInit => raced \in BOOLEAN
      BY Zenon DEF AuthInit
    <2>2. AuthInit => /\ leftOf = {} /\ promptsSent = {} /\ cards = {}
                      /\ asked \in [Groups -> {"none", "pending", "decided"}]
                      /\ deaths + overlap <= MaxSlips
      BY <1>1 DEF AuthInit
    <2>3. QED
      BY <2>1, <2>2 DEF AuthRest
  <1>3. ASSUME AuthInv, AuthRest
        PROVE  AuthTypeOK
    <2>1. deaths \in 0..MaxSlips /\ overlap \in 0..MaxSlips
      BY <1>1, <1>3 DEF AuthInv, ListsTyped, AuthRest
    <2>2. QED
      BY <1>3, <2>1 DEF AuthInv, ListsTyped, AuthRest, WriterStates, AuthTypeOK
  <1>4. QED
    BY <1>2, <1>3

BrainRest ==
    /\ ask \in [Asks -> {"waiting", "running", "over"}]
    /\ role \in [Runs -> {"primary", "backgrounded"}]
    /\ recent \subseteq Runs /\ signalled \subseteq Runs
    /\ falls \in 0..MaxFalls

LEMMA BrainRests ==
    ASSUME ButtonsInv, BrainRest, [BrainNext]_brainVars
    PROVE  BrainRest'
  <1>0. /\ MaxFalls \in Nat /\ falls \in 0..MaxFalls
        /\ ask \in [Asks -> {"waiting", "running", "over"}]
        /\ role \in [Runs -> {"primary", "backgrounded"}]
        /\ \A s \in Runs : run[s].of \in Asks /\ actionEntry[s].role \in {"primary", "backgrounded"}
    BY BrainAssumption DEF BrainAssumption, ButtonsInv, PollerInv, ButtonsTyped, RunStates,
       EntryStates, BrainRest
  <1>1. ASSUME NEW e \in Asks, Spawn(e)
        PROVE  BrainRest'
    BY <1>0, <1>1 DEF Spawn, BrainRest
  <1>2. ASSUME NEW s \in Runs,
               \/ RegisterRun(s) \/ ChildEnds(s) \/ OrphanEnds(s) \/ SigtermTakes(s) \/ TimesOut(s)
               \/ Stop(s) \/ Background(s) \/ Demote(s) \/ GraceEnds(s)
        PROVE  BrainRest'
    BY <1>2 DEF RegisterRun, ChildEnds, OrphanEnds, SigtermTakes, TimesOut, LeaderFalls, Stop,
       Background, Demote, GraceEnds, BrainRest
  <1>3. ASSUME NEW s \in Runs, Snapshot(s) \/ Unregister(s) \/ TwoSecondsPass(s) \/ Terminate(s)
        PROVE  BrainRest'
    BY <1>0, <1>3 DEF Snapshot, Unregister, TwoSecondsPass, Terminate, BrainRest
  <1>4. ASSUME NEW s \in Runs, NEW verb \in {"stop", "background"}, TapButton(s, verb)
        PROVE  BrainRest'
    BY <1>4 DEF TapButton, BrainRest
  <1>5. ASSUME NEW s \in Runs, NEW to, Edits(s, to) \/ UNCHANGED falls
        PROVE  falls' \in 0..MaxFalls
    BY <1>0, <1>5 DEF Edits
  <1>6. ASSUME NEW s \in Runs, Settle(s)
        PROVE  BrainRest'
    <2>1. falls' \in 0..MaxFalls
      BY <1>5, <1>6 DEF Settle, CardIsDone
    <2>2. ask' \in [Asks -> {"waiting", "running", "over"}]
      BY <1>0, <1>6 DEF Settle, EndOf
    <2>3. QED
      BY <1>0, <1>6, <2>1, <2>2 DEF Settle, BrainRest
  <1>7. ASSUME NEW s \in Runs, Tell(s)
        PROVE  BrainRest'
    <2>1. falls' \in 0..MaxFalls
      BY <1>5, <1>7 DEF Tell, CardIsStopped, CardIsRunning
    <2>2. QED
      BY <1>7, <2>1 DEF Tell, BrainRest
  <1>8. CASE Fall
    BY <1>0, <1>8 DEF Fall, BrainRest
  <1>9. CASE UNCHANGED brainVars
    BY <1>9 DEF brainVars, BrainRest
  <1>10. QED
    BY <1>1, <1>2, <1>3, <1>4, <1>6, <1>7, <1>8, <1>9 DEF BrainNext

LEMMA BrainIsTyped == (BrainInit => BrainRest) /\ (ButtonsInv /\ BrainRest => BrainTypeOK)
  <1>1. BrainInit => BrainRest
    BY BrainAssumption DEF BrainAssumption, BrainInit, BrainRest
  <1>2. ButtonsInv /\ BrainRest => BrainTypeOK
    BY DEF ButtonsInv, PollerInv, OrphansTold, ButtonsTyped, RunStates, EntryStates, TapStates,
       BrainRest, BrainTypeOK
  <1>3. QED
    BY <1>1, <1>2

\* The memory keeps its types whatever the notes are called.
LEMMA MemoryTypesStay ==
    /\ MemoryInit => MemoryTypeOK
    /\ MemoryTypeOK /\ [MemoryNext]_memoryVars => MemoryTypeOK'
  <1>1. MemoryTypeOK /\ UNCHANGED memoryVars => MemoryTypeOK'
    BY DEF MemoryTypeOK, memoryVars
  <1>2. QED
    BY <1>1, MemoryTyped, MemoryInitially DEF MemoryInv

\* What is kept of all thirteen: the invariant of each and the rest of its types.
TypedPeriphery ==
    /\ ButtonsInv /\ BrainRest /\ CodexInv /\ CodexRest /\ ResearchInv
    /\ HeartbeatInv /\ HeartbeatRest /\ CronInv /\ CronRest /\ MemoryTypeOK /\ TidyInv
    /\ AuthInv /\ AuthRest /\ LineInv /\ LineRest /\ InterviewInv /\ DreamInv
    /\ ProposalsInv /\ ChannelsInv

\* Every component around the gateway keeps its types: rows, files and what the
\* processes hold are of the kinds that the code writes, for any number of processes,
\* runs, chats, notes and schedules.
THEOREM PeripheryIsTyped == Spec => []PeripheryTypeOK
  <1>1. Init => TypedPeriphery
    <2> SUFFICES ASSUME Init
                 PROVE  TypedPeriphery
      OBVIOUS
    <2>1. /\ BrainInit /\ CodexInit /\ ResearchInit /\ HeartbeatInit /\ CronInit /\ MemoryInit
          /\ TidyInit /\ AuthInit /\ LineInit /\ InterviewInit /\ DreamInit /\ ProposalsInit
          /\ ChannelsInit
      BY DEF Init
    <2>2. ButtonsInv /\ BrainRest /\ CodexInv /\ CodexRest /\ ResearchInv
      BY <2>1, ButtonsInitially, BrainIsTyped, CodexInitially, CodexIsTyped, ResearchInitially
    <2>3. HeartbeatInv /\ HeartbeatRest /\ CronInv /\ CronRest /\ MemoryTypeOK /\ TidyInv
      BY <2>1, HeartbeatInitially, HeartbeatIsTyped, CronInitially, CronIsTyped,
         MemoryTypesStay, TidyInitially
    <2>4. AuthInv /\ AuthRest /\ LineInv /\ LineRest
      BY <2>1, AuthInitially, AuthIsTyped, LineInitially, LineIsTyped
    <2>5. InterviewInv /\ DreamInv /\ ProposalsInv /\ ChannelsInv
      BY <2>1, InterviewInitially, DreamInitially, ProposalsInitially, ChannelsInitially
    <2>6. QED
      BY <2>2, <2>3, <2>4, <2>5 DEF TypedPeriphery
  <1>2. TypedPeriphery /\ [Next]_peripheryVars => TypedPeriphery'
    <2> SUFFICES ASSUME TypedPeriphery, [Next]_peripheryVars
                 PROVE  TypedPeriphery'
      OBVIOUS
    <2>1. ButtonsInv' /\ BrainRest' /\ CodexInv' /\ CodexRest' /\ ResearchInv'
      BY EachMovesAlone, ButtonsStay, BrainRests, CodexStays, CodexRests, ResearchStays
         DEF TypedPeriphery
    <2>2. HeartbeatInv' /\ HeartbeatRest' /\ CronInv' /\ CronRest' /\ MemoryTypeOK' /\ TidyInv'
      BY EachMovesAlone, HeartbeatStays, HeartbeatRests, CronStays, CronIsTyped,
         MemoryTypesStay, TidyStays
         DEF TypedPeriphery
    <2>3. AuthInv' /\ AuthRest' /\ LineInv' /\ LineRest'
      BY EachMovesAlone, AuthStays, AuthRests, LineStays, LineRests DEF TypedPeriphery
    <2>4. InterviewInv' /\ DreamInv' /\ ProposalsInv' /\ ChannelsInv'
      BY EachMovesAlone, InterviewStays, DreamStays, ProposalsStay, ChannelsStay
         DEF TypedPeriphery
    <2>5. QED
      BY <2>1, <2>2, <2>3, <2>4 DEF TypedPeriphery
  <1>3. TypedPeriphery => PeripheryTypeOK
    <2> SUFFICES ASSUME TypedPeriphery
                 PROVE  PeripheryTypeOK
      OBVIOUS
    <2>1. /\ BrainTypeOK /\ CodexTypeOK /\ HeartbeatTypeOK /\ CronTypeOK /\ AuthTypeOK
          /\ LineTypeOK
      BY BrainIsTyped, CodexIsTyped, HeartbeatIsTyped, CronIsTyped, AuthIsTyped, LineIsTyped
         DEF TypedPeriphery
    <2>2. /\ ResearchTypeOK /\ MemoryTypeOK /\ TidyTypeOK /\ InterviewTypeOK /\ DreamTypeOK
          /\ ProposalsTypeOK /\ ChannelsTypeOK
      BY ChannelsInvKeeps
         DEF TypedPeriphery, ResearchInv, TidyInv, InterviewInv, DreamInv, ProposalsInv
    <2>3. QED
      BY <2>1, <2>2 DEF PeripheryTypeOK
  <1>4. QED
    BY <1>1, <1>2, <1>3, PTL DEF Spec

=============================================================================

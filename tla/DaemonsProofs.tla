---------------------------- MODULE DaemonsProofs ----------------------------
(***************************************************************************)
(* The watchdog's restarts stay within their budget, for any window and    *)
(* budget, any number of reloads, resets and ticks that die.               *)
(***************************************************************************)
EXTENDS MCDaemons, FiniteSetTheorems, TLAPS

-----------------------------------------------------------------------------
(* Types. *)

LEMMA DaemonTyped == DaemonTypeOK /\ [DaemonNext]_daemonVars => DaemonTypeOK'
  <1> SUFFICES ASSUME DaemonTypeOK, [DaemonNext]_daemonVars
               PROVE  DaemonTypeOK'
    OBVIOUS
  <1> DEFINE Procs == {"none", "forked", "serving", "wedged", "leaving"}
             Starts == [at : {"rest", "reaping", "forking", "recording"},
                        reap : SUBSET Pids, pid : Pids \cup {NoPid}]
             Typed == /\ proc' \in [Pids -> Procs] /\ pidfile' \in Pids \cup {NoPid}
                      /\ starter' \in [Starters -> Starts]
  <1> SUFFICES Typed
    BY DEF DaemonTypeOK
  <1>0. /\ proc \in [Pids -> Procs] /\ pidfile \in Pids \cup {NoPid}
        /\ starter \in [Starters -> Starts]
    BY DEF DaemonTypeOK
  <1>1. AtRest \in Starts /\ [AtRest EXCEPT !.at = "forking"] \in Starts
    BY DEF AtRest
  <1>2. Present \subseteq Pids /\ Canonical \subseteq Pids /\ (Canonical # {} => pidfile \in Pids)
    BY DEF Present, Canonical
  <1>3. ASSUME NEW s \in Starters, StartLooks(s) PROVE Typed
    <2>1. [at |-> "reaping", reap |-> Present \ Canonical,
           pid |-> IF Canonical = {} THEN NoPid ELSE pidfile] \in Starts
      BY <1>0, <1>2
    <2>2. QED
      BY <1>0, <1>3, <2>1 DEF StartLooks
  <1>4. ASSUME NEW s \in Starters, StartReaps(s) PROVE Typed
    <2>1. starter' \in [Starters -> Starts]
      BY <1>0, <1>1, <1>4 DEF StartReaps
    <2>2. proc' \in [Pids -> Procs]
      BY <1>0, <1>4 DEF StartReaps
    <2>3. pidfile' \in Pids \cup {NoPid}
      BY <1>0, <1>4 DEF StartReaps
    <2>4. QED
      BY <2>1, <2>2, <2>3
  <1>5. ASSUME NEW s \in Starters, StartForks(s) PROVE Typed
    <2>1. PICK p \in Pids \ (Present \cup {pidfile}) :
             /\ proc' = [proc EXCEPT ![p] = "forked"]
             /\ starter' = [starter EXCEPT ![s] = [starter[s] EXCEPT !.at = "recording", !.pid = p]]
      BY <1>5, <1>0 DEF StartForks
    <2>2. [starter[s] EXCEPT !.at = "recording", !.pid = p] \in Starts
      BY <1>0
    <2>3. pidfile' \in Pids \cup {NoPid}
      BY <1>0, <1>5 DEF StartForks
    <2>4. QED
      BY <1>0, <2>1, <2>2, <2>3
  <1>6. ASSUME NEW s \in Starters, StartRecords(s) PROVE Typed
    BY <1>0, <1>1, <1>6 DEF StartRecords
  <1>7. ASSUME NEW p \in Pids, ProcessStep(p) PROVE Typed
    BY <1>0, <1>7 DEF ProcessStep, Run, EnsurePidfile, Leave, Die, Wedge
  <1>8. CASE StopKills
    BY <1>0, <1>2, <1>8 DEF StopKills
  <1>9. CASE UNCHANGED daemonVars
    BY <1>0, <1>9 DEF daemonVars
  <1>10. QED
    BY <1>3, <1>4, <1>5, <1>6, <1>7, <1>8, <1>9 DEF DaemonNext, DaemonStep, StartStep

TickRecord == [at : {"idle", "done", "loaded", "locked", "starting", "saving"}, book : Book]

\* Only a start command changes both the watchdog's state and the daemon's.
LEMMA WatchdogTyped == WatchdogTypeOK /\ [WatchdogNext]_watchdogVars => WatchdogTypeOK'
  <1> SUFFICES ASSUME WatchdogTypeOK, [WatchdogNext]_watchdogVars
               PROVE  WatchdogTypeOK'
    OBVIOUS
  <1>1. DaemonTypeOK'
    <2>1. [DaemonNext]_daemonVars
      BY DEF WatchdogNext, TickStep, Load, Lock, Supervise, RunStart, Save, TickDies, SkipDone,
             Reset, Minute, DaemonNext, DaemonStep, daemonVars, watchdogVars, Starters
    <2>2. QED
      BY <2>1, DaemonTyped DEF WatchdogTypeOK
  <1> DEFINE Typed == /\ book' \in Book /\ tick' \in [Ticks -> TickRecord]
                      /\ restarts' \subseteq Attempts /\ disturbed' \in 0..MaxDisturbed
  <1> SUFFICES Typed
    BY <1>1 DEF WatchdogTypeOK, TickRecord
  <1>0. /\ book \in Book /\ tick \in [Ticks -> TickRecord]
        /\ restarts \subseteq Attempts /\ disturbed \in 0..MaxDisturbed
        /\ MaxDisturbed \in Nat /\ Window \in Nat /\ Len(Backoff) \in Nat
    BY WatchdogAssumption DEF WatchdogTypeOK, TickRecord
  <1>2. CleanBook \in Book /\ Waiting \in TickRecord /\ [Waiting EXCEPT !.at = "done"] \in TickRecord
    <2>1. 0 \in 0..Len(Backoff) /\ {} \in SUBSET Attempts /\ FALSE \in BOOLEAN
      BY <1>0
    <2>2. CleanBook \in Book
      BY <2>1, Zenon DEF CleanBook, Book
    <2>3. QED
      BY <2>2 DEF Waiting, TickRecord
  <1>3. Disturb => disturbed' \in 0..MaxDisturbed
    BY <1>0 DEF Disturb
  <1>4. \A t \in Ticks : tick[t] \in TickRecord /\ tick[t].book \in Book
    BY <1>0 DEF TickRecord
  <1>5. ASSUME NEW t \in Ticks, NEW at \in {"idle", "done", "loaded", "locked", "starting", "saving"},
               NEW b \in Book, tick' = [tick EXCEPT ![t] = [at |-> at, book |-> b]]
        PROVE  tick' \in [Ticks -> TickRecord]
    BY <1>0, <1>5 DEF TickRecord
  <1>6. ASSUME NEW t \in Ticks, Load(t) PROVE Typed
    <2>1. tick' \in [Ticks -> TickRecord]
      BY <1>0, <1>5, <1>6 DEF Load
    <2>2. disturbed' \in 0..MaxDisturbed
      BY <1>0, <1>3, <1>6 DEF Load
    <2>3. QED
      BY <1>0, <1>6, <2>1, <2>2 DEF Load
  <1>7. ASSUME NEW t \in Ticks, Lock(t) PROVE Typed
    BY <1>0, <1>7 DEF Lock, TickRecord
  <1>8. ASSUME NEW t \in Ticks, Supervise(t) PROVE Typed
    <2>1. /\ tick[t].book \in Book
          /\ [tick[t].book EXCEPT !.failures = 0] \in Book
          /\ [tick[t].book EXCEPT !.alert = TRUE] \in Book
      <3>1. 0 \in 0..Len(Backoff) /\ TRUE \in BOOLEAN
        BY <1>0
      <3>2. tick[t].book \in Book
        BY <1>4
      <3>3. [tick[t].book EXCEPT !.failures = 0] \in Book
        BY <3>1, <3>2 DEF Book
      <3>4. [tick[t].book EXCEPT !.alert = TRUE] \in Book
        BY <3>1, <3>2, Zenon DEF Book
      <3>5. QED
        BY <3>2, <3>3, <3>4
    <2>2. [tick[t] EXCEPT !.at = "starting"] \in TickRecord
      BY <1>4 DEF TickRecord
    <2>3. tick' \in [Ticks -> TickRecord]
      <3>1. CASE tick' = [tick EXCEPT ![t].at = "starting"]
        BY <3>1, <2>2, <1>0
      <3>2. CASE \E c \in Book : tick' = [tick EXCEPT ![t] = [at |-> "saving", book |-> c]]
        BY <3>2, <1>5
      <3>3. QED
        BY <3>1, <3>2, <2>1, <1>8 DEF Supervise
    <2>4. QED
      BY <1>0, <1>8, <2>3 DEF Supervise
  <1>9. ASSUME NEW t \in Ticks, RunStart(t) PROVE Typed
    <2> DEFINE now == [age |-> 0, of |-> IF t = "cron" THEN 0 ELSE disturbed]
               b == tick[t].book
               new == [failures |-> IF b.failures < Len(Backoff) THEN b.failures + 1 ELSE b.failures,
                       attempts |-> b.attempts \cup {now}, alert |-> b.alert]
    <2>1. now \in Attempts
      BY <1>0 DEF Attempts
    <2>2. new \in Book
      BY <1>0, <1>4, <2>1 DEF Book
    <2>3. tick' \in [Ticks -> TickRecord]
      BY <1>5, <1>9, <2>2 DEF RunStart
    <2>4. QED
      BY <1>0, <1>9, <2>1, <2>3 DEF RunStart
  <1>10. ASSUME NEW t \in Ticks, Save(t) PROVE Typed
    BY <1>0, <1>2, <1>4, <1>10 DEF Save
  <1>11. CASE SkipDone
    BY <1>0, <1>2, <1>11 DEF SkipDone, Ticks
  <1>12. ASSUME NEW t \in Ticks, TickDies(t) PROVE Typed
    BY <1>0, <1>2, <1>3, <1>12 DEF TickDies
  <1>13. CASE Reset
    BY <1>0, <1>2, <1>3, <1>13 DEF Reset
  <1>14. CASE Minute
    <2>1. \A a \in Attempts : a.age < Window => [age |-> a.age + 1, of |-> a.of] \in Attempts
      BY <1>0 DEF Attempts
    <2>2. \A S \in SUBSET Attempts : Older(S) \subseteq Attempts
      BY <2>1 DEF Older
    <2>3. book' \in Book
      <3>1. book.attempts \in SUBSET Attempts
        BY <1>0 DEF Book
      <3>2. Older(book.attempts) \in SUBSET Attempts
        BY <3>1, <2>2
      <3>3. [book EXCEPT !.attempts = Older(book.attempts)] \in Book
        BY <3>2, <1>0 DEF Book
      <3>4. QED
        BY <3>3, <1>14 DEF Minute
    <2>4. QED
      BY <1>0, <1>2, <1>14, <2>2, <2>3 DEF Minute, Ticks
  <1>15. CASE UNCHANGED <<book, tick, restarts, disturbed>>
    BY <1>0, <1>15
  <1>16. QED
    BY <1>6, <1>7, <1>8, <1>9, <1>10, <1>11, <1>12, <1>13, <1>14, <1>15
       DEF WatchdogNext, TickStep, watchdogVars

-----------------------------------------------------------------------------
(* The budget.                                                             *)

\* How many start commands of the window a copy of the state does not know of.
LostFrom(starts, b) == Cardinality(starts \ b.attempts)

Active(t) == tick[t].at \in {"loaded", "locked", "starting", "saving"}
Unstarted(t) == tick[t].at \in {"loaded", "locked", "starting"}

\* A tick that has run its start command and not yet saved owes the file one.
Owed == IF \E t \in Ticks : tick[t].at = "saving" THEN 1 ELSE 0

\* The disturbances pay for what a copy does not know of: each tick's copy for what
\* the file had lost when it was read, and, while another may still start beside it,
\* for one more; the reload has paid for that when it was counted.
CopiesPaid ==
    /\ \A t, u \in Holders : t = u
    /\ LostFrom(restarts, book) <= disturbed + Owed
    /\ \A t \in Ticks : Active(t) => LostFrom(restarts, tick[t].book) <= disturbed
    /\ \A t, u \in Ticks : t # u /\ tick[t].at = "loaded" /\ Unstarted(u)
                              => LostFrom(restarts, tick[t].book) < disturbed
    /\ tick["cron"].at = "idle" /\ Active("reload")
          => /\ LostFrom(restarts, tick["reload"].book) < disturbed
             /\ LostFrom(restarts, book) < disturbed + Owed
    /\ \A t \in Ticks : tick[t].at = "starting" => MayRestart(tick[t].book)

BudgetInv == WatchdogTypeOK /\ CopiesPaid /\ RestartBudget

LEMMA AttemptsFinite == \A S \in SUBSET Attempts : IsFiniteSet(S) /\ Cardinality(S) \in Nat
  <1> DEFINE Pairs == (0..Window) \X (0..MaxDisturbed)
             f == [p \in Pairs |-> [age |-> p[1], of |-> p[2]]]
  <1>1. IsFiniteSet(0..Window) /\ IsFiniteSet(0..MaxDisturbed)
    BY WatchdogAssumption, FS_Interval
  <1>2. IsFiniteSet(Pairs)
    BY <1>1, FS_Product
  <1>3. f \in Surjection(Pairs, Attempts)
    <2>1. f \in [Pairs -> Attempts]
      BY DEF Attempts
    <2>2. ASSUME NEW a \in Attempts PROVE \E p \in Pairs : f[p] = a
      <3>1. <<a.age, a.of>> \in Pairs
        BY DEF Attempts
      <3>2. f[<<a.age, a.of>>] = a
        BY <3>1 DEF Attempts
      <3>3. QED
        BY <3>1, <3>2
    <2>3. QED
      BY <2>1, <2>2 DEF Surjection
  <1>4. IsFiniteSet(Attempts)
    BY <1>2, <1>3, FS_Surjection
  <1>5. QED
    BY <1>4, FS_Subset, FS_CardinalityType

\* A minute later there are no more start commands of a set than before.
LEMMA AgedAreFewer ==
    ASSUME NEW S \in SUBSET Attempts, NEW T \in SUBSET Attempts,
           T \subseteq {[age |-> a.age + 1, of |-> a.of] : a \in S}
    PROVE  Cardinality(T) <= Cardinality(S)
  <1> DEFINE f == [a \in S |-> [age |-> a.age + 1, of |-> a.of]]
             Image == {[age |-> a.age + 1, of |-> a.of] : a \in S}
  <1>1. IsFiniteSet(S) /\ Cardinality(S) \in Nat
    BY AttemptsFinite
  <1>2. f \in Surjection(S, Image)
    BY DEF Surjection
  <1>3. IsFiniteSet(Image) /\ Cardinality(Image) <= Cardinality(S)
    BY <1>1, <1>2, FS_Surjection
  <1>4. Cardinality(T) <= Cardinality(Image) /\ Cardinality(Image) \in Nat
    BY <1>3, FS_Subset, FS_CardinalityType
  <1>5. Cardinality(T) \in Nat
    BY AttemptsFinite
  <1>6. QED
    BY <1>1, <1>3, <1>4, <1>5

\* What a copy does not know of grows no larger by a minute.
LEMMA AgedLoseNoMore ==
    ASSUME NEW R \in SUBSET Attempts, NEW B \in SUBSET Attempts,
           Older(R) \in SUBSET Attempts
    PROVE  Cardinality(Older(R) \ Older(B)) <= Cardinality(R \ B)
  <1>1. Older(R) \ Older(B) \subseteq {[age |-> a.age + 1, of |-> a.of] : a \in R \ B}
    BY DEF Older
  <1>2. R \ B \in SUBSET Attempts /\ Older(R) \ Older(B) \in SUBSET Attempts
    OBVIOUS
  <1>3. QED
    BY <1>1, <1>2, AgedAreFewer

\* A start command that both have is no loss, and costs who does not know of it one.
LEMMA OneMoreStart ==
    ASSUME NEW R \in SUBSET Attempts, NEW B \in SUBSET Attempts, NEW now \in Attempts
    PROVE  /\ Cardinality((R \cup {now}) \ (B \cup {now})) <= Cardinality(R \ B)
           /\ Cardinality((R \cup {now}) \ B) <= Cardinality(R \ B) + 1
           /\ Cardinality(R \cup {now}) <= Cardinality(R \ B) + Cardinality(B) + 1
  <1>1. /\ IsFiniteSet(R \ B) /\ Cardinality(R \ B) \in Nat
        /\ IsFiniteSet(B) /\ Cardinality(B) \in Nat
        /\ Cardinality((R \cup {now}) \ (B \cup {now})) \in Nat
        /\ Cardinality((R \cup {now}) \ B) \in Nat /\ Cardinality(R \cup {now}) \in Nat
    BY AttemptsFinite
  <1>2. Cardinality((R \cup {now}) \ (B \cup {now})) <= Cardinality(R \ B)
    <2>1. (R \cup {now}) \ (B \cup {now}) \in SUBSET (R \ B)
      OBVIOUS
    <2>2. QED
      BY <1>1, <2>1, FS_Subset
  <1>3. /\ IsFiniteSet((R \ B) \cup {now})
        /\ Cardinality((R \ B) \cup {now}) <= Cardinality(R \ B) + 1
        /\ Cardinality((R \ B) \cup {now}) \in Nat
    <2>1. /\ IsFiniteSet((R \ B) \cup {now})
          /\ Cardinality((R \ B) \cup {now}) =
                IF now \in R \ B THEN Cardinality(R \ B) ELSE Cardinality(R \ B) + 1
      BY <1>1, FS_AddElement
    <2>2. QED
      BY <1>1, <2>1
  <1>4. Cardinality((R \cup {now}) \ B) <= Cardinality(R \ B) + 1
    <2>1. (R \cup {now}) \ B \in SUBSET ((R \ B) \cup {now})
      OBVIOUS
    <2>2. Cardinality((R \cup {now}) \ B) <= Cardinality((R \ B) \cup {now})
      BY <1>3, <2>1, FS_Subset
    <2>3. QED
      BY <1>1, <1>3, <2>2
  <1>5. Cardinality(R \cup {now}) <= Cardinality(R \ B) + Cardinality(B) + 1
    <2> DEFINE all == ((R \ B) \cup {now}) \cup B
    <2>1. /\ IsFiniteSet(all)
          /\ Cardinality(all) = Cardinality((R \ B) \cup {now}) + Cardinality(B)
                                   - Cardinality(((R \ B) \cup {now}) \cap B)
      BY <1>1, <1>3, FS_Union
    <2>2. Cardinality(((R \ B) \cup {now}) \cap B) \in Nat
      BY <1>3, FS_Intersection, FS_CardinalityType
    <2>3. R \cup {now} \in SUBSET all
      OBVIOUS
    <2>4. Cardinality(R \cup {now}) <= Cardinality(all) /\ Cardinality(all) \in Nat
      BY <2>1, <2>3, FS_Subset, FS_CardinalityType
    <2>5. QED
      BY <1>1, <1>3, <2>1, <2>2, <2>4
  <1>6. QED
    BY <1>2, <1>4, <1>5

\* What there is of the copies, in numbers.
LEMMA LossesCounted ==
    ASSUME WatchdogTypeOK
    PROVE  /\ disturbed \in Nat /\ LostFrom(restarts, book) \in Nat /\ Cardinality(restarts) \in Nat
           /\ \A t \in Ticks : LostFrom(restarts, tick[t].book) \in Nat
  <1>1. /\ restarts \in SUBSET Attempts /\ disturbed \in Nat
        /\ \A b \in Book : restarts \ b.attempts \in SUBSET Attempts
        /\ book \in Book /\ \A t \in Ticks : tick[t].book \in Book
    BY WatchdogAssumption DEF WatchdogTypeOK, Book
  <1>2. QED
    BY <1>1, AttemptsFinite DEF LostFrom

LEMMA BudgetInitially == WatchdogInit => BudgetInv
  <1> SUFFICES ASSUME WatchdogInit
               PROVE  BudgetInv
    OBVIOUS
  <1>1. WatchdogTypeOK
    <2>1. DaemonTypeOK
      BY DEF WatchdogInit, DaemonInit, DaemonTypeOK, AtRest
    <2>2. Len(Backoff) \in Nat /\ 0 \in 0..Len(Backoff) /\ 0 \in 0..MaxDisturbed
      BY WatchdogAssumption
    <2>3. CleanBook \in Book
      BY <2>2, Zenon DEF CleanBook, Book
    <2>4. tick \in [Ticks -> TickRecord]
      BY <2>3 DEF WatchdogInit, Waiting, TickRecord
    <2>5. QED
      BY <2>1, <2>2, <2>3, <2>4 DEF WatchdogTypeOK, WatchdogInit, TickRecord
  <1>2. restarts = {} /\ disturbed = 0 /\ \A t \in Ticks : tick[t].at = "idle"
    BY DEF WatchdogInit, Waiting
  <1>3. LostFrom(restarts, book) = 0 /\ Cardinality(restarts) = 0
    BY <1>2, FS_EmptySet DEF LostFrom
  <1>4. MaxInWindow \in Nat /\ Holders = {} /\ Owed = 0
    BY <1>2, WatchdogAssumption DEF Holders, Owed
  <1>5. CopiesPaid
    BY <1>2, <1>3, <1>4 DEF CopiesPaid, Active, Unstarted, Ticks
  <1>6. QED
    BY <1>1, <1>2, <1>3, <1>4, <1>5 DEF BudgetInv, RestartBudget

\* Each action of a tick moves one of them; the other's copy is paid for as before, or,
\* at a start command, with what was set aside for it.
LEMMA BudgetStays == BudgetInv /\ [WatchdogNext]_watchdogVars => BudgetInv'
  <1> SUFFICES ASSUME BudgetInv, [WatchdogNext]_watchdogVars
               PROVE  BudgetInv'
    OBVIOUS
  <1> DEFINE Kept == CopiesPaid' /\ RestartBudget'
             Lc == LostFrom(restarts, tick["cron"].book)
             Lr == LostFrom(restarts, tick["reload"].book)
  <1>1. WatchdogTypeOK /\ CopiesPaid /\ RestartBudget /\ WatchdogTypeOK'
    BY WatchdogTyped DEF BudgetInv
  <1> SUFFICES Kept
    BY <1>1 DEF BudgetInv
  <1>2. /\ disturbed \in Nat /\ LostFrom(restarts, book) \in Nat /\ Cardinality(restarts) \in Nat
        /\ \A t \in Ticks : LostFrom(restarts, tick[t].book) \in Nat
    BY <1>1, LossesCounted
  <1>3. /\ tick \in [Ticks -> TickRecord] /\ book \in Book /\ restarts \in SUBSET Attempts
        /\ \A t \in Ticks : tick[t] \in TickRecord /\ tick[t].book \in Book
                           /\ tick[t].book.attempts \in SUBSET Attempts
    BY <1>1 DEF WatchdogTypeOK, TickRecord, Book
  <1>4. Disturb => disturbed' = disturbed + 1
    BY DEF Disturb
  <1>5. ASSUME NEW t \in Ticks, Load(t) PROVE Kept
    <2>1. /\ tick[t].at = "idle" /\ tick'[t].at = "loaded" /\ tick'[t].book = book
          /\ \A u \in Ticks : u # t => tick'[u] = tick[u]
          /\ book' = book /\ restarts' = restarts
      BY <1>3, <1>5 DEF Load
    <2>2. disturbed' = IF t = "cron" THEN disturbed ELSE disturbed + 1
      BY <1>4, <1>5 DEF Load
    <2>3. RestartBudget'
      BY <1>1, <1>2, <2>1, <2>2, WatchdogAssumption DEF RestartBudget
    <2>4. CASE t = "cron"
      <3>1. CopiesPaid'
        BY <1>1, <1>2, <2>1, <2>2, <2>4 DEF CopiesPaid, Active, Unstarted, Owed, Holders, Ticks
      <3>2. QED
        BY <2>3, <3>1
    <2>5. CASE t = "reload"
      <3>1. CopiesPaid'
        BY <1>1, <1>2, <2>1, <2>2, <2>5 DEF CopiesPaid, Active, Unstarted, Owed, Holders, Ticks
      <3>2. QED
        BY <2>3, <3>1
    <2>6. QED
      BY <2>4, <2>5 DEF Ticks
  <1>6. ASSUME NEW t \in Ticks, Lock(t) PROVE Kept
    <2>1. /\ tick[t].at = "loaded" /\ tick'[t].book = tick[t].book
          /\ tick'[t].at = IF Holders = {} THEN "locked" ELSE "done"
          /\ \A u \in Ticks : u # t => tick'[u] = tick[u]
          /\ book' = book /\ restarts' = restarts /\ disturbed' = disturbed
      BY <1>3, <1>6 DEF Lock, TickRecord
    <2>2. QED
      BY <1>1, <1>2, <2>1
         DEF CopiesPaid, RestartBudget, Active, Unstarted, Owed, Holders, Ticks
  <1>7. ASSUME NEW t \in Ticks, Supervise(t) PROVE Kept
    <2>1. /\ tick[t].at = "locked" /\ tick'[t].at \in {"saving", "starting"}
          /\ tick'[t].at = "starting" => MayRestart(tick[t].book)
          /\ tick'[t].book.attempts = tick[t].book.attempts
          /\ \A u \in Ticks : u # t => tick'[u] = tick[u]
          /\ book' = book /\ restarts' = restarts /\ disturbed' = disturbed
      BY <1>3, <1>7 DEF Supervise, TickRecord, Book
    <2>2. LostFrom(restarts, tick'[t].book) = LostFrom(restarts, tick[t].book)
          /\ (MayRestart(tick[t].book) => MayRestart(tick'[t].book))
      BY <2>1 DEF LostFrom, MayRestart
    <2>3. QED
      BY <1>1, <1>2, <2>1, <2>2
         DEF CopiesPaid, RestartBudget, Active, Unstarted, Owed, Holders, Ticks
  <1>8. ASSUME NEW t \in Ticks, RunStart(t) PROVE Kept
    <2> DEFINE now == [age |-> 0, of |-> IF t = "cron" THEN 0 ELSE disturbed]
    <2>1. /\ tick[t].at = "starting" /\ tick'[t].at = "saving"
          /\ tick'[t].book.attempts = tick[t].book.attempts \cup {now}
          /\ \A u \in Ticks : u # t => tick'[u] = tick[u]
          /\ book' = book /\ restarts' = restarts \cup {now} /\ disturbed' = disturbed
      BY <1>3, <1>8 DEF RunStart
    <2>2. now \in Attempts
      BY <1>1, WatchdogAssumption DEF WatchdogTypeOK, Attempts
    <2>3. book.attempts \in SUBSET Attempts
      BY <1>3 DEF Book
    <2>4. /\ LostFrom(restarts', tick'[t].book) <= LostFrom(restarts, tick[t].book)
          /\ LostFrom(restarts', book) <= LostFrom(restarts, book) + 1
          /\ \A u \in Ticks : LostFrom(restarts', tick[u].book)
                              <= LostFrom(restarts, tick[u].book) + 1
          /\ Cardinality(restarts') <= LostFrom(restarts, tick[t].book)
                                        + Cardinality(tick[t].book.attempts) + 1
      BY <1>3, <2>1, <2>2, <2>3, OneMoreStart DEF LostFrom
    <2>5. /\ LostFrom(restarts', book) \in Nat /\ Cardinality(restarts') \in Nat
          /\ \A u \in Ticks : LostFrom(restarts', tick'[u].book) \in Nat
      <3>1. /\ restarts' \in SUBSET Attempts
            /\ \A u \in Ticks : tick'[u].book.attempts \in SUBSET Attempts
        BY <1>3, <2>1, <2>2
      <3>2. QED
        BY <2>3, <3>1, AttemptsFinite DEF LostFrom
    <2>6. Cardinality(tick[t].book.attempts) < MaxInWindow
          /\ Cardinality(tick[t].book.attempts) \in Nat /\ MaxInWindow \in Nat
      BY <1>1, <1>3, <2>1, AttemptsFinite, WatchdogAssumption DEF CopiesPaid, MayRestart
    <2>7. RestartBudget'
      <3>1. LostFrom(restarts, tick[t].book) <= disturbed
        BY <1>1, <2>1 DEF CopiesPaid, Active
      <3>2. QED
        BY <1>2, <2>1, <2>4, <2>5, <2>6, <3>1 DEF RestartBudget
    <2>8. CopiesPaid'
      BY <1>1, <1>2, <2>1, <2>4, <2>5 DEF CopiesPaid, Active, Unstarted, Owed, Holders, Ticks
    <2>9. QED
      BY <2>7, <2>8
  <1>9. ASSUME NEW t \in Ticks, Save(t) PROVE Kept
    <2>1. /\ tick[t].at = "saving" /\ book' = tick[t].book
          /\ tick'[t].at = IF t = "cron" THEN "done" ELSE "idle"
          /\ \A u \in Ticks : u # t => tick'[u] = tick[u]
          /\ restarts' = restarts /\ disturbed' = disturbed
      BY <1>3, <1>9 DEF Save, Waiting
    <2>2. QED
      BY <1>1, <1>2, <2>1
         DEF CopiesPaid, RestartBudget, Active, Unstarted, Owed, Holders, Ticks
  <1>10. CASE SkipDone
    <2>1. /\ tick["reload"].at = "done" /\ tick'["reload"].at = "idle"
          /\ tick'["cron"] = tick["cron"]
          /\ book' = book /\ restarts' = restarts /\ disturbed' = disturbed
      BY <1>3, <1>10 DEF SkipDone, Waiting, Ticks
    <2>2. QED
      BY <1>1, <1>2, <2>1
         DEF CopiesPaid, RestartBudget, Active, Unstarted, Owed, Holders, Ticks
  <1>11. ASSUME NEW t \in Ticks, TickDies(t) PROVE Kept
    <2>1. /\ Active(t) /\ tick'[t].at = IF t = "cron" THEN "done" ELSE "idle"
          /\ \A u \in Ticks : u # t => tick'[u] = tick[u]
          /\ book' = book /\ restarts' = restarts /\ disturbed' = disturbed + 1
      BY <1>3, <1>4, <1>11 DEF TickDies, Waiting, Active
    <2>2. RestartBudget'
      BY <1>1, <1>2, <2>1, WatchdogAssumption DEF RestartBudget
    <2>3. Owed \in {0, 1} /\ Owed' \in {0, 1}
      BY DEF Owed
    <2>4. LostFrom(restarts', book') <= disturbed' + Owed'
      BY <1>1, <1>2, <2>1, <2>3 DEF CopiesPaid
    <2>5. CopiesPaid'
      <3>1. CASE t = "cron"
        BY <1>1, <1>2, <2>1, <2>4, <3>1 DEF CopiesPaid, Active, Unstarted, Holders, Ticks
      <3>2. CASE t = "reload"
        BY <1>1, <1>2, <2>1, <2>4, <3>2 DEF CopiesPaid, Active, Unstarted, Holders, Ticks
      <3>3. QED
        BY <3>1, <3>2 DEF Ticks
    <2>6. QED
      BY <2>2, <2>5
  <1>12. CASE Reset
    <2>1. restarts' = {} /\ disturbed' = disturbed + 1 /\ tick' = tick
      BY <1>4, <1>12 DEF Reset
    <2>2. \A b : LostFrom(restarts', b) = 0
      BY <2>1, FS_EmptySet DEF LostFrom
    <2>3. Cardinality(restarts') = 0
      BY <2>1, FS_EmptySet
    <2>4. QED
      BY <1>1, <1>2, <2>1, <2>2, <2>3, WatchdogAssumption
         DEF CopiesPaid, RestartBudget, Active, Unstarted, Owed, Holders, Ticks
  <1>13. CASE Minute
    <2>1. /\ tick["cron"].at = "done" /\ tick["reload"].at = "idle"
          /\ \A t \in Ticks : tick'[t].at = "idle"
          /\ restarts' = Older(restarts) /\ disturbed' = disturbed
      BY <1>3, <1>13 DEF Minute, Waiting, Ticks
    <2>2. book'.attempts = Older(book.attempts)
      BY <1>3, <1>13 DEF Minute, Book
    <2>3. book.attempts \in SUBSET Attempts /\ restarts' \in SUBSET Attempts
      BY <1>1, <1>3 DEF Book, WatchdogTypeOK
    <2>4. LostFrom(restarts', book') <= LostFrom(restarts, book)
      BY <1>3, <2>1, <2>2, <2>3, AgedLoseNoMore DEF LostFrom
    <2>5. Cardinality(restarts') <= Cardinality(restarts)
      <3>1. restarts' \subseteq {[age |-> a.age + 1, of |-> a.of] : a \in restarts}
        BY <2>1 DEF Older
      <3>2. QED
        BY <1>3, <2>3, <3>1, AgedAreFewer
    <2>6. LostFrom(restarts', book') \in Nat /\ Cardinality(restarts') \in Nat
      <3>1. restarts' \ book'.attempts \in SUBSET Attempts
        BY <2>3
      <3>2. QED
        BY <2>3, <3>1, AttemptsFinite DEF LostFrom
    <2>7. QED
      BY <1>1, <1>2, <2>1, <2>4, <2>5, <2>6, WatchdogAssumption
         DEF CopiesPaid, RestartBudget, Active, Unstarted, Owed, Holders, Ticks
  <1>14. CASE UNCHANGED <<book, tick, restarts, disturbed>>
    BY <1>1, <1>14 DEF CopiesPaid, RestartBudget, Active, Unstarted, Owed, Holders
  <1>15. QED
    BY <1>5, <1>6, <1>7, <1>8, <1>9, <1>10, <1>11, <1>12, <1>13, <1>14
       DEF WatchdogNext, TickStep, watchdogVars

\* The restarts of any window stay within the budget, but for one more for each reload,
\* reset and tick that died; whatever the gateway's processes and the operator do.
THEOREM BudgetIsKept == Spec => []RestartBudget
  <1>1. Init => BudgetInv
    BY BudgetInitially DEF Init
  <1>2. BudgetInv /\ [Next]_daemonsVars => BudgetInv'
    <2>1. [Next]_daemonsVars => [WatchdogNext]_watchdogVars
      BY DEF Next, daemonsVars, watchdogVars
    <2>2. QED
      BY <2>1, BudgetStays
  <1>3. BudgetInv => RestartBudget
    BY DEF BudgetInv
  <1>4. QED
    BY <1>1, <1>2, <1>3, PTL DEF Spec

\* The state file, the copies that the ticks have of it and the processes have their
\* types: a copy has no start command that is older than the window.
THEOREM WatchdogIsTyped == Spec => []WatchdogTypeOK
  <1>1. Init => WatchdogTypeOK
    BY BudgetInitially DEF Init, BudgetInv
  <1>2. WatchdogTypeOK /\ [Next]_daemonsVars => WatchdogTypeOK'
    <2>1. [Next]_daemonsVars => [WatchdogNext]_watchdogVars
      BY DEF Next, daemonsVars, watchdogVars
    <2>2. QED
      BY <2>1, WatchdogTyped
  <1>3. QED
    BY <1>1, <1>2, PTL DEF Spec
=============================================================================

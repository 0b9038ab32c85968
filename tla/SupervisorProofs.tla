-------------------------- MODULE SupervisorProofs ---------------------------
(***************************************************************************)
(* What the supervisor owes an event, what the gateway owes a task and the *)
(* brain that a message goes to, for any number of events, rows, messages, *)
(* attempts and mishaps.                                                   *)
(***************************************************************************)
EXTENDS MCSupervisor, FiniteSetTheorems, WellFoundedInduction, TLAPS

-----------------------------------------------------------------------------
(* The supervisor: what its entries may still spend, and what they know of.  *)

Fields == {"card", "attempts", "pin", "started", "finished", "finals"}

\* An entry of state.json; a report is finished only when it was started.
EntryFormed(e) ==
    /\ DOMAIN e = Fields
    /\ e.card \in Cards \cup {NoCard} /\ e.attempts \in 0..MaxAttempts
    /\ e.pin \in {"none", "held", "over"} /\ e.finals \in 0..FinalizeCap
    /\ e.finished => e.started

Phases == {"idle", "snapped", "finalizing", "recovering", "announcing"}

TickFormed ==
    /\ DOMAIN watch = {"at", "view", "todo", "spared", "book"}
    /\ watch.at \in Phases /\ watch.todo \subseteq Jobs
    /\ DOMAIN watch.book = Jobs

WatchFormed ==
    /\ DOMAIN job = Jobs /\ \A j \in Jobs : DOMAIN job[j] = {"status", "claim", "old"}
    /\ DOMAIN entry = Jobs /\ \A j \in Jobs : EntryFormed(entry[j])
    /\ TickFormed /\ \A j \in Jobs : EntryFormed(watch.book[j])
    /\ shown \in [Jobs -> SUBSET Cards] /\ carded \in [Jobs -> 0..MaxCards]
    /\ opened \in [Jobs -> SUBSET Nat] /\ resets \in [Jobs -> Nat]
    /\ bootId \in Nat /\ mishaps \in Nat
    /\ chat.channel \in [Jobs -> Channels]

\* What the supervisor knows of an event: what the tick under way has of it, or the file.
Known(j) == IF watch.at = "idle" THEN entry[j] ELSE watch.book[j]

\* The recoveries that an entry accounts for: none, when it may be pruned.
Credit(e) == IF e.pin = "over" THEN 0 ELSE e.attempts

\* An event that has ended has no recoveries to account for, and so has one whose
\* entry is about to be dropped for that.
EndedAnew ==
    /\ \A j \in Jobs : job[j].status \in {"done", "failed"} => resets[j] = 0
    /\ watch.at = "finalizing" => \A j \in watch.todo : resets[j] = 0

Accounted(j) == resets[j] <= MaxAttempts * mishaps + Credit(Known(j))

\* Cards that the supervisor does not know of.
Stray(j) == shown[j] \ {Known(j).card}

TrackedOf(j) ==
    /\ Cardinality(Stray(j)) <= mishaps
    /\ opened[j] # {} /\ mishaps = 0 => Known(j).started /\ ~Known(j).finished

\* A process is new after a mishap, and reports under its own boot id or an older one.
BootsAreMishaps ==
    /\ bootId <= mishaps
    /\ \A j \in Jobs : \A b \in opened[j] : b <= bootId

WatchInv ==
    /\ WatchFormed /\ EndedAnew /\ BootsAreMishaps
    /\ \A j \in Jobs : Accounted(j) /\ TrackedOf(j)

\* Each mishap pays for as many recoveries as an event may have.
LEMMA MishapsPay ==
    ASSUME NEW m \in Nat, NEW n \in Nat
    PROVE  /\ MaxAttempts * m \in Nat /\ MaxAttempts * (m + 1) = MaxAttempts * m + MaxAttempts
           /\ m <= n => MaxAttempts * m <= MaxAttempts * n
  <1>1. MaxAttempts \in Nat
    BY SupervisorAssumption
  <1>2. MaxAttempts * m \in Nat /\ MaxAttempts * (m + 1) = MaxAttempts * m + MaxAttempts
    BY <1>1
  <1>3. ASSUME m <= n PROVE MaxAttempts * m <= MaxAttempts * n
    <2>1. PICK k \in Nat : n = m + k
      <3>1. n - m \in Nat /\ n = m + (n - m)
        BY <1>3
      <3>2. QED
        BY <3>1
    <2>2. MaxAttempts * n = MaxAttempts * m + MaxAttempts * k /\ MaxAttempts * k \in Nat
      BY <1>1, <2>1
    <2>3. QED
      BY <1>2, <2>2
  <1>4. QED
    BY <1>2, <1>3

LEMMA WatchKnowsBoth == WatchInv => SupervisorRemembers
  <1> SUFFICES ASSUME WatchInv PROVE SupervisorRemembers
    OBVIOUS
  <1>1. ASSUME NEW j \in Jobs PROVE resets[j] <= MaxAttempts * (1 + mishaps)
    <2>1. mishaps \in Nat /\ resets[j] \in Nat /\ Credit(Known(j)) \in 0..MaxAttempts
      BY <1>1, SupervisorAssumption DEF WatchInv, WatchFormed, Known, EntryFormed, Credit
    <2>2. resets[j] <= MaxAttempts * mishaps + Credit(Known(j))
      BY <1>1 DEF WatchInv, Accounted
    <2>3. 1 + mishaps = mishaps + 1 /\ MaxAttempts \in Nat
      BY <2>1, SupervisorAssumption
    <2>4. /\ MaxAttempts * mishaps \in Nat
          /\ MaxAttempts * (mishaps + 1) = MaxAttempts * mishaps + MaxAttempts
      BY <2>1, MishapsPay
    <2>5. MaxAttempts * (1 + mishaps) = MaxAttempts * mishaps + MaxAttempts
      BY <2>3, <2>4
    <2> DEFINE paid == MaxAttempts * mishaps
               due == MaxAttempts * (1 + mishaps)
    <2> HIDE DEF paid, due
    <2>6. paid \in Nat /\ due = paid + MaxAttempts /\ resets[j] <= paid + Credit(Known(j))
      BY <2>2, <2>4, <2>5 DEF paid, due
    <2>7. resets[j] <= due
      BY <2>1, <2>3, <2>6
    <2>8. QED
      BY <2>7 DEF due
  <1>2. RecoveriesBounded
    BY <1>1 DEF RecoveriesBounded
  <1>3. Tracked
    BY DEF WatchInv, TrackedOf, Stray, Known, Tracked
  <1>4. QED
    BY <1>2, <1>3 DEF SupervisorRemembers

LEMMA CreditIsSmall ==
    ASSUME NEW e, EntryFormed(e)
    PROVE  Credit(e) \in 0..MaxAttempts /\ Credit(e) \in Nat /\ MaxAttempts \in Nat
  <1>1. MaxAttempts \in Nat /\ e.attempts \in 0..MaxAttempts
    BY SupervisorAssumption DEF EntryFormed
  <1>2. QED
    BY <1>1 DEF Credit

LEMMA FewCards ==
    ASSUME NEW S \in SUBSET Cards
    PROVE  IsFiniteSet(S)
  <1>1. IsFiniteSet(Cards)
    BY SupervisorAssumption, FS_Interval DEF Cards
  <1>2. QED
    BY <1>1, FS_Subset

\* Cards are few: what is shown without one of them is not more, and without none
\* of them one more at most.
LEMMA OneStray ==
    ASSUME NEW S \in SUBSET Cards, NEW c, NEW d, NEW n \in Nat,
           Cardinality(S \ {c}) <= n
    PROVE  /\ IsFiniteSet(S) /\ Cardinality(S \ {c}) \in Nat
           /\ Cardinality((S \ {c}) \ {d}) <= n
           /\ Cardinality(S \ {d}) <= n + 1
           /\ Cardinality((S \cup {d}) \ {d}) <= n + 1
  <1>2. IsFiniteSet(S)
    BY FewCards
  <1> DEFINE Rest == S \ {c}
  <1>3. Rest \in SUBSET S /\ Rest \ {d} \in SUBSET Rest
    OBVIOUS
  <1>4. IsFiniteSet(Rest) /\ IsFiniteSet(S \ {d}) /\ IsFiniteSet(Rest \ {d})
    BY <1>2, <1>3, FS_Subset
  <1>5. IsFiniteSet(Rest \cup {c}) /\ Cardinality(Rest \cup {c}) <= Cardinality(Rest) + 1
    <2>1. CASE c \in Rest
      <3>1. Rest \cup {c} = Rest
        BY <2>1
      <3>2. Cardinality(Rest) \in Nat
        BY <1>4, FS_CardinalityType
      <3> HIDE DEF Rest
      <3>3. QED
        BY <1>4, <3>1, <3>2
    <2>2. CASE c \notin Rest
      <3>1. Cardinality(Rest \cup {c}) = Cardinality(Rest) + 1 /\ IsFiniteSet(Rest \cup {c})
        BY <1>4, <2>2, FS_AddElement
      <3>2. Cardinality(Rest) \in Nat
        BY <1>4, FS_CardinalityType
      <3> HIDE DEF Rest
      <3>3. QED
        BY <3>1, <3>2
    <2>3. QED
      BY <2>1, <2>2
  <1>6. S \ {d} \in SUBSET (Rest \cup {c}) /\ (S \cup {d}) \ {d} = S \ {d}
    OBVIOUS
  <1>7. Cardinality(S \ {d}) <= Cardinality(Rest \cup {c})
    BY <1>5, <1>6, FS_Subset
  <1>8. Cardinality(Rest \ {d}) <= Cardinality(Rest)
    BY <1>3, <1>4, FS_Subset
  <1>9. /\ Cardinality(Rest) \in Nat /\ Cardinality(Rest \cup {c}) \in Nat
        /\ Cardinality(S \ {d}) \in Nat /\ Cardinality(Rest \ {d}) \in Nat
    BY <1>4, <1>5, FS_CardinalityType
  <1>10. Cardinality(S \ {d}) <= n + 1 /\ Cardinality(Rest \ {d}) <= n
    <2> HIDE DEF Rest
    <2>1. Cardinality(Rest) <= n
      BY DEF Rest
    <2>2. QED
      BY <1>5, <1>7, <1>8, <1>9, <2>1
  <1>11. QED
    BY <1>2, <1>6, <1>9, <1>10

LEMMA WatchInitially == SupervisorInit => WatchInv
  <1> SUFFICES ASSUME SupervisorInit PROVE WatchInv
    OBVIOUS
  <1>1. EntryFormed(FreshEntry)
    BY SupervisorAssumption DEF EntryFormed, FreshEntry, Fields, NoCard
  <1>2. WatchFormed
    BY <1>1, SupervisorAssumption
       DEF SupervisorInit, WatchFormed, TickFormed, NoTick, Phases, Channels
  <1>3. EndedAnew /\ BootsAreMishaps
    BY DEF SupervisorInit, EndedAnew, BootsAreMishaps, NoTick
  <1>4. \A j \in Jobs : Accounted(j)
    BY SupervisorAssumption DEF SupervisorInit, Accounted, Known, Credit, NoTick, FreshEntry
  <1>5. \A j \in Jobs : TrackedOf(j)
    <2> SUFFICES ASSUME NEW j \in Jobs PROVE TrackedOf(j)
      OBVIOUS
    <2>1. Stray(j) = {} /\ mishaps = 0 /\ opened[j] = {}
      BY DEF SupervisorInit, Stray
    <2>2. QED
      BY <2>1, FS_EmptySet DEF TrackedOf
  <1>6. QED
    BY <1>2, <1>3, <1>4, <1>5 DEF WatchInv

\* What is accounted for stays so, when the credit and the mishaps are not less.
LEMMA AccountsGrow ==
    ASSUME WatchInv, NEW k \in Jobs, NEW f, Known(k)' = f, EntryFormed(f),
           Credit(Known(k)) <= Credit(f),
           resets'[k] = resets[k] \/ resets'[k] = 0, mishaps' \in Nat, mishaps <= mishaps'
    PROVE  Accounted(k)'
  <1>1. /\ mishaps \in Nat /\ resets[k] \in Nat /\ EntryFormed(Known(k))
        /\ resets[k] <= MaxAttempts * mishaps + Credit(Known(k))
    BY DEF WatchInv, WatchFormed, Known, Accounted
  <1>2. Credit(Known(k)) \in Nat /\ Credit(f) \in Nat
    BY <1>1, CreditIsSmall
  <1>3. Credit(Known(k))' = Credit(f)
    BY DEF Credit
  <1>4. MaxAttempts * mishaps <= MaxAttempts * mishaps' /\ MaxAttempts * mishaps \in Nat
        /\ MaxAttempts * mishaps' \in Nat
    BY <1>1, MishapsPay
  <1> DEFINE paid == MaxAttempts * mishaps
             due == MaxAttempts * mishaps'
  <1> HIDE DEF paid, due
  <1>5. /\ paid <= due /\ paid \in Nat /\ due \in Nat
        /\ resets[k] <= paid + Credit(Known(k))
    BY <1>1, <1>4 DEF paid, due
  <1>6. resets'[k] <= due + Credit(f)
    BY <1>1, <1>2, <1>5
  <1>7. QED
    BY <1>3, <1>6 DEF Accounted, due

\* A card that is not known any more has left, or its mishap is counted.
LEMMA StraysGrow ==
    ASSUME NEW S \in SUBSET Cards, NEW T, NEW c, NEW d, NEW n \in Nat, NEW m \in Nat,
           Cardinality(S \ {c}) <= n, n <= m,
           T = S \ {c} \/ (T = S /\ m = n + 1)
    PROVE  Cardinality(T \ {d}) <= m
  <1>1. /\ IsFiniteSet(S) /\ Cardinality((S \ {c}) \ {d}) <= n
        /\ Cardinality(S \ {d}) <= n + 1
    BY OneStray
  <1>2. Cardinality((S \ {c}) \ {d}) \in Nat /\ Cardinality(S \ {d}) \in Nat
    BY <1>1, FS_Difference, FS_CardinalityType
  <1>3. CASE T = S \ {c}
    <2> DEFINE k == Cardinality((S \ {c}) \ {d})
    <2>1. k \in Nat /\ k <= n
      BY <1>1, <1>2
    <2> HIDE DEF k
    <2>2. k <= m
      BY <2>1
    <2>3. QED
      BY <1>3, <2>2 DEF k
  <1>4. CASE T = S /\ m = n + 1
    BY <1>1, <1>4
  <1>5. QED
    BY <1>3, <1>4

\* A mishap pays for all recoveries that an entry may account for, and for a card.
LEMMA MishapAccounts ==
    ASSUME WatchInv, NEW k \in Jobs, NEW f, Known(k)' = f, EntryFormed(f),
           resets'[k] = resets[k], mishaps' = mishaps + 1
    PROVE  Accounted(k)'
  <1>1. /\ mishaps \in Nat /\ resets[k] \in Nat /\ EntryFormed(Known(k))
        /\ resets[k] <= MaxAttempts * mishaps + Credit(Known(k))
    BY DEF WatchInv, WatchFormed, Known, Accounted
  <1>2. Credit(Known(k)) \in 0..MaxAttempts /\ Credit(f) \in Nat /\ MaxAttempts \in Nat
    BY <1>1, CreditIsSmall
  <1>3. Credit(Known(k))' = Credit(f)
    BY DEF Credit
  <1>4. /\ MaxAttempts * mishaps \in Nat
        /\ MaxAttempts * (mishaps + 1) = MaxAttempts * mishaps + MaxAttempts
    BY <1>1, MishapsPay
  <1> DEFINE paid == MaxAttempts * mishaps
             due == MaxAttempts * mishaps'
  <1>5. due = paid + MaxAttempts /\ paid \in Nat
    BY <1>4
  <1> HIDE DEF paid, due
  <1>6. resets[k] <= paid + Credit(Known(k))
    BY <1>1 DEF paid
  <1>7. resets'[k] <= due + Credit(f)
    BY <1>1, <1>2, <1>5, <1>6
  <1>8. QED
    BY <1>3, <1>7 DEF Accounted, due

LEMMA MishapTracks ==
    ASSUME WatchInv, NEW k \in Jobs, NEW f, Known(k)' = f,
           shown'[k] = shown[k], mishaps' = mishaps + 1
    PROVE  TrackedOf(k)'
  <1>1. /\ shown[k] \in SUBSET Cards /\ mishaps \in Nat
        /\ Cardinality(shown[k] \ {Known(k).card}) <= mishaps
    BY DEF WatchInv, WatchFormed, TrackedOf, Stray
  <1>2. Cardinality(shown[k] \ {f.card}) <= mishaps + 1
    BY <1>1, OneStray
  <1>3. mishaps + 1 # 0
    BY <1>1
  <1>4. QED
    BY <1>2, <1>3 DEF TrackedOf, Stray

\* An event that a step leaves alone is accounted for as before.
LEMMA OthersKeep ==
    ASSUME WatchInv, NEW k \in Jobs, Known(k)' = Known(k), shown'[k] = shown[k],
           opened'[k] = opened[k], resets'[k] = resets[k],
           mishaps' \in Nat, mishaps <= mishaps'
    PROVE  Accounted(k)' /\ TrackedOf(k)'
  <1>1. mishaps \in Nat /\ resets[k] \in Nat /\ Credit(Known(k)) \in 0..MaxAttempts
    BY SupervisorAssumption DEF WatchInv, WatchFormed, Known, EntryFormed, Credit
  <1>2. Credit(Known(k))' = Credit(Known(k))
    BY DEF Credit
  <1>3. MaxAttempts * mishaps <= MaxAttempts * mishaps' /\ MaxAttempts * mishaps \in Nat
        /\ MaxAttempts * mishaps' \in Nat
    BY <1>1, MishapsPay
  <1>4. Accounted(k)'
    <2> DEFINE paid == MaxAttempts * mishaps
               due == MaxAttempts * mishaps'
    <2>1. resets[k] <= paid + Credit(Known(k))
      BY DEF WatchInv, Accounted
    <2>2. paid <= due /\ paid \in Nat /\ due \in Nat /\ MaxAttempts \in Nat
      BY <1>3, SupervisorAssumption
    <2> HIDE DEF paid, due
    <2>3. resets[k] <= due + Credit(Known(k))
      BY <1>1, <2>1, <2>2
    <2>4. QED
      BY <1>2, <2>3 DEF Accounted, due
  <1>5. Cardinality(Stray(k)) <= mishaps'
    <2>1. Cardinality(Stray(k)) <= mishaps /\ shown[k] \in SUBSET Cards
      BY DEF WatchInv, TrackedOf, WatchFormed
    <2>2. Cardinality(Stray(k)) \in Nat
      BY <1>1, <2>1, OneStray DEF Stray
    <2>3. QED
      BY <1>1, <2>1, <2>2
  <1>6. Stray(k)' = Stray(k)
    BY DEF Stray
  <1>7. QED
    BY <1>1, <1>4, <1>5, <1>6 DEF TrackedOf, WatchInv

\* The gateway's own steps: recoveries are forgotten, or kept.
LEMMA GatewayMoves ==
    ASSUME WatchInv, UNCHANGED <<entry, watch, shown, carded, opened, bootId, mishaps, chat>>,
           DOMAIN job' = Jobs, \A j \in Jobs : DOMAIN job'[j] = {"status", "claim", "old"},
           resets' \in [Jobs -> Nat], \A j \in Jobs : resets'[j] <= resets[j],
           \A j \in Jobs : job'[j].status \in {"done", "failed"} => resets'[j] = 0
    PROVE  WatchInv'
  <1>1. WatchFormed'
    BY DEF WatchInv, WatchFormed, TickFormed, EntryFormed
  <1>2. EndedAnew'
    <2> SUFFICES ASSUME watch.at = "finalizing", NEW j \in watch.todo PROVE resets'[j] = 0
      BY DEF EndedAnew
    <2>1. j \in Jobs /\ resets[j] = 0
      BY DEF WatchInv, WatchFormed, TickFormed, EndedAnew
    <2>2. QED
      BY <2>1
  <1>3. BootsAreMishaps'
    BY DEF WatchInv, BootsAreMishaps
  <1>4. ASSUME NEW j \in Jobs PROVE Accounted(j)' /\ TrackedOf(j)'
    <2> DEFINE paid == MaxAttempts * mishaps + Credit(Known(j))
    <2>a. mishaps \in Nat /\ EntryFormed(Known(j))
      BY DEF WatchInv, WatchFormed, Known
    <2>1. /\ resets[j] <= paid /\ MaxAttempts * mishaps \in Nat
          /\ Credit(Known(j)) \in 0..MaxAttempts /\ MaxAttempts \in Nat
      BY <2>a, MishapsPay, CreditIsSmall DEF WatchInv, Accounted
    <2>2. paid \in Nat
      BY <2>1
    <2>3. paid' = paid
      BY DEF Credit, Known
    <2> HIDE DEF paid
    <2>4. resets'[j] <= paid
      BY <2>1, <2>2 DEF WatchInv, WatchFormed
    <2>5. Accounted(j)'
      BY <2>3, <2>4 DEF Accounted, paid
    <2>6. TrackedOf(j)'
      BY DEF WatchInv, TrackedOf, Stray, Known
    <2>7. QED
      BY <2>5, <2>6
  <1>5. QED
    BY <1>1, <1>2, <1>3, <1>4 DEF WatchInv

LEMMA GatewaySteps ==
    ASSUME WatchInv, NEW j \in Jobs,
           \/ ClaimJob(j) \/ ThresholdPasses(j) \/ SpawnAdapter(j) \/ AdapterGone(j)
           \/ JobEnds(j) \/ OperatorRetries(j)
    PROVE  WatchInv'
  <1> USE DEF WatchInv, WatchFormed, EndedAnew
  <1>1. ASSUME UNCHANGED job, UNCHANGED resets,
               UNCHANGED <<entry, watch, shown, carded, opened, bootId, mishaps, chat>>
        PROVE  WatchInv'
    <2> SUFFICES \A k \in Jobs : resets[k] <= resets[k]
      BY <1>1, GatewayMoves
    <2> QED
      OBVIOUS
  <1>2. CASE ClaimJob(j)
    <2>1. \A k \in Jobs : /\ DOMAIN job'[k] = {"status", "claim", "old"}
                          /\ job'[k].status \in {"done", "failed"} => job[k].status = job'[k].status
      BY <1>2 DEF ClaimJob
    <2>2. DOMAIN job' = Jobs /\ \A k \in Jobs : resets'[k] <= resets[k]
      BY <1>2 DEF ClaimJob
    <2>3. QED
      BY <1>2, <2>1, <2>2, GatewayMoves DEF ClaimJob
  <1>3. CASE ThresholdPasses(j)
    <2>1. \A k \in Jobs : /\ DOMAIN job'[k] = {"status", "claim", "old"}
                          /\ job'[k].status \in {"done", "failed"} => job[k].status = job'[k].status
      BY <1>3 DEF ThresholdPasses
    <2>2. DOMAIN job' = Jobs /\ \A k \in Jobs : resets'[k] <= resets[k]
      BY <1>3 DEF ThresholdPasses
    <2>3. QED
      BY <1>3, <2>1, <2>2, GatewayMoves DEF ThresholdPasses
  <1>4. CASE SpawnAdapter(j)
    BY <1>1, <1>4 DEF SpawnAdapter
  <1>5. CASE AdapterGone(j)
    BY <1>1, <1>5 DEF AdapterGone
  <1>6. CASE JobEnds(j)
    <2>1. PICK s \in {"queued", "done", "failed"} :
             /\ job' = [job EXCEPT ![j].status = s, ![j].old = FALSE]
             /\ resets' = IF s = "queued" THEN resets ELSE [resets EXCEPT ![j] = 0]
      BY <1>6 DEF JobEnds, Status
    <2>2. \A k \in Jobs : /\ DOMAIN job'[k] = {"status", "claim", "old"}
                          /\ job'[k].status = IF k = j THEN s ELSE job[k].status
      BY <2>1
    <2>3. \A k \in Jobs : resets'[k] = IF k = j /\ s # "queued" THEN 0 ELSE resets[k]
      BY <2>1
    <2>4. DOMAIN job' = Jobs /\ resets' \in [Jobs -> Nat]
      BY <2>1
    <2>5. \A k \in Jobs : resets'[k] <= resets[k]
      BY <2>3
    <2>6. \A k \in Jobs : job'[k].status \in {"done", "failed"} => resets'[k] = 0
      BY <2>2, <2>3
    <2>7. QED
      BY <1>6, <2>2, <2>4, <2>5, <2>6, GatewayMoves DEF JobEnds
  <1>7. CASE OperatorRetries(j)
    <2>1. \A k \in Jobs : /\ DOMAIN job'[k] = {"status", "claim", "old"}
                          /\ job'[k].status \in {"done", "failed"} => job[k].status = job'[k].status
      BY <1>7 DEF OperatorRetries, Status
    <2>2. DOMAIN job' = Jobs /\ \A k \in Jobs : resets'[k] <= resets[k]
      BY <1>7 DEF OperatorRetries, Status
    <2>3. QED
      BY <1>7, <2>1, <2>2, GatewayMoves DEF OperatorRetries
  <1>8. QED
    BY <1>2, <1>3, <1>4, <1>5, <1>6, <1>7

\* The steps of a tick that only look.
LEMMA TickLooks ==
    ASSUME WatchInv, Snap \/ FetchStatuses \/ BeginRecovery \/ BeginAnnouncing
    PROVE  WatchInv'
  <1>1. /\ UNCHANGED <<job, entry, shown, carded, opened, bootId, resets, mishaps, chat>>
        /\ TickFormed' /\ \A j \in Jobs : EntryFormed(watch'.book[j])
        /\ \A j \in Jobs : Known(j)' = Known(j)
        /\ watch'.at = "finalizing" => \A j \in watch'.todo : resets[j] = 0
    <2> USE DEF WatchInv, WatchFormed, TickFormed, Phases
    <2>1. CASE Snap
      BY <2>1 DEF Snap, Known
    <2>2. CASE FetchStatuses
      <3>1. \A j \in watch'.todo : j \in Jobs /\ job[j].status \in {"done", "failed"}
        BY <2>2 DEF FetchStatuses, Candidates
      <3>2. QED
        BY <2>2, <3>1 DEF FetchStatuses, Known, EndedAnew
    <2>3. CASE BeginRecovery
      BY <2>3 DEF BeginRecovery, Known, Seen
    <2>4. CASE BeginAnnouncing
      BY <2>4 DEF BeginAnnouncing, Known, Seen
    <2>5. QED
      BY <2>1, <2>2, <2>3, <2>4
  <1>2. WatchFormed'
    BY <1>1 DEF WatchInv, WatchFormed, TickFormed, EntryFormed
  <1>3. EndedAnew' /\ BootsAreMishaps'
    BY <1>1 DEF WatchInv, EndedAnew, BootsAreMishaps
  <1>4. \A j \in Jobs : Accounted(j)' /\ TrackedOf(j)'
    <2> SUFFICES ASSUME NEW j \in Jobs PROVE Accounted(j)' /\ TrackedOf(j)'
      OBVIOUS
    <2>1. mishaps \in Nat /\ mishaps <= mishaps
      BY DEF WatchInv, WatchFormed
    <2>2. QED
      BY <1>1, <2>1, OthersKeep
  <1>5. QED
    BY <1>2, <1>3, <1>4 DEF WatchInv

\* What is left of an entry after an attempt to take its card and report away.
LEMMA FinalizedEntry ==
    ASSUME NEW e, EntryFormed(e), NEW c \in BOOLEAN, NEW r \in BOOLEAN
    PROVE  /\ EntryFormed(AfterFinalize(e, c, r))
           /\ c /\ r => AfterFinalize(e, c, r) = FreshEntry
  <1>1. EntryFormed(FreshEntry)
    BY SupervisorAssumption DEF EntryFormed, FreshEntry, Fields, NoCard
  <1> DEFINE f == [e EXCEPT !.card = IF c THEN NoCard ELSE @,
                            !.finished = @ \/ (e.started /\ r)]
             g == [f EXCEPT !.finals = @ + 1]
  <1>2. /\ DOMAIN f = Fields /\ f.card \in Cards \cup {NoCard} /\ f.attempts = e.attempts
        /\ f.pin = e.pin /\ f.finals = e.finals
    BY DEF EntryFormed, Fields
  <1>3. f.started = e.started /\ (f.finished => e.started)
    BY DEF EntryFormed, Fields
  <1> HIDE DEF f
  <1>4. /\ DOMAIN g = Fields /\ g.card = f.card /\ g.attempts = f.attempts
        /\ g.pin = f.pin /\ g.finals = f.finals + 1 /\ g.started = f.started
        /\ g.finished = f.finished
    BY <1>2 DEF Fields
  <1>5. ASSUME ~(e.finals + 1 >= FinalizeCap) PROVE g.finals \in 0..FinalizeCap
    BY <1>2, <1>4, <1>5, SupervisorAssumption DEF EntryFormed
  <1>6. ASSUME ~(e.finals + 1 >= FinalizeCap) PROVE EntryFormed(g)
    <2> HIDE DEF g
    <2>1. QED
      BY <1>2, <1>3, <1>4, <1>5, <1>6 DEF EntryFormed
  <1>7. AfterFinalize(e, c, r) =
            IF (c /\ r) \/ e.finals + 1 >= FinalizeCap THEN FreshEntry ELSE g
    BY DEF AfterFinalize, f
  <1> HIDE DEF g
  <1>8. QED
    BY <1>1, <1>6, <1>7

LEMMA FinalizeKeeps ==
    ASSUME WatchInv, NEW j \in Jobs, Finalize(j)
    PROVE  WatchInv'
  <1> DEFINE e == watch.book[j]
  <1>1. PICK answer \in DeleteAnswers, reportOk \in BOOLEAN :
           /\ (e.card = NoCard => answer = "ok")
           /\ (~(e.started /\ ~e.finished) => reportOk)
           /\ IF answer \in {"ok", "missing"} /\ reportOk THEN UNCHANGED mishaps ELSE Mishap
           /\ shown' = [shown EXCEPT ![j] = IF Removed(answer) THEN @ \ {e.card} ELSE @]
           /\ IF (e.started /\ ~e.finished) /\ reportOk THEN ReportFinished(j) ELSE UNCHANGED opened
           /\ watch' = [watch EXCEPT !.todo = @ \ {j},
                           !.book = Booked(j, AfterFinalize(e, answer \in Deleted(chat.channel[j]), reportOk))]
    BY DEF Finalize
  <1> DEFINE cardOk == answer \in Deleted(chat.channel[j])
             f == AfterFinalize(e, cardOk, reportOk)
  <1>2. /\ watch.at = "finalizing" /\ j \in watch.todo
        /\ UNCHANGED <<job, entry, carded, bootId, resets, chat>>
    BY DEF Finalize
  <1>3. EntryFormed(e) /\ mishaps \in Nat /\ TickFormed /\ resets[j] = 0
    BY <1>2 DEF WatchInv, WatchFormed, EndedAnew
  <1>4. EntryFormed(f) /\ (cardOk /\ reportOk => f = FreshEntry)
    <2>1. cardOk \in BOOLEAN
      OBVIOUS
    <2> HIDE DEF cardOk
    <2>2. QED
      BY <1>3, <2>1, FinalizedEntry
  <1> HIDE DEF f
  <1>5. /\ watch'.at = "finalizing" /\ watch'.todo = watch.todo \ {j}
        /\ watch'.book = [watch.book EXCEPT ![j] = f]
        /\ DOMAIN watch' = {"at", "view", "todo", "spared", "book"}
    BY <1>1, <1>2, <1>3 DEF TickFormed, Booked, f
  <1>6. /\ mishaps' \in Nat /\ mishaps <= mishaps' /\ mishaps' <= mishaps + 1
        /\ Removed(answer) \/ mishaps' = mishaps + 1
        /\ mishaps' = 0 => answer \in {"ok", "missing"} /\ reportOk /\ mishaps = 0
    BY <1>1, <1>3 DEF Mishap, Removed
  <1>7. opened'[j] \in {opened[j], opened[j] \ {bootId}}
        /\ \A k \in Jobs \ {j} : opened'[k] = opened[k]
    BY <1>1 DEF ReportFinished, WatchInv, WatchFormed
  <1>8. /\ shown'[j] = IF Removed(answer) THEN shown[j] \ {e.card} ELSE shown[j]
        /\ \A k \in Jobs \ {j} : shown'[k] = shown[k]
    BY <1>1 DEF WatchInv, WatchFormed
  <1>9. WatchFormed'
    <2>1. TickFormed' /\ \A k \in Jobs : EntryFormed(watch'.book[k])
      BY <1>2, <1>3, <1>4, <1>5 DEF TickFormed, WatchInv, WatchFormed, Phases
    <2>2. shown' \in [Jobs -> SUBSET Cards] /\ opened' \in [Jobs -> SUBSET Nat]
      BY <1>1 DEF WatchInv, WatchFormed, ReportFinished
    <2>3. QED
      BY <1>2, <1>6, <2>1, <2>2 DEF WatchInv, WatchFormed, EntryFormed
  <1>10. EndedAnew'
    BY <1>2, <1>5 DEF WatchInv, EndedAnew
  <1>11. BootsAreMishaps'
    <2>1. bootId \in Nat /\ bootId <= mishaps /\ bootId' = bootId
      BY <1>2 DEF WatchInv, WatchFormed, BootsAreMishaps
    <2>2. \A k \in Jobs : opened'[k] \subseteq opened[k]
      BY <1>7
    <2>3. \A k \in Jobs : \A b \in opened'[k] : b <= bootId
      BY <2>2 DEF WatchInv, BootsAreMishaps
    <2>4. bootId <= mishaps'
      BY <1>3, <1>6, <2>1
    <2>5. QED
      BY <2>1, <2>3, <2>4 DEF BootsAreMishaps
  <1>12. Known(j) = e /\ Known(j)' = f /\ \A k \in Jobs \ {j} : Known(k)' = Known(k)
    BY <1>2, <1>3, <1>5 DEF Known, TickFormed
  <1>13. ASSUME NEW k \in Jobs, k # j PROVE Accounted(k)' /\ TrackedOf(k)'
    BY <1>2, <1>6, <1>7, <1>8, <1>12, <1>13, OthersKeep
  <1>14. Accounted(j)'
    <2>1. Credit(f) \in Nat /\ MaxAttempts * mishaps' \in Nat
      BY <1>4, <1>6, MishapsPay, CreditIsSmall
    <2>2. Credit(Known(j))' = Credit(f)
      BY <1>12 DEF Credit
    <2> DEFINE paid == MaxAttempts * mishaps'
    <2>3. paid \in Nat /\ resets'[j] = 0
      BY <1>2, <1>3, <2>1
    <2> HIDE DEF paid
    <2>4. resets'[j] <= paid + Credit(f)
      BY <2>1, <2>3
    <2>5. QED
      BY <2>2, <2>4 DEF Accounted, paid
  <1>15. TrackedOf(j)'
    <2>1. shown[j] \in SUBSET Cards /\ Cardinality(shown[j] \ {e.card}) <= mishaps
      BY <1>12 DEF WatchInv, WatchFormed, TrackedOf, Stray
    <2>2. /\ Cardinality((shown[j] \ {e.card}) \ {f.card}) <= mishaps
          /\ Cardinality(shown[j] \ {f.card}) <= mishaps + 1
      BY <1>3, <2>1, OneStray
    <2>3. Cardinality(shown'[j] \ {f.card}) <= mishaps'
      <3>1. CASE Removed(answer)
        <4>1. shown'[j] \ {f.card} = (shown[j] \ {e.card}) \ {f.card}
          BY <1>8, <3>1
        <4>2. IsFiniteSet(shown[j])
          BY <1>3, <2>1, OneStray
        <4>3. Cardinality((shown[j] \ {e.card}) \ {f.card}) \in Nat
          BY <4>2, FS_Difference, FS_CardinalityType
        <4> DEFINE n == Cardinality((shown[j] \ {e.card}) \ {f.card})
        <4> HIDE DEF n
        <4>4. n \in Nat /\ n <= mishaps
          BY <2>2, <4>3 DEF n
        <4>5. n <= mishaps'
          BY <1>3, <1>6, <4>4
        <4>6. QED
          BY <4>1, <4>5 DEF n
      <3>2. CASE ~Removed(answer)
        BY <1>6, <1>8, <2>2, <3>2
      <3>3. QED
        BY <3>1, <3>2
    <2>4. Stray(j)' = shown'[j] \ {f.card}
      BY <1>12 DEF Stray
    <2>5. ASSUME mishaps' = 0 PROVE opened'[j] = {}
      <3>1. mishaps = 0 /\ bootId = 0 /\ \A b \in opened[j] : b = 0
        BY <1>6, <2>5 DEF WatchInv, WatchFormed, BootsAreMishaps
      <3>2. reportOk /\ (opened[j] # {} => e.started /\ ~e.finished)
        BY <1>6, <1>12, <2>5, <3>1 DEF WatchInv, TrackedOf
      <3>3. CASE e.started /\ ~e.finished
        <4>1. opened'[j] = opened[j] \ {bootId}
          BY <1>1, <3>2, <3>3 DEF ReportFinished, WatchInv, WatchFormed
        <4>2. QED
          BY <3>1, <4>1
      <3>4. CASE ~(e.started /\ ~e.finished)
        BY <1>1, <3>2, <3>4
      <3>5. QED
        BY <3>3, <3>4
    <2>6. QED
      BY <2>3, <2>4, <2>5 DEF TrackedOf
  <1>16. QED
    BY <1>9, <1>10, <1>11, <1>13, <1>14, <1>15 DEF WatchInv

\* A recovery spends one attempt of the entry, and is counted once.
LEMMA RecoverKeeps ==
    ASSUME WatchInv, NEW j \in Jobs, Recover(j)
    PROVE  WatchInv'
  <1> DEFINE e == watch.book[j]
             f == [e EXCEPT !.attempts = @ + 1, !.pin = "held"]
  <1>1. /\ watch.at = "recovering" /\ j \in watch.todo /\ ~Exhausted(j)
        /\ UNCHANGED <<entry, shown, carded, opened, bootId, mishaps, chat>>
    BY DEF Recover, InTurn
  <1>2. EntryFormed(e) /\ mishaps \in Nat /\ TickFormed /\ bootId \in Nat
    BY <1>1 DEF WatchInv, WatchFormed
  <1>3. CASE ~(job[j].status = "running" /\ job[j].claim = watch.view[j].claim)
    <2>1. /\ UNCHANGED <<job, resets>> /\ watch'.at = watch.at /\ watch'.todo \subseteq watch.todo
          /\ watch'.book = watch.book /\ DOMAIN watch' = DOMAIN watch
      BY <1>2, <1>3 DEF Recover, Handled, TickFormed
    <2>2. WatchFormed'
      BY <1>1, <1>2, <2>1 DEF WatchInv, WatchFormed, TickFormed, EntryFormed
    <2>3. EndedAnew' /\ BootsAreMishaps'
      BY <1>1, <2>1 DEF WatchInv, EndedAnew, BootsAreMishaps
    <2>4. ASSUME NEW k \in Jobs PROVE Accounted(k)' /\ TrackedOf(k)'
      <3>1. Known(k)' = Known(k) /\ mishaps <= mishaps
        BY <1>1, <1>2, <2>1 DEF Known
      <3>2. QED
        BY <1>1, <1>2, <2>1, <3>1, OthersKeep
    <2>5. QED
      BY <2>2, <2>3, <2>4 DEF WatchInv
  <1>4. CASE job[j].status = "running" /\ job[j].claim = watch.view[j].claim
    <2>1. /\ Status(j, "queued") /\ resets' = [resets EXCEPT ![j] = @ + 1]
          /\ watch' = [watch EXCEPT !.todo = @ \ {j}, !.spared = @ \cup {j}, !.book = Booked(j, f)]
      BY <1>4 DEF Recover
    <2>2. /\ watch'.at = "recovering" /\ watch'.todo = watch.todo \ {j}
          /\ DOMAIN watch' = {"at", "view", "todo", "spared", "book"}
          /\ watch'.book = [watch.book EXCEPT ![j] = f]
      BY <1>1, <1>2, <2>1 DEF TickFormed, Booked
    <2>3. /\ DOMAIN f = Fields /\ f.card = e.card /\ f.attempts = e.attempts + 1 /\ f.pin = "held"
          /\ f.finals = e.finals
      BY <1>2 DEF EntryFormed, Fields
    <2>4. f.started = e.started /\ f.finished = e.finished
      BY <1>2 DEF EntryFormed, Fields
    <2>5. e.attempts + 1 \in 0..MaxAttempts /\ e.attempts \in Nat
      BY <1>1, <1>2, SupervisorAssumption DEF Exhausted, EntryFormed
    <2> HIDE DEF f
    <2>6. EntryFormed(f) /\ Credit(f) = e.attempts + 1
      BY <1>2, <2>3, <2>4, <2>5 DEF EntryFormed, Credit
    <2>7. DOMAIN job' = Jobs /\ \A k \in Jobs :
             /\ DOMAIN job'[k] = {"status", "claim", "old"}
             /\ job'[k].status = IF k = j THEN "queued" ELSE job[k].status
      BY <2>1 DEF Status, WatchInv, WatchFormed
    <2>8. /\ resets' \in [Jobs -> Nat] /\ resets'[j] = resets[j] + 1
          /\ \A k \in Jobs \ {j} : resets'[k] = resets[k]
      BY <2>1 DEF WatchInv, WatchFormed
    <2>9. WatchFormed'
      <3>1. TickFormed' /\ \A k \in Jobs : EntryFormed(watch'.book[k])
        BY <1>2, <2>2, <2>6 DEF TickFormed, WatchInv, WatchFormed, Phases
      <3>2. QED
        BY <1>1, <2>7, <2>8, <3>1 DEF WatchInv, WatchFormed, EntryFormed
    <2>10. EndedAnew' /\ BootsAreMishaps'
      BY <1>1, <2>2, <2>7, <2>8 DEF WatchInv, EndedAnew, BootsAreMishaps
    <2>11. Known(j) = e /\ Known(j)' = f /\ \A k \in Jobs \ {j} : Known(k)' = Known(k)
      BY <1>1, <1>2, <2>2 DEF Known, TickFormed
    <2>12. ASSUME NEW k \in Jobs, k # j PROVE Accounted(k)' /\ TrackedOf(k)'
      BY <1>1, <1>2, <2>8, <2>11, <2>12, OthersKeep
    <2>13. Accounted(j)'
      <3>1. Credit(e) <= e.attempts /\ Credit(e) \in Nat
        BY <1>2, <2>5, CreditIsSmall DEF Credit
      <3>2. Credit(Known(j))' = e.attempts + 1
        BY <2>6, <2>11 DEF Credit
      <3> DEFINE paid == MaxAttempts * mishaps
      <3>3. paid \in Nat /\ resets[j] <= paid + Credit(e) /\ resets[j] \in Nat
        BY <1>2, <2>11, MishapsPay DEF WatchInv, WatchFormed, Accounted
      <3> HIDE DEF paid
      <3>4. resets'[j] <= paid + (e.attempts + 1)
        BY <2>5, <2>8, <3>1, <3>3
      <3>5. paid' = paid
        BY <1>1 DEF paid
      <3>6. QED
        BY <3>2, <3>4, <3>5 DEF Accounted, paid
    <2>14. TrackedOf(j)'
      BY <1>1, <2>3, <2>4, <2>11 DEF WatchInv, TrackedOf, Stray
    <2>15. QED
      BY <2>9, <2>10, <2>12, <2>13, <2>14 DEF WatchInv
  <1>5. QED
    BY <1>3, <1>4

\* The card of an event that is given up is edited for the last time, and forgotten.
LEMMA StopCardKeeps ==
    ASSUME WatchInv, NEW j \in Jobs, StopCard(j)
    PROVE  WatchInv'
  <1> DEFINE e == watch.book[j]
             f == [e EXCEPT !.card = NoCard]
  <1>1. /\ watch.at = "recovering" /\ j \in watch.todo
        /\ watch' = [watch EXCEPT !.book[j].card = NoCard]
        /\ UNCHANGED <<job, entry, carded, opened, bootId, resets, chat>>
    BY DEF StopCard, InTurn
  <1>2. \/ shown' = [shown EXCEPT ![j] = @ \ {e.card}] /\ UNCHANGED mishaps
        \/ UNCHANGED shown /\ Mishap
    BY DEF StopCard
  <1>3. EntryFormed(e) /\ mishaps \in Nat /\ TickFormed /\ bootId \in Nat
    BY <1>1 DEF WatchInv, WatchFormed
  <1>4. /\ watch'.at = "recovering" /\ watch'.todo = watch.todo
        /\ DOMAIN watch' = {"at", "view", "todo", "spared", "book"}
        /\ watch'.book = [watch.book EXCEPT ![j] = f]
    BY <1>1, <1>3 DEF TickFormed
  <1>5. /\ DOMAIN f = Fields /\ f.card = NoCard /\ f.attempts = e.attempts /\ f.pin = e.pin
        /\ f.finals = e.finals
    BY <1>3 DEF EntryFormed, Fields
  <1>6. f.started = e.started /\ f.finished = e.finished
    BY <1>3 DEF EntryFormed, Fields
  <1> HIDE DEF f
  <1>7. EntryFormed(f) /\ Credit(f) = Credit(e)
    BY <1>3, <1>5, <1>6 DEF EntryFormed, Credit
  <1>8. /\ mishaps' \in Nat /\ mishaps <= mishaps' /\ mishaps' <= mishaps + 1
        /\ shown'[j] = shown[j] \ {e.card} \/ (shown'[j] = shown[j] /\ mishaps' = mishaps + 1)
        /\ \A k \in Jobs \ {j} : shown'[k] = shown[k]
        /\ shown' \in [Jobs -> SUBSET Cards]
    BY <1>2, <1>3 DEF Mishap, WatchInv, WatchFormed
  <1>9. WatchFormed'
    <2>1. TickFormed' /\ \A k \in Jobs : EntryFormed(watch'.book[k])
      BY <1>3, <1>4, <1>7 DEF TickFormed, WatchInv, WatchFormed, Phases
    <2>2. QED
      BY <1>1, <1>8, <2>1 DEF WatchInv, WatchFormed, EntryFormed
  <1>10. EndedAnew' /\ BootsAreMishaps'
    <2>1. bootId <= mishaps'
      BY <1>3, <1>8 DEF WatchInv, BootsAreMishaps
    <2>2. QED
      BY <1>1, <1>4, <2>1 DEF WatchInv, EndedAnew, BootsAreMishaps
  <1>11. Known(j) = e /\ Known(j)' = f /\ \A k \in Jobs \ {j} : Known(k)' = Known(k)
    BY <1>1, <1>3, <1>4 DEF Known, TickFormed
  <1>12. ASSUME NEW k \in Jobs, k # j PROVE Accounted(k)' /\ TrackedOf(k)'
    BY <1>1, <1>8, <1>11, <1>12, OthersKeep
  <1>13. Accounted(j)'
    <2>1. Credit(e) \in Nat /\ Credit(e) <= Credit(f)
      BY <1>3, <1>7, CreditIsSmall
    <2>2. resets'[j] = resets[j]
      BY <1>1
    <2>3. QED
      BY <1>7, <1>8, <1>11, <2>1, <2>2, AccountsGrow
  <1>14. TrackedOf(j)'
    <2>1. shown[j] \in SUBSET Cards /\ Cardinality(shown[j] \ {e.card}) <= mishaps
      BY <1>11 DEF WatchInv, WatchFormed, TrackedOf, Stray
    <2>2. Cardinality(shown'[j] \ {f.card}) <= mishaps'
      <3>1. PICK T : T = shown'[j]
        OBVIOUS
      <3>2. PICK m \in Nat : m = mishaps' /\ mishaps <= m
        BY <1>8
      <3>3. T = shown[j] \ {e.card} \/ (T = shown[j] /\ m = mishaps + 1)
        BY <1>8, <3>1, <3>2
      <3> HIDE DEF e
      <3>4. Cardinality(T \ {f.card}) <= m
        BY <1>3, <2>1, <3>2, <3>3, StraysGrow
      <3>5. QED
        BY <3>1, <3>2, <3>4
    <2>3. ASSUME mishaps' = 0 PROVE mishaps = 0
      BY <1>3, <1>8, <2>3
    <2>4. QED
      BY <1>1, <1>6, <1>11, <2>2, <2>3 DEF WatchInv, TrackedOf, Stray
  <1>15. QED
    BY <1>9, <1>10, <1>12, <1>13, <1>14 DEF WatchInv

LEMMA EscalateKeeps ==
    ASSUME WatchInv, NEW j \in Jobs, Escalate(j)
    PROVE  WatchInv'
  <1>1. /\ watch.at = "recovering" /\ DOMAIN watch' = DOMAIN watch /\ watch'.at = watch.at
        /\ watch'.todo = watch.todo \ {j} /\ watch'.book = watch.book
        /\ UNCHANGED <<entry, shown, carded, opened, bootId, mishaps, chat>>
    BY DEF Escalate, InTurn, Handled, WatchInv, WatchFormed, TickFormed
  <1>2. \/ UNCHANGED <<job, resets>>
        \/ Status(j, "failed") /\ resets' = [resets EXCEPT ![j] = 0]
    BY DEF Escalate
  <1>3. DOMAIN job' = Jobs /\ \A k \in Jobs :
           /\ DOMAIN job'[k] = {"status", "claim", "old"}
           /\ job'[k].status \in {"done", "failed"} => resets'[k] = 0
           /\ resets'[k] = 0 \/ resets'[k] = resets[k]
    BY <1>2 DEF Status, WatchInv, WatchFormed, EndedAnew
  <1>4. resets' \in [Jobs -> Nat] /\ mishaps \in Nat /\ bootId \in Nat
    BY <1>2 DEF WatchInv, WatchFormed
  <1>5. WatchFormed'
    BY <1>1, <1>3, <1>4 DEF WatchInv, WatchFormed, TickFormed, EntryFormed
  <1>6. EndedAnew' /\ BootsAreMishaps'
    BY <1>1, <1>3 DEF WatchInv, EndedAnew, BootsAreMishaps
  <1>7. ASSUME NEW k \in Jobs PROVE Accounted(k)' /\ TrackedOf(k)'
    <2>1. Known(k)' = Known(k) /\ mishaps <= mishaps
      BY <1>1, <1>4 DEF Known
    <2>2. CASE resets'[k] = resets[k]
      BY <1>1, <1>4, <2>1, <2>2, OthersKeep
    <2>3. CASE resets'[k] = 0
      <3>1. TrackedOf(k)'
        BY <1>1, <2>1 DEF WatchInv, TrackedOf, Stray
      <3>2. Accounted(k)'
        <4>1. EntryFormed(Known(k)) /\ Credit(Known(k)) \in Nat
          BY CreditIsSmall DEF WatchInv, WatchFormed, Known
        <4>2. Credit(Known(k)) <= Credit(Known(k))
          BY <4>1
        <4>3. QED
          BY <1>1, <1>4, <2>1, <2>3, <4>1, <4>2, AccountsGrow
      <3>3. QED
        BY <3>1, <3>2
    <2>4. QED
      BY <1>3, <2>2, <2>3
  <1>8. QED
    BY <1>5, <1>6, <1>7 DEF WatchInv

\* What the announcement of an event may leave: its card, the cards in the chat, and
\* the calls that failed.
OutcomeSound(j, o) ==
    /\ o.card \in Cards \cup {NoCard} /\ o.up \in SUBSET Cards /\ o.sent \in 0..MaxCards
    /\ o.fails \in Nat /\ Cardinality(o.up \ {o.card}) <= mishaps + o.fails

LEMMA SentCards ==
    ASSUME WatchInv, NEW j \in Jobs, carded[j] # MaxCards, NEW up \in SUBSET Cards,
           NEW fails \in Nat, Cardinality(up) <= mishaps + fails, NEW answer \in SendAnswers
    PROVE  OutcomeSound(j, CardSent(j, up, fails, answer))
  <1> DEFINE o == CardSent(j, up, fails, answer)
             next == NextCard(j)
  <1>1. /\ mishaps \in Nat /\ next \in Cards /\ next \in 0..MaxCards /\ carded[j] \in 0..MaxCards
    BY SupervisorAssumption DEF WatchInv, WatchFormed, NextCard, Cards
  <1>2. IsFiniteSet(up) /\ Cardinality(up) \in Nat /\ Cardinality(up \cup {next}) \in Nat
        /\ Cardinality(up \cup {next}) <= Cardinality(up) + 1
    <2>1. IsFiniteSet(up)
      BY FewCards
    <2>2. Cardinality(up) \in Nat /\ IsFiniteSet(up \cup {next})
          /\ (next \in up => up \cup {next} = up)
          /\ (next \notin up => Cardinality(up \cup {next}) = Cardinality(up) + 1)
      <3> HIDE DEF next
      <3>1. QED
        BY <2>1, FS_AddElement, FS_CardinalityType
    <2>3. QED
      <3>1. CASE next \in up
        BY <2>1, <2>2, <3>1
      <3>2. CASE next \notin up
        BY <2>1, <2>2, <3>2
      <3>3. QED
        BY <3>1, <3>2
  <1>3. NoCard \notin up /\ NoCard \notin up \cup {next}
    BY <1>1 DEF NoCard, Cards
  <1>4. CASE answer \in Sent(chat.channel[j])
    <2>1. answer # "refused"
      BY <1>4 DEF Sent, SlackSent, DiscordSent, TelegramSent
    <2>2. o.card = next /\ o.up = up \cup {next} /\ o.sent = next /\ o.fails = fails
      BY <1>4, <2>1 DEF CardSent
    <2>3. o.up \ {o.card} = up \ {next}
      BY <2>2
    <2>4. up \ {next} \in SUBSET up
      OBVIOUS
    <2>5. Cardinality(up \ {next}) <= Cardinality(up) /\ Cardinality(up \ {next}) \in Nat
      BY <1>2, <2>4, FS_Subset, FS_CardinalityType
    <2> DEFINE k == Cardinality(up)
               rest == Cardinality(up \ {next})
    <2> HIDE DEF k, rest, o, next
    <2>6. rest <= mishaps + fails
      <3>1. rest <= k /\ rest \in Nat /\ k \in Nat /\ k <= mishaps + fails
        BY <1>2, <2>5 DEF rest, k
      <3>2. QED
        BY <1>1, <3>1
    <2>7. QED
      BY <1>1, <2>2, <2>3, <2>6 DEF OutcomeSound, rest, o
  <1>5. CASE answer \notin Sent(chat.channel[j])
    <2>1. /\ o.card = NoCard /\ o.fails = fails + 1
          /\ (o.up = up /\ o.sent = carded[j]) \/ (o.up = up \cup {next} /\ o.sent = next)
      BY <1>5 DEF CardSent
    <2>2. o.up \ {o.card} = o.up
      BY <1>3, <2>1
    <2> DEFINE k == Cardinality(up)
               more == Cardinality(up \cup {next})
    <2> HIDE DEF k, more, o, next
    <2>3. k <= mishaps + (fails + 1) /\ more <= mishaps + (fails + 1)
      <3>1. k \in Nat /\ more \in Nat /\ more <= k + 1 /\ k <= mishaps + fails
        BY <1>2 DEF k, more
      <3>2. QED
        BY <1>1, <3>1
    <2>4. CASE o.up = up /\ o.sent = carded[j]
      <3>1. Cardinality(o.up \ {o.card}) <= mishaps + o.fails
        BY <2>1, <2>2, <2>3, <2>4 DEF k
      <3>2. o.fails \in Nat /\ o.sent \in 0..MaxCards
        BY <1>1, <2>1, <2>4
      <3>3. o.card \in Cards \cup {NoCard} /\ o.up \in SUBSET Cards
        BY <2>1, <2>4
      <3>4. QED
        BY <3>1, <3>2, <3>3 DEF OutcomeSound, o
    <2>5. CASE o.up = up \cup {next} /\ o.sent = next
      <3>1. Cardinality(o.up \ {o.card}) <= mishaps + o.fails
        BY <2>1, <2>2, <2>3, <2>5 DEF more
      <3>2. o.fails \in Nat /\ o.sent \in 0..MaxCards
        BY <1>1, <2>1, <2>5
      <3>3. o.card \in Cards \cup {NoCard} /\ o.up \in SUBSET Cards
        BY <1>1, <2>1, <2>5
      <3>4. QED
        BY <3>1, <3>2, <3>3 DEF OutcomeSound, o
    <2>6. QED
      BY <2>1, <2>4, <2>5
  <1>6. QED
    BY <1>4, <1>5

LEMMA OutcomesAreSound ==
    ASSUME WatchInv, watch.at # "idle", NEW j \in Jobs, NEW o \in CardOutcomes(j)
    PROVE  OutcomeSound(j, o)
  <1> DEFINE card == watch.book[j].card
  <1>1. /\ card \in Cards \cup {NoCard} /\ shown[j] \in SUBSET Cards /\ mishaps \in Nat
        /\ carded[j] \in 0..MaxCards
    BY DEF WatchInv, WatchFormed, EntryFormed
  <1>2. Cardinality(shown[j] \ {card}) <= mishaps
    BY DEF WatchInv, TrackedOf, Stray, Known
  <1>3. Cardinality(shown[j] \ {card}) \in Nat /\ Cardinality(shown[j]) \in Nat
        /\ Cardinality(shown[j]) <= mishaps + 1
    <2>1. IsFiniteSet(shown[j]) /\ Cardinality(shown[j] \ {NoCard}) <= mishaps + 1
      BY <1>1, <1>2, OneStray
    <2>2. shown[j] \ {NoCard} = shown[j]
      BY <1>1 DEF Cards, NoCard
    <2>3. QED
      BY <2>1, <2>2, FS_Difference, FS_CardinalityType
  <1>4. OutcomeSound(j, CardStays(j))
    BY <1>1, <1>2, <1>3 DEF OutcomeSound, CardStays
  <1>5. CASE card = NoCard /\ carded[j] # MaxCards
    <2>1. shown[j] \ {card} = shown[j]
      BY <1>1, <1>5 DEF Cards, NoCard
    <2>2. Cardinality(shown[j]) <= mishaps + 0 /\ 0 \in Nat
      BY <1>1, <1>2, <2>1
    <2>3. \A answer \in SendAnswers : OutcomeSound(j, CardSent(j, shown[j], 0, answer))
      BY <1>1, <1>5, <2>2, SentCards
    <2>4. QED
      BY <1>4, <1>5, <2>3 DEF CardOutcomes
  <1>6. CASE card # NoCard /\ carded[j] # MaxCards
    <2>1. ASSUME NEW deleted \in DeleteAnswers, NEW answer \in SendAnswers
          PROVE  OutcomeSound(j, CardReplaced(j, deleted, answer))
      <3> DEFINE up == IF Removed(deleted) THEN shown[j] \ {card} ELSE shown[j]
                 fails == IF deleted \in Deleted(chat.channel[j]) THEN 1 ELSE 2
      <3>1. up \in SUBSET Cards /\ fails \in Nat /\ fails >= 1
        BY <1>1
      <3>2. Cardinality(up) \in Nat /\ Cardinality(up) <= mishaps + 1
        BY <1>1, <1>2, <1>3
      <3>3. CardReplaced(j, deleted, answer) = CardSent(j, up, fails, answer)
        BY DEF CardReplaced
      <3> HIDE DEF up, fails
      <3>4. Cardinality(up) <= mishaps + fails
        BY <1>1, <3>1, <3>2
      <3>5. QED
        BY <1>6, <3>1, <3>3, <3>4, SentCards
    <2>2. QED
      BY <1>4, <1>6, <2>1 DEF CardOutcomes
  <1>7. CASE carded[j] = MaxCards
    BY <1>4, <1>7 DEF CardOutcomes
  <1>8. QED
    BY <1>5, <1>6, <1>7

LEMMA AnnounceKeeps ==
    ASSUME WatchInv, NEW j \in Jobs, Announce(j)
    PROVE  WatchInv'
  <1> DEFINE e == watch.book[j]
  <1>1. PICK report \in ReportOutcomes(j), o \in CardOutcomes(j) :
           /\ mishaps' = mishaps + o.fails + ReportFails(report)
           /\ shown' = [shown EXCEPT ![j] = o.up]
           /\ carded' = [carded EXCEPT ![j] = o.sent]
           /\ IF report \in {"ok", "unheard"} THEN ReportStarted(j) ELSE UNCHANGED opened
           /\ watch' = [watch EXCEPT !.todo = @ \ {j},
                          !.book = Booked(j, [watch.book[j] EXCEPT
                              !.started = @ \/ report = "ok", !.card = o.card])]
    BY DEF Announce
  <1> DEFINE f == [e EXCEPT !.started = @ \/ report = "ok", !.card = o.card]
  <1>2. /\ watch.at = "announcing" /\ j \in watch.todo
        /\ UNCHANGED <<job, adapterPid, entry, bootId, resets, chat>>
    BY DEF Announce
  <1>3. EntryFormed(e) /\ mishaps \in Nat /\ TickFormed /\ bootId \in Nat
    BY DEF WatchInv, WatchFormed
  <1>4. OutcomeSound(j, o)
    BY <1>2, OutcomesAreSound
  <1>5. /\ watch'.at = "announcing" /\ watch'.todo = watch.todo \ {j}
        /\ DOMAIN watch' = {"at", "view", "todo", "spared", "book"}
        /\ watch'.book = [watch.book EXCEPT ![j] = f]
    BY <1>1, <1>2, <1>3 DEF TickFormed, Booked
  <1>6. /\ DOMAIN f = Fields /\ f.card = o.card /\ f.attempts = e.attempts /\ f.pin = e.pin
        /\ f.finals = e.finals
    BY <1>3 DEF EntryFormed, Fields
  <1>7. f.finished = e.finished /\ (f.started <=> (e.started \/ report = "ok"))
    BY <1>3 DEF EntryFormed, Fields
  <1> HIDE DEF f
  <1>8. EntryFormed(f) /\ Credit(f) = Credit(e)
    BY <1>3, <1>4, <1>6, <1>7 DEF EntryFormed, Credit, OutcomeSound
  <1>9. /\ mishaps' \in Nat /\ mishaps <= mishaps' /\ mishaps + o.fails <= mishaps'
        /\ mishaps' = 0 => mishaps = 0 /\ report \notin {"refused", "unheard"}
    BY <1>1, <1>3, <1>4 DEF OutcomeSound, ReportFails
  <1>10. /\ shown'[j] = o.up /\ \A k \in Jobs \ {j} : shown'[k] = shown[k] /\ opened'[k] = opened[k]
         /\ opened'[j] = opened[j] \/ opened'[j] = opened[j] \cup {bootId}
         /\ report \notin {"ok", "unheard"} => opened'[j] = opened[j]
    BY <1>1 DEF WatchInv, WatchFormed, ReportStarted
  <1>11. WatchFormed'
    <2>1. TickFormed' /\ \A k \in Jobs : EntryFormed(watch'.book[k])
      BY <1>3, <1>5, <1>8 DEF TickFormed, WatchInv, WatchFormed, Phases
    <2>2. shown' \in [Jobs -> SUBSET Cards] /\ carded' \in [Jobs -> 0..MaxCards]
      BY <1>1, <1>4 DEF WatchInv, WatchFormed, OutcomeSound
    <2>3. opened' \in [Jobs -> SUBSET Nat]
      BY <1>1, <1>3 DEF WatchInv, WatchFormed, ReportStarted
    <2>4. QED
      BY <1>2, <1>9, <2>1, <2>2, <2>3 DEF WatchInv, WatchFormed, EntryFormed
  <1>12. EndedAnew'
    BY <1>2, <1>5 DEF WatchInv, EndedAnew
  <1>13. BootsAreMishaps'
    <2>1. bootId <= mishaps' /\ bootId <= bootId
      BY <1>3, <1>9 DEF WatchInv, BootsAreMishaps
    <2>2. \A k \in Jobs : \A b \in opened'[k] : b <= bootId
      BY <1>10, <2>1 DEF WatchInv, BootsAreMishaps
    <2>3. QED
      BY <1>2, <2>1, <2>2 DEF BootsAreMishaps
  <1>14. Known(j) = e /\ Known(j)' = f /\ \A k \in Jobs \ {j} : Known(k)' = Known(k)
    BY <1>2, <1>3, <1>5 DEF Known, TickFormed
  <1>15. ASSUME NEW k \in Jobs, k # j PROVE Accounted(k)' /\ TrackedOf(k)'
    BY <1>2, <1>9, <1>10, <1>14, <1>15, OthersKeep
  <1>16. Accounted(j)'
    <2>1. Credit(e) \in Nat /\ Credit(e) <= Credit(f)
      BY <1>3, <1>8, CreditIsSmall
    <2>2. resets'[j] = resets[j]
      BY <1>2
    <2>3. QED
      BY <1>8, <1>9, <1>14, <2>1, <2>2, AccountsGrow
  <1>17. TrackedOf(j)'
    <2>1. Cardinality(shown'[j] \ {f.card}) <= mishaps'
      <3> DEFINE k == Cardinality(o.up \ {o.card})
      <3>1. k \in Nat /\ k <= mishaps + o.fails
        <4>1. IsFiniteSet(o.up)
          BY <1>4, FewCards DEF OutcomeSound
        <4>2. QED
          BY <1>4, <4>1, FS_Difference, FS_CardinalityType DEF OutcomeSound
      <3>2. o.fails \in Nat
        BY <1>4 DEF OutcomeSound
      <3> HIDE DEF k
      <3>3. k <= mishaps'
        BY <1>3, <1>9, <3>1, <3>2
      <3>4. QED
        BY <1>6, <1>10, <3>3 DEF k
    <2>2. Stray(j)' = shown'[j] \ {f.card}
      BY <1>14 DEF Stray
    <2>3. ASSUME mishaps' = 0, opened'[j] # {} PROVE f.started /\ ~f.finished
      <3>1. mishaps = 0 /\ report \in {"ok", "none"}
        BY <1>9, <2>3 DEF ReportOutcomes
      <3>2. CASE report = "ok"
        <4>1. ~e.started
          BY <3>2 DEF ReportOutcomes
        <4>2. QED
          BY <1>3, <1>7, <3>2, <4>1 DEF EntryFormed
      <3>3. CASE report = "none"
        <4>1. opened[j] # {}
          BY <1>10, <2>3, <3>3
        <4>2. e.started /\ ~e.finished
          BY <1>14, <3>1, <4>1 DEF WatchInv, TrackedOf
        <4>3. QED
          BY <1>7, <4>2
      <3>4. QED
        BY <3>1, <3>2, <3>3
    <2>4. QED
      BY <1>14, <2>1, <2>2, <2>3 DEF TrackedOf
  <1>18. QED
    BY <1>11, <1>12, <1>13, <1>15, <1>16, <1>17 DEF WatchInv

\* What prune keeps of an entry: its card, its credit, and an open report.
LEMMA PrunedEntry ==
    ASSUME NEW j, NEW e, EntryFormed(e)
    PROVE  /\ EntryFormed(Prune(j, e)) /\ Prune(j, e).card = e.card
           /\ Credit(Prune(j, e)) = Credit(e)
           /\ e.started /\ ~e.finished => Prune(j, e).started /\ ~Prune(j, e).finished
  <1>1. EntryFormed(FreshEntry) /\ FreshEntry.card = NoCard /\ Credit(FreshEntry) = 0
    BY SupervisorAssumption DEF EntryFormed, FreshEntry, Fields, NoCard, Credit
  <1> DEFINE f == [e EXCEPT !.pin = "held"]
  <1>2. /\ DOMAIN f = Fields /\ f.card = e.card /\ f.attempts = e.attempts /\ f.pin = "held"
        /\ f.finals = e.finals
    BY DEF EntryFormed, Fields
  <1>3. f.started = e.started /\ f.finished = e.finished
    BY DEF EntryFormed, Fields
  <1> HIDE DEF f
  <1>4. EntryFormed(f) /\ (e.pin # "over" => Credit(f) = Credit(e))
    BY <1>2, <1>3 DEF EntryFormed, Credit
  <1>5. CASE j \in Seen
    BY <1>5 DEF Prune
  <1>6. CASE j \notin Seen /\ e.attempts > 0 /\ e.pin # "over"
    <2>1. Prune(j, e) = f
      BY <1>6 DEF Prune, f
    <2>2. QED
      BY <1>2, <1>3, <1>4, <1>6, <2>1
  <1>7. CASE j \notin Seen /\ ~(e.attempts > 0 /\ e.pin # "over")
    <2>1. Credit(e) = 0
      BY <1>7, SupervisorAssumption DEF EntryFormed, Credit
    <2>2. CASE e.card # NoCard \/ (e.started /\ ~e.finished)
      <3>1. Prune(j, e) = e
        BY <1>7, <2>2 DEF Prune
      <3>2. QED
        BY <3>1
    <2>3. CASE ~(e.card # NoCard \/ (e.started /\ ~e.finished))
      <3>1. Prune(j, e) = FreshEntry
        BY <1>7, <2>3 DEF Prune
      <3>2. QED
        BY <1>1, <2>1, <2>3, <3>1
    <2>4. QED
      BY <2>2, <2>3
  <1>8. QED
    BY <1>5, <1>6, <1>7

LEMMA SaveKeeps ==
    ASSUME WatchInv, SaveTick
    PROVE  WatchInv'
  <1>1. /\ watch.at = "announcing" /\ watch' = NoTick
        /\ entry' = [j \in Jobs |-> Prune(j, watch.book[j])]
        /\ UNCHANGED <<job, shown, carded, opened, bootId, resets, mishaps, chat>>
    BY DEF SaveTick
  <1>2. \A j \in Jobs : EntryFormed(watch.book[j]) /\ Known(j) = watch.book[j]
    BY <1>1 DEF WatchInv, WatchFormed, Known
  <1>3. \A j \in Jobs : Known(j)' = Prune(j, watch.book[j])
    BY <1>1 DEF Known, NoTick
  <1>4. WatchFormed'
    <2>1. EntryFormed(FreshEntry)
      BY SupervisorAssumption DEF EntryFormed, FreshEntry, Fields, NoCard
    <2>2. TickFormed' /\ \A j \in Jobs : EntryFormed(watch'.book[j])
      BY <1>1, <2>1 DEF TickFormed, NoTick, Phases
    <2>3. DOMAIN entry' = Jobs /\ \A j \in Jobs : EntryFormed(entry'[j])
      BY <1>1, <1>2, PrunedEntry
    <2>4. QED
      BY <1>1, <2>2, <2>3 DEF WatchInv, WatchFormed, EntryFormed
  <1>5. EndedAnew' /\ BootsAreMishaps'
    BY <1>1 DEF WatchInv, EndedAnew, BootsAreMishaps, NoTick
  <1>6. ASSUME NEW j \in Jobs PROVE Accounted(j)' /\ TrackedOf(j)'
    <2> DEFINE e == watch.book[j]
               f == Prune(j, e)
    <2>1. /\ EntryFormed(e) /\ Known(j) = e /\ Known(j)' = f /\ mishaps \in Nat
      BY <1>2, <1>3 DEF WatchInv, WatchFormed
    <2>2. /\ EntryFormed(f) /\ f.card = e.card /\ Credit(f) = Credit(e)
          /\ e.started /\ ~e.finished => f.started /\ ~f.finished
      BY <2>1, PrunedEntry
    <2> HIDE DEF f
    <2>3. Accounted(j)'
      <3>1. Credit(e) \in Nat /\ Credit(e) <= Credit(f) /\ mishaps <= mishaps'
        BY <1>1, <2>1, <2>2, CreditIsSmall
      <3>2. resets'[j] = resets[j] /\ mishaps' \in Nat
        BY <1>1, <2>1
      <3>3. QED
        BY <2>1, <2>2, <3>1, <3>2, AccountsGrow
    <2>4. TrackedOf(j)'
      BY <1>1, <2>1, <2>2 DEF WatchInv, TrackedOf, Stray
    <2>5. QED
      BY <2>3, <2>4
  <1>7. QED
    BY <1>4, <1>5, <1>6 DEF WatchInv

\* A pin that lapses and a tick that dies are mishaps, and pay for what is forgotten.
LEMMA PinLapseKeeps ==
    ASSUME WatchInv, NEW j \in Jobs, PinLapses(j)
    PROVE  WatchInv'
  <1> DEFINE e == entry[j]
             f == [e EXCEPT !.pin = "over"]
  <1>1. /\ watch.at = "idle" /\ entry' = [entry EXCEPT ![j].pin = "over"]
        /\ mishaps' = mishaps + 1
        /\ UNCHANGED <<job, watch, shown, carded, opened, bootId, resets, chat>>
    BY DEF PinLapses, Mishap
  <1>2. EntryFormed(e) /\ mishaps \in Nat /\ entry' = [entry EXCEPT ![j] = f]
    BY <1>1 DEF WatchInv, WatchFormed
  <1>3. /\ DOMAIN f = Fields /\ f.card = e.card /\ f.attempts = e.attempts /\ f.pin = "over"
        /\ f.finals = e.finals
    BY <1>2 DEF EntryFormed, Fields
  <1>4. f.started = e.started /\ f.finished = e.finished
    BY <1>2 DEF EntryFormed, Fields
  <1> HIDE DEF f
  <1>5. EntryFormed(f) /\ Credit(f) = 0
    BY <1>2, <1>3, <1>4 DEF EntryFormed, Credit
  <1>6. mishaps' \in Nat /\ mishaps <= mishaps' /\ mishaps' # 0
    BY <1>1, <1>2
  <1>7. WatchFormed'
    <2>1. DOMAIN entry' = Jobs /\ \A k \in Jobs : EntryFormed(entry'[k])
      BY <1>2, <1>5 DEF WatchInv, WatchFormed
    <2>2. QED
      BY <1>1, <1>6, <2>1 DEF WatchInv, WatchFormed, EntryFormed, TickFormed
  <1>8. EndedAnew' /\ BootsAreMishaps'
    <2>1. bootId <= mishaps' /\ bootId' = bootId
      BY <1>1, <1>2 DEF WatchInv, WatchFormed, BootsAreMishaps
    <2>2. QED
      BY <1>1, <2>1 DEF WatchInv, EndedAnew, BootsAreMishaps
  <1>9. Known(j) = e /\ Known(j)' = f /\ \A k \in Jobs \ {j} : Known(k)' = Known(k)
    BY <1>1, <1>2 DEF Known, WatchInv, WatchFormed
  <1>10. ASSUME NEW k \in Jobs, k # j PROVE Accounted(k)' /\ TrackedOf(k)'
    BY <1>1, <1>6, <1>9, <1>10, OthersKeep
  <1>11. Accounted(j)'
    BY <1>1, <1>5, <1>9, MishapAccounts
  <1>12. TrackedOf(j)'
    BY <1>1, <1>2, <1>3, <1>6, <1>9, MishapTracks
  <1>13. QED
    BY <1>7, <1>8, <1>10, <1>11, <1>12 DEF WatchInv

LEMMA TickEndKeeps ==
    ASSUME WatchInv, TickEnds
    PROVE  WatchInv'
  <1>1. /\ watch' = NoTick /\ mishaps' = mishaps + 1 /\ bootId' \in {bootId, bootId + 1}
        /\ UNCHANGED <<job, entry, shown, carded, opened, resets, chat>>
    BY DEF TickEnds, Mishap, NewProcess
  <1>2. mishaps \in Nat /\ bootId \in Nat
    BY DEF WatchInv, WatchFormed
  <1>3. WatchFormed'
    <2>1. EntryFormed(FreshEntry)
      BY SupervisorAssumption DEF EntryFormed, FreshEntry, Fields, NoCard
    <2>2. TickFormed' /\ \A j \in Jobs : EntryFormed(watch'.book[j])
      BY <1>1, <2>1 DEF TickFormed, NoTick, Phases
    <2>3. mishaps' \in Nat /\ bootId' \in Nat
      BY <1>1, <1>2
    <2>4. QED
      BY <1>1, <2>2, <2>3 DEF WatchInv, WatchFormed, EntryFormed
  <1>4. EndedAnew'
    BY <1>1 DEF WatchInv, EndedAnew, NoTick
  <1>5. BootsAreMishaps'
    <2>1. bootId <= bootId' /\ bootId' <= mishaps'
      BY <1>1, <1>2 DEF WatchInv, BootsAreMishaps
    <2>2. \A k \in Jobs : \A b \in opened[k] : b \in Nat /\ b <= bootId
      BY DEF WatchInv, WatchFormed, BootsAreMishaps
    <2>3. \A k \in Jobs : \A b \in opened[k] : b <= bootId'
      BY <1>1, <1>2, <2>2
    <2>4. QED
      BY <1>1, <2>1, <2>3 DEF BootsAreMishaps
  <1>6. ASSUME NEW j \in Jobs PROVE Accounted(j)' /\ TrackedOf(j)'
    <2>1. Known(j)' = entry[j] /\ EntryFormed(entry[j])
      BY <1>1 DEF Known, NoTick, WatchInv, WatchFormed
    <2>2. QED
      BY <1>1, <2>1, MishapAccounts, MishapTracks
  <1>7. QED
    BY <1>3, <1>4, <1>5, <1>6 DEF WatchInv

LEMMA WatchStays == WatchInv /\ [SupervisorNext]_supervisorVars => WatchInv'
  <1> SUFFICES ASSUME WatchInv, [SupervisorNext]_supervisorVars PROVE WatchInv'
    OBVIOUS
  <1>1. CASE UNCHANGED supervisorVars
    <2>1. resets \in [Jobs -> Nat] /\ \A j \in Jobs : resets[j] <= resets[j]
      BY DEF WatchInv, WatchFormed
    <2>2. QED
      BY <1>1, <2>1, GatewayMoves DEF supervisorVars, WatchInv, WatchFormed, EndedAnew
  <1>2. CASE SupervisorStep
    BY <1>2, TickLooks, SaveKeeps, FinalizeKeeps, RecoverKeeps, StopCardKeeps, EscalateKeeps,
       AnnounceKeeps DEF SupervisorStep
  <1>3. CASE TickEnds
    BY <1>3, TickEndKeeps
  <1>4. ASSUME NEW j \in Jobs,
               \/ ClaimJob(j) \/ ThresholdPasses(j) \/ SpawnAdapter(j) \/ AdapterGone(j)
               \/ JobEnds(j) \/ OperatorRetries(j) \/ PinLapses(j)
        PROVE  WatchInv'
    BY <1>4, GatewaySteps, PinLapseKeeps
  <1>5. QED
    BY <1>1, <1>2, <1>3, <1>4 DEF SupervisorNext

\* Whatever ticks die, calls fail and pins lapse, an event is recovered at most as often
\* as it may be, and what the supervisor has put up in a chat or at the company is in
\* its state file, but for what each mishap costs; for any number of events and cards,
\* and of attempts to recover and to finish them (decide, prune, _finalize_completed).
THEOREM SupervisorKeepsAccount == SupervisorSpec => []SupervisorRemembers
  BY WatchInitially, WatchStays, WatchKnowsBoth, PTL DEF SupervisorSpec

-----------------------------------------------------------------------------
(* The supervisor's state is well formed. *)

JobRow == [status : {"queued", "running", "done", "failed"}, claim : 0..MaxJobClaims,
           old : BOOLEAN]
JobRows == [Jobs -> JobRow]
View == [seen : BOOLEAN, dead : BOOLEAN, claim : 0..MaxJobClaims]
Views == [Jobs -> View]
Ticks == [at : Phases, view : Views, todo : SUBSET Jobs, spared : SUBSET Jobs,
          book : [Jobs -> Entry]]

RowsTyped ==
    /\ job \in JobRows /\ adapterPid \in [Jobs -> {"none", "live", "dead"}]
    /\ entry \in [Jobs -> Entry] /\ watch \in Ticks
    /\ mishaps \in 0..MaxMishaps
    /\ chat \in [channel : [Jobs -> Channels], reporting : BOOLEAN]

LEMMA EntriesTyped ==
    /\ FreshEntry \in Entry
    /\ \A e \in Entry, c \in BOOLEAN, r \in BOOLEAN : AfterFinalize(e, c, r) \in Entry
    /\ \A e \in Entry : [e EXCEPT !.pin = "held"] \in Entry /\ [e EXCEPT !.pin = "over"] \in Entry
    /\ \A e \in Entry, c \in Cards \cup {NoCard}, ok \in BOOLEAN :
          [e EXCEPT !.started = @ \/ ok, !.card = c] \in Entry
    /\ \A e \in Entry : [e EXCEPT !.card = NoCard] \in Entry
    /\ \A e \in Entry : e.attempts < MaxAttempts =>
          [e EXCEPT !.attempts = @ + 1, !.pin = "held"] \in Entry
  <1>1. MaxAttempts \in Nat /\ FinalizeCap \in Nat
    BY SupervisorAssumption
  <1>2. FreshEntry \in Entry
    BY <1>1 DEF FreshEntry, Entry, NoCard
  <1>3. ASSUME NEW e \in Entry, NEW c \in BOOLEAN, NEW r \in BOOLEAN
        PROVE  AfterFinalize(e, c, r) \in Entry
    <2> DEFINE f == [e EXCEPT !.card = IF c THEN NoCard ELSE @,
                              !.finished = @ \/ (e.started /\ r)]
    <2>1. f \in Entry
      BY DEF Entry
    <2>2. f.finals = e.finals
      BY DEF Entry
    <2> HIDE DEF f
    <2>3. CASE (c /\ r) \/ e.finals + 1 >= FinalizeCap
      BY <1>2, <2>3 DEF AfterFinalize
    <2>4. CASE ~((c /\ r) \/ e.finals + 1 >= FinalizeCap)
      <3>1. f.finals + 1 \in 0..FinalizeCap
        BY <1>1, <2>1, <2>2, <2>4 DEF Entry
      <3>2. [f EXCEPT !.finals = @ + 1] \in Entry
        BY <2>1, <3>1 DEF Entry
      <3>3. AfterFinalize(e, c, r) = [f EXCEPT !.finals = @ + 1]
        BY <2>4 DEF AfterFinalize, f
      <3>4. QED
        BY <3>2, <3>3
    <2>5. QED
      BY <2>3, <2>4
  <1>4. ASSUME NEW e \in Entry
        PROVE  [e EXCEPT !.pin = "held"] \in Entry /\ [e EXCEPT !.pin = "over"] \in Entry
    BY DEF Entry
  <1>5. ASSUME NEW e \in Entry, NEW c \in Cards \cup {NoCard}, NEW ok \in BOOLEAN
        PROVE  [e EXCEPT !.started = @ \/ ok, !.card = c] \in Entry
    BY DEF Entry
  <1>6. ASSUME NEW e \in Entry
        PROVE  [e EXCEPT !.card = NoCard] \in Entry
    BY DEF Entry
  <1>7. ASSUME NEW e \in Entry, e.attempts < MaxAttempts
        PROVE  [e EXCEPT !.attempts = @ + 1, !.pin = "held"] \in Entry
    <2>1. e.attempts + 1 \in 0..MaxAttempts
      BY <1>1, <1>7 DEF Entry
    <2>2. QED
      BY <2>1 DEF Entry
  <1>8. QED
    BY <1>2, <1>3, <1>4, <1>5, <1>6, <1>7

LEMMA RowTyped ==
    ASSUME NEW r \in JobRow, NEW s \in {"queued", "running", "done", "failed"}
    PROVE  /\ [r EXCEPT !.old = TRUE] \in JobRow
           /\ [r EXCEPT !.status = s, !.old = FALSE] \in JobRow
  BY DEF JobRow

LEMMA NoTickTyped == NoTick \in Ticks
  <1>1. Unseen \in View
    BY SupervisorAssumption DEF Unseen, View
  <1>2. [j \in Jobs |-> Unseen] \in Views /\ [j \in Jobs |-> FreshEntry] \in [Jobs -> Entry]
    BY <1>1, EntriesTyped DEF Views
  <1> DEFINE views == [j \in Jobs |-> Unseen]
             book == [j \in Jobs |-> FreshEntry]
  <1>3. NoTick = [at |-> "idle", view |-> views, todo |-> {}, spared |-> {}, book |-> book]
    BY DEF NoTick
  <1> HIDE DEF views, book
  <1>4. views \in Views /\ book \in [Jobs -> Entry]
    BY <1>2 DEF views, book
  <1>5. QED
    BY <1>3, <1>4 DEF Ticks, Phases

LEMMA RowsInitially == SupervisorInit => RowsTyped
  <1> SUFFICES ASSUME SupervisorInit PROVE RowsTyped
    OBVIOUS
  <1>1. {MaxAttempts, FinalizeCap, MaxJobClaims, MaxCards, MaxMishaps} \subseteq Nat
    BY SupervisorAssumption
  <1>2. entry \in [Jobs -> Entry] /\ watch \in Ticks
    BY NoTickTyped, EntriesTyped DEF SupervisorInit
  <1>3. job \in JobRows
    <2>1. [status |-> "queued", claim |-> 0, old |-> FALSE] \in JobRow
      BY <1>1 DEF JobRow
    <2>2. QED
      BY <2>1 DEF SupervisorInit, JobRows
  <1>4. QED
    BY <1>1, <1>2, <1>3 DEF SupervisorInit, RowsTyped

LEMMA TypedByRows == WatchInv /\ RowsTyped => SupervisorTypeOK
  <1> SUFFICES ASSUME WatchInv, RowsTyped PROVE SupervisorTypeOK
    OBVIOUS
  <1>1. bootId \in 0..MaxMishaps
    BY SupervisorAssumption DEF WatchInv, WatchFormed, BootsAreMishaps, RowsTyped
  <1>2. opened \in [Jobs -> SUBSET (0..MaxMishaps)]
    <2>1. ASSUME NEW j \in Jobs PROVE opened[j] \in SUBSET (0..MaxMishaps)
      <3>1. opened[j] \in SUBSET Nat /\ \A b \in opened[j] : b <= bootId
        BY DEF WatchInv, WatchFormed, BootsAreMishaps
      <3>2. QED
        BY <1>1, <3>1, SupervisorAssumption
    <2>2. opened \in [Jobs -> SUBSET Nat]
      BY DEF WatchInv, WatchFormed
    <2>3. QED
      BY <2>1, <2>2
  <1>3. QED
    BY <1>1, <1>2 DEF WatchInv, WatchFormed, RowsTyped, SupervisorTypeOK, JobRows, JobRow, Ticks,
       Views, View, Phases

LEMMA RowsStay == WatchInv /\ RowsTyped /\ [SupervisorNext]_supervisorVars => RowsTyped'
  <1> SUFFICES ASSUME WatchInv, RowsTyped, [SupervisorNext]_supervisorVars PROVE RowsTyped'
    OBVIOUS
  <1>1. {MaxAttempts, FinalizeCap, MaxJobClaims, MaxCards, MaxMishaps} \subseteq Nat
    BY SupervisorAssumption
  <1>2. /\ job \in JobRows /\ adapterPid \in [Jobs -> {"none", "live", "dead"}]
        /\ entry \in [Jobs -> Entry] /\ watch \in Ticks /\ mishaps \in 0..MaxMishaps
        /\ chat \in [channel : [Jobs -> Channels], reporting : BOOLEAN]
    BY DEF RowsTyped
  <1>3. Mishap => mishaps' \in 0..MaxMishaps
    BY <1>1, <1>2 DEF Mishap
  <1>4. ASSUME NEW j \in Jobs, NEW s \in {"queued", "running", "done", "failed"}, Status(j, s)
        PROVE  job' \in JobRows
    <2> DEFINE r == [job[j] EXCEPT !.status = s, !.old = FALSE]
    <2>1. r \in JobRow
      BY <1>2, RowTyped DEF JobRows
    <2>2. job' = [job EXCEPT ![j] = r]
      BY <1>2, <1>4 DEF Status, JobRows, JobRow
    <2> HIDE DEF r
    <2>3. QED
      BY <1>2, <2>1, <2>2 DEF JobRows
  <1>5. ASSUME UNCHANGED <<entry, watch, mishaps, chat>>, job' \in JobRows,
               adapterPid' \in [Jobs -> {"none", "live", "dead"}]
        PROVE  RowsTyped'
    BY <1>2, <1>5 DEF RowsTyped
  <1>6. CASE UNCHANGED supervisorVars
    BY <1>2, <1>5, <1>6 DEF supervisorVars
  <1>7. ASSUME NEW j \in Jobs,
               \/ ClaimJob(j) \/ ThresholdPasses(j) \/ SpawnAdapter(j) \/ AdapterGone(j)
               \/ JobEnds(j) \/ OperatorRetries(j)
        PROVE  RowsTyped'
    <2>1. CASE ClaimJob(j)
      <3>1. /\ job[j].claim < MaxJobClaims
            /\ job' = [job EXCEPT ![j] = [status |-> "running", claim |-> job[j].claim + 1, old |-> FALSE]]
        BY <2>1 DEF ClaimJob
      <3>2. job[j].claim + 1 \in 0..MaxJobClaims
        BY <1>1, <1>2, <3>1 DEF JobRows, JobRow
      <3>3. job' \in JobRows
        BY <1>2, <3>1, <3>2 DEF JobRows, JobRow
      <3>4. QED
        BY <1>2, <1>5, <2>1, <3>3 DEF ClaimJob
    <2>2. CASE ThresholdPasses(j)
      <3>1. job' \in JobRows
        <4> DEFINE r == [job[j] EXCEPT !.old = TRUE]
        <4>1. r \in JobRow
          BY <1>2, RowTyped DEF JobRows
        <4>2. job' = [job EXCEPT ![j] = r]
          BY <1>2, <2>2 DEF ThresholdPasses, JobRows, JobRow
        <4> HIDE DEF r
        <4>3. QED
          BY <1>2, <4>1, <4>2 DEF JobRows
      <3>2. QED
        BY <1>2, <1>5, <2>2, <3>1 DEF ThresholdPasses
    <2>3. CASE SpawnAdapter(j) \/ AdapterGone(j)
      BY <1>2, <1>5, <2>3 DEF SpawnAdapter, AdapterGone
    <2>4. CASE JobEnds(j) \/ OperatorRetries(j)
      <3>1. job' \in JobRows
        BY <1>4, <2>4 DEF JobEnds, OperatorRetries
      <3>2. QED
        BY <1>2, <1>5, <2>4, <3>1 DEF JobEnds, OperatorRetries
    <2>5. QED
      BY <1>7, <2>1, <2>2, <2>3, <2>4
  <1>8. ASSUME UNCHANGED <<job, adapterPid, chat>>, entry' \in [Jobs -> Entry],
               watch' \in Ticks, mishaps' \in 0..MaxMishaps
        PROVE  RowsTyped'
    BY <1>2, <1>8 DEF RowsTyped
  <1>9. CASE Snap
    <2>1. watch' = [at |-> "snapped", book |-> entry, todo |-> {}, spared |-> {},
                    view |-> [j \in Jobs |->
                        IF job[j].status = "running" /\ job[j].old
                        THEN [seen |-> TRUE, dead |-> adapterPid[j] = "dead", claim |-> job[j].claim]
                        ELSE Unseen]]
      BY <1>9 DEF Snap
    <2>2. watch'.view \in Views
      <3>1. ASSUME NEW j \in Jobs
            PROVE  [seen |-> TRUE, dead |-> adapterPid[j] = "dead", claim |-> job[j].claim]
                      \in View
        BY <1>2 DEF JobRows, JobRow, View
      <3>2. Unseen \in View
        BY <1>1 DEF Unseen, View
      <3>3. QED
        BY <2>1, <3>1, <3>2 DEF Views
    <2>3. watch' \in Ticks
      BY <1>2, <2>1, <2>2 DEF Ticks, Phases
    <2>4. QED
      BY <1>2, <1>8, <1>9, <2>3 DEF Snap
  <1>10. CASE FetchStatuses \/ BeginRecovery \/ BeginAnnouncing
    <2>1. ASSUME NEW a \in Phases, NEW t \in SUBSET Jobs,
                 watch' = [watch EXCEPT !.at = a, !.todo = t]
          PROVE  watch' \in Ticks
      BY <1>2, <2>1 DEF Ticks
    <2>2. ASSUME FetchStatuses PROVE watch' \in Ticks
      <3>1. {j \in Candidates : job[j].status \in {"done", "failed"}} \in SUBSET Jobs
        BY DEF Candidates
      <3>2. QED
        BY <2>1, <2>2, <3>1 DEF FetchStatuses, Phases
    <2>3. ASSUME BeginRecovery PROVE watch' \in Ticks
      <3>1. {j \in Seen : watch.view[j].dead} \in SUBSET Jobs
        BY DEF Seen
      <3>2. QED
        BY <2>1, <2>3, <3>1 DEF BeginRecovery, Phases
    <2>4. ASSUME BeginAnnouncing PROVE watch' \in Ticks
      <3>1. Seen \in SUBSET Jobs
        BY DEF Seen
      <3>2. QED
        BY <2>1, <2>4, <3>1 DEF BeginAnnouncing, Phases
    <2>5. watch' \in Ticks
      BY <1>10, <2>2, <2>3, <2>4
    <2>6. QED
      BY <1>2, <1>8, <1>10, <2>5 DEF FetchStatuses, BeginRecovery, BeginAnnouncing
  <1>11. ASSUME NEW j \in Jobs, NEW e \in Entry PROVE Booked(j, e) \in [Jobs -> Entry]
    BY <1>2, <1>11 DEF Booked, Ticks
  <1>12. ASSUME NEW j \in Jobs PROVE watch.book[j] \in Entry
    BY <1>2, <1>12 DEF Ticks
  <1>13. ASSUME NEW j \in Jobs, Finalize(j) PROVE RowsTyped'
    <2>1. PICK answer \in DeleteAnswers, reportOk \in BOOLEAN :
             LET e == watch.book[j]
                 cardOk == answer \in Deleted(chat.channel[j]) IN
             /\ IF answer \in {"ok", "missing"} /\ reportOk THEN UNCHANGED mishaps ELSE Mishap
             /\ watch' = [watch EXCEPT !.todo = @ \ {j},
                             !.book = Booked(j, AfterFinalize(e, cardOk, reportOk))]
      BY <1>13 DEF Finalize
    <2> DEFINE ok == answer \in Deleted(chat.channel[j])
               e == AfterFinalize(watch.book[j], ok, reportOk)
    <2>2. e \in Entry
      <3>1. ok \in BOOLEAN
        OBVIOUS
      <3> HIDE DEF ok
      <3>2. QED
        BY <1>12, <3>1, EntriesTyped
    <2>3. watch' = [watch EXCEPT !.todo = @ \ {j}, !.book = Booked(j, e)]
      BY <2>1
    <2> HIDE DEF e
    <2>4. watch' \in Ticks
      BY <1>2, <1>11, <2>2, <2>3 DEF Ticks
    <2>5. mishaps' \in 0..MaxMishaps
      BY <1>2, <1>3, <2>1
    <2>6. QED
      BY <1>2, <1>8, <1>13, <2>4, <2>5 DEF Finalize
  <1>14. ASSUME NEW j \in Jobs, watch' = [watch EXCEPT !.todo = @ \ {j}]
                 \/ watch' = [watch EXCEPT !.todo = @ \ {j}, !.spared = @ \cup {j}]
         PROVE  watch' \in Ticks
    <2>1. /\ watch.todo \ {j} \in SUBSET Jobs /\ watch.spared \cup {j} \in SUBSET Jobs
          /\ watch \in [at : Phases, view : Views, todo : SUBSET Jobs, spared : SUBSET Jobs,
                       book : [Jobs -> Entry]]
      BY <1>2 DEF Ticks
    <2>2. CASE watch' = [watch EXCEPT !.todo = @ \ {j}]
      BY <2>1, <2>2 DEF Ticks
    <2>3. CASE watch' = [watch EXCEPT !.todo = @ \ {j}, !.spared = @ \cup {j}]
      BY <2>1, <2>3 DEF Ticks
    <2>4. QED
      BY <1>14, <2>2, <2>3
  <1>15. ASSUME NEW j \in Jobs, Recover(j) PROVE RowsTyped'
    <2>1. CASE job[j].status = "running" /\ job[j].claim = watch.view[j].claim
      <3> DEFINE e == [watch.book[j] EXCEPT !.attempts = @ + 1, !.pin = "held"]
      <3>1. /\ Status(j, "queued")
            /\ watch' = [watch EXCEPT !.todo = @ \ {j}, !.spared = @ \cup {j},
                                      !.book = Booked(j, e)]
        BY <1>15, <2>1 DEF Recover
      <3>2. watch.book[j].attempts < MaxAttempts
        BY <1>1, <1>12, <1>15 DEF Recover, Exhausted, Entry
      <3>3. e \in Entry
        BY <1>12, <3>2, EntriesTyped
      <3> HIDE DEF e
      <3>4. watch' \in Ticks
        BY <1>2, <1>11, <3>1, <3>3 DEF Ticks
      <3>5. job' \in JobRows
        BY <1>4, <3>1
      <3>6. QED
        BY <1>2, <1>15, <3>4, <3>5 DEF Recover, RowsTyped
    <2>2. CASE ~(job[j].status = "running" /\ job[j].claim = watch.view[j].claim)
      <3>1. watch' \in Ticks /\ job' = job
        BY <1>14, <1>15, <2>2 DEF Recover, Handled
      <3>2. QED
        BY <1>2, <1>15, <3>1 DEF Recover, RowsTyped
    <2>3. QED
      BY <2>1, <2>2
  <1>16. ASSUME NEW j \in Jobs, StopCard(j) PROVE RowsTyped'
    <2>1. /\ watch' = [watch EXCEPT !.book[j].card = NoCard]
          /\ mishaps' = mishaps \/ Mishap
      BY <1>16 DEF StopCard
    <2>2. [watch.book[j] EXCEPT !.card = NoCard] \in Entry
      BY <1>12, EntriesTyped
    <2>3. watch'.book \in [Jobs -> Entry]
      <3>1. watch'.book = [watch.book EXCEPT ![j].card = NoCard]
        BY <1>2, <2>1 DEF Ticks
      <3>2. QED
        BY <1>2, <2>2, <3>1 DEF Ticks
    <2>4. watch' \in Ticks
      BY <1>2, <2>1, <2>3 DEF Ticks
    <2>5. mishaps' \in 0..MaxMishaps
      BY <1>2, <1>3, <2>1
    <2>6. QED
      BY <1>2, <1>8, <1>16, <2>4, <2>5 DEF StopCard
  <1>17. ASSUME NEW j \in Jobs, Escalate(j) PROVE RowsTyped'
    <2>1. watch' \in Ticks
      BY <1>14, <1>17 DEF Escalate, Handled
    <2>2. job' \in JobRows
      BY <1>2, <1>4, <1>17 DEF Escalate
    <2>3. QED
      BY <1>2, <1>17, <2>1, <2>2 DEF Escalate, RowsTyped
  <1>18. ASSUME NEW j \in Jobs, Announce(j) PROVE RowsTyped'
    <2>1. PICK report \in ReportOutcomes(j), outcome \in CardOutcomes(j) :
             /\ mishaps' = mishaps + outcome.fails + ReportFails(report)
             /\ mishaps' <= MaxMishaps
             /\ watch' = [watch EXCEPT !.todo = @ \ {j},
                             !.book = Booked(j, [watch.book[j] EXCEPT
                                 !.started = @ \/ report = "ok", !.card = outcome.card])]
      BY <1>18 DEF Announce
    <2>2. OutcomeSound(j, outcome)
      BY <1>18, OutcomesAreSound DEF Announce
    <2>3. mishaps' \in 0..MaxMishaps
      <3>1. outcome.fails \in Nat /\ ReportFails(report) \in Nat
        BY <2>2 DEF OutcomeSound, ReportFails
      <3>2. QED
        BY <1>1, <1>2, <2>1, <3>1
    <2> DEFINE e == [watch.book[j] EXCEPT !.started = @ \/ report = "ok", !.card = outcome.card]
    <2>4. e \in Entry
      <3>1. (report = "ok") \in BOOLEAN /\ outcome.card \in Cards \cup {NoCard}
        BY <2>2 DEF OutcomeSound
      <3>2. QED
        BY <1>12, <3>1, EntriesTyped
    <2>5. watch' = [watch EXCEPT !.todo = @ \ {j}, !.book = Booked(j, e)]
      BY <2>1
    <2> HIDE DEF e
    <2>6. watch' \in Ticks
      BY <1>2, <1>11, <2>4, <2>5 DEF Ticks
    <2>7. QED
      BY <1>2, <1>8, <1>18, <2>3, <2>6 DEF Announce
  <1>19. NoTick \in Ticks
    BY NoTickTyped
  <1>20. CASE SaveTick
    <2>1. ASSUME NEW j \in Jobs PROVE Prune(j, watch.book[j]) \in Entry
      BY <1>12, EntriesTyped DEF Prune
    <2>2. entry' \in [Jobs -> Entry]
      BY <1>20, <2>1 DEF SaveTick
    <2>3. QED
      BY <1>2, <1>8, <1>19, <1>20, <2>2 DEF SaveTick
  <1>21. ASSUME NEW j \in Jobs, PinLapses(j) PROVE RowsTyped'
    <2>1. [entry[j] EXCEPT !.pin = "over"] \in Entry
      BY <1>2, EntriesTyped
    <2>2. entry' \in [Jobs -> Entry]
      BY <1>2, <1>21, <2>1 DEF PinLapses
    <2>3. QED
      BY <1>2, <1>3, <1>8, <1>21, <2>2 DEF PinLapses
  <1>22. CASE TickEnds
    BY <1>2, <1>3, <1>8, <1>19, <1>22 DEF TickEnds
  <1>23. QED
    BY <1>6, <1>7, <1>9, <1>10, <1>13, <1>15, <1>16, <1>17, <1>18, <1>20, <1>21, <1>22
       DEF SupervisorNext, SupervisorStep

-----------------------------------------------------------------------------
(* Task work: what the rows, the goal and the dispatches know of a task.     *)

Kinds == {"assigned", "updated", "closed"}
RowStates == {"queued", "waiting", "running", "done", "failed"}

RowFormed(r) ==
    /\ DOMAIN r = {"kind", "of", "at", "tries", "sent"}
    /\ r.kind \in Kinds /\ r.of \in Duties /\ r.at \in RowStates
    /\ r.tries \in 0..(MaxTurns + 1)
    /\ r.at = "failed" <=> r.tries = MaxTurns + 1

RowsFormed ==
    /\ \E n \in Nat : DOMAIN memos = 1..n
    /\ memos = [i \in DOMAIN memos |-> memos[i]]
    /\ \A i \in DOMAIN memos : RowFormed(memos[i])

CountsFormed ==
    /\ duty \in [Duties -> {"none", "open", "over"}] /\ goal \in 0..MaxDuties
    /\ heard \in [Duties -> Nat] /\ stumbles \in 0..MaxStumbles

OneOfAKind ==
    \A i, k \in DOMAIN memos :
        memos[i].kind = memos[k].kind /\ memos[i].of = memos[k].of => i = k

\* A task is closed after it was assigned, in the order of the rows.
ClosesLater ==
    \A k \in DOMAIN memos : memos[k].kind = "closed" =>
        \E i \in DOMAIN memos : i < k /\ memos[i].kind = "assigned" /\ memos[i].of = memos[k].of

OpenIsAssigned ==
    \A t \in Duties : duty[t] # "none" =>
        \E i \in DOMAIN memos : memos[i].kind = "assigned" /\ memos[i].of = t

RowsKnown == OneOfAKind /\ ClosesLater /\ OpenIsAssigned

\* Unless rows are coalesced, a dispatch works on one row, which closes nothing.
LaneFormed(l) ==
    /\ DOMAIN lane[l] = {"batch", "at", "reply"}
    /\ lane[l].at \in {"idle", "brain", "sending", "sent"}
    /\ lane[l].at = "idle" => lane[l] = LaneAtRest
    /\ lane[l].batch \subseteq DOMAIN memos
    /\ \A i \in lane[l].batch : memos[i].at = "running"
    /\ lane[l] # LaneAtRest => lane[l].batch # {}
    /\ mode # "bundles" /\ lane[l] # LaneAtRest =>
          \E i \in DOMAIN memos : lane[l].batch = {i} /\ memos[i].kind # "closed"

LanesFormed ==
    /\ DOMAIN lane = TaskLanes /\ \A l \in TaskLanes : LaneFormed(l)
    /\ lane[1].batch \cap lane[2].batch = {}

\* What the company has heard is on the row of the assignment.
HeardOnce ==
    \A t \in Duties :
        /\ heard[t] <= 1
        /\ heard[t] = 1 => \E i \in DOMAIN memos :
              /\ memos[i].kind = "assigned" /\ memos[i].of = t
              /\ memos[i].sent \/ memos[i].at = "done"

GivenToBrain ==
    /\ \A l \in TaskLanes : \A i \in lane[l].batch :
          lane[l].at \in {"sending", "sent"} /\ memos[i].kind = "assigned"
          => memos[i].of \in worked
    /\ \A i \in DOMAIN memos :
          memos[i].kind = "assigned" /\ memos[i].at = "done" => memos[i].of \in worked

Untried == \A i \in DOMAIN memos : memos[i].tries = 0

\* One row at a time and without retries, rows are taken up as they came.
InOrder ==
    /\ \A i \in DOMAIN memos : memos[i].at \in {"queued", "running", "done"}
    /\ \A i, k \in DOMAIN memos : i < k /\ memos[i].at = "queued" => memos[k].at = "queued"

LatestTaken(i) ==
    /\ memos[i].kind = "assigned" /\ memos[i].at # "queued"
    /\ \A k \in DOMAIN memos : i < k /\ memos[k].kind = "assigned" => memos[k].at = "queued"

CloseTaken(t) ==
    \E k \in DOMAIN memos : memos[k].kind = "closed" /\ memos[k].of = t /\ memos[k].at # "queued"

GoalKnown ==
    /\ (\A i \in DOMAIN memos : memos[i].kind = "assigned" => memos[i].at = "queued") => goal = 0
    /\ \A i \in DOMAIN memos : LatestTaken(i) =>
          /\ CloseTaken(memos[i].of) => goal = 0
          /\ ~CloseTaken(memos[i].of) => goal = memos[i].of

WorkInv ==
    /\ RowsFormed /\ CountsFormed /\ RowsKnown /\ LanesFormed
    /\ mode # "bundles" => HeardOnce /\ GivenToBrain
    /\ mode = "single" /\ Untried => InOrder /\ GoalKnown

\* A non-empty set of numbers has its minimum: among the intervals 1 .. n one
\* is the smallest, because strict inclusion of finite sets is well founded.
LEMMA MinOfSet ==
    ASSUME NEW S \in SUBSET Nat, S # {}
    PROVE  Min(S) \in S /\ \A y \in S : Min(S) =< y
  <1> DEFINE Below(n) == 1 .. n
             T == {Below(n) : n \in S}
  <1>1. \A n \in S : Below(n) \in FiniteSubsetsOf(Nat)
    <2> SUFFICES ASSUME NEW n \in S
                 PROVE  Below(n) \in FiniteSubsetsOf(Nat)
      OBVIOUS
    <2>1. n \in Int /\ 1 \in Int /\ Below(n) \in SUBSET Nat
      OBVIOUS
    <2>2. IsFiniteSet(1 .. n)
      BY <2>1, FS_Interval
    <2>3. QED
      BY <2>1, <2>2 DEF FiniteSubsetsOf
  <1>2. T \subseteq FiniteSubsetsOf(Nat) /\ T # {}
    BY <1>1
  <1>3. IsWellFoundedOn(StrictSubsetOrdering(Nat), FiniteSubsetsOf(Nat))
    BY FS_StrictSubsetOrderingWellFounded
  <1>4. \E x \in T : \A y \in T : ~(<<y, x>> \in StrictSubsetOrdering(Nat))
    <2> HIDE DEF T
    <2>1. QED
      BY <1>2, <1>3, WFMin
  <1>5. PICK m \in S : \A n \in S : ~(<<Below(n), Below(m)>> \in StrictSubsetOrdering(Nat))
    BY <1>4
  <1>6. \A n \in S : m =< n
    <2> SUFFICES ASSUME NEW n \in S, n < m
                 PROVE  FALSE
      OBVIOUS
    <2>1. Below(n) \subseteq Below(m) /\ m \in Below(m) /\ m \notin Below(n)
      OBVIOUS
    <2>2. <<Below(n), Below(m)>> \in StrictSubsetOrdering(Nat)
      <3>1. Below(n) # Below(m)
        BY <2>1
      <3>2. Below(n) \in SUBSET Nat /\ Below(m) \in SUBSET Nat
        OBVIOUS
      <3> HIDE DEF Below
      <3>3. QED
        BY <2>1, <3>1, <3>2 DEF StrictSubsetOrdering
    <2>3. QED
      BY <1>5, <2>2
  <1>7. QED
    BY <1>6 DEF Min

LEMMA MaxOfSet ==
    ASSUME NEW n \in Nat, NEW S \in SUBSET (1..n), S # {}
    PROVE  Max(S) \in S /\ \A y \in S : y <= Max(S)
  <1> DEFINE T == {m \in Nat : \E y \in S : m = n - y}
  <1>1. T \in SUBSET Nat /\ T # {}
    <2>1. PICK y \in S : TRUE
      OBVIOUS
    <2>2. n - y \in T
      BY <2>1
    <2>3. QED
      BY <2>2
  <1>2. Min(T) \in T /\ \A y \in T : Min(T) <= y
    BY <1>1, MinOfSet
  <1>3. PICK y \in S : Min(T) = n - y
    BY <1>2
  <1>4. \A x \in S : y >= x
    <2> SUFFICES ASSUME NEW x \in S PROVE y >= x
      OBVIOUS
    <2>1. n - x \in T
      OBVIOUS
    <2>2. Min(T) <= n - x
      BY <1>2, <2>1
    <2> HIDE DEF T
    <2>3. QED
      BY <1>3, <2>2
  <1>5. Max(S) \in S /\ \A x \in S : Max(S) >= x
    BY <1>4 DEF Max
  <1>6. QED
    BY <1>5

LEMMA OnlyOne == ASSUME NEW i \in Nat PROVE Min({i}) = i /\ Max({i}) = i
  BY DEF Min, Max

\* The numbers of the rows.
LEMMA RowNumbers ==
    ASSUME RowsFormed
    PROVE  /\ DOMAIN memos \subseteq Nat
           /\ \A i \in DOMAIN memos : RowFormed(memos[i])
           /\ \A S \in SUBSET DOMAIN memos : S # {} =>
                 Max(S) \in S /\ Min(S) \in S /\ \A y \in S : y <= Max(S) /\ Min(S) <= y
  <1>1. PICK n \in Nat : DOMAIN memos = 1..n
    BY DEF RowsFormed
  <1>2. 1..n \subseteq Nat
    OBVIOUS
  <1>3. ASSUME NEW S \in SUBSET DOMAIN memos, S # {}
        PROVE  Max(S) \in S /\ Min(S) \in S /\ \A y \in S : y <= Max(S) /\ Min(S) <= y
    BY <1>1, <1>2, <1>3, MinOfSet, MaxOfSet
  <1>4. QED
    BY <1>1, <1>2, <1>3 DEF RowsFormed

\* A row that is written comes after the others.
LEMMA WrittenRow ==
    ASSUME RowsFormed, NEW kind \in Kinds, NEW t \in Duties, WriteMemo(kind, t)
    PROVE  \E n \in Nat :
              /\ DOMAIN memos = 1..n /\ DOMAIN memos' = 1..(n + 1)
              /\ memos' = [i \in DOMAIN memos' |-> memos'[i]]
              /\ \A i \in 1..n : memos'[i] = memos[i]
              /\ memos'[n + 1] = [kind |-> kind, of |-> t, at |-> "queued", tries |-> 0,
                                  sent |-> FALSE]
  <1> DEFINE r == [kind |-> kind, of |-> t, at |-> "queued", tries |-> 0, sent |-> FALSE]
             S == {memos[i] : i \in DOMAIN memos} \cup {r}
  <1>1. PICK n \in Nat : DOMAIN memos = 1..n
    BY DEF RowsFormed
  <1>2. memos \in [1..n -> S]
    BY <1>1 DEF RowsFormed
  <1>3. memos \in Seq(S) /\ r \in S
    BY <1>2
  <1>4. memos' = Append(memos, r)
    BY DEF WriteMemo
  <1>5. Len(memos) = n
    BY <1>1, <1>3
  <1> HIDE DEF r, S
  <1>6. /\ memos' \in Seq(S) /\ Len(memos') = n + 1 /\ memos'[n + 1] = r
        /\ \A i \in 1..n : memos'[i] = memos[i]
    BY <1>1, <1>3, <1>4, <1>5
  <1>7. DOMAIN memos' = 1..(n + 1) /\ memos' \in [1..(n + 1) -> S]
    BY <1>6
  <1>8. QED
    BY <1>1, <1>6, <1>7 DEF r

\* What a step leaves of a row.
RowKept(i) ==
    /\ memos'[i].kind = memos[i].kind /\ memos'[i].of = memos[i].of
    /\ memos[i].tries <= memos'[i].tries

LEMMA BecomeRows ==
    ASSUME RowsFormed, NEW batch \in SUBSET DOMAIN memos, NEW a \in RowStates \ {"failed"},
           \A i \in batch : memos[i].at # "failed", memos' = Become(batch, a)
    PROVE  /\ RowsFormed' /\ DOMAIN memos' = DOMAIN memos
           /\ \A i \in DOMAIN memos :
                 /\ RowKept(i) /\ memos'[i].sent = memos[i].sent
                 /\ memos'[i].tries = memos[i].tries
                 /\ memos'[i].at = IF i \in batch THEN a ELSE memos[i].at
  <1>1. /\ DOMAIN memos' = DOMAIN memos /\ memos' = [i \in DOMAIN memos' |-> memos'[i]]
        /\ \A i \in DOMAIN memos :
              memos'[i] = IF i \in batch THEN [memos[i] EXCEPT !.at = a] ELSE memos[i]
    BY DEF Become
  <1>2. ASSUME NEW i \in DOMAIN memos
        PROVE  /\ DOMAIN memos'[i] = DOMAIN memos[i]
               /\ memos'[i].kind = memos[i].kind /\ memos'[i].of = memos[i].of
               /\ memos'[i].sent = memos[i].sent /\ memos'[i].tries = memos[i].tries
               /\ memos'[i].at = IF i \in batch THEN a ELSE memos[i].at
    BY <1>1, RowNumbers DEF RowFormed
  <1>3. ASSUME NEW i \in DOMAIN memos PROVE RowFormed(memos'[i]) /\ RowKept(i)
    <2>1. RowFormed(memos[i])
      BY RowNumbers
    <2>2. /\ DOMAIN memos'[i] = {"kind", "of", "at", "tries", "sent"}
          /\ memos'[i].kind \in Kinds /\ memos'[i].of \in Duties /\ memos'[i].at \in RowStates
          /\ memos'[i].tries \in 0..(MaxTurns + 1) /\ RowKept(i)
      BY <1>2, <2>1, TaskWorkAssumption DEF RowFormed, RowKept
    <2>3. memos'[i].at = "failed" <=> memos'[i].tries = MaxTurns + 1
      BY <1>2, <2>1 DEF RowFormed
    <2>4. QED
      BY <2>2, <2>3 DEF RowFormed
  <1>4. RowsFormed'
    BY <1>1, <1>3 DEF RowsFormed
  <1>5. QED
    BY <1>1, <1>2, <1>3, <1>4

LEMMA ChargedRows ==
    ASSUME RowsFormed, NEW batch \in SUBSET DOMAIN memos, NEW a \in {"queued", "waiting"},
           \A i \in batch : memos[i].at = "running", memos' = Charged(batch, a)
    PROVE  /\ RowsFormed' /\ DOMAIN memos' = DOMAIN memos
           /\ \A i \in DOMAIN memos : RowKept(i) /\ memos'[i].sent = memos[i].sent
           /\ \A i \in DOMAIN memos \ batch : memos'[i] = memos[i]
           /\ \A i \in batch : memos'[i].at \in {a, "failed"} /\ memos'[i].tries > 0
  <1>1. /\ DOMAIN memos' = DOMAIN memos /\ memos' = [i \in DOMAIN memos' |-> memos'[i]]
        /\ \A i \in DOMAIN memos \ batch : memos'[i] = memos[i]
        /\ \A i \in batch :
              memos'[i] = [memos[i] EXCEPT !.tries = @ + 1,
                             !.at = IF memos[i].tries = MaxTurns THEN "failed" ELSE a]
    BY DEF Charged
  <1>2. ASSUME NEW i \in batch
        PROVE  /\ DOMAIN memos'[i] = DOMAIN memos[i]
               /\ memos'[i].kind = memos[i].kind /\ memos'[i].of = memos[i].of
               /\ memos'[i].sent = memos[i].sent /\ memos'[i].tries = memos[i].tries + 1
               /\ memos'[i].at = IF memos[i].tries = MaxTurns THEN "failed" ELSE a
    <2>1. DOMAIN memos[i] = {"kind", "of", "at", "tries", "sent"}
      BY RowNumbers DEF RowFormed
    <2> DEFINE r == memos[i]
               next == IF memos[i].tries = MaxTurns THEN "failed" ELSE a
    <2>2. memos'[i] = [r EXCEPT !.tries = r.tries + 1, !.at = next]
      BY <1>1
    <2> HIDE DEF r, next
    <2>3. /\ DOMAIN memos'[i] = DOMAIN r
          /\ memos'[i].kind = r.kind /\ memos'[i].of = r.of /\ memos'[i].sent = r.sent
          /\ memos'[i].tries = r.tries + 1 /\ memos'[i].at = next
      BY <2>1, <2>2 DEF r
    <2>4. QED
      BY <2>3 DEF r, next
  <1>3. ASSUME NEW i \in batch
        PROVE  /\ RowFormed(memos'[i]) /\ RowKept(i)
               /\ memos'[i].at \in {a, "failed"} /\ memos'[i].tries > 0
    <2>1. RowFormed(memos[i])
      BY RowNumbers
    <2>2. MaxTurns \in Nat /\ memos[i].tries \in 0..(MaxTurns + 1)
          /\ memos[i].tries # MaxTurns + 1
      BY <2>1, TaskWorkAssumption DEF RowFormed
    <2>3. /\ memos'[i].tries \in 1..(MaxTurns + 1)
          /\ memos'[i].tries = MaxTurns + 1 <=> memos[i].tries = MaxTurns
          /\ memos[i].tries <= memos'[i].tries
      BY <1>2, <2>2
    <2>4. memos'[i].at \in {a, "failed"} /\ memos'[i].tries > 0 /\ memos'[i].at \in RowStates
      BY <1>2, <2>3, <2>2 DEF RowStates
    <2>5. RowKept(i)
      BY <1>2, <2>3 DEF RowKept
    <2>6. RowFormed(memos'[i])
      <3>1. /\ DOMAIN memos'[i] = {"kind", "of", "at", "tries", "sent"}
            /\ memos'[i].kind \in Kinds /\ memos'[i].of \in Duties
            /\ memos'[i].tries \in 0..(MaxTurns + 1)
        BY <1>2, <2>1, <2>2, <2>3 DEF RowFormed
      <3>2. memos'[i].at = "failed" <=> memos'[i].tries = MaxTurns + 1
        BY <1>2, <2>3
      <3>3. QED
        BY <2>4, <3>1, <3>2 DEF RowFormed
    <2>7. QED
      BY <2>4, <2>5, <2>6
  <1>4. ASSUME NEW i \in DOMAIN memos \ batch
        PROVE  RowFormed(memos'[i]) /\ RowKept(i) /\ memos'[i].sent = memos[i].sent
    <2>1. RowFormed(memos[i]) /\ memos'[i] = memos[i]
      BY <1>1, RowNumbers
    <2>2. QED
      BY <2>1, TaskWorkAssumption DEF RowFormed, RowKept
  <1>5. RowsFormed'
    BY <1>1, <1>3, <1>4 DEF RowsFormed
  <1>6. QED
    BY <1>1, <1>2, <1>3, <1>4, <1>5

\* Rows that stay as to what they say are known as before.
LEMMA KnownRows ==
    ASSUME RowsKnown, DOMAIN memos' = DOMAIN memos, \A i \in DOMAIN memos : RowKept(i),
           \A t \in Duties : duty'[t] # "none" =>
              \/ duty[t] # "none"
              \/ \E i \in DOMAIN memos : memos[i].kind = "assigned" /\ memos[i].of = t
    PROVE  RowsKnown'
  <1>1. \A i \in DOMAIN memos : memos'[i].kind = memos[i].kind /\ memos'[i].of = memos[i].of
    BY DEF RowKept
  <1>2. OneOfAKind'
    BY <1>1 DEF RowsKnown, OneOfAKind
  <1>3. ClosesLater'
    BY <1>1 DEF RowsKnown, ClosesLater
  <1>4. OpenIsAssigned'
    BY <1>1 DEF RowsKnown, OpenIsAssigned
  <1>5. QED
    BY <1>2, <1>3, <1>4 DEF RowsKnown

LEMMA LaneStays ==
    ASSUME NEW l \in TaskLanes, LaneFormed(l), lane'[l] = lane[l], mode' = mode,
           \A i \in lane[l].batch : /\ i \in DOMAIN memos' /\ memos'[i].at = "running"
                                    /\ memos'[i].kind = memos[i].kind
    PROVE  LaneFormed(l)'
  <1>1. /\ DOMAIN lane'[l] = {"batch", "at", "reply"}
        /\ lane'[l].at \in {"idle", "brain", "sending", "sent"}
        /\ lane'[l].at = "idle" => lane'[l] = LaneAtRest
        /\ lane'[l].batch \subseteq DOMAIN memos'
        /\ \A i \in lane'[l].batch : memos'[i].at = "running"
        /\ lane'[l] # LaneAtRest => lane'[l].batch # {}
    BY DEF LaneFormed
  <1>2. mode' # "bundles" /\ lane'[l] # LaneAtRest =>
          \E i \in DOMAIN memos' : lane'[l].batch = {i} /\ memos'[i].kind # "closed"
    <2> SUFFICES ASSUME mode # "bundles", lane[l] # LaneAtRest
                 PROVE  \E i \in DOMAIN memos' : lane[l].batch = {i} /\ memos'[i].kind # "closed"
      OBVIOUS
    <2>1. PICK i \in DOMAIN memos : lane[l].batch = {i} /\ memos[i].kind # "closed"
      BY DEF LaneFormed
    <2>2. QED
      BY <2>1
  <1>3. QED
    BY <1>1, <1>2 DEF LaneFormed, LaneAtRest

LEMMA LaneRests ==
    ASSUME NEW l \in TaskLanes, lane'[l] = LaneAtRest
    PROVE  LaneFormed(l)'
  BY DEF LaneFormed, LaneAtRest

\* Steps that take nothing up leave the order of the rows and the goal.
LEMMA OrderStays ==
    ASSUME RowsFormed, mode = "single" /\ Untried => InOrder /\ GoalKnown,
           mode' = mode, goal' = goal, DOMAIN memos' = DOMAIN memos,
           \A i \in DOMAIN memos : RowKept(i),
           \A i \in DOMAIN memos : /\ memos'[i].tries \in Nat
                                   /\ memos'[i].at = "queued" <=> memos[i].at = "queued"
                                   /\ memos'[i].at \in {memos[i].at, "running", "done"}
    PROVE  mode' = "single" /\ Untried' => InOrder' /\ GoalKnown'
  <1> SUFFICES ASSUME mode = "single", Untried' PROVE InOrder' /\ GoalKnown'
    OBVIOUS
  <1>1. Untried
    BY RowNumbers DEF Untried, RowKept, RowFormed
  <1>2. InOrder /\ GoalKnown
    BY <1>1
  <1>3. InOrder'
    BY <1>2 DEF InOrder
  <1>4. \A i \in DOMAIN memos : memos'[i].kind = memos[i].kind /\ memos'[i].of = memos[i].of
    BY DEF RowKept
  <1>5. \A i \in DOMAIN memos : LatestTaken(i)' <=> LatestTaken(i)
    BY <1>4 DEF LatestTaken
  <1>6. \A t : CloseTaken(t)' <=> CloseTaken(t)
    BY <1>4 DEF CloseTaken
  <1>7. GoalKnown'
    BY <1>2, <1>4, <1>5, <1>6 DEF GoalKnown
  <1>8. QED
    BY <1>3, <1>7

LEMMA TriedOut ==
    ASSUME \E i \in DOMAIN memos' : memos'[i].tries > 0
    PROVE  mode' = "single" /\ Untried' => InOrder' /\ GoalKnown'
  BY DEF Untried

LEMMA HeardStays ==
    ASSUME HeardOnce, heard' = heard, DOMAIN memos' = DOMAIN memos,
           \A i \in DOMAIN memos :
              /\ RowKept(i)
              /\ memos[i].sent => memos'[i].sent \/ memos'[i].at = "done"
              /\ memos[i].at = "done" => memos'[i].at = "done"
    PROVE  HeardOnce'
  <1> SUFFICES ASSUME NEW t \in Duties
               PROVE  /\ heard'[t] <= 1
                      /\ heard'[t] = 1 => \E i \in DOMAIN memos' :
                            /\ memos'[i].kind = "assigned" /\ memos'[i].of = t
                            /\ memos'[i].sent \/ memos'[i].at = "done"
    BY DEF HeardOnce
  <1>1. heard'[t] <= 1
    BY DEF HeardOnce
  <1>2. ASSUME heard'[t] = 1
        PROVE  \E i \in DOMAIN memos' :
                  /\ memos'[i].kind = "assigned" /\ memos'[i].of = t
                  /\ memos'[i].sent \/ memos'[i].at = "done"
    <2>1. PICK i \in DOMAIN memos : /\ memos[i].kind = "assigned" /\ memos[i].of = t
                                    /\ memos[i].sent \/ memos[i].at = "done"
      BY <1>2 DEF HeardOnce
    <2>2. i \in DOMAIN memos' /\ memos'[i].kind = "assigned" /\ memos'[i].of = t
      BY <2>1 DEF RowKept
    <2>3. memos'[i].sent \/ memos'[i].at = "done"
      BY <2>1
    <2>4. QED
      BY <2>2, <2>3
  <1>3. QED
    BY <1>1, <1>2

LEMMA WorkInitially == TaskWorkInit => WorkInv
  <1> SUFFICES ASSUME TaskWorkInit PROVE WorkInv
    OBVIOUS
  <1>1. memos = <<>> /\ DOMAIN memos = {} /\ DOMAIN memos = 1..0
    BY DEF TaskWorkInit
  <1>2. RowsFormed
    BY <1>1 DEF RowsFormed
  <1>3. CountsFormed
    BY TaskWorkAssumption DEF TaskWorkInit, CountsFormed
  <1>4. RowsKnown
    BY <1>1 DEF TaskWorkInit, RowsKnown, OneOfAKind, ClosesLater, OpenIsAssigned
  <1>5. LanesFormed
    BY <1>1 DEF TaskWorkInit, LanesFormed, LaneFormed, LaneAtRest, TaskLanes
  <1>6. HeardOnce /\ GivenToBrain
    BY <1>1 DEF TaskWorkInit, HeardOnce, GivenToBrain, LaneAtRest
  <1>7. InOrder /\ GoalKnown
    BY <1>1 DEF TaskWorkInit, InOrder, GoalKnown
  <1>8. QED
    BY <1>2, <1>3, <1>4, <1>5, <1>6, <1>7 DEF WorkInv

\* The company's rows.
LEMMA WriteKeeps ==
    ASSUME WorkInv, NEW kind \in Kinds, NEW t \in Duties, WriteMemo(kind, t),
           UNCHANGED <<mode, goal, lane, heard, worked, stumbles>>,
           duty' \in [Duties -> {"none", "open", "over"}], kind = "closed" => duty[t] # "none",
           \A s \in Duties : duty'[s] # "none" => duty[s] # "none" \/ (s = t /\ kind = "assigned")
    PROVE  WorkInv'
  <1>1. PICK n \in Nat :
          /\ DOMAIN memos = 1..n /\ DOMAIN memos' = 1..(n + 1)
          /\ memos' = [i \in DOMAIN memos' |-> memos'[i]]
          /\ \A i \in 1..n : memos'[i] = memos[i]
          /\ memos'[n + 1] = [kind |-> kind, of |-> t, at |-> "queued", tries |-> 0,
                              sent |-> FALSE]
    BY WrittenRow DEF WorkInv
  <1>2. /\ memos'[n + 1].kind = kind /\ memos'[n + 1].of = t /\ memos'[n + 1].at = "queued"
        /\ memos'[n + 1].tries = 0
        /\ DOMAIN memos'[n + 1] = {"kind", "of", "at", "tries", "sent"}
    BY <1>1
  <1>3. RowFormed(memos'[n + 1])
    BY <1>2, TaskWorkAssumption DEF RowFormed, RowStates
  <1>4. RowsFormed'
    <2>1. \A i \in 1..n : RowFormed(memos'[i])
      BY <1>1 DEF WorkInv, RowsFormed
    <2>2. \A i \in 1..(n + 1) : i \in 1..n \/ i = n + 1
      OBVIOUS
    <2>3. \A i \in DOMAIN memos' : RowFormed(memos'[i])
      BY <1>1, <1>3, <2>1, <2>2
    <2>4. n + 1 \in Nat
      OBVIOUS
    <2>5. QED
      BY <1>1, <2>3, <2>4 DEF RowsFormed
  <1>5. \A i \in 1..n : ~(memos[i].kind = kind /\ memos[i].of = t)
    BY <1>1 DEF WriteMemo, Written
  <1>6. \A i \in 1..(n + 1) : i \in 1..n \/ i = n + 1
    OBVIOUS
  <1>7. n + 1 \notin 1..n /\ 1..n \subseteq 1..(n + 1) /\ n + 1 \in 1..(n + 1)
        /\ \A i \in 1..n : i < n + 1 /\ ~(n + 1 < i)
    OBVIOUS
  <1>8. RowsKnown'
    <2>1. OneOfAKind'
      <3> SUFFICES ASSUME NEW i \in 1..(n + 1), NEW k \in 1..(n + 1),
                          memos'[i].kind = memos'[k].kind, memos'[i].of = memos'[k].of
                   PROVE  i = k
        BY <1>1 DEF OneOfAKind
      <3>1. CASE i \in 1..n /\ k \in 1..n
        BY <1>1, <3>1 DEF WorkInv, RowsKnown, OneOfAKind
      <3>2. CASE i \in 1..n /\ k = n + 1
        BY <1>1, <1>2, <1>5, <3>2
      <3>3. CASE i = n + 1 /\ k \in 1..n
        BY <1>1, <1>2, <1>5, <3>3
      <3>4. QED
        BY <1>6, <3>1, <3>2, <3>3
    <2>2. ClosesLater'
      <3> SUFFICES ASSUME NEW k \in 1..(n + 1), memos'[k].kind = "closed"
                   PROVE  \E i \in 1..(n + 1) : /\ i < k /\ memos'[i].kind = "assigned"
                                                /\ memos'[i].of = memos'[k].of
        BY <1>1 DEF ClosesLater
      <3>1. CASE k \in 1..n
        BY <1>1, <1>7, <3>1 DEF WorkInv, RowsKnown, ClosesLater
      <3>2. CASE k = n + 1
        <4>1. PICK i \in 1..n : memos[i].kind = "assigned" /\ memos[i].of = t
          BY <1>1, <1>2, <3>2 DEF WorkInv, RowsKnown, OpenIsAssigned
        <4>2. QED
          BY <1>1, <1>2, <1>7, <3>2, <4>1
      <3>3. QED
        BY <1>6, <3>1, <3>2
    <2>3. OpenIsAssigned'
      <3> SUFFICES ASSUME NEW s \in Duties, duty'[s] # "none"
                   PROVE  \E i \in 1..(n + 1) : memos'[i].kind = "assigned" /\ memos'[i].of = s
        BY <1>1 DEF OpenIsAssigned
      <3>1. CASE duty[s] # "none"
        BY <1>1, <1>7, <3>1 DEF WorkInv, RowsKnown, OpenIsAssigned
      <3>2. CASE s = t /\ kind = "assigned"
        BY <1>2, <1>7, <3>2
      <3>3. QED
        BY <3>1, <3>2
    <2>4. QED
      BY <2>1, <2>2, <2>3 DEF RowsKnown
  <1>9. LanesFormed'
    <2>1. ASSUME NEW l \in TaskLanes PROVE LaneFormed(l)'
      <3>1. LaneFormed(l)
        BY DEF WorkInv, LanesFormed
      <3>2. \A i \in lane[l].batch : i \in 1..n /\ memos[i].at = "running"
        BY <1>1, <3>1 DEF LaneFormed
      <3>3. QED
        BY <1>1, <1>7, <3>1, <3>2, LaneStays
    <2>2. QED
      BY <2>1 DEF WorkInv, LanesFormed
  <1>10. mode' # "bundles" => HeardOnce' /\ GivenToBrain'
    <2> SUFFICES ASSUME mode # "bundles" PROVE HeardOnce' /\ GivenToBrain'
      OBVIOUS
    <2>1. HeardOnce'
      BY <1>1, <1>7 DEF WorkInv, HeardOnce
    <2>2. \A l \in TaskLanes : lane[l].batch \subseteq 1..n
      BY <1>1 DEF WorkInv, LanesFormed, LaneFormed
    <2>3. GivenToBrain'
      BY <1>1, <1>2, <1>6, <2>2 DEF WorkInv, GivenToBrain
    <2>4. QED
      BY <2>1, <2>3
  <1>11. mode' = "single" /\ Untried' => InOrder' /\ GoalKnown'
    <2> SUFFICES ASSUME mode = "single", Untried' PROVE InOrder' /\ GoalKnown'
      OBVIOUS
    <2>1. InOrder /\ GoalKnown
      BY <1>1, <1>7 DEF WorkInv, Untried
    <2>2. InOrder'
      <3>1. \A i \in 1..(n + 1) : memos'[i].at \in {"queued", "running", "done"}
        BY <1>1, <1>2, <1>6, <2>1 DEF InOrder
      <3>2. ASSUME NEW i \in 1..(n + 1), NEW k \in 1..(n + 1), i < k, memos'[i].at = "queued"
            PROVE  memos'[k].at = "queued"
        <4>1. CASE k = n + 1
          BY <1>2, <4>1
        <4>2. CASE k \in 1..n
          <5>1. i \in 1..n
            BY <1>6, <1>7, <3>2, <4>2
          <5>2. QED
            BY <1>1, <2>1, <3>2, <4>2, <5>1 DEF InOrder
        <4>3. QED
          BY <1>6, <4>1, <4>2
      <3>3. QED
        BY <1>1, <3>1, <3>2 DEF InOrder
    <2>3. \A i \in 1..n : LatestTaken(i)' => LatestTaken(i)
      BY <1>1, <1>7 DEF LatestTaken
    <2>4. ~LatestTaken(n + 1)'
      BY <1>2 DEF LatestTaken
    <2>5. \A s : CloseTaken(s)' <=> CloseTaken(s)
      BY <1>1, <1>2, <1>6, <1>7 DEF CloseTaken
    <2>6. (\A i \in 1..(n + 1) : memos'[i].kind = "assigned" => memos'[i].at = "queued")
          => goal' = 0
      BY <1>1, <1>7, <2>1 DEF GoalKnown
    <2>7. ASSUME NEW i \in 1..(n + 1), LatestTaken(i)', NEW s, s = memos'[i].of
          PROVE  (CloseTaken(s)' => goal' = 0) /\ (~CloseTaken(s)' => goal' = s)
      <3>1. i \in 1..n /\ LatestTaken(i) /\ memos'[i] = memos[i]
        BY <1>1, <1>6, <2>3, <2>4, <2>7
      <3>2. (CloseTaken(s) => goal = 0) /\ (~CloseTaken(s) => goal = s)
        BY <1>1, <2>1, <2>7, <3>1 DEF GoalKnown
      <3>3. CloseTaken(s)' <=> CloseTaken(s)
        BY <2>5
      <3>4. QED
        BY <3>2, <3>3
    <2>8. GoalKnown'
      BY <1>1, <2>6, <2>7 DEF GoalKnown, CloseTaken
    <2>9. QED
      BY <2>2, <2>8
  <1>12. CountsFormed'
    BY DEF WorkInv, CountsFormed
  <1>13. QED
    BY <1>4, <1>8, <1>9, <1>10, <1>11, <1>12 DEF WorkInv

LEMMA WithdrawKeeps == ASSUME WorkInv, NEW t \in Duties, Withdraw(t) PROVE WorkInv'
  <1>1. /\ duty[t] = "open" /\ duty' = [duty EXCEPT ![t] = "over"]
        /\ UNCHANGED <<mode, memos, goal, lane, heard, worked, stumbles>>
    BY DEF Withdraw
  <1>2. CountsFormed'
    BY <1>1 DEF WorkInv, CountsFormed
  <1>3. \A s \in Duties : duty'[s] # "none" => duty[s] # "none"
    BY <1>1 DEF WorkInv, CountsFormed
  <1>4. RowsKnown'
    BY <1>1, <1>3 DEF WorkInv, RowsKnown, OneOfAKind, ClosesLater, OpenIsAssigned
  <1>5. RowsFormed' /\ LanesFormed'
    BY <1>1 DEF WorkInv, RowsFormed, LanesFormed, LaneFormed
  <1>6. mode' # "bundles" => HeardOnce' /\ GivenToBrain'
    BY <1>1 DEF WorkInv, HeardOnce, GivenToBrain
  <1>7. mode' = "single" /\ Untried' => InOrder' /\ GoalKnown'
    BY <1>1 DEF WorkInv, Untried, InOrder, GoalKnown, LatestTaken, CloseTaken
  <1>8. QED
    BY <1>2, <1>4, <1>5, <1>6, <1>7 DEF WorkInv

\* What is taken up together: all that is ready, or the oldest of it.
LEMMA BundleOfRows ==
    ASSUME WorkInv, QueuedMemos # {}
    PROVE  /\ Bundle \in SUBSET DOMAIN memos /\ Max(Bundle) \in Bundle
           /\ \A i \in Bundle : memos[i].at = "queued"
           /\ mode # "bundles" =>
                 \E i \in DOMAIN memos :
                    /\ Bundle = {i} /\ Max(Bundle) = i /\ memos[i].at = "queued"
                    /\ \A k \in DOMAIN memos : memos[k].at = "queued" => i <= k
           /\ Anchored(Bundle) \in 0..MaxDuties
  <1>1. RowsFormed /\ CountsFormed /\ QueuedMemos \in SUBSET DOMAIN memos
    BY DEF WorkInv, QueuedMemos
  <1>2. Min(QueuedMemos) \in QueuedMemos /\ \A k \in QueuedMemos : Min(QueuedMemos) <= k
    BY <1>1, RowNumbers
  <1>3. Bundle \in SUBSET QueuedMemos /\ Bundle # {}
    BY <1>2 DEF Bundle
  <1>4. Bundle \in SUBSET DOMAIN memos /\ Max(Bundle) \in Bundle
    BY <1>1, <1>3, RowNumbers
  <1>5. \A i \in Bundle : memos[i].at = "queued"
    BY <1>3 DEF QueuedMemos
  <1>6. ASSUME mode # "bundles"
        PROVE  \E i \in DOMAIN memos :
                    /\ Bundle = {i} /\ Max(Bundle) = i /\ memos[i].at = "queued"
                    /\ \A k \in DOMAIN memos : memos[k].at = "queued" => i <= k
    <2>1. Bundle = {Min(QueuedMemos)}
      BY <1>6 DEF Bundle
    <2>2. Max(Bundle) = Min(QueuedMemos)
      BY <1>4, <2>1
    <2>3. Min(QueuedMemos) \in DOMAIN memos /\ memos[Min(QueuedMemos)].at = "queued"
      BY <1>2 DEF QueuedMemos
    <2>4. \A k \in DOMAIN memos : memos[k].at = "queued" => Min(QueuedMemos) <= k
      BY <1>2 DEF QueuedMemos
    <2>5. QED
      BY <2>1, <2>2, <2>3, <2>4
  <1>7. Anchored(Bundle) \in 0..MaxDuties
    <2>1. LastOf(Bundle).of \in Duties
      BY <1>1, <1>4, RowNumbers DEF LastOf, RowFormed
    <2>2. QED
      BY <1>1, <2>1, TaskWorkAssumption DEF Anchored, CountsFormed, Duties
  <1>8. QED
    BY <1>4, <1>5, <1>6, <1>7

\* The goal that the oldest row leaves.
LEMMA GoalTaken ==
    ASSUME WorkInv, mode = "single", Untried, NEW i \in DOMAIN memos, memos[i].at = "queued",
           \A k \in DOMAIN memos : memos[k].at = "queued" => i <= k,
           DOMAIN memos' = DOMAIN memos, \A k \in DOMAIN memos : RowKept(k),
           \A k \in DOMAIN memos : k # i => memos'[k].at = memos[k].at,
           memos'[i].at \in {"running", "done"},
           goal' = CASE memos[i].kind = "closed" /\ goal = memos[i].of -> 0
                     [] memos[i].kind = "assigned" -> memos[i].of
                     [] OTHER -> goal
    PROVE  InOrder' /\ GoalKnown'
  <1>1. /\ InOrder /\ GoalKnown /\ RowsFormed /\ OneOfAKind /\ ClosesLater /\ CountsFormed
        /\ DOMAIN memos \subseteq Nat
    BY RowNumbers DEF WorkInv, RowsKnown
  <1>2. \A k \in DOMAIN memos : memos'[k].kind = memos[k].kind /\ memos'[k].of = memos[k].of
    BY DEF RowKept
  <1>3. \A k \in DOMAIN memos : (memos'[k].at = "queued") <=> (memos[k].at = "queued" /\ k # i)
    OBVIOUS
  <1>4. \A k \in DOMAIN memos : k < i => memos[k].at # "queued"
    BY <1>1
  <1>5. \A k \in DOMAIN memos : i < k => memos[k].at = "queued"
    BY <1>1 DEF InOrder
  <1>6. \A k \in DOMAIN memos : k = i \/ k < i \/ i < k
    BY <1>1
  <1>7. InOrder'
    <2>1. \A k \in DOMAIN memos : memos'[k].at \in {"queued", "running", "done"}
      BY <1>1 DEF InOrder
    <2>2. ASSUME NEW k \in DOMAIN memos, NEW n \in DOMAIN memos, k < n, memos'[k].at = "queued"
          PROVE  memos'[n].at = "queued"
      <3>1. i < k
        BY <1>3, <1>4, <1>6, <2>2
      <3>2. i < n /\ n # i
        BY <1>1, <2>2, <3>1
      <3>3. QED
        BY <1>3, <1>5, <3>2
    <2>3. QED
      BY <2>1, <2>2 DEF InOrder
  <1>8. memos[i].of \in Duties /\ memos[i].of # 0 /\ memos[i].kind \in Kinds
    BY <1>1, RowNumbers DEF RowFormed, Duties
  <1>9. CASE memos[i].kind = "assigned"
    <2>1. goal' = memos[i].of
      BY <1>9
    <2>2. \A k \in DOMAIN memos : LatestTaken(k)' => k = i
      <3> SUFFICES ASSUME NEW k \in DOMAIN memos, LatestTaken(k)', k # i PROVE FALSE
        OBVIOUS
      <3>1. k < i
        BY <1>2, <1>3, <1>5, <1>6 DEF LatestTaken
      <3>2. QED
        BY <1>2, <1>3, <1>9, <3>1 DEF LatestTaken
    <2>3. ~CloseTaken(memos[i].of)'
      <3> SUFFICES ASSUME NEW k \in DOMAIN memos, memos[k].kind = "closed",
                          memos[k].of = memos[i].of, memos'[k].at # "queued"
                   PROVE  FALSE
        BY <1>2 DEF CloseTaken
      <3>1. k # i
        BY <1>9
      <3>2. k < i
        BY <1>3, <1>5, <1>6, <3>1
      <3>3. PICK n \in DOMAIN memos : /\ n < k /\ memos[n].kind = "assigned"
                                      /\ memos[n].of = memos[k].of
        BY <1>1 DEF ClosesLater
      <3>4. n = i
        BY <1>1, <1>9, <3>3 DEF OneOfAKind
      <3>5. QED
        BY <1>1, <3>2, <3>3, <3>4
    <2>4. memos'[i].kind = "assigned" /\ memos'[i].at # "queued" /\ memos'[i].of = memos[i].of
      BY <1>2, <1>9
    <2>5. GoalKnown'
      BY <2>1, <2>2, <2>3, <2>4 DEF GoalKnown
    <2>6. QED
      BY <1>7, <2>5
  <1>10. CASE memos[i].kind # "assigned"
    <2>1. \A k \in DOMAIN memos : memos[k].kind = "assigned" =>
             k # i /\ (memos'[k].at = "queued" <=> memos[k].at = "queued")
      BY <1>10
    <2>2. \A k \in DOMAIN memos : LatestTaken(k)' <=> LatestTaken(k)
      BY <1>2, <2>1 DEF LatestTaken
    <2>3. ASSUME NEW t \in Duties
          PROVE  CloseTaken(t)' <=> CloseTaken(t) \/ (memos[i].kind = "closed" /\ memos[i].of = t)
      BY <1>2, <1>3 DEF CloseTaken
    <2>4. goal' = IF memos[i].kind = "closed" /\ goal = memos[i].of THEN 0 ELSE goal
      BY <1>10
    <2>5. (\A k \in DOMAIN memos : memos'[k].kind = "assigned" => memos'[k].at = "queued")
          => goal' = 0
      BY <1>1, <1>2, <2>1, <2>4 DEF GoalKnown
    <2>6. ASSUME NEW k \in DOMAIN memos, LatestTaken(k)', NEW t, t = memos'[k].of
          PROVE  (CloseTaken(t)' => goal' = 0) /\ (~CloseTaken(t)' => goal' = t)
      <3>1. LatestTaken(k) /\ t = memos[k].of /\ t \in Duties /\ t # 0
        BY <1>1, <1>2, <2>2, <2>6, RowNumbers DEF RowFormed, Duties
      <3>2. (CloseTaken(t) => goal = 0) /\ (~CloseTaken(t) => goal = t)
        BY <1>1, <3>1 DEF GoalKnown
      <3>3. CloseTaken(t)' <=> CloseTaken(t) \/ (memos[i].kind = "closed" /\ memos[i].of = t)
        BY <2>3, <3>1
      <3>4. CASE CloseTaken(t)
        BY <2>4, <3>2, <3>3, <3>4
      <3>5. CASE ~CloseTaken(t)
        BY <2>4, <3>2, <3>3, <3>5
      <3>6. QED
        BY <3>4, <3>5
    <2>7. GoalKnown'
      BY <2>5, <2>6 DEF GoalKnown, CloseTaken
    <2>8. QED
      BY <1>7, <2>7
  <1>11. QED
    BY <1>9, <1>10

\* dispatch_once.
LEMMA TakeUpKeeps == ASSUME WorkInv, NEW l \in TaskLanes, TakeUp(l) PROVE WorkInv'
  <1> DEFINE b == Bundle
             ends == LastOf(b).kind = "closed"
  <1>1. /\ lane[l] = LaneAtRest /\ QueuedMemos # {} /\ goal' = Anchored(b)
        /\ ends => memos' = Become(b, "done") /\ lane' = lane
        /\ ~ends => /\ memos' = Become(b, "running")
                    /\ lane' = [lane EXCEPT ![l] = [LaneAtRest EXCEPT !.batch = b, !.at = "brain"]]
        /\ UNCHANGED <<mode, duty, heard, worked, stumbles>>
    BY DEF TakeUp
  <1>2. /\ b \in SUBSET DOMAIN memos /\ Max(b) \in b /\ \A i \in b : memos[i].at = "queued"
        /\ mode # "bundles" =>
              \E i \in DOMAIN memos :
                 /\ b = {i} /\ Max(b) = i /\ memos[i].at = "queued"
                 /\ \A k \in DOMAIN memos : memos[k].at = "queued" => i <= k
        /\ Anchored(b) \in 0..MaxDuties
    BY <1>1, BundleOfRows
  <1> DEFINE a == IF ends THEN "done" ELSE "running"
  <1>3. a \in RowStates \ {"failed"} /\ memos' = Become(b, a)
    BY <1>1 DEF RowStates
  <1>4. /\ RowsFormed /\ LanesFormed /\ RowsKnown /\ CountsFormed
    BY DEF WorkInv
  <1>5. \A i \in b : memos[i].at # "failed"
    BY <1>2
  <1>a. (a = "done" <=> ends) /\ (a = "running" <=> ~ends) /\ a \in {"running", "done"}
    OBVIOUS
  <1>b. ends <=> memos[Max(b)].kind = "closed"
    BY DEF LastOf
  <1>c. goal' = CASE memos[Max(b)].kind = "closed" /\ goal = memos[Max(b)].of -> 0
                  [] memos[Max(b)].kind = "assigned" -> memos[Max(b)].of
                  [] OTHER -> goal
    BY <1>1 DEF Anchored, LastOf
  <1> HIDE DEF b, ends, a
  <1>6. /\ RowsFormed' /\ DOMAIN memos' = DOMAIN memos
        /\ \A i \in DOMAIN memos :
              /\ RowKept(i) /\ memos'[i].sent = memos[i].sent
              /\ memos'[i].tries = memos[i].tries
              /\ memos'[i].at = IF i \in b THEN a ELSE memos[i].at
    BY <1>2, <1>3, <1>4, <1>5, BecomeRows
  <1>7. RowsKnown'
    BY <1>1, <1>4, <1>6, KnownRows
  <1>8. CountsFormed'
    BY <1>1, <1>2, <1>4 DEF CountsFormed
  <1>9. \A k \in TaskLanes : \A i \in lane[k].batch : i \in DOMAIN memos /\ i \notin b
    BY <1>2, <1>4 DEF LanesFormed, LaneFormed
  <1>10. ASSUME NEW k \in TaskLanes, lane'[k] = lane[k] PROVE LaneFormed(k)'
    <2>1. LaneFormed(k) /\ mode' = mode
      BY <1>1, <1>4 DEF LanesFormed
    <2>2. \A i \in lane[k].batch : /\ i \in DOMAIN memos' /\ memos'[i].at = "running"
                                    /\ memos'[i].kind = memos[i].kind
      BY <1>6, <1>9, <2>1 DEF LaneFormed, RowKept
    <2>3. QED
      BY <1>10, <2>1, <2>2, LaneStays
  <1>11. DOMAIN lane' = TaskLanes /\ \A k \in TaskLanes \ {l} : lane'[k] = lane[k]
    BY <1>1, <1>4 DEF LanesFormed
  <1>12. ASSUME ~ends
         PROVE  lane'[l].batch = b /\ lane'[l].at = "brain" /\ lane'[l].reply = "none"
                /\ DOMAIN lane'[l] = {"batch", "at", "reply"}
    BY <1>1, <1>4, <1>12 DEF LanesFormed, LaneAtRest
  <1>13. LanesFormed'
    <2>1. CASE ends
      BY <1>1, <1>4, <1>10, <2>1 DEF LanesFormed
    <2>2. CASE ~ends
      <3>1. LaneFormed(l)'
        <4>1. \A i \in b : i \in DOMAIN memos' /\ memos'[i].at = "running"
          BY <1>2, <1>6, <1>a, <2>2
        <4>2. mode' # "bundles" /\ lane'[l] # LaneAtRest =>
                 \E i \in DOMAIN memos' : lane'[l].batch = {i} /\ memos'[i].kind # "closed"
          <5> SUFFICES ASSUME mode # "bundles"
                       PROVE  \E i \in DOMAIN memos' : b = {i} /\ memos'[i].kind # "closed"
            BY <1>1, <1>12, <2>2
          <5>1. PICK i \in DOMAIN memos : b = {i} /\ Max(b) = i
            BY <1>2
          <5>2. memos[i].kind # "closed"
            BY <1>b, <2>2, <5>1
          <5>3. QED
            BY <1>6, <5>1, <5>2 DEF RowKept
        <4>3. QED
          BY <1>2, <1>12, <2>2, <4>1, <4>2 DEF LaneFormed
      <3>2. \A k \in TaskLanes : LaneFormed(k)'
        BY <1>10, <1>11, <3>1
      <3>3. lane'[1].batch \cap lane'[2].batch = {}
        <4>1. l = 1 \/ l = 2
          BY DEF TaskLanes
        <4>2. \A k \in TaskLanes \ {l} : lane'[k].batch \cap b = {}
          BY <1>9, <1>11
        <4>3. QED
          BY <1>12, <2>2, <4>1, <4>2 DEF TaskLanes
      <3>4. QED
        BY <1>11, <3>2, <3>3 DEF LanesFormed
    <2>3. QED
      BY <2>1, <2>2
  <1>14. ASSUME mode # "bundles" PROVE HeardOnce' /\ GivenToBrain'
    <2>1. HeardOnce /\ GivenToBrain
      BY <1>14 DEF WorkInv
    <2>2. PICK i \in DOMAIN memos : b = {i} /\ Max(b) = i /\ memos[i].at = "queued"
      BY <1>2, <1>14
    <2>3. HeardOnce'
      <3>1. \A k \in DOMAIN memos :
              /\ memos[k].sent => memos'[k].sent \/ memos'[k].at = "done"
              /\ memos[k].at = "done" => memos'[k].at = "done"
        BY <1>6, <2>2
      <3>2. QED
        BY <1>1, <1>6, <2>1, <3>1, HeardStays
    <2>4. \A k \in DOMAIN memos : memos'[k].kind = memos[k].kind /\ memos'[k].of = memos[k].of
      BY <1>6 DEF RowKept
    <2>5. \A k \in DOMAIN memos : memos'[k].kind = "assigned" /\ memos'[k].at = "done"
                                  => memos[k].at = "done"
      BY <1>6, <1>a, <1>b, <2>2, <2>4
    <2>6. \A k \in TaskLanes : lane'[k].at \in {"sending", "sent"} => lane'[k] = lane[k]
      BY <1>1, <1>11, <1>12
    <2>7. \A k \in TaskLanes : lane[k].batch \subseteq DOMAIN memos
      BY <1>9
    <2>8. GivenToBrain'
      BY <1>1, <1>6, <2>1, <2>4, <2>5, <2>6, <2>7 DEF GivenToBrain
    <2>9. QED
      BY <2>3, <2>8
  <1>15. ASSUME mode = "single", Untried' PROVE InOrder' /\ GoalKnown'
    <2>1. Untried
      BY <1>6, <1>15 DEF Untried
    <2>2. PICK i \in DOMAIN memos :
            /\ b = {i} /\ Max(b) = i /\ memos[i].at = "queued"
            /\ \A k \in DOMAIN memos : memos[k].at = "queued" => i <= k
      BY <1>2, <1>15
    <2>3. /\ \A k \in DOMAIN memos : RowKept(k)
          /\ \A k \in DOMAIN memos : k # i => memos'[k].at = memos[k].at
          /\ memos'[i].at \in {"running", "done"}
      BY <1>6, <1>a, <2>2
    <2>4. goal' = CASE memos[i].kind = "closed" /\ goal = memos[i].of -> 0
                     [] memos[i].kind = "assigned" -> memos[i].of
                     [] OTHER -> goal
      BY <1>c, <2>2
    <2>5. QED
      BY <1>6, <1>15, <2>1, <2>2, <2>3, <2>4, GoalTaken
  <1>16. QED
    BY <1>1, <1>6, <1>7, <1>8, <1>13, <1>14, <1>15 DEF WorkInv

\* Steps that put rows at rest in another state: what was bundled, and what waited.
LEMMA RowsMove ==
    ASSUME WorkInv, NEW batch \in SUBSET DOMAIN memos, NEW was \in {"queued", "waiting"},
           \A i \in batch : memos[i].at = was, NEW a \in {"queued", "waiting"},
           memos' = Become(batch, a), goal' \in 0..MaxDuties,
           UNCHANGED <<mode, duty, lane, heard, worked, stumbles>>,
           mode = "single" /\ Untried => FALSE
    PROVE  WorkInv'
  <1>1. RowsFormed /\ RowsKnown /\ LanesFormed /\ CountsFormed
    BY DEF WorkInv
  <1>2. a \in RowStates \ {"failed"} /\ \A i \in batch : memos[i].at # "failed"
    BY DEF RowStates
  <1>3. /\ RowsFormed' /\ DOMAIN memos' = DOMAIN memos
        /\ \A i \in DOMAIN memos :
              /\ RowKept(i) /\ memos'[i].sent = memos[i].sent
              /\ memos'[i].tries = memos[i].tries
              /\ memos'[i].at = IF i \in batch THEN a ELSE memos[i].at
    BY <1>1, <1>2, BecomeRows
  <1>4. RowsKnown'
    BY <1>1, <1>3, KnownRows
  <1>5. \A l \in TaskLanes : \A i \in lane[l].batch :
            i \in DOMAIN memos /\ memos[i].at = "running" /\ i \notin batch
    BY <1>1 DEF LanesFormed, LaneFormed
  <1>6. ASSUME NEW l \in TaskLanes PROVE LaneFormed(l)'
    <2>1. LaneFormed(l)
      BY <1>1 DEF LanesFormed
    <2>2. \A i \in lane[l].batch : /\ i \in DOMAIN memos' /\ memos'[i].at = "running"
                                    /\ memos'[i].kind = memos[i].kind
      BY <1>3, <1>5 DEF RowKept
    <2>3. QED
      BY <2>1, <2>2, LaneStays
  <1>7. LanesFormed'
    BY <1>1, <1>6 DEF LanesFormed
  <1>8. CountsFormed'
    BY <1>1 DEF CountsFormed
  <1>9. ASSUME mode # "bundles" PROVE HeardOnce' /\ GivenToBrain'
    <2>1. HeardOnce /\ GivenToBrain
      BY <1>9 DEF WorkInv
    <2>2. \A i \in DOMAIN memos :
             /\ memos[i].sent => memos'[i].sent \/ memos'[i].at = "done"
             /\ memos[i].at = "done" => memos'[i].at = "done"
             /\ memos'[i].at = "done" => memos[i].at = "done"
      BY <1>3
    <2>3. HeardOnce'
      BY <1>3, <2>1, <2>2, HeardStays
    <2>4. GivenToBrain'
      BY <1>3, <1>5, <2>1, <2>2 DEF GivenToBrain, RowKept
    <2>5. QED
      BY <2>3, <2>4
  <1>10. mode' = "single" /\ Untried' => FALSE
    BY <1>3 DEF Untried
  <1>11. QED
    BY <1>3, <1>4, <1>7, <1>8, <1>9, <1>10 DEF WorkInv

LEMMA SendBackKeeps == ASSUME WorkInv, SendBack PROVE WorkInv'
  <1>1. /\ mode = "slots" /\ QueuedMemos # {}
        /\ goal' = Anchored(Bundle) /\ memos' = Become(Bundle, "waiting")
        /\ UNCHANGED <<mode, duty, lane, heard, worked, stumbles>>
    BY DEF SendBack
  <1>2. /\ Bundle \in SUBSET DOMAIN memos /\ \A i \in Bundle : memos[i].at = "queued"
        /\ Anchored(Bundle) \in 0..MaxDuties
    BY <1>1, BundleOfRows
  <1>3. QED
    BY <1>1, <1>2, RowsMove

LEMMA WaitKeeps == ASSUME WorkInv, NEW i, Wait(i) PROVE WorkInv'
  <1>1. /\ i \in DOMAIN memos /\ memos[i].at = "waiting" /\ memos' = Become({i}, "queued")
        /\ UNCHANGED <<mode, duty, goal, lane, heard, worked, stumbles>>
    BY DEF Wait
  <1>2. mode = "single" /\ Untried => FALSE
    BY <1>1 DEF WorkInv, InOrder
  <1>3. goal' \in 0..MaxDuties
    BY <1>1 DEF WorkInv, CountsFormed
  <1>4. QED
    BY <1>1, <1>2, <1>3, RowsMove

LEMMA BrainAnswersKeeps == ASSUME WorkInv, NEW l \in TaskLanes, BrainAnswers(l) PROVE WorkInv'
  <1>1. PICK reply \in {"nothing", "interim", "final"} :
          lane' = [lane EXCEPT ![l].at = "sending", ![l].reply = reply]
    BY DEF BrainAnswers
  <1>2. /\ lane[l].at = "brain"
        /\ worked' = worked \cup {t \in Duties : \E i \in lane[l].batch :
                                    memos[i].kind = "assigned" /\ memos[i].of = t}
        /\ UNCHANGED <<mode, duty, memos, goal, heard, stumbles>>
    BY DEF BrainAnswers
  <1>3. RowsFormed /\ RowsKnown /\ LanesFormed /\ CountsFormed
    BY DEF WorkInv
  <1>4. /\ DOMAIN lane' = TaskLanes /\ DOMAIN lane'[l] = {"batch", "at", "reply"}
        /\ lane'[l].at = "sending" /\ lane'[l].batch = lane[l].batch
        /\ \A k \in TaskLanes \ {l} : lane'[k] = lane[k]
    BY <1>1, <1>3 DEF LanesFormed, LaneFormed
  <1>5. lane[l] # LaneAtRest
    BY <1>2 DEF LaneAtRest
  <1>6. LaneFormed(l)'
    <2>1. LaneFormed(l)
      BY <1>3 DEF LanesFormed
    <2>2. QED
      BY <1>2, <1>4, <1>5, <2>1 DEF LaneFormed
  <1>7. \A k \in TaskLanes : LaneFormed(k)'
    <2>1. ASSUME NEW k \in TaskLanes \ {l} PROVE LaneFormed(k)'
      <3>1. LaneFormed(k)
        BY <1>3 DEF LanesFormed
      <3>2. QED
        BY <1>2, <1>4, <3>1 DEF LaneFormed
    <2>2. QED
      BY <1>6, <2>1
  <1>8. LanesFormed'
    BY <1>3, <1>4, <1>7 DEF LanesFormed, TaskLanes
  <1>9. ASSUME mode # "bundles" PROVE HeardOnce' /\ GivenToBrain'
    <2>1. HeardOnce /\ GivenToBrain
      BY <1>9 DEF WorkInv
    <2>2. HeardOnce'
      BY <1>2, <2>1 DEF HeardOnce
    <2>3. \A i \in lane[l].batch : memos[i].kind = "assigned" => memos[i].of \in worked'
      <3>1. \A i \in DOMAIN memos : memos[i].of \in Duties
        BY <1>3 DEF RowsFormed, RowFormed
      <3>2. lane[l].batch \subseteq DOMAIN memos
        BY <1>3 DEF LanesFormed, LaneFormed
      <3>3. QED
        BY <1>2, <3>1, <3>2
    <2>4. worked \subseteq worked'
      BY <1>2
    <2>5. GivenToBrain'
      BY <1>2, <1>4, <2>1, <2>3, <2>4 DEF GivenToBrain
    <2>6. QED
      BY <2>2, <2>5
  <1>10. mode' = "single" /\ Untried' => InOrder' /\ GoalKnown'
    BY <1>2 DEF WorkInv, Untried, InOrder, GoalKnown, LatestTaken, CloseTaken
  <1>11. QED
    BY <1>2, <1>3, <1>8, <1>9, <1>10
       DEF WorkInv, RowsFormed, CountsFormed, RowsKnown, OneOfAKind, ClosesLater, OpenIsAssigned

\* Dispatches that end badly: their rows are charged, and they are free.
LEMMA ChargesKeep ==
    ASSUME WorkInv, NEW freed \in SUBSET TaskLanes, NEW a \in {"queued", "waiting"},
           \E l \in freed : lane[l] # LaneAtRest,
           memos' = Charged(UNION {lane[l].batch : l \in freed}, a),
           DOMAIN lane' = TaskLanes, \A l \in freed : lane'[l] = LaneAtRest,
           \A l \in TaskLanes \ freed : lane'[l] = lane[l],
           stumbles' \in 0..MaxStumbles, UNCHANGED <<mode, duty, goal, heard, worked>>
    PROVE  WorkInv'
  <1> DEFINE batch == UNION {lane[l].batch : l \in freed}
  <1>1. RowsFormed /\ RowsKnown /\ LanesFormed /\ CountsFormed
    BY DEF WorkInv
  <1>2. batch \in SUBSET DOMAIN memos /\ \A i \in batch : memos[i].at = "running"
    BY <1>1 DEF LanesFormed, LaneFormed
  <1>3. \A l \in TaskLanes \ freed : lane[l].batch \cap batch = {}
    BY <1>1 DEF LanesFormed, TaskLanes
  <1>4. \A l \in freed : lane[l].batch \subseteq batch
    OBVIOUS
  <1> HIDE DEF batch
  <1>5. memos' = Charged(batch, a)
    BY DEF batch
  <1>6. /\ RowsFormed' /\ DOMAIN memos' = DOMAIN memos
        /\ \A i \in DOMAIN memos : RowKept(i) /\ memos'[i].sent = memos[i].sent
        /\ \A i \in DOMAIN memos \ batch : memos'[i] = memos[i]
        /\ \A i \in batch : memos'[i].at \in {a, "failed"} /\ memos'[i].tries > 0
    BY <1>1, <1>2, <1>5, ChargedRows
  <1>7. RowsKnown'
    BY <1>1, <1>6, KnownRows
  <1>8. CountsFormed'
    BY <1>1 DEF CountsFormed
  <1>9. ASSUME NEW l \in TaskLanes \ freed PROVE LaneFormed(l)'
    <2>1. LaneFormed(l) /\ lane'[l] = lane[l]
      BY <1>1 DEF LanesFormed
    <2>2. \A i \in lane[l].batch : /\ i \in DOMAIN memos' /\ memos'[i].at = "running"
                                    /\ memos'[i].kind = memos[i].kind
      BY <1>3, <1>6, <2>1 DEF LaneFormed
    <2>3. QED
      BY <2>1, <2>2, LaneStays
  <1>10. \A l \in TaskLanes : LaneFormed(l)'
    BY <1>9, LaneRests
  <1>11. \A l \in TaskLanes : lane'[l].batch \subseteq lane[l].batch
    BY DEF LaneAtRest
  <1>12. LanesFormed'
    BY <1>1, <1>10, <1>11 DEF LanesFormed, TaskLanes
  <1>13. ASSUME mode # "bundles" PROVE HeardOnce' /\ GivenToBrain'
    <2>1. HeardOnce /\ GivenToBrain
      BY <1>13 DEF WorkInv
    <2>2. \A i \in DOMAIN memos :
             /\ memos[i].sent => memos'[i].sent \/ memos'[i].at = "done"
             /\ memos[i].at = "done" => memos'[i].at = "done"
      BY <1>2, <1>6
    <2>3. HeardOnce'
      BY <1>6, <2>1, <2>2, HeardStays
    <2>4. \A i \in DOMAIN memos : memos'[i].at = "done" => memos[i].at = "done"
      BY <1>6
    <2>5. \A i \in DOMAIN memos : memos'[i].kind = memos[i].kind /\ memos'[i].of = memos[i].of
      BY <1>6 DEF RowKept
    <2>6. \A l \in TaskLanes : lane[l].batch \subseteq DOMAIN memos
      BY <1>1 DEF LanesFormed, LaneFormed
    <2>7. \A l \in TaskLanes : lane'[l].at \in {"sending", "sent"} => lane'[l] = lane[l]
      BY DEF LaneAtRest
    <2>8. GivenToBrain'
      <3>1. ASSUME NEW l \in TaskLanes, NEW i \in lane'[l].batch,
                   lane'[l].at \in {"sending", "sent"}, memos'[i].kind = "assigned"
            PROVE  memos'[i].of \in worked'
        <4>1. lane'[l] = lane[l] /\ i \in lane[l].batch /\ i \in DOMAIN memos
          BY <2>6, <2>7, <3>1
        <4>2. memos[i].of \in worked
          BY <2>1, <2>5, <3>1, <4>1 DEF GivenToBrain
        <4>3. QED
          BY <2>5, <4>1, <4>2
      <3>2. ASSUME NEW i \in DOMAIN memos, memos'[i].kind = "assigned", memos'[i].at = "done"
            PROVE  memos'[i].of \in worked'
        BY <2>1, <2>4, <2>5, <3>2 DEF GivenToBrain
      <3>3. QED
        BY <1>6, <3>1, <3>2 DEF GivenToBrain
    <2>9. QED
      BY <2>3, <2>8
  <1>14. ASSUME mode = "single" PROVE ~Untried'
    <2>1. PICK l \in freed : lane[l] # LaneAtRest
      OBVIOUS
    <2>2. PICK i \in DOMAIN memos : lane[l].batch = {i}
      BY <1>1, <1>14, <2>1 DEF LanesFormed, LaneFormed
    <2>3. memos'[i].tries > 0
      BY <1>4, <1>6, <2>2
    <2>4. QED
      BY <1>6, <2>3 DEF Untried
  <1>15. QED
    BY <1>6, <1>7, <1>8, <1>12, <1>13, <1>14 DEF WorkInv

LEMMA BrainFallsKeeps == ASSUME WorkInv, NEW l \in TaskLanes, BrainFalls(l) PROVE WorkInv'
  <1>1. /\ lane[l].at = "brain" /\ stumbles < MaxStumbles /\ stumbles' = stumbles + 1
        /\ memos' = Charged(lane[l].batch, "waiting")
        /\ lane' = [lane EXCEPT ![l] = LaneAtRest]
        /\ UNCHANGED <<mode, duty, goal, heard, worked>>
    BY DEF BrainFalls, Stumble
  <1>2. lane[l] # LaneAtRest /\ UNION {lane[k].batch : k \in {l}} = lane[l].batch
    BY <1>1 DEF LaneAtRest
  <1>3. stumbles' \in 0..MaxStumbles
    BY <1>1, TaskWorkAssumption DEF WorkInv, CountsFormed
  <1>4. /\ DOMAIN lane' = TaskLanes /\ lane'[l] = LaneAtRest
        /\ \A k \in TaskLanes \ {l} : lane'[k] = lane[k]
    BY <1>1 DEF WorkInv, LanesFormed
  <1>5. /\ {l} \in SUBSET TaskLanes /\ (\E k \in {l} : lane[k] # LaneAtRest)
        /\ (\A k \in {l} : lane'[k] = LaneAtRest)
        /\ memos' = Charged(UNION {lane[k].batch : k \in {l}}, "waiting")
    BY <1>1, <1>2, <1>4
  <1>6. UNCHANGED <<mode, duty, goal, heard, worked>>
    BY <1>1
  <1>7. QED
    BY <1>3, <1>4, <1>5, <1>6, ChargesKeep

LEMMA GatewayFallsKeeps == ASSUME WorkInv, GatewayFalls PROVE WorkInv'
  <1>1. /\ \E l \in TaskLanes : lane[l] # LaneAtRest
        /\ stumbles < MaxStumbles /\ stumbles' = stumbles + 1
        /\ memos' = Charged(lane[1].batch \cup lane[2].batch, "queued")
        /\ lane' = [l \in TaskLanes |-> LaneAtRest]
        /\ UNCHANGED <<mode, duty, goal, heard, worked>>
    BY DEF GatewayFalls, Stumble
  <1>2. UNION {lane[k].batch : k \in TaskLanes} = lane[1].batch \cup lane[2].batch
    BY DEF TaskLanes
  <1>3. stumbles' \in 0..MaxStumbles
    BY <1>1, TaskWorkAssumption DEF WorkInv, CountsFormed
  <1>4. /\ DOMAIN lane' = TaskLanes /\ \A k \in TaskLanes : lane'[k] = LaneAtRest
        /\ TaskLanes \in SUBSET TaskLanes
    BY <1>1
  <1>5. QED
    BY <1>1, <1>2, <1>3, <1>4, ChargesKeep

\* Rows that are written on without being moved, except that they may be done.
LEMMA TurnEndKeeps == ASSUME WorkInv, NEW l \in TaskLanes, TaskTurnEnds(l) PROVE WorkInv'
  <1> DEFINE batch == lane[l].batch
  <1>1. /\ lane[l].at = "sent"
        /\ memos' = [i \in DOMAIN memos |-> IF i \in batch
                       THEN [memos[i] EXCEPT !.at = "done", !.sent = FALSE] ELSE memos[i]]
        /\ lane' = [lane EXCEPT ![l] = LaneAtRest]
        /\ UNCHANGED <<mode, duty, goal, heard, worked, stumbles>>
    BY DEF TaskTurnEnds
  <1>2. RowsFormed /\ RowsKnown /\ LanesFormed /\ CountsFormed
    BY DEF WorkInv
  <1>3. batch \in SUBSET DOMAIN memos /\ \A i \in batch : memos[i].at = "running"
    BY <1>2 DEF LanesFormed, LaneFormed
  <1> HIDE DEF batch
  <1>4. /\ DOMAIN memos' = DOMAIN memos /\ memos' = [i \in DOMAIN memos' |-> memos'[i]]
        /\ \A i \in DOMAIN memos \ batch : memos'[i] = memos[i]
        /\ \A i \in batch : memos'[i] = [memos[i] EXCEPT !.at = "done", !.sent = FALSE]
    BY <1>1, <1>3
  <1>5. ASSUME NEW i \in batch
        PROVE  /\ DOMAIN memos'[i] = DOMAIN memos[i] /\ memos'[i].at = "done"
               /\ memos'[i].kind = memos[i].kind /\ memos'[i].of = memos[i].of
               /\ memos'[i].tries = memos[i].tries
    <2>1. DOMAIN memos[i] = {"kind", "of", "at", "tries", "sent"}
      BY <1>2, <1>3, RowNumbers DEF RowFormed
    <2> DEFINE r == memos[i]
    <2>2. memos'[i] = [r EXCEPT !.at = "done", !.sent = FALSE] /\ DOMAIN r = DOMAIN memos[i]
      BY <1>4
    <2> HIDE DEF r
    <2>3. /\ DOMAIN memos'[i] = DOMAIN r /\ memos'[i].at = "done" /\ memos'[i].kind = r.kind
          /\ memos'[i].of = r.of /\ memos'[i].tries = r.tries
      BY <2>1, <2>2
    <2>4. QED
      BY <2>3 DEF r
  <1>6. ASSUME NEW i \in DOMAIN memos PROVE RowFormed(memos'[i]) /\ RowKept(i)
    <2>1. RowFormed(memos[i])
      BY <1>2, RowNumbers
    <2>2. CASE i \in batch
      <3>1. memos[i].tries # MaxTurns + 1 /\ memos[i].tries \in 0..(MaxTurns + 1)
        BY <1>3, <2>1, <2>2 DEF RowFormed
      <3>2. /\ DOMAIN memos'[i] = {"kind", "of", "at", "tries", "sent"} /\ memos'[i].at = "done"
            /\ memos'[i].kind \in Kinds /\ memos'[i].of \in Duties
            /\ memos'[i].tries \in 0..(MaxTurns + 1) /\ memos'[i].tries # MaxTurns + 1
        BY <1>5, <2>1, <2>2, <3>1 DEF RowFormed
      <3>3. RowFormed(memos'[i])
        BY <3>2 DEF RowFormed, RowStates
      <3>4. RowKept(i)
        BY <1>5, <2>2, <3>1, TaskWorkAssumption DEF RowKept
      <3>5. QED
        BY <3>3, <3>4
    <2>3. CASE i \notin batch
      <3>1. memos'[i] = memos[i]
        BY <1>4, <2>3
      <3>a. memos[i].tries <= memos[i].tries
        BY <2>1, TaskWorkAssumption DEF RowFormed
      <3>2. QED
        BY <2>1, <3>1, <3>a DEF RowKept
    <2>4. QED
      BY <2>2, <2>3
  <1>7. RowsFormed'
    BY <1>2, <1>4, <1>6 DEF RowsFormed
  <1>8. RowsKnown'
    <2>1. DOMAIN memos' = DOMAIN memos /\ \A t \in Duties : duty'[t] # "none" => duty[t] # "none"
      BY <1>1, <1>4
    <2>2. QED
      BY <1>2, <1>6, <2>1, KnownRows
  <1>9. CountsFormed'
    BY <1>1, <1>2 DEF CountsFormed
  <1>10. /\ DOMAIN lane' = TaskLanes /\ lane'[l] = LaneAtRest
         /\ \A k \in TaskLanes \ {l} : lane'[k] = lane[k] /\ lane[k].batch \cap batch = {}
    <2>1. DOMAIN lane = TaskLanes /\ lane[1].batch \cap lane[2].batch = {}
          /\ lane' = [lane EXCEPT ![l] = LaneAtRest]
      BY <1>1, <1>2 DEF LanesFormed
    <2>2. \A k \in TaskLanes \ {l} : lane[k].batch \cap lane[l].batch = {}
      BY <2>1 DEF TaskLanes
    <2>3. DOMAIN lane' = TaskLanes /\ lane'[l] = LaneAtRest
          /\ \A k \in TaskLanes \ {l} : lane'[k] = lane[k]
      BY <2>1
    <2>4. QED
      BY <2>2, <2>3 DEF batch
  <1>11. ASSUME NEW k \in TaskLanes \ {l} PROVE LaneFormed(k)'
    <2>1. LaneFormed(k) /\ lane'[k] = lane[k]
      BY <1>2, <1>10 DEF LanesFormed
    <2>2. \A i \in lane[k].batch : /\ i \in DOMAIN memos' /\ memos'[i].at = "running"
                                    /\ memos'[i].kind = memos[i].kind
      BY <1>4, <1>10, <2>1 DEF LaneFormed
    <2>3. mode' = mode
      BY <1>1
    <2>4. QED
      BY <2>1, <2>2, <2>3, LaneStays
  <1>12. LanesFormed'
    <2>1. \A k \in TaskLanes : LaneFormed(k)'
      BY <1>10, <1>11, LaneRests
    <2>2. \A k \in TaskLanes : lane'[k].batch \subseteq lane[k].batch
      BY <1>10 DEF LaneAtRest
    <2>3. QED
      BY <1>2, <1>10, <2>1, <2>2 DEF LanesFormed, TaskLanes
  <1>13. ASSUME mode # "bundles" PROVE HeardOnce' /\ GivenToBrain'
    <2>1. HeardOnce /\ GivenToBrain
      BY <1>13 DEF WorkInv
    <2>2. \A i \in DOMAIN memos :
             /\ memos[i].sent => memos'[i].sent \/ memos'[i].at = "done"
             /\ memos[i].at = "done" => memos'[i].at = "done"
      BY <1>4, <1>5
    <2>3. HeardOnce'
      BY <1>1, <1>4, <1>6, <2>1, <2>2, HeardStays
    <2>4. \A i \in DOMAIN memos : memos'[i].kind = memos[i].kind /\ memos'[i].of = memos[i].of
      BY <1>6 DEF RowKept
    <2>5. \A i \in batch : memos[i].kind = "assigned" => memos[i].of \in worked
      BY <1>1, <2>1 DEF GivenToBrain, batch
    <2>6. \A k \in TaskLanes : lane[k].batch \subseteq DOMAIN memos
      BY <1>2 DEF LanesFormed, LaneFormed
    <2>7. \A k \in TaskLanes : lane'[k].at \in {"sending", "sent"} => lane'[k] = lane[k]
      BY <1>10 DEF LaneAtRest
    <2>8. \A i \in DOMAIN memos : memos'[i].at = "done" => i \in batch \/ memos[i].at = "done"
      BY <1>4
    <2>9. GivenToBrain'
      <3>1. ASSUME NEW k \in TaskLanes, NEW i \in lane'[k].batch,
                   lane'[k].at \in {"sending", "sent"}, memos'[i].kind = "assigned"
            PROVE  memos'[i].of \in worked'
        <4>1. lane'[k] = lane[k] /\ i \in lane[k].batch /\ i \in DOMAIN memos
          BY <2>6, <2>7, <3>1
        <4>2. memos[i].of \in worked
          BY <2>1, <2>4, <3>1, <4>1 DEF GivenToBrain
        <4>3. worked' = worked
          BY <1>1
        <4>4. QED
          BY <2>4, <4>1, <4>2, <4>3
      <3>2. ASSUME NEW i \in DOMAIN memos, memos'[i].kind = "assigned", memos'[i].at = "done"
            PROVE  memos'[i].of \in worked'
        <4>1. memos[i].kind = "assigned" /\ memos[i].of = memos'[i].of /\ worked' = worked
          BY <1>1, <2>4, <3>2
        <4>2. CASE i \in batch
          BY <2>5, <4>1, <4>2
        <4>3. CASE memos[i].at = "done"
          BY <2>1, <4>1, <4>3 DEF GivenToBrain
        <4>4. QED
          BY <2>8, <3>2, <4>2, <4>3
      <3>3. DOMAIN memos' = DOMAIN memos
        BY <1>4
      <3>4. QED
        BY <3>1, <3>2, <3>3 DEF GivenToBrain
    <2>10. QED
      BY <2>3, <2>9
  <1>14. mode' = "single" /\ Untried' => InOrder' /\ GoalKnown'
    <2>1. \A i \in DOMAIN memos : /\ memos'[i].tries \in Nat
                                  /\ memos'[i].at = "queued" <=> memos[i].at = "queued"
                                  /\ memos'[i].at \in {memos[i].at, "running", "done"}
      <3> SUFFICES ASSUME NEW i \in DOMAIN memos
                   PROVE  /\ memos'[i].tries \in Nat
                          /\ memos'[i].at = "queued" <=> memos[i].at = "queued"
                          /\ memos'[i].at \in {memos[i].at, "running", "done"}
        OBVIOUS
      <3>1. memos'[i].tries \in Nat
        BY <1>6, TaskWorkAssumption DEF RowFormed
      <3>2. CASE i \in batch
        BY <1>3, <1>5, <3>1, <3>2
      <3>3. CASE i \notin batch
        BY <1>4, <3>1, <3>3
      <3>4. QED
        BY <3>2, <3>3
    <2>2. mode = "single" /\ Untried => InOrder /\ GoalKnown
      BY DEF WorkInv
    <2>3. mode' = mode /\ goal' = goal /\ DOMAIN memos' = DOMAIN memos
      BY <1>1, <1>4
    <2>4. QED
      BY <1>2, <1>6, <2>1, <2>2, <2>3, OrderStays
  <1>15. QED
    BY <1>1, <1>7, <1>8, <1>9, <1>12, <1>13, <1>14 DEF WorkInv

\* CompanyInboxChannel.send.
LEMMA WriteBackKeeps == ASSUME WorkInv, NEW l \in TaskLanes, WriteBack(l) PROVE WorkInv'
  <1> DEFINE t == LastOf(lane[l].batch).of
             silent == Silent(l)
             ends == ~silent /\ lane[l].reply = "final"
             tells == ~silent /\ lane[l].reply = "interim"
             lead == Lead(l)
             last == Max(lane[l].batch)
  <1>1. /\ lane[l].at = "sending"
        /\ heard' = IF tells THEN [heard EXCEPT ![t] = @ + 1] ELSE heard
        /\ ends /\ duty[t] = "over" =>
             /\ memos' = Charged(lane[l].batch, "waiting")
             /\ lane' = [lane EXCEPT ![l] = LaneAtRest] /\ duty' = duty
        /\ ~(ends /\ duty[t] = "over") =>
             /\ memos' = [memos EXCEPT ![lead].sent = @ \/ ~silent]
             /\ lane' = [lane EXCEPT ![l] = [LaneAtRest EXCEPT !.batch = lane[l].batch,
                                                            !.at = "sent"]]
             /\ duty' = IF ends THEN [duty EXCEPT ![t] = "over"] ELSE duty
        /\ UNCHANGED <<mode, goal, worked, stumbles>>
    BY DEF WriteBack
  <1>2. RowsFormed /\ RowsKnown /\ LanesFormed /\ CountsFormed
    BY DEF WorkInv
  <1>3. lane[l] # LaneAtRest
    BY <1>1 DEF LaneAtRest
  <1>4. /\ lane[l].batch \in SUBSET DOMAIN memos /\ \A i \in lane[l].batch : memos[i].at = "running"
        /\ last \in lane[l].batch /\ t = memos[last].of
    BY <1>2, <1>3, RowNumbers DEF LanesFormed, LaneFormed, LastOf
  <1>5. ~silent => memos[last].kind # "updated" /\ lane[l].reply # "nothing" /\ ~memos[lead].sent
    BY DEF Silent, LastOf
  <1>6. ~(tells /\ ends)
    OBVIOUS
  <1> HIDE DEF t, silent, ends, tells, lead, last
  <1>7. CASE ends /\ duty[t] = "over"
    <2>1. UNION {lane[k].batch : k \in {l}} = lane[l].batch
      OBVIOUS
    <2>2. /\ DOMAIN lane' = TaskLanes /\ lane'[l] = LaneAtRest
          /\ \A k \in TaskLanes \ {l} : lane'[k] = lane[k]
      BY <1>1, <1>2, <1>7 DEF LanesFormed
    <2>3. heard' = heard /\ stumbles' \in 0..MaxStumbles
      BY <1>1, <1>2, <1>6, <1>7 DEF CountsFormed
    <2>4. /\ {l} \in SUBSET TaskLanes /\ (\E k \in {l} : lane[k] # LaneAtRest)
          /\ (\A k \in {l} : lane'[k] = LaneAtRest)
          /\ memos' = Charged(UNION {lane[k].batch : k \in {l}}, "waiting")
      BY <1>1, <1>3, <1>7, <2>1, <2>2
    <2>5. UNCHANGED <<mode, duty, goal, heard, worked>>
      BY <1>1, <1>7, <2>3
    <2>6. QED
      BY <2>2, <2>3, <2>4, <2>5, ChargesKeep
  <1>8. CASE ~(ends /\ duty[t] = "over")
    <2>1. /\ memos' = [memos EXCEPT ![lead].sent = @ \/ ~silent]
          /\ lane' = [lane EXCEPT ![l] = [LaneAtRest EXCEPT !.batch = lane[l].batch,
                                                         !.at = "sent"]]
          /\ duty' = IF ends THEN [duty EXCEPT ![t] = "over"] ELSE duty
      BY <1>1, <1>8
    <2>2. /\ DOMAIN memos' = DOMAIN memos /\ memos' = [i \in DOMAIN memos' |-> memos'[i]]
          /\ \A i \in DOMAIN memos \ {lead} : memos'[i] = memos[i]
          /\ lead \in DOMAIN memos => memos'[lead] = [memos[lead] EXCEPT !.sent = @ \/ ~silent]
      BY <1>2, <2>1 DEF RowsFormed
    <2>3. ASSUME lead \in DOMAIN memos
          PROVE  /\ DOMAIN memos'[lead] = DOMAIN memos[lead]
                 /\ memos'[lead].at = memos[lead].at /\ memos'[lead].kind = memos[lead].kind
                 /\ memos'[lead].of = memos[lead].of /\ memos'[lead].tries = memos[lead].tries
                 /\ memos'[lead].sent <=> memos[lead].sent \/ ~silent
      <3>1. DOMAIN memos[lead] = {"kind", "of", "at", "tries", "sent"}
        BY <1>2, <2>3, RowNumbers DEF RowFormed
      <3>2. QED
        BY <2>2, <2>3, <3>1
    <2>4. ASSUME NEW i \in DOMAIN memos
          PROVE  /\ RowFormed(memos'[i]) /\ RowKept(i) /\ memos'[i].at = memos[i].at
                 /\ memos'[i].tries \in Nat
      <3>1. RowFormed(memos[i])
        BY <1>2, RowNumbers
      <3>2. CASE i = lead
        BY <2>3, <3>1, <3>2, TaskWorkAssumption DEF RowFormed, RowKept
      <3>3. CASE i # lead
        BY <2>2, <3>1, <3>3, TaskWorkAssumption DEF RowFormed, RowKept
      <3>4. QED
        BY <3>2, <3>3
    <2>5. RowsFormed'
      BY <1>2, <2>2, <2>4 DEF RowsFormed
    <2>6. RowsKnown'
      <3>1. ASSUME NEW s \in Duties, duty'[s] # "none"
            PROVE  \/ duty[s] # "none"
                   \/ \E i \in DOMAIN memos : memos[i].kind = "assigned" /\ memos[i].of = s
        <4>1. CASE ends /\ s = t
          <5>1. last \in DOMAIN memos /\ memos[last].kind \in Kinds /\ memos[last].kind # "updated"
            BY <1>2, <1>4, <1>5, <4>1, RowNumbers DEF RowFormed, ends
          <5>2. CASE memos[last].kind = "assigned"
            BY <1>4, <4>1, <5>1, <5>2
          <5>3. CASE memos[last].kind = "closed"
            BY <1>2, <1>4, <4>1, <5>1, <5>3 DEF RowsKnown, ClosesLater
          <5>4. QED
            BY <5>1, <5>2, <5>3 DEF Kinds
        <4>2. CASE ~(ends /\ s = t)
          BY <1>2, <2>1, <3>1, <4>2 DEF CountsFormed
        <4>3. QED
          BY <4>1, <4>2
      <3>2. DOMAIN memos' = DOMAIN memos /\ \A i \in DOMAIN memos : RowKept(i)
        BY <2>2, <2>4
      <3>3. QED
        BY <1>2, <3>1, <3>2, KnownRows
    <2>7. CountsFormed'
      <3>1. heard' \in [Duties -> Nat]
        <4>1. heard \in [Duties -> Nat]
          BY <1>2 DEF CountsFormed
        <4>2. CASE tells
          <5>1. heard' = [heard EXCEPT ![t] = heard[t] + 1]
            BY <1>1, <4>2
          <5>2. CASE t \in Duties
            BY <4>1, <5>1, <5>2
          <5>3. CASE t \notin Duties
            BY <4>1, <5>1, <5>3
          <5>4. QED
            BY <5>2, <5>3
        <4>3. CASE ~tells
          BY <1>1, <4>1, <4>3
        <4>4. QED
          BY <4>2, <4>3
      <3>2. duty' \in [Duties -> {"none", "open", "over"}]
        BY <1>2, <2>1 DEF CountsFormed
      <3>3. QED
        BY <1>1, <1>2, <3>1, <3>2 DEF CountsFormed
    <2>8. /\ DOMAIN lane' = TaskLanes /\ lane'[l].batch = lane[l].batch /\ lane'[l].at = "sent"
          /\ DOMAIN lane'[l] = {"batch", "at", "reply"}
          /\ \A k \in TaskLanes \ {l} : lane'[k] = lane[k]
      BY <1>2, <2>1 DEF LanesFormed, LaneAtRest
    <2>9. LanesFormed'
      <3>1. LaneFormed(l)'
        <4>1. LaneFormed(l)
          BY <1>2 DEF LanesFormed
        <4>2. \A i \in lane[l].batch : memos'[i].at = "running"
          BY <1>4, <2>4
        <4>3. mode' # "bundles" =>
                 \E i \in DOMAIN memos' : lane'[l].batch = {i} /\ memos'[i].kind # "closed"
          BY <1>1, <1>3, <2>2, <2>4, <2>8, <4>1 DEF LaneFormed, RowKept
        <4>4. QED
          BY <1>4, <2>2, <2>8, <4>2, <4>3 DEF LaneFormed
      <3>2. ASSUME NEW k \in TaskLanes \ {l} PROVE LaneFormed(k)'
        <4>1. LaneFormed(k) /\ lane'[k] = lane[k] /\ mode' = mode
          BY <1>1, <1>2, <2>8 DEF LanesFormed
        <4>2. \A i \in lane[k].batch : /\ i \in DOMAIN memos' /\ memos'[i].at = "running"
                                        /\ memos'[i].kind = memos[i].kind
          BY <2>2, <2>4, <4>1 DEF LaneFormed, RowKept
        <4>3. QED
          BY <4>1, <4>2, LaneStays
      <3>3. \A k \in TaskLanes : LaneFormed(k)' /\ lane'[k].batch = lane[k].batch
        BY <2>8, <3>1, <3>2
      <3>4. QED
        BY <1>2, <2>8, <3>3 DEF LanesFormed, TaskLanes
    <2>10. ASSUME mode # "bundles" PROVE HeardOnce' /\ GivenToBrain'
      <3>1. HeardOnce /\ GivenToBrain
        BY <2>10 DEF WorkInv
      <3>2. PICK i \in DOMAIN memos : lane[l].batch = {i} /\ memos[i].kind # "closed"
        BY <1>2, <1>3, <2>10 DEF LanesFormed, LaneFormed
      <3>3. lead = i /\ last = i
        BY <1>2, <3>2, OnlyOne, RowNumbers DEF lead, last, Lead
      <3>4. \A k \in DOMAIN memos : /\ memos[k].sent => memos'[k].sent
                                    /\ memos[k].at = "done" => memos'[k].at = "done"
        <4>1. ASSUME NEW k \in DOMAIN memos, memos[k].sent PROVE memos'[k].sent
          <5>1. CASE k = lead
            BY <2>3, <4>1, <5>1
          <5>2. CASE k # lead
            BY <2>2, <4>1, <5>2
          <5>3. QED
            BY <5>1, <5>2
        <4>2. QED
          BY <2>4, <4>1
      <3>5. HeardOnce'
        <4>1. CASE ~tells
          <5>1. heard' = heard
            BY <1>1, <4>1
          <5>2. QED
            BY <2>2, <2>4, <3>1, <3>4, <5>1, HeardStays
        <4>2. CASE tells
          <5>1. memos[i].kind = "assigned" /\ ~memos[i].sent /\ memos[i].at = "running"
                /\ memos[i].of = t /\ t \in Duties
            BY <1>2, <1>4, <1>5, <3>2, <3>3, <4>2, RowNumbers DEF RowFormed, Kinds, tells
          <5>2. heard[t] # 1
            BY <1>2, <3>1, <5>1 DEF HeardOnce, RowsKnown, OneOfAKind
          <5>3. heard[t] \in Nat /\ heard[t] <= 1
            BY <1>2, <3>1, <5>1 DEF HeardOnce, CountsFormed
          <5>4. heard'[t] = 1 /\ \A s \in Duties \ {t} : heard'[s] = heard[s]
            BY <1>1, <1>2, <4>2, <5>1, <5>2, <5>3 DEF CountsFormed
          <5>5. memos'[i].sent
            BY <2>3, <3>3, <4>2 DEF tells
          <5>6. ASSUME NEW s \in Duties
                PROVE  /\ heard'[s] <= 1
                       /\ heard'[s] = 1 => \E k \in DOMAIN memos' :
                             /\ memos'[k].kind = "assigned" /\ memos'[k].of = s
                             /\ memos'[k].sent \/ memos'[k].at = "done"
            <6>1. CASE s = t
              BY <2>2, <2>4, <5>1, <5>4, <5>5, <6>1 DEF RowKept
            <6>2. CASE s # t
              <7>1. heard'[s] = heard[s] /\ heard'[s] <= 1
                BY <3>1, <5>4, <6>2 DEF HeardOnce
              <7>2. ASSUME heard'[s] = 1
                    PROVE  \E k \in DOMAIN memos' :
                             /\ memos'[k].kind = "assigned" /\ memos'[k].of = s
                             /\ memos'[k].sent \/ memos'[k].at = "done"
                <8>1. PICK k \in DOMAIN memos : /\ memos[k].kind = "assigned" /\ memos[k].of = s
                                                /\ memos[k].sent \/ memos[k].at = "done"
                  <9>1. heard[s] = 1
                    BY <7>1, <7>2
                  <9>2. QED
                    BY <3>1, <9>1 DEF HeardOnce
                <8>2. memos'[k].sent \/ memos'[k].at = "done"
                  BY <3>4, <8>1
                <8>3. k \in DOMAIN memos' /\ memos'[k].kind = "assigned" /\ memos'[k].of = s
                  BY <2>2, <2>4, <8>1 DEF RowKept
                <8>4. QED
                  BY <8>2, <8>3
              <7>3. QED
                BY <7>1, <7>2
            <6>3. QED
              BY <6>1, <6>2
          <5>7. QED
            BY <5>6 DEF HeardOnce
        <4>3. QED
          BY <4>1, <4>2
      <3>6. \A k \in DOMAIN memos : /\ memos'[k].kind = memos[k].kind /\ memos'[k].of = memos[k].of
                                    /\ memos'[k].at = memos[k].at
        BY <2>4 DEF RowKept
      <3>7. \A k \in TaskLanes : lane[k].batch \subseteq DOMAIN memos
        BY <1>2 DEF LanesFormed, LaneFormed
      <3>8. \A k \in TaskLanes : lane'[k].batch = lane[k].batch
                                 /\ (lane'[k].at \in {"sending", "sent"}
                                     => lane[k].at \in {"sending", "sent"})
        BY <1>1, <2>8
      <3>9. GivenToBrain'
        BY <1>1, <2>2, <3>1, <3>6, <3>7, <3>8 DEF GivenToBrain
      <3>10. QED
        BY <3>5, <3>9
    <2>11. mode' = "single" /\ Untried' => InOrder' /\ GoalKnown'
      <3>1. mode = "single" /\ Untried => InOrder /\ GoalKnown
        BY DEF WorkInv
      <3>2. \A i \in DOMAIN memos : RowKept(i)
        BY <2>4
      <3>a. \A i \in DOMAIN memos : /\ memos'[i].tries \in Nat
                                    /\ memos'[i].at = "queued" <=> memos[i].at = "queued"
                                    /\ memos'[i].at \in {memos[i].at, "running", "done"}
        BY <2>4
      <3>3. mode' = mode /\ goal' = goal /\ DOMAIN memos' = DOMAIN memos
        BY <1>1, <2>2
      <3>4. RowsFormed
        BY <1>2
      <3>5. QED
        BY <3>1, <3>2, <3>a, <3>3, <3>4, OrderStays
    <2>12. QED
      BY <1>1, <2>5, <2>6, <2>7, <2>9, <2>10, <2>11 DEF WorkInv
  <1>9. QED
    BY <1>7, <1>8

LEMMA WorkStays == WorkInv /\ [TaskWorkNext]_taskWorkVars => WorkInv'
  <1> SUFFICES ASSUME WorkInv, [TaskWorkNext]_taskWorkVars PROVE WorkInv'
    OBVIOUS
  <1>1. CASE UNCHANGED taskWorkVars
    BY <1>1 DEF taskWorkVars, WorkInv, RowsFormed, CountsFormed, RowsKnown, OneOfAKind,
       ClosesLater, OpenIsAssigned, LanesFormed, LaneFormed, HeardOnce, GivenToBrain, Untried,
       InOrder, GoalKnown, LatestTaken, CloseTaken
  <1>2. ASSUME NEW t \in Duties, AssignDuty(t) PROVE WorkInv'
    <2>1. /\ WriteMemo("assigned", t) /\ duty' = [duty EXCEPT ![t] = "open"]
          /\ UNCHANGED <<mode, goal, lane, heard, worked, stumbles>>
      BY <1>2 DEF AssignDuty
    <2>2. /\ duty' \in [Duties -> {"none", "open", "over"}]
          /\ \A s \in Duties : duty'[s] # "none" => duty[s] # "none" \/ s = t
      BY <2>1 DEF WorkInv, CountsFormed
    <2>3. "assigned" \in Kinds
      BY DEF Kinds
    <2>4. QED
      BY <2>1, <2>2, <2>3, WriteKeeps
  <1>3. ASSUME NEW t \in Duties, NEW kind \in Kinds, kind # "assigned", duty[t] # "none",
               WriteMemo(kind, t), UNCHANGED <<mode, duty, goal, lane, heard, worked, stumbles>>
        PROVE  WorkInv'
    <2>1. duty' \in [Duties -> {"none", "open", "over"}]
      BY <1>3 DEF WorkInv, CountsFormed
    <2>2. QED
      BY <1>3, <2>1, WriteKeeps
  <1>4. ASSUME NEW t \in Duties, UpdateDuty(t) \/ TellClosed(t) PROVE WorkInv'
    BY <1>3, <1>4 DEF UpdateDuty, TellClosed, Kinds
  <1>5. ASSUME NEW l \in TaskLanes,
               \/ TakeUp(l) \/ BrainAnswers(l) \/ BrainFalls(l) \/ WriteBack(l)
               \/ TaskTurnEnds(l)
        PROVE  WorkInv'
    BY <1>5, TakeUpKeeps, BrainAnswersKeeps, BrainFallsKeeps, WriteBackKeeps, TurnEndKeeps
  <1>6. QED
    BY <1>1, <1>2, <1>4, <1>5, WithdrawKeeps, WaitKeeps, SendBackKeeps, GatewayFallsKeeps
       DEF TaskWorkNext

LEMMA WorkIsTyped == WorkInv => TaskWorkTypeOK
  <1> SUFFICES ASSUME WorkInv PROVE TaskWorkTypeOK
    OBVIOUS
  <1>1. RowsFormed /\ CountsFormed /\ LanesFormed
    BY DEF WorkInv
  <1>2. ASSUME NEW i \in DOMAIN memos
        PROVE  /\ memos[i].kind \in {"assigned", "updated", "closed"} /\ memos[i].of \in Duties
               /\ memos[i].tries <= MaxTurns + 1
               /\ memos[i].at = "failed" <=> memos[i].tries = MaxTurns + 1
    <2>1. RowFormed(memos[i])
      BY <1>1, RowNumbers
    <2>2. QED
      BY <2>1, TaskWorkAssumption DEF RowFormed, Kinds
  <1>3. QED
    BY <1>1, <1>2 DEF TaskWorkTypeOK, CountsFormed, LanesFormed, LaneFormed

LEMMA WorkIsDone == WorkInv => TasksWorked
  <1> SUFFICES ASSUME WorkInv PROVE TasksWorked
    OBVIOUS
  <1>1. mode # "bundles" => AssignedIsWorked /\ NoEcho
    BY DEF WorkInv, AssignedIsWorked, NoEcho, GivenToBrain, HeardOnce
  <1>2. ASSUME mode = "single", \A i \in DOMAIN memos : memos[i].tries = 0
        PROVE  IF TakenUp("assigned") = {} THEN goal = 0
               ELSE LET t == memos[Max(TakenUp("assigned"))].of
                    IN goal = IF \E i \in TakenUp("closed") : memos[i].of = t THEN 0 ELSE t
    <2>1. RowsFormed /\ GoalKnown
      BY <1>2 DEF WorkInv, Untried
    <2>2. CASE TakenUp("assigned") = {}
      BY <2>1, <2>2 DEF TakenUp, GoalKnown
    <2>3. CASE TakenUp("assigned") # {}
      <3> DEFINE i == Max(TakenUp("assigned"))
      <3>1. TakenUp("assigned") \in SUBSET DOMAIN memos
        BY DEF TakenUp
      <3>2. i \in TakenUp("assigned") /\ \A k \in TakenUp("assigned") : k <= i
        BY <2>1, <2>3, <3>1, RowNumbers
      <3> HIDE DEF i
      <3>3. i \in DOMAIN memos /\ memos[i].kind = "assigned" /\ memos[i].at # "queued"
        BY <3>2 DEF TakenUp
      <3>4. LatestTaken(i)
        <4> SUFFICES ASSUME NEW k \in DOMAIN memos, i < k, memos[k].kind = "assigned",
                            memos[k].at # "queued"
                     PROVE  FALSE
          BY <3>3 DEF LatestTaken
        <4>1. k \in TakenUp("assigned") /\ k \in Nat /\ i \in Nat
          BY <2>1, <3>3, RowNumbers DEF TakenUp
        <4>2. QED
          BY <3>2, <4>1
      <3>5. CloseTaken(memos[i].of) <=> \E k \in TakenUp("closed") : memos[k].of = memos[i].of
        BY DEF CloseTaken, TakenUp
      <3>6. goal = IF \E k \in TakenUp("closed") : memos[k].of = memos[i].of
                   THEN 0 ELSE memos[i].of
        BY <2>1, <3>3, <3>4, <3>5 DEF GoalKnown
      <3>7. QED
        BY <2>3, <3>6 DEF i
    <2>4. QED
      BY <2>2, <2>3
  <1>3. GoalFollowsTask
    BY <1>2 DEF GoalFollowsTask
  <1>4. QED
    BY <1>1, <1>3 DEF TasksWorked

\* Whatever brains raise, gateways die and rows come back, each assignment that is done
\* was given to the brain, the company hears of a task once and not for its updates, and
\* the goal is the task that was assigned last, for any number of tasks, rows and
\* retries (dispatch_once, _apply_goal_lifecycle, CompanyInboxChannel.send).
THEOREM TasksAreWorked == TaskWorkSpec => []TasksWorked
  BY WorkInitially, WorkStays, WorkIsDone, PTL DEF TaskWorkSpec

-----------------------------------------------------------------------------
(* Routing: what a run knows of its messages, and what a mark may cost them. *)

JobFields == {"batch", "at", "hint", "brain", "why", "began", "copy", "then"}
JobStates == {"idle", "claimed", "asking", "route", "dropping", "noticing", "running",
              "saving", "retrying", "finishing"}
Verdicts == {"none", "work", "unsure", "unsafe"}

JobFormed(l) ==
    /\ DOMAIN run[l] = JobFields
    /\ run[l].at \in JobStates /\ run[l].hint \in Hints /\ run[l].brain \in Brains
    /\ run[l].then \in {"idle", "route", "finishing", "retrying"}
    /\ run[l].at = "saving" => run[l].then # "idle"
    /\ run[l].copy \in Marks
    /\ run[l].at = "idle" <=> run[l].batch = {}
    /\ run[l].batch \subseteq Inbound
    /\ \A m \in run[l].batch : phase[m] = "running"
    /\ run[l].hint = "odd" => \E m \in Inbound : run[l].batch = {m} /\ sort[m] = "odd"

RunsFormed ==
    /\ DOMAIN run = Lanes /\ \A l \in Lanes : JobFormed(l)
    /\ run[1].batch \cap run[2].batch = {}
    /\ setup.lanes = 1 => run[2] = NoJob

MessagesFormed ==
    /\ setup.lanes \in 1..2 /\ setup.unsafe \in {"reject", "contain"}
    /\ sort \in [Inbound -> {"text", "picture", "voice", "inline", "odd", "pin"}]
    /\ phase \in [Inbound -> {"away", "queued", "running", "done", "failed"}]
    /\ tries \in [Inbound -> 0..(MaxTries + 1)] /\ backing \subseteq Inbound
    /\ \A m \in Inbound : phase[m] = "failed" <=> tries[m] = MaxTries + 1

HistoryFormed ==
    /\ sticky \in 0..MaxInbound /\ verdicts \in [SUBSET Inbound -> Verdicts]
    /\ login \in {"good", "gone", "renewed"} /\ mark \in Marks /\ stored \in Marks
    /\ notices \in [Inbound -> Nat] /\ spent \in [Inbound -> Nat]
    /\ obeyed \subseteq Inbound /\ clears \in Nat /\ mischief \in 0..MaxMischief

\* What is written to the file is what the memory holds.
MarkHeld ==
    setup.lanes = 1 =>
        /\ run[1].at = "saving" => run[1].copy = mark
        /\ run[1].at # "saving" => stored = mark

\* A message that may be lost on a brain without a login: one that no fresh mark
\* diverts, or that was sent there before.
Exposed(m) ==
    \E l \in Lanes :
        /\ m \in run[l].batch
        /\ \/ run[l].hint = "primary"
           \/ /\ run[l].at = "running" /\ run[l].hint = "work"
              /\ run[l].brain = "claude" /\ run[l].why = "triage"

AtRisk(m) == IF mark # "fresh" \/ Exposed(m) THEN 1 ELSE 0

\* A mark that is as good as dropped.
Dropped == IF mark = "old" \/ \E l \in Lanes : run[l].at = "dropping" THEN 1 ELSE 0

Spared(m) == spent[m] + AtRisk(m) + Dropped <= 1 + clears + 2 * mischief

BothDrop == (\A l \in Lanes : run[l].at = "dropping") => mark = "old"

Ending(l) == run[l].at = "finishing" \/ (run[l].at = "saving" /\ run[l].then = "finishing")

\* A notice that a message may still be sent.
MayNotice(m) ==
    IF phase[m] = "done" \/ \E l \in Lanes : m \in run[l].batch /\ Ending(l) THEN 0 ELSE 1

Noticed(m) ==
    /\ notices[m] + MayNotice(m) <= 1 + mischief
    /\ m \in obeyed /\ mischief = 0 =>
          notices[m] >= 1 \/ \E l \in Lanes : m \in run[l].batch /\ run[l].at = "noticing"

\* In the serial loop, until something goes wrong or the login ends.
Calm == setup.lanes = 1 /\ mischief = 0 /\ login = "good"

Reached(m) == phase[m] \in {"running", "done"}

RunKept ==
    /\ run[1].began /\ mark = "none" /\ run[1].at \notin {"dropping", "retrying"}
    /\ run[1].at = "saving" => run[1].then # "retrying"
    /\ \A m \in backing : sort[m] = "odd"
    /\ \A m \in Inbound : phase[m] = "running" => m \in run[1].batch

PinsOrdered ==
    /\ \A m \in Inbound : sort[m] = "pin" => phase[m] # "failed"
    /\ \A m, n \in Inbound : n < m /\ phase[m] # "away" => phase[n] # "away"
    /\ \A m, n \in Inbound : sort[m] = "pin" /\ sort[n] = "pin" /\ n < m =>
          /\ Reached(m) => Reached(n)
          /\ phase[m] = "done" => phase[n] = "done"

NewestIsSticky ==
    /\ \A m \in obeyed : sort[m] = "pin" /\ Reached(m)
    /\ sticky # 0 => sticky \in obeyed /\ \A m \in obeyed : m <= sticky

PinsKept == RunKept /\ PinsOrdered /\ NewestIsSticky

RouteInv ==
    /\ RunsFormed /\ MessagesFormed /\ HistoryFormed /\ MarkHeld /\ UnsafeContained /\ BothDrop
    /\ \A m \in Inbound : Spared(m) /\ Noticed(m)
    /\ Calm => PinsKept

\* What the steps of a run leave of it.
Others(l) == DOMAIN run' = Lanes /\ \A k \in Lanes \ {l} : run'[k] = run[k]

LEMMA GoingOn ==
    ASSUME RunsFormed, NEW l \in Lanes, NEW a, GoesOn(l, a)
    PROVE  /\ Others(l) /\ DOMAIN run'[l] = JobFields
           /\ run'[l].batch = run[l].batch /\ run'[l].at = a /\ run'[l].hint = "none"
           /\ run'[l].brain = "none" /\ run'[l].why = "none" /\ run'[l].began
           /\ run'[l].copy = "none" /\ run'[l].then = "idle"
  BY DEF RunsFormed, GoesOn, NoJob, JobFields, Others

LEMMA Going ==
    ASSUME RunsFormed, NEW l \in Lanes, NEW a, NEW h, Goes(l, a, h)
    PROVE  /\ Others(l) /\ DOMAIN run'[l] = JobFields
           /\ run'[l].batch = run[l].batch /\ run'[l].at = a /\ run'[l].hint = h
           /\ run'[l].brain = run[l].brain /\ run'[l].why = run[l].why
           /\ run'[l].began = run[l].began
           /\ run'[l].copy = run[l].copy /\ run'[l].then = run[l].then
  BY DEF RunsFormed, JobFormed, Goes, JobFields, Others

LEMMA Storing ==
    ASSUME RunsFormed, NEW l \in Lanes, NEW v, NEW next, NEW h, Stores(l, v, next, h)
    PROVE  /\ Others(l) /\ DOMAIN run'[l] = JobFields /\ mark' = v /\ stored' = stored
           /\ run'[l].batch = run[l].batch /\ run'[l].at = "saving" /\ run'[l].hint = h
           /\ run'[l].brain = "none" /\ run'[l].why = "none" /\ run'[l].began
           /\ run'[l].copy = v /\ run'[l].then = next
  BY DEF RunsFormed, Stores, NoJob, JobFields, Others

LEMMA EndingRun ==
    ASSUME RunsFormed, NEW l \in Lanes, Ends(l)
    PROVE  /\ Others(l) /\ DOMAIN run'[l] = JobFields /\ run'[l] = NoJob
           /\ run'[l].batch = {} /\ run'[l].at = "idle" /\ run'[l].hint = "none"
           /\ run'[l].brain = "none" /\ run'[l].why = "none" /\ run'[l].began
           /\ run'[l].copy = "none" /\ run'[l].then = "idle"
  BY DEF RunsFormed, Ends, NoJob, JobFields, Others

LEMMA SavedRun ==
    ASSUME RunsFormed, NEW l \in Lanes, Save(l)
    PROVE  /\ Others(l) /\ DOMAIN run'[l] = JobFields
           /\ run'[l].batch = run[l].batch /\ run'[l].at = run[l].then
           /\ run'[l].hint = run[l].hint /\ run'[l].brain = run[l].brain
           /\ run'[l].why = run[l].why /\ run'[l].began = run[l].began
           /\ run'[l].copy = "none" /\ run'[l].then = "idle"
  BY DEF RunsFormed, JobFormed, Save, JobFields, Others

LEMMA NumberOfMessages == Inbound \subseteq Nat /\ IsFiniteSet(Inbound)
  BY FS_Interval, RoutingAssumption DEF Inbound

\* What is alone in its run.
LEMMA AloneInRun ==
    ASSUME RunsFormed, NEW l \in Lanes, Content(l) # "text"
    PROVE  Lone(l) \in Inbound /\ run[l].batch = {Lone(l)} /\ Content(l) = sort[Lone(l)]
  <1>1. Cardinality(run[l].batch) = 1 /\ Content(l) = sort[Lone(l)]
    BY DEF Content
  <1>2. run[l].batch \in SUBSET Inbound /\ IsFiniteSet(run[l].batch)
    BY NumberOfMessages, FS_Subset DEF RunsFormed, JobFormed
  <1>3. \E m : run[l].batch = {m}
    BY <1>1, <1>2, FS_Singleton
  <1>4. \E m \in Inbound : run[l].batch = {m}
    BY <1>2, <1>3
  <1>5. QED
    BY <1>1, <1>4 DEF Lone

LEMMA HintsOfRuns ==
    ASSUME RunsFormed, HistoryFormed, NEW l \in Lanes
    PROVE  /\ Hinted(l) \in Hints /\ Hinted(l) # "primary"
           /\ Hinted(l) = "odd" => Content(l) = "odd"
  <1>1. run[l].batch \in SUBSET Inbound
    BY DEF RunsFormed, JobFormed
  <1>2. verdicts[run[l].batch] \in Verdicts
    BY <1>1 DEF HistoryFormed
  <1>3. QED
    BY <1>2 DEF Hinted, Hints, Verdicts

\* The messages that the loop takes are free.
LEMMA TakenMessages ==
    ASSUME MessagesFormed, Ready # {}
    PROVE  Taken \in SUBSET Inbound /\ Taken # {} /\ \A m \in Taken : phase[m] = "queued"
  <1>1. Ready \in SUBSET Nat /\ Ready \subseteq Inbound /\ \A m \in Ready : phase[m] = "queued"
    BY NumberOfMessages DEF Ready
  <1>2. Min(Ready) \in Ready
    BY <1>1, MinOfSet
  <1>3. QED
    BY <1>1, <1>2 DEF Taken

LEMMA ClaimingRun ==
    ASSUME RunsFormed, MessagesFormed, NEW l \in Lanes, ClaimFor(l)
    PROVE  /\ Others(l) /\ DOMAIN run'[l] = JobFields /\ run[l] = NoJob /\ l \in 1..setup.lanes
           /\ run'[l].batch = Taken /\ run'[l].at = "claimed" /\ run'[l].hint = "none"
           /\ run'[l].brain = "none" /\ run'[l].why = "none" /\ run'[l].began
           /\ run'[l].copy = "none" /\ run'[l].then = "idle"
  <1> DEFINE free == {k \in 1..setup.lanes : run[k] = NoJob}
  <1>1. l = Min(free \cup {3}) /\ run' = [run EXCEPT ![l] = [NoJob EXCEPT !.batch = Taken, !.at = "claimed"]]
    BY DEF ClaimFor
  <1>2. free \cup {3} \in SUBSET Nat /\ free \cup {3} # {}
    BY DEF MessagesFormed
  <1>3. l \in free \cup {3}
    BY <1>1, <1>2, MinOfSet
  <1>4. l # 3
    BY DEF Lanes
  <1>5. run[l] = NoJob /\ l \in 1..setup.lanes
    BY <1>3, <1>4
  <1>6. QED
    BY <1>1, <1>5 DEF RunsFormed, NoJob, JobFields, Others

LEMMA ChoiceOfBrain ==
    ASSUME NEW l \in Lanes, NEW h \in Hints
    PROVE  SeenMarks(l, Selected(h)).brain \in Brains
  <1>1. Selected(h).brain \in Brains
    BY DEF Selected, Triaged, Brains
  <1>2. QED
    BY <1>1 DEF SeenMarks, Brains

LEMMA RoutedRun ==
    ASSUME RunsFormed, NEW l \in Lanes, Route(l)
    PROVE  /\ Others(l) /\ DOMAIN run'[l] = JobFields
           /\ run'[l].batch = run[l].batch /\ run'[l].at = "running" /\ run'[l].hint = run[l].hint
           /\ run'[l].brain = SeenMarks(l, Selected(run[l].hint)).brain
           /\ run'[l].why = SeenMarks(l, Selected(run[l].hint)).why
           /\ run'[l].began = (login # "gone")
           /\ run'[l].copy = run[l].copy /\ run'[l].then = run[l].then
  <1> DEFINE choice == SeenMarks(l, Selected(run[l].hint))
  <1>1. run' = [run EXCEPT ![l].at = "running", ![l].brain = choice.brain,
                             ![l].why = choice.why, ![l].began = login # "gone"]
    BY DEF Route
  <1> HIDE DEF choice
  <1>2. /\ Others(l) /\ DOMAIN run'[l] = JobFields
        /\ run'[l].batch = run[l].batch /\ run'[l].at = "running" /\ run'[l].hint = run[l].hint
        /\ run'[l].brain = choice.brain /\ run'[l].why = choice.why
        /\ run'[l].began = (login # "gone")
        /\ run'[l].copy = run[l].copy /\ run'[l].then = run[l].then
    BY <1>1 DEF RunsFormed, JobFormed, JobFields, Others
  <1>3. QED
    BY <1>2 DEF choice

RouteFormed == RunsFormed /\ MessagesFormed /\ HistoryFormed

LEMMA StepInRun ==
    ASSUME RunsFormed, NEW l \in Lanes, Others(l), DOMAIN run'[l] = JobFields,
           run[l].at # "idle", UNCHANGED <<fixedVars, phase>>, run'[l].batch = run[l].batch,
           run'[l].at \in JobStates \ {"idle"}, run'[l].hint \in Hints, run'[l].brain \in Brains,
           run'[l].then \in {"idle", "route", "finishing", "retrying"},
           run'[l].at = "saving" => run'[l].then # "idle", run'[l].copy \in Marks,
           run'[l].hint = "odd" => \E m \in Inbound : run[l].batch = {m} /\ sort[m] = "odd"
    PROVE  RunsFormed'
  <1>1. setup' = setup /\ sort' = sort /\ phase' = phase
    BY DEF fixedVars
  <1>2. JobFormed(l)'
    <2>1. JobFormed(l)
      BY DEF RunsFormed
    <2>2. /\ run'[l].at = "idle" <=> run'[l].batch = {}
          /\ run'[l].batch \subseteq Inbound
          /\ \A m \in run'[l].batch : phase'[m] = "running"
      BY <1>1, <2>1 DEF JobFormed
    <2>3. run'[l].hint = "odd" => \E m \in Inbound : run'[l].batch = {m} /\ sort'[m] = "odd"
      BY <1>1
    <2>4. run'[l].at \in JobStates
      OBVIOUS
    <2>5. QED
      BY <2>2, <2>3, <2>4 DEF JobFormed
  <1>3. ASSUME NEW k \in Lanes \ {l} PROVE JobFormed(k)'
    <2>1. JobFormed(k) /\ run'[k] = run[k]
      BY DEF RunsFormed, Others
    <2>2. QED
      BY <1>1, <2>1 DEF JobFormed
  <1>4. setup.lanes = 1 => l = 1
    BY DEF RunsFormed, Lanes, NoJob
  <1>5. \A k \in Lanes : run'[k].batch = run[k].batch
    BY DEF Others
  <1>6. QED
    BY <1>1, <1>2, <1>3, <1>4, <1>5 DEF RunsFormed, Others, Lanes

LEMMA StepOut ==
    ASSUME RunsFormed, NEW l \in Lanes, Ends(l), run[l].at # "idle", UNCHANGED fixedVars,
           \A m \in Inbound \ run[l].batch : phase'[m] = phase[m]
    PROVE  RunsFormed'
  <1>1. setup' = setup /\ sort' = sort
    BY DEF fixedVars
  <1>2. /\ Others(l) /\ DOMAIN run'[l] = JobFields
        /\ run'[l].batch = {} /\ run'[l].at = "idle" /\ run'[l].hint = "none"
        /\ run'[l].brain = "none" /\ run'[l].copy = "none" /\ run'[l].then = "idle"
    BY EndingRun
  <1>3. JobFormed(l)'
    BY <1>2 DEF JobFormed, JobStates, Hints, Brains, Marks
  <1>4. ASSUME NEW k \in Lanes \ {l} PROVE JobFormed(k)'
    <2>1. JobFormed(k) /\ run'[k] = run[k] /\ run[k].batch \cap run[l].batch = {}
      BY <1>2 DEF RunsFormed, Others, Lanes
    <2>2. \A m \in run[k].batch : m \in Inbound /\ phase'[m] = "running"
      BY <2>1 DEF JobFormed
    <2>3. QED
      BY <1>1, <2>1, <2>2 DEF JobFormed
  <1>5. setup.lanes = 1 => l = 1
    BY DEF RunsFormed, Lanes, NoJob
  <1>6. \A k \in Lanes : run'[k].batch \subseteq run[k].batch
    BY <1>2 DEF Others
  <1>7. QED
    BY <1>1, <1>2, <1>3, <1>4, <1>5, <1>6 DEF RunsFormed, Others, Lanes

LEMMA ChargedMessages ==
    ASSUME MessagesFormed, NEW batch \in SUBSET Inbound, \A m \in batch : phase[m] = "running",
           Charge(batch), UNCHANGED fixedVars, backing' \subseteq Inbound
    PROVE  /\ MessagesFormed' /\ \A m \in Inbound \ batch : phase'[m] = phase[m]
           /\ \A m \in batch : phase'[m] \in {"queued", "failed"}
  <1>1. MaxTries \in Nat /\ setup' = setup /\ sort' = sort
    BY RoutingAssumption DEF fixedVars
  <1>2. ASSUME NEW m \in Inbound
        PROVE  /\ tries'[m] \in 0..(MaxTries + 1)
               /\ phase'[m] = "failed" <=> tries'[m] = MaxTries + 1
               /\ m \notin batch => phase'[m] = phase[m]
               /\ m \in batch => phase'[m] \in {"queued", "failed"}
    <2>1. /\ tries[m] \in 0..(MaxTries + 1) /\ (phase[m] = "failed" <=> tries[m] = MaxTries + 1)
          /\ tries'[m] = IF m \in batch THEN tries[m] + 1 ELSE tries[m]
          /\ phase'[m] = IF m \notin batch THEN phase[m]
                         ELSE IF tries[m] = MaxTries THEN "failed" ELSE "queued"
      BY DEF MessagesFormed, Charge
    <2>2. CASE m \in batch
      <3>1. tries[m] # MaxTries + 1
        BY <2>1, <2>2
      <3>2. QED
        BY <1>1, <2>1, <2>2, <3>1
    <2>3. CASE m \notin batch
      BY <2>1, <2>3
    <2>4. QED
      BY <2>2, <2>3
  <1>3. tries' \in [Inbound -> 0..(MaxTries + 1)]
    BY <1>2 DEF Charge
  <1>4. phase' \in [Inbound -> {"away", "queued", "running", "done", "failed"}]
    BY DEF Charge, MessagesFormed
  <1>5. QED
    BY <1>1, <1>2, <1>3, <1>4 DEF MessagesFormed

LEMMA RunIsOfMessages ==
    ASSUME RunsFormed, NEW l \in Lanes
    PROVE  /\ run[l].batch \in SUBSET Inbound /\ \A m \in run[l].batch : phase[m] = "running"
           /\ run[l].copy \in Marks /\ run[l].hint \in Hints /\ run[l].brain \in Brains
           /\ run[l].then \in {"idle", "route", "finishing", "retrying"}
           /\ run[l].at = "saving" => run[l].then # "idle"
           /\ run[l].hint = "odd" => \E m \in Inbound : run[l].batch = {m} /\ sort[m] = "odd"
           /\ run[l].at = "idle" <=> run[l].batch = {}
  BY DEF RunsFormed, JobFormed

LEMMA RouteInitially == RoutingInit => RouteInv
  <1> SUFFICES ASSUME RoutingInit PROVE RouteInv
    OBVIOUS
  <1>1. MaxInbound \in Nat /\ MaxTries \in Nat /\ MaxMischief \in Nat
    BY RoutingAssumption
  <1>2. run = [l \in Lanes |-> NoJob] /\ \A l \in Lanes : run[l] = NoJob
    BY DEF RoutingInit
  <1>3. MessagesFormed
    <2>1. setup.lanes \in 1..2 /\ setup.unsafe \in {"reject", "contain"}
      BY DEF RoutingInit
    <2>2. QED
      BY <1>1, <2>1 DEF RoutingInit, MessagesFormed
  <1>4. HistoryFormed
    BY <1>1 DEF RoutingInit, HistoryFormed, Verdicts, Marks
  <1>5. RunsFormed
    <2>1. \A l \in Lanes : JobFormed(l)
      BY <1>2 DEF JobFormed, NoJob, JobFields, JobStates, Hints, Brains, Marks
    <2>2. QED
      BY <1>2, <2>1 DEF RunsFormed, NoJob, Lanes
  <1>6. \A l \in Lanes : run[l].at = "idle" /\ run[l].batch = {} /\ run[l].began
    BY <1>2 DEF NoJob
  <1>7. MarkHeld /\ UnsafeContained /\ BothDrop
    BY <1>6 DEF RoutingInit, MarkHeld, UnsafeContained, BothDrop, Lanes
  <1>8. ASSUME NEW m \in Inbound PROVE Spared(m) /\ Noticed(m)
    <2>1. AtRisk(m) = 1 /\ Dropped = 0 /\ MayNotice(m) = 1 /\ spent[m] = 0 /\ notices[m] = 0
          /\ clears = 0 /\ mischief = 0 /\ obeyed = {}
      BY <1>6 DEF RoutingInit, AtRisk, Dropped, MayNotice
    <2>2. QED
      BY <2>1 DEF Spared, Noticed
  <1>9. PinsKept
    BY <1>6 DEF RoutingInit, PinsKept, RunKept, PinsOrdered, NewestIsSticky, Reached, Lanes
  <1>10. QED
    BY <1>3, <1>4, <1>5, <1>7, <1>8, <1>9 DEF RouteInv

\* One step of a run leaves the types.
LEMMA MessagesRest ==
    ASSUME MessagesFormed, UNCHANGED <<fixedVars, rowVars>>
    PROVE  MessagesFormed'
  BY DEF MessagesFormed, fixedVars, rowVars

LEMMA ClaimTyped == ASSUME RouteFormed, NEW l \in Lanes, ClaimFor(l) PROVE RouteFormed'
  <1>1. RunsFormed /\ MessagesFormed /\ HistoryFormed
    BY DEF RouteFormed
  <1>2. /\ phase' = [m \in Inbound |-> IF m \in Taken THEN "running" ELSE phase[m]]
        /\ UNCHANGED <<fixedVars, tries, backing, sideVars, login, markVars, mischief>>
        /\ Ready # {}
    BY DEF ClaimFor
  <1>3. /\ Others(l) /\ DOMAIN run'[l] = JobFields /\ run[l] = NoJob /\ l \in 1..setup.lanes
        /\ run'[l].batch = Taken /\ run'[l].at = "claimed" /\ run'[l].hint = "none"
        /\ run'[l].brain = "none" /\ run'[l].copy = "none" /\ run'[l].then = "idle"
    BY <1>1, ClaimingRun
  <1>4. Taken \in SUBSET Inbound /\ Taken # {} /\ \A m \in Taken : phase[m] = "queued"
    BY <1>1, <1>2, TakenMessages
  <1>5. setup' = setup /\ sort' = sort /\ tries' = tries /\ backing' = backing
    BY <1>2 DEF fixedVars
  <1> HIDE DEF Taken
  <1>6. MessagesFormed'
    <2>1. phase' \in [Inbound -> {"away", "queued", "running", "done", "failed"}]
      BY <1>1, <1>2 DEF MessagesFormed
    <2>2. \A m \in Inbound : phase'[m] = "failed" <=> phase[m] = "failed"
      BY <1>2, <1>4
    <2>3. QED
      BY <1>1, <1>5, <2>1, <2>2 DEF MessagesFormed
  <1>7. HistoryFormed'
    BY <1>1, <1>2 DEF HistoryFormed, sideVars, markVars
  <1>8. JobFormed(l)'
    <2>1. \A m \in Taken : phase'[m] = "running"
      BY <1>2, <1>4
    <2>2. QED
      BY <1>3, <1>4, <2>1 DEF JobFormed, JobStates, Hints, Brains, Marks
  <1>9. ASSUME NEW k \in Lanes \ {l}
        PROVE  JobFormed(k)' /\ run'[k] = run[k] /\ run[k].batch \cap Taken = {}
    <2>1. JobFormed(k) /\ run'[k] = run[k]
      BY <1>1, <1>3 DEF RunsFormed, Others
    <2>2. run[k].batch \cap Taken = {}
      BY <1>4, <2>1 DEF JobFormed
    <2>3. \A m \in run[k].batch : phase'[m] = "running"
      BY <1>2, <2>1 DEF JobFormed
    <2>4. QED
      BY <1>5, <2>1, <2>2, <2>3 DEF JobFormed
  <1>10. RunsFormed'
    <2>1. DOMAIN run' = Lanes /\ \A k \in Lanes : JobFormed(k)'
      BY <1>3, <1>8, <1>9 DEF Others
    <2>2. run'[1].batch \cap run'[2].batch = {}
      BY <1>3, <1>9 DEF Lanes
    <2>3. setup'.lanes = 1 => run'[2] = NoJob
      BY <1>1, <1>3, <1>5, <1>9 DEF RunsFormed, Lanes
    <2>4. QED
      BY <2>1, <2>2, <2>3 DEF RunsFormed
  <1>11. QED
    BY <1>6, <1>7, <1>10 DEF RouteFormed

LEMMA PinTyped == ASSUME RouteFormed, NEW l \in Lanes, Pin(l) PROVE RouteFormed'
  <1>1. RunsFormed /\ MessagesFormed /\ HistoryFormed
    BY DEF RouteFormed
  <1>2. /\ run[l].at = "claimed" /\ Content(l) = "pin" /\ GoesOn(l, "noticing")
        /\ sticky' = Lone(l) /\ obeyed' = obeyed \cup {Lone(l)}
        /\ UNCHANGED <<fixedVars, rowVars, verdicts, notices, spent, login, markVars, mischief>>
    BY DEF Pin
  <1>3. Lone(l) \in Inbound
    BY <1>1, <1>2, AloneInRun
  <1>4. Lone(l) \in 0..MaxInbound
    BY <1>3, RoutingAssumption DEF Inbound
  <1>5. HistoryFormed'
    BY <1>1, <1>2, <1>3, <1>4 DEF HistoryFormed, markVars
  <1>6. RunsFormed'
    BY <1>1, <1>2, GoingOn, StepInRun DEF rowVars, JobStates, Hints, Brains, Marks
  <1>7. QED
    BY <1>1, <1>2, <1>5, <1>6, MessagesRest DEF RouteFormed

LEMMA BeginTyped == ASSUME RouteFormed, NEW l \in Lanes, Begin(l) PROVE RouteFormed'
  <1>1. RunsFormed /\ MessagesFormed /\ HistoryFormed
    BY DEF RouteFormed
  <1> DEFINE h == Hinted(l)
  <1>2. /\ run[l].at = "claimed" /\ Content(l) # "pin"
        /\ Goes(l, IF h = "none" THEN "asking" ELSE "route", h)
        /\ UNCHANGED <<fixedVars, rowVars, sideVars, login, markVars, mischief>>
    BY DEF Begin
  <1>3. h \in Hints /\ (h = "odd" => Content(l) = "odd")
    BY <1>1, HintsOfRuns
  <1>4. h = "odd" => \E m \in Inbound : run[l].batch = {m} /\ sort[m] = "odd"
    BY <1>1, <1>3, AloneInRun
  <1> HIDE DEF h
  <1>5. HistoryFormed'
    BY <1>1, <1>2 DEF HistoryFormed, sideVars, markVars
  <1>6. /\ Others(l) /\ DOMAIN run'[l] = JobFields /\ run'[l].batch = run[l].batch
        /\ run'[l].at \in {"asking", "route"} /\ run'[l].hint = h
        /\ run'[l].brain = run[l].brain /\ run'[l].copy = run[l].copy
        /\ run'[l].then = run[l].then
    BY <1>1, <1>2, Going
  <1>7. RunsFormed'
    BY <1>1, <1>2, <1>3, <1>4, <1>6, RunIsOfMessages, StepInRun DEF rowVars, JobStates
  <1>8. QED
    BY <1>1, <1>2, <1>5, <1>7, MessagesRest DEF RouteFormed

\* The hint that a run goes on with.
LEMMA GoesTyped ==
    ASSUME RouteFormed, NEW l \in Lanes, NEW a \in {"route", "dropping"}, NEW h \in Hints,
           Goes(l, a, h), h = "odd" => run[l].hint = "odd", run[l].at # "idle",
           UNCHANGED <<fixedVars, rowVars>>
    PROVE  RunsFormed' /\ MessagesFormed'
  <1>1. RunsFormed /\ MessagesFormed
    BY DEF RouteFormed
  <1>2. /\ Others(l) /\ DOMAIN run'[l] = JobFields /\ run'[l].batch = run[l].batch
        /\ run'[l].at = a /\ run'[l].hint = h
        /\ run'[l].brain = run[l].brain /\ run'[l].copy = run[l].copy
        /\ run'[l].then = run[l].then
    BY <1>1, Going
  <1>3. RunsFormed'
    BY <1>1, <1>2, RunIsOfMessages, StepInRun DEF rowVars, JobStates
  <1>4. QED
    BY <1>1, <1>3, MessagesRest

LEMMA HintingTyped ==
    ASSUME RouteFormed, NEW l \in Lanes, Classify(l) \/ ClassifyFails(l) \/ FindExpired(l)
    PROVE  RouteFormed'
  <1>1. RunsFormed /\ HistoryFormed
    BY DEF RouteFormed
  <1>2. CASE Classify(l)
    <2>1. PICK v \in {"work", "unsure", "unsafe"} :
            Goes(l, "route", v) /\ verdicts' = [verdicts EXCEPT ![run[l].batch] = v]
      BY <1>2 DEF Classify
    <2>2. run[l].at = "asking"
          /\ UNCHANGED <<fixedVars, rowVars, sticky, notices, obeyed, spent, login, markVars,
                         mischief>>
      BY <1>2 DEF Classify
    <2>3. HistoryFormed'
      BY <1>1, <2>1, <2>2 DEF HistoryFormed, markVars, Verdicts
    <2>4. v \in Hints /\ v # "odd"
      BY DEF Hints
    <2>5. QED
      BY <2>1, <2>2, <2>3, <2>4, GoesTyped DEF RouteFormed
  <1>3. CASE ClassifyFails(l)
    <2>1. /\ run[l].at = "asking" /\ Goes(l, "route", "none") /\ mischief < MaxMischief
          /\ mischief' = mischief + 1
          /\ UNCHANGED <<fixedVars, rowVars, sideVars, login, markVars>>
      BY <1>3 DEF ClassifyFails, Mischief
    <2>2. HistoryFormed'
      BY <1>1, <2>1, RoutingAssumption DEF HistoryFormed, markVars, sideVars
    <2>3. "none" \in Hints
      BY DEF Hints
    <2>4. QED
      BY <2>1, <2>2, <2>3, GoesTyped DEF RouteFormed
  <1>4. CASE FindExpired(l)
    <2>1. /\ run[l].at = "route" /\ Goes(l, "dropping", run[l].hint)
          /\ UNCHANGED <<fixedVars, rowVars, sideVars, login, markVars, mischief>>
      BY <1>4 DEF FindExpired
    <2>2. HistoryFormed'
      BY <1>1, <2>1 DEF HistoryFormed, markVars, sideVars
    <2>3. run[l].hint \in Hints
      BY <1>1, RunIsOfMessages
    <2>4. QED
      BY <2>1, <2>2, <2>3, GoesTyped DEF RouteFormed
  <1>5. QED
    BY <1>2, <1>3, <1>4

LEMMA GoesOnTyped ==
    ASSUME RouteFormed, NEW l \in Lanes, NEW a \in {"noticing", "finishing"}, GoesOn(l, a),
           run[l].at # "idle", UNCHANGED <<fixedVars, rowVars>>
    PROVE  RunsFormed' /\ MessagesFormed'
  <1>1. RunsFormed /\ MessagesFormed
    BY DEF RouteFormed
  <1>2. RunsFormed'
    BY <1>1, GoingOn, StepInRun DEF rowVars, JobStates, Hints, Brains, Marks
  <1>3. QED
    BY <1>1, <1>2, MessagesRest

LEMMA RejectTyped == ASSUME RouteFormed, NEW l \in Lanes, Reject(l) PROVE RouteFormed'
  <1>1. /\ run[l].at = "route" /\ GoesOn(l, "noticing")
        /\ UNCHANGED <<fixedVars, rowVars, sideVars, login, markVars, mischief>>
    BY DEF Reject
  <1>2. HistoryFormed'
    BY <1>1 DEF RouteFormed, HistoryFormed, markVars, sideVars
  <1>3. QED
    BY <1>1, <1>2, GoesOnTyped DEF RouteFormed

LEMMA NotifyTyped == ASSUME RouteFormed, NEW l \in Lanes, Notify(l) PROVE RouteFormed'
  <1>1. /\ run[l].at = "noticing" /\ GoesOn(l, "finishing")
        /\ UNCHANGED <<fixedVars, rowVars, sticky, verdicts, obeyed, spent, login, markVars>>
        /\ \/ /\ notices' = [m \in Inbound |->
                               IF m \in run[l].batch THEN notices[m] + 1 ELSE notices[m]]
              /\ mischief' = mischief
           \/ mischief < MaxMischief /\ mischief' = mischief + 1 /\ notices' = notices
    BY DEF Notify, Mischief
  <1>2. mischief' \in 0..MaxMischief /\ notices' \in [Inbound -> Nat]
    BY <1>1, RoutingAssumption DEF RouteFormed, HistoryFormed
  <1>3. HistoryFormed'
    BY <1>1, <1>2 DEF RouteFormed, HistoryFormed, markVars
  <1>4. QED
    BY <1>1, <1>3, GoesOnTyped DEF RouteFormed

LEMMA RouteTyped == ASSUME RouteFormed, NEW l \in Lanes, Route(l) PROVE RouteFormed'
  <1>1. RunsFormed /\ MessagesFormed /\ HistoryFormed
    BY DEF RouteFormed
  <1>2. run[l].at = "route"
        /\ UNCHANGED <<fixedVars, rowVars, sideVars, login, markVars, mischief>>
    BY DEF Route
  <1>3. HistoryFormed'
    BY <1>1, <1>2 DEF HistoryFormed, markVars, sideVars
  <1>4. SeenMarks(l, Selected(run[l].hint)).brain \in Brains
    BY <1>1, RunIsOfMessages, ChoiceOfBrain
  <1>5. RunsFormed'
    BY <1>1, <1>2, <1>4, RoutedRun, RunIsOfMessages, StepInRun DEF rowVars, JobStates
  <1>6. QED
    BY <1>1, <1>2, <1>3, <1>5, MessagesRest DEF RouteFormed

LEMMA RaisesTyped == ASSUME RouteFormed, NEW l \in Lanes, Raises(l) PROVE RouteFormed'
  <1>1. RunsFormed /\ MessagesFormed /\ HistoryFormed
    BY DEF RouteFormed
  <1>2. /\ run[l].at # "idle" /\ Charge(run[l].batch) /\ Ends(l)
        /\ backing' = backing \cup {m \in run[l].batch : tries[m] < MaxTries}
        /\ UNCHANGED <<fixedVars, sideVars, login, markVars>>
    BY DEF Raises
  <1>3. mischief' \in 0..MaxMischief
    BY <1>1, RoutingAssumption DEF Raises, Mischief, HistoryFormed
  <1>4. HistoryFormed'
    BY <1>1, <1>2, <1>3 DEF HistoryFormed, markVars, sideVars
  <1>5. run[l].batch \in SUBSET Inbound /\ \A m \in run[l].batch : phase[m] = "running"
    BY <1>1, RunIsOfMessages
  <1>6. backing' \subseteq Inbound
    BY <1>1, <1>2, <1>5 DEF MessagesFormed
  <1>7. MessagesFormed' /\ \A m \in Inbound \ run[l].batch : phase'[m] = phase[m]
    BY <1>1, <1>2, <1>5, <1>6, ChargedMessages
  <1>8. RunsFormed'
    BY <1>1, <1>2, <1>7, StepOut
  <1>9. QED
    BY <1>4, <1>7, <1>8 DEF RouteFormed

LEMMA RetryTyped == ASSUME RouteFormed, NEW l \in Lanes, Retry(l) PROVE RouteFormed'
  <1>1. RunsFormed /\ MessagesFormed /\ HistoryFormed
    BY DEF RouteFormed
  <1>2. /\ run[l].at = "retrying" /\ Charge({Min(run[l].batch)}) /\ Ends(l)
        /\ UNCHANGED <<fixedVars, backing, sideVars, login, markVars, mischief>>
    BY DEF Retry
  <1>3. HistoryFormed'
    BY <1>1, <1>2 DEF HistoryFormed, markVars, sideVars
  <1>4. run[l].batch \in SUBSET Inbound /\ run[l].batch # {}
        /\ \A m \in run[l].batch : phase[m] = "running"
    BY <1>1, <1>2, RunIsOfMessages
  <1>5. Min(run[l].batch) \in run[l].batch
    BY <1>4, NumberOfMessages, MinOfSet
  <1>6. {Min(run[l].batch)} \in SUBSET Inbound /\ \A m \in {Min(run[l].batch)} : phase[m] = "running"
    BY <1>4, <1>5
  <1>7. backing' \subseteq Inbound
    BY <1>1, <1>2 DEF MessagesFormed
  <1>8. MessagesFormed' /\ \A m \in Inbound \ {Min(run[l].batch)} : phase'[m] = phase[m]
    BY <1>1, <1>2, <1>6, <1>7, ChargedMessages
  <1>9. \A m \in Inbound \ run[l].batch : phase'[m] = phase[m]
    BY <1>5, <1>8
  <1>10. RunsFormed'
    BY <1>1, <1>2, <1>9, StepOut
  <1>11. QED
    BY <1>3, <1>8, <1>10 DEF RouteFormed

LEMMA FinishTyped == ASSUME RouteFormed, NEW l \in Lanes, Finish(l) PROVE RouteFormed'
  <1>1. RunsFormed /\ MessagesFormed /\ HistoryFormed
    BY DEF RouteFormed
  <1>2. /\ run[l].at = "finishing" /\ Ends(l)
        /\ phase' = [m \in Inbound |-> IF m \in run[l].batch THEN "done" ELSE phase[m]]
        /\ verdicts' = [verdicts EXCEPT ![run[l].batch] = "none"]
        /\ spent' = [m \in Inbound |-> IF m \in run[l].batch THEN 0 ELSE spent[m]]
        /\ tries' = [m \in Inbound |-> IF m \in run[l].batch THEN 0 ELSE tries[m]]
        /\ UNCHANGED <<fixedVars, backing, sticky, notices, obeyed, login, markVars, mischief>>
    BY DEF Finish
  <1>3. HistoryFormed'
    <2>1. verdicts' \in [SUBSET Inbound -> Verdicts] /\ spent' \in [Inbound -> Nat]
      BY <1>1, <1>2 DEF HistoryFormed, Verdicts
    <2>2. QED
      BY <1>1, <1>2, <2>1 DEF HistoryFormed, markVars
  <1>4. MessagesFormed'
    <2>1. MaxTries \in Nat
      BY RoutingAssumption
    <2>2. phase' \in [Inbound -> {"away", "queued", "running", "done", "failed"}]
          /\ tries' \in [Inbound -> 0..(MaxTries + 1)]
      BY <1>1, <1>2, <2>1 DEF MessagesFormed
    <2>3. ASSUME NEW m \in Inbound PROVE phase'[m] = "failed" <=> tries'[m] = MaxTries + 1
      BY <1>1, <1>2, <2>1 DEF MessagesFormed
    <2>4. QED
      BY <1>1, <1>2, <2>2, <2>3 DEF MessagesFormed, fixedVars
  <1>5. RunsFormed'
    BY <1>1, <1>2, StepOut
  <1>6. QED
    BY <1>3, <1>4, <1>5 DEF RouteFormed

LEMMA SaveTyped == ASSUME RouteFormed, NEW l \in Lanes, Save(l) PROVE RouteFormed'
  <1>1. RunsFormed /\ MessagesFormed /\ HistoryFormed
    BY DEF RouteFormed
  <1>2. /\ run[l].at = "saving" /\ stored' = run[l].copy
        /\ UNCHANGED <<fixedVars, rowVars, sideVars, login, mark, clears, mischief>>
    BY DEF Save
  <1>3. run[l].copy \in Marks /\ run[l].then \in {"route", "finishing", "retrying"}
    BY <1>1, <1>2, RunIsOfMessages
  <1>4. HistoryFormed'
    BY <1>1, <1>2, <1>3 DEF HistoryFormed, sideVars
  <1>5. /\ Others(l) /\ DOMAIN run'[l] = JobFields
        /\ run'[l].batch = run[l].batch /\ run'[l].at = run[l].then
        /\ run'[l].hint = run[l].hint /\ run'[l].brain = run[l].brain
        /\ run'[l].copy = "none" /\ run'[l].then = "idle"
    BY <1>1, SavedRun
  <1>6. run[l].then \in JobStates \ {"idle"} /\ "none" \in Marks /\ run[l].then # "saving"
    BY <1>3 DEF JobStates, Marks
  <1>7. RunsFormed'
    BY <1>1, <1>2, <1>5, <1>6, RunIsOfMessages, StepInRun DEF rowVars
  <1>8. QED
    BY <1>1, <1>2, <1>4, <1>7, MessagesRest DEF RouteFormed

LEMMA StoresTyped ==
    ASSUME RouteFormed, NEW l \in Lanes, NEW v \in Marks,
           NEW next \in {"route", "finishing", "retrying"}, NEW h \in Hints,
           Stores(l, v, next, h), h = "odd" => run[l].hint = "odd", run[l].at # "idle",
           UNCHANGED <<fixedVars, rowVars>>
    PROVE  RunsFormed' /\ MessagesFormed'
  <1>1. RunsFormed /\ MessagesFormed
    BY DEF RouteFormed
  <1>2. RunsFormed'
    BY <1>1, Storing, RunIsOfMessages, StepInRun DEF rowVars, JobStates, Brains
  <1>3. QED
    BY <1>1, <1>2, MessagesRest

LEMMA DropTyped == ASSUME RouteFormed, NEW l \in Lanes, DropMark(l) PROVE RouteFormed'
  <1>1. RunsFormed /\ MessagesFormed /\ HistoryFormed
    BY DEF RouteFormed
  <1> DEFINE h == IF run[l].hint = "work" THEN "primary" ELSE run[l].hint
  <1>2. /\ run[l].at = "dropping" /\ Stores(l, "none", "route", h)
        /\ UNCHANGED <<fixedVars, rowVars, sideVars, login, clears, mischief>>
    BY DEF DropMark
  <1>3. h \in Hints /\ (h = "odd" => run[l].hint = "odd") /\ "none" \in Marks
    BY <1>1, RunIsOfMessages DEF Hints, Marks
  <1> HIDE DEF h
  <1>4. mark' = "none" /\ stored' = stored
    BY <1>2 DEF Stores
  <1>5. HistoryFormed'
    BY <1>1, <1>2, <1>3, <1>4 DEF HistoryFormed, sideVars
  <1>6. QED
    BY <1>2, <1>3, <1>5, StoresTyped DEF RouteFormed

LEMMA SucceedsTyped == ASSUME RouteFormed, NEW l \in Lanes, Succeeds(l) PROVE RouteFormed'
  <1>1. RunsFormed /\ MessagesFormed /\ HistoryFormed
    BY DEF RouteFormed
  <1>2. run[l].at = "running"
        /\ UNCHANGED <<fixedVars, rowVars, sideVars, login, mischief>>
    BY DEF Succeeds
  <1>3. CASE Clears(l)
    <2>1. Stores(l, "none", "finishing", "none") /\ clears' \in {clears, clears + 1}
      BY <1>3 DEF Succeeds
    <2>2. mark' = "none" /\ stored' = stored /\ "none" \in Marks /\ "none" \in Hints
      BY <2>1 DEF Stores, Marks, Hints
    <2>3. HistoryFormed'
      BY <1>1, <1>2, <2>1, <2>2 DEF HistoryFormed, sideVars
    <2>4. QED
      BY <1>2, <2>1, <2>2, <2>3, StoresTyped DEF RouteFormed
  <1>4. CASE ~Clears(l)
    <2>1. GoesOn(l, "finishing") /\ UNCHANGED markVars
      BY <1>4 DEF Succeeds
    <2>2. HistoryFormed'
      BY <1>1, <1>2, <2>1 DEF HistoryFormed, sideVars, markVars
    <2>3. QED
      BY <1>2, <2>1, <2>2, GoesOnTyped DEF RouteFormed
  <1>5. QED
    BY <1>3, <1>4

LEMMA RefusedTyped == ASSUME RouteFormed, NEW l \in Lanes, LoginRefused(l) PROVE RouteFormed'
  <1>1. RunsFormed /\ MessagesFormed /\ HistoryFormed
    BY DEF RouteFormed
  <1>2. /\ run[l].at = "running" /\ Stores(l, "fresh", "retrying", "none")
        /\ spent' = [m \in Inbound |->
                   IF m \in run[l].batch /\ run[l].hint \in {"work", "primary"} /\ run[l].why = "triage"
                   THEN spent[m] + 1 ELSE spent[m]]
        /\ UNCHANGED <<fixedVars, rowVars, sticky, verdicts, notices, obeyed, login, clears,
                       mischief>>
    BY DEF LoginRefused
  <1>3. mark' = "fresh" /\ stored' = stored /\ "fresh" \in Marks /\ "none" \in Hints
    BY <1>2 DEF Stores, Marks, Hints
  <1>4. spent' \in [Inbound -> Nat]
    BY <1>1, <1>2 DEF HistoryFormed
  <1>5. HistoryFormed'
    BY <1>1, <1>2, <1>3, <1>4 DEF HistoryFormed
  <1>6. QED
    BY <1>2, <1>3, <1>5, StoresTyped DEF RouteFormed

\* Steps beside the runs.
LEMMA BesideTyped ==
    ASSUME RouteFormed,
           \/ \E m \in Inbound : Arrive(m) \/ BackoffOver(m) \/ Lapse(m)
           \/ SlotQueued \/ Reboot \/ MarkAges \/ VerdictsLapse \/ StickyLapses \/ LoginChanges
    PROVE  RouteFormed'
  <1>1. RunsFormed /\ MessagesFormed /\ HistoryFormed
    BY DEF RouteFormed
  <1>2. ASSUME run' = run, UNCHANGED fixedVars,
               \A m \in Inbound : phase[m] = "running" =>
                  phase'[m] = "running" \/ \A l \in Lanes : m \notin run[l].batch
        PROVE  RunsFormed'
    <2>1. setup' = setup /\ sort' = sort
      BY <1>2 DEF fixedVars
    <2>2. ASSUME NEW l \in Lanes PROVE JobFormed(l)'
      <3>1. JobFormed(l)
        BY <1>1 DEF RunsFormed
      <3>2. \A m \in run[l].batch : phase'[m] = "running"
        BY <1>2, <3>1 DEF JobFormed
      <3>3. QED
        BY <1>2, <2>1, <3>1, <3>2 DEF JobFormed
    <2>3. QED
      BY <1>1, <1>2, <2>1, <2>2 DEF RunsFormed
  <1>3. ASSUME NEW m \in Inbound, Arrive(m) PROVE RouteFormed'
    <2>1. /\ phase[m] = "away" /\ phase' = [phase EXCEPT ![m] = "queued"]
          /\ UNCHANGED <<fixedVars, tries, backing, sideVars, login, markVars, run, mischief>>
      BY <1>3 DEF Arrive
    <2>2. MessagesFormed'
      BY <1>1, <2>1 DEF MessagesFormed, fixedVars
    <2>3. HistoryFormed'
      BY <1>1, <2>1 DEF HistoryFormed, sideVars, markVars
    <2>4. \A n \in Inbound : phase[n] = "running" => phase'[n] = "running"
      BY <1>1, <2>1 DEF MessagesFormed
    <2>5. QED
      BY <1>2, <2>1, <2>2, <2>3, <2>4 DEF RouteFormed
  <1>4. ASSUME NEW m \in Inbound, BackoffOver(m) PROVE RouteFormed'
    <2>1. /\ backing' = backing \ {m}
          /\ UNCHANGED <<fixedVars, phase, tries, sideVars, login, markVars, run, mischief>>
      BY <1>4 DEF BackoffOver
    <2>2. MessagesFormed' /\ HistoryFormed'
      BY <1>1, <2>1 DEF MessagesFormed, fixedVars, HistoryFormed, sideVars, markVars
    <2>3. QED
      BY <1>2, <2>1, <2>2 DEF RouteFormed
  <1>5. ASSUME NEW m \in Inbound, Lapse(m) PROVE RouteFormed'
    <2>1. /\ phase[m] = "running" /\ (\A l \in Lanes : m \notin run[l].batch) /\ Charge({m})
          /\ UNCHANGED <<fixedVars, backing, sideVars, login, markVars, run, mischief>>
      BY <1>5 DEF Lapse
    <2>2. {m} \in SUBSET Inbound /\ (\A n \in {m} : phase[n] = "running") /\ backing' \subseteq Inbound
      BY <1>1, <2>1 DEF MessagesFormed
    <2>3. MessagesFormed' /\ \A n \in Inbound \ {m} : phase'[n] = phase[n]
      BY <1>1, <2>1, <2>2, ChargedMessages
    <2>4. HistoryFormed'
      BY <1>1, <2>1 DEF HistoryFormed, sideVars, markVars
    <2>5. QED
      BY <1>2, <2>1, <2>3, <2>4 DEF RouteFormed
  <1>6. CASE SlotQueued
    <2>1. /\ backing' = backing \cup {Min(Ready)} /\ Ready # {}
          /\ UNCHANGED <<fixedVars, phase, tries, sideVars, login, markVars, run, mischief>>
      BY <1>6 DEF SlotQueued
    <2>2. Min(Ready) \in Inbound
      <3>1. Ready \in SUBSET Nat /\ Ready \subseteq Inbound
        BY NumberOfMessages DEF Ready
      <3>2. QED
        BY <2>1, <3>1, MinOfSet
    <2>3. MessagesFormed' /\ HistoryFormed'
      BY <1>1, <2>1, <2>2 DEF MessagesFormed, fixedVars, HistoryFormed, sideVars, markVars
    <2>4. QED
      BY <1>2, <2>1, <2>3 DEF RouteFormed
  <1>7. CASE Reboot
    <2>1. /\ mischief < MaxMischief /\ mischief' = mischief + 1
          /\ run' = [l \in Lanes |-> NoJob]
          /\ mark' = stored /\ verdicts' = [b \in SUBSET Inbound |-> "none"]
          /\ UNCHANGED <<fixedVars, rowVars, sticky, notices, obeyed, spent, login, stored, clears>>
      BY <1>7 DEF Reboot, Mischief
    <2>2. MessagesFormed'
      BY <1>1, <2>1, MessagesRest
    <2>3. HistoryFormed'
      <3>1. mischief' \in 0..MaxMischief
        BY <1>1, <2>1, RoutingAssumption DEF HistoryFormed
      <3>2. verdicts' \in [SUBSET Inbound -> Verdicts]
        BY <2>1 DEF Verdicts
      <3>3. QED
        BY <1>1, <2>1, <3>1, <3>2 DEF HistoryFormed
    <2>4. \A l \in Lanes : run'[l] = NoJob
      BY <2>1
    <2>5. \A l \in Lanes : JobFormed(l)'
      BY <2>4 DEF JobFormed, NoJob, JobFields, JobStates, Hints, Brains, Marks
    <2>6. RunsFormed'
      BY <2>1, <2>4, <2>5 DEF RunsFormed, NoJob, Lanes
    <2>7. QED
      BY <2>2, <2>3, <2>6 DEF RouteFormed
  <1>8. CASE MarkAges
    <2>1. /\ mischief < MaxMischief /\ mischief' = mischief + 1
          /\ mark' = "old" /\ stored' = IF stored = "fresh" THEN "old" ELSE stored
          /\ UNCHANGED <<fixedVars, rowVars, sideVars, login, run, clears>>
      BY <1>8 DEF MarkAges, Mischief
    <2>2. MessagesFormed'
      BY <1>1, <2>1, MessagesRest
    <2>3. HistoryFormed'
      <3>1. mischief' \in 0..MaxMischief
        BY <1>1, <2>1, RoutingAssumption DEF HistoryFormed
      <3>2. mark' \in Marks /\ stored' \in Marks
        BY <1>1, <2>1 DEF HistoryFormed, Marks
      <3>3. QED
        BY <1>1, <2>1, <3>1, <3>2 DEF HistoryFormed, sideVars
    <2>4. QED
      BY <1>2, <2>1, <2>2, <2>3 DEF RouteFormed, rowVars
  <1>9. CASE VerdictsLapse
    <2>1. /\ verdicts' = [b \in SUBSET Inbound |-> "none"]
          /\ UNCHANGED <<fixedVars, rowVars, sticky, notices, obeyed, spent, login, markVars, run,
                         mischief>>
      BY <1>9 DEF VerdictsLapse
    <2>2. HistoryFormed'
      BY <1>1, <2>1 DEF HistoryFormed, markVars, Verdicts
    <2>3. QED
      BY <1>1, <1>2, <2>1, <2>2, MessagesRest DEF RouteFormed, rowVars
  <1>10. CASE StickyLapses
    <2>1. /\ sticky' = 0
          /\ UNCHANGED <<fixedVars, rowVars, verdicts, notices, obeyed, spent, login, markVars, run,
                         mischief>>
      BY <1>10 DEF StickyLapses
    <2>2. HistoryFormed'
      BY <1>1, <2>1, RoutingAssumption DEF HistoryFormed, markVars
    <2>3. QED
      BY <1>1, <1>2, <2>1, <2>2, MessagesRest DEF RouteFormed, rowVars
  <1>11. CASE LoginChanges
    <2>1. /\ login' = IF login = "good" THEN "gone" ELSE "renewed"
          /\ UNCHANGED <<fixedVars, rowVars, sideVars, markVars, run, mischief>>
      BY <1>11 DEF LoginChanges
    <2>2. HistoryFormed'
      BY <1>1, <2>1 DEF HistoryFormed, sideVars, markVars
    <2>3. QED
      BY <1>1, <1>2, <2>1, <2>2, MessagesRest DEF RouteFormed, rowVars
  <1>12. QED
    BY <1>3, <1>4, <1>5, <1>6, <1>7, <1>8, <1>9, <1>10, <1>11

LEMMA RouteTypes == RouteFormed /\ [RoutingNext]_routingVars => RouteFormed'
  <1> SUFFICES ASSUME RouteFormed, [RoutingNext]_routingVars PROVE RouteFormed'
    OBVIOUS
  <1>1. CASE UNCHANGED routingVars
    BY <1>1 DEF routingVars, RouteFormed, RunsFormed, JobFormed, MessagesFormed, HistoryFormed
  <1>2. ASSUME NEW l \in Lanes, LaneStep(l) PROVE RouteFormed'
    BY <1>2, ClaimTyped, PinTyped, BeginTyped, HintingTyped, RejectTyped, RouteTyped,
       RaisesTyped, SaveTyped, DropTyped, SucceedsTyped, RefusedTyped, RetryTyped, NotifyTyped,
       FinishTyped DEF LaneStep
  <1>3. QED
    BY <1>1, <1>2, BesideTyped DEF RoutingNext

-----------------------------------------------------------------------------
(* The file of marks, and the brain for what is unsafe. *)

\* Steps of a run that leave the mark and its file.
LEMMA MarkRests ==
    ASSUME RunsFormed, MarkHeld, NEW l \in Lanes, Others(l), setup' = setup,
           UNCHANGED <<mark, stored>>, run[l].at # "saving", run'[l].at # "saving"
    PROVE  MarkHeld'
  <1> SUFFICES ASSUME setup.lanes = 1
               PROVE  /\ run'[1].at = "saving" => run'[1].copy = mark'
                      /\ run'[1].at # "saving" => stored' = mark'
    BY DEF MarkHeld
  <1>1. CASE l = 1
    BY <1>1 DEF MarkHeld
  <1>2. CASE l # 1
    BY <1>2 DEF MarkHeld, Others, Lanes
  <1>3. QED
    BY <1>1, <1>2

LEMMA ContainedRests ==
    ASSUME UnsafeContained, NEW l \in Lanes, Others(l), setup' = setup,
           run'[l].at = "running" => run'[l] = run[l]
    PROVE  UnsafeContained'
  <1> SUFFICES ASSUME NEW k \in Lanes, run'[k].at = "running", run'[k].hint = "unsafe"
               PROVE  setup'.unsafe = "contain"
                      /\ (run'[k].brain = "contained" \/ run'[k].why = "vision")
    BY DEF UnsafeContained
  <1>1. run'[k] = run[k]
    BY DEF Others
  <1>2. QED
    BY <1>1 DEF UnsafeContained

LEMMA SerialRun ==
    ASSUME RunsFormed, NEW l \in Lanes, run[l].at # "idle", setup.lanes = 1
    PROVE  l = 1
  BY DEF RunsFormed, Lanes, NoJob

LEMMA MarksStay ==
    ASSUME RouteFormed, MarkHeld, UnsafeContained, [RoutingNext]_routingVars
    PROVE  MarkHeld' /\ UnsafeContained'
  <1>1. RunsFormed /\ MessagesFormed /\ HistoryFormed
    BY DEF RouteFormed
  <1>2. ASSUME NEW l \in Lanes, ClaimFor(l) PROVE MarkHeld' /\ UnsafeContained'
    <2>1. /\ Others(l) /\ run[l] = NoJob /\ run'[l].at = "claimed"
          /\ setup' = setup /\ mark' = mark /\ stored' = stored
      BY <1>1, <1>2, ClaimingRun DEF ClaimFor, fixedVars, markVars
    <2>2. run[l].at = "idle"
      BY <2>1 DEF NoJob
    <2>3. QED
      BY <1>1, <2>1, <2>2, MarkRests, ContainedRests
  <1>3. ASSUME NEW l \in Lanes, NEW a \in {"noticing", "finishing"}, GoesOn(l, a),
               run[l].at # "saving", setup' = setup, UNCHANGED <<mark, stored>>
        PROVE  MarkHeld' /\ UnsafeContained'
    BY <1>1, <1>3, GoingOn, MarkRests, ContainedRests
  <1>4. ASSUME NEW l \in Lanes, NEW a \in {"asking", "route", "dropping"}, NEW h, Goes(l, a, h),
               run[l].at # "saving", setup' = setup, UNCHANGED <<mark, stored>>
        PROVE  MarkHeld' /\ UnsafeContained'
    BY <1>1, <1>4, Going, MarkRests, ContainedRests
  <1>5. ASSUME NEW l \in Lanes, Ends(l), run[l].at # "saving", setup' = setup,
               UNCHANGED <<mark, stored>>
        PROVE  MarkHeld' /\ UnsafeContained'
    BY <1>1, <1>5, EndingRun, MarkRests, ContainedRests
  <1>6. ASSUME NEW l \in Lanes, NEW v, NEW next, NEW h, Stores(l, v, next, h),
               run[l].at # "idle", setup' = setup
        PROVE  MarkHeld' /\ UnsafeContained'
    <2>1. /\ Others(l) /\ mark' = v /\ run'[l].at = "saving" /\ run'[l].copy = v
      BY <1>1, <1>6, Storing
    <2>2. MarkHeld'
      BY <1>1, <1>6, <2>1, SerialRun DEF MarkHeld
    <2>3. QED
      BY <1>6, <2>1, <2>2, ContainedRests
  <1>7. ASSUME NEW l \in Lanes, Save(l) PROVE MarkHeld' /\ UnsafeContained'
    <2>1. /\ Others(l) /\ run'[l].at = run[l].then /\ run[l].at = "saving"
          /\ stored' = run[l].copy /\ mark' = mark /\ setup' = setup
      BY <1>1, <1>7, SavedRun DEF Save, fixedVars
    <2>2. run[l].then \in {"route", "finishing", "retrying"}
      BY <1>1, <2>1, RunIsOfMessages
    <2>3. MarkHeld'
      BY <1>1, <2>1, <2>2, SerialRun DEF MarkHeld
    <2>4. QED
      BY <2>1, <2>2, <2>3, ContainedRests
  <1>8. ASSUME NEW l \in Lanes, Route(l) PROVE MarkHeld' /\ UnsafeContained'
    <2>1. /\ Others(l) /\ run'[l].at = "running" /\ run[l].at = "route"
          /\ run'[l].hint = run[l].hint
          /\ run'[l].brain = SeenMarks(l, Selected(run[l].hint)).brain
          /\ run'[l].why = SeenMarks(l, Selected(run[l].hint)).why
          /\ mark' = mark /\ stored' = stored /\ setup' = setup /\ ~Rejects(run[l].hint)
      BY <1>1, <1>8, RoutedRun DEF Route, fixedVars, markVars
    <2>2. MarkHeld'
      BY <1>1, <2>1, MarkRests
    <2>3. ASSUME run[l].hint = "unsafe"
          PROVE  setup.unsafe = "contain"
                 /\ (run'[l].brain = "contained" \/ run'[l].why = "vision")
      <3>1. setup.unsafe = "contain"
        BY <1>1, <2>1, <2>3 DEF Rejects, MessagesFormed
      <3>2. Selected("unsafe").brain = "contained"
        BY DEF Selected, Triaged
      <3>3. QED
        BY <2>1, <2>3, <3>1, <3>2 DEF SeenMarks
    <2>4. UnsafeContained'
      BY <2>1, <2>3 DEF UnsafeContained, Others
    <2>5. QED
      BY <2>2, <2>4
  <1>9. ASSUME NEW l \in Lanes, LaneStep(l) PROVE MarkHeld' /\ UnsafeContained'
    <2>1. CASE Pin(l) \/ Reject(l) \/ Notify(l)
      BY <1>3, <2>1 DEF Pin, Reject, Notify, fixedVars, markVars
    <2>2. CASE Begin(l) \/ Classify(l) \/ ClassifyFails(l) \/ FindExpired(l)
      BY <1>4, <2>2 DEF Begin, Classify, ClassifyFails, FindExpired, fixedVars, markVars
    <2>3. CASE Raises(l) \/ Retry(l) \/ Finish(l)
      BY <1>5, <2>3 DEF Raises, Retry, Finish, fixedVars, markVars
    <2>4. CASE DropMark(l) \/ LoginRefused(l)
      BY <1>6, <2>4 DEF DropMark, LoginRefused, fixedVars
    <2>5. CASE Succeeds(l)
      BY <1>3, <1>6, <2>5 DEF Succeeds, fixedVars, markVars
    <2>6. QED
      BY <1>2, <1>7, <1>8, <1>9, <2>1, <2>2, <2>3, <2>4, <2>5 DEF LaneStep
  <1>10. CASE Reboot
    <2>1. setup' = setup /\ mark' = stored /\ stored' = stored /\ \A l \in Lanes : run'[l] = NoJob
      BY <1>10 DEF Reboot, fixedVars
    <2>2. QED
      BY <2>1 DEF MarkHeld, UnsafeContained, NoJob, Lanes
  <1>11. CASE MarkAges
    <2>1. /\ setup' = setup /\ mark = "fresh" /\ (\A l \in Lanes : run[l].at # "saving")
          /\ mark' = "old" /\ stored' = (IF stored = "fresh" THEN "old" ELSE stored) /\ run' = run
      BY <1>11 DEF MarkAges, fixedVars
    <2>2. QED
      BY <2>1 DEF MarkHeld, UnsafeContained, Lanes
  <1>12. ASSUME UNCHANGED <<setup, mark, stored, run>> PROVE MarkHeld' /\ UnsafeContained'
    BY <1>12 DEF MarkHeld, UnsafeContained
  <1>13. CASE UNCHANGED routingVars
    BY <1>12, <1>13 DEF routingVars
  <1>14. CASE \/ \E m \in Inbound : Arrive(m) \/ BackoffOver(m) \/ Lapse(m)
              \/ SlotQueued \/ VerdictsLapse \/ StickyLapses \/ LoginChanges
    BY <1>12, <1>14 DEF Arrive, BackoffOver, Lapse, SlotQueued, VerdictsLapse, StickyLapses,
       LoginChanges, fixedVars, markVars
  <1>15. QED
    BY <1>9, <1>10, <1>11, <1>13, <1>14 DEF RoutingNext

-----------------------------------------------------------------------------
(* What a login that ends costs. *)

Diverted == BothDrop /\ \A m \in Inbound : Spared(m)

LEMMA RiskCounts ==
    ASSUME RouteFormed, NEW m \in Inbound
    PROVE  /\ AtRisk(m) \in 0..1 /\ Dropped \in 0..1
           /\ spent[m] \in Nat /\ clears \in Nat /\ mischief \in Nat
  <1>1. AtRisk(m) \in 0..1 /\ Dropped \in 0..1
    BY DEF AtRisk, Dropped
  <1>2. QED
    BY <1>1, RoutingAssumption DEF RouteFormed, HistoryFormed

LEMMA RiskCountsNext ==
    ASSUME RouteFormed', NEW m \in Inbound
    PROVE  /\ AtRisk(m)' \in 0..1 /\ Dropped' \in 0..1
           /\ spent'[m] \in Nat /\ clears' \in Nat /\ mischief' \in Nat
  <1>1. AtRisk(m)' \in 0..1 /\ Dropped' \in 0..1
    BY DEF AtRisk, Dropped
  <1>2. QED
    BY <1>1, RoutingAssumption DEF RouteFormed, HistoryFormed

LEMMA SparedRests ==
    ASSUME RouteFormed, RouteFormed', NEW m \in Inbound, Spared(m),
           spent'[m] <= spent[m], clears' >= clears, mischief' >= mischief,
           AtRisk(m)' <= AtRisk(m), Dropped' <= Dropped
    PROVE  Spared(m)'
  BY RiskCounts, RiskCountsNext DEF Spared

\* A step of a run that leaves the mark.
LEMMA LaneSpares ==
    ASSUME RouteFormed, RouteFormed', Diverted, NEW l \in Lanes, Others(l), mark' = mark,
           run'[l].at = "dropping" => mark = "old",
           \/ run'[l].hint # "primary" /\ run'[l].at # "running"
           \/ run'[l].hint = run[l].hint /\ run'[l].batch = run[l].batch /\ run'[l].at # "running"
           \/ /\ run'[l].hint = run[l].hint /\ run'[l].batch = run[l].batch
              /\ run'[l].hint = "work" /\ run'[l].brain = "claude" /\ run'[l].why = "triage" =>
                    mark # "fresh",
           \A m \in Inbound : spent'[m] <= spent[m],
           clears' = clears, mischief' >= mischief
    PROVE  Diverted'
  <1>1. BothDrop'
    BY DEF BothDrop
  <1>2. Dropped' <= Dropped
    BY DEF Dropped, Others
  <1>3. ASSUME NEW m \in Inbound PROVE AtRisk(m)' <= AtRisk(m)
    <2>1. mark = "fresh" /\ Exposed(m)' => Exposed(m)
      <3> SUFFICES ASSUME mark = "fresh", Exposed(m)' PROVE Exposed(m)
        OBVIOUS
      <3>1. PICK k \in Lanes :
              /\ m \in run'[k].batch
              /\ \/ run'[k].hint = "primary"
                 \/ /\ run'[k].at = "running" /\ run'[k].hint = "work"
                    /\ run'[k].brain = "claude" /\ run'[k].why = "triage"
        BY DEF Exposed
      <3>2. CASE k = l
        BY <3>1, <3>2 DEF Exposed
      <3>3. CASE k # l
        <4>1. run'[k] = run[k]
          BY <3>3 DEF Others
        <4>2. QED
          BY <3>1, <4>1 DEF Exposed
      <3>4. QED
        BY <3>2, <3>3
    <2>2. QED
      BY <2>1 DEF AtRisk
  <1>4. ASSUME NEW m \in Inbound PROVE Spared(m)'
    <2>1. clears' >= clears
      BY DEF RouteFormed, HistoryFormed
    <2>2. spent'[m] <= spent[m] /\ Spared(m)
      BY DEF Diverted
    <2>3. QED
      BY <1>2, <1>3, <2>1, <2>2, SparedRests
  <1>5. QED
    BY <1>1, <1>4 DEF Diverted

LEMMA RouteSpares ==
    ASSUME RouteFormed, RouteFormed', Diverted, NEW l \in Lanes, Route(l)
    PROVE  Diverted'
  <1>1. RunsFormed /\ spent' = spent /\ mark' = mark /\ clears' = clears /\ mischief' = mischief
    BY DEF Route, RouteFormed, sideVars, markVars
  <1>2. /\ Others(l) /\ run'[l].batch = run[l].batch /\ run'[l].at = "running"
        /\ run'[l].hint = run[l].hint
        /\ run'[l].brain = SeenMarks(l, Selected(run[l].hint)).brain
        /\ run'[l].why = SeenMarks(l, Selected(run[l].hint)).why
    BY <1>1, RoutedRun
  <1>3. ASSUME run[l].hint = "work", run'[l].brain = "claude", run'[l].why = "triage"
        PROVE  mark # "fresh"
    <2>1. CASE setup.pinned
      <3>1. Selected("work") = [brain |-> "claude", why |-> "default"]
        BY <2>1 DEF Selected
      <3>2. QED
        BY <1>2, <1>3, <3>1 DEF SeenMarks
    <2>2. CASE ~setup.pinned
      <3>1. Selected("work") = [brain |-> Triaged("work"), why |-> "triage"]
        BY <2>2 DEF Selected
      <3>2. SeenMarks(l, Selected("work")).why = "triage" =>
               SeenMarks(l, Selected("work")).brain = Triaged("work")
        BY <3>1 DEF SeenMarks
      <3>3. Triaged("work") = "claude"
        BY <1>2, <1>3, <3>2
      <3>4. QED
        BY <3>3 DEF Triaged
    <2>3. QED
      BY <2>1, <2>2
  <1>4. spent' = spent /\ \A m \in Inbound : spent'[m] <= spent[m]
    BY <1>1 DEF RouteFormed, HistoryFormed
  <1>5. mischief' >= mischief
    BY <1>1, RoutingAssumption DEF RouteFormed, HistoryFormed
  <1>6. run'[l].at # "dropping"
    BY <1>2
  <1>7. QED
    BY <1>1, <1>2, <1>3, <1>4, <1>5, <1>6, LaneSpares

\* What is dropped may be lost once more on that brain, and was to be already.
LEMMA DropSpares ==
    ASSUME RouteFormed, RouteFormed', Diverted, NEW l \in Lanes, DropMark(l)
    PROVE  Diverted'
  <1> DEFINE h == IF run[l].hint = "work" THEN "primary" ELSE run[l].hint
  <1>1. /\ RunsFormed /\ run[l].at = "dropping" /\ mark # "none" /\ Stores(l, "none", "route", h)
        /\ spent' = spent /\ clears' = clears /\ mischief' = mischief
    BY DEF DropMark, RouteFormed, sideVars
  <1>2. Others(l) /\ mark' = "none" /\ run'[l].at = "saving"
    BY <1>1, Storing
  <1>3. BothDrop'
    BY <1>2 DEF BothDrop
  <1>4. ASSUME NEW m \in Inbound PROVE Spared(m)'
    <2>1. Dropped = 1
      BY <1>1 DEF Dropped
    <2>2. mark \in {"fresh", "old"}
      BY <1>1 DEF RouteFormed, HistoryFormed, Marks
    <2>3. CASE mark = "fresh"
      <3>1. \A k \in Lanes : run'[k].at # "dropping"
        BY <1>1, <1>2, <2>3 DEF Diverted, BothDrop, Others, Lanes
      <3>2. Dropped' = 0
        BY <1>2, <3>1 DEF Dropped
      <3>3. Spared(m)
        BY DEF Diverted
      <3>4. QED
        BY <1>1, <2>1, <3>2, <3>3, RiskCounts, RiskCountsNext DEF Spared
    <2>4. CASE mark = "old"
      <3>1. AtRisk(m) = 1
        BY <2>4 DEF AtRisk
      <3>2. Spared(m)
        BY DEF Diverted
      <3>3. QED
        BY <1>1, <2>1, <3>1, <3>2, RiskCounts, RiskCountsNext DEF Spared
    <2>5. QED
      BY <2>2, <2>3, <2>4
  <1>5. QED
    BY <1>3, <1>4 DEF Diverted

LEMMA SuccessSpares ==
    ASSUME RouteFormed, RouteFormed', Diverted, NEW l \in Lanes, Succeeds(l)
    PROVE  Diverted'
  <1>1. /\ RunsFormed /\ run[l].at = "running" /\ spent' = spent /\ mischief' = mischief
    BY DEF Succeeds, RouteFormed, sideVars
  <1>2. mischief' >= mischief /\ \A m \in Inbound : spent'[m] <= spent[m]
    BY <1>1, RoutingAssumption DEF RouteFormed, HistoryFormed
  <1>3. CASE Clears(l)
    <2>1. Stores(l, "none", "finishing", "none") /\ clears' = clears + 1
      BY <1>3 DEF Succeeds, Clears
    <2>2. Others(l) /\ mark' = "none" /\ run'[l].at = "saving"
      BY <1>1, <2>1, Storing
    <2>3. BothDrop'
      BY <2>2 DEF BothDrop
    <2>4. Dropped' <= Dropped
      BY <2>2 DEF Dropped, Others
    <2>5. ASSUME NEW m \in Inbound PROVE Spared(m)'
      <3>1. Spared(m)
        BY DEF Diverted
      <3>2. QED
        BY <1>1, <2>1, <2>4, <3>1, RiskCounts, RiskCountsNext DEF Spared
    <2>6. QED
      BY <2>3, <2>5 DEF Diverted
  <1>4. CASE ~Clears(l)
    <2>1. GoesOn(l, "finishing") /\ mark' = mark /\ clears' = clears
      BY <1>4 DEF Succeeds, markVars
    <2>2. Others(l) /\ run'[l].at = "finishing" /\ run'[l].hint = "none"
      BY <1>1, <2>1, GoingOn
    <2>3. QED
      BY <1>2, <2>1, <2>2, LaneSpares
  <1>5. QED
    BY <1>3, <1>4

\* A run that is lost was exposed, and its messages are diverted from here on.
LEMMA RefusalSpares ==
    ASSUME RouteFormed, RouteFormed', Diverted, NEW l \in Lanes, LoginRefused(l)
    PROVE  Diverted'
  <1>1. /\ RunsFormed /\ run[l].at = "running" /\ run[l].brain = "claude"
        /\ Stores(l, "fresh", "retrying", "none") /\ clears' = clears /\ mischief' = mischief
        /\ spent' = [m \in Inbound |->
              IF m \in run[l].batch /\ run[l].hint \in {"work", "primary"} /\ run[l].why = "triage"
              THEN spent[m] + 1 ELSE spent[m]]
    BY DEF LoginRefused, RouteFormed
  <1>2. /\ Others(l) /\ mark' = "fresh" /\ run'[l].at = "saving" /\ run'[l].hint = "none"
        /\ run'[l].batch = run[l].batch
    BY <1>1, Storing
  <1>3. BothDrop'
    BY <1>2 DEF BothDrop
  <1>4. Dropped' <= Dropped
    BY <1>2 DEF Dropped, Others
  <1>5. ASSUME NEW m \in Inbound, NEW k \in Lanes, m \in run'[k].batch,
               \/ run'[k].hint = "primary"
               \/ /\ run'[k].at = "running" /\ run'[k].hint = "work"
                  /\ run'[k].brain = "claude" /\ run'[k].why = "triage"
        PROVE  k # l /\ m \in run[k].batch /\ run'[k] = run[k] /\ m \notin run[l].batch
    <2>1. k # l
      BY <1>2, <1>5
    <2>2. run'[k] = run[k]
      BY <1>2, <2>1 DEF Others
    <2>3. run[k].batch \cap run[l].batch = {}
      BY <1>1, <2>1 DEF RunsFormed, Lanes
    <2>4. QED
      BY <1>5, <2>1, <2>2, <2>3
  <1>6. ASSUME NEW m \in Inbound PROVE Spared(m)'
    <2>1. Spared(m)
      BY DEF Diverted
    <2>2. CASE m \in run[l].batch /\ run[l].hint \in {"work", "primary"} /\ run[l].why = "triage"
      <3>1. Exposed(m)
        BY <1>1, <2>2 DEF Exposed
      <3>2. AtRisk(m) = 1
        BY <3>1 DEF AtRisk
      <3>3. ~Exposed(m)'
        BY <1>5, <2>2 DEF Exposed
      <3>4. AtRisk(m)' = 0
        BY <1>2, <3>3 DEF AtRisk
      <3>5. spent'[m] = spent[m] + 1
        BY <1>1, <2>2
      <3>6. QED
        BY <1>1, <1>4, <2>1, <3>2, <3>4, <3>5, RiskCounts, RiskCountsNext DEF Spared
    <2>3. CASE ~(m \in run[l].batch /\ run[l].hint \in {"work", "primary"} /\ run[l].why = "triage")
      <3>1. spent'[m] = spent[m]
        BY <1>1, <2>3
      <3>2. Exposed(m)' => Exposed(m)
        BY <1>5 DEF Exposed
      <3>3. AtRisk(m)' <= AtRisk(m)
        BY <1>2, <3>2 DEF AtRisk
      <3>4. QED
        BY <1>1, <1>4, <2>1, <3>1, <3>3, RiskCounts, RiskCountsNext DEF Spared
    <2>4. QED
      BY <2>2, <2>3
  <1>7. QED
    BY <1>3, <1>6 DEF Diverted

LEMMA DivertedStays ==
    ASSUME RouteFormed, RouteFormed', Diverted, [RoutingNext]_routingVars
    PROVE  Diverted'
  <1>1. /\ RunsFormed /\ \A m \in Inbound : spent[m] \in Nat
        /\ mischief \in Nat /\ clears \in Nat
    BY RoutingAssumption DEF RouteFormed, HistoryFormed
  <1>2. ASSUME NEW l \in Lanes, NEW a \in {"noticing", "finishing"}, GoesOn(l, a),
               mark' = mark, clears' = clears, spent' = spent, mischief' >= mischief
        PROVE  Diverted'
    <2>1. Others(l) /\ run'[l].at = a /\ run'[l].hint = "none"
      BY <1>1, <1>2, GoingOn
    <2>2. \A m \in Inbound : spent'[m] <= spent[m]
      BY <1>1, <1>2
    <2>3. QED
      BY <1>2, <2>1, <2>2, LaneSpares
  <1>3. ASSUME NEW l \in Lanes, NEW a \in {"asking", "route", "dropping"}, NEW h, Goes(l, a, h),
               h # "primary", a = "dropping" => mark = "old",
               mark' = mark, clears' = clears, spent' = spent, mischief' >= mischief
        PROVE  Diverted'
    <2>1. Others(l) /\ run'[l].at = a /\ run'[l].hint = h
      BY <1>1, <1>3, Going
    <2>2. \A m \in Inbound : spent'[m] <= spent[m]
      BY <1>1, <1>3
    <2>3. QED
      BY <1>3, <2>1, <2>2, LaneSpares
  <1>4. ASSUME NEW l \in Lanes, Ends(l), \A m \in Inbound : spent'[m] <= spent[m],
               mark' = mark, clears' = clears, mischief' >= mischief
        PROVE  Diverted'
    <2>1. Others(l) /\ run'[l].at = "idle" /\ run'[l].hint = "none"
      BY <1>1, <1>4, EndingRun
    <2>2. QED
      BY <1>4, <2>1, LaneSpares
  <1>5. ASSUME NEW l \in Lanes, Save(l) PROVE Diverted'
    <2>1. /\ Others(l) /\ run'[l].at = run[l].then /\ run[l].at = "saving"
          /\ run'[l].hint = run[l].hint /\ run'[l].batch = run[l].batch
          /\ mark' = mark /\ clears' = clears /\ spent' = spent /\ mischief' = mischief
      BY <1>1, <1>5, SavedRun DEF Save, sideVars
    <2>2. run'[l].at \in {"route", "finishing", "retrying"}
      BY <1>1, <2>1, RunIsOfMessages
    <2>3. mischief' >= mischief /\ \A m \in Inbound : spent'[m] <= spent[m]
      BY <1>1, <2>1
    <2>4. QED
      BY <2>1, <2>2, <2>3, LaneSpares
  <1>6. ASSUME NEW l \in Lanes, ClaimFor(l) PROVE Diverted'
    <2>1. /\ Others(l) /\ run'[l].at = "claimed" /\ run'[l].hint = "none"
          /\ mark' = mark /\ clears' = clears /\ spent' = spent /\ mischief' = mischief
      BY <1>1, <1>6, ClaimingRun DEF ClaimFor, RouteFormed, sideVars, markVars
    <2>2. mischief' >= mischief /\ \A m \in Inbound : spent'[m] <= spent[m]
      BY <1>1, <2>1
    <2>3. QED
      BY <2>1, <2>2, LaneSpares
  <1>7. Mischief => mischief' >= mischief
    BY <1>1 DEF Mischief
  <1>8. UNCHANGED mischief => mischief' >= mischief
    BY <1>1
  <1>9. ASSUME NEW l \in Lanes, LaneStep(l) PROVE Diverted'
    <2>1. CASE Pin(l) \/ Reject(l) \/ Notify(l)
      BY <1>2, <1>7, <1>8, <2>1 DEF Pin, Reject, Notify, sideVars, markVars
    <2>2. CASE Begin(l)
      <3>1. Hinted(l) # "primary"
        BY HintsOfRuns DEF RouteFormed
      <3>2. QED
        BY <1>3, <1>8, <2>2, <3>1 DEF Begin, sideVars, markVars
    <2>3. CASE Classify(l) \/ ClassifyFails(l)
      BY <1>3, <1>7, <1>8, <2>3 DEF Classify, ClassifyFails, sideVars, markVars
    <2>4. CASE FindExpired(l)
      BY <1>3, <1>8, <2>4 DEF FindExpired, Expired, sideVars, markVars
    <2>5. CASE Raises(l) \/ Retry(l)
      <3>1. Ends(l) /\ spent' = spent /\ mark' = mark /\ clears' = clears
        BY <2>5 DEF Raises, Retry, sideVars, markVars
      <3>2. mischief' >= mischief
        BY <1>7, <1>8, <2>5 DEF Raises, Retry
      <3>3. \A m \in Inbound : spent'[m] <= spent[m]
        BY <1>1, <3>1
      <3>4. QED
        BY <1>4, <3>1, <3>2, <3>3
    <2>6. CASE Finish(l)
      <3>1. /\ spent' = [m \in Inbound |-> IF m \in run[l].batch THEN 0 ELSE spent[m]]
            /\ Ends(l) /\ mark' = mark /\ clears' = clears /\ mischief' = mischief
        BY <2>6 DEF Finish, markVars
      <3>2. \A m \in Inbound : spent'[m] <= spent[m]
        BY <1>1, <3>1
      <3>3. QED
        BY <1>4, <1>8, <3>1, <3>2
    <2>7. QED
      BY <1>5, <1>6, <1>9, <2>1, <2>2, <2>3, <2>4, <2>5, <2>6, RouteSpares, DropSpares,
         SuccessSpares, RefusalSpares DEF LaneStep
  <1>10. ASSUME spent' = spent, clears' = clears, mischief' = mischief + 1, BothDrop'
         PROVE  Diverted'
    <2>1. ASSUME NEW m \in Inbound PROVE Spared(m)'
      <3>1. Spared(m)
        BY DEF Diverted
      <3>2. QED
        BY <1>10, <3>1, RiskCounts, RiskCountsNext DEF Spared
    <2>2. QED
      BY <1>10, <2>1 DEF Diverted
  <1>11. CASE Reboot
    <2>1. /\ spent' = spent /\ clears' = clears /\ mischief' = mischief + 1
          /\ run'[1] = NoJob
      BY <1>11 DEF Reboot, Mischief, Lanes
    <2>2. BothDrop'
      BY <2>1 DEF BothDrop, NoJob, Lanes
    <2>3. QED
      BY <1>10, <2>1, <2>2
  <1>12. CASE MarkAges
    <2>1. /\ spent' = spent /\ clears' = clears /\ mischief' = mischief + 1 /\ mark' = "old"
      BY <1>12 DEF MarkAges, Mischief, sideVars
    <2>2. BothDrop'
      BY <2>1 DEF BothDrop
    <2>3. QED
      BY <1>10, <2>1, <2>2
  <1>13. ASSUME UNCHANGED <<mark, clears, spent, mischief, run>> PROVE Diverted'
    BY <1>13 DEF Diverted, BothDrop, Spared, AtRisk, Exposed, Dropped
  <1>14. CASE UNCHANGED routingVars
    BY <1>13, <1>14 DEF routingVars
  <1>15. CASE \/ \E m \in Inbound : Arrive(m) \/ BackoffOver(m) \/ Lapse(m)
              \/ SlotQueued \/ VerdictsLapse \/ StickyLapses \/ LoginChanges
    BY <1>13, <1>15 DEF Arrive, BackoffOver, Lapse, SlotQueued, VerdictsLapse, StickyLapses,
       LoginChanges, sideVars, markVars
  <1>16. QED
    BY <1>9, <1>11, <1>12, <1>14, <1>15 DEF RoutingNext

-----------------------------------------------------------------------------
(* Answers sent beside the ledger. *)

AllNoticed == \A m \in Inbound : Noticed(m)

LEMMA NoticeCounts ==
    ASSUME RouteFormed, NEW m \in Inbound
    PROVE  MayNotice(m) \in 0..1 /\ notices[m] \in Nat /\ mischief \in Nat
  <1>1. MayNotice(m) \in 0..1
    BY DEF MayNotice
  <1>2. QED
    BY <1>1, RoutingAssumption DEF RouteFormed, HistoryFormed

LEMMA NoticeCountsNext ==
    ASSUME RouteFormed', NEW m \in Inbound
    PROVE  MayNotice(m)' \in 0..1 /\ notices'[m] \in Nat /\ mischief' \in Nat
  <1>1. MayNotice(m)' \in 0..1
    BY DEF MayNotice
  <1>2. QED
    BY <1>1, RoutingAssumption DEF RouteFormed, HistoryFormed

DoneStays == \A m \in Inbound : phase[m] = "done" => phase'[m] = "done"

\* A step of a run that sends no notice: what it does with a run at its end.
EndStays(l) ==
    Ending(l) =>
        \/ Ending(l)' /\ run'[l].batch = run[l].batch
        \/ \A m \in run[l].batch : phase'[m] = "done"

LEMMA LaneNotices ==
    ASSUME RouteFormed, RouteFormed', AllNoticed, NEW l \in Lanes, Others(l),
           run[l].at # "noticing", EndStays(l), DoneStays,
           UNCHANGED <<notices, obeyed>>, mischief' >= mischief
    PROVE  AllNoticed'
  <1> SUFFICES ASSUME NEW m \in Inbound PROVE Noticed(m)'
    BY DEF AllNoticed
  <1>1. Noticed(m)
    BY DEF AllNoticed
  <1>2. MayNotice(m)' <= MayNotice(m)
    <2>1. CASE phase[m] = "done"
      BY <2>1 DEF MayNotice, DoneStays
    <2>2. ASSUME NEW k \in Lanes, m \in run[k].batch, Ending(k) PROVE MayNotice(m)' = 0
      <3>1. CASE k = l
        BY <2>2, <3>1 DEF EndStays, MayNotice
      <3>2. CASE k # l
        <4>1. run'[k] = run[k]
          BY <3>2 DEF Others
        <4>2. m \in run'[k].batch /\ Ending(k)'
          BY <2>2, <4>1 DEF Ending
        <4>3. QED
          BY <4>2 DEF MayNotice
      <3>3. QED
        BY <3>1, <3>2
    <2>3. CASE MayNotice(m) = 1
      BY <2>3 DEF MayNotice
    <2>4. QED
      BY <2>1, <2>2, <2>3 DEF MayNotice
  <1>3. notices'[m] + MayNotice(m)' <= 1 + mischief'
    BY <1>1, <1>2, NoticeCounts, NoticeCountsNext DEF Noticed
  <1>4. ASSUME m \in obeyed', mischief' = 0
        PROVE  notices'[m] >= 1 \/ \E k \in Lanes : m \in run'[k].batch /\ run'[k].at = "noticing"
    <2>1. mischief = 0
      BY <1>4, NoticeCounts
    <2>2. notices[m] >= 1 \/ \E k \in Lanes : m \in run[k].batch /\ run[k].at = "noticing"
      BY <1>1, <1>4, <2>1 DEF Noticed
    <2>3. ASSUME NEW k \in Lanes, m \in run[k].batch, run[k].at = "noticing"
          PROVE  m \in run'[k].batch /\ run'[k].at = "noticing"
      BY <2>3 DEF Others
    <2>4. QED
      BY <2>2, <2>3
  <1>5. QED
    BY <1>3, <1>4 DEF Noticed

LEMMA PinNotices ==
    ASSUME RouteFormed, RouteFormed', AllNoticed, NEW l \in Lanes, Pin(l)
    PROVE  AllNoticed'
  <1>1. /\ RunsFormed /\ run[l].at = "claimed" /\ Content(l) = "pin" /\ GoesOn(l, "noticing")
        /\ obeyed' = obeyed \cup {Lone(l)} /\ notices' = notices /\ phase' = phase
        /\ mischief' = mischief
    BY DEF Pin, RouteFormed, rowVars
  <1>2. Others(l) /\ run'[l].at = "noticing" /\ run'[l].batch = run[l].batch
    BY <1>1, GoingOn
  <1>3. run[l].batch = {Lone(l)}
    BY <1>1, AloneInRun
  <1> SUFFICES ASSUME NEW m \in Inbound PROVE Noticed(m)'
    BY DEF AllNoticed
  <1>4. Noticed(m)
    BY DEF AllNoticed
  <1>5. MayNotice(m)' <= MayNotice(m)
    <2>1. ASSUME NEW k \in Lanes, m \in run[k].batch, Ending(k)
          PROVE  m \in run'[k].batch /\ Ending(k)'
      <3>1. k # l
        BY <1>1, <2>1 DEF Ending
      <3>2. QED
        BY <1>2, <2>1, <3>1 DEF Ending, Others
    <2>2. QED
      BY <1>1, <2>1 DEF MayNotice
  <1>6. notices'[m] + MayNotice(m)' <= 1 + mischief'
    BY <1>1, <1>4, <1>5, NoticeCounts, NoticeCountsNext DEF Noticed
  <1>7. ASSUME m \in obeyed', mischief' = 0
        PROVE  notices'[m] >= 1 \/ \E k \in Lanes : m \in run'[k].batch /\ run'[k].at = "noticing"
    <2>1. CASE m = Lone(l)
      BY <1>2, <1>3, <2>1
    <2>2. CASE m # Lone(l)
      <3>1. notices[m] >= 1 \/ \E k \in Lanes : m \in run[k].batch /\ run[k].at = "noticing"
        BY <1>1, <1>4, <1>7, <2>2 DEF Noticed
      <3>2. ASSUME NEW k \in Lanes, m \in run[k].batch, run[k].at = "noticing"
            PROVE  m \in run'[k].batch /\ run'[k].at = "noticing"
        BY <1>1, <1>2, <3>2 DEF Others
      <3>3. QED
        BY <1>1, <3>1, <3>2
    <2>3. QED
      BY <2>1, <2>2
  <1>8. QED
    BY <1>6, <1>7 DEF Noticed

\* The notice is sent or lost, and the run ends with it.
LEMMA NotifyNotices ==
    ASSUME RouteFormed, RouteFormed', AllNoticed, NEW l \in Lanes, Notify(l)
    PROVE  AllNoticed'
  <1>1. /\ RunsFormed /\ run[l].at = "noticing" /\ GoesOn(l, "finishing")
        /\ obeyed' = obeyed /\ phase' = phase
    BY DEF Notify, RouteFormed, rowVars
  <1>2. Others(l) /\ run'[l].at = "finishing" /\ run'[l].batch = run[l].batch
    BY <1>1, GoingOn
  <1> SUFFICES ASSUME NEW m \in Inbound PROVE Noticed(m)'
    BY DEF AllNoticed
  <1>3. Noticed(m)
    BY DEF AllNoticed
  <1>4. \/ /\ notices' = [n \in Inbound |-> IF n \in run[l].batch THEN notices[n] + 1 ELSE notices[n]]
           /\ mischief' = mischief
        \/ notices' = notices /\ mischief' = mischief + 1
    BY DEF Notify, Mischief
  <1>5. CASE m \in run[l].batch
    <2>1. phase[m] = "running" /\ \A k \in Lanes \ {l} : m \notin run[k].batch
      BY <1>1, <1>5, RunIsOfMessages DEF RunsFormed, Lanes
    <2>2. MayNotice(m) = 1
      BY <1>1, <2>1 DEF MayNotice, Ending
    <2>3. MayNotice(m)' = 0
      BY <1>2, <1>5 DEF MayNotice, Ending
    <2>4. \/ notices'[m] = notices[m] + 1 /\ mischief' = mischief
          \/ notices'[m] = notices[m] /\ mischief' = mischief + 1
      BY <1>4, <1>5
    <2>5. notices'[m] + MayNotice(m)' <= 1 + mischief'
      BY <1>3, <2>2, <2>3, <2>4, NoticeCounts, NoticeCountsNext DEF Noticed
    <2>6. mischief' = 0 => notices'[m] >= 1
      BY <2>4, NoticeCounts
    <2>7. QED
      BY <2>5, <2>6 DEF Noticed
  <1>6. CASE m \notin run[l].batch
    <2>1. notices'[m] = notices[m] /\ mischief' >= mischief
      BY <1>4, <1>6, NoticeCounts
    <2>2. MayNotice(m)' <= MayNotice(m)
      <3>1. ASSUME NEW k \in Lanes, m \in run[k].batch, Ending(k)
            PROVE  m \in run'[k].batch /\ Ending(k)'
        <4>1. k # l
          BY <1>6, <3>1
        <4>2. QED
          BY <1>2, <3>1, <4>1 DEF Ending, Others
      <3>2. QED
        BY <1>1, <3>1 DEF MayNotice
    <2>3. notices'[m] + MayNotice(m)' <= 1 + mischief'
      BY <1>3, <2>1, <2>2, NoticeCounts, NoticeCountsNext DEF Noticed
    <2>4. ASSUME m \in obeyed', mischief' = 0
          PROVE  notices'[m] >= 1 \/ \E k \in Lanes : m \in run'[k].batch /\ run'[k].at = "noticing"
      <3>1. mischief = 0
        BY <2>1, <2>4, NoticeCounts
      <3>2. notices[m] >= 1 \/ \E k \in Lanes : m \in run[k].batch /\ run[k].at = "noticing"
        BY <1>1, <1>3, <2>4, <3>1 DEF Noticed
      <3>3. ASSUME NEW k \in Lanes, m \in run[k].batch, run[k].at = "noticing"
            PROVE  m \in run'[k].batch /\ run'[k].at = "noticing"
        BY <1>2, <1>6, <3>3 DEF Others
      <3>4. QED
        BY <2>1, <3>2, <3>3
    <2>5. QED
      BY <2>3, <2>4 DEF Noticed
  <1>7. QED
    BY <1>5, <1>6

LEMMA NoticesStay ==
    ASSUME RouteFormed, RouteFormed', AllNoticed, [RoutingNext]_routingVars
    PROVE  AllNoticed'
  <1>1. RunsFormed /\ mischief \in Nat /\ phase \in [Inbound -> {"away", "queued", "running", "done", "failed"}]
    BY RoutingAssumption DEF RouteFormed, HistoryFormed, MessagesFormed
  <1>2. phase' = phase => DoneStays
    BY DEF DoneStays
  <1>3. Mischief \/ UNCHANGED mischief => mischief' >= mischief
    BY <1>1 DEF Mischief
  <1>4. \A l \in Lanes : run[l].at \notin {"finishing", "saving"} => EndStays(l)
    BY DEF EndStays, Ending
  <1>5. ASSUME NEW batch \in SUBSET Inbound, \A m \in batch : phase[m] = "running", Charge(batch)
        PROVE  DoneStays
    BY <1>1, <1>5 DEF DoneStays, Charge
  <1>6. ASSUME NEW l \in Lanes, NEW a, NEW h, Goes(l, a, h),
               run[l].at \notin {"noticing", "finishing", "saving"}, UNCHANGED <<phase, notices, obeyed>>,
               mischief' >= mischief
        PROVE  AllNoticed'
    <2>1. Others(l)
      BY <1>1, <1>6, Going
    <2>2. EndStays(l) /\ DoneStays
      BY <1>2, <1>4, <1>6
    <2>3. QED
      BY <1>6, <2>1, <2>2, LaneNotices
  <1>7. ASSUME NEW l \in Lanes, NEW v, NEW next, NEW h, Stores(l, v, next, h),
               run[l].at \notin {"noticing", "finishing", "saving"}, UNCHANGED <<phase, notices, obeyed>>,
               mischief' >= mischief
        PROVE  AllNoticed'
    <2>1. Others(l)
      BY <1>1, <1>7, Storing
    <2>2. EndStays(l) /\ DoneStays
      BY <1>2, <1>4, <1>7
    <2>3. QED
      BY <1>7, <2>1, <2>2, LaneNotices
  <1>8. ASSUME NEW l \in Lanes, LaneStep(l) PROVE AllNoticed'
    <2>1. CASE Begin(l) \/ Classify(l) \/ ClassifyFails(l) \/ FindExpired(l)
      BY <1>3, <1>6, <2>1 DEF Begin, Classify, ClassifyFails, FindExpired, rowVars, sideVars
    <2>2. CASE DropMark(l) \/ LoginRefused(l)
      BY <1>3, <1>7, <2>2 DEF DropMark, LoginRefused, rowVars, sideVars
    <2>3. ASSUME GoesOn(l, "noticing") \/ GoesOn(l, "finishing"),
                 run[l].at \notin {"noticing", "finishing", "saving"},
                 UNCHANGED <<phase, notices, obeyed>>, mischief' >= mischief
          PROVE  AllNoticed'
      <3>1. Others(l)
        BY <1>1, <2>3, GoingOn
      <3>2. EndStays(l) /\ DoneStays
        BY <1>2, <1>4, <2>3
      <3>3. QED
        BY <2>3, <3>1, <3>2, LaneNotices
    <2>4. CASE Reject(l)
      BY <1>3, <2>3, <2>4 DEF Reject, rowVars, sideVars
    <2>5. CASE Succeeds(l)
      BY <1>3, <1>7, <2>3, <2>5 DEF Succeeds, rowVars, sideVars
    <2>6. CASE Route(l)
      <3>1. /\ Others(l) /\ run[l].at = "route" /\ UNCHANGED <<phase, notices, obeyed>>
            /\ mischief' >= mischief
        BY <1>1, <1>3, <2>6, RoutedRun DEF Route, rowVars, sideVars
      <3>2. EndStays(l) /\ DoneStays
        BY <1>2, <1>4, <3>1
      <3>3. QED
        BY <3>1, <3>2, LaneNotices
    <2>7. CASE ClaimFor(l)
      <3>1. /\ Others(l) /\ run[l].at = "idle" /\ UNCHANGED <<notices, obeyed>>
            /\ mischief' >= mischief
        BY <1>1, <1>3, <2>7, ClaimingRun DEF ClaimFor, RouteFormed, sideVars, NoJob
      <3>2. Ready # {} /\ phase' = [m \in Inbound |-> IF m \in Taken THEN "running" ELSE phase[m]]
        BY <2>7 DEF ClaimFor
      <3>3. \A m \in Taken : phase[m] = "queued"
        BY <3>2, TakenMessages DEF RouteFormed
      <3>4. EndStays(l) /\ DoneStays
        BY <1>4, <3>1, <3>2, <3>3 DEF DoneStays
      <3>5. QED
        BY <3>1, <3>4, LaneNotices
    <2>8. CASE Raises(l) \/ Retry(l)
      <3>1. /\ Others(l) /\ run[l].at \notin {"noticing", "finishing", "saving"}
            /\ UNCHANGED <<notices, obeyed>> /\ mischief' >= mischief
        <4>1. Ends(l) /\ UNCHANGED <<notices, obeyed>> /\ mischief' >= mischief
          BY <1>3, <2>8 DEF Raises, Retry, sideVars
        <4>2. run[l].at \notin {"noticing", "finishing", "saving"}
          BY <2>8 DEF Raises, Retry
        <4>3. QED
          BY <1>1, <4>1, <4>2, EndingRun
      <3>2. run[l].batch \in SUBSET Inbound /\ \A m \in run[l].batch : phase[m] = "running"
        BY <1>1, RunIsOfMessages
      <3>3. DoneStays
        <4>1. CASE Raises(l)
          BY <1>5, <3>2, <4>1 DEF Raises
        <4>2. CASE Retry(l)
          <5>1. run[l].batch \in SUBSET Nat /\ run[l].batch # {}
            BY <1>1, <3>2, <4>2, RunIsOfMessages, NumberOfMessages DEF Retry
          <5>2. Min(run[l].batch) \in run[l].batch
            BY <5>1, MinOfSet
          <5>3. QED
            BY <1>5, <3>2, <4>2, <5>2 DEF Retry
        <4>3. QED
          BY <2>8, <4>1, <4>2
      <3>4. EndStays(l)
        BY <1>4, <3>1
      <3>5. QED
        BY <3>1, <3>3, <3>4, LaneNotices
    <2>9. CASE Save(l)
      <3>1. /\ Others(l) /\ run[l].at = "saving" /\ run'[l].at = run[l].then
            /\ run'[l].batch = run[l].batch /\ UNCHANGED <<phase, notices, obeyed>>
            /\ mischief' >= mischief
        BY <1>1, <1>3, <2>9, SavedRun DEF Save, rowVars, sideVars
      <3>2. EndStays(l) /\ DoneStays
        BY <1>2, <3>1 DEF EndStays, Ending
      <3>3. QED
        BY <3>1, <3>2, LaneNotices
    <2>10. CASE Finish(l)
      <3>1. /\ Others(l) /\ run[l].at = "finishing" /\ UNCHANGED <<notices, obeyed>>
            /\ mischief' >= mischief
            /\ phase' = [m \in Inbound |-> IF m \in run[l].batch THEN "done" ELSE phase[m]]
        BY <1>1, <1>3, <2>10, EndingRun DEF Finish
      <3>2. run[l].batch \in SUBSET Inbound
        BY <1>1, RunIsOfMessages
      <3>3. EndStays(l) /\ DoneStays
        BY <3>1, <3>2 DEF EndStays, DoneStays
      <3>4. QED
        BY <3>1, <3>3, LaneNotices
    <2>11. QED
      BY <1>8, <2>1, <2>2, <2>4, <2>5, <2>6, <2>7, <2>8, <2>9, <2>10, PinNotices,
         NotifyNotices DEF LaneStep
  <1>9. CASE Reboot
    <2>1. /\ mischief' = mischief + 1 /\ UNCHANGED <<notices, obeyed>>
      BY <1>9 DEF Reboot, Mischief
    <2>2. ASSUME NEW m \in Inbound PROVE Noticed(m)'
      <3>1. Noticed(m)
        BY DEF AllNoticed
      <3>2. notices'[m] + MayNotice(m)' <= 1 + mischief'
        BY <2>1, <3>1, NoticeCounts, NoticeCountsNext DEF Noticed
      <3>3. mischief' # 0
        BY <1>1, <2>1
      <3>4. QED
        BY <3>2, <3>3 DEF Noticed
    <2>3. QED
      BY <2>2 DEF AllNoticed
  <1>10. ASSUME run' = run, DoneStays, UNCHANGED <<notices, obeyed>>, mischief' >= mischief
         PROVE  AllNoticed'
    <2>1. ASSUME NEW m \in Inbound PROVE Noticed(m)'
      <3>1. Noticed(m)
        BY DEF AllNoticed
      <3>2. MayNotice(m)' <= MayNotice(m)
        BY <1>10 DEF MayNotice, Ending, DoneStays
      <3>3. notices'[m] + MayNotice(m)' <= 1 + mischief'
        BY <1>10, <3>1, <3>2, NoticeCounts, NoticeCountsNext DEF Noticed
      <3>4. mischief' = 0 => mischief = 0
        BY <1>10, NoticeCounts
      <3>5. QED
        BY <1>10, <3>1, <3>3, <3>4 DEF Noticed
    <2>2. QED
      BY <2>1 DEF AllNoticed
  <1>11. CASE UNCHANGED routingVars \/ SlotQueued \/ VerdictsLapse \/ StickyLapses \/ LoginChanges
              \/ \E m \in Inbound : BackoffOver(m)
    BY <1>2, <1>3, <1>10, <1>11 DEF routingVars, SlotQueued, VerdictsLapse, StickyLapses,
       LoginChanges, BackoffOver, rowVars, sideVars
  <1>12. CASE MarkAges
    BY <1>2, <1>3, <1>10, <1>12 DEF MarkAges, rowVars, sideVars
  <1>13. ASSUME NEW m \in Inbound, Arrive(m) PROVE AllNoticed'
    <2>1. DoneStays
      BY <1>1, <1>13 DEF Arrive, DoneStays
    <2>2. QED
      BY <1>3, <1>10, <1>13, <2>1 DEF Arrive, sideVars
  <1>14. ASSUME NEW m \in Inbound, Lapse(m) PROVE AllNoticed'
    <2>1. DoneStays
      BY <1>5, <1>14 DEF Lapse
    <2>2. QED
      BY <1>3, <1>10, <1>14, <2>1 DEF Lapse, sideVars
  <1>15. QED
    BY <1>8, <1>9, <1>11, <1>12, <1>13, <1>14 DEF RoutingNext

-----------------------------------------------------------------------------
(* The serial loop while nothing goes wrong: `/brain` commands are obeyed in
   the order of their arrival. *)

LEMMA CalmBefore ==
    ASSUME RouteFormed, [RoutingNext]_routingVars, Calm'
    PROVE  Calm /\ mischief' = mischief /\ login' = login /\ setup' = setup /\ sort' = sort
  <1>1. mischief \in Nat /\ login \in {"good", "gone", "renewed"}
    BY RoutingAssumption DEF RouteFormed, HistoryFormed
  <1>2. setup' = setup /\ sort' = sort
    BY DEF RoutingNext, LaneStep, routingVars, fixedVars, Arrive, BackoffOver, Lapse,
       ClaimFor, Pin, Begin, Classify, ClassifyFails, FindExpired, Reject, Route, Raises, Save,
       DropMark, Succeeds, LoginRefused, Retry, Notify, Finish, SlotQueued, Reboot, MarkAges,
       VerdictsLapse, StickyLapses, LoginChanges
  <1>3. mischief' = mischief \/ mischief' = mischief + 1
    BY DEF RoutingNext, LaneStep, routingVars, Mischief, Arrive, BackoffOver, Lapse,
       ClaimFor, Pin, Begin, Classify, ClassifyFails, FindExpired, Reject, Route, Raises, Save,
       DropMark, Succeeds, LoginRefused, Retry, Notify, Finish, SlotQueued, Reboot, MarkAges,
       VerdictsLapse, StickyLapses, LoginChanges
  <1>4. login' = login \/ login' \in {"gone", "renewed"}
    BY DEF RoutingNext, LaneStep, routingVars, Arrive, BackoffOver, Lapse,
       ClaimFor, Pin, Begin, Classify, ClassifyFails, FindExpired, Reject, Route, Raises, Save,
       DropMark, Succeeds, LoginRefused, Retry, Notify, Finish, SlotQueued, Reboot, MarkAges,
       VerdictsLapse, StickyLapses, LoginChanges
  <1>5. QED
    BY <1>1, <1>2, <1>3, <1>4 DEF Calm

LEMMA PinsRest ==
    ASSUME PinsOrdered, NewestIsSticky, sort' = sort, phase' = phase,
           UNCHANGED <<sticky, obeyed>>
    PROVE  PinsOrdered' /\ NewestIsSticky'
  BY DEF PinsOrdered, NewestIsSticky, Reached

\* A step of the run that goes on with its messages.
LEMMA RunGoesOn ==
    ASSUME PinsKept, sort' = sort, phase' = phase, mark' = mark,
           UNCHANGED <<backing, sticky, obeyed>>,
           run'[1].batch = run[1].batch, run'[1].began,
           run'[1].at \notin {"dropping", "retrying", "saving"}
    PROVE  PinsKept'
  <1>1. RunKept'
    BY DEF PinsKept, RunKept
  <1>2. QED
    BY <1>1, PinsRest DEF PinsKept

LEMMA PinsClaimed ==
    ASSUME RouteFormed, PinsKept, Calm, ClaimFor(1), sort' = sort
    PROVE  PinsKept'
  <1>1. RunsFormed /\ MessagesFormed /\ setup.lanes = 1
    BY DEF RouteFormed, Calm
  <1>2. /\ run[1] = NoJob /\ run'[1].batch = Taken /\ run'[1].at = "claimed" /\ run'[1].began
    BY <1>1, ClaimingRun DEF Lanes
  <1>3. Taken = Ready
    BY <1>1 DEF Taken
  <1>4. /\ phase' = [m \in Inbound |-> IF m \in Ready THEN "running" ELSE phase[m]]
        /\ backing' = backing /\ mark' = mark /\ sticky' = sticky /\ obeyed' = obeyed
    BY <1>3 DEF ClaimFor, sideVars, markVars
  <1>5. \A m \in Inbound : phase[m] # "running"
    BY <1>2 DEF PinsKept, RunKept, NoJob
  <1>6. \A m \in Inbound : phase[m] \in {"away", "queued", "running", "done", "failed"}
    BY <1>1 DEF MessagesFormed
  <1>7. RunKept'
    <2>1. \A m \in Inbound : phase'[m] = "running" => m \in run'[1].batch
      BY <1>2, <1>3, <1>4, <1>5
    <2>2. QED
      BY <1>2, <1>4, <2>1 DEF PinsKept, RunKept
  <1>8. ASSUME NEW m \in Inbound
        PROVE  /\ phase[m] = "queued" /\ sort[m] = "pin" => phase'[m] = "running"
               /\ phase[m] # "queued" => phase'[m] = phase[m]
               /\ phase[m] = "queued" => phase'[m] \in {"queued", "running"}
    <2>1. phase'[m] = IF m \in Ready THEN "running" ELSE phase[m]
      BY <1>4
    <2>2. m \in Ready <=> m \notin backing /\ phase[m] = "queued"
      BY DEF Ready
    <2>3. sort[m] = "pin" => m \notin backing
      BY DEF PinsKept, RunKept
    <2>4. QED
      BY <2>1, <2>2, <2>3
  <1>9. PinsOrdered'
    <2>1. \A m \in Inbound : sort'[m] = "pin" => phase'[m] # "failed"
      BY <1>6, <1>8 DEF PinsKept, PinsOrdered
    <2>2. \A m, n \in Inbound : n < m /\ phase'[m] # "away" => phase'[n] # "away"
      BY <1>8 DEF PinsKept, PinsOrdered
    <2>3. ASSUME NEW m \in Inbound, NEW n \in Inbound, sort[m] = "pin", sort[n] = "pin", n < m
          PROVE  /\ Reached(m)' => Reached(n)'
                 /\ phase'[m] = "done" => phase'[n] = "done"
      <3>1. phase[m] = "done" => phase[n] = "done"
        BY <2>3 DEF PinsKept, PinsOrdered
      <3>2. phase[m] # "away" => phase[n] # "away" /\ phase[n] # "failed"
        BY <2>3 DEF PinsKept, PinsOrdered
      <3>3. Reached(m)' => phase[m] # "away"
        BY <1>8 DEF Reached
      <3>4. phase[n] \in {"queued", "done"} => Reached(n)'
        BY <1>8, <2>3 DEF Reached
      <3>5. phase'[m] = "done" => phase[m] = "done"
        BY <1>8
      <3>6. phase[n] = "done" => phase'[n] = "done"
        BY <1>8
      <3>7. QED
        BY <1>5, <1>6, <3>1, <3>2, <3>3, <3>4, <3>5, <3>6
    <2>4. QED
      BY <2>1, <2>2, <2>3 DEF PinsOrdered
  <1>10. NewestIsSticky'
    <2>1. ASSUME NEW m \in obeyed PROVE sort'[m] = "pin" /\ Reached(m)'
      <3>1. m \in Inbound /\ sort[m] = "pin" /\ Reached(m)
        BY DEF PinsKept, NewestIsSticky, RouteFormed, HistoryFormed
      <3>2. QED
        BY <1>8, <3>1 DEF Reached
    <2>2. QED
      BY <1>4, <2>1 DEF PinsKept, NewestIsSticky
  <1>11. QED
    BY <1>7, <1>9, <1>10 DEF PinsKept

\* The command obeyed now is the newest: a later one runs with it, or after it.
LEMMA PinsObeyed ==
    ASSUME RouteFormed, PinsKept, Calm, Pin(1), sort' = sort
    PROVE  PinsKept'
  <1>1. /\ RunsFormed /\ run[1].at = "claimed" /\ Content(1) = "pin" /\ GoesOn(1, "noticing")
        /\ sticky' = Lone(1) /\ obeyed' = obeyed \cup {Lone(1)}
        /\ phase' = phase /\ backing' = backing /\ mark' = mark
    BY DEF Pin, RouteFormed, rowVars, markVars
  <1>2. PICK p \in Inbound : p = Lone(1) /\ run[1].batch = {p} /\ sort[p] = "pin"
    BY <1>1, AloneInRun DEF Lanes
  <1>3. run'[1].batch = run[1].batch /\ run'[1].at = "noticing" /\ run'[1].began
    BY <1>1, GoingOn DEF Lanes
  <1>4. phase[p] = "running"
    BY <1>1, <1>2, RunIsOfMessages DEF Lanes
  <1>5. RunKept'
    BY <1>1, <1>3 DEF PinsKept, RunKept
  <1>6. PinsOrdered'
    BY <1>1 DEF PinsKept, PinsOrdered, Reached
  <1>7. ASSUME NEW m \in obeyed PROVE m <= p
    <2>1. m \in Inbound /\ sort[m] = "pin" /\ Reached(m)
      BY DEF PinsKept, NewestIsSticky, RouteFormed, HistoryFormed
    <2>2. m \in Nat /\ p \in Nat
      BY <1>2, <2>1, NumberOfMessages
    <2>3. CASE p < m
      <3>1. phase[m] = "running" \/ phase[m] = "done"
        BY <2>1 DEF Reached
      <3>2. phase[m] # "running"
        BY <1>2, <2>1, <2>2, <2>3 DEF PinsKept, RunKept
      <3>3. phase[p] = "done"
        BY <1>2, <2>1, <2>3, <3>1, <3>2 DEF PinsKept, PinsOrdered
      <3>4. QED
        BY <1>4, <3>3
    <2>4. QED
      BY <2>2, <2>3
  <1>8. NewestIsSticky'
    <2>1. sticky' = p /\ obeyed' = obeyed \cup {p}
      BY <1>1, <1>2
    <2>2. p <= p
      BY <1>2, NumberOfMessages
    <2>3. sort'[p] = "pin" /\ Reached(p)'
      BY <1>1, <1>2, <1>4 DEF Reached
    <2>4. \A m \in obeyed : sort'[m] = "pin" /\ Reached(m)'
      BY <1>1 DEF PinsKept, NewestIsSticky, Reached
    <2>5. QED
      BY <1>7, <2>1, <2>2, <2>3, <2>4 DEF NewestIsSticky
  <1>9. QED
    BY <1>5, <1>6, <1>8 DEF PinsKept

\* What is refused or over leaves nothing running.
LEMMA PinsOut ==
    ASSUME RouteFormed, PinsKept, sort' = sort, Ends(1), mark' = mark, UNCHANGED <<sticky, obeyed>>,
           \A m \in backing' : sort[m] = "odd",
           \A m \in Inbound \ run[1].batch : phase'[m] = phase[m],
           \/ \A m \in run[1].batch : phase'[m] = "done"
           \/ \A m \in run[1].batch : sort[m] = "odd" /\ phase'[m] \in {"queued", "failed"}
    PROVE  PinsKept'
  <1>1. RunsFormed
    BY DEF RouteFormed
  <1>2. run'[1].began /\ run'[1].at = "idle"
    BY <1>1, EndingRun DEF Lanes
  <1>3. \A m \in run[1].batch : m \in Inbound /\ phase[m] = "running"
    BY <1>1, RunIsOfMessages DEF Lanes
  <1>4. \A m \in Inbound : phase'[m] # "running"
    BY DEF PinsKept, RunKept
  <1>5. RunKept'
    BY <1>2, <1>4 DEF PinsKept, RunKept
  <1>6. ASSUME NEW m \in Inbound, sort[m] = "pin"
        PROVE  /\ phase'[m] # "failed" /\ (Reached(m)' <=> Reached(m))
               /\ phase[m] = "done" => phase'[m] = "done"
               /\ phase[m] = "running" => phase'[m] = "done"
               /\ phase'[m] = "done" => Reached(m)
    <2>1. CASE m \in run[1].batch
      <3>1. phase[m] = "running" /\ phase'[m] = "done"
        BY <1>3, <1>6, <2>1
      <3>2. QED
        BY <3>1 DEF Reached
    <2>2. CASE m \notin run[1].batch
      <3>1. phase'[m] = phase[m] /\ phase[m] # "running" /\ phase[m] # "failed"
        BY <1>6, <2>2 DEF PinsKept, RunKept, PinsOrdered
      <3>2. QED
        BY <3>1 DEF Reached
    <2>3. QED
      BY <2>1, <2>2
  <1>7. PinsOrdered'
    <2>1. \A m \in Inbound : phase'[m] = "away" <=> phase[m] = "away"
      BY <1>3
    <2>2. \A m, n \in Inbound : n < m /\ phase'[m] # "away" => phase'[n] # "away"
      BY <2>1 DEF PinsKept, PinsOrdered
    <2>3. ASSUME NEW m \in Inbound, NEW n \in Inbound, sort[m] = "pin", sort[n] = "pin", n < m
          PROVE  /\ Reached(m)' => Reached(n)'
                 /\ phase'[m] = "done" => phase'[n] = "done"
      <3>1. Reached(m) => Reached(n)
        BY <2>3 DEF PinsKept, PinsOrdered
      <3>2. Reached(n) => phase'[n] = "done"
        BY <1>6, <2>3 DEF Reached
      <3>3. QED
        BY <1>6, <2>3, <3>1, <3>2
    <2>4. QED
      BY <1>6, <2>2, <2>3 DEF PinsOrdered
  <1>8. NewestIsSticky'
    <2>1. \A m \in obeyed : m \in Inbound /\ sort[m] = "pin" /\ Reached(m)
      BY DEF PinsKept, NewestIsSticky, RouteFormed, HistoryFormed
    <2>2. \A m \in obeyed : sort'[m] = "pin" /\ Reached(m)'
      BY <1>6, <2>1
    <2>3. QED
      BY <2>2 DEF PinsKept, NewestIsSticky
  <1>9. QED
    BY <1>5, <1>7, <1>8 DEF PinsKept

LEMMA PinsStay ==
    ASSUME RouteFormed, Calm => PinsKept, [RoutingNext]_routingVars
    PROVE  Calm' => PinsKept'
  <1> SUFFICES ASSUME Calm' PROVE PinsKept'
    OBVIOUS
  <1>1. Calm /\ mischief' = mischief /\ login' = login /\ setup' = setup /\ sort' = sort
    BY CalmBefore
  <1>2. /\ RunsFormed /\ MessagesFormed /\ PinsKept /\ mischief \in Nat
        /\ setup.lanes = 1 /\ login = "good"
    BY <1>1, RoutingAssumption DEF RouteFormed, HistoryFormed, Calm
  <1>3. /\ run[1].began /\ mark = "none" /\ run[1].at \notin {"dropping", "retrying"}
        /\ run[1].at = "saving" => run[1].then # "retrying"
    BY <1>2 DEF PinsKept, RunKept
  <1>4. ~Mischief
    BY <1>1, <1>2 DEF Mischief
  <1>5. ASSUME NEW l \in Lanes, LaneStep(l) PROVE PinsKept'
    <2>1. l = 1
      <3>1. CASE ClaimFor(l)
        <4>1. l \in 1..setup.lanes
          BY <1>2, <3>1, ClaimingRun
        <4>2. QED
          BY <1>2, <4>1
      <3>2. CASE ~ClaimFor(l)
        <4>1. run[l].at # "idle"
          BY <1>5, <3>2 DEF LaneStep, Pin, Begin, Classify, ClassifyFails, FindExpired, Reject,
             Route, Raises, Save, DropMark, Succeeds, LoginRefused, Retry, Notify, Finish
        <4>2. QED
          BY <1>2, <4>1, SerialRun
      <3>3. QED
        BY <3>1, <3>2
    <2>2. ASSUME NEW a \in {"noticing", "finishing"}, GoesOn(1, a),
                 phase' = phase, mark' = mark, UNCHANGED <<backing, sticky, obeyed>>
          PROVE  PinsKept'
      <3>1. run'[1].batch = run[1].batch /\ run'[1].began /\ run'[1].at = a
        BY <1>2, <2>2, GoingOn DEF Lanes
      <3>2. QED
        BY <1>1, <1>2, <2>2, <3>1, RunGoesOn
    <2>3. ASSUME NEW a \in {"asking", "route"}, NEW h, Goes(1, a, h),
                 phase' = phase, mark' = mark, UNCHANGED <<backing, sticky, obeyed>>
          PROVE  PinsKept'
      <3>1. run'[1].batch = run[1].batch /\ run'[1].began /\ run'[1].at = a
        BY <1>2, <1>3, <2>3, Going DEF Lanes
      <3>2. QED
        BY <1>1, <1>2, <2>3, <3>1, RunGoesOn
    <2>4. CASE ClaimFor(1)
      BY <1>1, <1>2, <2>4, PinsClaimed
    <2>5. CASE Pin(1)
      BY <1>1, <1>2, <2>5, PinsObeyed
    <2>6. CASE Begin(1) \/ Classify(1)
      BY <2>3, <2>6 DEF Begin, Classify, rowVars, sideVars, markVars
    <2>7. CASE Reject(1) \/ Notify(1)
      BY <2>2, <2>7 DEF Reject, Notify, rowVars, sideVars, markVars
    <2>8. CASE Succeeds(1)
      <3>1. ~Clears(1)
        BY <1>3 DEF Clears
      <3>2. QED
        BY <2>2, <2>8, <3>1 DEF Succeeds, rowVars, sideVars, markVars
    <2>9. CASE Route(1)
      <3>1. /\ run'[1].batch = run[1].batch /\ run'[1].at = "running"
            /\ run'[1].began = (login # "gone")
        BY <1>2, <2>9, RoutedRun DEF Lanes
      <3>2. phase' = phase /\ mark' = mark /\ UNCHANGED <<backing, sticky, obeyed>>
        BY <2>9 DEF Route, rowVars, sideVars, markVars
      <3>3. run'[1].began
        BY <1>2, <3>1
      <3>4. QED
        BY <1>1, <1>2, <3>1, <3>2, <3>3, RunGoesOn
    <2>10. CASE Save(1)
      <3>1. /\ run'[1].batch = run[1].batch /\ run'[1].at = run[1].then
            /\ run'[1].began = run[1].began /\ run[1].at = "saving"
        BY <1>2, <2>10, SavedRun DEF Lanes, Save
      <3>2. phase' = phase /\ mark' = mark /\ UNCHANGED <<backing, sticky, obeyed>>
        BY <2>10 DEF Save, rowVars, sideVars
      <3>3. run'[1].at \notin {"dropping", "retrying", "saving"}
        BY <1>2, <1>3, <3>1, RunIsOfMessages DEF Lanes
      <3>4. run'[1].began
        BY <1>3, <3>1
      <3>5. QED
        BY <1>1, <1>2, <3>1, <3>2, <3>3, <3>4, RunGoesOn
    <2>11. CASE Raises(1)
      <3>1. run[1].at = "route" /\ run[1].hint = "odd"
        BY <1>3, <1>4, <2>11 DEF Raises
      <3>2. PICK m \in Inbound : run[1].batch = {m} /\ sort[m] = "odd"
        BY <1>2, <3>1, RunIsOfMessages DEF Lanes
      <3>3. /\ Charge(run[1].batch) /\ Ends(1) /\ mark' = mark /\ UNCHANGED <<sticky, obeyed>>
            /\ backing' = backing \cup {n \in run[1].batch : tries[n] < MaxTries}
            /\ UNCHANGED fixedVars
        BY <2>11 DEF Raises, sideVars, markVars
      <3>4. \A n \in backing' : sort[n] = "odd"
        BY <1>2, <3>2, <3>3 DEF PinsKept, RunKept
      <3>5. /\ run[1].batch \in SUBSET Inbound /\ (\A n \in run[1].batch : phase[n] = "running")
            /\ backing' \subseteq Inbound
        BY <1>2, <3>3, RunIsOfMessages DEF Lanes, MessagesFormed
      <3>6. /\ \A n \in Inbound \ run[1].batch : phase'[n] = phase[n]
            /\ \A n \in run[1].batch : phase'[n] \in {"queued", "failed"}
        BY <1>2, <3>3, <3>5, ChargedMessages
      <3>7. \A n \in run[1].batch : sort[n] = "odd"
        BY <3>2
      <3>8. QED
        BY <1>1, <1>2, <3>3, <3>4, <3>6, <3>7, PinsOut
    <2>12. CASE Finish(1)
      <3>1. /\ Ends(1) /\ mark' = mark /\ UNCHANGED <<sticky, obeyed>> /\ backing' = backing
            /\ phase' = [m \in Inbound |-> IF m \in run[1].batch THEN "done" ELSE phase[m]]
        BY <2>12 DEF Finish, markVars
      <3>2. /\ \A m \in Inbound \ run[1].batch : phase'[m] = phase[m]
            /\ \A m \in run[1].batch : phase'[m] = "done"
        BY <1>2, <3>1, RunIsOfMessages DEF Lanes
      <3>3. \A m \in backing' : sort[m] = "odd"
        BY <1>2, <3>1 DEF PinsKept, RunKept
      <3>4. QED
        BY <1>1, <1>2, <3>1, <3>2, <3>3, PinsOut
    <2>13. ~ClassifyFails(1) /\ ~FindExpired(1) /\ ~DropMark(1) /\ ~LoginRefused(1) /\ ~Retry(1)
      BY <1>2, <1>3, <1>4 DEF ClassifyFails, FindExpired, Expired, DropMark, LoginRefused, Retry
    <2>14. QED
      BY <1>5, <2>1, <2>4, <2>5, <2>6, <2>7, <2>8, <2>9, <2>10, <2>11, <2>12, <2>13 DEF LaneStep
  <1>6. ASSUME UNCHANGED <<phase, backing, sticky, obeyed, mark, run>> PROVE PinsKept'
    <2>1. RunKept'
      BY <1>1, <1>2, <1>6 DEF PinsKept, RunKept
    <2>2. QED
      BY <1>1, <1>2, <1>6, <2>1, PinsRest DEF PinsKept
  <1>7. CASE UNCHANGED routingVars \/ VerdictsLapse
    BY <1>6, <1>7 DEF routingVars, VerdictsLapse, rowVars, markVars
  <1>8. CASE StickyLapses
    <2>1. sticky' = 0 /\ UNCHANGED <<phase, backing, obeyed, mark, run>>
      BY <1>8 DEF StickyLapses, rowVars, markVars
    <2>2. RunKept' /\ PinsOrdered'
      BY <1>1, <1>2, <2>1 DEF PinsKept, RunKept, PinsOrdered, Reached
    <2>3. NewestIsSticky'
      BY <1>1, <1>2, <2>1 DEF PinsKept, NewestIsSticky, Reached
    <2>4. QED
      BY <2>2, <2>3 DEF PinsKept
  <1>9. ASSUME NEW m \in Inbound, BackoffOver(m) PROVE PinsKept'
    <2>1. backing' = backing \ {m} /\ UNCHANGED <<phase, sticky, obeyed, mark, run>>
      BY <1>9 DEF BackoffOver, sideVars, markVars
    <2>2. RunKept'
      BY <1>1, <1>2, <2>1 DEF PinsKept, RunKept
    <2>3. QED
      BY <1>1, <1>2, <2>1, <2>2, PinsRest DEF PinsKept
  <1>10. ASSUME NEW m \in Inbound, Arrive(m) PROVE PinsKept'
    <2>1. /\ phase[m] = "away" /\ (\A n \in 1..(m - 1) : phase[n] # "away")
          /\ phase' = [phase EXCEPT ![m] = "queued"]
          /\ UNCHANGED <<backing, sticky, obeyed, mark, run>>
      BY <1>10 DEF Arrive, sideVars, markVars
    <2>2. \A n \in Inbound : n < m => phase[n] # "away"
      BY <1>10, <2>1, RoutingAssumption DEF Inbound
    <2>3. /\ phase'[m] = "queued" /\ \A n \in Inbound : n # m => phase'[n] = phase[n]
      BY <1>2, <2>1 DEF MessagesFormed
    <2>4. \A n \in Inbound : Reached(n)' <=> Reached(n)
      BY <2>1, <2>3 DEF Reached
    <2>5. \A n \in Inbound : /\ phase'[n] = "done" <=> phase[n] = "done"
                             /\ phase'[n] = "running" <=> phase[n] = "running"
      BY <2>1, <2>3
    <2>6. RunKept'
      BY <1>1, <1>2, <2>1, <2>5 DEF PinsKept, RunKept
    <2>7. PinsOrdered'
      <3>1. \A n \in Inbound : sort'[n] = "pin" => phase'[n] # "failed"
        BY <1>1, <1>2, <2>3 DEF PinsKept, PinsOrdered
      <3>2. ASSUME NEW k \in Inbound, NEW n \in Inbound, n < k, phase'[k] # "away"
            PROVE  phase'[n] # "away"
        <4>1. CASE k = m
          BY <2>2, <2>3, <3>2, <4>1
        <4>2. CASE k # m
          BY <1>2, <2>3, <3>2, <4>2 DEF PinsKept, PinsOrdered
        <4>3. QED
          BY <4>1, <4>2
      <3>3. QED
        BY <1>1, <1>2, <2>4, <2>5, <3>1, <3>2 DEF PinsKept, PinsOrdered
    <2>8. NewestIsSticky'
      <3>1. obeyed \subseteq Inbound
        BY DEF RouteFormed, HistoryFormed
      <3>2. QED
        BY <1>1, <1>2, <2>1, <2>4, <3>1 DEF PinsKept, NewestIsSticky
    <2>9. QED
      BY <2>6, <2>7, <2>8 DEF PinsKept
  <1>11. ASSUME NEW m \in Inbound PROVE ~Lapse(m)
    BY <1>2 DEF Lapse, PinsKept, RunKept, Lanes
  <1>12. ~SlotQueued /\ ~Reboot /\ ~MarkAges
    BY <1>2, <1>4 DEF SlotQueued, Reboot, MarkAges
  <1>13. ~LoginChanges
    BY <1>1, <1>2 DEF LoginChanges
  <1>14. QED
    BY <1>5, <1>7, <1>8, <1>9, <1>10, <1>11, <1>12, <1>13 DEF RoutingNext

-----------------------------------------------------------------------------
(* What the inductive invariant says. *)

LEMMA RouteStays == RouteInv /\ [RoutingNext]_routingVars => RouteInv'
  <1> SUFFICES ASSUME RouteInv, [RoutingNext]_routingVars PROVE RouteInv'
    OBVIOUS
  <1>1. RouteFormed /\ MarkHeld /\ UnsafeContained
    BY DEF RouteInv, RouteFormed
  <1>2. Diverted /\ AllNoticed /\ (Calm => PinsKept)
    BY DEF RouteInv, Diverted, AllNoticed
  <1>3. RouteFormed'
    BY <1>1, RouteTypes
  <1>4. MarkHeld' /\ UnsafeContained'
    BY <1>1, MarksStay
  <1>5. Diverted'
    BY <1>1, <1>2, <1>3, DivertedStays
  <1>6. AllNoticed'
    BY <1>1, <1>2, <1>3, NoticesStay
  <1>7. Calm' => PinsKept'
    BY <1>1, <1>2, PinsStay
  <1>8. RunsFormed' /\ MessagesFormed' /\ HistoryFormed'
    BY <1>3 DEF RouteFormed
  <1>9. BothDrop' /\ \A m \in Inbound : Spared(m)' /\ Noticed(m)'
    BY <1>5, <1>6 DEF Diverted, AllNoticed
  <1>10. QED
    BY <1>4, <1>7, <1>8, <1>9 DEF RouteInv

LEMMA RouteIsTyped == RouteInv => RoutingTypeOK
  <1> SUFFICES ASSUME RouteInv PROVE RoutingTypeOK
    OBVIOUS
  <1>1. RunsFormed /\ MessagesFormed /\ HistoryFormed
    BY DEF RouteInv
  <1>2. \A l \in Lanes :
          /\ run[l].hint \in Hints /\ run[l].brain \in Brains
          /\ (run[l].at = "idle") <=> (run[l].batch = {})
          /\ \A m \in run[l].batch : phase[m] = "running"
    BY <1>1, RunIsOfMessages
  <1>3. /\ phase \in [Inbound -> {"away", "queued", "running", "done", "failed"}]
        /\ tries \in [Inbound -> 0..(MaxTries + 1)] /\ backing \subseteq Inbound
        /\ \A m \in Inbound : phase[m] = "failed" <=> tries[m] = MaxTries + 1
    BY <1>1 DEF MessagesFormed
  <1>4. /\ sticky \in 0..MaxInbound /\ mark \in Marks /\ stored \in Marks
        /\ obeyed \subseteq Inbound /\ mischief \in 0..MaxMischief
    BY <1>1 DEF HistoryFormed
  <1>5. run[1].batch \cap run[2].batch = {}
    BY <1>1 DEF RunsFormed
  <1>6. QED
    BY <1>2, <1>3, <1>4, <1>5 DEF RoutingTypeOK

LEMMA RouteIsDecided == RouteInv => RoutedAsDecided
  <1> SUFFICES ASSUME RouteInv PROVE RoutedAsDecided
    OBVIOUS
  <1>1. RouteFormed /\ RunsFormed /\ MessagesFormed /\ HistoryFormed
    BY DEF RouteInv, RouteFormed
  <1>2. DivertedInTime
    <2>1. ASSUME NEW m \in Inbound PROVE spent[m] <= 1 + clears + 2 * mischief
      <3>1. Spared(m)
        BY DEF RouteInv
      <3>2. QED
        BY <1>1, <3>1, RiskCounts DEF Spared
    <2>2. QED
      BY <2>1 DEF DivertedInTime
  <1>3. UnsafeContained
    BY DEF RouteInv
  <1>4. NewestPinHolds
    <2> SUFFICES ASSUME setup.lanes = 1 /\ mischief = 0 /\ login = "good" /\ sticky # 0
                 PROVE  sticky = Max(obeyed)
      BY DEF NewestPinHolds
    <2>1. sticky \in obeyed /\ \A m \in obeyed : m <= sticky
      BY DEF RouteInv, Calm, PinsKept, NewestIsSticky
    <2>2. obeyed \in SUBSET (1..MaxInbound) /\ obeyed # {} /\ MaxInbound \in Nat
      BY <1>1, <2>1, RoutingAssumption DEF HistoryFormed, Inbound
    <2>3. Max(obeyed) \in obeyed /\ \A m \in obeyed : m <= Max(obeyed)
      BY <2>2, MaxOfSet
    <2>4. Max(obeyed) <= sticky /\ sticky <= Max(obeyed)
      BY <2>1, <2>3
    <2>5. Max(obeyed) \in Nat /\ sticky \in Nat
      <3>1. \A m \in obeyed : m \in Nat
        BY <2>2
      <3>2. QED
        BY <2>1, <2>3, <3>1
    <2>6. QED
      BY <2>4, <2>5
  <1>5. MarksOnDisk
    BY DEF MarksOnDisk, RouteInv, MarkHeld, Lanes
  <1>6. NoticesGiven
    <2>1. ASSUME NEW m \in Inbound PROVE notices[m] <= 1 + mischief
      <3>1. Noticed(m)
        BY DEF RouteInv
      <3>2. QED
        BY <1>1, <3>1, NoticeCounts DEF Noticed
    <2>2. ASSUME NEW m \in Inbound, m \in obeyed, phase[m] = "done", mischief = 0
          PROVE  notices[m] = 1
      <3>1. notices[m] >= 1 \/ \E l \in Lanes : m \in run[l].batch /\ run[l].at = "noticing"
        BY <2>2 DEF RouteInv, Noticed
      <3>2. \A l \in Lanes : m \notin run[l].batch
        BY <1>1, <2>2, RunIsOfMessages
      <3>3. notices[m] >= 1
        BY <3>1, <3>2
      <3>4. QED
        BY <1>1, <2>1, <2>2, <3>3, NoticeCounts
    <2>3. QED
      BY <2>1, <2>2 DEF NoticesGiven
  <1>7. QED
    BY <1>2, <1>3, <1>4, <1>5, <1>6 DEF RoutedAsDecided

\* Where a message goes (runtime.py, router.py, brain_failure.py): on a brain whose
\* login has ended it is lost once, and again only for each answer that took the
\* mark away and for what went wrong; what triage finds unsafe is contained; the
\* newest `/brain` holds in the serial loop; the file of marks is as the memory;
\* and every notice is given once.
THEOREM MessagesAreRouted == RoutingSpec => []RoutedAsDecided
  <1>1. RoutingInit => RouteInv
    BY RouteInitially
  <1>2. RouteInv /\ [RoutingNext]_routingVars => RouteInv'
    BY RouteStays
  <1>3. RouteInv => RoutedAsDecided
    BY RouteIsDecided
  <1>4. QED
    BY <1>1, <1>2, <1>3, PTL DEF RoutingSpec

-----------------------------------------------------------------------------
(* The three together. *)

WatchedInv == WatchInv /\ RowsTyped /\ WorkInv /\ RouteInv

LEMMA WatchedInitially == Init => WatchedInv
  <1> SUFFICES ASSUME Init PROVE WatchedInv
    OBVIOUS
  <1>1. SupervisorInit /\ TaskWorkInit /\ RoutingInit
    BY DEF Init
  <1>2. QED
    BY <1>1, WatchInitially, RowsInitially, WorkInitially, RouteInitially DEF WatchedInv

\* One of them moves, and the others rest.
LEMMA WatchedStays == WatchedInv /\ [Next]_watchedVars => WatchedInv'
  <1> SUFFICES ASSUME WatchedInv, [Next]_watchedVars PROVE WatchedInv'
    OBVIOUS
  <1>1. /\ [SupervisorNext]_supervisorVars /\ [TaskWorkNext]_taskWorkVars
        /\ [RoutingNext]_routingVars
    BY DEF Next, JobsMove, TasksMove, MessagesMove, watchedVars
  <1>2. WatchInv' /\ RowsTyped'
    BY <1>1, WatchStays, RowsStay DEF WatchedInv
  <1>3. WorkInv'
    BY <1>1, WorkStays DEF WatchedInv
  <1>4. RouteInv'
    BY <1>1, RouteStays DEF WatchedInv
  <1>5. QED
    BY <1>2, <1>3, <1>4 DEF WatchedInv

\* The rows, the state file and the copy of it that a tick has, the task rows and what
\* the brain was told, the marks of brains and the runs are well formed
\* (StateStore, company_inbox.py, brain_failure.py).
THEOREM WatchedIsTyped == Spec => []WatchedTypeOK
  <1>1. WatchedInv => WatchedTypeOK
    BY TypedByRows, WorkIsTyped, RouteIsTyped DEF WatchedInv, WatchedTypeOK
  <1>2. QED
    BY <1>1, WatchedInitially, WatchedStays, PTL DEF Spec

\* In the composition what an event or a task needs is remembered until it has it:
\* its recoveries, its cards and reports, its turn in the queue, the goal
\* (supervisor/, dispatch_once, CompanyInboxChannel.send).
THEOREM NothingIsForgotten == Spec => []NothingForgotten
  <1>1. WatchedInv => NothingForgotten
    BY WatchKnowsBoth, WorkIsDone DEF WatchedInv, NothingForgotten
  <1>2. QED
    BY <1>1, WatchedInitially, WatchedStays, PTL DEF Spec

\* In the composition a message goes where the operator, triage and the marks of
\* brains send it (_maybe_triage, route, _try_brain_backup).
THEOREM BrainIsAsDecided == Spec => []BrainAsDecided
  <1>1. WatchedInv => BrainAsDecided
    BY RouteIsDecided DEF WatchedInv, BrainAsDecided
  <1>2. QED
    BY <1>1, WatchedInitially, WatchedStays, PTL DEF Spec

=============================================================================

----------------------- MODULE GatewayDispatchProofs -----------------------
(***************************************************************************)
(* What holds of the whole gateway for every number of messages, claims,   *)
(* slots, crashes and interventions: it uses the queue by the queue's      *)
(* operations, so the queue's guarantees are its own, and it uses the      *)
(* ledger by the ledger's protocol, so the ledger's guarantees are too.    *)
(***************************************************************************)
EXTENDS GatewayDispatch, EventQueueProofs, FiniteSetTheorems

\* A non-empty set of numbers has its minimum: among the intervals 1 .. n one
\* is the smallest, because strict inclusion of finite sets is well founded.
LEMMA MinOfSet ==
    ASSUME NEW S \in SUBSET Nat, S # {}
    PROVE  Min(S) \in S /\ \A y \in S : Min(S) =< y
  <1> DEFINE Below(n) == 1 .. n
             T == {Below(n) : n \in S}
  <1>1. \A n \in S : Below(n) \in FiniteSubsetsOf(Nat)
    <2> SUFFICES ASSUME NEW n \in S
                 PROVE  Below(n) \in FiniteSubsetsOf(Nat)
      OBVIOUS
    <2>1. n \in Int /\ 1 \in Int /\ Below(n) \in SUBSET Nat
      OBVIOUS
    <2>2. IsFiniteSet(1 .. n)
      BY <2>1, FS_Interval
    <2>3. QED
      BY <2>1, <2>2 DEF FiniteSubsetsOf
  <1>2. T \subseteq FiniteSubsetsOf(Nat) /\ T # {}
    BY <1>1
  <1>3. IsWellFoundedOn(StrictSubsetOrdering(Nat), FiniteSubsetsOf(Nat))
    BY FS_StrictSubsetOrderingWellFounded
  <1>4. \E x \in T : \A y \in T : ~(<<y, x>> \in StrictSubsetOrdering(Nat))
    <2> HIDE DEF T
    <2>1. QED
      BY <1>2, <1>3, WFMin
  <1>5. PICK m \in S : \A n \in S : ~(<<Below(n), Below(m)>> \in StrictSubsetOrdering(Nat))
    BY <1>4
  <1>6. \A n \in S : m =< n
    <2> SUFFICES ASSUME NEW n \in S, n < m
                 PROVE  FALSE
      OBVIOUS
    <2>1. Below(n) \subseteq Below(m) /\ m \in Below(m) /\ m \notin Below(n)
      OBVIOUS
    <2>2. <<Below(n), Below(m)>> \in StrictSubsetOrdering(Nat)
      <3>1. Below(n) # Below(m)
        BY <2>1
      <3>2. Below(n) \in SUBSET Nat /\ Below(m) \in SUBSET Nat
        OBVIOUS
      <3> HIDE DEF Below
      <3>3. QED
        BY <2>1, <3>1, <3>2 DEF StrictSubsetOrdering
    <2>3. QED
      BY <1>5, <2>2
  <1>7. QED
    BY <1>6 DEF Min

-----------------------------------------------------------------------------
(* The inductive invariant: the queue's, and that a thread that was ever   *)
(* started has rows to work on, and one in its final loops rows to write.  *)

ThreadsTyped ==
    /\ phase \in [Threads -> Phases]
    /\ batch \in [Threads -> SUBSET Ids]
    /\ left \in [Threads -> SUBSET Ids]
    /\ seen \in [Threads -> Nat]

Started == \A t \in Threads : t > minted => phase[t] = "none"

HasWork ==
    \A t \in Threads :
        /\ phase[t] # "none" => batch[t] # {}
        /\ phase[t] \in {"closing", "failing"} => left[t] # {}

DispatchInv == QueueInv /\ ThreadsTyped /\ Started /\ HasWork

\* The event a thread processes, and the next row its final loop writes, are
\* rows of the table.
LEMMA RowsAtHand ==
    ASSUME DispatchInv, NEW t \in Threads
    PROVE  /\ phase[t] # "none" => Lead(t) \in Ids
           /\ phase[t] \in {"closing", "failing"} => NextLeft(t) \in Ids
  <1>1. batch[t] \in SUBSET Nat /\ left[t] \in SUBSET Nat
        /\ batch[t] \subseteq Ids /\ left[t] \subseteq Ids
    BY DEF DispatchInv, ThreadsTyped, Ids
  <1>2. ASSUME phase[t] # "none" PROVE Lead(t) \in Ids
    <2>1. batch[t] # {}
      BY <1>2 DEF DispatchInv, HasWork
    <2>2. QED
      BY <1>1, <2>1, MinOfSet DEF Lead
  <1>3. ASSUME phase[t] \in {"closing", "failing"} PROVE NextLeft(t) \in Ids
    <2>1. left[t] # {}
      BY <1>3 DEF DispatchInv, HasWork
    <2>2. QED
      BY <1>1, <2>1, MinOfSet DEF NextLeft
  <1>4. QED
    BY <1>2, <1>3

\* A token that owns a row was minted.
LEMMA OwnerIsMinted ==
    ASSUME QueueInv, NEW e \in Ids, NEW t, Owns(e, t)
    PROVE  t \in Tokens /\ t = row[e].lockedBy
  <1>1. row[e].lockedBy \in 0 .. minted /\ row[e].lockedBy # 0 /\ t = row[e].lockedBy
        /\ minted \in Nat
    BY QueueBounds DEF QueueInv, QueueTypeOK, Owns, NULL, QueueBounds
  <1>2. QED
    BY <1>1 DEF Tokens

\* The queue is left alone.
LEMMA QueueIdle ==
    ASSUME QueueInv, UNCHANGED queueVars
    PROVE  QueueInv'
  BY QueueStep DEF queueVars

-----------------------------------------------------------------------------
(* The steps and the queue.                                                *)

\* A final loop completes or charges a row of its claim, or skips it.
LEMMA FinalLoopQueue ==
    ASSUME DispatchInv, NEW t \in Threads, CompleteOne(t) \/ FailOne(t)
    PROVE  QueueInv'
  <1> DEFINE e == NextLeft(t)
  <1>1. QueueInv
    BY DEF DispatchInv
  <1>2. e \in Ids
    BY RowsAtHand DEF CompleteOne, FailOne, OneWritten
  <1>3. MaxRetries \in Nat
    BY QueueBounds DEF QueueBounds
  <1>4. \/ UNCHANGED queueVars
        \/ Owns(e, t) /\ (Complete(e, t) \/ Fail(e, t, MaxRetries))
    BY DEF CompleteOne, FailOne
  <1> HIDE DEF e
  <1>5. CASE UNCHANGED queueVars
    BY <1>1, <1>5, QueueIdle
  <1>6. CASE Owns(e, t) /\ (Complete(e, t) \/ Fail(e, t, MaxRetries))
    <2>1. t = row[e].lockedBy
      BY <1>6 DEF Owns
    <2>2. \/ Complete(e, row[e].lockedBy)
          \/ \E m \in Nat : Fail(e, row[e].lockedBy, m) /\ m <= MaxRetries
      <3>1. MaxRetries <= MaxRetries
        BY <1>3
      <3>2. QED
        BY <1>3, <1>6, <2>1, <3>1
    <2>3. QED
      BY <1>1, <1>2, <2>2, UnlockStep
  <1>7. QED
    BY <1>4, <1>5, <1>6

\* The recovery writes the row at the head of the batch.
LEMMA RecoveryQueue ==
    ASSUME DispatchInv, NEW t \in Threads, ChargeRetry(t) \/ Park(t) \/ WaitForSlot(t)
    PROVE  QueueInv'
  <1> DEFINE e == Lead(t)
  <1>1. QueueInv
    BY DEF DispatchInv
  <1>2. e \in Ids
    BY RowsAtHand DEF ChargeRetry, Park, WaitForSlot, Advances, Moves
  <1>3. MaxRetries \in Nat /\ seen[t] \in Nat
    BY QueueBounds DEF QueueBounds, DispatchInv, ThreadsTyped
  <1>4. \/ UNCHANGED queueVars
        \/ FailUnguarded(e, seen[t], Cap(Head(todo[t])))
        \/ MarkEventFailed(e)
        \/ Owns(e, t) /\ ResetRunningToQueued(e, t)
    BY DEF ChargeRetry, Park, WaitForSlot
  <1> HIDE DEF e
  <1>5. CASE UNCHANGED queueVars
    BY <1>1, <1>5, QueueIdle
  <1>6. CASE FailUnguarded(e, seen[t], Cap(Head(todo[t])))
    <2>1. Cap(Head(todo[t])) \in Nat /\ Cap(Head(todo[t])) <= MaxRetries
      BY <1>3 DEF Cap
    <2>2. QED
      BY <1>1, <1>2, <1>3, <1>6, <2>1, UnlockStep
  <1>7. CASE MarkEventFailed(e)
    BY <1>1, <1>2, <1>7, UnlockStep
  <1>8. CASE Owns(e, t) /\ ResetRunningToQueued(e, t)
    <2>1. t = row[e].lockedBy
      BY <1>8 DEF Owns
    <2>2. ResetRunningToQueued(e, row[e].lockedBy)
      BY <1>8, <2>1
    <2>3. QED
      BY <1>1, <1>2, <2>2, UnlockStep
  <1>9. QED
    BY <1>4, <1>5, <1>6, <1>7, <1>8

\* A handoff enqueues a copy in the conversation of the event, or nothing.
LEMMA DecideQueue ==
    ASSUME DispatchInv, NEW t \in Threads, Decide(t)
    PROVE  QueueInv'
  <1>1. QueueInv
    BY DEF DispatchInv
  <1>2. Lead(t) \in Ids
    BY RowsAtHand DEF Decide, Moves
  <1>3. CASE UNCHANGED queueVars
    BY <1>1, <1>3, QueueIdle
  <1>4. CASE ~ UNCHANGED queueVars
    <2>1. PICK kind \in Handoffs \cap Failures : HandOff(t, kind)
      BY <1>4 DEF Decide
    <2>2. PICK ready \in BOOLEAN : Enqueue(row[Lead(t)].conv, CopyKey(kind, Lead(t)), ready)
      BY <1>4, <2>1 DEF HandOff
    <2>3. row[Lead(t)].conv \in Conversations \cup {NoConv}
      BY <1>1, <1>2 DEF QueueInv, QueueTypeOK, Row
    <2>4. CopyKey(kind, Lead(t)) \in Keys \cup {NoKey}
      BY <1>2, DispatchConstants DEF DispatchConstants
    <2>5. QED
      BY <1>1, <2>2, <2>3, <2>4, EnqueueStep
  <1>5. QED
    BY <1>3, <1>4

\* The heartbeat, the clock and the outsiders.
LEMMA OutsidersQueue ==
    ASSUME DispatchInv,
           \/ \E t \in Threads : Heartbeat(t) \/ Lapse(t)
           \/ \E e \in Ids : Backoff(e) \/ SupervisorResets(e) \/ SupervisorFails(e) \/ Replay(e)
    PROVE  QueueInv'
  <1>1. QueueInv
    BY DEF DispatchInv
  <1>2. ASSUME NEW t \in Threads, Heartbeat(t) \/ Lapse(t)
        PROVE  QueueInv'
    <2>1. RenewLease(t) \/ LeaseLapses(t)
      BY <1>2 DEF Heartbeat, Lapse
    <2>2. PICK e \in Ids : Owns(e, t)
      BY <2>1 DEF RenewLease, LeaseLapses
    <2>3. t \in Tokens
      BY <1>1, <2>2, OwnerIsMinted
    <2>4. QED
      BY <1>1, <2>1, <2>3, LeaseStep
  <1>3. ASSUME NEW e \in Ids,
               Backoff(e) \/ SupervisorResets(e) \/ SupervisorFails(e) \/ Replay(e)
        PROVE  QueueInv'
    <2>1. \/ BackoffElapses(e)
          \/ ResetRunningToQueued(e, row[e].lockedBy)
          \/ MarkEventFailed(e)
          \/ RetryNow(e)
      <3>1. ASSUME SupervisorResets(e) PROVE ResetRunningToQueued(e, row[e].lockedBy)
        <4>1. ResetRunningToQueued(e, observed[e])
          BY <3>1 DEF SupervisorResets
        <4>2. observed[e] = row[e].lockedBy
          BY <4>1 DEF ResetRunningToQueued, Owns
        <4>3. QED
          BY <4>1, <4>2
      <3>2. QED
        BY <1>3, <3>1 DEF Backoff, SupervisorFails, Replay
    <2>2. QED
      BY <1>1, <2>1, UnlockStep
  <1>4. QED
    BY <1>2, <1>3

\* Every step of the gateway is, for the queue, a step of the queue.
LEMMA DispatchQueue ==
    ASSUME DispatchInv, DispatchNext
    PROVE  QueueInv'
  <1>0. QueueInv
    BY DEF DispatchInv
  <1>1. ASSUME NEW c \in Conversations \cup {NoConv}, NEW k \in UserKeys \cup {NoKey},
               Receive(c, k)
        PROVE  QueueInv'
    <2>1. Enqueue(c, k, TRUE)
      BY <1>1 DEF Receive
    <2>2. k \in Keys \cup {NoKey}
      BY DEF UserKeys
    <2>3. QED
      BY <1>0, <2>1, <2>2, EnqueueStep
  <1>2. CASE RequeueTick
    BY <1>0, <1>2, RequeueStep DEF RequeueTick
  <1>3. CASE DispatchOnce
    <2>1. PICK coalesce : coalesce \in BOOLEAN /\ Claim(coalesce)
      BY <1>3, DispatchConstants DEF DispatchOnce, DispatchConstants
    <2>2. QED
      BY <1>0, <2>1, ClaimStep
  <1>4. ASSUME NEW t \in Threads, ThreadStep(t) \/ Mishap(t)
        PROVE  QueueInv'
    <2>1. CASE UNCHANGED queueVars
      BY <1>0, <2>1, QueueIdle
    <2>2. CASE CompleteOne(t) \/ FailOne(t)
      BY <2>2, FinalLoopQueue
    <2>3. CASE ChargeRetry(t) \/ Park(t) \/ WaitForSlot(t)
      BY <2>3, RecoveryQueue
    <2>4. CASE Decide(t)
      BY <2>4, DecideQueue
    <2>5. QED
      BY <1>4, <2>1, <2>2, <2>3, <2>4
         DEF ThreadStep, Mishap, TakeSlot, BrainReplies, NothingToSend, GateOpens, GateRefuses,
             Deliver, ReadRetries, BrainRaises, AdapterFails, DeliverRaises, CompleteRaises,
             FailRaises, RecoveryRaises, Steps
  <1>5. CASE \E t \in Threads : Heartbeat(t) \/ Lapse(t)
    BY <1>5, OutsidersQueue
  <1>6. CASE \E e \in Ids :
               Backoff(e) \/ SupervisorResets(e) \/ SupervisorFails(e) \/ Replay(e)
    BY <1>6, OutsidersQueue
  <1>7. CASE CrashProcess \/ \E e \in Ids : Observe(e)
    <2>1. UNCHANGED queueVars
      BY <1>7 DEF CrashProcess, Observe
    <2>2. QED
      BY <1>0, <2>1, QueueIdle
  <1>8. QED
    BY <1>1, <1>2, <1>3, <1>4, <1>5, <1>6, <1>7 DEF DispatchNext

-----------------------------------------------------------------------------
(* The steps and the threads.                                              *)

\* The batches and the final loops of all threads stay as they are.
LEMMA SamePhases ==
    ASSUME DispatchInv, UNCHANGED <<phase, batch, left>>, minted' \in {minted, minted + 1},
           seen' \in [Threads -> Nat]
    PROVE  (ThreadsTyped /\ Started /\ HasWork)'
  <1>1. minted \in Nat
    BY QueueBounds DEF DispatchInv, QueueInv, QueueTypeOK, QueueBounds
  <1>2. QED
    BY <1>1 DEF DispatchInv, ThreadsTyped, Started, HasWork, Threads

\* A thread that was started goes on to another phase, with rows left to write
\* if that is a final loop.
LEMMA PhaseMoves ==
    ASSUME DispatchInv, NEW t \in Threads, NEW to \in Phases,
           phase[t] # "none",
           phase' = [phase EXCEPT ![t] = to],
           to \in {"closing", "failing"} => left'[t] # {},
           \A u \in Threads : u # t => left'[u] = left[u],
           left' \in [Threads -> SUBSET Ids],
           seen' \in [Threads -> Nat],
           UNCHANGED <<batch, minted>>
    PROVE  (ThreadsTyped /\ Started /\ HasWork)'
  <1>1. ThreadsTyped /\ Started /\ HasWork
    BY DEF DispatchInv
  <1>2. \A u \in Threads : phase'[u] = IF u = t THEN to ELSE phase[u]
    BY <1>1 DEF ThreadsTyped
  <1>3. ThreadsTyped'
    BY <1>1 DEF ThreadsTyped, Threads
  <1>4. Started'
    BY <1>1, <1>2 DEF Started, Threads
  <1>5. HasWork'
    BY <1>1, <1>2 DEF HasWork, Threads
  <1>6. QED
    BY <1>3, <1>4, <1>5

\* A thread that enters a final loop has all the rows of its claim to write.
LEMMA ClosesThreads ==
    ASSUME DispatchInv, NEW t \in Threads, NEW from \in Phases \ {"none"},
           NEW to \in Phases, Closes(t, from, to), UNCHANGED minted
    PROVE  (ThreadsTyped /\ Started /\ HasWork)'
  <1>1. ThreadsTyped /\ HasWork
    BY DEF DispatchInv
  <1>2. /\ phase[t] # "none" /\ phase' = [phase EXCEPT ![t] = to]
        /\ left' = [left EXCEPT ![t] = batch[t]]
        /\ UNCHANGED <<batch, seen>>
    BY DEF Closes, Moves
  <1>3. batch[t] # {} /\ batch[t] \in SUBSET Ids /\ left \in [Threads -> SUBSET Ids]
        /\ seen \in [Threads -> Nat]
    BY <1>1, <1>2 DEF HasWork, ThreadsTyped
  <1>4. left'[t] # {} /\ left' \in [Threads -> SUBSET Ids]
        /\ \A u \in Threads : u # t => left'[u] = left[u]
    BY <1>2, <1>3
  <1>5. QED
    BY <1>2, <1>3, <1>4, PhaseMoves

\* A thread that moves to a phase that is no final loop.
LEMMA MovesThreads ==
    ASSUME DispatchInv, NEW t \in Threads, NEW from \in Phases \ {"none"},
           NEW to \in Phases \ {"closing", "failing"}, Moves(t, from, to),
           UNCHANGED <<batch, left, minted>>, seen' \in [Threads -> Nat]
    PROVE  (ThreadsTyped /\ Started /\ HasWork)'
  <1>1. ThreadsTyped
    BY DEF DispatchInv
  <1>2. phase[t] # "none" /\ phase' = [phase EXCEPT ![t] = to]
    BY DEF Moves
  <1>3. left' \in [Threads -> SUBSET Ids] /\ \A u \in Threads : left'[u] = left[u]
    BY <1>1 DEF ThreadsTyped
  <1>4. QED
    BY <1>2, <1>3, PhaseMoves

\* A final loop ends when its last row is written.
LEMMA FinalLoopThreads ==
    ASSUME DispatchInv, NEW t \in Threads, NEW from \in {"closing", "failing"},
           OneWritten(t, from), UNCHANGED minted
    PROVE  (ThreadsTyped /\ Started /\ HasWork)'
  <1> DEFINE to == IF left[t] = {NextLeft(t)} THEN "over" ELSE from
  <1>1. ThreadsTyped /\ HasWork
    BY DEF DispatchInv
  <1>2. /\ phase[t] = from /\ phase' = [phase EXCEPT ![t] = to]
        /\ left' = [left EXCEPT ![t] = @ \ {NextLeft(t)}]
        /\ UNCHANGED <<batch, seen>>
    BY DEF OneWritten
  <1>3. to \in Phases
    BY DEF Phases
  <1>4. left[t] # {} /\ left \in [Threads -> SUBSET Ids] /\ seen \in [Threads -> Nat]
        /\ phase[t] # "none"
    BY <1>1, <1>2 DEF HasWork, ThreadsTyped
  <1>5. /\ left' \in [Threads -> SUBSET Ids]
        /\ \A u \in Threads : u # t => left'[u] = left[u]
        /\ left'[t] = left[t] \ {NextLeft(t)}
    BY <1>2, <1>4
  <1>6. to \in {"closing", "failing"} => left'[t] # {}
    BY <1>4, <1>5
  <1> HIDE DEF to
  <1>7. QED
    BY <1>2, <1>3, <1>4, <1>5, <1>6, PhaseMoves

\* A claim starts the thread of its token, on at least one row.
LEMMA ClaimThreads ==
    ASSUME DispatchInv, DispatchOnce
    PROVE  (ThreadsTyped /\ Started /\ HasWork)'
  <1> DEFINE t == minted + 1
             to == IF MaxConcurrent = 1 THEN "brain" ELSE "slot"
             rows == {e \in Ids : row'[e].lockedBy = t}
  <1>1. QueueInv /\ ThreadsTyped /\ Started /\ HasWork
    BY DEF DispatchInv
  <1>2. /\ phase' = [phase EXCEPT ![t] = to] /\ batch' = [batch EXCEPT ![t] = rows]
        /\ UNCHANGED <<left, seen>>
    BY DEF DispatchOnce, MintClaimToken
  <1>3. PICK coalesce : coalesce \in BOOLEAN /\ Claim(coalesce)
    BY DispatchConstants DEF DispatchOnce, DispatchConstants
  <1>4. minted \in Nat /\ MaxClaims \in Nat /\ minted < MaxClaims /\ minted' = minted + 1
    <2>1. minted < MaxClaims /\ minted' = minted + 1
      BY <1>3 DEF Claim
    <2>2. minted \in Nat /\ MaxClaims \in Nat
      BY <1>1, QueueBounds DEF QueueInv, QueueTypeOK, QueueBounds
    <2>3. QED
      BY <2>1, <2>2
  <1>5. t \in Threads
    BY <1>4 DEF Threads
  <1>6. PICK head \in Ids : row'[head].lockedBy = t
    <2>1. PICK head \in Claimable(AfterRequeue) :
            row' = [e \in Ids |->
                      IF e \in BatchOf(AfterRequeue, head, coalesce)
                      THEN [AfterRequeue[e] EXCEPT !.status = "running",
                                                   !.lockedBy = MintClaimToken]
                      ELSE AfterRequeue[e]]
      BY <1>3 DEF Claim
    <2>2. head \in Ids /\ head \in BatchOf(AfterRequeue, head, coalesce)
      BY DEF BatchOf, Claimable
    <2>3. AfterRequeue[head] \in Row
      BY <1>1, <2>2, AfterRequeueRows DEF QueueInv
    <2>4. row'[head] = [AfterRequeue[head] EXCEPT !.status = "running",
                                                 !.lockedBy = MintClaimToken]
      BY <2>1, <2>2
    <2>5. row'[head].lockedBy = MintClaimToken
      BY <2>3, <2>4 DEF Row
    <2>6. QED
      BY <2>2, <2>5 DEF MintClaimToken
  <1>7. to \in Phases \ {"none", "closing", "failing"}
    BY DEF Phases
  <1>8. rows \in SUBSET Ids /\ rows # {}
    BY <1>6
  <1> HIDE DEF to, rows
  <1>9. /\ phase'[t] = to /\ batch'[t] = rows
        /\ \A u \in Threads : u # t => phase'[u] = phase[u] /\ batch'[u] = batch[u]
    BY <1>1, <1>2, <1>5 DEF ThreadsTyped
  <1>10. ThreadsTyped'
    BY <1>1, <1>2, <1>7, <1>8 DEF ThreadsTyped, Threads
  <1>11. Started'
    <2> SUFFICES ASSUME NEW u \in Threads, u > minted + 1
                 PROVE  phase'[u] = "none"
      BY <1>4 DEF Started, Threads
    <2>1. u # t /\ u > minted
      BY <1>4 DEF Threads
    <2>2. QED
      BY <1>1, <1>9, <2>1 DEF Started
  <1>12. HasWork'
    BY <1>1, <1>2, <1>7, <1>8, <1>9 DEF HasWork, Threads
  <1>13. QED
    BY <1>10, <1>11, <1>12

\* A live thread moves on, enters a final loop, writes a row of it, or ends.
LEMMA ThreadStepThreads ==
    ASSUME DispatchInv, NEW t \in Threads, ThreadStep(t)
    PROVE  (ThreadsTyped /\ Started /\ HasWork)'
  <1>0. seen \in [Threads -> Nat] /\ QueueInv
    BY DEF DispatchInv, ThreadsTyped
  <1> DEFINE Ordinary == Phases \ {"closing", "failing"}
  <1>1. CASE TakeSlot(t) \/ BrainReplies(t) \/ GateOpens(t)
    <2>1. PICK from \in Phases \ {"none"}, to \in Ordinary : Steps(t, from, to)
      BY <1>1 DEF TakeSlot, BrainReplies, GateOpens, Phases
    <2>2. Moves(t, from, to) /\ UNCHANGED <<batch, left, minted, seen>>
      BY <2>1 DEF Steps, queueVars
    <2>3. QED
      BY <1>0, <2>2, MovesThreads
  <1>2. CASE NothingToSend(t) \/ GateRefuses(t)
    <2>1. PICK from \in Phases \ {"none"} : Closes(t, from, "closing")
      BY <1>2 DEF NothingToSend, GateRefuses, Phases
    <2>2. UNCHANGED minted
      BY <1>2 DEF NothingToSend, GateRefuses, queueVars
    <2>3. QED
      BY <2>1, <2>2, ClosesThreads DEF Phases
  <1>3. CASE Deliver(t)
    <2>1. UNCHANGED minted
      BY <1>3 DEF Deliver, queueVars
    <2>2. CASE Closes(t, "send", "closing")
      BY <2>1, <2>2, ClosesThreads DEF Phases
    <2>3. CASE UNCHANGED threadVars
      BY <1>0, <2>1, <2>3, SamePhases DEF threadVars
    <2>4. QED
      BY <1>3, <2>2, <2>3 DEF Deliver
  <1>4. CASE CompleteOne(t) \/ FailOne(t)
    <2>1. PICK from \in {"closing", "failing"} : OneWritten(t, from)
      BY <1>4 DEF CompleteOne, FailOne
    <2>2. UNCHANGED minted
      BY <1>4 DEF CompleteOne, FailOne, Complete, Fail, queueVars
    <2>3. QED
      BY <2>1, <2>2, FinalLoopThreads
  <1>5. CASE WaitForSlot(t) \/ Decide(t)
    <2>1. PICK from \in Phases \ {"none"}, to \in Ordinary : Moves(t, from, to)
      BY <1>5 DEF WaitForSlot, Decide, Phases
    <2>2. UNCHANGED <<batch, left, seen>>
      BY <1>5 DEF WaitForSlot, Decide
    <2>3. UNCHANGED minted
      <3>1. ASSUME WaitForSlot(t) PROVE UNCHANGED minted
        BY <3>1 DEF WaitForSlot, ResetRunningToQueued, queueVars
      <3>2. ASSUME Decide(t) PROVE UNCHANGED minted
        <4>1. UNCHANGED queueVars \/ \E kind \in Failures : HandOff(t, kind)
          BY <3>2 DEF Decide
        <4>2. QED
          BY <4>1 DEF HandOff, Enqueue, queueVars
      <3>3. QED
        BY <1>5, <3>1, <3>2
    <2>4. QED
      BY <1>0, <2>1, <2>2, <2>3, MovesThreads
  <1>6. CASE ReadRetries(t)
    <2>1. Moves(t, "recovering", "charging") /\ UNCHANGED <<batch, left, minted>>
      BY <1>6 DEF ReadRetries, queueVars
    <2>2. seen' \in [Threads -> Nat]
      <3>1. Lead(t) \in Ids
        BY <2>1, RowsAtHand DEF Moves
      <3>2. row[Lead(t)].retries \in Nat
        BY <1>0, <3>1 DEF QueueInv, QueueTypeOK, Row
      <3>3. QED
        BY <1>0, <1>6, <3>2 DEF ReadRetries
    <2>3. QED
      BY <2>1, <2>2, MovesThreads DEF Phases
  <1>7. CASE ChargeRetry(t) \/ Park(t)
    <2>1. PICK from \in Phases \ {"none"} : Advances(t, from)
      BY <1>7 DEF ChargeRetry, Park, Phases
    <2>2. PICK to \in Ordinary : Moves(t, from, to)
      BY <2>1 DEF Advances, Phases
    <2>3. UNCHANGED <<batch, left, seen>>
      BY <2>1 DEF Advances
    <2>4. UNCHANGED minted
      BY <1>7 DEF ChargeRetry, Park, FailUnguarded, MarkEventFailed, queueVars
    <2>5. QED
      BY <1>0, <2>2, <2>3, <2>4, MovesThreads
  <1>8. QED
    BY <1>1, <1>2, <1>3, <1>4, <1>5, <1>6, <1>7 DEF ThreadStep

\* So does a thread that something goes wrong for.
LEMMA MishapThreads ==
    ASSUME DispatchInv, NEW t \in Threads, Mishap(t)
    PROVE  (ThreadsTyped /\ Started /\ HasWork)'
  <1>0. seen \in [Threads -> Nat]
    BY DEF DispatchInv, ThreadsTyped
  <1>1. CASE BrainRaises(t) \/ DeliverRaises(t) \/ CompleteRaises(t)
    <2>1. PICK from \in Phases \ {"none"} : Closes(t, from, "failing")
      BY <1>1 DEF BrainRaises, DeliverRaises, CompleteRaises, Phases
    <2>2. UNCHANGED minted
      BY <1>1 DEF BrainRaises, DeliverRaises, CompleteRaises, queueVars
    <2>3. QED
      BY <2>1, <2>2, ClosesThreads DEF Phases
  <1>2. CASE AdapterFails(t) \/ FailRaises(t)
    <2>1. PICK from \in Phases \ {"none"}, to \in Phases \ {"closing", "failing"} :
            Steps(t, from, to)
      BY <1>2 DEF AdapterFails, FailRaises, Phases
    <2>2. Moves(t, from, to) /\ UNCHANGED <<batch, left, minted, seen>>
      BY <2>1 DEF Steps, queueVars
    <2>3. QED
      BY <1>0, <2>2, MovesThreads
  <1>3. CASE RecoveryRaises(t)
    <2>1. phase[t] \in Phases \ {"none"} /\ UNCHANGED <<batch, left, minted, seen>>
      BY <1>3 DEF RecoveryRaises, queueVars, Phases
    <2>2. PICK to \in Phases \ {"closing", "failing"} : phase' = [phase EXCEPT ![t] = to]
      BY <1>3 DEF RecoveryRaises, Phases
    <2>3. Moves(t, phase[t], to)
      BY <2>2 DEF Moves
    <2>4. QED
      BY <1>0, <2>1, <2>3, MovesThreads
  <1>4. QED
    BY <1>1, <1>2, <1>3 DEF Mishap

\* Every step keeps the threads in order.
LEMMA DispatchThreads ==
    ASSUME DispatchInv, DispatchNext
    PROVE  (ThreadsTyped /\ Started /\ HasWork)'
  <1>0. seen \in [Threads -> Nat] /\ left \in [Threads -> SUBSET Ids]
    BY DEF DispatchInv, ThreadsTyped
  <1>1. ASSUME NEW c \in Conversations \cup {NoConv}, NEW k \in UserKeys \cup {NoKey},
               Receive(c, k)
        PROVE  (ThreadsTyped /\ Started /\ HasWork)'
    <2>1. UNCHANGED <<phase, batch, left, seen, minted>>
      BY <1>1 DEF Receive, Enqueue, threadVars
    <2>2. QED
      BY <1>0, <2>1, SamePhases
  <1>2. CASE RequeueTick
    <2>1. UNCHANGED <<phase, batch, left, seen, minted>>
      BY <1>2 DEF RequeueTick, RequeueExpired, OnlyQueue, threadVars
    <2>2. QED
      BY <1>0, <2>1, SamePhases
  <1>3. CASE DispatchOnce
    BY <1>3, ClaimThreads
  <1>4. ASSUME NEW t \in Threads, ThreadStep(t)
        PROVE  (ThreadsTyped /\ Started /\ HasWork)'
    BY <1>4, ThreadStepThreads
  <1>5. ASSUME NEW t \in Threads, Mishap(t)
        PROVE  (ThreadsTyped /\ Started /\ HasWork)'
    BY <1>5, MishapThreads
  <1>6. ASSUME \/ \E t \in Threads : Heartbeat(t) \/ Lapse(t)
               \/ \E e \in Ids : Backoff(e) \/ SupervisorResets(e) \/ SupervisorFails(e)
                                 \/ Replay(e) \/ Observe(e)
        PROVE  (ThreadsTyped /\ Started /\ HasWork)'
    <2>1. UNCHANGED <<phase, batch, left, seen, minted>>
      BY <1>6 DEF Heartbeat, Lapse, Backoff, SupervisorResets, SupervisorFails, Replay, Observe,
                  RenewLease, LeaseLapses, BackoffElapses, ResetRunningToQueued,
                  MarkEventFailed, RetryNow, OnlyQueue, threadVars, queueVars
    <2>2. QED
      BY <1>0, <2>1, SamePhases
  <1>7. CASE CrashProcess
    <2>1. /\ phase' = [t \in Threads |-> IF phase[t] \in Live THEN "over" ELSE phase[t]]
          /\ UNCHANGED <<batch, left, seen, minted>>
      BY <1>7 DEF CrashProcess, queueVars
    <2>2. \A t \in Threads :
             /\ phase'[t] \in Phases \ {"closing", "failing"}
             /\ phase'[t] = "none" <=> phase[t] = "none"
      BY <2>1 DEF DispatchInv, ThreadsTyped, Live, Phases
    <2>3. ThreadsTyped'
      <3>1. phase' \in [Threads -> Phases]
        BY <2>1, <2>2
      <3>2. QED
        BY <2>1, <3>1 DEF DispatchInv, ThreadsTyped, Threads
    <2>4. (Started /\ HasWork)'
      BY <2>1, <2>2 DEF DispatchInv, Started, HasWork, Threads
    <2>5. QED
      BY <2>3, <2>4
  <1>8. QED
    BY <1>1, <1>2, <1>3, <1>4, <1>5, <1>6, <1>7 DEF DispatchNext

-----------------------------------------------------------------------------
(* The theorems on the queue.                                              *)

LEMMA DispatchStart == DispatchInit => DispatchInv
  <1> SUFFICES ASSUME DispatchInit
               PROVE  DispatchInv
    OBVIOUS
  <1>1. QueueInv
    BY QueueStart DEF DispatchInit
  <1>2. ThreadsTyped /\ Started /\ HasWork
    BY DEF DispatchInit, ThreadsTyped, Started, HasWork, Phases
  <1>3. QED
    BY <1>1, <1>2 DEF DispatchInv

LEMMA DispatchStep == DispatchInv /\ [DispatchNext]_dispatchVars => DispatchInv'
  <1>1. ASSUME DispatchInv, DispatchNext
        PROVE  DispatchInv'
    BY <1>1, DispatchQueue, DispatchThreads DEF DispatchInv
  <1>2. ASSUME DispatchInv, UNCHANGED dispatchVars
        PROVE  DispatchInv'
    <2>1. QueueInv'
      BY <1>2, QueueIdle DEF DispatchInv, dispatchVars
    <2>2. (ThreadsTyped /\ Started /\ HasWork)'
      BY <1>2, SamePhases DEF DispatchInv, ThreadsTyped, dispatchVars, threadVars, queueVars
    <2>3. QED
      BY <2>1, <2>2 DEF DispatchInv
  <1>3. QED
    BY <1>1, <1>2

\* The invariant holds in every reachable state.
LEMMA DispatchInvariant == DispatchSpec => []DispatchInv
  <1>1. QED
    BY DispatchStart, DispatchStep, PTL DEF DispatchSpec

\* Whatever the threads, the supervisor, the operator and the crashes do, rows,
\* tokens and leases are well formed and a row is locked exactly while it runs.
THEOREM GatewayKeepsQueueTyped == DispatchSpec => []QueueTypeOK
  <1>1. DispatchInv => QueueTypeOK
    BY DEF DispatchInv, QueueInv
  <1>2. QED
    BY <1>1, DispatchInvariant, PTL

\* No thread ever holds messages of two conversations under its claim.
THEOREM GatewayKeepsConversationsApart == DispatchSpec => []OneConversationPerClaim
  <1>1. DispatchInv => OneConversationPerClaim
    BY DEF DispatchInv, QueueInv
  <1>2. QED
    BY <1>1, DispatchInvariant, PTL

\* No message is run more often than its retry budget and what the supervisor,
\* the operator and the unguarded writes of the recovery granted it.
THEOREM GatewayStopsPoisonEvents == DispatchSpec => []AttemptsBounded
  <1>1. DispatchInv => AttemptsBounded
    BY BudgetBoundsAttempts DEF DispatchInv
  <1>2. QED
    BY <1>1, DispatchInvariant, PTL

-----------------------------------------------------------------------------
(* The steps and the ledger.                                               *)

LedgerProofs == INSTANCE DeliveryLedgerProofs WITH
    Events <- Ids, Claims <- Threads, NoClaim <- NoThread, NoEvent <- NoId

\* What a thread does to the ledger is a step of the ledger's protocol for its
\* claim and the event of its row.
LEMMA DeliverLedger ==
    ASSUME DispatchInv, NEW t \in Threads, Deliver(t)
    PROVE  Ledger!LedgerNext
  <1>1. Lead(t) \in Ids
    BY RowsAtHand DEF Deliver
  <1>2. \/ Ledger!BeginDelivery(t, Lead(t))
        \/ Ledger!LiveDelivers(t)
        \/ Ledger!LiveAmbiguous(t)
        \/ Ledger!LiveUndelivered(t)
        \/ Ledger!FallbackDelivers(t)
        \/ Ledger!FallbackFails(t)
        \/ Ledger!FinishDelivery(t)
        \/ Ledger!ClearDelivery(t)
    BY DEF Deliver
  <1>3. QED
    BY <1>1, <1>2 DEF Ledger!LedgerNext

\* Every step of the gateway is a step of the ledger or leaves it alone.
LEMMA DispatchLedger ==
    ASSUME DispatchInv, [DispatchNext]_dispatchVars
    PROVE  [Ledger!LedgerNext]_(Ledger!ledgerVars)
  <1>1. ASSUME UNCHANGED ledgerVars
        PROVE  [Ledger!LedgerNext]_(Ledger!ledgerVars)
    BY <1>1 DEF ledgerVars, Ledger!ledgerVars
  <1>2. CASE UNCHANGED dispatchVars
    BY <1>1, <1>2 DEF dispatchVars
  <1>3. ASSUME NEW t \in Threads, Deliver(t)
        PROVE  [Ledger!LedgerNext]_(Ledger!ledgerVars)
    BY <1>3, DeliverLedger
  <1>4. ASSUME NEW dying \in SUBSET Threads, Ledger!Crash(dying)
        PROVE  [Ledger!LedgerNext]_(Ledger!ledgerVars)
    BY <1>4 DEF Ledger!LedgerNext
  <1>5. CASE CrashProcess
    BY <1>4, <1>5 DEF CrashProcess
  <1>6. ASSUME NEW t \in Threads, DeliverRaises(t)
        PROVE  [Ledger!LedgerNext]_(Ledger!ledgerVars)
    BY <1>4, <1>6 DEF DeliverRaises
  <1>7. ASSUME NEW t \in Threads, ThreadStep(t), ~ Deliver(t)
        PROVE  UNCHANGED ledgerVars
    BY <1>7 DEF ThreadStep, TakeSlot, WaitForSlot, BrainReplies, NothingToSend, GateOpens,
                GateRefuses, CompleteOne, FailOne, Decide, ReadRetries, ChargeRetry, Park,
                Steps, OneWritten, Advances
  <1>8. ASSUME NEW t \in Threads, Mishap(t), ~ DeliverRaises(t)
        PROVE  UNCHANGED ledgerVars
    BY <1>8 DEF Mishap, BrainRaises, AdapterFails, CompleteRaises, FailRaises,
                RecoveryRaises, Steps
  <1>9. ASSUME \/ \E c \in Conversations \cup {NoConv}, k \in UserKeys \cup {NoKey} : Receive(c, k)
               \/ RequeueTick
               \/ DispatchOnce
               \/ \E t \in Threads : Heartbeat(t) \/ Lapse(t)
               \/ \E e \in Ids : Backoff(e) \/ Observe(e) \/ SupervisorResets(e)
                                 \/ SupervisorFails(e) \/ Replay(e)
        PROVE  UNCHANGED ledgerVars
    BY <1>9 DEF Receive, RequeueTick, DispatchOnce, Heartbeat, Lapse, Backoff, Observe,
                SupervisorResets, SupervisorFails, Replay, OnlyQueue
  <1>10. QED
    BY <1>1, <1>2, <1>3, <1>5, <1>6, <1>7, <1>8, <1>9 DEF DispatchNext

\* The gateway uses the ledger by its protocol, in any number of threads, with
\* whatever failures, crashes and interventions.
THEOREM GatewayUsesLedger == DispatchSpec => UsesLedger
  <1>1. DispatchInit => Ledger!LedgerInit
    BY DEF DispatchInit
  <1>2. DispatchInv /\ [DispatchNext]_dispatchVars => [Ledger!LedgerNext]_(Ledger!ledgerVars)
    BY DispatchLedger
  <1>3. QED
    BY <1>1, <1>2, DispatchInvariant, PTL DEF DispatchSpec, UsesLedger, Ledger!LedgerSpec

\* The protocol that the gateway names is the one the proofs are about.
LEMMA SameProtocol ==
    /\ Ledger!LedgerInit => LedgerProofs!LedgerInit
    /\ [Ledger!LedgerNext]_(Ledger!ledgerVars)
         => [LedgerProofs!LedgerNext]_(LedgerProofs!ledgerVars)
  <1>1. Ledger!LedgerInit => LedgerProofs!LedgerInit
    BY DEF Ledger!LedgerInit, LedgerProofs!LedgerInit, Ledger!NoRow, LedgerProofs!NoRow
  <1>2. \A c \in Threads, e \in Ids : Ledger!BeginDelivery(c, e) => LedgerProofs!BeginDelivery(c, e)
    BY DEF Ledger!BeginDelivery, LedgerProofs!BeginDelivery, Ledger!Verdict,
           LedgerProofs!Verdict, Ledger!Reservation, LedgerProofs!Reservation
  <1>3. \A c \in Threads : Ledger!LiveDelivers(c) => LedgerProofs!LiveDelivers(c)
    BY DEF Ledger!LiveDelivers, LedgerProofs!LiveDelivers, Ledger!SendMoves,
           LedgerProofs!SendMoves
  <1>4. \A c \in Threads : Ledger!LiveAmbiguous(c) => LedgerProofs!LiveAmbiguous(c)
    BY DEF Ledger!LiveAmbiguous, LedgerProofs!LiveAmbiguous, Ledger!SendMoves,
           LedgerProofs!SendMoves
  <1>5. \A c \in Threads : Ledger!LiveUndelivered(c) => LedgerProofs!LiveUndelivered(c)
    BY DEF Ledger!LiveUndelivered, LedgerProofs!LiveUndelivered, Ledger!SendMoves,
           LedgerProofs!SendMoves
  <1>6. \A c \in Threads : Ledger!FallbackDelivers(c) => LedgerProofs!FallbackDelivers(c)
    BY DEF Ledger!FallbackDelivers, LedgerProofs!FallbackDelivers, Ledger!SendMoves,
           LedgerProofs!SendMoves
  <1>7. \A c \in Threads : Ledger!FallbackFails(c) => LedgerProofs!FallbackFails(c)
    BY DEF Ledger!FallbackFails, LedgerProofs!FallbackFails, Ledger!SendMoves,
           LedgerProofs!SendMoves
  <1>8. \A c \in Threads : Ledger!FinishDelivery(c) => LedgerProofs!FinishDelivery(c)
    BY DEF Ledger!FinishDelivery, LedgerProofs!FinishDelivery, Ledger!Confirmed,
           LedgerProofs!Confirmed
  <1>9. \A c \in Threads : Ledger!ClearDelivery(c) => LedgerProofs!ClearDelivery(c)
    BY DEF Ledger!ClearDelivery, LedgerProofs!ClearDelivery, Ledger!Clears,
           LedgerProofs!Clears, Ledger!Reservation, LedgerProofs!Reservation, Ledger!NoRow,
           LedgerProofs!NoRow
  <1>10. \A dying \in SUBSET Threads : Ledger!Crash(dying) => LedgerProofs!Crash(dying)
    BY DEF Ledger!Crash, LedgerProofs!Crash, Ledger!InFlight, LedgerProofs!InFlight
  <1>11. Ledger!LedgerNext => LedgerProofs!LedgerNext
    BY <1>2, <1>3, <1>4, <1>5, <1>6, <1>7, <1>8, <1>9, <1>10
       DEF Ledger!LedgerNext, LedgerProofs!LedgerNext
  <1>12. UNCHANGED Ledger!ledgerVars => UNCHANGED LedgerProofs!ledgerVars
    BY DEF Ledger!ledgerVars, LedgerProofs!ledgerVars
  <1>13. QED
    BY <1>1, <1>11, <1>12

\* A reply to one row reaches the user at most once when the transport reports
\* truly, whichever threads, leases, restarts and interventions the row goes
\* through.
THEOREM GatewayDeliversAtMostOnce ==
    TransportFaults = {} /\ DispatchSpec => []Ledger!AtMostOnce
  <1> SUFFICES ASSUME TransportFaults = {}
               PROVE  DispatchSpec => []Ledger!AtMostOnce
    OBVIOUS
  <1>0. /\ NoThread \notin Threads
        /\ NoId \notin Ids
        /\ TransportFaults \subseteq {"lateTimeout", "partialSend"}
    BY DEF NoThread, NoId, Threads, Ids
  <1>1. Ledger!LedgerInit => LedgerProofs!LedgerInv
    BY <1>0, SameProtocol, LedgerProofs!LedgerStart
  <1>2. LedgerProofs!LedgerInv /\ [Ledger!LedgerNext]_(Ledger!ledgerVars)
          => LedgerProofs!LedgerInv'
    BY <1>0, SameProtocol, LedgerProofs!LedgerStep
  <1>3. LedgerProofs!LedgerInv => Ledger!AtMostOnce
    BY DEF LedgerProofs!LedgerInv, LedgerProofs!Recorded, Ledger!AtMostOnce
  <1>4. QED
    BY <1>1, <1>2, <1>3, GatewayUsesLedger, PTL DEF UsesLedger, Ledger!LedgerSpec

-----------------------------------------------------------------------------
(* The claim holder's own steps: while no adapter fails, nothing but the   *)
(* final loops and the wait for a slot writes a row for a thread, and      *)
(* every one of these writes names the claim.                              *)

NoAdapterFailures == Failures \subseteq {"error", "locked"}

NoRecovery ==
    /\ \A t \in Threads : phase[t] \notin {"classifying", "recovering", "charging"}
    /\ body \in [Ids -> [covers : SUBSET Nat, listed : {{}}, marks : SUBSET Handoffs]]

\* What a thread may do then.
CalmStep(t) ==
    \/ TakeSlot(t)
    \/ WaitForSlot(t)
    \/ BrainReplies(t)
    \/ NothingToSend(t)
    \/ GateOpens(t)
    \/ GateRefuses(t)
    \/ Deliver(t)
    \/ CompleteOne(t)
    \/ FailOne(t)
    \/ BrainRaises(t)
    \/ DeliverRaises(t)
    \/ CompleteRaises(t)
    \/ FailRaises(t)

LEMMA ThreadsAreCalm ==
    ASSUME NoAdapterFailures, NoRecovery, NEW t \in Threads, ThreadStep(t) \/ Mishap(t)
    PROVE  CalmStep(t)
  <1>1. phase[t] \notin {"classifying", "recovering", "charging"}
    BY DEF NoRecovery
  <1>2. /\ ~ Decide(t) /\ ~ ReadRetries(t) /\ ~ ChargeRetry(t)
        /\ ~ Park(t) /\ ~ RecoveryRaises(t)
    BY <1>1 DEF Decide, ReadRetries, ChargeRetry, Park, RecoveryRaises, Advances, Moves
  <1>3. ~ AdapterFails(t)
    BY DEF AdapterFails, NoAdapterFailures
  <1>4. QED
    BY <1>2, <1>3 DEF ThreadStep, Mishap, CalmStep

\* A calm step moves the thread alone, to a calm phase, and leaves the bodies.
LEMMA CalmMoves ==
    ASSUME DispatchInv, NEW t \in Threads, CalmStep(t)
    PROVE  /\ \E to \in Phases \ {"classifying", "recovering", "charging"} :
                phase' = [phase EXCEPT ![t] = to]
           /\ \A u \in Threads : u # t => left'[u] = left[u]
           /\ UNCHANGED <<todo, body>>
  <1> DEFINE Calm == Phases \ {"classifying", "recovering", "charging"}
  <1>0. phase \in [Threads -> Phases] /\ left \in [Threads -> SUBSET Ids]
    BY DEF DispatchInv, ThreadsTyped
  <1>1. CASE TakeSlot(t) \/ BrainReplies(t) \/ GateOpens(t) \/ FailRaises(t)
    <2>1. PICK from \in Phases, to \in Calm : Steps(t, from, to)
      BY <1>1 DEF TakeSlot, BrainReplies, GateOpens, FailRaises, Phases
    <2>2. QED
      BY <2>1 DEF Steps, Moves, worldVars
  <1>2. CASE \/ NothingToSend(t) \/ GateRefuses(t) \/ BrainRaises(t)
             \/ DeliverRaises(t) \/ CompleteRaises(t)
    <2>1. PICK from \in Phases, to \in Calm : Closes(t, from, to)
      BY <1>2 DEF NothingToSend, GateRefuses, BrainRaises, DeliverRaises, CompleteRaises, Phases
    <2>2. QED
      BY <1>0, <2>1 DEF Closes, Moves, worldVars
  <1>3. CASE Deliver(t)
    <2>1. CASE Closes(t, "send", "closing")
      BY <1>0, <2>1 DEF Closes, Moves, worldVars, Phases
    <2>2. CASE UNCHANGED <<threadVars, worldVars>>
      <3>1. phase[t] \in Calm /\ phase' = [phase EXCEPT ![t] = phase[t]]
        BY <1>0, <1>3, <2>2 DEF Deliver, threadVars, Phases
      <3>2. QED
        BY <2>2, <3>1 DEF threadVars, worldVars
    <2>3. QED
      BY <1>3, <2>1, <2>2 DEF Deliver
  <1>4. CASE CompleteOne(t) \/ FailOne(t)
    <2>1. PICK from \in {"closing", "failing"} : OneWritten(t, from)
      BY <1>4 DEF CompleteOne, FailOne
    <2>2. QED
      BY <1>0, <2>1 DEF OneWritten, worldVars, Phases
  <1>5. CASE WaitForSlot(t)
    BY <1>5 DEF WaitForSlot, Moves, worldVars, Phases
  <1>6. QED
    BY <1>1, <1>2, <1>3, <1>4, <1>5 DEF CalmStep

\* A calm step leaves the table alone, or writes one row that its claim owns.
LEMMA CalmWrites ==
    ASSUME DispatchInv, NEW t \in Threads, CalmStep(t)
    PROVE  \/ UNCHANGED row
           \/ \E e \in Ids : Owns(e, t) /\ \E r : row' = [row EXCEPT ![e] = r]
  <1>1. CASE CompleteOne(t) \/ FailOne(t)
    <2> DEFINE e == NextLeft(t)
    <2>1. e \in Ids
      BY <1>1, RowsAtHand DEF CompleteOne, FailOne, OneWritten
    <2>2. \/ UNCHANGED row
          \/ Owns(e, t) /\ (Complete(e, t) \/ Fail(e, t, MaxRetries))
      BY <1>1 DEF CompleteOne, FailOne, queueVars
    <2> HIDE DEF e
    <2>3. QED
      BY <2>1, <2>2 DEF Complete, Fail
  <1>2. CASE WaitForSlot(t)
    <2> DEFINE e == Lead(t)
    <2>1. e \in Ids
      BY <1>2, RowsAtHand DEF WaitForSlot
    <2>2. UNCHANGED row \/ (Owns(e, t) /\ ResetRunningToQueued(e, t))
      BY <1>2 DEF WaitForSlot, queueVars
    <2> HIDE DEF e
    <2>3. QED
      BY <2>1, <2>2 DEF ResetRunningToQueued
  <1>3. CASE ~ (CompleteOne(t) \/ FailOne(t) \/ WaitForSlot(t))
    BY <1>3 DEF CalmStep, TakeSlot, BrainReplies, NothingToSend, GateOpens, GateRefuses,
                Deliver, BrainRaises, DeliverRaises, CompleteRaises, FailRaises, Steps, queueVars
  <1>4. QED
    BY <1>1, <1>2, <1>3

\* The steps of nobody's thread leave the threads and the bodies alone, apart
\* from a claim, a crash and the body of a new message.
Elsewhere ==
    \/ RequeueTick
    \/ \E t \in Threads : Heartbeat(t) \/ Lapse(t)
    \/ \E e \in Ids : Backoff(e) \/ Observe(e) \/ SupervisorResets(e)
                      \/ SupervisorFails(e) \/ Replay(e)

LEMMA ElsewhereKeepsThreads ==
    ASSUME Elsewhere
    PROVE  UNCHANGED <<threadVars, body>>
  BY DEF Elsewhere, RequeueTick, Heartbeat, Lapse, Backoff, Observe, SupervisorResets,
         SupervisorFails, Replay, OnlyQueue, worldVars

\* The actions, as the proofs below take them apart.
LEMMA CalmCases ==
    ASSUME NoAdapterFailures, NoRecovery, DispatchNext
    PROVE  \/ \E c \in Conversations \cup {NoConv}, k \in UserKeys \cup {NoKey} : Receive(c, k)
           \/ DispatchOnce
           \/ CrashProcess
           \/ \E t \in Threads : CalmStep(t)
           \/ Elsewhere
  BY ThreadsAreCalm DEF DispatchNext, Elsewhere

\* While no adapter fails, no thread recovers from one, and no row lists ids.
LEMMA CalmStays ==
    ASSUME NoAdapterFailures, DispatchInv, NoRecovery, DispatchNext
    PROVE  NoRecovery'
  <1> DEFINE Bodies == [covers : SUBSET Nat, listed : {{}}, marks : SUBSET Handoffs]
  <1>0. /\ \A t \in Threads : phase[t] \notin {"classifying", "recovering", "charging"}
        /\ body \in [Ids -> Bodies]
        /\ phase \in [Threads -> Phases]
    BY DEF NoRecovery, DispatchInv, ThreadsTyped
  <1>1. ASSUME NEW c \in Conversations \cup {NoConv}, NEW k \in UserKeys \cup {NoKey},
               Receive(c, k)
        PROVE  NoRecovery'
    <2> DEFINE new == [NoBody EXCEPT !.covers = {lastId + 1}]
    <2>1. body' = [body EXCEPT ![lastId + 1] = new] /\ UNCHANGED phase
      BY <1>1 DEF Receive, threadVars
    <2>2. lastId \in Nat
      BY QueueBounds DEF DispatchInv, QueueInv, QueueTypeOK, QueueBounds
    <2>3. new \in Bodies
      BY <2>2 DEF NoBody
    <2> HIDE DEF new
    <2>4. body' \in [Ids -> Bodies]
      <3> HIDE DEF Bodies
      <3>1. QED
        BY <1>0, <2>1, <2>3
    <2>5. QED
      BY <1>0, <2>1, <2>4 DEF NoRecovery, Threads
  <1>2. CASE DispatchOnce
    <2> DEFINE to == IF MaxConcurrent = 1 THEN "brain" ELSE "slot"
    <2>1. phase' = [phase EXCEPT ![MintClaimToken] = to] /\ UNCHANGED body
      BY <1>2 DEF DispatchOnce, worldVars
    <2>2. to \notin {"classifying", "recovering", "charging"}
      OBVIOUS
    <2> HIDE DEF to
    <2>3. \A t \in Threads : phase'[t] \in {phase[t], to}
      BY <1>0, <2>1
    <2>4. QED
      BY <1>0, <2>1, <2>2, <2>3 DEF NoRecovery, Threads
  <1>3. CASE CrashProcess
    <2>1. \A t \in Threads : phase'[t] \in {phase[t], "over"}
      BY <1>3 DEF CrashProcess
    <2>2. UNCHANGED body
      BY <1>3 DEF CrashProcess
    <2>3. QED
      BY <1>0, <2>1, <2>2 DEF NoRecovery, Threads
  <1>4. ASSUME NEW t \in Threads, CalmStep(t)
        PROVE  NoRecovery'
    <2>1. PICK to \in Phases \ {"classifying", "recovering", "charging"} :
            phase' = [phase EXCEPT ![t] = to]
      BY <1>4, CalmMoves
    <2>2. UNCHANGED body
      BY <1>4, CalmMoves
    <2>3. \A u \in Threads : phase'[u] \in {phase[u], to}
      BY <1>0, <2>1
    <2>4. QED
      BY <1>0, <2>1, <2>2, <2>3 DEF NoRecovery, Threads
  <1>5. CASE Elsewhere
    <2>1. UNCHANGED <<phase, body>>
      BY <1>5, ElsewhereKeepsThreads DEF threadVars
    <2>2. QED
      BY <2>1 DEF NoRecovery, Threads
  <1>6. QED
    BY <1>1, <1>2, <1>3, <1>4, <1>5, CalmCases

LEMMA CalmInvariant ==
    NoAdapterFailures /\ DispatchSpec => [](DispatchInv /\ NoRecovery)
  <1> SUFFICES ASSUME NoAdapterFailures
               PROVE  DispatchSpec => [](DispatchInv /\ NoRecovery)
    OBVIOUS
  <1>1. DispatchInit => NoRecovery
    BY DEF DispatchInit, NoRecovery, NoBody
  <1>2. DispatchInv /\ NoRecovery /\ [DispatchNext]_dispatchVars => NoRecovery'
    <2>1. ASSUME NoRecovery, UNCHANGED dispatchVars
          PROVE  NoRecovery'
      BY <2>1 DEF NoRecovery, dispatchVars, threadVars, worldVars, Threads
    <2>2. QED
      BY <2>1, CalmStays
  <1>3. QED
    BY <1>1, <1>2, DispatchInvariant, PTL DEF DispatchSpec

\* The owner's writes: a step that moves thread t writes rows of its claim only.
LEMMA MoverOwnsWhatItWrites ==
    ASSUME NoAdapterFailures, DispatchInv, NoRecovery, DispatchNext,
           NEW t \in Threads, NEW e \in Ids,
           phase[t] \in Live,
           <<phase[t], left[t], todo[t]>>' # <<phase[t], left[t], todo[t]>>,
           row'[e] # row[e]
    PROVE  row[e].lockedBy = t
  <1>0. phase \in [Threads -> Phases] /\ row \in [Ids -> Row]
    BY DEF DispatchInv, ThreadsTyped, QueueInv, QueueTypeOK
  <1>1. ASSUME NEW c \in Conversations \cup {NoConv}, NEW k \in UserKeys \cup {NoKey},
               Receive(c, k)
        PROVE  FALSE
    BY <1>1 DEF Receive, threadVars
  <1>2. CASE DispatchOnce
    <2>1. phase[t] # "none"
      BY DEF Live
    <2>2. t # MintClaimToken
      <3>1. minted \in Nat
        BY QueueBounds DEF DispatchInv, QueueInv, QueueTypeOK, QueueBounds
      <3>2. QED
        BY <2>1, <3>1 DEF DispatchInv, Started, MintClaimToken, Threads
    <2>3. phase'[t] = phase[t] /\ UNCHANGED <<left, todo>>
      BY <1>0, <1>2, <2>2 DEF DispatchOnce
    <2>4. QED
      BY <2>3
  <1>3. CASE CrashProcess
    BY <1>3 DEF CrashProcess, queueVars
  <1>4. ASSUME NEW u \in Threads, CalmStep(u)
        PROVE  row[e].lockedBy = t
    <2>1. u = t
      BY <1>0, <1>4, CalmMoves
    <2>2. PICK d \in Ids : Owns(d, u) /\ \E r : row' = [row EXCEPT ![d] = r]
      BY <1>4, CalmWrites
    <2>3. d = e
      BY <1>0, <2>2
    <2>4. QED
      BY <2>1, <2>2, <2>3 DEF Owns
  <1>5. CASE Elsewhere
    BY <1>5, ElsewhereKeepsThreads DEF threadVars
  <1>6. QED
    BY <1>1, <1>2, <1>3, <1>4, <1>5, CalmCases

\* While no adapter fails, a stale thread never writes over an event that
\* another claim, the supervisor, the operator or the clock has taken from it.
THEOREM StaleThreadsAreHarmless ==
    NoAdapterFailures /\ DispatchSpec => StaleWorkerHarmless
  <1> SUFFICES ASSUME NoAdapterFailures
               PROVE  DispatchSpec => StaleWorkerHarmless
    OBVIOUS
  <1> DEFINE Harmless ==
        \A t \in Threads, e \in Ids :
           /\ phase[t] \in Live
           /\ <<phase[t], left[t], todo[t]>>' # <<phase[t], left[t], todo[t]>>
           /\ row[e].status # "absent"
           /\ row'[e] # row[e]
           => row[e].lockedBy = t
  <1>1. DispatchInv /\ NoRecovery /\ [DispatchNext]_dispatchVars => [Harmless]_dispatchVars
    BY MoverOwnsWhatItWrites
  <1>2. QED
    BY <1>1, CalmInvariant, PTL DEF DispatchSpec, StaleWorkerHarmless

\* What is done stays done through every operation but a replay and the
\* unguarded writes.
LEMMA DoneStaysDone ==
    ASSUME NoAdapterFailures, "operator" \notin Outsiders,
           DispatchInv, NoRecovery, DispatchNext,
           NEW e \in Ids, row[e].status = "done"
    PROVE  row'[e].status = "done"
  <1>0. /\ row \in [Ids -> Row] /\ QueueInv
        /\ ~ Expired(e)
    BY DEF DispatchInv, QueueInv, QueueTypeOK, Expired
  <1>1. ASSUME NEW c \in Conversations \cup {NoConv}, NEW k \in UserKeys \cup {NoKey},
               Receive(c, k)
        PROVE  row'[e].status = "done"
    <2>1. lastId + 1 # e
      <3>1. lastId \in Nat /\ e \in Nat
        BY QueueBounds DEF QueueInv, QueueTypeOK, QueueBounds, DispatchInv, Ids
      <3>2. ~ (e > lastId)
        BY <1>0 DEF QueueInv, FreshRows
      <3>3. QED
        BY <3>1, <3>2
    <2>2. Enqueue(c, k, TRUE)
      BY <1>1 DEF Receive
    <2>3. row'[e] = row[e]
      BY <1>0, <2>1, <2>2 DEF Enqueue
    <2>4. QED
      BY <2>3
  <1>2. CASE DispatchOnce
    <2>1. PICK coalesce : Claim(coalesce)
      BY <1>2 DEF DispatchOnce
    <2>2. AfterRequeue[e] = row[e]
      BY <1>0 DEF AfterRequeue
    <2>3. PICK head \in Claimable(AfterRequeue) :
            row' = [d \in Ids |->
                      IF d \in BatchOf(AfterRequeue, head, coalesce)
                      THEN [AfterRequeue[d] EXCEPT !.status = "running",
                                                   !.lockedBy = MintClaimToken]
                      ELSE AfterRequeue[d]]
      BY <2>1 DEF Claim
    <2>4. e \notin BatchOf(AfterRequeue, head, coalesce)
      BY <2>2 DEF BatchOf, Claimable
    <2>5. QED
      BY <2>2, <2>3, <2>4
  <1>3. CASE CrashProcess
    BY <1>3 DEF CrashProcess, queueVars
  <1>4. ASSUME NEW t \in Threads, CalmStep(t)
        PROVE  row'[e].status = "done"
    <2>1. CASE UNCHANGED row
      BY <2>1
    <2>2. CASE \E d \in Ids : Owns(d, t) /\ \E r : row' = [row EXCEPT ![d] = r]
      <3>1. PICK d \in Ids : Owns(d, t) /\ \E r : row' = [row EXCEPT ![d] = r]
        BY <2>2
      <3>2. d # e
        BY <3>1 DEF Owns
      <3>3. QED
        BY <1>0, <3>1, <3>2
    <2>3. QED
      BY <1>4, <2>1, <2>2, CalmWrites
  <1>5. CASE Elsewhere
    <2>1. CASE RequeueTick
      <3>1. row'[e] = row[e]
        BY <1>0, <2>1 DEF RequeueTick, RequeueExpired, AfterRequeue
      <3>2. QED
        BY <3>1
    <2>2. ASSUME NEW t \in Threads, Heartbeat(t) \/ Lapse(t)
          PROVE  row'[e].status = "done"
      BY <2>2 DEF Heartbeat, Lapse, RenewLease, LeaseLapses
    <2>3. ASSUME NEW d \in Ids, Observe(d) \/ Replay(d)
          PROVE  row'[e].status = "done"
      BY <2>3 DEF Observe, Replay, queueVars
    <2>4. ASSUME NEW d \in Ids, Backoff(d) \/ SupervisorResets(d) \/ SupervisorFails(d)
          PROVE  row'[e].status = "done"
      <3>1. d # e
        BY <2>4 DEF Backoff, BackoffElapses, SupervisorResets, ResetRunningToQueued, Owns,
                    SupervisorFails, MarkEventFailed
      <3>2. \A x \in Ids : x # d => row'[x] = row[x]
        BY <1>0, <2>4 DEF Backoff, BackoffElapses, SupervisorResets, ResetRunningToQueued,
                          SupervisorFails, MarkEventFailed
      <3>3. QED
        BY <3>1, <3>2
    <2>5. QED
      BY <1>5, <2>1, <2>2, <2>3, <2>4 DEF Elsewhere
  <1>6. QED
    BY <1>1, <1>2, <1>3, <1>4, <1>5, CalmCases

\* While no adapter fails and no operator replays it, a finished event is never
\* run again: no expired lease, reset or late writer brings it back.
THEOREM DoneEventsStayDone ==
    NoAdapterFailures /\ "operator" \notin Outsiders /\ DispatchSpec => DoneIsFinal
  <1> SUFFICES ASSUME NoAdapterFailures, "operator" \notin Outsiders
               PROVE  DispatchSpec => DoneIsFinal
    OBVIOUS
  <1> DEFINE Stays == \A e \in Ids : row[e].status = "done" => row'[e].status = "done"
  <1>1. DispatchInv /\ NoRecovery /\ [DispatchNext]_dispatchVars => [Stays]_dispatchVars
    BY DoneStaysDone
  <1>2. QED
    BY <1>1, CalmInvariant, PTL DEF DispatchSpec, DoneIsFinal

-----------------------------------------------------------------------------
(* One reply for each message.  Without coalescing, and while no event is  *)
(* handed on as a copy of itself, a claim holds one row, the row holds one *)
(* message, and what is delivered for the row is all that answers it.      *)

OneRowPerClaim ==
    /\ Handoffs \cap Failures = {}
    /\ Coalesce = FALSE \/ MaxConcurrent # 1

\* The histories count numbers; a thread has one row; a row covers itself; and
\* a message was answered only by replies to its row.
OwnReplies ==
    /\ replies \in [Ids -> Nat] /\ answered \in [Ids -> Nat]
    /\ \A m \in Ids : answered[m] =< replies[m]

OwnMessage == \A e \in Ids : body[e].covers \subseteq {e}

SingleRows == \A t \in Threads : \A d, e \in batch[t] : d = e

SingleMessages ==
    /\ OwnReplies
    /\ body \in [Ids -> [covers : SUBSET Nat, listed : SUBSET Nat, marks : SUBSET Handoffs]]
    /\ OwnMessage
    /\ SingleRows

\* What a thread that works stands for is its row's message alone.
LEMMA BundleIsRow ==
    ASSUME DispatchInv, SingleMessages, NEW t \in Threads, phase[t] # "none"
    PROVE  Lead(t) \in Ids /\ Bundle(t) = body[Lead(t)] /\ Bundle(t).covers \subseteq {Lead(t)}
  <1>1. Lead(t) \in Ids
    BY RowsAtHand
  <1>2. batch[t] # {} /\ \A d, e \in batch[t] : d = e
    BY DEF DispatchInv, HasWork, SingleMessages, SingleRows
  <1>3. PICK e : batch[t] = {e}
    BY <1>2
  <1>4. Cardinality(batch[t]) = 1
    BY <1>3, FS_Singleton
  <1>5. Bundle(t) = body[Lead(t)]
    BY <1>4 DEF Bundle
  <1>6. QED
    BY <1>1, <1>5 DEF SingleMessages, OwnMessage

\* A step of a delivery adds to the replies of one event, or to none.
LEMMA RepliesGrow ==
    ASSUME NEW t \in Threads, Deliver(t), replies \in [Ids -> Nat]
    PROVE  replies' \in [Ids -> Nat] /\ \A e \in Ids : replies[e] =< replies'[e]
  <1>1. ASSUME NEW from, NEW to, NEW n \in {0, 1}, Ledger!SendMoves(t, from, to, n)
        PROVE  replies' \in [Ids -> Nat] /\ \A e \in Ids : replies[e] =< replies'[e]
    <2>1. replies' = [replies EXCEPT ![target[t]] = replies[target[t]] + n]
      BY <1>1 DEF Ledger!SendMoves
    <2>2. \A e \in Ids : replies'[e] = replies[e] \/ replies'[e] = replies[e] + n
      BY <2>1
    <2>3. \A e \in Ids : replies[e] + n \in Nat /\ replies[e] =< replies[e] + n
      BY <1>1
    <2>4. \A e \in Ids : replies'[e] \in Nat /\ replies[e] =< replies'[e]
      BY <2>2, <2>3
    <2>5. DOMAIN replies' = Ids
      BY <2>1
    <2>6. QED
      BY <2>1, <2>4, <2>5
  <1>2. CASE UNCHANGED replies
    BY <1>2
  <1>3. \/ UNCHANGED replies
        \/ \E from, to, n : n \in {0, 1} /\ Ledger!SendMoves(t, from, to, n)
    <2>1. CASE \/ Ledger!BeginDelivery(t, Lead(t)) \/ Ledger!FinishDelivery(t)
               \/ Ledger!ClearDelivery(t)
      BY <2>1 DEF Ledger!BeginDelivery, Ledger!FinishDelivery, Ledger!ClearDelivery
    <2>2. CASE Ledger!LiveDelivers(t) \/ Ledger!FallbackDelivers(t)
      BY <2>2 DEF Ledger!LiveDelivers, Ledger!FallbackDelivers
    <2>3. CASE Ledger!LiveAmbiguous(t) \/ Ledger!LiveUndelivered(t) \/ Ledger!FallbackFails(t)
      BY <2>3 DEF Ledger!LiveAmbiguous, Ledger!LiveUndelivered, Ledger!FallbackFails
    <2>4. QED
      BY <2>1, <2>2, <2>3 DEF Deliver
  <1>4. QED
    BY <1>1, <1>2, <1>3

\* What a delivery brings to the user counts for the message of its row.
LEMMA DeliverAnswers ==
    ASSUME DispatchInv, SingleMessages, NEW t \in Threads, Deliver(t)
    PROVE  OwnReplies'
  <1>1. phase[t] # "none"
    BY DEF Deliver
  <1>2. Lead(t) \in Ids /\ Bundle(t).covers \subseteq {Lead(t)}
    BY <1>1, BundleIsRow
  <1>3. /\ replies \in [Ids -> Nat] /\ answered \in [Ids -> Nat]
        /\ \A m \in Ids : answered[m] =< replies[m]
    BY DEF SingleMessages, OwnReplies
  <1>4. replies' \in [Ids -> Nat] /\ \A e \in Ids : replies[e] =< replies'[e]
    BY <1>3, RepliesGrow
  <1> DEFINE more == replies'[Lead(t)] - replies[Lead(t)]
  <1>5. answered' = [m \in Ids |-> IF m \in Bundle(t).covers THEN answered[m] + more
                                                             ELSE answered[m]]
    BY DEF Deliver
  <1>6. more \in Nat
    BY <1>2, <1>3, <1>4
  <1>7. ASSUME NEW m \in Ids
        PROVE  answered'[m] \in Nat /\ answered'[m] =< replies'[m]
    <2>1. CASE m \in Bundle(t).covers
      <3>1. m = Lead(t) /\ answered'[m] = answered[m] + more
        BY <1>2, <1>5, <2>1
      <3>2. QED
        BY <1>2, <1>3, <1>4, <1>6, <3>1
    <2>2. CASE m \notin Bundle(t).covers
      <3>1. answered'[m] = answered[m]
        BY <1>5, <2>2
      <3>2. QED
        BY <1>3, <1>4, <3>1
    <2>3. QED
      BY <2>1, <2>2
  <1>8. answered' \in [Ids -> Nat]
    BY <1>5, <1>7
  <1>9. QED
    BY <1>4, <1>7, <1>8 DEF OwnReplies

\* Without coalescing a claim takes one row, which has a token of its own.
LEMMA ClaimTakesOne ==
    ASSUME DispatchInv, OneRowPerClaim, SingleRows, DispatchOnce
    PROVE  SingleRows'
  <1> DEFINE new == minted + 1
             rows == {e \in Ids : row'[e].lockedBy = new}
  <1>1. QueueTypeOK /\ batch \in [Threads -> SUBSET Ids] /\ minted \in Nat
    BY QueueBounds DEF DispatchInv, QueueInv, QueueTypeOK, QueueBounds, ThreadsTyped
  <1>2. batch' = [batch EXCEPT ![new] = rows] /\ Claim(FALSE)
    <2>1. (Coalesce /\ MaxConcurrent = 1) = FALSE
      BY DispatchConstants DEF OneRowPerClaim, DispatchConstants
    <2>2. QED
      BY <2>1 DEF DispatchOnce, MintClaimToken
  <1>3. PICK head \in Ids :
          \A e \in Ids : e # head => row'[e] = AfterRequeue[e]
    <2>1. PICK head \in Claimable(AfterRequeue) :
            row' = [e \in Ids |->
                      IF e \in BatchOf(AfterRequeue, head, FALSE)
                      THEN [AfterRequeue[e] EXCEPT !.status = "running",
                                                   !.lockedBy = MintClaimToken]
                      ELSE AfterRequeue[e]]
      BY <1>2 DEF Claim
    <2>2. head \in Ids /\ BatchOf(AfterRequeue, head, FALSE) = {head}
      BY DEF BatchOf, Claimable
    <2>3. QED
      BY <2>1, <2>2
  <1>4. ASSUME NEW e \in rows
        PROVE  e = head
    <2>1. SUFFICES ASSUME e # head
                   PROVE  FALSE
      OBVIOUS
    <2>2. row'[e].lockedBy = new /\ row'[e] = AfterRequeue[e]
      BY <1>3, <2>1
    <2>3. AfterRequeue[e].lockedBy \in {NULL, row[e].lockedBy} /\ row[e].lockedBy \in 0 .. minted
      BY <1>1, AfterRequeueRows DEF QueueTypeOK
    <2>4. QED
      BY <1>1, <2>2, <2>3 DEF NULL
  <1> HIDE DEF new, rows
  <1>5. \A t \in Threads : batch'[t] = batch[t] \/ batch'[t] = rows
    BY <1>1, <1>2
  <1>6. QED
    BY <1>4, <1>5 DEF SingleRows, Threads

LEMMA NothingSent ==
    ASSUME SingleMessages, UNCHANGED <<replies, answered, body, batch>>
    PROVE  SingleMessages'
  BY DEF SingleMessages, OwnReplies, OwnMessage, SingleRows

\* Every other step leaves alone what the claims hold, what the rows say and what
\* was answered; Decide too, for no failure leads to a copy.
LEMMA OthersSendNothing ==
    ASSUME OneRowPerClaim, DispatchNext,
           ~ \E c \in Conversations \cup {NoConv}, k \in UserKeys \cup {NoKey} : Receive(c, k),
           ~ DispatchOnce,
           ~ \E t \in Threads : Deliver(t)
    PROVE  UNCHANGED <<replies, answered, body, batch>>
  <1>1. ASSUME \/ RequeueTick
               \/ \E t \in Threads : Heartbeat(t) \/ Lapse(t)
               \/ \E e \in Ids : Backoff(e) \/ Observe(e) \/ SupervisorResets(e)
                                 \/ SupervisorFails(e) \/ Replay(e)
        PROVE  UNCHANGED <<replies, answered, body, batch>>
    BY <1>1 DEF RequeueTick, Heartbeat, Lapse, Backoff, Observe, SupervisorResets,
                SupervisorFails, Replay, OnlyQueue, ledgerVars, threadVars, worldVars
  <1>2. CASE CrashProcess
    BY <1>2 DEF CrashProcess, Ledger!Crash
  <1>3. ASSUME NEW t \in Threads, Decide(t)
        PROVE  UNCHANGED <<replies, answered, body, batch>>
    BY <1>3 DEF Decide, OneRowPerClaim, ledgerVars
  <1>4. ASSUME NEW t \in Threads, ThreadStep(t), ~ Deliver(t), ~ Decide(t)
        PROVE  UNCHANGED <<replies, answered, body, batch>>
    BY <1>4 DEF ThreadStep, TakeSlot, WaitForSlot, BrainReplies, NothingToSend, GateOpens,
                GateRefuses, CompleteOne, FailOne, ReadRetries, ChargeRetry, Park,
                Steps, Closes, OneWritten, Advances, ledgerVars, worldVars
  <1>5. ASSUME NEW t \in Threads, Mishap(t)
        PROVE  UNCHANGED <<replies, answered, body, batch>>
    BY <1>5 DEF Mishap, BrainRaises, AdapterFails, DeliverRaises, CompleteRaises, FailRaises,
                RecoveryRaises, Steps, Closes, Ledger!Crash, ledgerVars, worldVars
  <1>6. QED
    BY <1>1, <1>2, <1>3, <1>4, <1>5 DEF DispatchNext

LEMMA SingleStays ==
    ASSUME OneRowPerClaim, DispatchInv, SingleMessages, DispatchNext
    PROVE  SingleMessages'
  <1> DEFINE Bodies == [covers : SUBSET Nat, listed : SUBSET Nat, marks : SUBSET Handoffs]
  <1>0. body \in [Ids -> Bodies] /\ OwnMessage /\ SingleRows /\ OwnReplies
    BY DEF SingleMessages
  <1>1. ASSUME NEW c \in Conversations \cup {NoConv}, NEW k \in UserKeys \cup {NoKey},
               Receive(c, k)
        PROVE  SingleMessages'
    <2> DEFINE new == [NoBody EXCEPT !.covers = {lastId + 1}]
    <2>1. /\ body' = [body EXCEPT ![lastId + 1] = new]
          /\ UNCHANGED <<replies, answered, batch>>
      BY <1>1 DEF Receive, threadVars, ledgerVars
    <2>2. lastId \in Nat
      BY QueueBounds DEF DispatchInv, QueueInv, QueueTypeOK, QueueBounds
    <2>3. new \in Bodies /\ new.covers = {lastId + 1}
      BY <2>2 DEF NoBody
    <2> HIDE DEF new
    <2>4. body' \in [Ids -> Bodies]
      <3> HIDE DEF Bodies
      <3>1. QED
        BY <1>0, <2>1, <2>3
    <2>5. OwnMessage'
      <3> SUFFICES ASSUME NEW e \in Ids
                   PROVE  body'[e].covers \subseteq {e}
        BY DEF OwnMessage, Ids
      <3>1. body'[e] = IF e = lastId + 1 THEN new ELSE body[e]
        <4> HIDE DEF Bodies
        <4>1. DOMAIN body = Ids
          BY <1>0
        <4>2. QED
          BY <2>1, <4>1
      <3>2. QED
        BY <1>0, <2>3, <3>1 DEF OwnMessage
    <2>6. (OwnReplies /\ SingleRows)'
      BY <1>0, <2>1 DEF OwnReplies, SingleRows
    <2>7. QED
      BY <2>4, <2>5, <2>6 DEF SingleMessages
  <1>2. CASE DispatchOnce
    <2>1. SingleRows' /\ UNCHANGED <<replies, answered, body>>
      BY <1>0, <1>2, ClaimTakesOne DEF DispatchOnce, ledgerVars, worldVars
    <2>2. QED
      BY <2>1 DEF SingleMessages, OwnReplies, OwnMessage
  <1>3. ASSUME NEW t \in Threads, Deliver(t)
        PROVE  SingleMessages'
    <2>1. UNCHANGED <<body, batch>>
      BY <1>3 DEF Deliver, Closes, threadVars, worldVars
    <2>2. OwnReplies'
      BY <1>3, DeliverAnswers
    <2>3. QED
      BY <2>1, <2>2 DEF SingleMessages, OwnMessage, SingleRows
  <1>4. QED
    BY <1>1, <1>2, <1>3, OthersSendNothing, NothingSent

\* No message is answered twice, whichever claims, leases, failures, crashes,
\* resets and replays its row goes through, in serial and in parallel mode, while
\* messages are not coalesced (which is the default) and no failure hands an event
\* on as a copy of itself; the transport must report truly.
THEOREM MessagesAnsweredOnce ==
    OneRowPerClaim /\ TransportFaults = {} /\ DispatchSpec => []AnsweredOnce
  <1> SUFFICES ASSUME OneRowPerClaim, TransportFaults = {}
               PROVE  DispatchSpec => []AnsweredOnce
    OBVIOUS
  <1>1. DispatchInit => SingleMessages
    BY DEF DispatchInit, Ledger!LedgerInit, NoBody, SingleMessages, OwnReplies, OwnMessage,
           SingleRows
  <1>2. DispatchInv /\ SingleMessages /\ [DispatchNext]_dispatchVars => SingleMessages'
    <2>1. ASSUME SingleMessages, UNCHANGED dispatchVars
          PROVE  SingleMessages'
      BY <2>1, NothingSent DEF dispatchVars, threadVars, worldVars, ledgerVars
    <2>2. QED
      BY <2>1, SingleStays
  <1>3. SingleMessages /\ Ledger!AtMostOnce => AnsweredOnce
    <2> SUFFICES ASSUME SingleMessages, Ledger!AtMostOnce, NEW m \in Ids
                 PROVE  answered[m] <= 1
      BY DEF AnsweredOnce
    <2>1. /\ answered[m] \in Nat /\ replies[m] \in Nat
          /\ answered[m] =< replies[m] /\ replies[m] <= 1
      BY DEF SingleMessages, OwnReplies, Ledger!AtMostOnce
    <2>2. QED
      BY <2>1
  <1>4. DispatchSpec => []Ledger!AtMostOnce
    BY GatewayDeliversAtMostOnce
  <1>5. QED
    BY <1>1, <1>2, <1>3, <1>4, DispatchInvariant, PTL DEF DispatchSpec

-----------------------------------------------------------------------------
(* The types of the gateway, and what its threads hold.                    *)

\* What the recovery decision of a thread may have left to write.
Plans == {<<>>, <<"park">>} \cup {Plan(kind) : kind \in Failures \ {"error", "locked"}}
         \cup {Plan("bad_input"), Plan("transient")}

\* A claim that was minted has its thread and a thread its claim; a final loop
\* writes rows of the claim alone; a recovery that goes on has something to do.
WorkKept ==
    /\ todo \in [Threads -> Plans]
    /\ \A t \in Threads :
         /\ t <= minted => phase[t] # "none"
         /\ t > minted => batch[t] = {}
         /\ left[t] \subseteq batch[t]
         /\ phase[t] \in {"recovering", "charging"} => todo[t] # <<>>

Bodies == [covers : SUBSET Ids, listed : SUBSET Ids, marks : SUBSET Handoffs]

WorldTyped ==
    /\ body \in [Ids -> Bodies]
    /\ observed \in [Ids -> 0 .. MaxClaims]
    /\ crashes \in 0 .. MaxCrashes
    /\ replies \in [Ids -> Nat]
    /\ answered \in [Ids -> Nat]

\* The ledger has an open delivery of a thread only while that thread sends.
SendsOpenly ==
    /\ DOMAIN sender = Threads
    /\ \A t \in Threads : sender[t] \in Ledger!InFlight => phase[t] = "send"

\* When one step of a plan is done, the rest of it is a plan.
LEMMA PlanGoesOn ==
    ASSUME NEW plan \in Plans, plan # <<>>
    PROVE  /\ Tail(plan) \in Plans
           /\ Len(plan) # 1 => Tail(plan) # <<>>
  <1>1. plan \in {<<"park">>, <<"retry">>, <<"fail">>, <<"fail", "park">>, <<"fail", "retry">>}
    <2>1. \A kind \in FailureKinds \ {"error", "locked"} :
            Plan(kind) \in {<<"park">>, <<"retry">>, <<"fail">>, <<"fail", "park">>, <<"fail", "retry">>}
      BY DEF Plan, FailureKinds, Handoffs
    <2>2. Failures \subseteq FailureKinds /\ {"bad_input", "transient"} \subseteq FailureKinds
      BY DispatchConstants DEF DispatchConstants, FailureKinds
    <2>3. QED
      BY <2>1, <2>2 DEF Plans
  <1>2. <<>> \in Plans /\ <<"park">> \in Plans /\ <<"retry">> \in Plans
    BY DEF Plans, Plan
  <1>3. ASSUME NEW what, plan = <<what>>
        PROVE  Tail(plan) = <<>> /\ Len(plan) = 1
    BY <1>3
  <1>4. ASSUME NEW what, NEW last, plan = <<what, last>>
        PROVE  Tail(plan) = <<last>> /\ Tail(plan) # <<>>
    BY <1>4
  <1>5. CASE plan = <<"park">> \/ plan = <<"retry">> \/ plan = <<"fail">>
    <2>1. Tail(plan) = <<>> /\ Len(plan) = 1
      BY <1>3, <1>5
    <2>2. QED
      BY <1>2, <2>1
  <1>6. CASE plan = <<"fail", "park">>
    <2>1. Tail(plan) = <<"park">> /\ Tail(plan) # <<>>
      BY <1>4, <1>6
    <2>2. QED
      BY <1>2, <2>1
  <1>7. CASE plan = <<"fail", "retry">>
    <2>1. Tail(plan) = <<"retry">> /\ Tail(plan) # <<>>
      BY <1>4, <1>7
    <2>2. QED
      BY <1>2, <2>1
  <1>8. QED
    BY <1>1, <1>5, <1>6, <1>7

\* A thread that was started moves, and has what its new phase needs.
LEMMA WorkMoves ==
    ASSUME DispatchInv, WorkKept, NEW t \in Threads, NEW to \in Phases \ {"none"},
           phase' = [phase EXCEPT ![t] = to],
           todo' \in [Threads -> Plans],
           \A u \in Threads : u # t => todo'[u] = todo[u],
           to \in {"recovering", "charging"} => todo'[t] # <<>>,
           \A u \in Threads : left'[u] \subseteq batch[u],
           UNCHANGED <<batch, minted>>
    PROVE  WorkKept'
  <1>1. \A u \in Threads : phase'[u] = IF u = t THEN to ELSE phase[u]
    BY DEF DispatchInv, ThreadsTyped
  <1>2. QED
    BY <1>1 DEF WorkKept, Threads

\* Only a claim mints a token.
LEMMA ThreadsMintNothing ==
    ASSUME NEW t \in Threads, ThreadStep(t) \/ Mishap(t)
    PROVE  UNCHANGED <<batch, minted>>
  <1>1. CASE Decide(t)
    <2>1. UNCHANGED queueVars \/ \E kind \in Failures : HandOff(t, kind)
      BY <1>1 DEF Decide
    <2>2. UNCHANGED minted
      BY <2>1 DEF HandOff, Enqueue, queueVars
    <2>3. QED
      BY <1>1, <2>2 DEF Decide
  <1>2. CASE ThreadStep(t) /\ ~ Decide(t)
    BY <1>2 DEF ThreadStep, TakeSlot, WaitForSlot, BrainReplies, NothingToSend, GateOpens,
                GateRefuses, Deliver, CompleteOne, FailOne, ReadRetries, ChargeRetry, Park,
                Steps, Closes, OneWritten, Advances, ResetRunningToQueued, Complete, Fail,
                FailUnguarded, MarkEventFailed, queueVars, threadVars
  <1>3. CASE Mishap(t)
    BY <1>3 DEF Mishap, BrainRaises, AdapterFails, DeliverRaises, CompleteRaises, FailRaises,
                RecoveryRaises, Steps, Closes, queueVars
  <1>4. QED
    BY <1>1, <1>2, <1>3

\* A live thread keeps its work in order.
LEMMA ThreadStepWork ==
    ASSUME DispatchInv, WorkKept, NEW t \in Threads, ThreadStep(t) \/ Mishap(t)
    PROVE  WorkKept'
  <1>0. /\ phase \in [Threads -> Phases] /\ left \in [Threads -> SUBSET Ids]
        /\ todo \in [Threads -> Plans] /\ \A u \in Threads : left[u] \subseteq batch[u]
        /\ UNCHANGED <<batch, minted>>
    BY ThreadsMintNothing DEF DispatchInv, ThreadsTyped, WorkKept
  <1>1. ASSUME NEW from \in Phases, NEW to \in Phases \ {"none", "recovering", "charging"},
               Moves(t, from, to), UNCHANGED <<left, todo>>
        PROVE  WorkKept'
    BY <1>0, <1>1, WorkMoves DEF Moves
  <1>2. ASSUME NEW from \in Phases, NEW to \in Phases \ {"none", "recovering", "charging"},
               Closes(t, from, to)
        PROVE  WorkKept'
    <2>1. phase' = [phase EXCEPT ![t] = to] /\ UNCHANGED todo
          /\ left' = [left EXCEPT ![t] = batch[t]]
      BY <1>2 DEF Closes, Moves
    <2>2. \A u \in Threads : left'[u] \subseteq batch[u]
      BY <1>0, <2>1
    <2>3. QED
      BY <1>0, <2>1, <2>2, WorkMoves
  <1>3. CASE \/ TakeSlot(t) \/ BrainReplies(t) \/ GateOpens(t) \/ FailRaises(t)
             \/ AdapterFails(t)
    <2>1. PICK from \in Phases, to \in Phases \ {"none", "recovering", "charging"} :
            Steps(t, from, to)
      BY <1>3 DEF TakeSlot, BrainReplies, GateOpens, FailRaises, AdapterFails, Phases
    <2>2. QED
      BY <1>1, <2>1 DEF Steps
  <1>4. CASE WaitForSlot(t)
    BY <1>1, <1>4 DEF WaitForSlot, Phases
  <1>5. CASE \/ NothingToSend(t) \/ GateRefuses(t) \/ BrainRaises(t)
             \/ DeliverRaises(t) \/ CompleteRaises(t)
    <2>1. PICK from \in Phases, to \in Phases \ {"none", "recovering", "charging"} :
            Closes(t, from, to)
      BY <1>5 DEF NothingToSend, GateRefuses, BrainRaises, DeliverRaises, CompleteRaises, Phases
    <2>2. QED
      BY <1>2, <2>1
  <1>6. CASE Deliver(t)
    <2>1. CASE Closes(t, "send", "closing")
      BY <1>2, <2>1 DEF Phases
    <2>2. CASE UNCHANGED <<threadVars, worldVars>>
      BY <1>0, <2>2 DEF WorkKept, threadVars
    <2>3. QED
      BY <1>6, <2>1, <2>2 DEF Deliver
  <1>7. CASE CompleteOne(t) \/ FailOne(t)
    <2>1. PICK from \in {"closing", "failing"} : OneWritten(t, from)
      BY <1>7 DEF CompleteOne, FailOne
    <2> DEFINE to == IF left[t] = {NextLeft(t)} THEN "over" ELSE from
    <2>2. /\ phase' = [phase EXCEPT ![t] = to] /\ UNCHANGED todo
          /\ left' = [left EXCEPT ![t] = left[t] \ {NextLeft(t)}]
      BY <2>1 DEF OneWritten
    <2>3. to \in Phases \ {"none", "recovering", "charging"}
      BY DEF Phases
    <2>4. \A u \in Threads : left'[u] \subseteq batch[u]
      BY <1>0, <2>2
    <2> HIDE DEF to
    <2>5. QED
      BY <1>0, <2>2, <2>3, <2>4, WorkMoves
  <1>8. CASE Decide(t)
    <2>1. PICK plan \in Plans \ {<<>>} : todo' = [todo EXCEPT ![t] = plan]
      <3>1. \A kind \in Failures \ {"error", "locked"} :
              /\ Plan(kind) \in Plans \ {<<>>}
              /\ Plan(IF kind \in Handoffs THEN "bad_input" ELSE kind) \in Plans \ {<<>>}
        <4>1. SUFFICES ASSUME NEW kind \in Failures \ {"error", "locked"}
                       PROVE  /\ Plan(kind) \in Plans /\ Plan("bad_input") \in Plans
                              /\ Plan(kind) # <<>> /\ Plan("bad_input") # <<>>
          OBVIOUS
        <4>2. Plan(kind) \in Plans /\ Plan("bad_input") \in Plans
          BY DEF Plans
        <4>3. kind \in FailureKinds \ {"error", "locked"}
          BY DispatchConstants DEF DispatchConstants
        <4>4. Plan(kind) # <<>> /\ Plan("bad_input") # <<>>
          BY <4>3 DEF Plan, FailureKinds, Handoffs
        <4>5. QED
          BY <4>2, <4>4
      <3>2. \E kind \in Failures \ {"error", "locked"} :
              \/ todo' = [todo EXCEPT ![t] = Plan(kind)]
              \/ todo' = [todo EXCEPT ![t] = Plan(IF kind \in Handoffs THEN "bad_input" ELSE kind)]
        BY <1>8 DEF Decide
      <3>3. QED
        BY <3>1, <3>2
    <2>2. phase' = [phase EXCEPT ![t] = "recovering"] /\ UNCHANGED left
      BY <1>8 DEF Decide, Moves
    <2>3. todo' \in [Threads -> Plans] /\ todo'[t] # <<>>
          /\ \A u \in Threads : u # t => todo'[u] = todo[u]
      BY <1>0, <2>1
    <2>4. "recovering" \in Phases \ {"none"}
      BY DEF Phases
    <2>5. QED
      BY <1>0, <2>2, <2>3, <2>4, WorkMoves
  <1>9. CASE ReadRetries(t)
    <2>1. /\ phase[t] = "recovering" /\ phase' = [phase EXCEPT ![t] = "charging"]
          /\ UNCHANGED <<left, todo>>
      BY <1>9 DEF ReadRetries, Moves
    <2>2. todo[t] # <<>>
      BY <2>1 DEF WorkKept
    <2>3. "charging" \in Phases \ {"none"}
      BY DEF Phases
    <2>4. QED
      BY <1>0, <2>1, <2>2, <2>3, WorkMoves
  <1>10. ASSUME NEW from \in {"recovering", "charging"}, Advances(t, from)
         PROVE  WorkKept'
    <2> DEFINE to == IF Len(todo[t]) = 1 THEN "over" ELSE "recovering"
    <2>1. /\ phase[t] = from /\ phase' = [phase EXCEPT ![t] = to]
          /\ todo' = [todo EXCEPT ![t] = Tail(todo[t])] /\ UNCHANGED left
      BY <1>10 DEF Advances, Moves
    <2>2. todo[t] \in Plans /\ todo[t] # <<>>
      BY <1>0, <2>1 DEF WorkKept
    <2>3. /\ Tail(todo[t]) \in Plans
          /\ to = "recovering" => Tail(todo[t]) # <<>>
      BY <2>2, PlanGoesOn
    <2>4. to \in Phases \ {"none", "charging"}
      BY DEF Phases
    <2> HIDE DEF to
    <2>5. todo' \in [Threads -> Plans] /\ todo'[t] = Tail(todo[t])
          /\ \A u \in Threads : u # t => todo'[u] = todo[u]
      BY <1>0, <2>1, <2>3
    <2>6. QED
      BY <1>0, <2>1, <2>3, <2>4, <2>5, WorkMoves
  <1>11. CASE ChargeRetry(t) \/ Park(t)
    BY <1>10, <1>11 DEF ChargeRetry, Park
  <1>12. CASE RecoveryRaises(t)
    <2>1. PICK to \in {"recovering", "over"}, plan \in {<<"retry">>, <<>>} :
            /\ phase' = [phase EXCEPT ![t] = to]
            /\ todo' = [todo EXCEPT ![t] = plan]
            /\ to = "recovering" => plan = <<"retry">>
      BY <1>12 DEF RecoveryRaises
    <2>2. plan \in Plans /\ (to = "recovering" => plan # <<>>)
      BY <2>1 DEF Plans, Plan
    <2>3. todo' \in [Threads -> Plans] /\ todo'[t] = plan
          /\ \A u \in Threads : u # t => todo'[u] = todo[u]
      BY <1>0, <2>1, <2>2
    <2>4. to \in Phases \ {"none", "charging"} /\ UNCHANGED left
      BY <1>12 DEF Phases, RecoveryRaises
    <2>5. QED
      BY <1>0, <2>1, <2>2, <2>3, <2>4, WorkMoves
  <1>13. QED
    BY <1>3, <1>4, <1>5, <1>6, <1>7, <1>8, <1>9, <1>11, <1>12 DEF ThreadStep, Mishap

\* Every step keeps the work of the threads in order.
LEMMA DispatchWork ==
    ASSUME DispatchInv, WorkKept, DispatchNext
    PROVE  WorkKept'
  <1>1. ASSUME \/ \E c \in Conversations \cup {NoConv}, k \in UserKeys \cup {NoKey} : Receive(c, k)
               \/ Elsewhere
        PROVE  WorkKept'
    <2>1. UNCHANGED threadVars
      BY <1>1, ElsewhereKeepsThreads DEF Receive
    <2>2. UNCHANGED minted
      <3>1. ASSUME NEW c, NEW k, Receive(c, k) PROVE UNCHANGED minted
        BY <3>1 DEF Receive, Enqueue
      <3>2. ASSUME Elsewhere PROVE UNCHANGED minted
        BY <3>2 DEF Elsewhere, RequeueTick, Heartbeat, Lapse, Backoff, Observe,
                    SupervisorResets, SupervisorFails, Replay, RequeueExpired, RenewLease,
                    LeaseLapses, BackoffElapses, ResetRunningToQueued, MarkEventFailed,
                    RetryNow, queueVars
      <3>3. QED
        BY <1>1, <3>1, <3>2
    <2>3. QED
      BY <2>1, <2>2 DEF WorkKept, threadVars
  <1>2. CASE DispatchOnce
    <2> DEFINE new == minted + 1
               to == IF MaxConcurrent = 1 THEN "brain" ELSE "slot"
               rows == {e \in Ids : row'[e].lockedBy = new}
    <2>1. /\ phase' = [phase EXCEPT ![new] = to] /\ batch' = [batch EXCEPT ![new] = rows]
          /\ UNCHANGED <<left, todo>> /\ minted' = minted + 1
      BY <1>2 DEF DispatchOnce, MintClaimToken, Claim
    <2>2. minted \in Nat
      BY QueueBounds DEF DispatchInv, QueueInv, QueueTypeOK, QueueBounds
    <2>3. to \notin {"none", "recovering", "charging"}
      OBVIOUS
    <2>4. phase \in [Threads -> Phases] /\ batch \in [Threads -> SUBSET Ids] /\ WorkKept
          /\ Threads \subseteq Nat
      BY DEF DispatchInv, ThreadsTyped, Threads
    <2> HIDE DEF to, rows, new
    <2>5. ASSUME NEW t \in Threads
          PROVE  /\ t <= minted' => phase'[t] # "none"
                 /\ t > minted' => batch'[t] = {}
                 /\ left'[t] \subseteq batch'[t]
                 /\ phase'[t] \in {"recovering", "charging"} => todo'[t] # <<>>
      <3>1. CASE t = new
        <4>1. left[t] = {}
          BY <2>2, <2>4, <3>1 DEF new, WorkKept
        <4>2. phase'[t] = to
          BY <2>1, <2>4, <3>1
        <4>3. ~ (t > minted')
          BY <2>1, <2>2, <3>1 DEF new
        <4>4. left'[t] = {}
          BY <2>1, <4>1
        <4>5. QED
          BY <2>3, <4>2, <4>3, <4>4
      <3>2. CASE t # new
        <4>1. phase'[t] = phase[t] /\ batch'[t] = batch[t]
              /\ left'[t] = left[t] /\ todo'[t] = todo[t]
          BY <2>1, <2>4, <3>2
        <4>2. (t <= minted' => t <= minted) /\ (t > minted' => t > minted)
          BY <2>1, <2>2, <2>4, <3>2 DEF new
        <4>3. QED
          BY <4>1, <4>2 DEF WorkKept
      <3>3. QED
        BY <3>1, <3>2
    <2>6. todo' \in [Threads -> Plans]
      BY <2>1 DEF WorkKept
    <2>7. QED
      BY <2>5, <2>6 DEF WorkKept, Threads, Plans
  <1>3. CASE CrashProcess
    <2>1. /\ phase' = [t \in Threads |-> IF phase[t] \in Live THEN "over" ELSE phase[t]]
          /\ UNCHANGED <<batch, left, todo, minted>>
      BY <1>3 DEF CrashProcess, queueVars
    <2>2. QED
      BY <2>1 DEF WorkKept, Threads
  <1>4. QED
    BY <1>1, <1>2, <1>3, ThreadStepWork DEF DispatchNext, Elsewhere

\* A non-empty set of rows has its maximum, as far from the end of the table as
\* the minimum of the distances.
LEMMA MaxOfRows ==
    ASSUME NEW S \in SUBSET Ids, S # {}
    PROVE  Max(S) \in S
  <1> DEFINE From == {MaxEvents - x : x \in S}
  <1>1. MaxEvents \in Nat
    BY QueueBounds DEF QueueBounds
  <1>2. \A x \in S : x \in Nat /\ MaxEvents - x \in Nat
    BY <1>1 DEF Ids
  <1>3. From \in SUBSET Nat /\ From # {}
    BY <1>2
  <1>4. Min(From) \in From /\ \A y \in From : Min(From) <= y
    <2> HIDE DEF From
    <2>1. QED
      BY <1>3, MinOfSet
  <1>5. PICK m \in S : Min(From) = MaxEvents - m
    BY <1>4
  <1>6. \A x \in S : MaxEvents - m <= MaxEvents - x
    BY <1>4, <1>5
  <1>7. \A x \in S : m >= x
    <2> SUFFICES ASSUME NEW x \in S
                 PROVE  m >= x
      OBVIOUS
    <2>1. m \in Nat /\ x \in Nat /\ MaxEvents - m <= MaxEvents - x
      BY <1>2, <1>6
    <2>2. QED
      BY <1>1, <2>1
  <1>8. QED
    BY <1>7 DEF Max

\* What a thread processes is built from rows of the table.
LEMMA BundleTyped ==
    ASSUME DispatchInv, WorldTyped, NEW t \in Threads, phase[t] # "none"
    PROVE  Lead(t) \in Ids /\ Bundle(t) \in Bodies
  <1>1. batch[t] \in SUBSET Ids /\ batch[t] # {}
    BY DEF DispatchInv, ThreadsTyped, HasWork
  <1>2. Lead(t) \in Ids /\ Max(batch[t]) \in Ids
    BY <1>1, RowsAtHand, MaxOfRows
  <1>3. body \in [Ids -> Bodies]
    BY DEF WorldTyped
  <1>4. UNION {body[e].covers : e \in batch[t]} \in SUBSET Ids
    BY <1>1, <1>3 DEF Bodies
  <1>5. body[Max(batch[t])].marks \in SUBSET Handoffs
    BY <1>2, <1>3 DEF Bodies
  <1>6. QED
    BY <1>1, <1>2, <1>3, <1>4, <1>5 DEF Bundle, Bodies

\* A row that is added has a content built from rows of the table.
LEMMA DispatchBodies ==
    ASSUME DispatchInv, WorldTyped, DispatchNext
    PROVE  body' \in [Ids -> Bodies]
  <1>0. body \in [Ids -> Bodies]
    BY DEF WorldTyped
  <1>1. ASSUME NEW c \in Conversations \cup {NoConv}, NEW k \in UserKeys \cup {NoKey},
               Receive(c, k)
        PROVE  body' \in [Ids -> Bodies]
    <2> DEFINE new == [NoBody EXCEPT !.covers = {lastId + 1}]
    <2>1. body' = [body EXCEPT ![lastId + 1] = new] /\ lastId < MaxEvents
      BY <1>1 DEF Receive, Enqueue
    <2>2. lastId \in Nat /\ MaxEvents \in Nat
      BY QueueBounds DEF DispatchInv, QueueInv, QueueTypeOK, QueueBounds
    <2>3. lastId + 1 \in Ids
      BY <2>1, <2>2 DEF Ids
    <2>4. new \in Bodies
      BY <2>3 DEF NoBody, Bodies
    <2> HIDE DEF new
    <2>5. QED
      BY <1>0, <2>1, <2>4
  <1>2. ASSUME NEW t \in Threads, Decide(t)
        PROVE  body' \in [Ids -> Bodies]
    <2>1. Bundle(t) \in Bodies
      BY <1>2, BundleTyped DEF Decide, Moves
    <2>2. \/ UNCHANGED body
          \/ \E kind \in Handoffs : HandOff(t, kind)
      BY <1>2 DEF Decide
    <2>3. ASSUME NEW kind \in Handoffs, HandOff(t, kind)
          PROVE  body' \in [Ids -> Bodies]
      <3> DEFINE new == [Bundle(t) EXCEPT !.marks = Bundle(t).marks \cup {kind}]
      <3>1. new \in Bodies
        BY <2>1 DEF Bodies
      <3>2. UNCHANGED body \/ body' = [body EXCEPT ![lastId + 1] = new]
        BY <2>3 DEF HandOff
      <3> HIDE DEF new
      <3>3. QED
        BY <1>0, <3>1, <3>2
    <2>4. QED
      BY <1>0, <2>2, <2>3
  <1>3. ASSUME NEW t \in Threads, ThreadStep(t), ~ Decide(t)
        PROVE  UNCHANGED body
    BY <1>3 DEF ThreadStep, TakeSlot, WaitForSlot, BrainReplies, NothingToSend, GateOpens,
                GateRefuses, Deliver, CompleteOne, FailOne, ReadRetries, ChargeRetry, Park,
                Steps, Closes, OneWritten, Advances, worldVars
  <1>4. ASSUME NEW t \in Threads, Mishap(t)
        PROVE  UNCHANGED body
    BY <1>4 DEF Mishap, BrainRaises, AdapterFails, DeliverRaises, CompleteRaises, FailRaises,
                RecoveryRaises, Steps, Closes, worldVars
  <1>5. CASE DispatchOnce \/ CrashProcess \/ Elsewhere
    BY <1>0, <1>5, ElsewhereKeepsThreads DEF DispatchOnce, CrashProcess, worldVars
  <1>6. QED
    BY <1>0, <1>1, <1>2, <1>3, <1>4, <1>5 DEF DispatchNext, Elsewhere

\* The snapshots of the supervisor name claims that were minted, the crashes are
\* counted.
LEMMA DispatchSeen ==
    ASSUME DispatchInv, WorldTyped, DispatchNext
    PROVE  (observed \in [Ids -> 0 .. MaxClaims] /\ crashes \in 0 .. MaxCrashes)'
  <1>0. observed \in [Ids -> 0 .. MaxClaims] /\ crashes \in 0 .. MaxCrashes
    BY DEF WorldTyped
  <1>1. ASSUME NEW e \in Ids, Observe(e)
        PROVE  observed' \in [Ids -> 0 .. MaxClaims] /\ UNCHANGED crashes
    <2>1. row[e].lockedBy \in 0 .. minted /\ minted \in 0 .. MaxClaims
      BY DEF DispatchInv, QueueInv, QueueTypeOK
    <2>2. row[e].lockedBy \in 0 .. MaxClaims
      BY <2>1, QueueBounds DEF QueueBounds
    <2>3. observed' = [observed EXCEPT ![e] = row[e].lockedBy] /\ UNCHANGED crashes
      BY <1>1 DEF Observe
    <2>4. QED
      BY <1>0, <2>2, <2>3
  <1>2. CASE CrashProcess
    <2>1. crashes < MaxCrashes /\ crashes' = crashes + 1 /\ UNCHANGED observed
      BY <1>2 DEF CrashProcess
    <2>2. MaxCrashes \in Nat
      BY DispatchConstants DEF DispatchConstants
    <2>3. QED
      BY <1>0, <2>1, <2>2
  <1>3. ASSUME NEW t \in Threads, ThreadStep(t)
        PROVE  UNCHANGED <<observed, crashes>>
    BY <1>3 DEF ThreadStep, TakeSlot, WaitForSlot, BrainReplies, NothingToSend, GateOpens,
                GateRefuses, Deliver, CompleteOne, FailOne, Decide, ReadRetries, ChargeRetry,
                Park, Steps, Closes, OneWritten, Advances, worldVars
  <1>4. ASSUME NEW t \in Threads, Mishap(t)
        PROVE  UNCHANGED <<observed, crashes>>
    BY <1>4 DEF Mishap, BrainRaises, AdapterFails, DeliverRaises, CompleteRaises, FailRaises,
                RecoveryRaises, Steps, Closes, worldVars
  <1>5. ASSUME NEW c \in Conversations \cup {NoConv}, NEW k \in UserKeys \cup {NoKey},
               Receive(c, k)
        PROVE  UNCHANGED <<observed, crashes>>
    BY <1>5 DEF Receive
  <1>6. ASSUME \/ RequeueTick \/ DispatchOnce
               \/ \E t \in Threads : Heartbeat(t) \/ Lapse(t)
               \/ \E e \in Ids : Backoff(e) \/ SupervisorResets(e) \/ SupervisorFails(e)
                                 \/ Replay(e)
        PROVE  UNCHANGED <<observed, crashes>>
    BY <1>6 DEF RequeueTick, DispatchOnce, Heartbeat, Lapse, Backoff, SupervisorResets,
                SupervisorFails, Replay, OnlyQueue, worldVars
  <1>7. QED
    BY <1>0, <1>1, <1>2, <1>3, <1>4, <1>5, <1>6 DEF DispatchNext

\* The replies that reach the user are counted, and nobody takes one back.
LEMMA DispatchReplies ==
    ASSUME DispatchInv, WorldTyped, DispatchNext
    PROVE  (replies \in [Ids -> Nat] /\ answered \in [Ids -> Nat])'
  <1>0. replies \in [Ids -> Nat] /\ answered \in [Ids -> Nat]
    BY DEF WorldTyped
  <1>1. ASSUME NEW t \in Threads, Deliver(t)
        PROVE  (replies \in [Ids -> Nat] /\ answered \in [Ids -> Nat])'
    <2> DEFINE more == replies'[Lead(t)] - replies[Lead(t)]
    <2>1. Lead(t) \in Ids
      BY <1>1, RowsAtHand DEF Deliver
    <2>2. replies' \in [Ids -> Nat] /\ \A e \in Ids : replies[e] <= replies'[e]
      BY <1>0, <1>1, RepliesGrow
    <2>3. more \in Nat
      BY <1>0, <2>1, <2>2
    <2>4. answered' = [m \in Ids |-> IF m \in Bundle(t).covers THEN answered[m] + more
                                                               ELSE answered[m]]
      BY <1>1 DEF Deliver
    <2> HIDE DEF more
    <2>5. QED
      BY <1>0, <2>2, <2>3, <2>4
  <1>2. ASSUME NEW t \in Threads, ThreadStep(t), ~ Deliver(t)
        PROVE  UNCHANGED <<replies, answered>>
    BY <1>2 DEF ThreadStep, TakeSlot, WaitForSlot, BrainReplies, NothingToSend, GateOpens,
                GateRefuses, CompleteOne, FailOne, Decide, ReadRetries, ChargeRetry,
                Park, Steps, Closes, OneWritten, Advances, ledgerVars
  <1>3. ASSUME NEW t \in Threads, Mishap(t)
        PROVE  UNCHANGED <<replies, answered>>
    BY <1>3 DEF Mishap, BrainRaises, AdapterFails, DeliverRaises, CompleteRaises, FailRaises,
                RecoveryRaises, Steps, Closes, Ledger!Crash, ledgerVars
  <1>4. ASSUME NEW c \in Conversations \cup {NoConv}, NEW k \in UserKeys \cup {NoKey},
               Receive(c, k)
        PROVE  UNCHANGED <<replies, answered>>
    BY <1>4 DEF Receive, ledgerVars
  <1>5. ASSUME \/ RequeueTick \/ DispatchOnce \/ CrashProcess
               \/ \E t \in Threads : Heartbeat(t) \/ Lapse(t)
               \/ \E e \in Ids : Backoff(e) \/ SupervisorResets(e) \/ SupervisorFails(e)
                                 \/ Replay(e) \/ Observe(e)
        PROVE  UNCHANGED <<replies, answered>>
    BY <1>5 DEF RequeueTick, DispatchOnce, CrashProcess, Heartbeat, Lapse, Backoff, Observe,
                SupervisorResets, SupervisorFails, Replay, OnlyQueue, Ledger!Crash, ledgerVars
  <1>6. QED
    BY <1>0, <1>1, <1>2, <1>3, <1>4, <1>5 DEF DispatchNext

\* A delivery is over before its thread leaves the send.
LEMMA DispatchSends ==
    ASSUME DispatchInv, SendsOpenly, DispatchNext
    PROVE  SendsOpenly'
  <1>0. /\ phase \in [Threads -> Phases] /\ DOMAIN sender = Threads
        /\ \A t \in Threads : sender[t] \in Ledger!InFlight => phase[t] = "send"
    BY DEF DispatchInv, ThreadsTyped, SendsOpenly
  <1>1. ASSUME UNCHANGED sender, \A t \in Threads : phase[t] = "send" => phase'[t] = "send"
        PROVE  SendsOpenly'
    BY <1>0, <1>1 DEF SendsOpenly, Threads
  <1>2. ASSUME NEW t \in Threads, Deliver(t)
        PROVE  SendsOpenly'
    <2>1. DOMAIN sender' = Threads /\ \A u \in Threads : u # t => sender'[u] = sender[u]
      <3>1. \E s : sender' = [sender EXCEPT ![t] = s]
        BY <1>2 DEF Deliver, Ledger!BeginDelivery, Ledger!LiveDelivers, Ledger!LiveAmbiguous,
                    Ledger!LiveUndelivered, Ledger!FallbackDelivers, Ledger!FallbackFails,
                    Ledger!FinishDelivery, Ledger!ClearDelivery, Ledger!SendMoves
      <3>2. QED
        BY <1>0, <3>1
    <2>2. CASE sender'[t] \in Ledger!Over
      <3>1. phase' = [phase EXCEPT ![t] = "closing"] /\ sender'[t] \notin Ledger!InFlight
        BY <1>2, <2>2 DEF Deliver, Closes, Moves, Ledger!Over, Ledger!InFlight
      <3>2. \A u \in Threads : u # t => phase'[u] = phase[u]
        BY <1>0, <3>1
      <3>3. QED
        BY <1>0, <2>1, <3>1, <3>2 DEF SendsOpenly, Threads
    <2>3. CASE sender'[t] \notin Ledger!Over
      <3>1. UNCHANGED phase /\ phase[t] = "send"
        BY <1>2, <2>3 DEF Deliver, threadVars
      <3>2. QED
        BY <1>0, <2>1, <3>1 DEF SendsOpenly, Threads
    <2>4. QED
      BY <2>2, <2>3
  <1>3. ASSUME NEW t \in Threads, DeliverRaises(t)
        PROVE  SendsOpenly'
    <2>1. /\ phase' = [phase EXCEPT ![t] = "failing"]
          /\ sender' = [c \in Threads |->
               IF c \in {t} /\ sender[c] \in Ledger!InFlight THEN "crashed" ELSE sender[c]]
      BY <1>3 DEF DeliverRaises, Closes, Moves, Ledger!Crash
    <2>2. sender'[t] \notin Ledger!InFlight
          /\ \A u \in Threads : u # t => sender'[u] = sender[u] /\ phase'[u] = phase[u]
      BY <1>0, <2>1 DEF Ledger!InFlight
    <2>3. QED
      BY <1>0, <2>1, <2>2 DEF SendsOpenly, Threads
  <1>4. CASE CrashProcess
    <2>1. sender' = [c \in Threads |->
             IF c \in Threads /\ sender[c] \in Ledger!InFlight THEN "crashed" ELSE sender[c]]
      BY <1>4 DEF CrashProcess, Ledger!Crash
    <2>2. QED
      BY <2>1 DEF SendsOpenly, Threads, Ledger!InFlight
  <1>5. ASSUME NEW t \in Threads, ThreadStep(t) \/ Mishap(t), ~ Deliver(t), ~ DeliverRaises(t)
        PROVE  SendsOpenly'
    <2>1. UNCHANGED sender
      BY <1>5 DEF ThreadStep, Mishap, TakeSlot, WaitForSlot, BrainReplies, NothingToSend,
                  GateOpens, GateRefuses, CompleteOne, FailOne, Decide, ReadRetries,
                  ChargeRetry, Park, BrainRaises, AdapterFails, CompleteRaises, FailRaises,
                  RecoveryRaises, Steps, OneWritten, Advances, ledgerVars
    <2>2. phase[t] # "send"
      BY <1>5 DEF ThreadStep, Mishap, TakeSlot, WaitForSlot, BrainReplies, NothingToSend,
                  GateOpens, GateRefuses, CompleteOne, FailOne, Decide, ReadRetries,
                  ChargeRetry, Park, BrainRaises, AdapterFails, CompleteRaises, FailRaises,
                  RecoveryRaises, Steps, Closes, OneWritten, Advances, Moves
    <2>3. \E to : phase' = [phase EXCEPT ![t] = to]
      BY <1>5 DEF ThreadStep, Mishap, TakeSlot, WaitForSlot, BrainReplies, NothingToSend,
                  GateOpens, GateRefuses, CompleteOne, FailOne, Decide, ReadRetries,
                  ChargeRetry, Park, BrainRaises, AdapterFails, CompleteRaises, FailRaises,
                  RecoveryRaises, Steps, Closes, OneWritten, Advances, Moves
    <2>4. \A u \in Threads : phase[u] = "send" => phase'[u] = "send"
      BY <1>0, <2>2, <2>3
    <2>5. QED
      BY <1>1, <2>1, <2>4
  <1>6. CASE DispatchOnce
    <2> DEFINE to == IF MaxConcurrent = 1 THEN "brain" ELSE "slot"
    <2>1. /\ phase' = [phase EXCEPT ![minted + 1] = to] /\ UNCHANGED sender
          /\ minted \in Nat
      BY <1>6, QueueBounds DEF DispatchOnce, MintClaimToken, ledgerVars, DispatchInv, QueueInv,
                               QueueTypeOK, QueueBounds
    <2> HIDE DEF to
    <2>2. ASSUME NEW t \in Threads, phase[t] = "send"
          PROVE  phase'[t] = "send"
      <3>1. t # minted + 1
        BY <2>1, <2>2 DEF DispatchInv, Started
      <3>2. QED
        BY <1>0, <2>1, <2>2, <3>1
    <2>3. QED
      BY <1>1, <2>1, <2>2
  <1>7. ASSUME NEW c \in Conversations \cup {NoConv}, NEW k \in UserKeys \cup {NoKey},
               Receive(c, k)
        PROVE  SendsOpenly'
    BY <1>1, <1>7 DEF Receive, threadVars, ledgerVars
  <1>8. CASE Elsewhere
    <2>1. UNCHANGED phase
      BY <1>8, ElsewhereKeepsThreads DEF threadVars
    <2>2. UNCHANGED sender
      BY <1>8 DEF Elsewhere, RequeueTick, Heartbeat, Lapse, Backoff, Observe, SupervisorResets,
                  SupervisorFails, Replay, OnlyQueue, ledgerVars
    <2>3. QED
      BY <1>1, <2>1, <2>2
  <1>9. QED
    BY <1>2, <1>3, <1>4, <1>5, <1>6, <1>7, <1>8 DEF DispatchNext, Elsewhere

GatewayInv == DispatchInv /\ WorkKept /\ WorldTyped /\ SendsOpenly

LEMMA GatewayStart == DispatchInit => GatewayInv
  <1> SUFFICES ASSUME DispatchInit
               PROVE  GatewayInv
    OBVIOUS
  <1>1. minted = 0 /\ Ledger!LedgerInit /\ MaxCrashes \in Nat /\ MaxClaims \in Nat
    BY DispatchConstants, QueueBounds DEF DispatchInit, QueueInit, DispatchConstants, QueueBounds
  <1>2. WorkKept
    BY <1>1 DEF DispatchInit, WorkKept, Plans, Threads
  <1>3. WorldTyped
    BY <1>1 DEF DispatchInit, WorldTyped, Bodies, NoBody, NULL, Ledger!LedgerInit
  <1>4. SendsOpenly
    BY <1>1 DEF SendsOpenly, Ledger!LedgerInit, Ledger!InFlight
  <1>5. QED
    BY <1>2, <1>3, <1>4, DispatchStart DEF GatewayInv

LEMMA GatewayStep == GatewayInv /\ [DispatchNext]_dispatchVars => GatewayInv'
  <1>1. ASSUME GatewayInv, DispatchNext
        PROVE  GatewayInv'
    <2>1. DispatchInv /\ WorkKept /\ WorldTyped /\ SendsOpenly
      BY <1>1 DEF GatewayInv
    <2>2. DispatchInv'
      BY <1>1, <2>1, DispatchStep
    <2>3. WorkKept' /\ SendsOpenly'
      BY <1>1, <2>1, DispatchWork, DispatchSends
    <2>4. WorldTyped'
      BY <1>1, <2>1, DispatchBodies, DispatchSeen, DispatchReplies DEF WorldTyped
    <2>5. QED
      BY <2>2, <2>3, <2>4 DEF GatewayInv
  <1>2. ASSUME GatewayInv, UNCHANGED dispatchVars
        PROVE  GatewayInv'
    <2>1. DispatchInv'
      BY <1>2, DispatchStep DEF GatewayInv
    <2>2. WorkKept'
      BY <1>2 DEF GatewayInv, WorkKept, dispatchVars, threadVars, queueVars, Threads
    <2>3. WorldTyped'
      BY <1>2 DEF GatewayInv, WorldTyped, dispatchVars, worldVars, ledgerVars
    <2>4. SendsOpenly'
      BY <1>2 DEF GatewayInv, SendsOpenly, dispatchVars, threadVars, ledgerVars, Threads
    <2>5. QED
      BY <2>1, <2>2, <2>3, <2>4 DEF GatewayInv
  <1>3. QED
    BY <1>1, <1>2

\* For every number of messages, claims, slots and crashes: a thread has the rows
\* of a claim exactly if the claim was minted, its final loop writes rows of that
\* claim alone, a recovery that goes on has a write of its plan left, and a
\* delivery is open in the ledger only while its thread is in the send.
THEOREM GatewayIsTyped == DispatchSpec => []DispatchTypeOK
  <1>1. GatewayInv => DispatchTypeOK
    <2> SUFFICES ASSUME GatewayInv
                 PROVE  DispatchTypeOK
      OBVIOUS
    <2>1. DispatchInv /\ WorkKept /\ WorldTyped /\ SendsOpenly
      BY DEF GatewayInv
    <2>2. /\ phase \in [Threads -> Phases] /\ batch \in [Threads -> SUBSET Ids]
          /\ left \in [Threads -> SUBSET Ids] /\ seen \in [Threads -> Nat]
          /\ todo \in [Threads -> Plans]
      BY <2>1 DEF DispatchInv, ThreadsTyped, WorkKept
    <2>3. /\ body \in [Ids -> Bodies] /\ observed \in [Ids -> 0 .. MaxClaims]
          /\ crashes \in 0 .. MaxCrashes /\ answered \in [Ids -> Nat]
      BY <2>1 DEF WorldTyped
    <2>4. ASSUME NEW t \in Threads
          PROVE  /\ phase[t] = "none" <=> t > minted
                 /\ batch[t] = {} <=> t > minted
                 /\ left[t] \subseteq batch[t]
                 /\ phase[t] \in {"closing", "failing"} => left[t] # {}
                 /\ phase[t] \in {"recovering", "charging"} => todo[t] # <<>>
                 /\ sender[t] \in Ledger!InFlight => phase[t] = "send"
      <3>1. t \in Nat /\ minted \in Nat
        BY <2>1, QueueBounds DEF DispatchInv, QueueInv, QueueTypeOK, QueueBounds, Threads
      <3>2. t <= minted \/ t > minted
        BY <3>1
      <3>3. ~ (t <= minted /\ t > minted)
        BY <3>1
      <3>4. (t <= minted => phase[t] # "none") /\ (t > minted => phase[t] = "none")
            /\ (t > minted => batch[t] = {}) /\ (phase[t] # "none" => batch[t] # {})
        BY <2>1 DEF DispatchInv, Started, HasWork, WorkKept
      <3>5. QED
        BY <2>1, <3>2, <3>3, <3>4 DEF DispatchInv, HasWork, WorkKept, SendsOpenly
    <2>5. QED
      BY <2>2, <2>3, <2>4 DEF DispatchTypeOK, Plans, Bodies
  <1>2. QED
    BY <1>1, GatewayStart, GatewayStep, PTL DEF DispatchSpec

=============================================================================

-------------------------- MODULE EventQueueProofs --------------------------
(***************************************************************************)
(* What holds of the event queue for every number of rows, claims,         *)
(* conversations and retries, with any caller calling at any time.         *)
(***************************************************************************)
EXTENDS EventQueue, TLAPS

\* A released row is a row: the columns keep their types, the lock is NULL.
LEMMA ReleasedRow ==
    ASSUME NEW r \in Row, NEW s \in Statuses
    PROVE  /\ Released(r, s) \in Row
           /\ Released(r, s).status = s
           /\ Released(r, s).lockedBy = NULL
           /\ Released(r, s).conv = r.conv
           /\ Released(r, s).retries = r.retries
           /\ Released(r, s).ready = r.ready
  BY DEF Released, Row, NULL

\* A charged row waits or has failed, unlocked, with the retry counted; it
\* waits only when the count is within the cap.
LEMMA ChargedRow ==
    ASSUME NEW r \in Row, NEW n \in Nat, NEW m \in Nat
    PROVE  /\ Charged(r, n, m) \in Row
           /\ Charged(r, n, m).status \in {"queued", "failed"}
           /\ Charged(r, n, m).status = "queued" => n + 1 <= m
           /\ Charged(r, n, m).lockedBy = NULL
           /\ Charged(r, n, m).conv = r.conv
           /\ Charged(r, n, m).retries = n + 1
  <1> DEFINE s == IF n + 1 <= m THEN "queued" ELSE "failed"
  <1> DEFINE q == Released(r, s)
  <1>1. /\ s \in Statuses
        /\ s \in {"queued", "failed"}
        /\ s = "queued" => n + 1 <= m
    BY DEF Statuses
  <1> HIDE DEF s
  <1>2. q \in Row /\ q.status = s /\ q.lockedBy = NULL /\ q.conv = r.conv
    BY <1>1, ReleasedRow
  <1>3. Charged(r, n, m) = [q EXCEPT !.retries = n + 1]
    BY DEF Charged, s
  <1> HIDE DEF q
  <1>4. QED
    BY <1>1, <1>2, <1>3 DEF Row

\* A charged row that waits for its backoff is a row, charged all the same.
LEMMA DeferredRow ==
    ASSUME NEW r \in Row, NEW n \in Nat, NEW m \in Nat
    PROVE  LET d == [Charged(r, n, m) EXCEPT !.ready = FALSE] IN
           /\ d \in Row
           /\ d.status \in {"queued", "failed"}
           /\ d.status = "queued" => n + 1 <= m
           /\ d.lockedBy = NULL
           /\ d.retries = n + 1
  <1> DEFINE c == Charged(r, n, m)
  <1>1. /\ c \in Row
        /\ c.status \in {"queued", "failed"}
        /\ c.status = "queued" => n + 1 <= m
        /\ c.lockedBy = NULL
        /\ c.retries = n + 1
    BY ChargedRow
  <1> HIDE DEF c
  <1>2. LET d == [c EXCEPT !.ready = FALSE] IN
        /\ d \in Row
        /\ d.status \in {"queued", "failed"}
        /\ d.status = "queued" => n + 1 <= m
        /\ d.lockedBy = NULL
        /\ d.retries = n + 1
    BY <1>1 DEF Row
  <1>3. QED
    BY <1>2 DEF c

\* The inline requeue gives every row a row, and unlocks those it touches.
LEMMA AfterRequeueRows ==
    ASSUME QueueTypeOK
    PROVE  /\ AfterRequeue \in [Ids -> Row]
           /\ \A e \in Ids :
                /\ AfterRequeue[e].conv = row[e].conv
                /\ AfterRequeue[e].lockedBy \in {NULL, row[e].lockedBy}
                /\ AfterRequeue[e].lockedBy # NULL <=> AfterRequeue[e].status = "running"
                /\ ~Expired(e) => AfterRequeue[e] = row[e]
                /\ Expired(e) =>
                     /\ AfterRequeue[e].status \in {"queued", "failed"}
                     /\ AfterRequeue[e].status = "queued" => row[e].retries + 1 <= MaxRetries
                     /\ AfterRequeue[e].retries = row[e].retries + 1
                     /\ AfterRequeue[e].lockedBy = NULL
  <1> SUFFICES ASSUME NEW e \in Ids
               PROVE  /\ AfterRequeue[e] \in Row
                      /\ AfterRequeue[e].conv = row[e].conv
                      /\ AfterRequeue[e].lockedBy \in {NULL, row[e].lockedBy}
                      /\ AfterRequeue[e].lockedBy # NULL
                           <=> AfterRequeue[e].status = "running"
                      /\ ~Expired(e) => AfterRequeue[e] = row[e]
                      /\ Expired(e) =>
                           /\ AfterRequeue[e].status \in {"queued", "failed"}
                           /\ AfterRequeue[e].status = "queued"
                                => row[e].retries + 1 <= MaxRetries
                           /\ AfterRequeue[e].retries = row[e].retries + 1
                           /\ AfterRequeue[e].lockedBy = NULL
    BY DEF AfterRequeue
  <1>1. row[e] \in Row /\ row[e].retries \in Nat /\ MaxRetries \in Nat
    BY QueueBounds DEF QueueTypeOK, Row, QueueBounds
  <1>2. CASE ~Expired(e)
    BY <1>1, <1>2 DEF AfterRequeue, QueueTypeOK
  <1>3. CASE Expired(e)
    <2> DEFINE c == Charged(row[e], row[e].retries, MaxRetries)
    <2>1. /\ c \in Row
          /\ c.status \in {"queued", "failed"}
          /\ c.status = "queued" => row[e].retries + 1 <= MaxRetries
          /\ c.lockedBy = NULL
          /\ c.conv = row[e].conv
          /\ c.retries = row[e].retries + 1
      BY <1>1, ChargedRow
    <2>2. AfterRequeue[e] = [c EXCEPT !.ready = TRUE]
      BY <1>3 DEF AfterRequeue
    <2> HIDE DEF c
    <2>3. QED
      BY <1>3, <2>1, <2>2 DEF Row
  <1>4. QED
    BY <1>2, <1>3

-----------------------------------------------------------------------------
(* The inductive invariant: typing, the batches and the budget together,   *)
(* and that the rows beyond the id counter have no history yet.             *)

FreshRows == \A e \in Ids : e > lastId => row[e].status = "absent" /\ claims[e] = 0

QueueInv == QueueTypeOK /\ OneConversationPerClaim /\ BudgetKept /\ FreshRows

\* Replacing one row by an unlocked one keeps the invariant, provided the new
\* row can pay for the attempt it waits for.  Every operation that ends a
\* claim, and every operation on a waiting row, is of this form.
LEMMA UnlockedRow ==
    ASSUME QueueInv,
           NEW e \in Ids, NEW r \in Row, NEW g \in Nat,
           r.lockedBy = NULL, r.status # "running",
           claims[e] + (IF r.status = "queued" THEN 1 ELSE 0) <= 1 + Spent(r) + g,
           row' = [row EXCEPT ![e] = r],
           granted' = [granted EXCEPT ![e] = g],
           e <= lastId', lastId' \in lastId .. MaxEvents,
           UNCHANGED <<minted, lapsed, claims>>
    PROVE  QueueInv'
  <1>1. QueueTypeOK /\ OneConversationPerClaim /\ BudgetKept /\ FreshRows
    BY DEF QueueInv
  <1>2. \A d \in Ids :
           /\ row'[d] = (IF d = e THEN r ELSE row[d])
           /\ granted'[d] = (IF d = e THEN g ELSE granted[d])
           /\ claims'[d] = claims[d]
    BY <1>1 DEF QueueTypeOK
  <1>3. QueueTypeOK'
    <2>1. row' \in [Ids -> Row] /\ granted' \in [Ids -> Nat]
      BY <1>1 DEF QueueTypeOK
    <2>2. minted' \in 0 .. MaxClaims /\ lapsed' \subseteq Tokens' /\ lastId' \in 0 .. MaxEvents
      BY <1>1, QueueBounds DEF QueueTypeOK, Tokens, QueueBounds
    <2>3. \A d \in Ids : row'[d].lockedBy \in 0 .. minted'
      <3>1. NULL \in 0 .. minted
        BY <1>1, QueueBounds DEF QueueTypeOK, NULL, QueueBounds
      <3>2. QED
        BY <1>1, <1>2, <3>1 DEF QueueTypeOK
    <2>4. \A d \in Ids : row'[d].lockedBy # NULL <=> row'[d].status = "running"
      BY <1>1, <1>2 DEF QueueTypeOK
    <2>5. claims' \in [Ids -> Nat]
      BY <1>1 DEF QueueTypeOK
    <2>6. QED
      BY <2>1, <2>2, <2>3, <2>4, <2>5 DEF QueueTypeOK
  <1>4. OneConversationPerClaim'
    <2> SUFFICES ASSUME NEW c \in Ids, NEW d \in Ids, c # d,
                        row'[c].status = "running", row'[c].lockedBy = row'[d].lockedBy
                 PROVE  row'[c].conv = row'[d].conv /\ row'[c].conv # NoConv
      BY DEF OneConversationPerClaim
    <2>1. row'[c].lockedBy # NULL
      BY <1>3 DEF QueueTypeOK
    <2>2. c # e /\ d # e
      BY <1>2, <2>1
    <2>3. QED
      BY <1>1, <1>2, <2>2 DEF OneConversationPerClaim
  <1>5. BudgetKept'
    BY <1>1, <1>2 DEF BudgetKept, Spent
  <1>6. FreshRows'
    <2>1. lastId \in Nat /\ MaxEvents \in Nat
      BY <1>1, QueueBounds DEF QueueTypeOK, QueueBounds
    <2>2. ASSUME NEW d \in Ids, d > lastId'
          PROVE  d # e /\ d > lastId
      BY <2>1, <2>2 DEF Ids
    <2>3. QED
      BY <1>1, <1>2, <2>2 DEF FreshRows
  <1>7. QED
    BY <1>3, <1>4, <1>5, <1>6 DEF QueueInv

\* The requeued table satisfies the invariant: a lapsed claim that goes back to
\* the queue has been charged one retry within the cap, which pays for it.
LEMMA AfterRequeueInv ==
    ASSUME QueueInv
    PROVE  /\ \A c, d \in Ids :
                c # d /\ AfterRequeue[c].status = "running"
                      /\ AfterRequeue[c].lockedBy = AfterRequeue[d].lockedBy
                  => AfterRequeue[c].conv = AfterRequeue[d].conv /\ AfterRequeue[c].conv # NoConv
           /\ \A e \in Ids :
                claims[e] + (IF AfterRequeue[e].status = "queued" THEN 1 ELSE 0)
                  <= 1 + Spent(AfterRequeue[e]) + granted[e]
  <1>1. QueueTypeOK /\ OneConversationPerClaim /\ BudgetKept /\ FreshRows
    BY DEF QueueInv
  <1>2. \A c, d \in Ids :
           c # d /\ AfterRequeue[c].status = "running"
                 /\ AfterRequeue[c].lockedBy = AfterRequeue[d].lockedBy
             => AfterRequeue[c].conv = AfterRequeue[d].conv /\ AfterRequeue[c].conv # NoConv
    <2> SUFFICES ASSUME NEW c \in Ids, NEW d \in Ids, c # d,
                        AfterRequeue[c].status = "running",
                        AfterRequeue[c].lockedBy = AfterRequeue[d].lockedBy
                 PROVE  AfterRequeue[c].conv = AfterRequeue[d].conv /\ AfterRequeue[c].conv # NoConv
      OBVIOUS
    <2>1. AfterRequeue[c].lockedBy # NULL
      BY <1>1, AfterRequeueRows
    <2>2. ~Expired(c) /\ ~Expired(d)
      BY <1>1, <2>1, AfterRequeueRows
    <2>3. AfterRequeue[c] = row[c] /\ AfterRequeue[d] = row[d]
      BY <1>1, <2>2, AfterRequeueRows
    <2>4. QED
      BY <1>1, <2>3 DEF OneConversationPerClaim
  <1>3. ASSUME NEW e \in Ids
        PROVE  claims[e] + (IF AfterRequeue[e].status = "queued" THEN 1 ELSE 0)
                 <= 1 + Spent(AfterRequeue[e]) + granted[e]
    <2>1. /\ claims[e] \in Nat /\ granted[e] \in Nat /\ row[e].retries \in Nat
          /\ MaxRetries \in Nat
      BY <1>1, QueueBounds DEF QueueTypeOK, Row, QueueBounds
    <2>2. claims[e] + (IF row[e].status = "queued" THEN 1 ELSE 0)
            <= 1 + Spent(row[e]) + granted[e]
      BY <1>1 DEF BudgetKept
    <2>3. CASE ~Expired(e)
      BY <1>1, <2>2, <2>3, AfterRequeueRows
    <2>4. CASE Expired(e)
      <3>1. row[e].status = "running"
        BY <2>4 DEF Expired
      <3>2. /\ AfterRequeue[e].retries = row[e].retries + 1
            /\ AfterRequeue[e].status = "queued" => row[e].retries + 1 <= MaxRetries
        BY <1>1, <2>4, AfterRequeueRows
      <3>3. QED
        BY <2>1, <2>2, <3>1, <3>2 DEF Spent
    <2>5. QED
      BY <2>3, <2>4
  <1>4. QED
    BY <1>2, <1>3

\* RequeueExpired, whether on the periodic tick or inline, keeps the invariant.
LEMMA RequeueStep == QueueInv /\ RequeueExpired => QueueInv'
  <1> SUFFICES ASSUME QueueInv, RequeueExpired
               PROVE  QueueInv'
    OBVIOUS
  <1>1. QueueTypeOK /\ OneConversationPerClaim /\ BudgetKept /\ FreshRows
    BY DEF QueueInv
  <1>2. row' = AfterRequeue /\ UNCHANGED <<lastId, minted, lapsed, claims, granted>>
    BY DEF RequeueExpired
  <1>3. QueueTypeOK'
    <2>1. \A e \in Ids : row[e].lockedBy \in 0 .. minted /\ NULL \in 0 .. minted
      BY <1>1, QueueBounds DEF QueueTypeOK, NULL, QueueBounds
    <2>2. \A e \in Ids : row'[e].lockedBy \in 0 .. minted
      BY <1>1, <1>2, <2>1, AfterRequeueRows
    <2>3. \A e \in Ids : row'[e].lockedBy # NULL <=> row'[e].status = "running"
      BY <1>1, <1>2, AfterRequeueRows
    <2>4. row' \in [Ids -> Row]
      BY <1>1, <1>2, AfterRequeueRows
    <2>5. QED
      BY <1>1, <1>2, <2>2, <2>3, <2>4 DEF QueueTypeOK, Tokens
  <1>4. OneConversationPerClaim'
    BY <1>2, AfterRequeueInv DEF OneConversationPerClaim
  <1>5. BudgetKept'
    BY <1>2, AfterRequeueInv DEF BudgetKept, Spent
  <1>6. FreshRows'
    BY <1>1, <1>2, AfterRequeueRows DEF FreshRows, Expired
  <1>7. QED
    BY <1>3, <1>4, <1>5, <1>6 DEF QueueInv

\* A claim keeps the invariant: its token is new, its batch is one row or the
\* rows of one conversation, and each of them was waiting and so had paid.
LEMMA ClaimStep ==
    ASSUME NEW coalesce \in BOOLEAN, QueueInv, Claim(coalesce)
    PROVE  QueueInv'
  <1>1. QueueTypeOK /\ OneConversationPerClaim /\ BudgetKept /\ FreshRows
    BY DEF QueueInv
  <1>2. PICK head \in Claimable(AfterRequeue) :
          LET batch == BatchOf(AfterRequeue, head, coalesce) IN
          /\ row' = [e \in Ids |->
                      IF e \in batch
                      THEN [AfterRequeue[e] EXCEPT !.status = "running",
                                                   !.lockedBy = MintClaimToken]
                      ELSE AfterRequeue[e]]
          /\ claims' = [e \in Ids |-> IF e \in batch THEN claims[e] + 1 ELSE claims[e]]
    BY DEF Claim
  <1> DEFINE batch == BatchOf(AfterRequeue, head, coalesce)
  <1>3. /\ minted < MaxClaims /\ minted' = minted + 1
        /\ UNCHANGED <<lastId, lapsed, granted>>
    BY DEF Claim
  <1>4. /\ head \in Ids
        /\ \A e \in batch : e \in Ids /\ AfterRequeue[e].status = "queued"
        /\ \A c, d \in batch : c # d => /\ AfterRequeue[c].conv = AfterRequeue[d].conv
                                       /\ AfterRequeue[c].conv # NoConv
    BY DEF BatchOf, Claimable
  <1>5. \A e \in Ids :
          /\ e \in batch => row'[e] = [AfterRequeue[e] EXCEPT !.status = "running",
                                                             !.lockedBy = minted + 1]
          /\ e \notin batch => row'[e] = AfterRequeue[e]
          /\ claims'[e] = (IF e \in batch THEN claims[e] + 1 ELSE claims[e])
    BY <1>2 DEF MintClaimToken
  <1> HIDE DEF batch
  <1>6. AfterRequeue \in [Ids -> Row] /\ minted \in Nat /\ MaxClaims \in Nat
    BY <1>1, QueueBounds, AfterRequeueRows DEF QueueTypeOK, QueueBounds
  <1>7. ASSUME NEW e \in Ids
        PROVE  /\ row'[e].conv = AfterRequeue[e].conv
               /\ row'[e].retries = AfterRequeue[e].retries
               /\ row'[e] \in Row
               /\ e \in batch => row'[e].lockedBy = minted + 1 /\ row'[e].status = "running"
    <2>1. AfterRequeue[e] \in Row
      BY <1>6
    <2>2. CASE e \in batch
      <3>1. row'[e] = [AfterRequeue[e] EXCEPT !.status = "running", !.lockedBy = minted + 1]
        BY <1>5, <2>2
      <3>2. minted + 1 \in Nat
        BY <1>6
      <3>3. QED
        BY <2>1, <3>1, <3>2 DEF Row, Statuses
    <2>3. CASE e \notin batch
      BY <1>5, <2>1, <2>3
    <2>4. QED
      BY <2>2, <2>3
  <1>8. \A e \in Ids : AfterRequeue[e].lockedBy \in 0 .. minted
    BY <1>1, <1>6, AfterRequeueRows DEF QueueTypeOK, NULL
  <1>9. QueueTypeOK'
    <2>1. row' \in [Ids -> Row]
      BY <1>2, <1>7
    <2>2. ASSUME NEW e \in Ids
          PROVE  row'[e].lockedBy \in 0 .. minted'
      <3>1. CASE e \in batch
        BY <1>3, <1>6, <1>7, <3>1
      <3>2. CASE e \notin batch
        <4>1. row'[e].lockedBy \in 0 .. minted
          BY <1>5, <1>8, <3>2
        <4>2. QED
          BY <1>3, <1>6, <4>1
      <3>3. QED
        BY <3>1, <3>2
    <2>3. ASSUME NEW e \in Ids
          PROVE  row'[e].lockedBy # NULL <=> row'[e].status = "running"
      <3>1. CASE e \in batch
        BY <1>6, <1>7, <3>1 DEF NULL
      <3>2. CASE e \notin batch
        BY <1>1, <1>5, <3>2, AfterRequeueRows
      <3>3. QED
        BY <3>1, <3>2
    <2>4. claims' \in [Ids -> Nat] /\ granted' \in [Ids -> Nat]
      <3>1. \A e \in Ids : claims[e] + 1 \in Nat /\ claims[e] \in Nat
        BY <1>1 DEF QueueTypeOK
      <3>2. granted' \in [Ids -> Nat]
        BY <1>1, <1>3 DEF QueueTypeOK
      <3>3. claims' = [e \in Ids |-> IF e \in batch THEN claims[e] + 1 ELSE claims[e]]
        BY <1>2 DEF batch
      <3>4. QED
        BY <3>1, <3>2, <3>3
    <2>5. lapsed' \subseteq Tokens' /\ lastId' \in 0 .. MaxEvents /\ minted' \in 0 .. MaxClaims
      BY <1>1, <1>3, <1>6 DEF QueueTypeOK, Tokens
    <2>6. QED
      BY <2>1, <2>2, <2>3, <2>4, <2>5 DEF QueueTypeOK
  <1>10. OneConversationPerClaim'
    <2> SUFFICES ASSUME NEW c \in Ids, NEW d \in Ids, c # d,
                        row'[c].status = "running", row'[c].lockedBy = row'[d].lockedBy
                 PROVE  row'[c].conv = row'[d].conv /\ row'[c].conv # NoConv
      BY DEF OneConversationPerClaim
    <2>1. CASE c \in batch /\ d \in batch
      BY <1>4, <1>7, <2>1
    <2>2. CASE c \in batch /\ d \notin batch
      <3>1. row'[c].lockedBy = minted + 1
        BY <1>7, <2>2
      <3>2. row'[d].lockedBy \in 0 .. minted
        BY <1>5, <1>8, <2>2
      <3>3. QED
        BY <1>6, <3>1, <3>2
    <2>3. CASE c \notin batch /\ d \in batch
      <3>1. row'[d].lockedBy = minted + 1
        BY <1>7, <2>3
      <3>2. row'[c].lockedBy \in 0 .. minted
        BY <1>5, <1>8, <2>3
      <3>3. QED
        BY <1>6, <3>1, <3>2
    <2>4. CASE c \notin batch /\ d \notin batch
      <3>1. row'[c] = AfterRequeue[c] /\ row'[d] = AfterRequeue[d]
        BY <1>5, <2>4
      <3>2. QED
        BY <3>1, AfterRequeueInv
    <2>5. QED
      BY <2>1, <2>2, <2>3, <2>4
  <1>11. BudgetKept'
    <2> SUFFICES ASSUME NEW e \in Ids
                 PROVE  claims'[e] + (IF row'[e].status = "queued" THEN 1 ELSE 0)
                          <= 1 + Spent(row'[e]) + granted[e]
      BY <1>3 DEF BudgetKept, Spent
    <2>1. claims[e] + (IF AfterRequeue[e].status = "queued" THEN 1 ELSE 0)
            <= 1 + Spent(AfterRequeue[e]) + granted[e]
      BY AfterRequeueInv
    <2>2. Spent(row'[e]) = Spent(AfterRequeue[e])
      BY <1>7 DEF Spent
    <2>3. claims[e] \in Nat
      BY <1>1 DEF QueueTypeOK
    <2>4. CASE e \in batch
      <3>1. claims'[e] = claims[e] + 1
        BY <1>5, <2>4
      <3>2. AfterRequeue[e].status = "queued" /\ row'[e].status = "running"
        BY <1>4, <1>7, <2>4
      <3>3. QED
        BY <2>1, <2>2, <2>3, <3>1, <3>2
    <2>5. CASE e \notin batch
      BY <1>5, <2>1, <2>5
    <2>6. QED
      BY <2>4, <2>5
  <1>12. FreshRows'
    <2> SUFFICES ASSUME NEW e \in Ids, e > lastId
                 PROVE  row'[e].status = "absent" /\ claims'[e] = 0
      BY <1>3 DEF FreshRows
    <2>1. row[e].status = "absent" /\ claims[e] = 0
      BY <1>1 DEF FreshRows
    <2>2. AfterRequeue[e] = row[e]
      BY <1>1, <2>1, AfterRequeueRows DEF Expired
    <2>3. e \notin batch
      BY <1>4, <2>1, <2>2
    <2>4. QED
      BY <1>5, <2>1, <2>2, <2>3
  <1>13. QED
    BY <1>9, <1>10, <1>11, <1>12 DEF QueueInv

\* The operations that end a claim or move an unlocked row.
LEMMA UnlockStep ==
    ASSUME QueueInv,
           NEW e \in Ids,
           \/ Complete(e, row[e].lockedBy)
           \/ CompleteUnguarded(e)
           \/ \E m \in Nat : Fail(e, row[e].lockedBy, m) /\ m <= MaxRetries
           \/ \E n, m \in Nat : FailUnguarded(e, n, m) /\ m <= MaxRetries
           \/ RetryNow(e)
           \/ ResetRunningToQueued(e, row[e].lockedBy)
           \/ MarkEventFailed(e)
           \/ BackoffElapses(e)
    PROVE  QueueInv'
  <1>1. /\ row[e] \in Row /\ row[e].retries \in Nat /\ row[e].lockedBy \in Nat
        /\ claims[e] \in Nat /\ granted[e] \in Nat /\ MaxRetries \in Nat
        /\ granted = [granted EXCEPT ![e] = granted[e]]
    BY QueueBounds DEF QueueInv, QueueTypeOK, Row, QueueBounds
  <1>2. claims[e] + (IF row[e].status = "queued" THEN 1 ELSE 0)
          <= 1 + Spent(row[e]) + granted[e]
    BY DEF QueueInv, BudgetKept
  <1>3. Spent(row[e]) \in Nat
    BY <1>1 DEF Spent
  <1>4. /\ lastId' = lastId
         /\ e <= lastId' /\ lastId' \in lastId .. MaxEvents
    <2>1. lastId' = lastId /\ row[e].status # "absent"
      BY DEF Complete, CompleteUnguarded, Fail, FailUnguarded, RetryNow,
             ResetRunningToQueued, MarkEventFailed, BackoffElapses, Owns, Inserted
    <2>2. lastId \in Nat /\ lastId <= MaxEvents /\ MaxEvents \in Nat
      BY QueueBounds DEF QueueInv, QueueTypeOK, QueueBounds
    <2>3. ~(e > lastId)
      BY <2>1 DEF QueueInv, FreshRows
    <2>4. QED
      BY <2>1, <2>2, <2>3 DEF Ids
  <1>5. CASE Complete(e, row[e].lockedBy) \/ CompleteUnguarded(e)
    <2> DEFINE r == Released(row[e], "done")
    <2>1. /\ row' = [row EXCEPT ![e] = r]
          /\ UNCHANGED <<lastId, minted, lapsed, claims, granted>>
      BY <1>5 DEF Complete, CompleteUnguarded
    <2>2. /\ r \in Row /\ r.status = "done" /\ r.lockedBy = NULL
          /\ r.retries = row[e].retries
      BY <1>1, ReleasedRow DEF Statuses
    <2> HIDE DEF r
    <2>3. claims[e] + (IF r.status = "queued" THEN 1 ELSE 0) <= 1 + Spent(r) + granted[e]
      BY <1>1, <1>2, <1>3, <2>2 DEF Spent
    <2>4. granted' = [granted EXCEPT ![e] = granted[e]]
      BY <1>1, <2>1
    <2>5. QED
      BY <1>1, <2>1, <2>2, <2>3, <2>4, <1>4, UnlockedRow
  <1>6. CASE \E m \in Nat : Fail(e, row[e].lockedBy, m) /\ m <= MaxRetries
    <2> PICK m \in Nat : Fail(e, row[e].lockedBy, m) /\ m <= MaxRetries
      BY <1>6
    <2> DEFINE n == row[e].retries
    <2> DEFINE r == [Charged(row[e], n, m) EXCEPT !.ready = FALSE]
    <2>1. /\ row' = [row EXCEPT ![e] = r]
          /\ UNCHANGED <<lastId, minted, lapsed, claims, granted>>
          /\ row[e].status = "running"
      BY DEF Fail, Owns
    <2>2. n \in Nat /\ n = row[e].retries /\ row[e] \in Row /\ m \in Nat
      BY <1>1
    <2> HIDE DEF n
    <2>3. \A q \in Row, k \in Nat, l \in Nat :
             LET d == [Charged(q, k, l) EXCEPT !.ready = FALSE] IN
             /\ d \in Row /\ d.status \in {"queued", "failed"} /\ d.lockedBy = NULL
             /\ d.status = "queued" => k + 1 <= l
             /\ d.retries = k + 1
      BY DeferredRow
    <2>4. /\ r \in Row /\ r.status \in {"queued", "failed"} /\ r.lockedBy = NULL
          /\ r.status = "queued" => n + 1 <= m
          /\ r.retries = n + 1
      BY <2>2, <2>3
    <2> HIDE DEF r
    <2>5. claims[e] + (IF r.status = "queued" THEN 1 ELSE 0) <= 1 + Spent(r) + granted[e]
      BY <1>1, <1>2, <2>1, <2>2, <2>4 DEF Spent
    <2>6. granted' = [granted EXCEPT ![e] = granted[e]]
      BY <1>1, <2>1
    <2>7. QED
      BY <1>1, <2>1, <2>4, <2>5, <2>6, <1>4, UnlockedRow
  <1>7. CASE \E n, m \in Nat : FailUnguarded(e, n, m) /\ m <= MaxRetries
    <2> PICK n \in Nat, m \in Nat : FailUnguarded(e, n, m) /\ m <= MaxRetries
      BY <1>7
    <2> DEFINE r == [Charged(row[e], n, m) EXCEPT !.ready = FALSE]
    <2> DEFINE g == IF n < Spent(row[e])
                    THEN granted[e] + (Spent(row[e]) - n) ELSE granted[e]
    <2>1. /\ row' = [row EXCEPT ![e] = r]
          /\ granted' = [granted EXCEPT ![e] = g]
          /\ UNCHANGED <<lastId, minted, lapsed, claims>>
      BY DEF FailUnguarded
    <2>2. \A q \in Row, k \in Nat, l \in Nat :
             LET d == [Charged(q, k, l) EXCEPT !.ready = FALSE] IN
             /\ d \in Row /\ d.status \in {"queued", "failed"} /\ d.lockedBy = NULL
             /\ d.status = "queued" => k + 1 <= l
             /\ d.retries = k + 1
      BY DeferredRow
    <2>3. /\ r \in Row /\ r.status \in {"queued", "failed"} /\ r.lockedBy = NULL
          /\ r.status = "queued" => n + 1 <= m
          /\ r.retries = n + 1
      BY <1>1, <2>2
    <2>4. g \in Nat
      BY <1>1, <1>3
    <2> HIDE DEF r
    <2>5. claims[e] + (IF r.status = "queued" THEN 1 ELSE 0) <= 1 + Spent(r) + g
      BY <1>1, <1>2, <2>3 DEF Spent
    <2> HIDE DEF g
    <2>6. QED
      BY <2>1, <2>3, <2>4, <2>5, <1>4, UnlockedRow
  <1>8. CASE RetryNow(e) \/ ResetRunningToQueued(e, row[e].lockedBy)
    <2> DEFINE q == Released(row[e], "queued")
    <2> DEFINE g == IF row[e].status # "queued" THEN granted[e] + 1 ELSE granted[e]
    <2>1. PICK b \in BOOLEAN : row' = [row EXCEPT ![e] = [q EXCEPT !.ready = b]]
      BY <1>8 DEF RetryNow, ResetRunningToQueued
    <2>2. /\ granted' = [granted EXCEPT ![e] = g]
          /\ UNCHANGED <<lastId, minted, lapsed, claims>>
      BY <1>8 DEF RetryNow, ResetRunningToQueued, Owns
    <2>3. /\ q \in Row /\ q.status = "queued" /\ q.lockedBy = NULL
          /\ q.retries = row[e].retries
      BY <1>1, ReleasedRow DEF Statuses
    <2> HIDE DEF q
    <2> DEFINE r == [q EXCEPT !.ready = b]
    <2>4. /\ r \in Row /\ r.status = "queued" /\ r.lockedBy = NULL
          /\ r.retries = row[e].retries
      BY <2>1, <2>3 DEF Row
    <2>5. row' = [row EXCEPT ![e] = r]
      BY <2>1
    <2> HIDE DEF r
    <2>6. g \in Nat /\ claims[e] + (IF r.status = "queued" THEN 1 ELSE 0) <= 1 + Spent(r) + g
      BY <1>1, <1>2, <1>3, <2>4 DEF Spent
    <2> HIDE DEF g
    <2>7. QED
      BY <2>2, <2>4, <2>5, <2>6, <1>4, UnlockedRow
  <1>9. CASE MarkEventFailed(e)
    <2> DEFINE r == Released(row[e], "failed")
    <2>1. /\ row' = [row EXCEPT ![e] = r]
          /\ UNCHANGED <<lastId, minted, lapsed, claims, granted>>
      BY <1>9 DEF MarkEventFailed
    <2>2. /\ r \in Row /\ r.status = "failed" /\ r.lockedBy = NULL
          /\ r.retries = row[e].retries
      BY <1>1, ReleasedRow DEF Statuses
    <2> HIDE DEF r
    <2>3. claims[e] + (IF r.status = "queued" THEN 1 ELSE 0) <= 1 + Spent(r) + granted[e]
      BY <1>1, <1>2, <1>3, <2>2 DEF Spent
    <2>4. granted' = [granted EXCEPT ![e] = granted[e]]
      BY <1>1, <2>1
    <2>5. QED
      BY <1>1, <2>1, <2>2, <2>3, <2>4, <1>4, UnlockedRow
  <1>10. CASE BackoffElapses(e)
    <2> DEFINE r == [row[e] EXCEPT !.ready = TRUE]
    <2>1. /\ row' = [row EXCEPT ![e] = r]
          /\ UNCHANGED <<lastId, minted, lapsed, claims, granted>>
          /\ row[e].status = "queued"
      BY <1>10 DEF BackoffElapses
    <2>2. /\ r \in Row /\ r.status = "queued" /\ r.lockedBy = row[e].lockedBy
          /\ r.retries = row[e].retries
      BY <1>1, <2>1 DEF Row
    <2>3. r.lockedBy = NULL
      BY <2>1, <2>2 DEF QueueInv, QueueTypeOK
    <2> HIDE DEF r
    <2>4. claims[e] + (IF r.status = "queued" THEN 1 ELSE 0) <= 1 + Spent(r) + granted[e]
      BY <1>1, <1>2, <1>3, <2>1, <2>2 DEF Spent
    <2>5. granted' = [granted EXCEPT ![e] = granted[e]]
      BY <1>1, <2>1
    <2>6. QED
      BY <1>1, <2>1, <2>2, <2>3, <2>4, <2>5, <1>4, UnlockedRow
  <1>11. QED
    BY <1>5, <1>6, <1>7, <1>8, <1>9, <1>10

\* A new row is unlocked, unpaid-for attempts it has none: its first claim is
\* the one the budget starts with.
LEMMA EnqueueStep ==
    ASSUME NEW c \in Conversations \cup {NoConv}, NEW k \in Keys \cup {NoKey},
           NEW ready \in BOOLEAN, QueueInv, Enqueue(c, k, ready)
    PROVE  QueueInv'
  <1> DEFINE e == lastId + 1
  <1> DEFINE r == [Absent EXCEPT !.status = "queued", !.conv = c, !.key = k, !.ready = ready]
  <1>1. /\ lastId \in Nat /\ MaxEvents \in Nat /\ lastId < MaxEvents /\ MaxRetries \in Nat
        /\ lastId' = lastId + 1
    BY QueueBounds DEF QueueInv, QueueTypeOK, QueueBounds, Enqueue
  <1>2. e \in Ids /\ e <= lastId' /\ lastId' \in lastId .. MaxEvents /\ e > lastId
    BY <1>1 DEF Ids
  <1>3. /\ row' = [row EXCEPT ![e] = r]
        /\ UNCHANGED <<minted, lapsed, claims, granted>>
    BY DEF Enqueue
  <1>4. r \in Row /\ r.status = "queued" /\ r.lockedBy = NULL /\ r.retries = 0
    BY DEF Absent, Row, Statuses, NULL
  <1> HIDE DEF r
  <1>5. claims[e] = 0 /\ granted[e] \in Nat /\ granted' = [granted EXCEPT ![e] = granted[e]]
    BY <1>2, <1>3 DEF QueueInv, QueueTypeOK, FreshRows
  <1>6. claims[e] + (IF r.status = "queued" THEN 1 ELSE 0) <= 1 + Spent(r) + granted[e]
    BY <1>1, <1>4, <1>5 DEF Spent
  <1> HIDE DEF e
  <1>7. QED
    BY <1>2, <1>3, <1>4, <1>5, <1>6, UnlockedRow

\* Renewing a lease, or letting it lapse, changes no row.
LEMMA LeaseStep ==
    ASSUME NEW t \in Tokens, QueueInv, RenewLease(t) \/ LeaseLapses(t)
    PROVE  QueueInv'
  <1>1. /\ UNCHANGED <<row, lastId, minted, claims, granted>>
        /\ lapsed' \subseteq lapsed \cup {t}
    BY DEF RenewLease, LeaseLapses
  <1>2. QueueTypeOK'
    BY <1>1 DEF QueueInv, QueueTypeOK, Tokens
  <1>3. OneConversationPerClaim' /\ BudgetKept' /\ FreshRows'
    BY <1>1 DEF QueueInv, OneConversationPerClaim, BudgetKept, FreshRows, Spent
  <1>4. QED
    BY <1>2, <1>3 DEF QueueInv

\* Every step of the queue keeps the invariant.
LEMMA QueueStep == QueueInv /\ [QueueNext]_queueVars => QueueInv'
  <1> SUFFICES ASSUME QueueInv, [QueueNext]_queueVars
               PROVE  QueueInv'
    OBVIOUS
  <1>1. MaxRetries \in Nat /\ MaxFailures \in Nat
    BY QueueBounds DEF QueueBounds
  <1>2. CASE UNCHANGED queueVars
    BY <1>2 DEF queueVars, QueueInv, QueueTypeOK, OneConversationPerClaim, BudgetKept,
                FreshRows, Tokens, Spent
  <1>3. CASE \E c \in Conversations \cup {NoConv}, k \in Keys \cup {NoKey}, r \in BOOLEAN :
               Enqueue(c, k, r)
    BY <1>3, EnqueueStep
  <1>4. CASE RequeueExpired
    BY <1>4, RequeueStep
  <1>5. CASE \E coalesce \in BOOLEAN : Claim(coalesce)
    BY <1>5, ClaimStep
  <1>6. CASE \E t \in Tokens : RenewLease(t) \/ LeaseLapses(t)
    BY <1>6, LeaseStep
  <1>7. CASE \E e \in Ids, t \in Tokens :
               \/ Complete(e, t)
               \/ \E m \in {0, MaxRetries} : Fail(e, t, m)
               \/ ResetRunningToQueued(e, t)
    <2> PICK e \in Ids, t \in Tokens :
               \/ Complete(e, t)
               \/ \E m \in {0, MaxRetries} : Fail(e, t, m)
               \/ ResetRunningToQueued(e, t)
      BY <1>7
    <2>1. t = row[e].lockedBy
      BY DEF Complete, Fail, ResetRunningToQueued, Owns
    <2>2. \A m \in {0, MaxRetries} : m \in Nat /\ m <= MaxRetries
      BY <1>1
    <2>3. QED
      BY <2>1, <2>2, UnlockStep
  <1>8. CASE \E e \in Ids, n \in 0 .. MaxFailures, m \in {0, MaxRetries} :
               FailUnguarded(e, n, m)
    <2>1. \A m \in {0, MaxRetries} : m \in Nat /\ m <= MaxRetries
      BY <1>1
    <2>2. \A n \in 0 .. MaxFailures : n \in Nat
      BY <1>1
    <2>3. QED
      BY <1>8, <2>1, <2>2, UnlockStep
  <1>9. CASE \E e \in Ids : \/ RetryNow(e)
                           \/ MarkEventFailed(e)
                           \/ CompleteUnguarded(e)
                           \/ BackoffElapses(e)
    BY <1>9, UnlockStep
  <1>10. QED
    BY <1>2, <1>3, <1>4, <1>5, <1>6, <1>7, <1>8, <1>9 DEF QueueNext

\* The empty table satisfies the invariant.
LEMMA QueueStart == QueueInit => QueueInv
  <1> SUFFICES ASSUME QueueInit
               PROVE  QueueInv
    OBVIOUS
  <1>1. Absent \in Row /\ Absent.lockedBy = NULL /\ Absent.status = "absent" /\ Absent.retries = 0
    BY DEF Absent, Row, Statuses, NULL
  <1>2. \A e \in Ids : row[e] = Absent /\ claims[e] = 0 /\ granted[e] = 0
    BY DEF QueueInit
  <1>3. QueueTypeOK
    BY <1>1, QueueBounds DEF QueueInit, QueueTypeOK, Tokens, QueueBounds, NULL
  <1>4. OneConversationPerClaim /\ BudgetKept /\ FreshRows
    BY <1>1, <1>2, QueueBounds DEF OneConversationPerClaim, BudgetKept, FreshRows, Spent, QueueBounds
  <1>5. QED
    BY <1>3, <1>4 DEF QueueInv

-----------------------------------------------------------------------------
(* The theorems.                                                           *)

\* The invariant holds in every reachable state.
LEMMA QueueInvariant == QueueSpec => []QueueInv
  <1>1. QueueInit => QueueInv
    BY QueueStart
  <1>2. QueueInv /\ [QueueNext]_queueVars => QueueInv'
    BY QueueStep
  <1>3. QED
    BY <1>1, <1>2, PTL DEF QueueSpec

\* Rows, tokens and leases are well formed, and a row is locked exactly while
\* it runs, for any table and any callers.
THEOREM QueueTypeCorrect == QueueSpec => []QueueTypeOK
  <1>1. QueueInv => QueueTypeOK
    BY DEF QueueInv
  <1>2. QED
    BY <1>1, QueueInvariant, PTL

\* No claim ever holds messages of two conversations.
THEOREM ClaimsKeepToOneConversation == QueueSpec => []OneConversationPerClaim
  <1>1. QueueInv => OneConversationPerClaim
    BY DEF QueueInv
  <1>2. QED
    BY <1>1, QueueInvariant, PTL

\* The budget that is kept step by step bounds the attempts.
LEMMA BudgetBoundsAttempts == QueueInv => AttemptsBounded
  <1> SUFFICES ASSUME QueueInv, NEW e \in Ids
               PROVE  claims[e] <= 1 + MaxRetries + granted[e]
    BY DEF AttemptsBounded
  <1>1. /\ claims[e] \in Nat /\ granted[e] \in Nat /\ row[e].retries \in Nat
        /\ MaxRetries \in Nat
    BY QueueBounds DEF QueueInv, QueueTypeOK, Row, QueueBounds
  <1>2. claims[e] + (IF row[e].status = "queued" THEN 1 ELSE 0)
          <= 1 + Spent(row[e]) + granted[e]
    BY DEF QueueInv, BudgetKept
  <1>3. QED
    BY <1>1, <1>2 DEF Spent

\* No event is run more often than its budget and the attempts granted to it.
THEOREM PoisonEventStops == QueueSpec => []AttemptsBounded
  BY BudgetBoundsAttempts, QueueInvariant, PTL

\* Every row a step touches ends unlocked, or locked by the token the step
\* mints, or as locked as it was.
LEMMA LockMoves ==
    ASSUME QueueInv, QueueNext, NEW e \in Ids
    PROVE  row'[e].lockedBy \in {NULL, row[e].lockedBy, minted + 1}
  <1>1. /\ row \in [Ids -> Row] /\ row[e] \in Row /\ row[e].lockedBy \in Nat
        /\ row[e].retries \in Nat /\ MaxRetries \in Nat /\ MaxFailures \in Nat
    BY QueueBounds DEF QueueInv, QueueTypeOK, Row, QueueBounds
  <1>2. ASSUME NEW c \in Conversations \cup {NoConv}, NEW k \in Keys \cup {NoKey},
               NEW r \in BOOLEAN, Enqueue(c, k, r)
        PROVE  row'[e].lockedBy \in {NULL, row[e].lockedBy, minted + 1}
    <2> DEFINE new == [Absent EXCEPT !.status = "queued", !.conv = c, !.key = k, !.ready = r]
    <2>1. row' = [row EXCEPT ![lastId + 1] = new]
      BY <1>2 DEF Enqueue
    <2>2. new.lockedBy = NULL
      BY DEF Absent
    <2> HIDE DEF new
    <2>3. QED
      BY <1>1, <2>1, <2>2
  <1>3. CASE RequeueExpired
    BY <1>3, AfterRequeueRows DEF RequeueExpired, QueueInv
  <1>4. ASSUME NEW coalesce \in BOOLEAN, Claim(coalesce)
        PROVE  row'[e].lockedBy \in {NULL, row[e].lockedBy, minted + 1}
    <2>1. /\ AfterRequeue[e] \in Row
          /\ AfterRequeue[e].lockedBy \in {NULL, row[e].lockedBy}
      BY AfterRequeueRows DEF QueueInv
    <2>2. \/ row'[e] = AfterRequeue[e]
          \/ row'[e] = [AfterRequeue[e] EXCEPT !.status = "running", !.lockedBy = minted + 1]
      BY <1>4 DEF Claim, MintClaimToken
    <2>3. QED
      BY <2>1, <2>2 DEF Row
  <1>5. CASE \E t \in Tokens : RenewLease(t) \/ LeaseLapses(t)
    BY <1>5 DEF RenewLease, LeaseLapses
  <1>6. ASSUME NEW d \in Ids, NEW s \in Statuses, NEW b \in BOOLEAN,
               \/ row' = [row EXCEPT ![d] = Released(@, s)]
               \/ row' = [row EXCEPT ![d] = [Released(@, s) EXCEPT !.ready = b]]
        PROVE  row'[e].lockedBy \in {NULL, row[e].lockedBy, minted + 1}
    <2>1. row[d] \in Row
      BY <1>1
    <2>2. Released(row[d], s) \in Row /\ Released(row[d], s).lockedBy = NULL
      BY <2>1, ReleasedRow
    <2> DEFINE q == Released(row[d], s)
    <2>3. row' = [row EXCEPT ![d] = q] \/ row' = [row EXCEPT ![d] = [q EXCEPT !.ready = b]]
      BY <1>6
    <2>4. q \in Row /\ q.lockedBy = NULL
      BY <2>2
    <2> HIDE DEF q
    <2>5. [q EXCEPT !.ready = b].lockedBy = NULL
      BY <2>4 DEF Row
    <2>6. QED
      BY <1>1, <2>3, <2>4, <2>5
  <1>7. ASSUME NEW d \in Ids, NEW n \in Nat, NEW m \in Nat,
               row' = [row EXCEPT ![d] = [Charged(@, n, m) EXCEPT !.ready = FALSE]]
        PROVE  row'[e].lockedBy \in {NULL, row[e].lockedBy, minted + 1}
    <2> DEFINE q == Charged(row[d], n, m)
    <2>1. row[d] \in Row
      BY <1>1
    <2>2. q \in Row /\ q.lockedBy = NULL
      BY <2>1, ChargedRow
    <2>3. row' = [row EXCEPT ![d] = [q EXCEPT !.ready = FALSE]]
      BY <1>7
    <2> HIDE DEF q
    <2>4. [q EXCEPT !.ready = FALSE].lockedBy = NULL
      BY <2>2 DEF Row
    <2>5. QED
      BY <1>1, <2>3, <2>4
  <1>8. CASE \E d \in Ids, t \in Tokens : Complete(d, t) \/ ResetRunningToQueued(d, t)
    BY <1>6, <1>8 DEF Complete, ResetRunningToQueued, Statuses
  <1>9. CASE \E d \in Ids : RetryNow(d) \/ CompleteUnguarded(d) \/ MarkEventFailed(d)
    BY <1>6, <1>9 DEF RetryNow, CompleteUnguarded, MarkEventFailed, Statuses
  <1>10. CASE \E d \in Ids, t \in Tokens, m \in {0, MaxRetries} : Fail(d, t, m)
    <2> PICK d \in Ids, t \in Tokens, m \in {0, MaxRetries} : Fail(d, t, m)
      BY <1>10
    <2>1. row' = [row EXCEPT ![d] = [Charged(@, row[d].retries, m) EXCEPT !.ready = FALSE]]
      BY DEF Fail
    <2>2. row[d].retries \in Nat /\ m \in Nat
      BY <1>1 DEF Row
    <2>3. QED
      BY <1>7, <2>1, <2>2
  <1>11. CASE \E d \in Ids, n \in 0 .. MaxFailures, m \in {0, MaxRetries} :
                FailUnguarded(d, n, m)
    <2> PICK d \in Ids, n \in 0 .. MaxFailures, m \in {0, MaxRetries} : FailUnguarded(d, n, m)
      BY <1>11
    <2>1. n \in Nat /\ m \in Nat
      BY <1>1
    <2>2. row' = [row EXCEPT ![d] = [Charged(@, n, m) EXCEPT !.ready = FALSE]]
      BY DEF FailUnguarded
    <2>3. QED
      BY <1>7, <2>1, <2>2
  <1>12. CASE \E d \in Ids : BackoffElapses(d)
    BY <1>1, <1>12 DEF BackoffElapses, Row
  <1>13. QED
    BY <1>2, <1>3, <1>4, <1>5, <1>8, <1>9, <1>10, <1>11, <1>12 DEF QueueNext

\* A worker that lost its claim on an event can never pass a guard on it again.
THEOREM StaleWorkersStayStale == QueueSpec => StaleTokenNeverReturns
  <1> DEFINE NeverReturns == \A e \in Ids, t \in Tokens : row[e].lockedBy # t => row'[e].lockedBy # t
  <1>1. QueueInv /\ [QueueNext]_queueVars => [NeverReturns]_queueVars
    <2> SUFFICES ASSUME QueueInv, QueueNext, NEW e \in Ids, NEW t \in Tokens,
                        row[e].lockedBy # t
                 PROVE  row'[e].lockedBy # t
      OBVIOUS
    <2>1. row'[e].lockedBy \in {NULL, row[e].lockedBy, minted + 1}
      BY LockMoves
    <2>2. minted \in Nat /\ t \in 1 .. minted
      BY QueueBounds DEF QueueInv, QueueTypeOK, Tokens, QueueBounds
    <2>3. t # NULL /\ t # minted + 1
      BY <2>2 DEF NULL
    <2>4. QED
      BY <2>1, <2>3
  <1>2. QED
    BY <1>1, QueueInvariant, PTL DEF QueueSpec, StaleTokenNeverReturns

\* No claim takes an event whose holder still has its lease.
THEOREM LiveLeasesAreRespected == QueueSpec => LiveLeaseRespected
  <1> DEFINE Respected == \A e \in Ids :
         claims'[e] > claims[e] => row[e].status = "queued" \/ row[e].lockedBy \in lapsed
  <1>1. QueueInv /\ [QueueNext]_queueVars => [Respected]_queueVars
    <2> SUFFICES ASSUME QueueInv, QueueNext, NEW e \in Ids, claims'[e] > claims[e]
                 PROVE  row[e].status = "queued" \/ row[e].lockedBy \in lapsed
      OBVIOUS
    <2>1. claims[e] \in Nat /\ QueueTypeOK
      BY DEF QueueInv, QueueTypeOK
    <2>2. claims' # claims
      BY <2>1
    <2>3. PICK coalesce \in BOOLEAN : Claim(coalesce)
      BY <2>2 DEF QueueNext, Enqueue, RequeueExpired, RenewLease, LeaseLapses, Complete,
                  Fail, ResetRunningToQueued, RetryNow, MarkEventFailed, FailUnguarded,
                  CompleteUnguarded, BackoffElapses
    <2>4. PICK head \in Claimable(AfterRequeue) :
            claims' = [d \in Ids |-> IF d \in BatchOf(AfterRequeue, head, coalesce)
                                     THEN claims[d] + 1 ELSE claims[d]]
      BY <2>3 DEF Claim
    <2>5. e \in BatchOf(AfterRequeue, head, coalesce)
      BY <2>1, <2>4
    <2>6. AfterRequeue[e].status = "queued"
      BY <2>5 DEF BatchOf, Claimable
    <2>7. CASE Expired(e)
      BY <2>7 DEF Expired
    <2>8. CASE ~Expired(e)
      BY <2>1, <2>6, <2>8, AfterRequeueRows
    <2>9. QED
      BY <2>7, <2>8
  <1>2. QED
    BY <1>1, QueueInvariant, PTL DEF QueueSpec, LiveLeaseRespected
=============================================================================

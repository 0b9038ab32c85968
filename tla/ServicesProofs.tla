--------------------------- MODULE ServicesProofs ---------------------------
(***************************************************************************)
(* The services of MCServices that move through files, counters and        *)
(* processes without a lock: what each of them promises, for any number of *)
(* messages, workers, starts and sessions, and for their composition.      *)
(***************************************************************************)
EXTENDS MCServices, FiniteSetTheorems, WellFoundedInduction, TLAPS

-----------------------------------------------------------------------------
(* Telegram: the offset and what Telegram has forgotten. *)

\* An update that will not be looked at again for want of a trace of it.
Traced(u) == fate[u] # "none" \/ u \in escaped

TelegramTyped ==
    /\ arrived \in 0..MaxUpdates /\ offset \in Nat /\ confirmed \in Nat
    /\ fate \in [Updates -> {"none", "queued", "handled", "dropped"}]
    /\ results \subseteq Updates

\* Nothing untraced lies below the offset, below what Telegram has forgotten,
\* before an update with an end, or before the rest of the answer outside it.
TracedBelow ==
    /\ \A u \in Updates : u < offset \/ u < confirmed => Traced(u)
    /\ \A u \in Updates, v \in Updates : u < v /\ fate[v] # "none" => Traced(u)
    /\ \A u \in Updates, v \in results : u < v => u \in results \/ Traced(u)

TelegramInv == TelegramTyped /\ TracedBelow

LEMMA TelegramInitially == TelegramInit => TelegramInv
  BY TelegramAssumption DEF TelegramInit, TelegramInv, TelegramTyped, TracedBelow,
     TelegramAssumption, Updates

\* What the handling of the next update of an answer must do to keep the invariant.
LEMMA UpdateHandled ==
    ASSUME TelegramInv, NEW u \in results, Earliest(u),
           UNCHANGED <<arrived, confirmed>>, escaped \subseteq escaped',
           NEW end \in {"none", "queued", "handled", "dropped"},
           fate' = [fate EXCEPT ![u] = end],
           end = "none" => fate[u] = "none",
           offset' \in {Past(u), u},
           results' \in {results \ {u}, {}},
           Traced(u)' \/ (offset' = u /\ results' = {})
    PROVE  TelegramInv'
  <1>0. u \in Updates /\ Updates \subseteq Nat /\ DOMAIN fate = Updates
    BY DEF TelegramInv, TelegramTyped, Updates
  <1>1. \A w \in Updates : fate'[w] = IF w = u THEN end ELSE fate[w]
    BY <1>0
  <1>2. \A w \in Updates : Traced(w) => Traced(w)'
    BY <1>0, <1>1 DEF Traced, TelegramInv, TelegramTyped
  <1>3. \A w \in Updates : w < u => Traced(w)'
    BY <1>0, <1>2 DEF Earliest, TelegramInv, TelegramTyped, TracedBelow
  <1>4. TelegramTyped'
    BY <1>0 DEF TelegramInv, TelegramTyped, Past
  <1>5. \A w \in Updates : w < offset' \/ w < confirmed' => Traced(w)'
    <2> SUFFICES ASSUME NEW w \in Updates, w < offset' \/ w < confirmed'
                 PROVE  Traced(w)'
      OBVIOUS
    <2>1. CASE w < offset \/ w < confirmed
      BY <2>1, <1>2 DEF TelegramInv, TracedBelow
    <2>2. CASE ~(w < offset) /\ ~(w < confirmed)
      <3>1. w < u \/ (w = u /\ offset' = Past(u))
        BY <2>2, <1>0 DEF Past, TelegramInv, TelegramTyped
      <3>2. offset' = Past(u) => offset' # u
        BY <1>0 DEF Past, TelegramInv, TelegramTyped
      <3>3. QED
        BY <3>1, <3>2, <1>3
    <2>3. QED
      BY <2>1, <2>2
  <1>6. \A w \in Updates, v \in Updates : w < v /\ fate'[v] # "none" => Traced(w)'
    BY <1>1, <1>2, <1>3 DEF TelegramInv, TracedBelow
  <1>7. \A w \in Updates, v \in results' : w < v => w \in results' \/ Traced(w)'
    BY <1>0, <1>2 DEF TelegramInv, TracedBelow
  <1>8. QED
    BY <1>4, <1>5, <1>6, <1>7 DEF TelegramInv, TracedBelow

LEMMA TelegramStays == TelegramInv /\ [TelegramNext]_telegramVars => TelegramInv'
  <1> SUFFICES ASSUME TelegramInv, [TelegramNext]_telegramVars
               PROVE  TelegramInv'
    OBVIOUS
  <1>0. Updates \subseteq Nat /\ results \subseteq Updates /\ DOMAIN fate = Updates
    BY DEF TelegramInv, TelegramTyped, Updates
  <1>1. CASE UpdateArrives
    BY <1>1, TelegramAssumption DEF UpdateArrives, TelegramInv, TelegramTyped, TracedBelow,
       Traced, TelegramAssumption
  <1>2. CASE GetUpdates
    <2> USE <1>2 DEF GetUpdates
    <2>1. TelegramTyped'
      BY TelegramAssumption DEF TelegramInv, TelegramTyped, Updates, TelegramAssumption
    <2>2. \A u \in Updates : u < offset' \/ u < confirmed' => Traced(u)'
      BY DEF TelegramInv, TracedBelow, Traced
    <2>3. \A u \in Updates, v \in results' : u < v => u \in results' \/ Traced(u)'
      <3> SUFFICES ASSUME NEW u \in Updates, NEW v \in results', u < v, ~Traced(u)'
                   PROVE  u \in results'
        OBVIOUS
      <3>1. v \in Nat /\ v <= arrived /\ u \in Nat /\ u >= 1
        BY DEF TelegramInv, TelegramTyped, Updates
      <3>2. u \in 1..arrived
        BY <3>1 DEF TelegramInv, TelegramTyped
      <3>3. ~(u < confirmed')
        BY <2>2
      <3>4. u >= confirmed'
        BY <3>3, <3>1, <2>1 DEF TelegramTyped
      <3>5. QED
        BY <3>2, <3>4
    <2>4. QED
      BY <2>1, <2>2, <2>3 DEF TelegramInv, TracedBelow, Traced
  <1>3. CASE PollerCrashes
    BY <1>3, <1>0 DEF PollerCrashes, TelegramInv, TelegramTyped, TracedBelow, Traced
  <1>4. ASSUME NEW u \in results, Earliest(u), HandledHere(u)
        PROVE  TelegramInv'
    <2> DEFINE end == IF fate[u] = "none" THEN "handled" ELSE fate[u]
    <2>1. fate' = [fate EXCEPT ![u] = end] /\ end # "none"
      BY <1>4, <1>0 DEF HandledHere, Settles
    <2>2. end \in {"none", "queued", "handled", "dropped"}
      BY <1>0 DEF TelegramInv, TelegramTyped
    <2>3. Traced(u)'
      BY <2>1, <1>0 DEF Traced
    <2> HIDE DEF end
    <2>4. QED
      BY <1>4, <2>1, <2>2, <2>3, UpdateHandled DEF HandledHere
  <1>5. ASSUME NEW u \in results, Earliest(u), Enqueued(u)
        PROVE  TelegramInv'
    <2>1. PICK e \in {"queued", "dropped"} : Settles(u, e)
      BY <1>5 DEF Enqueued
    <2> DEFINE end == IF fate[u] = "none" THEN e ELSE fate[u]
    <2>2. fate' = [fate EXCEPT ![u] = end] /\ end # "none"
      BY <2>1, <1>0 DEF Settles
    <2>3. end \in {"none", "queued", "handled", "dropped"}
      BY <1>0 DEF TelegramInv, TelegramTyped
    <2>4. Traced(u)'
      BY <2>2, <1>0 DEF Traced
    <2> HIDE DEF end
    <2>5. QED
      BY <1>5, <2>2, <2>3, <2>4, UpdateHandled DEF Enqueued
  <1>6. ASSUME NEW u \in results, Earliest(u), EnqueueRaises(u)
        PROVE  TelegramInv'
    <2> DEFINE last == (IF failing.update = u THEN failing.count + 1 ELSE 1) >= Tries
    <2>1. /\ UNCHANGED <<arrived, confirmed, escaped>>
          /\ Settles(u, "queued") \/ (IF last THEN Settles(u, "dropped") ELSE UNCHANGED fate)
          /\ last => offset' = Past(u) /\ results' = results \ {u}
          /\ ~last => offset' = u /\ results' = {}
      BY <1>6 DEF EnqueueRaises, Rewound
    <2> HIDE DEF last
    <2>2. PICK end \in {"none", "queued", "handled", "dropped"} :
            /\ fate' = [fate EXCEPT ![u] = end]
            /\ end = "none" => fate[u] = "none"
            /\ last => end # "none"
      <3>1. fate[u] \in {"none", "queued", "handled", "dropped"} /\ fate = [fate EXCEPT ![u] = fate[u]]
        BY <1>0 DEF TelegramInv, TelegramTyped
      <3>2. CASE UNCHANGED fate /\ ~last
        BY <3>1, <3>2
      <3>3. ASSUME NEW e \in {"queued", "dropped"}, Settles(u, e)
            PROVE  \E end \in {"none", "queued", "handled", "dropped"} :
                      /\ fate' = [fate EXCEPT ![u] = end]
                      /\ end # "none"
        <4>1. fate' = [fate EXCEPT ![u] = IF fate[u] = "none" THEN e ELSE fate[u]]
          BY <3>3 DEF Settles
        <4>2. QED
          BY <4>1, <3>1
      <3>4. QED
        BY <2>1, <3>2, <3>3
    <2>3. last => Traced(u)'
      BY <2>2, <1>0 DEF Traced
    <2>4. QED
      BY <1>6, <2>1, <2>2, <2>3, UpdateHandled
  <1>7. ASSUME NEW u \in results, Earliest(u), Escapes(u)
        PROVE  TelegramInv'
    <2>1. fate' = [fate EXCEPT ![u] = fate[u]] /\ Traced(u)'
          /\ fate[u] \in {"none", "queued", "handled", "dropped"}
      BY <1>7, <1>0 DEF Escapes, Traced, TelegramInv, TelegramTyped
    <2>2. QED
      BY <1>7, <2>1, UpdateHandled DEF Escapes
  <1>8. CASE UNCHANGED telegramVars
    BY <1>8 DEF telegramVars, TelegramInv, TelegramTyped, TracedBelow, Traced
  <1>9. QED
    BY <1>1, <1>2, <1>3, <1>4, <1>5, <1>6, <1>7, <1>8 DEF TelegramNext

\* What Telegram no longer offers, and what a later update has overtaken, has an
\* end, for any number of updates, exceptions and crashes of the poller.
THEOREM UpdatesHaveAnEnd == TelegramSpec => []UpdatesAccountedFor
  <1>1. TelegramInv => UpdatesAccountedFor
    BY DEF TelegramInv, TracedBelow, UpdatesAccountedFor, Traced
  <1>2. QED
    BY <1>1, TelegramInitially, TelegramStays, PTL DEF TelegramSpec

-----------------------------------------------------------------------------
(* Mail: the watermark, and the batches of polls that cross. *)

\* A bounded set of numbers that is not empty has its maximum: among the
\* intervals n .. N one is the smallest.
LEMMA MaxOfSet ==
    ASSUME NEW N \in Nat, NEW S \in SUBSET (0 .. N), S # {}
    PROVE  Max(S) \in S /\ \A y \in S : Max(S) >= y
  <1> DEFINE Above(n) == n .. N
             T == {Above(n) : n \in S}
  <1>1. \A n \in S : Above(n) \in FiniteSubsetsOf(Nat)
    <2> SUFFICES ASSUME NEW n \in S
                 PROVE  Above(n) \in FiniteSubsetsOf(Nat)
      OBVIOUS
    <2>1. n \in Int /\ N \in Int /\ Above(n) \in SUBSET Nat
      OBVIOUS
    <2>2. IsFiniteSet(n .. N)
      BY <2>1, FS_Interval
    <2>3. QED
      BY <2>1, <2>2 DEF FiniteSubsetsOf
  <1>2. T \subseteq FiniteSubsetsOf(Nat) /\ T # {}
    BY <1>1
  <1>3. IsWellFoundedOn(StrictSubsetOrdering(Nat), FiniteSubsetsOf(Nat))
    BY FS_StrictSubsetOrderingWellFounded
  <1>4. \E x \in T : \A y \in T : ~(<<y, x>> \in StrictSubsetOrdering(Nat))
    <2> HIDE DEF T
    <2>1. QED
      BY <1>2, <1>3, WFMin
  <1>5. PICK m \in S : \A n \in S : ~(<<Above(n), Above(m)>> \in StrictSubsetOrdering(Nat))
    BY <1>4
  <1>6. \A n \in S : m >= n
    <2> SUFFICES ASSUME NEW n \in S, n > m
                 PROVE  FALSE
      OBVIOUS
    <2>1. Above(n) \subseteq Above(m) /\ m \in Above(m) /\ m \notin Above(n)
      OBVIOUS
    <2>2. <<Above(n), Above(m)>> \in StrictSubsetOrdering(Nat)
      BY <2>1 DEF StrictSubsetOrdering
    <2>3. QED
      BY <2>2, <1>5
  <1>7. QED
    BY <1>6 DEF Max

\* A mail that was queued, recorded, or failed on its way.
Accounted(m) == mail[m] # "none" \/ m \in missed

\* What a fetch has seen and the watermark has passed is accounted for, or is
\* still in the batch of the poll.
PollSound(p) ==
    /\ poller[p].at # "rest" =>
          \A m \in Mails, h \in poller[p].handled \cup poller[p].batch :
              m <= h => Accounted(m) \/ m \in poller[p].batch
    /\ poller[p].at = "marking" =>
          poller[p].batch = {} /\ \A m \in Mails : m <= poller[p].read => Accounted(m)

MailInv ==
    /\ EmailPollTypeOK
    /\ \A m \in Mails : m <= watermark => Accounted(m)
    /\ \A p \in Pollers : PollSound(p)

PollRecord == [at : {"rest", "dispatching", "marking"}, batch : SUBSET Mails,
               handled : SUBSET Mails, read : 0..MaxMails]

LEMMA MailInitially == EmailPollInit => MailInv
  BY EmailPollAssumption DEF EmailPollInit, MailInv, EmailPollTypeOK, PollSound, PollerAtRest,
     EmailPollAssumption, Mails, Accounted

\* A step of one poller that keeps what is accounted for so.
LEMMA PollMoves ==
    ASSUME MailInv, NEW p \in Pollers, NEW r \in PollRecord,
           poller' = [poller EXCEPT ![p] = r],
           arrivedMail' = arrivedMail, watermark' \in 0..MaxMails,
           mail' \in [Mails -> {"none", "queued", "rejected", "blocked"}],
           missed' \subseteq Mails,
           \A m \in Mails : Accounted(m) => Accounted(m)',
           \A m \in Mails : m <= watermark' => Accounted(m)',
           r.at # "rest" => \A m \in Mails, h \in r.handled \cup r.batch :
                               m <= h => Accounted(m)' \/ m \in r.batch,
           r.at = "marking" => r.batch = {} /\ \A m \in Mails : m <= r.read => Accounted(m)'
    PROVE  MailInv'
  <1>1. DOMAIN poller = Pollers /\ poller \in [Pollers -> PollRecord]
    BY DEF MailInv, EmailPollTypeOK, PollRecord
  <1>2. poller' \in [Pollers -> PollRecord] /\ \A q \in Pollers : poller'[q] = IF q = p THEN r ELSE poller[q]
    BY <1>1
  <1>3. EmailPollTypeOK'
    BY <1>2 DEF MailInv, EmailPollTypeOK, PollRecord
  <1>4. ASSUME NEW q \in Pollers PROVE PollSound(q)'
    <2>1. CASE q = p
      BY <1>2, <2>1 DEF PollSound
    <2>2. CASE q # p
      <3>1. poller'[q] = poller[q]
        BY <1>2, <2>2
      <3>2. QED
        BY <3>1 DEF PollSound, MailInv
    <2>3. QED
      BY <2>1, <2>2
  <1>5. QED
    BY <1>3, <1>4 DEF MailInv

\* A mail leaves the batch of a poll, with an end or as one that was missed.
Left(p, n, done) == [poller[p] EXCEPT !.batch = @ \ {n}, !.handled = @ \cup done]

LEMMA MailDispatched ==
    ASSUME MailInv, NEW p \in Pollers, NEW n \in poller[p].batch,
           poller[p].at = "dispatching",
           NEW done \in SUBSET {n}, poller' = [poller EXCEPT ![p] = Left(p, n, done)],
           NEW end \in {"none", "queued", "rejected", "blocked"},
           mail' = [mail EXCEPT ![n] = end], end = "none" => mail[n] = "none",
           missed' \in {missed, missed \cup {n}},
           end # "none" \/ missed' = missed \cup {n},
           UNCHANGED <<arrivedMail, watermark>>
    PROVE  MailInv'
  <1>0. /\ MaxMails \in Nat /\ Mails = 1..MaxMails /\ DOMAIN mail = Mails
        /\ arrivedMail \in 0..MaxMails /\ watermark \in 0..MaxMails /\ missed \subseteq Mails
        /\ mail \in [Mails -> {"none", "queued", "rejected", "blocked"}]
        /\ poller[p] \in PollRecord /\ n \in Mails
    BY EmailPollAssumption DEF MailInv, EmailPollTypeOK, PollRecord, EmailPollAssumption, Mails
  <1> DEFINE r == Left(p, n, done)
  <1>1. /\ r \in PollRecord /\ r.at = "dispatching" /\ r.batch = poller[p].batch \ {n}
        /\ r.handled \subseteq poller[p].handled \cup {n}
    BY <1>0 DEF PollRecord, Left
  <1>2. /\ mail' \in [Mails -> {"none", "queued", "rejected", "blocked"}]
        /\ \A m \in Mails : mail'[m] = IF m = n THEN end ELSE mail[m]
        /\ missed' \subseteq Mails /\ missed \subseteq missed'
    BY <1>0
  <1>3. (\A m \in Mails : Accounted(m) => Accounted(m)') /\ Accounted(n)'
    BY <1>0, <1>2 DEF Accounted
  <1> HIDE DEF r
  <1>4. \A m \in Mails, h \in r.handled \cup r.batch : m <= h => Accounted(m)' \/ m \in r.batch
    <2> SUFFICES ASSUME NEW m \in Mails, NEW h \in r.handled \cup r.batch, m <= h
                 PROVE  Accounted(m)' \/ m \in r.batch
      OBVIOUS
    <2>1. h \in poller[p].handled \cup poller[p].batch
      BY <1>1
    <2>2. Accounted(m) \/ m \in poller[p].batch
      BY <2>1 DEF MailInv, PollSound
    <2>3. QED
      BY <2>2, <1>1, <1>3
  <1>5. \A m \in Mails : m <= watermark' => Accounted(m)'
    BY <1>3 DEF MailInv
  <1>6. poller' = [poller EXCEPT ![p] = r]
    BY DEF r
  <1>7. QED
    BY <1>0, <1>1, <1>2, <1>3, <1>4, <1>5, <1>6, PollMoves

LEMMA MailStays == MailInv /\ [EmailPollNext]_emailPollVars => MailInv'
  <1> SUFFICES ASSUME MailInv, [EmailPollNext]_emailPollVars
               PROVE  MailInv'
    OBVIOUS
  <1>0. /\ MaxMails \in Nat /\ Mails = 1..MaxMails
        /\ arrivedMail \in 0..MaxMails /\ watermark \in 0..MaxMails /\ missed \subseteq Mails
        /\ mail \in [Mails -> {"none", "queued", "rejected", "blocked"}] /\ DOMAIN mail = Mails
        /\ poller \in [Pollers -> PollRecord] /\ DOMAIN poller = Pollers
    BY EmailPollAssumption DEF MailInv, EmailPollTypeOK, PollRecord, EmailPollAssumption, Mails
  <1>1. CASE MailArrives
    BY <1>1, <1>0 DEF MailArrives, MailInv, EmailPollTypeOK, PollSound, Accounted
  <1>2. ASSUME NEW p \in Pollers, Fetch(p) PROVE MailInv'
    <2>1. PICK got \in SUBSET Found :
             /\ poller' = [poller EXCEPT ![p] = [at |-> "dispatching", batch |-> got,
                                                 handled |-> {}, read |-> 0]]
             /\ missed' = missed \cup (Found \ got)
             /\ UNCHANGED <<arrivedMail, mail, watermark>>
      BY <1>2 DEF Fetch, Parsed
    <2>2. Found \subseteq Mails
      BY <1>0 DEF Found
    <2> DEFINE r == [at |-> "dispatching", batch |-> got, handled |-> {}, read |-> 0]
    <2>3. r \in PollRecord /\ poller' = [poller EXCEPT ![p] = r]
      <3>1. got \subseteq Mails
        BY <2>2
      <3>2. r \in PollRecord
        BY <3>1, <1>0 DEF PollRecord
      <3>3. QED
        BY <3>2, <2>1
    <2>4. \A m \in Mails : Accounted(m) => Accounted(m)'
      BY <2>1 DEF Accounted
    <2>5. \A m \in Mails, h \in got : m <= h => Accounted(m)' \/ m \in got
      <3> SUFFICES ASSUME NEW m \in Mails, NEW h \in got, m <= h
                   PROVE  Accounted(m)' \/ m \in got
        OBVIOUS
      <3>1. CASE m <= watermark
        BY <3>1, <2>4 DEF MailInv
      <3>2. CASE ~(m <= watermark)
        <4>1. h \in Found /\ h \in Mails
          BY <2>2
        <4>2. m \in Found
          BY <4>1, <3>2, <1>0 DEF Found
        <4>3. QED
          BY <4>2, <2>1 DEF Accounted
      <3>3. QED
        BY <3>1, <3>2
    <2>6. missed' \subseteq Mails /\ \A m \in Mails : m <= watermark' => Accounted(m)'
      BY <2>1, <2>2, <2>4, <1>0 DEF MailInv
    <2>7. /\ r.at = "dispatching" /\ r.handled \cup r.batch = got /\ r.batch = got
      OBVIOUS
    <2> HIDE DEF r
    <2>8. QED
      BY <1>0, <2>1, <2>3, <2>4, <2>5, <2>6, <2>7, PollMoves
  <1>3. ASSUME NEW p \in Pollers, Dispatch(p) PROVE MailInv'
    <2> DEFINE n == Newest(p)
    <2>0. poller[p] \in PollRecord /\ poller[p].batch \subseteq Mails
      BY <1>0 DEF PollRecord
    <2>1. n \in poller[p].batch
      <3>1. poller[p].batch \in SUBSET (0..MaxMails) /\ poller[p].batch # {}
        BY <2>0, <1>0, <1>3 DEF Dispatch
      <3>2. QED
        BY <3>1, <1>0, MaxOfSet DEF Newest
    <2>2. poller[p].at = "dispatching" /\ arrivedMail' = arrivedMail /\ watermark' = watermark
      BY <1>3 DEF Dispatch, Marked
    <2>3. CASE /\ EnqueueMessage(n) \/ TurnsAway(n)
               /\ poller' = [poller EXCEPT ![p].batch = @ \ {n}, ![p].handled = @ \cup {n}]
               /\ UNCHANGED missed
      <3>1. PICK e \in {"queued", "rejected", "blocked"} : Recorded(n, e)
        BY <2>3 DEF EnqueueMessage, TurnsAway
      <3> DEFINE end == IF mail[n] = "none" THEN e ELSE mail[n]
      <3>2. mail' = [mail EXCEPT ![n] = end]
        BY <3>1 DEF Recorded
      <3>3. end \in {"queued", "rejected", "blocked"}
        BY <2>0, <2>1, <1>0
      <3>4. poller' = [poller EXCEPT ![p] = Left(p, n, {n})]
        BY <2>0, <2>3, <1>0 DEF PollRecord, Left
      <3> HIDE DEF n, end
      <3>5. QED
        BY <2>1, <2>2, <2>3, <3>2, <3>3, <3>4, MailDispatched
    <2>4. CASE /\ missed' = missed \cup {n}
               /\ poller' = [poller EXCEPT ![p].batch = @ \ {n}]
               /\ UNCHANGED mail
      <3> HIDE DEF n
      <3>1. Left(p, n, {}) = [poller[p] EXCEPT !.batch = poller[p].batch \ {n}]
        BY <2>0 DEF PollRecord, Left
      <3>2. poller' = [poller EXCEPT ![p] = Left(p, n, {})]
        BY <2>4, <3>1, <1>0
      <3>3. /\ mail' = [mail EXCEPT ![n] = mail[n]]
            /\ mail[n] \in {"none", "queued", "rejected", "blocked"}
            /\ missed' = missed \cup {n}
        BY <2>0, <2>1, <2>4, <1>0
      <3>4. {} \in SUBSET {n}
        OBVIOUS
      <3>5. QED
        BY <2>1, <2>2, <3>2, <3>3, <3>4, MailDispatched
    <2>5. QED
      BY <1>3, <2>3, <2>4 DEF Dispatch
  <1>4. ASSUME NEW p \in Pollers, MarkReads(p) PROVE MailInv'
    <2> DEFINE r == [poller[p] EXCEPT !.at = "marking", !.read = watermark]
    <2>0. poller[p] \in PollRecord
      BY <1>0
    <2>1. /\ UNCHANGED <<arrivedMail, mail, missed, watermark>>
          /\ poller[p].at = "dispatching" /\ poller[p].batch = {}
          /\ poller' = [poller EXCEPT ![p] = r] /\ r \in PollRecord
      BY <2>0, <1>0, <1>4 DEF MarkReads, PollRecord
    <2>2. /\ r.at = "marking" /\ r.batch = {} /\ r.handled = poller[p].handled /\ r.read = watermark
      BY <2>0, <2>1 DEF PollRecord
    <2> HIDE DEF r
    <2>3. \A m \in Mails : Accounted(m) <=> Accounted(m)'
      BY <2>1 DEF Accounted
    <2>4. \A m \in Mails, h \in r.handled \cup r.batch : m <= h => Accounted(m)'
      BY <2>1, <2>2, <2>3 DEF MailInv, PollSound
    <2>5. \A m \in Mails : m <= watermark => Accounted(m)'
      BY <2>3 DEF MailInv
    <2>6. QED
      BY <1>0, <2>1, <2>2, <2>3, <2>4, <2>5, PollMoves
  <1>5. ASSUME NEW p \in Pollers, MarkWrites(p) PROVE MailInv'
    <2>0. /\ poller[p] \in PollRecord /\ poller[p].at = "marking" /\ PollerAtRest \in PollRecord
          /\ PollerAtRest.at = "rest"
      BY <1>0, <1>5 DEF MarkWrites, PollerAtRest, PollRecord
    <2> DEFINE S == poller[p].handled \cup {poller[p].read}
               highest == Max(S)
    <2>1. S \in SUBSET (0..MaxMails) /\ S # {}
      BY <2>0, <1>0 DEF PollRecord
    <2>2. highest \in S
      BY <2>1, <1>0, MaxOfSet
    <2>3. /\ watermark' = IF highest > poller[p].read THEN highest ELSE watermark
          /\ poller' = [poller EXCEPT ![p] = PollerAtRest]
          /\ UNCHANGED <<arrivedMail, mail, missed>>
      BY <1>5 DEF MarkWrites
    <2> HIDE DEF highest
    <2>4. \A m \in Mails : Accounted(m) <=> Accounted(m)'
      BY <2>3 DEF Accounted
    <2>5. \A m \in Mails : m <= highest => Accounted(m)
      BY <2>0, <2>2 DEF MailInv, PollSound
    <2>6. watermark' \in 0..MaxMails /\ \A m \in Mails : m <= watermark' => Accounted(m)'
      BY <2>1, <2>2, <2>3, <2>4, <2>5, <1>0 DEF MailInv
    <2> HIDE DEF S
    <2>7. QED
      BY <1>0, <2>0, <2>3, <2>4, <2>6, PollMoves
  <1>6. ASSUME NEW p \in Pollers, PollEnds(p) PROVE MailInv'
    <2>1. /\ PollerAtRest \in PollRecord /\ PollerAtRest.at = "rest"
          /\ poller' = [poller EXCEPT ![p] = PollerAtRest]
          /\ UNCHANGED <<arrivedMail, mail, missed, watermark>>
      BY <1>0, <1>6 DEF PollEnds, PollerAtRest, PollRecord
    <2>2. \A m \in Mails : Accounted(m) <=> Accounted(m)'
      BY <2>1 DEF Accounted
    <2>3. \A m \in Mails : m <= watermark => Accounted(m)
      BY DEF MailInv
    <2>4. QED
      BY <1>0, <2>1, <2>2, <2>3, PollMoves
  <1>7. CASE UNCHANGED emailPollVars
    BY <1>7 DEF emailPollVars, MailInv, EmailPollTypeOK, PollSound, Accounted
  <1>8. QED
    BY <1>1, <1>2, <1>3, <1>4, <1>5, <1>6, <1>7 DEF EmailPollNext

\* No mail below the watermark was passed over, for any number of mails and of
\* pollers, wherever a poll ends and however polls cross.
THEOREM MailsHaveAnEnd == EmailPollSpec => []MailsAccountedFor
  <1>1. MailInv => MailsAccountedFor
    BY DEF MailInv, MailsAccountedFor, Accounted
  <1>2. QED
    BY <1>1, MailInitially, MailStays, PTL DEF EmailPollSpec

-----------------------------------------------------------------------------
(* The feed of the company: the cursor, its file, and the poll under way. *)

FeedTyped ==
    /\ feed \in Seq(FeedTasks) /\ Len(feed) <= MaxNotes
    /\ reader \in [at : {"rest", "injecting", "saving"}, todo : SUBSET (1..MaxNotes),
                   upto : 0..MaxNotes]
    /\ reader.upto <= Len(feed)
    /\ origin \in Nat

\* Up to c every task had its last update injected, or is older than the start.
ToldUpTo(c) ==
    /\ c \in 0..Len(feed)
    /\ \A n \in (origin + 1)..c : n \in relayed \/ \E k \in (n + 1)..c : feed[k] = feed[n]

\* The poll has injected, or will inject, the last update of each task.
PollTells ==
    /\ reader.at = "injecting" =>
          /\ cursor # NoCursor /\ cursor < reader.upto
          /\ \A n \in (cursor + 1)..reader.upto :
                Latest(n, reader.upto) => n \in relayed \cup reader.todo
    /\ reader.at = "saving" => ToldUpTo(reader.upto)

FeedInv ==
    /\ FeedTyped /\ PollTells
    /\ \A c \in {cursor, cursorFile} : c # NoCursor => ToldUpTo(c)

\* What was told stays told while updates are published and injected.
LEMMA ToldStays ==
    ASSUME FeedTyped, origin' = origin, relayed \subseteq relayed',
           Len(feed') \in Nat, Len(feed) <= Len(feed'),
           \A n \in 1..Len(feed) : feed'[n] = feed[n],
           NEW c, ToldUpTo(c)
    PROVE  ToldUpTo(c)'
  <1>1. Len(feed) \in Nat /\ c \in 0..Len(feed) /\ origin \in Nat
    BY DEF FeedTyped, ToldUpTo
  <1>2. c \in 0..Len(feed')
    BY <1>1
  <1>3. ASSUME NEW n \in (origin + 1)..c
        PROVE  n \in relayed' \/ \E k \in (n + 1)..c : feed'[k] = feed'[n]
    <2>1. n \in relayed \/ \E k \in (n + 1)..c : feed[k] = feed[n]
      BY DEF ToldUpTo
    <2>2. n \in 1..Len(feed) /\ \A k \in (n + 1)..c : k \in 1..Len(feed)
      BY <1>1
    <2>3. QED
      BY <2>1, <2>2
  <1>4. QED
    BY <1>2, <1>3 DEF ToldUpTo

LEMMA FeedStays == FeedInv /\ [FeedNext]_feedVars => FeedInv'
  <1> SUFFICES ASSUME FeedInv, [FeedNext]_feedVars
               PROVE  FeedInv'
    OBVIOUS
  <1>0. /\ MaxNotes \in Nat /\ NoCursor = MaxNotes + 1 /\ Len(feed) \in Nat
        /\ FeedTyped /\ PollTells
    BY CompanyFeedAssumption DEF FeedInv, FeedTyped, CompanyFeedAssumption, NoCursor
  <1>1. CASE Publish
    <2>1. PICK t \in FeedTasks : feed' = Append(feed, t)
      BY <1>1 DEF Publish
    <2>2. /\ feed' \in Seq(FeedTasks) /\ Len(feed') = Len(feed) + 1
          /\ \A n \in 1..Len(feed) : feed'[n] = feed[n]
      BY <2>1 DEF FeedInv, FeedTyped
    <2>3. UNCHANGED <<reader, relayed, cursor, cursorFile, origin>> /\ Len(feed) < MaxNotes
      BY <1>1 DEF Publish
    <2>4. \A c : ToldUpTo(c) => ToldUpTo(c)'
      BY <1>0, <2>2, <2>3, ToldStays
    <2>5. FeedTyped'
      BY <1>0, <2>2, <2>3 DEF FeedTyped
    <2>6. PollTells'
      <3>1. ASSUME reader.at = "injecting", NEW n \in (cursor + 1)..reader.upto,
                   Latest(n, reader.upto)'
            PROVE  n \in relayed \cup reader.todo
        <4>1. cursor \in Nat /\ reader.upto \in Nat /\ reader.upto <= Len(feed)
          BY <1>0, <3>1 DEF FeedInv, FeedTyped, PollTells, ToldUpTo
        <4>2. n \in 1..Len(feed) /\ \A k \in (n + 1)..reader.upto : k \in 1..Len(feed)
          BY <1>0, <4>1
        <4>3. Latest(n, reader.upto)
          BY <2>2, <2>3, <3>1, <4>2 DEF Latest
        <4>4. QED
          BY <1>0, <3>1, <4>3 DEF PollTells
      <3>2. QED
        BY <1>0, <2>3, <2>4, <3>1 DEF PollTells, NoCursor
    <2>7. QED
      BY <2>3, <2>4, <2>5, <2>6 DEF FeedInv, NoCursor
  <1>2. CASE ReadFeed
    <2>1. CASE cursor = NoCursor
      <3>1. /\ UNCHANGED <<feed, relayed, cursorFile>>
            /\ cursor' = Len(feed) /\ origin' = Len(feed)
            /\ reader' = [at |-> "saving", todo |-> {}, upto |-> Len(feed)]
        BY <1>2, <2>1 DEF ReadFeed, ReaderAtRest
      <3>2. reader' \in [at : {"rest", "injecting", "saving"}, todo : SUBSET (1..MaxNotes),
                         upto : 0..MaxNotes]
        BY <3>1, <1>0 DEF FeedTyped
      <3>3. reader'.at = "saving" /\ reader'.upto = Len(feed)
        BY <3>1
      <3>4. FeedTyped'
        BY <3>1, <3>2, <3>3, <1>0 DEF FeedTyped
      <3>5. \A c \in 0..Len(feed) : ToldUpTo(c)'
        BY <3>1, <1>0 DEF ToldUpTo
      <3>6. cursorFile # NoCursor => cursorFile \in 0..Len(feed)
        BY DEF FeedInv, ToldUpTo
      <3>7. QED
        BY <1>0, <3>1, <3>3, <3>4, <3>5, <3>6 DEF FeedInv, PollTells, NoCursor
    <2>2. CASE cursor # NoCursor
      <3>1. PICK upto \in (cursor + 1)..Len(feed) :
               reader' = [at |-> "injecting", upto |-> upto,
                          todo |-> {n \in (cursor + 1)..upto : Latest(n, upto)}]
        BY <1>2, <2>2 DEF ReadFeed
      <3>2. UNCHANGED <<feed, relayed, cursorFile, cursor, origin>>
        BY <1>2, <2>2 DEF ReadFeed
      <3>3. cursor \in 0..Len(feed)
        BY <2>2 DEF FeedInv, ToldUpTo
      <3>4. /\ reader'.at = "injecting" /\ reader'.upto = upto
            /\ reader'.todo = {n \in (cursor + 1)..upto : Latest(n, upto)}
        BY <3>1
      <3>5. upto \in Nat /\ cursor < upto /\ upto <= Len(feed) /\ upto \in 0..MaxNotes
            /\ (cursor + 1)..upto \subseteq 1..MaxNotes
        BY <1>0, <3>3 DEF FeedTyped
      <3>6. reader' \in [at : {"rest", "injecting", "saving"}, todo : SUBSET (1..MaxNotes),
                         upto : 0..MaxNotes]
        BY <3>1, <3>5
      <3>7. FeedTyped'
        BY <1>0, <3>2, <3>4, <3>5, <3>6 DEF FeedTyped
      <3>8. \A n, m : Latest(n, m)' = Latest(n, m)
        BY <3>2 DEF Latest
      <3>9. PollTells'
        BY <2>2, <3>2, <3>4, <3>5, <3>8 DEF PollTells, NoCursor
      <3>10. \A c : ToldUpTo(c)' = ToldUpTo(c)
        BY <3>2 DEF ToldUpTo
      <3>11. QED
        BY <3>2, <3>7, <3>9, <3>10 DEF FeedInv, NoCursor
    <2>3. QED
      BY <2>1, <2>2
  <1>3. CASE InjectUpdate
    <2>1. PICK n \in reader.todo : relayed' = relayed \cup {n}
                                   /\ reader' = [reader EXCEPT !.todo = @ \ {n}]
      BY <1>3 DEF InjectUpdate
    <2>2. UNCHANGED <<feed, cursor, cursorFile, origin>> /\ reader.at = "injecting"
      BY <1>3 DEF InjectUpdate
    <2>3. /\ reader'.at = "injecting" /\ reader'.upto = reader.upto
          /\ reader'.todo = reader.todo \ {n}
      BY <1>0, <2>1, <2>2 DEF FeedTyped
    <2>4. FeedTyped'
      BY <1>0, <2>1, <2>2 DEF FeedTyped
    <2>5. \A m, u : Latest(m, u)' = Latest(m, u)
      BY <2>2 DEF Latest
    <2>6. PollTells'
      BY <1>0, <2>1, <2>2, <2>3, <2>5 DEF PollTells, NoCursor
    <2>7. \A c : ToldUpTo(c) => ToldUpTo(c)'
      BY <1>0, <2>1, <2>2, ToldStays
    <2>8. QED
      BY <2>2, <2>4, <2>6, <2>7 DEF FeedInv, NoCursor
  <1>4. CASE AdvanceCursor
    <2>1. /\ UNCHANGED <<feed, relayed, cursorFile, origin>>
          /\ reader.at = "injecting" /\ reader.todo = {} /\ cursor' = reader.upto
          /\ reader' = [reader EXCEPT !.at = "saving"]
      BY <1>4 DEF AdvanceCursor
    <2>2. /\ reader'.at = "saving" /\ reader'.upto = reader.upto
          /\ cursor \in 0..Len(feed) /\ reader.upto \in 0..Len(feed)
          /\ cursor # NoCursor /\ cursor < reader.upto
      BY <1>0, <2>1 DEF FeedTyped, FeedInv, PollTells, ToldUpTo
    <2>3. FeedTyped'
      BY <1>0, <2>1 DEF FeedTyped
    <2>4. \A c : ToldUpTo(c)' = ToldUpTo(c)
      BY <2>1 DEF ToldUpTo
    <2>5. ToldUpTo(reader.upto)
      <3>1. ASSUME NEW n \in (origin + 1)..reader.upto
            PROVE  n \in relayed \/ \E k \in (n + 1)..reader.upto : feed[k] = feed[n]
        <4>0. origin \in Nat /\ n \in Nat
          BY <1>0 DEF FeedTyped
        <4>1. CASE n <= cursor
          <5>1. n \in relayed \/ \E k \in (n + 1)..cursor : feed[k] = feed[n]
            BY <1>0, <2>2, <4>0, <4>1 DEF FeedInv, ToldUpTo
          <5>2. (n + 1)..cursor \subseteq (n + 1)..reader.upto
            BY <1>0, <2>2, <4>0
          <5>3. QED
            BY <5>1, <5>2
        <4>2. CASE ~(n <= cursor)
          <5>1. n \in (cursor + 1)..reader.upto
            BY <1>0, <2>2, <4>0, <4>2
          <5>2. Latest(n, reader.upto) => n \in relayed
            BY <1>0, <2>1, <5>1 DEF PollTells
          <5>3. QED
            BY <5>2 DEF Latest
        <4>3. QED
          BY <4>1, <4>2
      <3>2. QED
        BY <2>2, <3>1 DEF ToldUpTo
    <2>6. QED
      BY <2>1, <2>2, <2>3, <2>4, <2>5 DEF FeedInv, PollTells, NoCursor
  <1>5. ASSUME \/ SaveCursor \/ UpdateRaises \/ FeedRestarts PROVE FeedInv'
    <2>1. /\ reader' = ReaderAtRest /\ UNCHANGED <<feed, relayed, origin>>
          /\ cursor' \in {cursor, cursorFile, NoCursor}
          /\ cursorFile' \in {cursorFile, NoCursor} \/ (reader.at = "saving" /\ cursorFile' = reader.upto)
      BY <1>5 DEF SaveCursor, UpdateRaises, FeedRestarts
    <2>2. ReaderAtRest \in [at : {"rest", "injecting", "saving"}, todo : SUBSET (1..MaxNotes),
                            upto : 0..MaxNotes]
          /\ ReaderAtRest.at = "rest" /\ ReaderAtRest.upto = 0
      BY <1>0 DEF ReaderAtRest
    <2>3. FeedTyped' /\ PollTells'
      BY <1>0, <2>1, <2>2 DEF FeedTyped, PollTells
    <2>4. \A c : ToldUpTo(c)' = ToldUpTo(c)
      BY <2>1 DEF ToldUpTo
    <2>5. QED
      BY <1>0, <2>1, <2>3, <2>4 DEF FeedInv, PollTells, NoCursor
  <1>6. CASE UNCHANGED feedVars
    BY <1>6 DEF feedVars, FeedInv, FeedTyped, PollTells, ToldUpTo, Latest, NoCursor
  <1>7. QED
    BY <1>1, <1>2, <1>3, <1>4, <1>5, <1>6 DEF FeedNext

LEMMA FeedInitially == FeedInit => FeedInv
  BY CompanyFeedAssumption DEF FeedInit, FeedInv, FeedTyped, PollTells, ToldUpTo, ReaderAtRest,
     CompanyFeedAssumption, NoCursor

\* The cursor passes no task by: the last update of each was injected, or was
\* there at the start, for any number of tasks, updates, restarts and failures.
THEOREM TasksAreTold == FeedSpec => []UpdatesTold
  <1>1. FeedInv => UpdatesTold
    BY DEF FeedInv, ToldUpTo, UpdatesTold
  <1>2. QED
    BY <1>1, FeedInitially, FeedStays, PTL DEF FeedSpec

-----------------------------------------------------------------------------
(* Background workers: what a reconcile may conclude from what it reads. *)

WorkersTyped ==
    /\ worker \in [Workers -> Row]
    /\ spawner \in [Workers -> {"none", "created", "forked", "ended"}]
    /\ runner \in [Workers -> Alive \cup {"none", "gone"}]
    /\ verdict \in [Workers -> Outcomes]
    /\ reaper \in [Workers -> {"none", "sawPid", "sawNull", "orphan"}]

\* A worker's row, its spawner, its runner and a reconcile that has read it go
\* together: once ten seconds are over the spawn is, a working runner has its pid
\* in the row while that says running, and what is looked at is past its start.
Together(w) ==
    /\ w \notin fresh /\ spawner[w] # "none" => spawner[w] = "ended" /\ runner[w] # "forked"
    /\ worker[w].status # "absent" => spawner[w] # "none"
    /\ spawner[w] = "none" => runner[w] \in {"none", "gone"}
    /\ runner[w] = "working" =>
          /\ worker[w].status \in {"running", "cancelled", "failed"}
          /\ worker[w].status = "running" => worker[w].pid = TRUE
    /\ reaper[w] # "none" => spawner[w] = "ended" /\ runner[w] # "forked"
    /\ reaper[w] \in {"sawNull", "orphan"} => runner[w] # "working"

WorkersInv == WorkersTyped /\ \A w \in Workers : Together(w)

\* A step about one worker leaves the others as they are.
LEMMA OneWorkerMoves ==
    ASSUME WorkersInv, WorkersTyped', NEW w \in Workers, Together(w)',
           \A v \in Workers \ {w} :
              /\ worker'[v] = worker[v] /\ spawner'[v] = spawner[v] /\ runner'[v] = runner[v]
              /\ reaper'[v] = reaper[v] /\ (v \in fresh' <=> v \in fresh)
    PROVE  WorkersInv'
  <1>1. ASSUME NEW v \in Workers PROVE Together(v)'
    BY DEF WorkersInv, Together
  <1>2. QED
    BY <1>1 DEF WorkersInv

LEMMA MarkedTyped ==
    ASSUME WorkersTyped, NEW w \in Workers,
           \/ \E row \in Row : worker' = [worker EXCEPT ![w] = row]
           \/ \E s \in Terminal : MarkTerminal(w, s)
    PROVE  worker' \in [Workers -> Row]
  <1>1. worker[w] \in Row
    BY DEF WorkersTyped
  <1>2. \A s \in Terminal : [status |-> s, pid |-> FALSE] \in Row
    BY DEF Row
  <1>3. \E row \in Row : worker' = [worker EXCEPT ![w] = row]
    BY <1>1, <1>2 DEF MarkTerminal
  <1>4. QED
    BY <1>3 DEF WorkersTyped

LEMMA WorkersStay == WorkersInv /\ [WorkersNext]_workersVars => WorkersInv'
  <1> SUFFICES ASSUME WorkersInv, [WorkersNext]_workersVars
               PROVE  WorkersInv'
    OBVIOUS
  <1>0. WorkersTyped /\ \A w \in Workers : Together(w)
    BY DEF WorkersInv
  <1> USE DEF WorkersTyped, Row, Alive, Outcomes, Live, Terminal
  <1>1. ASSUME NEW w \in Workers, Create(w) \/ SpawnDies(w) \/ DoubleFork(w) \/ RecordPid(w)
        PROVE  WorkersInv'
    <2>1. WorkersTyped'
      <3>1. worker' \in [Workers -> Row]
        <4>1. worker[w] \in Row /\ DOMAIN worker = Workers
          BY <1>0
        <4>2. [worker[w] EXCEPT !.pid = TRUE] \in Row /\ [status |-> "queued", pid |-> FALSE] \in Row
          BY <4>1
        <4>3. \/ worker' = worker
              \/ worker' = [worker EXCEPT ![w] = [status |-> "queued", pid |-> FALSE]]
              \/ worker' = [worker EXCEPT ![w] = [worker[w] EXCEPT !.pid = TRUE]]
          BY <1>1, <4>1 DEF Create, NewRow, SpawnDies, DoubleFork, RecordPid
        <4> HIDE DEF Row
        <4>4. QED
          BY <1>0, <4>2, <4>3
      <3>2. QED
        BY <1>0, <1>1, <3>1 DEF Create, NewRow, SpawnDies, DoubleFork, RecordPid
    <2>2. Together(w)'
      BY <1>0, <1>1 DEF Create, NewRow, SpawnDies, DoubleFork, RecordPid, Together
    <2>3. QED
      BY <1>0, <1>1, <2>1, <2>2, OneWorkerMoves DEF Create, NewRow, SpawnDies, DoubleFork, RecordPid
  <1>2. ASSUME NEW w \in Workers, StartRun(w) \/ Conclude(w)
        PROVE  WorkersInv'
    <2>1. worker' \in [Workers -> Row]
      <3>1. verdict[w] \in Terminal /\ [status |-> "running", pid |-> TRUE] \in Row
        BY <1>0
      <3>2. CASE worker' = [worker EXCEPT ![w] = [status |-> "running", pid |-> TRUE]]
        BY <1>0, <3>1, <3>2, MarkedTyped
      <3>3. CASE MarkTerminal(w, "failed") \/ MarkTerminal(w, verdict[w])
        <4> HIDE DEF Row
        <4>1. "failed" \in Terminal
          OBVIOUS
        <4>2. \E s \in Terminal : MarkTerminal(w, s)
          BY <3>1, <3>3, <4>1
        <4>3. QED
          BY <1>0, <4>2, MarkedTyped
      <3>4. QED
        BY <1>2, <3>2, <3>3 DEF StartRun, Conclude
    <2>2. WorkersTyped'
      BY <1>0, <1>2, <2>1 DEF StartRun, Conclude
    <2>3. Together(w)'
      BY <1>0, <1>2 DEF StartRun, Conclude, MarkTerminal, Together
    <2>4. QED
      BY <1>0, <1>2, <2>2, <2>3, OneWorkerMoves DEF StartRun, Conclude, MarkTerminal
  <1>3. ASSUME NEW w \in Workers, AdapterEnds(w) \/ RunnerNotifies(w) \/ RunnerWritesNotice(w)
                                  \/ RunnerDies(w) \/ CancelKills(w)
        PROVE  WorkersInv'
    <2>1. /\ UNCHANGED <<worker, spawner, fresh, reaper>>
          /\ \E r \in {"ended", "telling", "gone", runner[w]} :
                /\ runner' = [runner EXCEPT ![w] = r]
                /\ r \in {"ended", "telling"} => runner[w] \in {"working", "marked", r}
          /\ \E s \in Outcomes : verdict' = [verdict EXCEPT ![w] = s]
      BY <1>0, <1>3 DEF AdapterEnds, RunnerNotifies, RunnerWritesNotice, RunnerDies, CancelKills
    <2>2. PICK r \in {"ended", "telling", "gone", runner[w]} :
                /\ runner' = [runner EXCEPT ![w] = r]
                /\ r \in {"ended", "telling"} => runner[w] \in {"working", "marked", r}
      BY <2>1
    <2>3. WorkersTyped'
      BY <1>0, <2>1, <2>2
    <2>4. Together(w)'
      BY <1>0, <2>1, <2>2 DEF Together
    <2>5. QED
      BY <1>0, <2>1, <2>2, <2>3, <2>4, OneWorkerMoves
  <1>4. ASSUME NEW w \in Workers, CancelMarks(w) \/ ReconcileMarks(w) \/ CollectGarbage(w)
        PROVE  WorkersInv'
    <2>1. worker' \in [Workers -> Row]
      <3>1. [status |-> "absent", pid |-> FALSE] \in Row
        OBVIOUS
      <3>2. QED
        BY <1>0, <1>4, <3>1, MarkedTyped DEF CancelMarks, ReconcileMarks, CollectGarbage
    <2>2. WorkersTyped'
      BY <1>0, <1>4, <2>1 DEF CancelMarks, ReconcileMarks, CollectGarbage
    <2>3. Together(w)'
      BY <1>0, <1>4 DEF CancelMarks, ReconcileMarks, CollectGarbage, MarkTerminal, Together
    <2>4. QED
      BY <1>0, <1>4, <2>2, <2>3, OneWorkerMoves
         DEF CancelMarks, ReconcileMarks, CollectGarbage, MarkTerminal
  <1>5. ASSUME NEW w \in Workers, CancelReads(w) \/ CancelNotifies(w) \/ ConsumeNotice(w)
        PROVE  WorkersInv'
    <2>1. UNCHANGED <<worker, spawner, runner, verdict, fresh, reaper>>
      BY <1>5 DEF CancelReads, CancelNotifies, ConsumeNotice
    <2>2. QED
      BY <1>0, <2>1 DEF WorkersInv, Together
  <1>6. ASSUME NEW w \in Workers, GrowsOld(w)
        PROVE  WorkersInv'
    <2>1. WorkersTyped'
      BY <1>0, <1>6 DEF GrowsOld
    <2>2. Together(w)'
      BY <1>0, <1>6 DEF GrowsOld, Together
    <2>3. QED
      BY <1>0, <1>6, <2>1, <2>2, OneWorkerMoves DEF GrowsOld
  <1>7. CASE ReconcileReads
    <2>1. /\ UNCHANGED <<worker, spawner, runner, verdict, fresh>>
          /\ reaper' = [w \in Workers |->
                IF w \notin Doubtful THEN "none"
                ELSE IF worker[w].pid THEN "sawPid" ELSE "sawNull"]
      BY <1>7 DEF ReconcileReads
    <2>2. WorkersTyped'
      BY <1>0, <2>1
    <2>3. ASSUME NEW w \in Workers PROVE Together(w)'
      <3>1. CASE w \notin Doubtful
        BY <1>0, <2>1, <3>1 DEF Together
      <3>2. CASE w \in Doubtful
        <4>1. /\ worker[w].status \in {"queued", "running", "need_input"} /\ w \notin fresh
              /\ reaper'[w] = IF worker[w].pid THEN "sawPid" ELSE "sawNull"
          BY <2>1, <3>2 DEF Doubtful
        <4>2. QED
          BY <1>0, <2>1, <4>1 DEF Together
      <3>3. QED
        BY <3>1, <3>2
    <2>4. QED
      BY <2>2, <2>3 DEF WorkersInv
  <1>8. ASSUME NEW w \in Workers, ReconcileChecks(w)
        PROVE  WorkersInv'
    <2>1. WorkersTyped'
      BY <1>0, <1>8 DEF ReconcileChecks
    <2>2. Together(w)'
      BY <1>0, <1>8 DEF ReconcileChecks, Orphaned, Together
    <2>3. QED
      BY <1>0, <1>8, <2>1, <2>2, OneWorkerMoves DEF ReconcileChecks
  <1>9. CASE UNCHANGED workersVars
    BY <1>9 DEF workersVars, WorkersInv, Together
  <1>10. QED
    BY <1>1, <1>2, <1>3, <1>4, <1>5, <1>6, <1>7, <1>8, <1>9
       DEF WorkersNext, RunnerStep, ReconcileStep

LEMMA WorkersInitially == WorkersInit => WorkersInv
  BY DEF WorkersInit, WorkersInv, WorkersTyped, Together, Row, Alive, Outcomes, Live, Terminal

\* A reconcile declares no worker failed whose runner is starting or working, for
\* any number of workers, of commands on them and of processes that die.
THEOREM RunnersAreNotReaped == WorkersSpec => LiveRunnerNotReaped
  <1>1. WorkersInv /\ [WorkersNext]_workersVars =>
           [\A w \in Workers : reaper[w] = "orphan" /\ reaper'[w] = "none"
               => runner[w] \notin {"forked", "working"}]_workersVars
    BY DEF WorkersInv, Together
  <1>2. QED
    BY <1>1, WorkersInitially, WorkersStay, PTL DEF WorkersSpec, LiveRunnerNotReaped

-----------------------------------------------------------------------------
(* Gateway processes: what two starts that cross leave behind. *)

DaemonTyped ==
    /\ proc \in [Pids -> {"none", "forked", "serving", "wedged", "leaving"}]
    /\ starter \in [Starters -> [at : {"rest", "reaping", "forking", "recording"},
                                 reap : SUBSET Pids, pid : Pids \cup {NoPid}]]

\* A start on its way to a fork, and the processes it will reap before that.
WillFork(s) == starter[s].at = "forking" \/ (starter[s].at = "reaping" /\ starter[s].pid = NoPid)
WillReap(s) == IF starter[s].at = "reaping" THEN starter[s].reap ELSE {}

\* Of two starts on their way to a fork each spares only what the other reaps;
\* such a start spares one process at most, the one that the other has forked.
FewSpared ==
    /\ \E p, q : Present \subseteq {p, q}
    /\ \A s \in Starters : WillFork(s) => \E p : Present \ WillReap(s) \subseteq {p}
    /\ \A s \in Starters, t \in Starters :
          s # t /\ WillFork(s) /\ WillFork(t) => Present \subseteq WillReap(s) \cup WillReap(t)

DaemonInv == DaemonTyped /\ FewSpared

\* Nothing but a start changes what starts will do, and only a fork adds a process.
LEMMA ProcessesGo ==
    ASSUME DaemonInv, DaemonTyped', starter' = starter, Present' \subseteq Present
    PROVE  DaemonInv'
  <1>1. \A s \in Starters : WillFork(s)' = WillFork(s) /\ WillReap(s)' = WillReap(s)
    BY DEF WillFork, WillReap
  <1>2. QED
    BY <1>1 DEF DaemonInv, FewSpared

LEMMA DaemonStays == DaemonInv /\ [DaemonNext]_daemonVars => DaemonInv'
  <1> SUFFICES ASSUME DaemonInv, [DaemonNext]_daemonVars
               PROVE  DaemonInv'
    OBVIOUS
  <1>0. DaemonTyped /\ FewSpared /\ NoPid \notin Pids /\ DOMAIN starter = Starters
    BY DaemonAssumption DEF DaemonInv, DaemonAssumption, DaemonTyped
  <1>1. ASSUME NEW s \in Starters, StartLooks(s)
        PROVE  DaemonInv'
    <2> DEFINE keep == IF Canonical = {} THEN NoPid ELSE pidfile
               r == [at |-> "reaping", reap |-> Present \ Canonical, pid |-> keep]
    <2>1. /\ proc' = proc /\ starter' = [starter EXCEPT ![s] = r] /\ starter[s].at = "rest"
      BY <1>1 DEF StartLooks
    <2>2. /\ keep \in Pids \cup {NoPid} /\ (keep = NoPid => Canonical = {})
          /\ Present \subseteq Pids /\ Present' = Present
      BY <1>0, <2>1 DEF Canonical, Present
    <2> HIDE DEF keep
    <2>3. r \in [at : {"rest", "reaping", "forking", "recording"},
                 reap : SUBSET Pids, pid : Pids \cup {NoPid}]
      BY <2>2
    <2>4. r.at = "reaping" /\ r.reap = Present \ Canonical /\ r.pid = keep
      OBVIOUS
    <2> HIDE DEF r
    <2>5. DaemonTyped'
      BY <1>0, <2>1, <2>3 DEF DaemonTyped
    <2>6. \A t \in Starters : starter'[t] = IF t = s THEN r ELSE starter[t]
      BY <1>0, <2>1
    <2>7. /\ WillFork(s)' => keep = NoPid
          /\ WillReap(s)' = Present \ Canonical
      BY <2>4, <2>6 DEF WillFork, WillReap
    <2>8. \A t \in Starters \ {s} : WillFork(t)' = WillFork(t) /\ WillReap(t)' = WillReap(t)
      BY <2>6 DEF WillFork, WillReap
    <2>9. FewSpared'
      BY <1>0, <2>2, <2>7, <2>8 DEF FewSpared
    <2>10. QED
      BY <2>5, <2>9 DEF DaemonInv
  <1>2. ASSUME NEW s \in Starters, StartReaps(s)
        PROVE  DaemonInv'
    <2> DEFINE fork == [AtRest EXCEPT !.at = "forking"]
               r == IF starter[s].pid = NoPid THEN fork ELSE AtRest
    <2>1. /\ proc' = [p \in Pids |-> IF p \in starter[s].reap THEN "none" ELSE proc[p]]
          /\ starter' = [starter EXCEPT ![s] = r] /\ starter[s].at = "reaping"
      BY <1>2 DEF StartReaps
    <2>2. /\ r.at = "forking" => starter[s].pid = NoPid
          /\ r.at # "reaping"
          /\ r \in [at : {"rest", "reaping", "forking", "recording"},
                    reap : SUBSET Pids, pid : Pids \cup {NoPid}]
      <3>1. /\ AtRest \in [at : {"rest", "reaping", "forking", "recording"},
                           reap : SUBSET Pids, pid : Pids \cup {NoPid}]
            /\ AtRest.at = "rest"
        BY DEF AtRest
      <3>2. /\ fork \in [at : {"rest", "reaping", "forking", "recording"},
                         reap : SUBSET Pids, pid : Pids \cup {NoPid}]
            /\ fork.at = "forking"
        BY <3>1
      <3> HIDE DEF fork
      <3>3. QED
        BY <3>1, <3>2
    <2> HIDE DEF r
    <2>3. DaemonTyped'
      BY <1>0, <2>1, <2>2 DEF DaemonTyped
    <2>4. \A t \in Starters : starter'[t] = IF t = s THEN r ELSE starter[t]
      BY <1>0, <2>1
    <2>5. Present' = Present \ WillReap(s)
      BY <2>1 DEF Present, WillReap
    <2>6. WillReap(s)' = {} /\ (WillFork(s)' => WillFork(s))
      BY <2>1, <2>2, <2>4 DEF WillFork, WillReap
    <2>7. \A t \in Starters \ {s} : WillFork(t)' = WillFork(t) /\ WillReap(t)' = WillReap(t)
      BY <2>4 DEF WillFork, WillReap
    <2>8. FewSpared'
      BY <1>0, <2>5, <2>6, <2>7 DEF FewSpared
    <2>9. QED
      BY <2>3, <2>8 DEF DaemonInv
  <1>3. ASSUME NEW s \in Starters, StartForks(s)
        PROVE  DaemonInv'
    <2>1. PICK n \in Pids : /\ proc' = [proc EXCEPT ![n] = "forked"]
                            /\ starter' = [starter EXCEPT ![s].at = "recording", ![s].pid = n]
      BY <1>3 DEF StartForks
    <2>2. starter[s].at = "forking" /\ proc' = [proc EXCEPT ![n] = "forked"]
      BY <1>3, <2>1 DEF StartForks
    <2> DEFINE r == [starter[s] EXCEPT !.at = "recording", !.pid = n]
    <2>3. starter' = [starter EXCEPT ![s] = r]
      BY <1>0, <2>1 DEF DaemonTyped
    <2>4. r.at = "recording" /\ r \in [at : {"rest", "reaping", "forking", "recording"},
                                       reap : SUBSET Pids, pid : Pids \cup {NoPid}]
      BY <1>0, <2>1 DEF DaemonTyped
    <2> HIDE DEF r
    <2>5. DaemonTyped'
      BY <1>0, <2>2, <2>3, <2>4 DEF DaemonTyped
    <2>6. \A t \in Starters : starter'[t] = IF t = s THEN r ELSE starter[t]
      BY <1>0, <2>3
    <2>7. Present' \subseteq Present \cup {n}
      BY <1>0, <2>2 DEF Present, DaemonTyped
    <2>8. ~WillFork(s)' /\ WillFork(s) /\ WillReap(s) = {}
      BY <2>2, <2>4, <2>6 DEF WillFork, WillReap
    <2>9. \A t \in Starters \ {s} : WillFork(t)' = WillFork(t) /\ WillReap(t)' = WillReap(t)
      BY <2>6 DEF WillFork, WillReap
    <2>10. \E p, q : Present' \subseteq {p, q}
      BY <1>0, <2>7, <2>8 DEF FewSpared
    <2>11. ASSUME NEW t \in Starters, WillFork(t)'
           PROVE  Present' \ WillReap(t)' \subseteq {n}
      <3>1. t # s /\ WillFork(t) /\ WillReap(t)' = WillReap(t)
        BY <2>8, <2>9, <2>11
      <3>2. Present \subseteq WillReap(t)
        BY <1>0, <2>8, <3>1 DEF FewSpared
      <3>3. QED
        BY <2>7, <3>1, <3>2
    <2>12. \A t \in Starters, u \in Starters : WillFork(t)' /\ WillFork(u)' => t = u
      BY <2>8 DEF Starters
    <2>13. FewSpared'
      BY <2>10, <2>11, <2>12 DEF FewSpared
    <2>14. QED
      BY <2>5, <2>13 DEF DaemonInv
  <1>4. ASSUME NEW s \in Starters, StartRecords(s)
        PROVE  DaemonInv'
    <2>1. proc' = proc /\ starter' = [starter EXCEPT ![s] = AtRest] /\ starter[s].at = "recording"
      BY <1>4 DEF StartRecords
    <2>2. /\ AtRest.at = "rest"
          /\ AtRest \in [at : {"rest", "reaping", "forking", "recording"},
                         reap : SUBSET Pids, pid : Pids \cup {NoPid}]
      BY DEF AtRest
    <2>3. DaemonTyped'
      BY <1>0, <2>1, <2>2 DEF DaemonTyped
    <2>4. \A t \in Starters : starter'[t] = IF t = s THEN AtRest ELSE starter[t]
      BY <1>0, <2>1
    <2>5. Present' = Present /\ ~WillFork(s)'
      BY <2>1, <2>2, <2>4 DEF Present, WillFork
    <2>6. \A t \in Starters \ {s} : WillFork(t)' = WillFork(t) /\ WillReap(t)' = WillReap(t)
      BY <2>4 DEF WillFork, WillReap
    <2>7. FewSpared'
      BY <1>0, <2>5, <2>6 DEF FewSpared
    <2>8. QED
      BY <2>3, <2>7 DEF DaemonInv
  <1>5. ASSUME NEW p \in Pids, ProcessStep(p)
        PROVE  DaemonInv'
    <2>1. DaemonTyped' /\ starter' = starter
      BY <1>0, <1>5 DEF ProcessStep, Run, EnsurePidfile, Leave, Die, Wedge, DaemonTyped
    <2>2. Present' \subseteq Present
      BY <1>0, <1>5 DEF ProcessStep, Run, EnsurePidfile, Leave, Die, Wedge, DaemonTyped, Present
    <2>3. QED
      BY <2>1, <2>2, ProcessesGo
  <1>6. CASE StopKills
    <2>1. /\ starter' = starter
          /\ proc' = proc \/ \E q \in Pids : proc' = [proc EXCEPT ![q] = "none"]
      BY <1>6 DEF StopKills, Canonical, Present
    <2>2. DaemonTyped' /\ Present' \subseteq Present
      BY <1>0, <2>1 DEF DaemonTyped, Present
    <2>3. QED
      BY <2>1, <2>2, ProcessesGo
  <1>7. CASE UNCHANGED daemonVars
    BY <1>7, <1>0, ProcessesGo DEF daemonVars, DaemonTyped, Present
  <1>8. QED
    BY <1>1, <1>2, <1>3, <1>4, <1>5, <1>6, <1>7 DEF DaemonNext, DaemonStep, StartStep

LEMMA DaemonInitially == DaemonInit => DaemonInv
  BY DEF DaemonInit, DaemonInv, DaemonTyped, FewSpared, WillFork, WillReap, Present, AtRest

LEMMA TwoAtMost == DaemonInv => OrphansSwept
  <1> SUFFICES ASSUME DaemonInv PROVE OrphansSwept
    OBVIOUS
  <1>1. PICK p, q : Present \subseteq {p, q}
    BY DEF DaemonInv, FewSpared
  <1>2. /\ IsFiniteSet({p}) /\ Cardinality({p}) = 1
        /\ IsFiniteSet({Operator}) /\ Cardinality({Operator}) = 1
    BY FS_Singleton
  <1>3. /\ IsFiniteSet({p} \cup {q}) /\ Cardinality({p} \cup {q}) <= 2
        /\ Cardinality({p} \cup {q}) \in Nat
    <2>1. /\ IsFiniteSet({p} \cup {q})
          /\ Cardinality({p} \cup {q}) = IF q \in {p} THEN 1 ELSE 1 + 1
      BY <1>2, FS_AddElement
    <2>2. QED
      BY <2>1
  <1>4. Cardinality({Operator} \cup {Cron}) = 2
    BY <1>2, FS_AddElement, DaemonAssumption DEF DaemonAssumption
  <1>5. Present \in SUBSET ({p} \cup {q}) /\ Starters = {Operator} \cup {Cron}
    BY <1>1 DEF Starters
  <1>6. IsFiniteSet(Present) /\ Cardinality(Present) <= Cardinality({p} \cup {q})
    BY <1>3, <1>5, FS_Subset
  <1>7. Cardinality(Present) \in Nat
    BY <1>6, FS_CardinalityType
  <1>8. QED
    BY <1>3, <1>4, <1>5, <1>6, <1>7 DEF OrphansSwept

\* No more gateways than starts can overlap, for any number of process ids, of
\* starts after each other, of crashes and stops.
THEOREM OrphansAreSwept == DaemonSpec => []OrphansSwept
  BY DaemonInitially, DaemonStays, TwoAtMost, PTL DEF DaemonSpec

-----------------------------------------------------------------------------
(* Sessions: how far one may grow before a gate rotates it. *)

TurnRecord == [at : {"rest", "picked", "read", "ungated", "rotating", "brain", "ended", "recorded",
                     "missing", "compacting"},
               resume : Natives \cup {None}]

SessionsTyped ==
    /\ session \in [Slots -> Natives \cup {None}] /\ usage \in [Slots -> Nat]
    /\ size \in [Natives -> Nat] /\ minted \in 0..MaxSessions
    /\ turn \in [Slots -> TurnRecord]
    /\ blind \in Nat

\* What a session that a gate lets pass may measure, with the growth nobody measured
\* and the turns that no gate weighed.
Room == RotateAt + blind * Growth

\* A session that a gate would let pass, that a gate is looking at or has let pass
\* is within the room; after a turn that is not yet recorded it may be over it.
SlotSound(s) ==
    /\ session[s] <= minted /\ turn[s].resume <= minted
    /\ turn[s].at \in {"ended", "recorded"} => turn[s].resume # None
    /\ turn[s].at = "recorded" => session[s] \in {turn[s].resume, None}
    /\ session[s] # None /\ turn[s].at \notin {"ended", "recorded"} /\ usage[s] < RotateAt
          => size[session[s]] < Room
    /\ turn[s].at \in {"read", "ungated"} /\ turn[s].resume # None /\ usage[s] < RotateAt
          => size[turn[s].resume] < Room
    /\ turn[s].at = "brain" /\ turn[s].resume # None => size[turn[s].resume] < Room

\* No two slots share a session.
Apart ==
    \A s \in Slots, t \in Slots, n \in Natives :
        n \in {session[s], turn[s].resume} /\ n \in {session[t], turn[t].resume} => s = t

SizesBounded ==
    \A n \in Natives : size[n] < Room + Growth /\ (n > minted => size[n] = 0)

SessionsInv == SessionsTyped /\ Apart /\ SizesBounded /\ \A s \in Slots : SlotSound(s)

LEMMA SessionsInitially == SessionsInit => SessionsInv
  <1> SUFFICES ASSUME SessionsInit PROVE SessionsInv
    OBVIOUS
  <1> USE DEF SessionsInit
  <1>1. /\ AtRestTurn \in TurnRecord /\ AtRestTurn.at = "rest" /\ AtRestTurn.resume = None
        /\ RotateAt \in Nat /\ RotateAt > 0 /\ Growth \in Nat /\ MaxSessions \in Nat
    BY SessionsAssumption DEF AtRestTurn, TurnRecord, SessionsAssumption
  <1>2. SessionsTyped
    BY <1>1 DEF SessionsTyped
  <1>3. SizesBounded
    BY <1>1 DEF SizesBounded, Room, Natives
  <1>4. Apart /\ \A s \in Slots : SlotSound(s)
    BY <1>1 DEF Apart, SlotSound, None, Natives
  <1>5. QED
    BY <1>2, <1>3, <1>4 DEF SessionsInv

\* The room grows by a turn with each turn that goes unmeasured.
LEMMA RoomGrows ==
    ASSUME SessionsTyped, blind' \in {blind, blind + 1}
    PROVE  /\ Room \in Nat /\ Room >= RotateAt /\ Growth \in Nat /\ RotateAt \in Nat
           /\ blind' = blind => Room' = Room
           /\ blind' = blind + 1 => Room' = Room + Growth
  <1>1. RotateAt \in Nat /\ Growth \in Nat /\ blind \in Nat
    BY SessionsAssumption DEF SessionsAssumption, SessionsTyped
  <1>2. blind * Growth \in Nat /\ (blind + 1) * Growth = blind * Growth + Growth
    BY <1>1
  <1>3. Room \in Nat /\ Room >= RotateAt
    <2> DEFINE unmeasured == blind * Growth
    <2>1. unmeasured \in Nat /\ Room = RotateAt + unmeasured
      BY <1>2 DEF Room
    <2> HIDE DEF unmeasured
    <2>2. QED
      BY <1>1, <2>1
  <1>4. blind' = blind => Room' = Room
    BY DEF Room
  <1>5. blind' = blind + 1 => Room' = Room + Growth
    <2> SUFFICES ASSUME blind' = blind + 1
                 PROVE  Room' = Room + Growth
      OBVIOUS
    <2> DEFINE unmeasured == blind * Growth
    <2>1. Room' = RotateAt + (unmeasured + Growth) /\ Room = RotateAt + unmeasured
      BY <1>2 DEF Room
    <2>2. unmeasured \in Nat
      BY <1>2
    <2> HIDE DEF unmeasured
    <2>3. QED
      BY <1>1, <2>1, <2>2
  <1>6. QED
    BY <1>1, <1>3, <1>4, <1>5

\* A step in which no session grows: a slot keeps its sessions or loses them, and
\* if nothing went unmeasured what a gate sees of them is still true.
Follows(t) ==
    /\ {session'[t], turn'[t].resume} \subseteq {session[t], turn[t].resume, None}
    /\ turn'[t].at \in {"ended", "recorded"} => turn'[t].resume # None
    /\ turn'[t].at = "recorded" => session'[t] \in {turn'[t].resume, None}
    /\ blind' = blind =>
          /\ session'[t] # None /\ turn'[t].at \notin {"ended", "recorded"} /\ usage'[t] < RotateAt
                => size[session'[t]] < Room
          /\ turn'[t].at \in {"read", "ungated"} /\ turn'[t].resume # None /\ usage'[t] < RotateAt
                => size[turn'[t].resume] < Room
          /\ turn'[t].at = "brain" /\ turn'[t].resume # None => size[turn'[t].resume] < Room

LEMMA NothingGrows ==
    ASSUME SessionsInv, SessionsTyped', UNCHANGED <<size, minted>>, blind' \in {blind, blind + 1},
           \A t \in Slots : Follows(t)
    PROVE  SessionsInv'
  <1>0. SessionsTyped /\ SizesBounded /\ Apart /\ \A t \in Slots : SlotSound(t)
    BY DEF SessionsInv
  <1>1. /\ Room \in Nat /\ Growth \in Nat
        /\ blind' = blind => Room' = Room
        /\ blind' = blind + 1 => Room' = Room + Growth
    BY <1>0, RoomGrows
  <1>2. \A n \in Natives : size[n] \in Nat /\ size'[n] = size[n]
    BY <1>0 DEF SessionsTyped
  <1>3. SizesBounded'
    BY <1>0, <1>1, <1>2 DEF SizesBounded
  <1>4. \A t \in Slots : /\ session[t] \in Natives \cup {None} /\ turn[t].resume \in Natives \cup {None}
                         /\ session'[t] \in Natives \cup {None} /\ turn'[t].resume \in Natives \cup {None}
    BY <1>0 DEF SessionsTyped, TurnRecord
  <1>5. Apart'
    BY <1>0, <1>4 DEF Apart, Follows, Natives, None
  <1>6. ASSUME NEW t \in Slots PROVE SlotSound(t)'
    <2>1. session'[t] <= minted /\ turn'[t].resume <= minted
      BY <1>0, <1>4 DEF Follows, SlotSound, None, SessionsTyped
    <2>2. CASE blind' = blind
      BY <1>1, <2>1, <2>2 DEF Follows, SlotSound
    <2>3. CASE blind' # blind
      <3>1. \A n \in Natives : size'[n] < Room'
        BY <1>0, <1>1, <1>2, <2>3 DEF SizesBounded
      <3>2. QED
        BY <1>4, <2>1, <3>1 DEF Follows, SlotSound
    <2>4. QED
      BY <2>2, <2>3
  <1>7. QED
    BY <1>3, <1>5, <1>6 DEF SessionsInv

\* What the two ways to move a turn change.
LEMMA TurnMoves ==
    ASSUME SessionsTyped, NEW s \in Slots, NEW r \in TurnRecord,
           turn' = [turn EXCEPT ![s] = r]
    PROVE  turn' \in [Slots -> TurnRecord] /\ \A t \in Slots : turn'[t] = IF t = s THEN r ELSE turn[t]
  BY DEF SessionsTyped

LEMMA TurnGoes ==
    ASSUME SessionsTyped, NEW s \in Slots,
           NEW step \in {"rest", "picked", "read", "ungated", "rotating", "brain", "ended", "recorded",
                         "missing", "compacting"},
           Goes(s, step)
    PROVE  /\ turn' \in [Slots -> TurnRecord]
           /\ turn'[s].at = step /\ turn'[s].resume = turn[s].resume
           /\ \A t \in Slots \ {s} : turn'[t] = turn[t]
  <1> DEFINE r == [turn[s] EXCEPT !.at = step]
  <1>1. turn[s] \in TurnRecord /\ turn' = [turn EXCEPT ![s] = r]
    BY DEF SessionsTyped, Goes
  <1>2. r \in TurnRecord /\ r.at = step /\ r.resume = turn[s].resume
    BY <1>1 DEF TurnRecord
  <1> HIDE DEF r
  <1>3. QED
    BY <1>1, <1>2, TurnMoves

LEMMA TurnRests ==
    ASSUME SessionsTyped, NEW s \in Slots, TurnEnds(s)
    PROVE  /\ turn' \in [Slots -> TurnRecord]
           /\ turn'[s].at = "rest" /\ turn'[s].resume = None
           /\ \A t \in Slots \ {s} : turn'[t] = turn[t]
  <1>1. AtRestTurn \in TurnRecord /\ AtRestTurn.at = "rest" /\ AtRestTurn.resume = None
    BY DEF AtRestTurn, TurnRecord
  <1>2. QED
    BY <1>1, TurnMoves DEF TurnEnds

\* A slot whose turn, session and measure stay follows.
LEMMA AsBefore ==
    ASSUME SessionsInv, NEW t \in Slots,
           turn'[t] = turn[t], session'[t] = session[t], usage'[t] = usage[t]
    PROVE  Follows(t)
  BY DEF SessionsInv, SlotSound, Follows

\* A turn: the session it resumes was within the room, or is new; it grows, and no
\* other slot has it.  If the growth is not measured the room grows with it.
LEMMA BrainGrows ==
    ASSUME SessionsInv, NEW s \in Slots, BrainRuns(s)
    PROVE  SessionsInv'
  <1>0. /\ SessionsTyped /\ SizesBounded /\ Apart /\ \A t \in Slots : SlotSound(t)
        /\ RotateAt \in Nat /\ RotateAt > 0 /\ Growth \in Nat /\ blind \in Nat /\ MaxSessions \in Nat
        /\ \A t \in Slots : /\ session[t] \in Natives \cup {None}
                            /\ turn[t].resume \in Natives \cup {None}
    BY SessionsAssumption DEF SessionsInv, SessionsTyped, TurnRecord, SessionsAssumption
  <1>1. PICK n \in Natives, g \in 1..Growth :
           /\ IF turn[s].resume = None THEN n = minted + 1 ELSE n = turn[s].resume
           /\ minted' = IF n > minted THEN n ELSE minted
           /\ size' = [size EXCEPT ![n] = @ + g]
           /\ \/ /\ turn' = [turn EXCEPT ![s] = [at |-> "ended", resume |-> n]]
                 /\ Blind(FALSE)
              \/ TurnEnds(s) /\ Blind(TRUE)
    BY DEF BrainRuns
  <1>2. turn[s].at = "brain" /\ UNCHANGED <<session, usage>>
    BY DEF BrainRuns
  <1>3. /\ turn' \in [Slots -> TurnRecord]
        /\ \/ turn'[s].at = "ended" /\ turn'[s].resume = n /\ blind' = blind
           \/ turn'[s].at = "rest" /\ turn'[s].resume = None /\ blind' = blind + 1
        /\ \A t \in Slots \ {s} : turn'[t] = turn[t]
    <2>1. CASE turn' = [turn EXCEPT ![s] = [at |-> "ended", resume |-> n]] /\ Blind(FALSE)
      <3> DEFINE r == [at |-> "ended", resume |-> n]
      <3>1. r \in TurnRecord /\ r.at = "ended" /\ r.resume = n
        BY DEF TurnRecord
      <3>2. turn' = [turn EXCEPT ![s] = r] /\ blind' = blind
        BY <2>1 DEF Blind
      <3> HIDE DEF r
      <3>3. QED
        BY <1>0, <3>1, <3>2, TurnMoves
    <2>2. CASE TurnEnds(s) /\ Blind(TRUE)
      BY <1>0, <2>2, TurnRests DEF Blind
    <2>3. QED
      BY <1>1, <2>1, <2>2
  <1>4. /\ Room \in Nat /\ Room >= RotateAt
        /\ Room' = Room \/ Room' = Room + Growth
        /\ blind' = blind + 1 => Room' = Room + Growth
    BY <1>0, <1>3, RoomGrows
  <1>5. /\ \A m \in Natives : size[m] \in Nat /\ size'[m] = IF m = n THEN size[n] + g ELSE size[m]
        /\ size' \in [Natives -> Nat] /\ n \in Nat /\ n > 0
        /\ minted \in Nat /\ minted' \in 0..MaxSessions /\ n <= minted' /\ minted <= minted'
    BY <1>0, <1>1 DEF SessionsTyped, Natives
  <1>6. SessionsTyped'
    BY <1>0, <1>2, <1>3, <1>5 DEF SessionsTyped
  <1>7. size[n] < Room
    BY <1>0, <1>1, <1>2, <1>4, <1>5 DEF SlotSound, SizesBounded
  <1>8. \A m \in Natives : size'[m] < Room + Growth /\ (m > minted' => size'[m] = 0)
    <2> SUFFICES ASSUME NEW m \in Natives
                 PROVE  size'[m] < Room + Growth /\ (m > minted' => size'[m] = 0)
      OBVIOUS
    <2>1. m \in Nat /\ size[m] < Room + Growth /\ (m > minted => size[m] = 0)
      BY <1>0 DEF SizesBounded, Natives
    <2>2. QED
      BY <1>0, <1>4, <1>5, <1>7, <2>1
  <1>9. SizesBounded'
    BY <1>0, <1>4, <1>5, <1>8 DEF SizesBounded
  <1>10. \A t \in Slots \ {s} : n # session[t] /\ n # turn[t].resume
    <2> SUFFICES ASSUME NEW t \in Slots, t # s
                 PROVE  n # session[t] /\ n # turn[t].resume
      OBVIOUS
    <2>1. CASE turn[s].resume = None
      BY <1>0, <1>1, <1>5, <2>1 DEF SlotSound
    <2>2. CASE turn[s].resume # None
      BY <1>0, <1>1, <2>2 DEF Apart
    <2>3. QED
      BY <2>1, <2>2
  <1>11. Apart'
    BY <1>0, <1>2, <1>3, <1>10 DEF Apart, None, Natives
  <1>12. ASSUME NEW t \in Slots, t # s PROVE SlotSound(t)'
    <2>1. /\ turn'[t] = turn[t] /\ session'[t] = session[t] /\ usage'[t] = usage[t]
          /\ session[t] # None => size'[session[t]] = size[session[t]] /\ size[session[t]] \in Nat
          /\ turn[t].resume # None =>
                size'[turn[t].resume] = size[turn[t].resume] /\ size[turn[t].resume] \in Nat
          /\ session[t] \in Nat /\ turn[t].resume \in Nat
      BY <1>0, <1>2, <1>3, <1>5, <1>10, <1>12, SMTT(30) DEF Natives, None
    <2>2. SlotSound(t) /\ Room \in Nat /\ Growth \in Nat /\ (Room' = Room \/ Room' = Room + Growth)
      BY <1>0, <1>4
    <2>3. QED
      BY <1>5, <2>1, <2>2 DEF SlotSound
  <1>13. SlotSound(s)'
    <2>1. session[s] \in Nat /\ turn[s].resume \in Nat /\ session[s] <= minted
      BY <1>0 DEF SlotSound, Natives, None
    <2>2. CASE turn'[s].at = "ended"
      BY <1>0, <1>2, <1>3, <1>5, <2>1, <2>2 DEF SlotSound, None
    <2>3. CASE turn'[s].at = "rest"
      BY <1>0, <1>2, <1>3, <1>4, <1>5, <1>8, <2>1, <2>3 DEF SlotSound, None
    <2>4. QED
      BY <1>3, <2>2, <2>3
  <1>14. QED
    BY <1>6, <1>9, <1>11, <1>12, <1>13 DEF SessionsInv

LEMMA SessionsStay == SessionsInv /\ [SessionsNext]_sessionsVars => SessionsInv'
  <1> SUFFICES ASSUME SessionsInv, [SessionsNext]_sessionsVars
               PROVE  SessionsInv'
    OBVIOUS
  <1>0. /\ SessionsTyped /\ SizesBounded /\ Apart /\ \A t \in Slots : SlotSound(t)
        /\ RotateAt \in Nat /\ RotateAt > 0 /\ Growth \in Nat /\ blind \in Nat
        /\ \A t \in Slots : /\ session[t] \in Natives \cup {None}
                            /\ turn[t].resume \in Natives \cup {None}
    BY SessionsAssumption DEF SessionsInv, SessionsTyped, TurnRecord, SessionsAssumption
  \* Steps that leave sessions and measures alone.
  <1>1. ASSUME NEW s \in Slots,
               PickSlot(s) \/ SessionIsMissing(s) \/ CompactLists(s) \/ CompactEnds(s)
        PROVE  SessionsInv'
    <2>1. /\ UNCHANGED <<session, usage, size, minted, blind>>
          /\ \/ \E step \in {"picked", "missing", "compacting"} : Goes(s, step)
             \/ TurnEnds(s)
      BY <1>1 DEF PickSlot, SessionIsMissing, CompactLists, CompactEnds
    <2>2. turn[s].at \notin {"ended", "recorded"}
      BY <1>1 DEF PickSlot, LeastUsed, SessionIsMissing, CompactLists, CompactEnds, Busy
    <2>3. /\ turn' \in [Slots -> TurnRecord]
          /\ turn'[s].at \in {"picked", "missing", "compacting", "rest"}
          /\ turn'[s].resume \in {turn[s].resume, None}
          /\ \A t \in Slots \ {s} : turn'[t] = turn[t]
      BY <1>0, <2>1, TurnGoes, TurnRests
    <2>4. Follows(s)
      BY <1>0, <2>1, <2>2, <2>3 DEF Follows, SlotSound
    <2>5. \A t \in Slots \ {s} : Follows(t)
      BY <2>1, <2>3, AsBefore
    <2>6. SessionsTyped'
      BY <1>0, <2>1, <2>3 DEF SessionsTyped
    <2>7. QED
      BY <2>1, <2>4, <2>5, <2>6, NothingGrows
  <1>2. ASSUME NEW s \in Slots, ReadSession(s) PROVE SessionsInv'
    <2>0. PICK gate \in {"read", "ungated"} :
            /\ UNCHANGED <<session, usage, size, minted, blind>> /\ turn[s].at = "picked"
            /\ turn' = [turn EXCEPT ![s] = [at |-> gate, resume |-> session[s]]]
      BY <1>2 DEF ReadSession
    <2> DEFINE r == [at |-> gate, resume |-> session[s]]
    <2>1. /\ UNCHANGED <<session, usage, size, minted, blind>> /\ turn[s].at = "picked"
          /\ turn' = [turn EXCEPT ![s] = r]
      BY <2>0
    <2>2. r \in TurnRecord /\ r.at \in {"read", "ungated"} /\ r.resume = session[s]
      BY <1>0 DEF TurnRecord
    <2> HIDE DEF r
    <2>3. turn' \in [Slots -> TurnRecord] /\ \A t \in Slots : turn'[t] = IF t = s THEN r ELSE turn[t]
      BY <1>0, <2>1, <2>2, TurnMoves
    <2>4. Follows(s)
      BY <1>0, <2>1, <2>2, <2>3 DEF Follows, SlotSound
    <2>5. \A t \in Slots \ {s} : Follows(t)
      BY <2>1, <2>3, AsBefore
    <2>6. SessionsTyped'
      BY <1>0, <2>1, <2>3 DEF SessionsTyped
    <2>7. QED
      BY <2>1, <2>4, <2>5, <2>6, NothingGrows
  \* The gate lets a session pass only if it is within the room.
  <1>3. ASSUME NEW s \in Slots, Gate(s) PROVE SessionsInv'
    <2>1. UNCHANGED <<session, usage, size, minted, blind>> /\ turn[s].at = "read"
      BY <1>3 DEF Gate
    <2>2. \/ Goes(s, "rotating")
          \/ Goes(s, "brain") /\ (turn[s].resume # None => ~(usage[s] >= RotateAt))
          \/ TurnEnds(s)
      BY <1>3 DEF Gate, NeedsRotation, RefusesFresh
    <2>3. /\ turn' \in [Slots -> TurnRecord]
          /\ turn'[s].at \in {"rotating", "brain", "rest"}
          /\ turn'[s].at = "brain" /\ turn[s].resume # None => ~(usage[s] >= RotateAt)
          /\ turn'[s].resume \in {turn[s].resume, None}
          /\ \A t \in Slots \ {s} : turn'[t] = turn[t]
      BY <1>0, <2>2, TurnGoes, TurnRests
    <2>4. usage[s] \in Nat /\ (~(usage[s] >= RotateAt) => usage[s] < RotateAt)
      BY <1>0 DEF SessionsTyped
    <2>5. Follows(s)
      BY <1>0, <2>1, <2>3, <2>4 DEF Follows, SlotSound
    <2>6. \A t \in Slots \ {s} : Follows(t)
      BY <2>1, <2>3, AsBefore
    <2>7. SessionsTyped'
      BY <1>0, <2>1, <2>3 DEF SessionsTyped
    <2>8. QED
      BY <2>1, <2>5, <2>6, <2>7, NothingGrows
  \* What no gate weighs is within the room, or counts as one more turn.
  <1>13. ASSUME NEW s \in Slots, PassesUngated(s) PROVE SessionsInv'
    <2>1. /\ UNCHANGED <<session, usage, size, minted>> /\ turn[s].at = "ungated"
          /\ Goes(s, "brain") /\ blind' \in {blind, blind + 1}
          /\ blind' = blind /\ turn[s].resume # None => ~(usage[s] >= RotateAt)
      BY <1>0, <1>13 DEF PassesUngated, Blind, NeedsRotation
    <2>2. /\ turn' \in [Slots -> TurnRecord]
          /\ turn'[s].at = "brain" /\ turn'[s].resume = turn[s].resume
          /\ \A t \in Slots \ {s} : turn'[t] = turn[t]
      BY <1>0, <2>1, TurnGoes
    <2>3. usage[s] \in Nat /\ (~(usage[s] >= RotateAt) => usage[s] < RotateAt)
      BY <1>0 DEF SessionsTyped
    <2>4. Follows(s)
      BY <1>0, <2>1, <2>2, <2>3 DEF Follows, SlotSound
    <2>5. \A t \in Slots \ {s} : Follows(t)
      BY <2>1, <2>2, AsBefore
    <2>6. SessionsTyped'
      BY <1>0, <2>1, <2>2 DEF SessionsTyped
    <2>7. QED
      BY <2>1, <2>4, <2>5, <2>6, NothingGrows
  <1>4. ASSUME NEW s \in Slots, GateRotates(s) PROVE SessionsInv'
    <2> DEFINE r == [at |-> "brain", resume |-> None]
    <2>1. /\ UNCHANGED <<size, minted, blind>> /\ turn[s].at = "rotating"
          /\ turn' = [turn EXCEPT ![s] = r]
          /\ \/ /\ session' = [session EXCEPT ![s] = None]
                /\ usage' = [usage EXCEPT ![s] = 0]
             \/ UNCHANGED <<session, usage>>
      BY <1>4 DEF GateRotates, Unmap
    <2>2. r \in TurnRecord /\ r.at = "brain" /\ r.resume = None
      BY DEF TurnRecord
    <2> HIDE DEF r
    <2>3. turn' \in [Slots -> TurnRecord] /\ \A t \in Slots : turn'[t] = IF t = s THEN r ELSE turn[t]
      BY <1>0, <2>1, <2>2, TurnMoves
    <2>4. /\ session' \in [Slots -> Natives \cup {None}] /\ usage' \in [Slots -> Nat]
          /\ session'[s] = None \/ (session'[s] = session[s] /\ usage'[s] = usage[s])
          /\ \A t \in Slots \ {s} : session'[t] = session[t] /\ usage'[t] = usage[t]
      BY <1>0, <2>1 DEF SessionsTyped
    <2>5. Follows(s)
      BY <1>0, <2>1, <2>2, <2>3, <2>4 DEF Follows, SlotSound
    <2>6. \A t \in Slots \ {s} : Follows(t)
      BY <2>3, <2>4, AsBefore
    <2>7. SessionsTyped'
      BY <1>0, <2>1, <2>3, <2>4 DEF SessionsTyped
    <2>8. QED
      BY <2>1, <2>5, <2>6, <2>7, NothingGrows
  <1>5. ASSUME NEW s \in Slots, BrainRuns(s) PROVE SessionsInv'
    BY <1>5, BrainGrows
  <1>6. ASSUME NEW s \in Slots, RecordSession(s) PROVE SessionsInv'
    <2>1. /\ UNCHANGED <<usage, size, minted, blind>> /\ turn[s].at = "ended"
          /\ session' = [session EXCEPT ![s] = turn[s].resume] /\ Goes(s, "recorded")
      BY <1>6 DEF RecordSession, Upsert
    <2>2. /\ turn' \in [Slots -> TurnRecord]
          /\ turn'[s].at = "recorded" /\ turn'[s].resume = turn[s].resume
          /\ \A t \in Slots \ {s} : turn'[t] = turn[t]
      BY <1>0, <2>1, TurnGoes
    <2>3. /\ session' \in [Slots -> Natives \cup {None}]
          /\ session'[s] = turn[s].resume /\ \A t \in Slots \ {s} : session'[t] = session[t]
      BY <1>0, <2>1 DEF SessionsTyped
    <2>4. Follows(s)
      BY <1>0, <2>1, <2>2, <2>3 DEF Follows, SlotSound
    <2>5. \A t \in Slots \ {s} : Follows(t)
      BY <2>1, <2>2, <2>3, AsBefore
    <2>6. SessionsTyped'
      BY <1>0, <2>1, <2>2, <2>3 DEF SessionsTyped
    <2>7. QED
      BY <2>1, <2>4, <2>5, <2>6, NothingGrows
  <1>7. ASSUME NEW s \in Slots, RecordUsage(s) PROVE SessionsInv'
    <2>1. /\ UNCHANGED <<session, size, minted>> /\ turn[s].at = "recorded" /\ TurnEnds(s)
          /\ \/ usage' = [usage EXCEPT ![s] = size[turn[s].resume]] /\ blind' = blind
             \/ UNCHANGED usage /\ blind' = blind + 1
      BY <1>7 DEF RecordUsage, Blind
    <2>2. /\ turn' \in [Slots -> TurnRecord]
          /\ turn'[s].at = "rest" /\ turn'[s].resume = None
          /\ \A t \in Slots \ {s} : turn'[t] = turn[t]
      BY <1>0, <2>1, TurnRests
    <2>3. session[s] \in {turn[s].resume, None}
      BY <1>0, <2>1 DEF SlotSound
    <2>4. Room \in Nat /\ Room >= RotateAt
      BY <1>0, RoomGrows, <2>1
    <2>5. turn[s].resume \in Natives /\ size[turn[s].resume] \in Nat
      BY <1>0, <2>1 DEF SessionsTyped, SlotSound
    <2>6. /\ usage' \in [Slots -> Nat]
          /\ blind' = blind => usage'[s] = size[turn[s].resume]
          /\ \A t \in Slots \ {s} : usage'[t] = usage[t]
      BY <1>0, <2>1, <2>5 DEF SessionsTyped
    <2>7. Follows(s)
      BY <1>0, <2>1, <2>2, <2>3, <2>4, <2>5, <2>6 DEF Follows
    <2>8. \A t \in Slots \ {s} : Follows(t)
      BY <2>1, <2>2, <2>6, AsBefore
    <2>9. SessionsTyped'
      BY <1>0, <2>1, <2>2, <2>6 DEF SessionsTyped
    <2>10. QED
      BY <2>1, <2>7, <2>8, <2>9, NothingGrows
  <1>8. ASSUME NEW s \in Slots, MissingRecovers(s) PROVE SessionsInv'
    <2>1. /\ UNCHANGED <<usage, size, minted, blind>> /\ turn[s].at = "missing" /\ TurnEnds(s)
          /\ session' = [x \in Slots |-> None] \/ session' = session
      BY <1>8 DEF MissingRecovers
    <2>2. /\ turn' \in [Slots -> TurnRecord]
          /\ turn'[s].at = "rest" /\ turn'[s].resume = None
          /\ \A t \in Slots \ {s} : turn'[t] = turn[t]
      BY <1>0, <2>1, TurnRests
    <2>3. /\ session' \in [Slots -> Natives \cup {None}]
          /\ \A t \in Slots : session'[t] \in {session[t], None}
      BY <1>0, <2>1 DEF SessionsTyped
    <2>4. \A t \in Slots : Follows(t)
      BY <1>0, <2>1, <2>2, <2>3 DEF Follows, SlotSound
    <2>5. SessionsTyped'
      BY <1>0, <2>1, <2>2, <2>3 DEF SessionsTyped
    <2>6. QED
      BY <2>1, <2>4, <2>5, NothingGrows
  \* A measure that is reset next to a turn counts as growth that is not measured.
  <1>9. ASSUME NEW s \in Slots, ProfileUnavailable(s) PROVE SessionsInv'
    <2>1. /\ UNCHANGED <<size, minted>> /\ TurnEnds(s) /\ blind' \in {blind, blind + 1}
          /\ session' = [x \in Slots |-> None]
          /\ blind' = blind => \A x \in Busy \ {s} : usage'[x] = usage[x]
      BY <1>0, <1>9, SMTT(30) DEF ProfileUnavailable, Blind
    <2>2. usage' \in [Slots -> Nat]
      BY <1>0, <1>9 DEF ProfileUnavailable, SessionsTyped
    <2>3. /\ turn' \in [Slots -> TurnRecord]
          /\ turn'[s].at = "rest" /\ turn'[s].resume = None
          /\ \A t \in Slots \ {s} : turn'[t] = turn[t]
      BY <1>0, <2>1, TurnRests
    <2>4. \A t \in Slots : session'[t] = None
      BY <2>1
    <2>5. ASSUME NEW t \in Slots PROVE Follows(t)
      <3>1. CASE t = s
        BY <2>3, <2>4, <3>1 DEF Follows
      <3>2. CASE t # s
        <4>1. turn'[t] = turn[t] /\ (blind' = blind /\ turn[t].at # "rest" => usage'[t] = usage[t])
          BY <2>1, <2>3, <3>2 DEF Busy
        <4>2. QED
          BY <1>0, <2>4, <4>1 DEF Follows, SlotSound
      <3>3. QED
        BY <3>1, <3>2
    <2>6. SessionsTyped'
      BY <1>0, <2>1, <2>2, <2>3 DEF SessionsTyped
    <2>7. QED
      BY <2>1, <2>5, <2>6, NothingGrows
  <1>10. ASSUME NEW x \in Slots, CompactRotates(x) PROVE SessionsInv'
    <2>1. /\ UNCHANGED <<size, minted, turn>> /\ blind' \in {blind, blind + 1}
          /\ blind' = blind => turn[x].at \in {"rest", "compacting"}
          /\ session' = [session EXCEPT ![x] = None] /\ usage' = [usage EXCEPT ![x] = 0]
      BY <1>0, <1>10 DEF CompactRotates, Unmap, Blind, Busy
    <2>2. /\ session' \in [Slots -> Natives \cup {None}] /\ usage' \in [Slots -> Nat]
          /\ session'[x] = None
          /\ \A t \in Slots \ {x} : session'[t] = session[t] /\ usage'[t] = usage[t]
      BY <1>0, <2>1 DEF SessionsTyped
    <2>3. Follows(x)
      BY <1>0, <2>1, <2>2 DEF Follows, SlotSound
    <2>4. \A t \in Slots \ {x} : Follows(t)
      BY <2>1, <2>2, AsBefore
    <2>5. SessionsTyped'
      BY <1>0, <2>1, <2>2 DEF SessionsTyped
    <2>6. QED
      BY <2>1, <2>3, <2>4, <2>5, NothingGrows
  <1>11. CASE Restart
    <2>1. /\ UNCHANGED <<session, usage, size, minted>> /\ blind' \in {blind, blind + 1}
          /\ turn' = [t \in Slots |-> AtRestTurn]
          /\ blind' = blind => \A t \in Slots : turn[t].at \notin {"ended", "recorded"}
      BY <1>0, <1>11 DEF Restart, Blind
    <2>2. AtRestTurn \in TurnRecord /\ AtRestTurn.at = "rest" /\ AtRestTurn.resume = None
      BY DEF AtRestTurn, TurnRecord
    <2>3. \A t \in Slots : Follows(t)
      BY <1>0, <2>1, <2>2 DEF Follows, SlotSound
    <2>4. SessionsTyped'
      BY <1>0, <2>1, <2>2 DEF SessionsTyped
    <2>5. QED
      BY <2>1, <2>3, <2>4, NothingGrows
  <1>12. CASE UNCHANGED <<session, usage, size, minted, turn, blind>>
    <2>1. SessionsTyped'
      BY <1>0, <1>12 DEF SessionsTyped
    <2>2. \A t \in Slots : Follows(t)
      BY <1>12, AsBefore
    <2>3. QED
      BY <1>12, <2>1, <2>2, NothingGrows
  <1>14. QED
    BY <1>1, <1>2, <1>3, <1>4, <1>5, <1>6, <1>7, <1>8, <1>9, <1>10, <1>11, <1>12, <1>13
       DEF SessionsNext, TurnStep, CompactStep, CompactCompares, LoseSession, sessionsVars

\* No session outgrows the threshold by more than a turn, and a turn for each
\* whose growth is not measured or which no gate has weighed, for any number of
\* slots, sessions and sizes, whatever models triage chooses.
THEOREM SessionsStayBounded == SessionsSpec => []GrowthBounded
  <1>1. SessionsInv => GrowthBounded
    <2> SUFFICES ASSUME SessionsInv, NEW n \in Natives
                 PROVE  size[n] < RotateAt + (1 + blind) * Growth
      BY DEF GrowthBounded
    <2>1. blind \in Nat /\ RotateAt \in Nat /\ Growth \in Nat /\ size[n] < Room + Growth
      BY SessionsAssumption DEF SessionsAssumption, SessionsInv, SessionsTyped, SizesBounded
    <2> DEFINE unmeasured == blind * Growth
    <2>2. (1 + blind) * Growth = unmeasured + Growth /\ unmeasured \in Nat
      BY <2>1
    <2>3. Room = RotateAt + unmeasured
      BY DEF Room
    <2> HIDE DEF unmeasured
    <2>4. RotateAt + (1 + blind) * Growth = RotateAt + (unmeasured + Growth)
      BY <2>2
    <2>5. Room + Growth = RotateAt + (unmeasured + Growth)
      BY <2>1, <2>2, <2>3
    <2>6. QED
      BY <2>1, <2>4, <2>5
  <1>2. QED
    BY <1>1, SessionsInitially, SessionsStay, PTL DEF SessionsSpec

-----------------------------------------------------------------------------
(* Re-authentication: with the serial dispatch loop, which is the default, *)
(* a login replays all that is parked on its row, for any number of        *)
(* events, prompts and crashes.                                            *)

\* The loop runs one event or redeems one token; a handler belongs to the event
\* that runs.
OneAtATime ==
    /\ \A e \in Requests : request[e].status = "running" =>
          /\ redeemer.at = "rest"
          /\ \A d \in Requests : request[d].status = "running" => d = e
    /\ \A e \in Requests : handler[e].at # "rest" => request[e].status = "running"

\* The handler's row stays active while it appends, and the list it has read is
\* the list that it replaces.
AppendsToActive ==
    \A e \in Requests :
        /\ handler[e].at \in {"reading", "writing", "parking"} =>
              handler[e].row \in Prompts /\ prompt[handler[e].row].state \in {"waiting", "redeeming"}
        /\ handler[e].at = "writing" => handler[e].listed = prompt[handler[e].row].listed
        /\ handler[e].at = "parking" => e \in prompt[handler[e].row].listed

\* What is parked is on the list of its row, which has been inserted.
ParkedIsListed ==
    \A e \in Requests : request[e].status = "parked" =>
        /\ request[e].row \in Prompts
        /\ prompt[request[e].row].state # "none"
        /\ e \in prompt[request[e].row].listed

\* A login replays the list of its row, of which nothing parked is missing.
ReplaysRow ==
    /\ redeemer.at = "redeeming" =>
          redeemer.row \in Prompts /\ prompt[redeemer.row].state = "redeeming"
    /\ redeemer.at = "replaying" =>
          /\ redeemer.row \in Prompts /\ prompt[redeemer.row].state = "done"
          /\ \A e \in Requests : request[e].status = "parked" /\ request[e].row = redeemer.row
                => e \in redeemer.replay
    /\ \A r \in Prompts : prompt[r].replayed => prompt[r].state = "done"

ReauthInv ==
    /\ ReauthTypeOK /\ OneAtATime /\ AppendsToActive /\ ParkedIsListed /\ ReplaysRow
    /\ ReplayedAll

LEMMA ReauthInitially == ReauthInit => ReauthInv
  <1> SUFFICES ASSUME ReauthInit
               PROVE  ReauthInv
    OBVIOUS
  <1>1. [state |-> "none", listed |-> {}, replayed |-> FALSE] \in AuthPending
    BY DEF AuthPending
  <1>2. [status |-> "queued", row |-> NoPrompt] \in RequestStates
    BY DEF RequestStates
  <1>3. HandlerAtRest \in HandlerStates /\ RedeemerAtRest \in RedeemerStates
    BY DEF HandlerAtRest, HandlerStates, RedeemerAtRest, RedeemerStates
  <1>4. 0 \in 0..MaxOutages
    BY ReauthAssumption DEF ReauthAssumption
  <1>5. ReauthTypeOK
    BY <1>1, <1>2, <1>3, <1>4 DEF ReauthInit, ReauthTypeOK
  <1>6. OneAtATime /\ AppendsToActive /\ ParkedIsListed /\ ReplaysRow /\ ReplayedAll
    BY DEF ReauthInit, OneAtATime, AppendsToActive, ParkedIsListed, ReplaysRow, ReplayedAll,
           HandlerAtRest, RedeemerAtRest
  <1>7. QED
    BY <1>5, <1>6 DEF ReauthInv

-----------------------------------------------------------------------------
\* What the types of a login need of the loop, serial or not: that a handler that
\* appends has a row, and a login that goes on too.
RowsNamed ==
    /\ \A e \in Requests :
          handler[e].at \in {"reading", "writing", "parking"} => handler[e].row \in Prompts
    /\ redeemer.at \in {"redeeming", "replaying"} => redeemer.row \in Prompts

\* Every step keeps the types.
LEMMA ReauthTypeStep ==
    ASSUME ReauthTypeOK, RowsNamed, ReauthNext
    PROVE  ReauthTypeOK'
  <1>0. HandlerAtRest \in HandlerStates /\ RedeemerAtRest \in RedeemerStates
    BY DEF HandlerAtRest, HandlerStates, RedeemerAtRest, RedeemerStates
  <1> USE DEF ReauthTypeOK
  <1>1. ASSUME NEW e \in Requests, Runs(e) \/ Answers(e) PROVE ReauthTypeOK'
    BY <1>1 DEF Runs, Answers, Becomes, RequestStates
  <1>2. ASSUME NEW e \in Requests, InsertPending(e) PROVE ReauthTypeOK'
    <2>1. CASE Active # {}
      BY <1>2, <2>1 DEF InsertPending, HandlerStates
    <2>2. CASE Active = {}
      <3>1. PICK r \in Prompts :
              /\ prompt' = [prompt EXCEPT ![r] = [@ EXCEPT !.state = "waiting", !.listed = {e}]]
              /\ handler' = [handler EXCEPT ![e] = [at |-> "parking", row |-> r, listed |-> {}]]
        BY <1>2, <2>2 DEF InsertPending
      <3>2. [prompt[r] EXCEPT !.state = "waiting", !.listed = {e}] \in AuthPending
        BY DEF AuthPending
      <3>3. [at |-> "parking", row |-> r, listed |-> {}] \in HandlerStates
        BY DEF HandlerStates
      <3>4. QED
        BY <1>2, <3>1, <3>2, <3>3 DEF InsertPending
    <2>3. QED
      BY <2>1, <2>2
  <1>3. ASSUME NEW e \in Requests, LookForRow(e) PROVE ReauthTypeOK'
    <2>1. CASE Active = {}
      <3>1. [request[e] EXCEPT !.status = "failed"] \in RequestStates
        BY DEF RequestStates
      <3>2. QED
        BY <1>0, <1>3, <2>1, <3>1 DEF LookForRow, Becomes
    <2>2. ASSUME NEW r \in Active,
                 handler' = [handler EXCEPT ![e] = [at |-> "reading", row |-> r, listed |-> {}]],
                 UNCHANGED request
          PROVE  ReauthTypeOK'
      <3>1. [at |-> "reading", row |-> r, listed |-> {}] \in HandlerStates
        BY DEF HandlerStates, Active
      <3>2. QED
        BY <1>3, <2>2, <3>1 DEF LookForRow
    <2>3. QED
      BY <1>3, <2>1, <2>2 DEF LookForRow
  <1>4. ASSUME NEW e \in Requests, AppendReads(e) PROVE ReauthTypeOK'
    <2>1. handler[e].row \in Prompts
      BY <1>4 DEF AppendReads, RowsNamed
    <2> DEFINE listed == prompt[handler[e].row].listed
    <2>2. listed \in SUBSET Requests
      BY <2>1 DEF AuthPending
    <2> DEFINE step == IF e \in listed THEN "parking" ELSE "writing"
    <2>3. handler' = [handler EXCEPT ![e] = [@ EXCEPT !.at = step, !.listed = listed]]
      BY <1>4 DEF AppendReads
    <2>4. step \in {"parking", "writing"} /\ UNCHANGED <<prompt, request, redeemer, loggedIn, outages>>
      BY <1>4 DEF AppendReads
    <2> HIDE DEF listed, step
    <2>5. handler[e] \in HandlerStates
      OBVIOUS
    <2>6. [handler[e] EXCEPT !.at = step, !.listed = listed] \in HandlerStates
      <3> HIDE DEF ReauthTypeOK
      <3>1. QED
        BY <2>2, <2>4, <2>5 DEF HandlerStates
    <2>7. QED
      BY <2>3, <2>4, <2>6
  <1>5. ASSUME NEW e \in Requests, AppendWrites(e) PROVE ReauthTypeOK'
    <2>1. handler[e].row \in Prompts
      BY <1>5 DEF AppendWrites, RowsNamed
    <2> DEFINE longer == handler[e].listed \cup {e}
    <2>2. longer \in SUBSET Requests
      BY DEF HandlerStates
    <2> HIDE DEF longer
    <2>3. [prompt[handler[e].row] EXCEPT !.listed = longer] \in AuthPending
      BY <2>1, <2>2 DEF AuthPending
    <2>4. [handler[e] EXCEPT !.at = "parking"] \in HandlerStates
      BY DEF HandlerStates
    <2>5. QED
      BY <1>5, <2>1, <2>3, <2>4 DEF AppendWrites, longer
  <1>6. ASSUME NEW e \in Requests, Parks(e) PROVE ReauthTypeOK'
    <2>1. [status |-> "parked", row |-> handler[e].row] \in RequestStates
      BY DEF RequestStates, HandlerStates
    <2>2. QED
      BY <1>0, <1>6, <2>1 DEF Parks
  <1>7. ASSUME TakeToken PROVE ReauthTypeOK'
    <2>1. PICK r \in Prompts :
             /\ prompt' = [prompt EXCEPT ![r] = [@ EXCEPT !.state = "redeeming"]]
             /\ redeemer' = [at |-> "redeeming", row |-> r, replay |-> {}]
      BY <1>7 DEF TakeToken, Takes, Active
    <2>2. [prompt[r] EXCEPT !.state = "redeeming"] \in AuthPending
      BY DEF AuthPending
    <2>3. [at |-> "redeeming", row |-> r, replay |-> {}] \in RedeemerStates
      BY DEF RedeemerStates
    <2>4. QED
      BY <1>7, <2>1, <2>2, <2>3 DEF TakeToken
  <1>8. ASSUME Redeem PROVE ReauthTypeOK'
    <2> DEFINE r == redeemer.row
    <2>1. r \in Prompts
      BY <1>8 DEF Redeem, RowsNamed
    <2>2. PICK s \in {"done", "failed"} :
             prompt' = [prompt EXCEPT ![r] = [@ EXCEPT !.state = s]]
      BY <1>8 DEF Redeem
    <2>3. [prompt[r] EXCEPT !.state = s] \in AuthPending
      BY <2>1 DEF AuthPending
    <2>4. [at |-> "replaying", row |-> r, replay |-> prompt[r].listed] \in RedeemerStates
      BY <2>1 DEF RedeemerStates, AuthPending
    <2>5. redeemer' \in RedeemerStates /\ loggedIn' \in BOOLEAN
      BY <1>0, <1>8, <2>4 DEF Redeem, ReplayList
    <2>6. prompt' \in [Prompts -> AuthPending]
      BY <2>2, <2>3
    <2>7. QED
      BY <1>8, <2>5, <2>6 DEF Redeem
  <1>9. ASSUME Replay PROVE ReauthTypeOK'
    <2>1. CASE redeemer.replay = {} /\ prompt' = [prompt EXCEPT ![redeemer.row].replayed = TRUE]
      <3>1. redeemer.row \in Prompts
        BY <1>9 DEF Replay, RowsNamed
      <3>2. [prompt[redeemer.row] EXCEPT !.replayed = TRUE] \in AuthPending
        BY <3>1 DEF AuthPending
      <3>3. QED
        BY <1>0, <1>9, <2>1, <3>2 DEF Replay
    <2>2. ASSUME NEW e \in redeemer.replay,
                 request' = [request EXCEPT ![e] = [status |-> "queued", row |-> NoPrompt]],
                 redeemer' = [redeemer EXCEPT !.replay = @ \ {e}], UNCHANGED prompt
          PROVE  ReauthTypeOK'
      <3>1. [status |-> "queued", row |-> NoPrompt] \in RequestStates
        BY DEF RequestStates
      <3>2. redeemer' \in RedeemerStates
        BY <2>2 DEF RedeemerStates
      <3>3. QED
        BY <1>9, <2>2, <3>1, <3>2 DEF Replay
    <2>3. QED
      BY <1>9, <2>1, <2>2 DEF Replay
  <1>10. ASSUME SessionEnds PROVE ReauthTypeOK'
    BY <1>10 DEF SessionEnds
  <1>11. ASSUME Outage PROVE ReauthTypeOK'
    <2>1. outages' \in 0..MaxOutages
      BY <1>11, ReauthAssumption DEF Outage, ReauthAssumption
    <2>2. \A e \in Requests : [request[e] EXCEPT !.status = "queued"] \in RequestStates
      BY DEF RequestStates
    <2>3. QED
      BY <1>0, <1>11, <2>1, <2>2 DEF Outage
  <1>12. QED
    BY <1>1, <1>2, <1>3, <1>4, <1>5, <1>6, <1>7, <1>8, <1>9, <1>10, <1>11
       DEF ReauthNext, HandlerStep

LEMMA RowsNamedStep ==
    ASSUME ReauthTypeOK, RowsNamed, [ReauthNext]_reauthVars
    PROVE  RowsNamed'
  <1>0. /\ handler \in [Requests -> HandlerStates] /\ redeemer \in RedeemerStates
        /\ HandlerAtRest.at = "rest" /\ RedeemerAtRest.at = "rest" /\ Prompts' = Prompts
    BY DEF ReauthTypeOK, HandlerAtRest, RedeemerAtRest
  <1>1. ASSUME NEW e \in Requests, UNCHANGED redeemer,
               \A d \in Requests : d # e => handler'[d] = handler[d],
               handler'[e].at \in {"reading", "writing", "parking"} => handler'[e].row \in Prompts
        PROVE  RowsNamed'
    BY <1>0, <1>1 DEF RowsNamed
  <1>2. ASSUME NEW e \in Requests, HandlerStep(e) PROVE RowsNamed'
    <2>0. UNCHANGED redeemer
      BY <1>2 DEF HandlerStep, InsertPending, LookForRow, AppendReads, AppendWrites, Parks
    <2>1. \A d \in Requests : d # e => handler'[d] = handler[d]
      BY <1>0, <1>2 DEF HandlerStep, InsertPending, LookForRow, AppendReads, AppendWrites, Parks
    <2>2. ASSUME NEW h \in HandlerStates, handler' = [handler EXCEPT ![e] = h],
                 h.at \in {"reading", "writing", "parking"} => h.row \in Prompts
          PROVE  RowsNamed'
      BY <1>0, <1>1, <2>0, <2>1, <2>2
    <2>3. ASSUME NEW r \in Prompts, NEW at \in {"reading", "parking"},
                 handler' = [handler EXCEPT ![e] = [at |-> at, row |-> r, listed |-> {}]]
          PROVE  RowsNamed'
      <3>1. [at |-> at, row |-> r, listed |-> {}] \in HandlerStates
        BY DEF HandlerStates
      <3>2. QED
        BY <2>2, <2>3, <3>1
    <2>4. ASSUME NEW at \in {"looking", "reading", "parking", "writing"}, NEW to,
                 handler'[e] = [handler[e] EXCEPT !.at = at, !.listed = to] \/
                 handler'[e] = [handler[e] EXCEPT !.at = at],
                 at = "looking" \/ handler[e].at \in {"reading", "writing"}
          PROVE  RowsNamed'
      <3>1. handler'[e].at = at /\ handler'[e].row = handler[e].row
        BY <1>0, <2>4 DEF HandlerStates
      <3>2. QED
        BY <1>1, <2>0, <2>1, <2>4, <3>1 DEF RowsNamed
    <2>5. CASE InsertPending(e)
      <3>1. CASE Active # {}
        <4>1. handler'[e] = [handler[e] EXCEPT !.at = "looking"]
          BY <1>0, <2>5, <3>1 DEF InsertPending
        <4>2. QED
          BY <2>4, <4>1
      <3>2. CASE Active = {}
        BY <2>3, <2>5, <3>2 DEF InsertPending
      <3>3. QED
        BY <3>1, <3>2
    <2>6. CASE LookForRow(e)
      <3>1. CASE Active = {}
        <4>1. handler'[e] = HandlerAtRest
          BY <1>0, <2>6, <3>1 DEF LookForRow
        <4>2. QED
          BY <1>0, <1>1, <2>0, <2>1, <4>1
      <3>2. CASE Active # {}
        BY <2>3, <2>6, <3>2 DEF LookForRow, Active
      <3>3. QED
        BY <3>1, <3>2
    <2>7. CASE AppendReads(e)
      <3> DEFINE to == prompt[handler[e].row].listed
      <3>1. PICK at \in {"parking", "writing"} :
               handler' = [handler EXCEPT ![e].at = at, ![e].listed = to]
        BY <2>7 DEF AppendReads
      <3>2. handler'[e] = [handler[e] EXCEPT !.at = at, !.listed = to]
        BY <1>0, <3>1
      <3>3. handler[e].at = "reading"
        BY <2>7 DEF AppendReads
      <3> HIDE DEF to
      <3>4. QED
        BY <2>4, <3>2, <3>3
    <2>8. CASE AppendWrites(e)
      <3>1. handler'[e] = [handler[e] EXCEPT !.at = "parking"] /\ handler[e].at = "writing"
        BY <1>0, <2>8 DEF AppendWrites
      <3>2. QED
        BY <2>4, <3>1
    <2>9. CASE Parks(e)
      <3>1. handler'[e] = HandlerAtRest
        BY <1>0, <2>9 DEF Parks
      <3>2. QED
        BY <1>0, <1>1, <2>0, <2>1, <3>1
    <2>10. QED
      BY <1>2, <2>5, <2>6, <2>7, <2>8, <2>9 DEF HandlerStep
  <1>3. CASE TakeToken
    <2>1. handler' = handler /\ redeemer'.row \in Prompts
      BY <1>3 DEF TakeToken, Takes, Active
    <2>2. QED
      BY <1>0, <2>1 DEF RowsNamed
  <1>4. CASE Redeem \/ Replay
    <2>1. /\ handler' = handler
          /\ redeemer'.at = "rest" \/ redeemer'.row = redeemer.row
          /\ redeemer.at \in {"redeeming", "replaying"}
      BY <1>0, <1>4 DEF Redeem, Replay, RedeemerStates
    <2>2. QED
      BY <1>0, <2>1 DEF RowsNamed
  <1>5. CASE Outage
    BY <1>0, <1>5 DEF Outage, RowsNamed
  <1>6. CASE UNCHANGED <<handler, redeemer>>
    BY <1>0, <1>6 DEF RowsNamed
  <1>7. QED
    BY <1>2, <1>3, <1>4, <1>5, <1>6 DEF ReauthNext, Runs, Answers, SessionEnds, reauthVars

LEMMA ReauthTypesStay ==
    ASSUME ReauthTypeOK, RowsNamed, [ReauthNext]_reauthVars
    PROVE  ReauthTypeOK' /\ RowsNamed'
  <1>1. CASE ReauthNext
    BY <1>1, RowsNamedStep, ReauthTypeStep
  <1>2. CASE UNCHANGED reauthVars
    BY <1>2, RowsNamedStep DEF reauthVars, ReauthTypeOK
  <1>3. QED
    BY <1>1, <1>2

\* While an event runs, every other handler and the redeemer are at rest.
LEMMA Alone ==
    ASSUME OneAtATime, NEW e \in Requests, request[e].status = "running"
    PROVE  /\ redeemer.at = "rest"
           /\ \A d \in Requests : d # e => request[d].status # "running" /\ handler[d].at = "rest"
  BY DEF OneAtATime

\* The serial loop does one thing at a time.
LEMMA OneAtATimeStep ==
    ASSUME SerialDispatch, ReauthTypeOK, OneAtATime, ReauthNext
    PROVE  OneAtATime'
  <1> USE DEF OneAtATime, HandlerAtRest, RedeemerAtRest
  <1>0. /\ request \in [Requests -> RequestStates] /\ handler \in [Requests -> HandlerStates]
    BY DEF ReauthTypeOK
  <1>1. ASSUME NEW e \in Requests, Runs(e) PROVE OneAtATime'
    <2>1. /\ \A d \in Requests : request[d].status # "running"
          /\ redeemer.at = "rest" /\ request[e].status = "queued"
      BY <1>1 DEF Runs, LoopIdle
    <2>2. \A d \in Requests : request'[d].status = "running" <=> d = e
      BY <1>0, <1>1, <2>1 DEF Runs, Becomes, RequestStates
    <2>3. QED
      BY <1>1, <2>1, <2>2 DEF Runs
  <1>2. ASSUME NEW e \in Requests, Answers(e) PROVE OneAtATime'
    BY <1>0, <1>2 DEF Answers, Becomes, RequestStates
  <1>3. ASSUME NEW e \in Requests, InsertPending(e) \/ AppendReads(e) \/ AppendWrites(e)
        PROVE  OneAtATime'
    <2>1. request[e].status = "running" /\ UNCHANGED <<request, redeemer>>
      BY <1>3 DEF InsertPending, AppendReads, AppendWrites
    <2>2. \A d \in Requests : d # e => handler'[d] = handler[d]
      BY <1>0, <1>3 DEF InsertPending, AppendReads, AppendWrites
    <2>3. QED
      BY <2>1, <2>2
  <1>4. ASSUME NEW e \in Requests, LookForRow(e) \/ Parks(e) PROVE OneAtATime'
    <2>1. /\ \A d \in Requests : d # e => handler'[d] = handler[d] /\ request'[d] = request[d]
          /\ UNCHANGED redeemer /\ request[e].status = "running"
      BY <1>0, <1>4 DEF LookForRow, Parks, Becomes
    <2>2. handler'[e].at = "rest" \/ UNCHANGED request
      BY <1>0, <1>4 DEF LookForRow, Parks
    <2>3. QED
      BY <2>1, <2>2
  <1>5. ASSUME TakeToken PROVE OneAtATime'
    BY <1>5 DEF TakeToken, LoopIdle
  <1>6. ASSUME Redeem PROVE OneAtATime'
    BY <1>6 DEF Redeem
  <1>7. ASSUME Replay PROVE OneAtATime'
    <2>1. \A d \in Requests : request[d].status # "running" /\ handler[d].at = "rest"
      BY <1>7 DEF Replay
    <2>2. \A d \in Requests : request'[d].status # "running"
      BY <1>0, <1>7, <2>1 DEF Replay
    <2>3. QED
      BY <1>7, <2>1, <2>2 DEF Replay
  <1>8. ASSUME SessionEnds PROVE OneAtATime'
    BY <1>8 DEF SessionEnds
  <1>9. ASSUME Outage PROVE OneAtATime'
    BY <1>0, <1>9 DEF Outage, RequestStates
  <1>10. QED
    BY <1>1, <1>2, <1>3, <1>4, <1>5, <1>6, <1>7, <1>8, <1>9 DEF ReauthNext, HandlerStep

-----------------------------------------------------------------------------
RowsInv == AppendsToActive /\ ParkedIsListed /\ ReplaysRow /\ ReplayedAll

\* A step that leaves the table and the redeemer alone, and parks nothing.
LEMMA QuietStep ==
    ASSUME ReauthTypeOK, RowsInv, UNCHANGED <<prompt, redeemer>>,
           \A e \in Requests : request'[e].status = "parked" => request'[e] = request[e],
           \A e \in Requests : handler'[e].at \in {"reading", "writing", "parking"}
                                 => handler'[e] = handler[e]
    PROVE  RowsInv'
  BY DEF RowsInv, AppendsToActive, ParkedIsListed, ReplaysRow, ReplayedAll

LEMMA InsertPendingStep ==
    ASSUME ReauthTypeOK, OneAtATime, RowsInv, NEW e \in Requests, InsertPending(e)
    PROVE  RowsInv'
  <1>1. /\ request[e].status = "running" /\ redeemer.at = "rest"
        /\ UNCHANGED <<request, redeemer>>
        /\ \A d \in Requests : d # e => handler[d].at = "rest"
    BY Alone DEF InsertPending, OneAtATime
  <1>2. CASE Active # {}
    <2>1. /\ UNCHANGED prompt
          /\ \A d \in Requests : handler'[d].at \in {"rest", "looking"}
      BY <1>1, <1>2 DEF InsertPending, ReauthTypeOK, HandlerStates
    <2>2. QED
      BY <1>1, <2>1, QuietStep
  <1>3. ASSUME NEW r \in Prompts, prompt[r].state = "none",
               prompt' = [prompt EXCEPT ![r] = [@ EXCEPT !.state = "waiting", !.listed = {e}]],
               handler' = [handler EXCEPT ![e] = [at |-> "parking", row |-> r, listed |-> {}]]
        PROVE  RowsInv'
    <2>1. /\ prompt'[r].state = "waiting" /\ prompt'[r].listed = {e}
          /\ prompt'[r].replayed = prompt[r].replayed
          /\ \A q \in Prompts : q # r => prompt'[q] = prompt[q]
      BY <1>3 DEF ReauthTypeOK, AuthPending
    <2>2. /\ handler'[e].at = "parking" /\ handler'[e].row = r
          /\ \A d \in Requests : d # e => handler'[d].at = "rest"
      BY <1>1, <1>3 DEF ReauthTypeOK
    <2>3. ~prompt[r].replayed
      BY <1>3 DEF RowsInv, ReplaysRow
    <2>4. AppendsToActive'
      BY <1>3, <2>1, <2>2 DEF AppendsToActive
    <2>5. ParkedIsListed'
      BY <1>1, <1>3, <2>1 DEF RowsInv, ParkedIsListed
    <2>6. ReplaysRow' /\ ReplayedAll'
      BY <1>1, <2>1, <2>3 DEF RowsInv, ReplaysRow, ReplayedAll
    <2>7. QED
      BY <2>4, <2>5, <2>6 DEF RowsInv
  <1>4. CASE Active = {}
    <2>1. PICK r \in Prompts :
            /\ prompt[r].state = "none"
            /\ prompt' = [prompt EXCEPT ![r] = [@ EXCEPT !.state = "waiting", !.listed = {e}]]
            /\ handler' = [handler EXCEPT ![e] = [at |-> "parking", row |-> r, listed |-> {}]]
      BY <1>4 DEF InsertPending
    <2>2. QED
      BY <1>3, <2>1
  <1>5. QED
    BY <1>2, <1>4

\* append_pending_event: nobody else writes the list between its two steps.
LEMMA AppendStep ==
    ASSUME ReauthTypeOK, OneAtATime, RowsInv, NEW e \in Requests,
           AppendReads(e) \/ AppendWrites(e)
    PROVE  RowsInv'
  <1> DEFINE r == handler[e].row
  <1>1. /\ request[e].status = "running" /\ redeemer.at = "rest"
        /\ UNCHANGED <<request, redeemer>>
        /\ \A d \in Requests : d # e => handler[d].at = "rest"
    BY Alone DEF AppendReads, AppendWrites, OneAtATime
  <1>2. r \in Prompts /\ prompt[r].state \in {"waiting", "redeeming"}
    BY DEF AppendReads, AppendWrites, RowsInv, AppendsToActive
  <1>3. CASE AppendReads(e)
    <2> DEFINE listed == prompt[r].listed
               step == IF e \in listed THEN "parking" ELSE "writing"
    <2>1. UNCHANGED prompt /\ handler' = [handler EXCEPT ![e] = [@ EXCEPT !.at = step, !.listed = listed]]
      BY <1>3 DEF AppendReads
    <2>2. /\ handler'[e].at = step /\ handler'[e].listed = listed /\ handler'[e].row = r
          /\ \A d \in Requests : d # e => handler'[d] = handler[d]
      BY <2>1 DEF ReauthTypeOK, HandlerStates
    <2>3. AppendsToActive'
      BY <1>1, <1>2, <2>1, <2>2 DEF AppendsToActive
    <2>4. QED
      BY <1>1, <2>1, <2>3 DEF RowsInv, ParkedIsListed, ReplaysRow, ReplayedAll
  <1>4. CASE AppendWrites(e)
    <2> DEFINE longer == prompt[r].listed \cup {e}
    <2>1. handler[e].listed = prompt[r].listed
      BY <1>4 DEF AppendWrites, RowsInv, AppendsToActive
    <2>2. /\ prompt' = [prompt EXCEPT ![r] = [@ EXCEPT !.listed = longer]]
          /\ handler' = [handler EXCEPT ![e] = [@ EXCEPT !.at = "parking"]]
      BY <1>4, <2>1 DEF AppendWrites
    <2>3. /\ handler'[e].at = "parking" /\ handler'[e].row = r
          /\ \A d \in Requests : d # e => handler'[d] = handler[d]
      BY <2>2 DEF ReauthTypeOK, HandlerStates
    <2>4. /\ prompt'[r].state = prompt[r].state /\ prompt'[r].replayed = prompt[r].replayed
          /\ prompt'[r].listed = prompt[r].listed \cup {e}
          /\ \A q \in Prompts : q # r => prompt'[q] = prompt[q]
      BY <1>2, <2>2 DEF ReauthTypeOK, AuthPending
    <2> HIDE DEF r
    <2>5. AppendsToActive'
      BY <1>1, <1>2, <2>3, <2>4 DEF AppendsToActive
    <2>6. ParkedIsListed'
      BY <1>1, <2>4 DEF RowsInv, ParkedIsListed
    <2>7. ReplaysRow' /\ ReplayedAll'
      BY <1>1, <2>4 DEF RowsInv, ReplaysRow, ReplayedAll
    <2>8. QED
      BY <2>5, <2>6, <2>7 DEF RowsInv
  <1>5. QED
    BY <1>3, <1>4

\* An event is parked on an active row, which has not been replayed.
LEMMA ParksStep ==
    ASSUME ReauthTypeOK, OneAtATime, RowsInv, NEW e \in Requests, Parks(e)
    PROVE  RowsInv'
  <1> DEFINE r == handler[e].row
  <1>1. /\ request[e].status = "running" /\ redeemer.at = "rest"
        /\ UNCHANGED <<prompt, redeemer>>
    BY Alone DEF Parks, OneAtATime
  <1>2. /\ r \in Prompts /\ prompt[r].state \in {"waiting", "redeeming"}
        /\ e \in prompt[r].listed
    BY DEF Parks, RowsInv, AppendsToActive
  <1>3. /\ request'[e].row = r
        /\ \A d \in Requests : d # e => request'[d] = request[d] /\ handler'[d] = handler[d]
        /\ handler'[e].at = "rest"
    BY <1>1 DEF Parks, ReauthTypeOK, HandlerAtRest
  <1>4. ~prompt[r].replayed
    BY <1>2 DEF RowsInv, ReplaysRow
  <1> HIDE DEF r
  <1>5. AppendsToActive'
    BY <1>1, <1>3 DEF RowsInv, AppendsToActive
  <1>6. ParkedIsListed'
    BY <1>1, <1>2, <1>3 DEF RowsInv, ParkedIsListed
  <1>7. ReplaysRow' /\ ReplayedAll'
    BY <1>1, <1>3, <1>4 DEF RowsInv, ReplaysRow, ReplayedAll
  <1>8. QED
    BY <1>5, <1>6, <1>7 DEF RowsInv

\* TakeToken and Redeem: no handler is at work, and what is parked on the row
\* of a login is on the list that it will replay.
LEMMA TokenStep ==
    ASSUME SerialDispatch, ReauthTypeOK, OneAtATime, RowsInv, TakeToken \/ Redeem
    PROVE  RowsInv'
  <1>1. /\ \A e \in Requests : request[e].status # "running"
        /\ \A e \in Requests : handler[e].at = "rest"
        /\ UNCHANGED <<request, handler>>
    BY DEF TakeToken, Redeem, LoopIdle, OneAtATime
  <1>2. PICK r \in Prompts, s \in {"redeeming", "done", "failed"} :
          /\ prompt[r].state \in {"waiting", "redeeming"}
          /\ prompt' = [prompt EXCEPT ![r] = [@ EXCEPT !.state = s]]
          /\ \/ s = "redeeming" /\ redeemer' = [at |-> "redeeming", row |-> r, replay |-> {}]
             \/ s = "done" /\ redeemer' = [at |-> "replaying", row |-> r, replay |-> prompt[r].listed]
             \/ s = "failed" /\ redeemer' = RedeemerAtRest
    <2>1. CASE TakeToken
      BY <2>1 DEF TakeToken, Takes, Active
    <2>2. CASE Redeem
      <3>1. redeemer.row \in Prompts /\ prompt[redeemer.row].state = "redeeming"
        BY <2>2 DEF Redeem, RowsInv, ReplaysRow
      <3>2. QED
        BY <2>2, <3>1 DEF Redeem, ReplayList
    <2>3. QED
      BY <2>1, <2>2
  <1>3. /\ prompt'[r].state = s /\ prompt'[r].replayed = prompt[r].replayed
        /\ prompt'[r].listed = prompt[r].listed
        /\ \A q \in Prompts : q # r => prompt'[q] = prompt[q]
    BY <1>2 DEF ReauthTypeOK, AuthPending
  <1>4. ~prompt[r].replayed
    BY <1>2 DEF RowsInv, ReplaysRow
  <1>5. AppendsToActive'
    BY <1>1 DEF AppendsToActive
  <1>6. ParkedIsListed'
    BY <1>1, <1>3 DEF RowsInv, ParkedIsListed
  <1>7. ReplayedAll'
    BY <1>1, <1>3, <1>4 DEF RowsInv, ReplayedAll
  <1>8. ReplaysRow'
    <2>1. \A q \in Prompts : prompt'[q].replayed => prompt'[q].state = "done"
      BY <1>3, <1>4 DEF RowsInv, ReplaysRow
    <2>2. s = "done" => \A e \in Requests : request'[e].status = "parked" /\ request'[e].row = r
                          => e \in prompt[r].listed
      BY <1>1 DEF RowsInv, ParkedIsListed
    <2>3. QED
      BY <1>2, <1>3, <2>1, <2>2 DEF ReplaysRow, RedeemerAtRest
  <1>9. QED
    BY <1>5, <1>6, <1>7, <1>8 DEF RowsInv

\* The loop over the list ends when none of it is parked on the row.
LEMMA ReplayStep ==
    ASSUME ReauthTypeOK, OneAtATime, RowsInv, Replay
    PROVE  RowsInv'
  <1> DEFINE r == redeemer.row
  <1>1. /\ \A e \in Requests : handler[e].at = "rest"
        /\ redeemer.at = "replaying" /\ r \in Prompts /\ prompt[r].state = "done"
        /\ UNCHANGED handler
    BY DEF Replay, OneAtATime, RowsInv, ReplaysRow
  <1>2. AppendsToActive'
    BY <1>1 DEF AppendsToActive
  <1>3. ASSUME NEW e \in redeemer.replay, UNCHANGED prompt,
               request' = [request EXCEPT ![e] = [status |-> "queued", row |-> NoPrompt]],
               redeemer' = [redeemer EXCEPT !.replay = @ \ {e}]
        PROVE  RowsInv'
    <2>1. /\ redeemer'.at = "replaying" /\ redeemer'.row = r
          /\ redeemer'.replay = redeemer.replay \ {e}
      BY <1>1, <1>3 DEF ReauthTypeOK, RedeemerStates
    <2>2. \A d \in Requests : request'[d].status = "parked" => request'[d] = request[d] /\ d # e
      BY <1>3 DEF ReauthTypeOK
    <2>3. ParkedIsListed' /\ ReplayedAll'
      BY <1>3, <2>2 DEF RowsInv, ParkedIsListed, ReplayedAll
    <2>4. ReplaysRow'
      BY <1>1, <1>3, <2>1, <2>2 DEF RowsInv, ReplaysRow
    <2>5. QED
      BY <1>2, <2>3, <2>4 DEF RowsInv
  <1>4. ASSUME redeemer.replay = {}, redeemer' = RedeemerAtRest, UNCHANGED request,
               prompt' = [prompt EXCEPT ![r] = [@ EXCEPT !.replayed = TRUE]]
        PROVE  RowsInv'
    <2>1. /\ prompt'[r].state = "done" /\ prompt'[r].listed = prompt[r].listed
          /\ \A q \in Prompts : q # r => prompt'[q] = prompt[q]
      BY <1>1, <1>4 DEF ReauthTypeOK, AuthPending
    <2>2. \A e \in Requests : request[e].status = "parked" => request[e].row # r
      BY <1>1, <1>4 DEF RowsInv, ReplaysRow
    <2> HIDE DEF r
    <2>3. ParkedIsListed' /\ ReplayedAll'
      BY <1>1, <1>4, <2>1, <2>2 DEF RowsInv, ParkedIsListed, ReplayedAll
    <2>4. ReplaysRow'
      BY <1>4, <2>1 DEF RowsInv, ReplaysRow, RedeemerAtRest
    <2>5. QED
      BY <1>2, <2>3, <2>4 DEF RowsInv
  <1>5. QED
    BY <1>3, <1>4 DEF Replay

\* A crash loses no parked event, and ends a replay before it has said so.
LEMMA OutageStep ==
    ASSUME ReauthTypeOK, RowsInv, Outage
    PROVE  RowsInv'
  <1>1. /\ UNCHANGED prompt /\ redeemer' = RedeemerAtRest
        /\ \A e \in Requests : handler'[e].at = "rest"
        /\ \A e \in Requests : request'[e].status = "parked" => request'[e] = request[e]
    BY DEF Outage, ReauthTypeOK, RequestStates, HandlerAtRest
  <1>2. QED
    BY <1>1 DEF RowsInv, AppendsToActive, ParkedIsListed, ReplaysRow, ReplayedAll, RedeemerAtRest

LEMMA RowsStep ==
    ASSUME SerialDispatch, ReauthTypeOK, OneAtATime, RowsInv, ReauthNext
    PROVE  RowsInv'
  <1>1. ASSUME NEW e \in Requests, Runs(e) \/ Answers(e) PROVE RowsInv'
    <2>1. /\ UNCHANGED <<prompt, redeemer, handler>>
          /\ \A d \in Requests : request'[d].status = "parked" => request'[d] = request[d]
      BY <1>1 DEF Runs, Answers, Becomes, ReauthTypeOK, RequestStates
    <2>2. QED
      BY <2>1, QuietStep
  <1>2. ASSUME NEW e \in Requests, LookForRow(e) PROVE RowsInv'
    <2>1. /\ UNCHANGED <<prompt, redeemer>> /\ Prompts = Prompts'
          /\ \A d \in Requests : request'[d].status = "parked" => request'[d] = request[d]
          /\ \A d \in Requests : \/ handler'[d] = handler[d]
                                 \/ handler'[d].at = "rest"
                                 \/ handler'[d].at = "reading" /\ handler'[d].row \in Active
      BY <1>2 DEF LookForRow, Becomes, HandlerAtRest, ReauthTypeOK, RequestStates
    <2>2. AppendsToActive'
      BY <2>1 DEF RowsInv, AppendsToActive, Active
    <2>3. QED
      BY <2>1, <2>2 DEF RowsInv, ParkedIsListed, ReplaysRow, ReplayedAll
  <1>3. ASSUME SessionEnds PROVE RowsInv'
    BY <1>3, QuietStep DEF SessionEnds
  <1>4. QED
    BY <1>1, <1>2, <1>3, InsertPendingStep, AppendStep, ParksStep, TokenStep, ReplayStep, OutageStep
       DEF ReauthNext, HandlerStep

-----------------------------------------------------------------------------
\* With the serial loop a login replays every event that is parked on its row,
\* for any number of events, prompts and crashes (append_pending_event,
\* _park_deferred_event, _on_redeem_success).
THEOREM LoginReplaysAll == SerialDispatch => (ReauthSpec => []ReplayedAll)
  <1> SUFFICES ASSUME SerialDispatch
               PROVE  ReauthSpec => []ReplayedAll
    OBVIOUS
  <1>1. ReauthInv /\ [ReauthNext]_reauthVars => ReauthInv'
    <2> SUFFICES ASSUME ReauthInv, [ReauthNext]_reauthVars
                 PROVE  ReauthInv'
      OBVIOUS
    <2>1. CASE ReauthNext
      <3>1. RowsNamed
        BY DEF ReauthInv, AppendsToActive, ReplaysRow, RowsNamed
      <3>2. QED
        BY <2>1, <3>1, ReauthTypeStep, OneAtATimeStep, RowsStep DEF ReauthInv, RowsInv
    <2>2. CASE UNCHANGED reauthVars
      BY <2>2 DEF reauthVars, ReauthInv, ReauthTypeOK, OneAtATime, AppendsToActive,
                  ParkedIsListed, ReplaysRow, ReplayedAll
    <2>3. QED
      BY <2>1, <2>2
  <1>2. ReauthInv => ReplayedAll
    BY DEF ReauthInv
  <1>3. QED
    BY <1>1, <1>2, ReauthInitially, PTL DEF ReauthSpec

-----------------------------------------------------------------------------
(* The company's tasks: what a poll may conclude from an absence. *)

\* A set of numbers that is not empty has its minimum: among the intervals
\* 0 .. n one is the smallest.
LEMMA MinOfSet ==
    ASSUME NEW S \in SUBSET Nat, S # {}
    PROVE  Min(S) \in S /\ \A y \in S : Min(S) <= y
  <1> DEFINE Below(n) == 0 .. n
             T == {Below(n) : n \in S}
  <1>1. \A n \in S : Below(n) \in FiniteSubsetsOf(Nat)
    <2> SUFFICES ASSUME NEW n \in S
                 PROVE  Below(n) \in FiniteSubsetsOf(Nat)
      OBVIOUS
    <2>1. 0 \in Int /\ n \in Int /\ Below(n) \in SUBSET Nat
      OBVIOUS
    <2>2. IsFiniteSet(0 .. n)
      BY <2>1, FS_Interval
    <2>3. QED
      BY <2>1, <2>2 DEF FiniteSubsetsOf
  <1>2. T \subseteq FiniteSubsetsOf(Nat) /\ T # {}
    BY <1>1
  <1>3. IsWellFoundedOn(StrictSubsetOrdering(Nat), FiniteSubsetsOf(Nat))
    BY FS_StrictSubsetOrderingWellFounded
  <1>4. \E x \in T : \A y \in T : ~(<<y, x>> \in StrictSubsetOrdering(Nat))
    <2> HIDE DEF T
    <2>1. QED
      BY <1>2, <1>3, WFMin
  <1>5. PICK m \in S : \A n \in S : ~(<<Below(n), Below(m)>> \in StrictSubsetOrdering(Nat))
    BY <1>4
  <1>6. \A n \in S : m <= n
    <2> SUFFICES ASSUME NEW n \in S, n < m
                 PROVE  FALSE
      OBVIOUS
    <2>1. Below(n) \subseteq Below(m) /\ m \in Below(m) /\ m \notin Below(n)
      OBVIOUS
    <2>2. <<Below(n), Below(m)>> \in StrictSubsetOrdering(Nat)
      BY <2>1 DEF StrictSubsetOrdering
    <2>3. QED
      BY <2>2, <1>5
  <1>7. QED
    BY <1>6 DEF Min

\* An answer that could have held one more holds everything.
LEMMA WholeAnswer ==
    ASSUME NEW n \in Nat, NEW S \in SUBSET Tasks, Cardinality(Oldest(n, S)) < n
    PROVE  Oldest(n, S) = S
  <1> DEFINE Lower(t) == {s \in S : s < t}
             Remaining == S \ Oldest(n, S)
  <1>0. IsFiniteSet(Tasks) /\ Tasks \subseteq Nat
    <2>1. 1 \in Int /\ MaxTasks \in Int
      BY CompanyInboxAssumption DEF CompanyInboxAssumption
    <2>2. IsFiniteSet(1 .. MaxTasks)
      BY <2>1, FS_Interval
    <2>3. QED
      BY <2>1, <2>2 DEF Tasks
  <1>1. \A t \in S : IsFiniteSet(Lower(t)) /\ Cardinality(Lower(t)) \in Nat
    <2> SUFFICES ASSUME NEW t \in S
                 PROVE  IsFiniteSet(Lower(t)) /\ Cardinality(Lower(t)) \in Nat
      OBVIOUS
    <2>1. Lower(t) \in SUBSET Tasks
      OBVIOUS
    <2>2. IsFiniteSet(Lower(t))
      BY <1>0, <2>1, FS_Subset
    <2>3. QED
      BY <2>2, FS_CardinalityType
  <1>2. IsFiniteSet(Oldest(n, S))
    <2>1. Oldest(n, S) \in SUBSET Tasks
      BY DEF Oldest
    <2>2. QED
      BY <1>0, <2>1, FS_Subset
  <1>3. SUFFICES ASSUME Remaining # {}
                 PROVE  FALSE
    BY <1>3 DEF Oldest
  <1>4. PICK t \in Remaining : \A s \in Remaining : t <= s
    <2>1. Remaining \in SUBSET Nat
      BY <1>0
    <2>2. Min(Remaining) \in Remaining /\ \A s \in Remaining : Min(Remaining) <= s
      <3> HIDE DEF Remaining
      <3>1. QED
        BY <1>3, <2>1, MinOfSet
    <2>3. QED
      BY <2>2
  <1>5. Lower(t) \in SUBSET Oldest(n, S)
    <2> SUFFICES ASSUME NEW s \in Lower(t)
                 PROVE  s \in Oldest(n, S)
      OBVIOUS
    <2>1. s \in Nat /\ t \in Nat /\ s < t
      BY <1>0
    <2>2. s \notin Remaining
      BY <1>4, <2>1
    <2>3. QED
      BY <2>2
  <1>6. Cardinality(Lower(t)) <= Cardinality(Oldest(n, S))
    BY <1>2, <1>5, FS_Subset
  <1>7. ~(Cardinality(Lower(t)) < n)
    BY <1>4 DEF Oldest
  <1>8. Cardinality(Lower(t)) \in Nat /\ Cardinality(Oldest(n, S)) \in Nat
    BY <1>1, <1>2, <1>4, FS_CardinalityType
  <1>9. QED
    BY <1>6, <1>7, <1>8

Over(t) == task[t] \in {"over", "away"}

\* What was injected was assigned; an absence from a whole answer, and what a
\* poll is to close, is of tasks that are over.
InboxSound ==
    /\ \A t \in injected \cup poll.todo : task[t] # "none"
    /\ poll.at = "injecting" => poll.todo \subseteq poll.present
    /\ poll.at = "injecting" /\ poll.whole =>
          \A t \in injected : t \in poll.present \/ Over(t)
    /\ poll.at = "closing" => \A t \in poll.todo : Over(t)

InboxInv == InboxTypeOK /\ InboxSound /\ ClosedMeansOver

LEMMA InboxInitially == InboxInit => InboxInv
  BY CompanyInboxAssumption
     DEF CompanyInboxAssumption, InboxInit, InboxInv, InboxTypeOK, InboxSound, ClosedMeansOver, PollAtRest

LEMMA InboxStays == InboxInv /\ [InboxNext]_inboxVars => InboxInv'
  <1> SUFFICES ASSUME InboxInv, [InboxNext]_inboxVars
               PROVE  InboxInv'
    OBVIOUS
  <1> USE DEF InboxInv, Over
  <1>1. ASSUME NEW t \in Tasks, NEW s \in {"open", "moved", "over", "away"},
               task[t] \in {"none", "open", "moved"}, task' = [task EXCEPT ![t] = s],
               UNCHANGED <<poll, seen, injected, announced, restarts>>
        PROVE  InboxInv'
    BY <1>1 DEF InboxTypeOK, InboxSound, ClosedMeansOver
  <1>2. ASSUME NEW t \in Tasks, Assign(t) \/ Advance(t) PROVE InboxInv'
    BY <1>1, <1>2 DEF Assign, Advance
  <1>3. ASSUME GetInbox PROVE InboxInv'
    <2> DEFINE polled == Oldest(PollLimit, ActiveTasks)
               todo == Oldest(MaxNewPerTick, {t \in polled : task[t] = "open"} \ seen)
    <2>1. poll' = [at |-> "injecting", present |-> polled, whole |-> Cardinality(polled) < PollLimit,
                   todo |-> todo]
      BY <1>3 DEF GetInbox
    <2>2. polled \subseteq ActiveTasks /\ todo \subseteq polled /\ ActiveTasks \subseteq Tasks
      BY DEF Oldest, ActiveTasks
    <2>3. poll'.whole => polled = ActiveTasks
      BY <2>1, <2>2, WholeAnswer, CompanyInboxAssumption DEF CompanyInboxAssumption
    <2>4. \A t \in injected : t \in ActiveTasks \/ Over(t)
      BY DEF InboxSound, InboxTypeOK, ActiveTasks
    <2>5. UNCHANGED <<task, seen, injected, announced, restarts>>
      BY <1>3 DEF GetInbox
    <2>6. \A t \in polled : task[t] # "none"
      BY <2>2 DEF ActiveTasks
    <2>7. (Cardinality(polled) < PollLimit) \in BOOLEAN
      OBVIOUS
    <2> HIDE DEF polled, todo
    <2>8. InboxTypeOK'
      BY <2>1, <2>2, <2>5, <2>7, Zenon DEF InboxTypeOK
    <2>9. InboxSound' /\ ClosedMeansOver'
      BY <2>1, <2>2, <2>3, <2>4, <2>5, <2>6 DEF InboxSound, ClosedMeansOver
    <2>10. QED
      BY <2>8, <2>9
  <1>4. ASSUME Inject PROVE InboxInv'
    <2>1. PICK t \in poll.todo : /\ WriteRow("assigned", t)
                                 /\ seen' = seen \cup {t} /\ injected' = injected \cup {t}
                                 /\ poll' = [poll EXCEPT !.todo = @ \ {t}]
      <3>1. poll.todo \in SUBSET Nat
        BY CompanyInboxAssumption DEF InboxTypeOK, Tasks, CompanyInboxAssumption
      <3>2. QED
        BY <1>4, <3>1, MinOfSet DEF Inject
    <2>2. QED
      BY <1>4, <2>1 DEF Inject, InboxTypeOK, InboxSound, ClosedMeansOver, WriteRow
  <1>5. ASSUME DetectClosures PROVE InboxInv'
    BY <1>5 DEF DetectClosures, Gone, InboxTypeOK, InboxSound, ClosedMeansOver
  <1>6. ASSUME Close PROVE InboxInv'
    BY <1>6 DEF Close, WriteRow, InboxTypeOK, InboxSound, ClosedMeansOver
  <1>7. ASSUME InboxPolled PROVE InboxInv'
    BY <1>7 DEF InboxPolled, PollAtRest, InboxTypeOK, InboxSound, ClosedMeansOver
  <1>8. ASSUME NEW gone \in SUBSET Tasks, restarts < MaxRestarts, restarts' = restarts + 1,
               poll' = PollAtRest, injected' = injected \ gone, seen' = seen \ gone,
               UNCHANGED <<task, announced>>
        PROVE  InboxInv'
    BY <1>8, CompanyInboxAssumption
       DEF CompanyInboxAssumption, PollAtRest, InboxTypeOK, InboxSound, ClosedMeansOver
  <1>9. ASSUME PollRaises PROVE InboxInv'
    <2>1. \E gone \in SUBSET Tasks : injected' = injected \ gone /\ seen' = seen \ gone
      <3>1. CASE poll.at = "closing"
        <4>1. PICK t \in poll.todo : injected' = injected \ {t} /\ seen' = seen \ {t}
          BY <1>9, <3>1 DEF PollRaises
        <4>2. {t} \in SUBSET Tasks
          BY DEF InboxTypeOK
        <4>3. QED
          BY <4>1, <4>2
      <3>2. CASE poll.at # "closing"
        <4>1. injected' = injected \ {} /\ seen' = seen \ {}
          BY <1>9, <3>2 DEF PollRaises
        <4>2. QED
          BY <4>1
      <3>3. QED
        BY <3>1, <3>2
    <2>2. QED
      BY <1>8, <1>9, <2>1 DEF PollRaises
  <1>10. ASSUME InboxRestarts PROVE InboxInv'
    <2>1. injected' = injected \ Tasks /\ seen' = seen \ Tasks
      BY <1>10 DEF InboxRestarts, InboxTypeOK
    <2>2. QED
      BY <1>8, <1>10, <2>1 DEF InboxRestarts
  <1>11. ASSUME UNCHANGED inboxVars PROVE InboxInv'
    BY <1>11 DEF inboxVars, InboxTypeOK, InboxSound, ClosedMeansOver
  <1>12. QED
    BY <1>2, <1>3, <1>4, <1>5, <1>6, <1>7, <1>9, <1>10, <1>11 DEF InboxNext

\* A task that is told to be closed is over, for any number of tasks, limits of an
\* answer, and restarts (_detect_closures).
THEOREM ClosuresAreTrue == InboxSpec => []ClosedMeansOver
  <1>1. InboxInv => ClosedMeansOver
    BY DEF InboxInv
  <1>2. QED
    BY <1>1, InboxInitially, InboxStays, PTL DEF InboxSpec

-----------------------------------------------------------------------------
(* The company's key: who writes .env, and what the channel says of it. *)

Writes(w) == registrar[w].at \in {"read", "filled"}
Enrolls(w) == w \in {"cli", "reporter"} /\ registrar[w].at # "rest"

\* Unless something adverse happened: one enrolls at a time, one writes at a time,
\* and it writes what the file holds with its own keys changed.
OneWrites ==
    /\ ~(Enrolls("cli") /\ Enrolls("reporter"))
    /\ \A w \in Registrars, v \in Registrars : Writes(w) /\ Writes(v) => w = v
    /\ \A w \in Registrars :
          /\ Enrolls(w) => registrar[w].key = enrolled
          /\ Writes(w) => registrar[w].copy = dotenv
          /\ registrar[w].at = "filled" => scratch = {Changed(w)}
    /\ ~Enrolls("cli") /\ ~Enrolls("reporter") => dotenv.key = enrolled
    /\ inbox.at = "polling" => inbox.id /\ dotenv.id

\* The channel is loud exactly when it has said so; it fails to poll only when it polls.
SaidSo ==
    /\ warned \in 0..1 /\ (inbox.loud <=> warned = 1)
    /\ inbox.failing => inbox.loud /\ inbox.at = "polling"

\* The channel's record, field by field.
InboxTyped(i) ==
    /\ DOMAIN i = {"at", "key", "id", "failures", "failing", "loud"}
    /\ i.at \in {"off", "finding", "saving", "polling"} /\ i.failures \in 0..3

EnrollmentFormed == EnrollmentTypeOK /\ InboxTyped(inbox)

EnrollmentInv == EnrollmentFormed /\ (adverse = 0 => OneWrites) /\ SaidSo

LEMMA EnrollmentKeeps == EnrollmentInv => EnrollmentKept
  BY EnrollmentAssumption
     DEF EnrollmentAssumption, EnrollmentInv, EnrollmentFormed, EnrollmentTypeOK, OneWrites, SaidSo, Enrolls,
         EnrollmentKept, KeyKept, PollsWithId, LoudOnce, Registrars

RegistrarStates == [at : {"rest", "answered", "read", "filled"}, copy : Contents, key : 0..MaxKeys]

LEMMA EnrollmentTyped ==
    ASSUME EnrollmentFormed
    PROVE  /\ InboxTyped(inbox) /\ registrar \in [Registrars -> RegistrarStates]
           /\ \A c \in Contents : c.key \in 0..MaxKeys /\ c.id \in BOOLEAN /\ c.token \in BOOLEAN
           /\ dotenv \in Contents /\ reporterCfg \in Contents /\ adverse \in 0..MaxAdverse
  BY DEF EnrollmentFormed, EnrollmentTypeOK, InboxTyped, RegistrarStates, Contents

LEMMA EmptyHanded ==
    /\ Blank \in Contents /\ AtEase \in RegistrarStates /\ InboxTyped(InboxOff)
    /\ \A k \in 0..MaxKeys : [at |-> "answered", copy |-> Blank, key |-> k] \in RegistrarStates
  <1>1. Blank \in Contents
    BY EnrollmentAssumption DEF EnrollmentAssumption, Blank, Contents
  <1>2. InboxTyped(InboxOff)
    BY EnrollmentAssumption DEF EnrollmentAssumption, InboxOff, InboxTyped
  <1>3. QED
    BY <1>1, <1>2, EnrollmentAssumption DEF EnrollmentAssumption, AtEase, RegistrarStates

LEMMA EnrollmentInitially == EnrollmentInit => EnrollmentInv
  <1> SUFFICES ASSUME EnrollmentInit
               PROVE  EnrollmentInv
    OBVIOUS
  <1>1. dotenv \in Contents /\ dotenv.key = enrolled /\ reporterCfg = dotenv /\ scratch = {}
    <2>1. \A b \in BOOLEAN, k \in 0..MaxKeys : [token |-> b, key |-> k, id |-> FALSE] \in Contents
      BY DEF Contents
    <2>2. 0 \in 0..MaxKeys /\ 1 \in 0..MaxKeys
      BY EnrollmentAssumption DEF EnrollmentAssumption
    <2>3. QED
      BY <2>1, <2>2 DEF EnrollmentInit, Blank
  <1>2. /\ registrar \in [Registrars -> RegistrarStates] /\ \A w \in Registrars : registrar[w].at = "rest"
        /\ InboxTyped(inbox) /\ inbox.at = "off" /\ ~inbox.failing /\ ~inbox.loud /\ warned = 0 /\ adverse = 0
    BY EmptyHanded DEF EnrollmentInit, AtEase, InboxOff
  <1>3. EnrollmentFormed
    <2>1. enrolled \in 0..MaxKeys
      BY <1>1 DEF Contents
    <2>2. adverse \in 0..MaxAdverse
      BY <1>2, EnrollmentAssumption DEF EnrollmentAssumption
    <2>3. inbox.at = "saving" <=> registrar["channel"].at # "rest"
      BY <1>2 DEF Registrars
    <2>4. QED
      BY <1>1, <1>2, <2>1, <2>2, <2>3
         DEF EnrollmentFormed, EnrollmentTypeOK, InboxTyped, RegistrarStates
  <1>4. OneWrites /\ SaidSo
    BY <1>1, <1>2 DEF OneWrites, SaidSo, Enrolls, Writes, Registrars
  <1>5. QED
    BY <1>3, <1>4 DEF EnrollmentInv

\* What a writer that moves on leaves as it was.
LEMMA OneWriterMoves ==
    ASSUME EnrollmentFormed, NEW w \in Registrars, NEW state, registrar' = [registrar EXCEPT ![w] = state],
           state \in RegistrarStates
    PROVE  /\ registrar'[w] = state
           /\ \A v \in Registrars : v # w => registrar'[v] = registrar[v]
           /\ registrar' \in [Registrars -> RegistrarStates]
  BY EnrollmentTyped

LEMMA ChangedIsContent ==
    ASSUME EnrollmentFormed, NEW w \in Registrars
    PROVE  /\ Changed(w) \in Contents
           /\ w = "channel" => Changed(w).id /\ Changed(w).key = registrar[w].copy.key
           /\ w # "channel" => Changed(w).key = registrar[w].key
           /\ registrar[w].copy.id => Changed(w).id
  BY DEF EnrollmentFormed, EnrollmentTypeOK, Changed, Contents, Registrars

LEMMA AdverseStep ==
    ASSUME EnrollmentFormed
    PROVE  /\ Adverse => adverse' \in 0..MaxAdverse /\ adverse' # 0
           /\ UNCHANGED adverse => adverse' \in 0..MaxAdverse
  BY EnrollmentAssumption DEF EnrollmentAssumption, EnrollmentFormed, EnrollmentTypeOK, Adverse

LEMMA EnrollmentStays == EnrollmentInv /\ [EnrollmentNext]_enrollmentVars => EnrollmentInv'
  <1> SUFFICES ASSUME EnrollmentInv, [EnrollmentNext]_enrollmentVars
               PROVE  EnrollmentInv'
    OBVIOUS
  <1> USE EnrollmentAssumption DEF EnrollmentAssumption, InboxTyped, RegistrarStates
  <1>0. EnrollmentFormed
    BY DEF EnrollmentInv
  <1>1. ASSUME BringToken PROVE EnrollmentInv'
    <2>1. dotenv' \in Contents /\ dotenv'.key = dotenv.key /\ dotenv'.id = dotenv.id
      BY <1>0, <1>1 DEF BringToken, EnrollmentFormed, EnrollmentTypeOK, Contents
    <2>2. EnrollmentFormed'
      BY <1>0, <1>1, <2>1 DEF BringToken, EnrollmentFormed, EnrollmentTypeOK
    <2>3. QED
      BY <1>1, <2>1, <2>2
         DEF BringToken, EnrollmentInv, OneWrites, SaidSo, Enrolls, Writes, Registrars
  <1>2. ASSUME NEW w \in {"cli", "reporter"}, Enroll(w) PROVE EnrollmentInv'
    <2> DEFINE state == [AtEase EXCEPT !.at = "answered", !.key = enrolled + 1]
    <2>1. /\ w \in Registrars /\ w # "channel" /\ enrolled' = enrolled + 1 /\ enrolled' \in 0..MaxKeys
          /\ registrar' = [registrar EXCEPT ![w] = state]
          /\ state \in RegistrarStates /\ state.at = "answered" /\ state.key = enrolled + 1
      <3>1. enrolled + 1 \in 0..MaxKeys
        <4>1. enrolled \in 0..MaxKeys
          BY <1>0 DEF EnrollmentFormed, EnrollmentTypeOK
        <4>2. enrolled < MaxKeys
          BY <1>2 DEF Enroll
        <4>3. QED
          BY <4>1, <4>2
      <3>2. state \in RegistrarStates /\ state.at = "answered" /\ state.key = enrolled + 1
        BY <3>1, EmptyHanded
      <3>3. QED
        BY <1>2, <3>1, <3>2 DEF Enroll, Registrars
    <2> HIDE DEF state
    <2>2. /\ registrar'[w] = state
          /\ \A v \in Registrars : v # w => registrar'[v] = registrar[v]
          /\ registrar' \in [Registrars -> RegistrarStates]
      BY <1>0, <2>1, OneWriterMoves
    <2>3. UNCHANGED <<dotenv, scratch, reporterCfg, inbox, warned>>
      BY <1>2 DEF Enroll
    <2>4. EnrollmentFormed'
      <3>1. adverse' \in 0..MaxAdverse
        BY <1>0, <1>2, AdverseStep DEF Enroll
      <3>2. registrar'["channel"] = registrar["channel"]
        BY <2>1, <2>2 DEF Registrars
      <3>3. QED
        BY <1>0, <2>1, <2>2, <2>3, <3>1, <3>2 DEF EnrollmentFormed, EnrollmentTypeOK
    <2>5. ASSUME adverse' = 0 PROVE OneWrites'
      <3>1. adverse = 0 /\ \A v \in {"cli", "reporter"} \ {w} : registrar[v].at = "rest"
        BY <1>0, <1>2, <2>5, AdverseStep DEF Enroll
      <3>2. OneWrites
        BY <3>1 DEF EnrollmentInv
      <3>3. \A v \in Registrars : v # w => Changed(v)' = Changed(v)
        BY <2>2, <2>3 DEF Changed
      <3>4. QED
        BY <2>1, <2>2, <2>3, <3>1, <3>2, <3>3 DEF OneWrites, Enrolls, Writes, Registrars
    <2>6. SaidSo'
      BY <2>3 DEF EnrollmentInv, SaidSo
    <2>7. QED
      BY <2>4, <2>5, <2>6 DEF EnrollmentInv
  <1>3. ASSUME NEW w \in Registrars, ReadDotenv(w) PROVE EnrollmentInv'
    <2> DEFINE state == [registrar[w] EXCEPT !.at = "read", !.copy = dotenv]
    <2>1. /\ registrar' = [registrar EXCEPT ![w] = state]
          /\ state.at = "read" /\ state.copy = dotenv /\ state.key = registrar[w].key
          /\ state \in RegistrarStates
      BY <1>0, <1>3, EnrollmentTyped DEF ReadDotenv, RegistrarStates
    <2> HIDE DEF state
    <2>2. /\ registrar'[w] = state
          /\ \A v \in Registrars : v # w => registrar'[v] = registrar[v]
          /\ registrar' \in [Registrars -> RegistrarStates]
      BY <1>0, <2>1, OneWriterMoves
    <2>3. UNCHANGED <<dotenv, scratch, enrolled, reporterCfg, inbox, warned>> /\ registrar[w].at = "answered"
      BY <1>3 DEF ReadDotenv
    <2>4. EnrollmentFormed'
      <3>1. adverse' \in 0..MaxAdverse
        BY <1>0, <1>3, AdverseStep DEF ReadDotenv
      <3>2. registrar'["channel"].at # "rest" <=> registrar["channel"].at # "rest"
        BY <2>1, <2>2, <2>3 DEF Registrars
      <3>3. QED
        BY <1>0, <2>2, <2>3, <3>1, <3>2 DEF EnrollmentFormed, EnrollmentTypeOK
    <2>5. ASSUME adverse' = 0 PROVE OneWrites'
      <3>1. adverse = 0 /\ ~Touching(w)
        BY <1>0, <1>3, <2>5, AdverseStep DEF ReadDotenv
      <3>2. OneWrites
        BY <3>1 DEF EnrollmentInv
      <3>3. \A v \in Registrars : v # w => Changed(v)' = Changed(v)
        BY <2>2, <2>3 DEF Changed
      <3>4. \A v \in Registrars : v # w => ~Writes(v)
        BY <3>1 DEF Touching, Writes
      <3>5. QED
        BY <2>1, <2>2, <2>3, <3>2, <3>3, <3>4 DEF OneWrites, Enrolls, Writes, Registrars
    <2>6. SaidSo'
      BY <2>3 DEF EnrollmentInv, SaidSo
    <2>7. QED
      BY <2>4, <2>5, <2>6 DEF EnrollmentInv
  <1>4. ASSUME NEW w \in Registrars, FillScratch(w) PROVE EnrollmentInv'
    <2> DEFINE state == [registrar[w] EXCEPT !.at = "filled"]
    <2>1. /\ registrar' = [registrar EXCEPT ![w] = state]
          /\ state.at = "filled" /\ state.copy = registrar[w].copy /\ state.key = registrar[w].key
          /\ state \in RegistrarStates
      BY <1>0, <1>4, EnrollmentTyped DEF FillScratch, RegistrarStates
    <2> HIDE DEF state
    <2>2. /\ registrar'[w] = state
          /\ \A v \in Registrars : v # w => registrar'[v] = registrar[v]
          /\ registrar' \in [Registrars -> RegistrarStates]
      BY <1>0, <2>1, OneWriterMoves
    <2>3. /\ UNCHANGED <<dotenv, enrolled, reporterCfg, inbox, warned, adverse>>
          /\ registrar[w].at = "read" /\ scratch' = {Changed(w)}
      BY <1>4 DEF FillScratch
    <2>4. EnrollmentFormed'
      <3>1. Changed(w) \in Contents
        BY <1>0, ChangedIsContent
      <3>2. registrar'["channel"].at # "rest" <=> registrar["channel"].at # "rest"
        BY <2>1, <2>2, <2>3 DEF Registrars
      <3>3. QED
        BY <1>0, <2>2, <2>3, <3>1, <3>2 DEF EnrollmentFormed, EnrollmentTypeOK
    <2>5. ASSUME adverse' = 0 PROVE OneWrites'
      <3>1. OneWrites
        BY <2>3, <2>5 DEF EnrollmentInv
      <3>2. Changed(w)' = Changed(w)
        BY <2>1, <2>2, <2>3 DEF Changed
      <3>3. \A v \in Registrars : v # w => ~Writes(v)
        BY <2>3, <3>1 DEF OneWrites, Writes
      <3>4. QED
        BY <2>1, <2>2, <2>3, <3>1, <3>2, <3>3 DEF OneWrites, Enrolls, Writes, Registrars
    <2>6. SaidSo'
      BY <2>3 DEF EnrollmentInv, SaidSo
    <2>7. QED
      BY <2>4, <2>5, <2>6 DEF EnrollmentInv
  <1>5. ASSUME NEW w \in Registrars, registrar[w].at = "filled", registrar' = [registrar EXCEPT ![w] = AtEase],
               UNCHANGED enrolled, dotenv' \in Contents, reporterCfg' \in Contents, scratch' = {},
               adverse' \in 0..MaxAdverse, adverse' = 0 => adverse = 0 /\ scratch = {dotenv'},
               w # "channel" => UNCHANGED <<inbox, warned>>,
               w = "channel" =>
                   /\ warned' = 0 /\ inbox'.at = "polling" /\ inbox'.failing = inbox.failing /\ ~inbox'.loud
                   /\ InboxTyped(inbox')
                   /\ adverse' = 0 => inbox'.id = dotenv'.id
        PROVE  EnrollmentInv'
    <2>1. AtEase \in RegistrarStates
      BY EmptyHanded
    <2>2. /\ registrar'[w].at = "rest"
          /\ \A v \in Registrars : v # w => registrar'[v] = registrar[v]
          /\ registrar' \in [Registrars -> RegistrarStates]
      BY <1>0, <1>5, <2>1, OneWriterMoves DEF AtEase
    <2>3. w = "channel" => inbox.at = "saving"
      BY <1>0, <1>5 DEF EnrollmentFormed, EnrollmentTypeOK
    <2>4. EnrollmentFormed'
      <3>1. CASE w = "channel"
        <4>1. inbox'.at = "saving" <=> registrar'["channel"].at # "rest"
          BY <1>5, <2>2, <3>1
        <4>2. QED
          BY <1>0, <1>5, <2>2, <3>1, <4>1 DEF EnrollmentFormed, EnrollmentTypeOK
      <3>2. CASE w # "channel"
        <4>1. inbox'.at = "saving" <=> registrar'["channel"].at # "rest"
          BY <1>0, <1>5, <2>2, <3>2 DEF EnrollmentFormed, EnrollmentTypeOK, Registrars
        <4>2. QED
          BY <1>0, <1>5, <2>2, <3>2, <4>1 DEF EnrollmentFormed, EnrollmentTypeOK
      <3>3. QED
        BY <3>1, <3>2
    <2>5. ASSUME adverse' = 0 PROVE OneWrites'
      <3>1. OneWrites
        BY <1>5, <2>5 DEF EnrollmentInv
      <3>2. dotenv' = Changed(w) /\ registrar[w].copy = dotenv
        BY <1>5, <2>5, <3>1 DEF OneWrites, Writes
      <3>3. \A v \in Registrars : v # w => ~Writes(v)
        BY <1>5, <3>1 DEF OneWrites, Writes
      <3>4. /\ w = "channel" => dotenv'.id /\ dotenv'.key = dotenv.key
            /\ w # "channel" => dotenv'.key = enrolled
            /\ dotenv.id => dotenv'.id
        BY <1>0, <1>5, <3>1, <3>2, ChangedIsContent DEF OneWrites, Enrolls, Registrars
      <3>5. \A v \in Registrars : ~Writes(v)'
        BY <2>2, <3>3 DEF Writes
      <3>6. \A v \in Registrars : Enrolls(v)' => Enrolls(v) /\ registrar'[v] = registrar[v]
        BY <2>2 DEF Enrolls
      <3>7. ~(Enrolls("cli")' /\ Enrolls("reporter")')
        BY <3>1, <3>6 DEF OneWrites, Registrars
      <3>8. ~Enrolls("cli")' /\ ~Enrolls("reporter")' => dotenv'.key = enrolled'
        <4>1. CASE w = "channel"
          BY <1>5, <2>2, <3>1, <3>4, <4>1 DEF OneWrites, Enrolls, Registrars
        <4>2. CASE w # "channel"
          BY <1>5, <3>4, <4>2
        <4>3. QED
          BY <4>1, <4>2
      <3>9. inbox'.at = "polling" => inbox'.id /\ dotenv'.id
        BY <1>5, <2>3, <2>5, <3>1, <3>4 DEF OneWrites
      <3>10. \A v \in Registrars : registrar'[v].at # "filled"
        BY <3>5 DEF Writes
      <3>11. \A v \in Registrars : Enrolls(v)' => registrar'[v].key = enrolled'
        BY <1>5, <3>1, <3>6 DEF OneWrites
      <3>12. QED
        BY <3>5, <3>7, <3>8, <3>9, <3>10, <3>11 DEF OneWrites
    <2>6. SaidSo'
      BY <1>5, <2>3 DEF EnrollmentInv, SaidSo
    <2>7. QED
      BY <2>4, <2>5, <2>6 DEF EnrollmentInv
  <1>6. ASSUME NEW w \in Registrars, Replace(w) PROVE EnrollmentInv'
    <2>1. PICK c \in Contents : /\ scratch = {c} /\ dotenv' = c
                                /\ reporterCfg' = IF w = "reporter" THEN c ELSE reporterCfg
                                /\ inbox' = IF w = "channel"
                                            THEN [Loaded(c) EXCEPT !.at = "polling", !.failures = 0,
                                                                   !.loud = FALSE]
                                            ELSE inbox
      BY <1>0, <1>6 DEF Replace, EnrollmentFormed, EnrollmentTypeOK
    <2>2. w = "channel" =>
              /\ inbox'.at = "polling" /\ inbox'.failing = inbox.failing /\ ~inbox'.loud
              /\ InboxTyped(inbox')
              /\ inbox'.id = dotenv'.id
      <3>1. InboxTyped(inbox)
        BY <1>0, EnrollmentTyped
      <3>2. QED
        BY <2>1, <3>1 DEF Loaded, InboxOff
    <2>3. /\ registrar[w].at = "filled" /\ registrar' = [registrar EXCEPT ![w] = AtEase]
          /\ UNCHANGED <<enrolled, adverse>> /\ scratch' = {}
          /\ warned' = IF w = "channel" THEN 0 ELSE warned
      BY <1>6 DEF Replace
    <2>4. reporterCfg' \in Contents /\ adverse' \in 0..MaxAdverse
      BY <1>0, <2>1, <2>3 DEF EnrollmentFormed, EnrollmentTypeOK
    <2>5. QED
      BY <1>5, <2>1, <2>2, <2>3, <2>4
  <1>7. ASSUME NEW w \in Registrars, ReplaceFails(w) PROVE EnrollmentInv'
    <2>1. w = "channel" =>
              /\ inbox'.at = "polling" /\ inbox'.failing = inbox.failing /\ ~inbox'.loud
              /\ InboxTyped(inbox')
      <3>1. InboxTyped(inbox) /\ dotenv \in Contents
        BY <1>0, EnrollmentTyped
      <3>2. QED
        BY <1>7, <3>1 DEF ReplaceFails, InboxOff
    <2>2. /\ registrar[w].at = "filled" /\ registrar' = [registrar EXCEPT ![w] = AtEase]
          /\ UNCHANGED <<dotenv, enrolled, reporterCfg>> /\ scratch' = {}
          /\ warned' = IF w = "channel" THEN 0 ELSE warned
          /\ w # "channel" => UNCHANGED inbox
      BY <1>7 DEF ReplaceFails
    <2>3. adverse' \in 0..MaxAdverse /\ adverse' # 0
      <3>1. CASE scratch = {}
        <4>1. UNCHANGED adverse /\ adverse \in 0..MaxAdverse
          BY <1>0, <1>7, <3>1 DEF ReplaceFails, EnrollmentFormed, EnrollmentTypeOK
        <4>2. adverse # 0
          BY <2>2, <3>1 DEF EnrollmentInv, OneWrites
        <4>3. QED
          BY <4>1, <4>2
      <3>2. CASE scratch # {}
        BY <1>0, <1>7, <3>2, AdverseStep DEF ReplaceFails
      <3>3. QED
        BY <3>1, <3>2
    <2>4. dotenv' \in Contents /\ reporterCfg' \in Contents
      BY <1>0, <2>2 DEF EnrollmentFormed, EnrollmentTypeOK
    <2>5. QED
      BY <1>5, <2>1, <2>2, <2>3, <2>4
  <1>8. ASSUME UNCHANGED <<dotenv, scratch, enrolled, registrar, reporterCfg>>,
               InboxTyped(inbox'),
               inbox.at # "saving", inbox'.at # "saving",
               adverse' \in 0..MaxAdverse, adverse' = 0 => adverse = 0,
               OneWrites => (inbox'.at = "polling" => inbox'.id /\ dotenv.id), SaidSo'
        PROVE  EnrollmentInv'
    <2>1. EnrollmentFormed'
      <3>1. warned' \in 0..2
        BY <1>8 DEF SaidSo
      <3>2. QED
        BY <1>0, <1>8, <3>1 DEF EnrollmentFormed, EnrollmentTypeOK
    <2>2. ASSUME adverse' = 0 PROVE OneWrites'
      <3>1. OneWrites
        BY <1>8, <2>2 DEF EnrollmentInv
      <3>2. \A w \in Registrars : Changed(w)' = Changed(w) \/ w = "channel"
        BY <1>8 DEF Changed
      <3>3. Changed("channel")' = Changed("channel")
        BY <1>8 DEF Changed
      <3>4. QED
        BY <1>8, <3>1, <3>2, <3>3 DEF OneWrites, Enrolls, Writes
    <2>3. QED
      BY <1>8, <2>1, <2>2 DEF EnrollmentInv
  <1>9. ASSUME InboxRuns PROVE EnrollmentInv'
    <2>1. /\ InboxTyped(inbox')
          /\ inbox'.at = IF dotenv.id THEN "polling" ELSE "finding"
          /\ (inbox'.id <=> dotenv.id) /\ ~inbox'.loud /\ ~inbox'.failing
      <3>1. InboxTyped(inbox) /\ dotenv \in Contents
        BY <1>0, EnrollmentTyped
      <3>2. QED
        BY <1>9, <3>1 DEF InboxRuns, InboxOff
    <2>2. SaidSo'
      BY <1>9, <2>1 DEF InboxRuns, SaidSo
    <2>3. adverse' \in 0..MaxAdverse /\ UNCHANGED adverse
      BY <1>0, <1>9 DEF InboxRuns, EnrollmentFormed, EnrollmentTypeOK
    <2>4. /\ UNCHANGED <<dotenv, scratch, enrolled, registrar, reporterCfg>>
          /\ inbox.at # "saving" /\ inbox'.at # "saving"
          /\ inbox'.at = "polling" => inbox'.id /\ dotenv.id
      BY <1>9, <2>1 DEF InboxRuns
    <2>5. QED
      BY <1>8, <2>1, <2>2, <2>3, <2>4
  <1>10. ASSUME WhoAmI PROVE EnrollmentInv'
    <2> DEFINE state == [at |-> "answered", copy |-> Blank, key |-> 0]
    <2>1. /\ registrar' = [registrar EXCEPT !["channel"] = state] /\ "channel" \in Registrars
          /\ state \in RegistrarStates
      <3>1. state = [AtEase EXCEPT !.at = "answered"]
        BY DEF AtEase
      <3>2. 0 \in 0..MaxKeys
        OBVIOUS
      <3>3. state \in RegistrarStates
        BY <3>2, EmptyHanded
      <3>4. QED
        BY <1>10, <3>1, <3>3 DEF WhoAmI, Registrars
    <2>2. /\ registrar'["channel"] = state
          /\ \A v \in Registrars : v # "channel" => registrar'[v] = registrar[v]
          /\ registrar' \in [Registrars -> RegistrarStates]
      BY <1>0, <2>1, OneWriterMoves
    <2>3. /\ UNCHANGED <<dotenv, scratch, enrolled, reporterCfg, warned, adverse>>
          /\ inbox.at = "finding" /\ inbox'.at = "saving"
          /\ inbox'.failing = inbox.failing /\ inbox'.loud = inbox.loud
          /\ InboxTyped(inbox')
      BY <1>0, <1>10, EnrollmentTyped DEF WhoAmI, InboxTyped
    <2>4. EnrollmentFormed'
      BY <1>0, <2>2, <2>3 DEF EnrollmentFormed, EnrollmentTypeOK
    <2>5. ASSUME adverse' = 0 PROVE OneWrites'
      <3>1. OneWrites
        BY <2>3, <2>5 DEF EnrollmentInv
      <3>2. \A v \in Registrars : v # "channel" => Changed(v)' = Changed(v)
        BY <2>2, <2>3 DEF Changed
      <3>3. QED
        BY <2>2, <2>3, <3>1, <3>2 DEF OneWrites, Enrolls, Writes, Registrars
    <2>6. SaidSo'
      BY <2>3 DEF EnrollmentInv, SaidSo
    <2>7. QED
      BY <2>4, <2>5, <2>6 DEF EnrollmentInv
  <1>11. ASSUME Polled PROVE EnrollmentInv'
    <2>1. /\ InboxTyped(inbox')
          /\ inbox'.at = "polling" /\ inbox.at = "polling"
          /\ (inbox'.id <=> inbox.id) /\ ~inbox'.loud /\ ~inbox'.failing
      <3>1. InboxTyped(inbox) /\ dotenv \in Contents
        BY <1>0, EnrollmentTyped
      <3>2. QED
        BY <1>11, <3>1 DEF Polled, InboxOff
    <2>2. SaidSo'
      BY <1>11, <2>1 DEF Polled, SaidSo
    <2>3. adverse' \in 0..MaxAdverse /\ UNCHANGED <<dotenv, scratch, enrolled, registrar, reporterCfg, adverse>>
      BY <1>0, <1>11 DEF Polled, EnrollmentFormed, EnrollmentTypeOK
    <2>4. OneWrites => inbox'.id /\ dotenv.id
      BY <2>1 DEF OneWrites
    <2>5. QED
      BY <1>8, <2>1, <2>2, <2>3, <2>4
  <1>12. ASSUME NEW state, InboxTyped(state), state.at \in {"finding", "polling"},
                NEW isLoud \in BOOLEAN, Fails(state, isLoud), state.at = inbox.at,
                state.loud <=> inbox.loud, state.failing <=> (inbox.failing \/ (isLoud /\ inbox.at = "polling")),
                UNCHANGED <<dotenv, scratch, enrolled, registrar, reporterCfg>>,
                adverse' \in 0..MaxAdverse, adverse' = 0 => adverse = 0,
                OneWrites => (state.at = "polling" => state.id /\ dotenv.id)
         PROVE  EnrollmentInv'
    <2>1. /\ inbox' = [state EXCEPT !.loud = state.loud \/ isLoud]
          /\ warned' = IF isLoud /\ ~inbox.loud THEN warned + 1 ELSE warned
      BY <1>12 DEF Fails
    <2>3. InboxTyped(inbox')
      BY <1>12, <2>1
    <2>4. /\ inbox'.at = state.at /\ (inbox'.id <=> state.id) /\ (inbox'.failing <=> state.failing)
          /\ inbox'.loud <=> (inbox.loud \/ isLoud)
      BY <1>12, <2>1
    <2>6. SaidSo'
      BY <1>12, <2>1, <2>4 DEF EnrollmentInv, SaidSo
    <2>7. inbox.at # "saving" /\ inbox'.at # "saving"
      BY <1>12, <2>4
    <2>8. QED
      BY <1>8, <1>12, <2>3, <2>4, <2>6, <2>7
  <1>13. OneMore \in 0..3
    BY <1>0 DEF OneMore, EnrollmentFormed, EnrollmentTypeOK
  <1>14. ASSUME KeyRefused PROVE EnrollmentInv'
    <2>1. /\ UNCHANGED <<dotenv, scratch, enrolled, registrar, reporterCfg, adverse>>
          /\ adverse' \in 0..MaxAdverse /\ inbox.at \in {"finding", "polling"}
      BY <1>0, <1>14 DEF KeyRefused, EnrollmentFormed, EnrollmentTypeOK
    <2>2. CASE NewKey
      <3>1. inbox' = [Loaded(dotenv) EXCEPT !.failing = FALSE] /\ UNCHANGED warned
        BY <1>14, <2>2 DEF KeyRefused
      <3>2. /\ InboxTyped(inbox')
            /\ inbox'.at = inbox.at /\ (inbox'.id <=> dotenv.id) /\ ~inbox'.failing /\ inbox'.loud = inbox.loud
        BY <1>0, <3>1, EnrollmentTyped DEF Loaded, InboxTyped
      <3>3. SaidSo'
        BY <3>1, <3>2 DEF EnrollmentInv, SaidSo
      <3>4. OneWrites => (inbox'.at = "polling" => inbox'.id /\ dotenv.id)
        BY <3>2 DEF OneWrites
      <3>5. QED
        BY <1>8, <2>1, <3>2, <3>3, <3>4
    <2>3. CASE ~NewKey /\ inbox.at = "finding"
      <3> DEFINE state == [Loaded(dotenv) EXCEPT !.failures = OneMore]
                 third == OneMore = 3
      <3>1. Fails(state, third)
        BY <1>14, <2>3 DEF KeyRefused
      <3>2. /\ InboxTyped(state)
            /\ state.at = inbox.at /\ (state.loud <=> inbox.loud) /\ (state.failing <=> inbox.failing)
        BY <1>0, <1>13, <2>1 DEF EnrollmentFormed, EnrollmentTypeOK, Loaded, Contents
      <3>3. third \in BOOLEAN
        OBVIOUS
      <3> HIDE DEF state, third
      <3>4. QED
        BY <1>12, <2>1, <2>3, <3>1, <3>2, <3>3
    <2>4. CASE ~NewKey /\ inbox.at # "finding"
      <3> DEFINE state == [Loaded(dotenv) EXCEPT !.failing = TRUE]
      <3>1. Fails(state, TRUE)
        BY <1>14, <2>4 DEF KeyRefused
      <3>2. /\ InboxTyped(state)
            /\ state.at = inbox.at /\ (state.loud <=> inbox.loud) /\ state.failing /\ (state.id <=> dotenv.id)
        BY <1>0, <2>1 DEF EnrollmentFormed, EnrollmentTypeOK, Loaded, Contents
      <3>3. OneWrites => (state.at = "polling" => state.id /\ dotenv.id)
        BY <3>2 DEF OneWrites
      <3>4. state.failing <=> (inbox.failing \/ (TRUE /\ inbox.at = "polling"))
        BY <2>1, <2>4, <3>2
      <3> HIDE DEF state
      <3>5. QED
        BY <1>12, <2>1, <3>1, <3>2, <3>3, <3>4
    <2>5. QED
      BY <2>2, <2>3, <2>4
  <1>15. ASSUME CallFails PROVE EnrollmentInv'
    <2> DEFINE state == [inbox EXCEPT !.failures = OneMore]
               third == inbox.at = "finding" /\ OneMore = 3
    <2>1. /\ UNCHANGED <<dotenv, scratch, enrolled, registrar, reporterCfg>>
          /\ inbox.at \in {"finding", "polling"} /\ Fails(state, third)
      BY <1>15 DEF CallFails
    <2>2. adverse' \in 0..MaxAdverse /\ (adverse' = 0 => adverse = 0)
      BY <1>0, <1>15, AdverseStep DEF CallFails
    <2>3. /\ InboxTyped(state)
          /\ state.at = inbox.at /\ (state.loud <=> inbox.loud) /\ (state.failing <=> inbox.failing)
          /\ (state.id <=> inbox.id)
      BY <1>0, <1>13, <2>1 DEF EnrollmentFormed, EnrollmentTypeOK
    <2>4. OneWrites => (state.at = "polling" => state.id /\ dotenv.id)
      BY <2>3 DEF OneWrites
    <2>5. third \in BOOLEAN /\ (third => inbox.at # "polling")
      OBVIOUS
    <2> HIDE DEF state, third
    <2>6. QED
      BY <1>12, <2>1, <2>2, <2>3, <2>4, <2>5
  <1>16. ASSUME GatewayEnds PROVE EnrollmentInv'
    <2>1. adverse' \in 0..MaxAdverse /\ adverse' # 0
      BY <1>0, <1>16, AdverseStep DEF GatewayEnds
    <2>2. registrar' \in [Registrars -> RegistrarStates]
      BY <1>0, <1>16, EmptyHanded, EnrollmentTyped DEF GatewayEnds
    <2>3. registrar'["channel"].at = "rest"
      BY <1>16 DEF GatewayEnds, AtEase, Registrars
    <2>4. EnrollmentFormed' /\ SaidSo'
      BY <1>0, <1>16, <2>1, <2>2, <2>3
         DEF GatewayEnds, EnrollmentFormed, EnrollmentTypeOK, InboxOff, SaidSo
    <2>5. QED
      BY <2>1, <2>4 DEF EnrollmentInv
  <1>17. ASSUME CommandEnds PROVE EnrollmentInv'
    <2>1. adverse' \in 0..MaxAdverse /\ adverse' # 0
      BY <1>0, <1>17, AdverseStep DEF CommandEnds
    <2>2. registrar' \in [Registrars -> RegistrarStates]
      BY <1>0, <1>17, EmptyHanded, EnrollmentTyped DEF CommandEnds
    <2>3. registrar'["channel"] = registrar["channel"]
      BY <1>0, <1>17 DEF CommandEnds, EnrollmentFormed, EnrollmentTypeOK, Registrars
    <2>4. EnrollmentFormed' /\ SaidSo'
      BY <1>0, <1>17, <2>1, <2>2, <2>3
         DEF CommandEnds, EnrollmentInv, EnrollmentFormed, EnrollmentTypeOK, SaidSo
    <2>5. QED
      BY <2>1, <2>4 DEF EnrollmentInv
  <1>18. ASSUME UNCHANGED enrollmentVars PROVE EnrollmentInv'
    BY <1>18
       DEF enrollmentVars, EnrollmentInv, EnrollmentFormed, EnrollmentTypeOK, OneWrites, SaidSo,
           Enrolls, Writes, Changed
  <1>19. QED
    BY <1>1, <1>2, <1>3, <1>4, <1>6, <1>7, <1>9, <1>10, <1>11, <1>14, <1>15, <1>16, <1>17, <1>18
       DEF EnrollmentNext

\* Unless two writers overlap, one dies or a write fails, the file holds the key
\* that the company takes; and the channel is loud once, for any number of keys and
\* of adverse events (write_env_keys, _agent_id, _handle_auth_failure).
THEOREM KeyIsKept == EnrollmentSpec => []EnrollmentKept
  BY EnrollmentInitially, EnrollmentStays, EnrollmentKeeps, PTL DEF EnrollmentSpec

-----------------------------------------------------------------------------
(* Drafts: the sends that a reply may still have before it. *)

\* A command that may send its reply, or write back that it waits to be sent.
Risks(c, m) ==
    /\ command[c].on = m
    /\ command[c].at = "sending" \/ (command[c].at = "editing" /\ command[c].read = "pending")
Risky(m) == {c \in Editors : Risks(c, m)}
Approving(m) ==
    \E c \in Editors : command[c].on = m /\ command[c].at \in {"sending", "sent", "failed"}

\* One for each such command; without any, one for a draft that an approval finds.
Waits(m) == draft[m] \in {"none", "pending"} /\ ~Approving(m)
Owes(m) ==
    IF Risky(m) # {} THEN Cardinality(Risky(m)) ELSE IF Waits(m) THEN 1 ELSE 0

\* A command is on a reply that has a draft, unless it rests.
CommandsSound ==
    \A c \in Editors :
        /\ command[c].at = "rest" <=> command[c].on = NoReply
        /\ command[c].at # "rest" => command[c].read # "none" /\ draft[command[c].on] # "none"

Paid(m) == mailed[m] + Owes(m) <= 1 + slips[m]

DraftsInv == EmailDraftsTypeOK /\ CommandsSound /\ \A m \in Replies : Paid(m)

LEMMA OwesNumber ==
    ASSUME NEW m
    PROVE  /\ IsFiniteSet(Risky(m)) /\ Cardinality(Risky(m)) \in Nat /\ Owes(m) \in Nat
           /\ Risky(m) # {} => Cardinality(Risky(m)) > 0
           /\ Owes(m) >= Cardinality(Risky(m))
  <1>1. IsFiniteSet(Risky(m))
    <2>1. IsFiniteSet(Editors) /\ Risky(m) \in SUBSET Editors
      BY EmailDraftsAssumption DEF EmailDraftsAssumption, Risky
    <2>2. QED
      BY <2>1, FS_Subset
  <1>2. Cardinality(Risky(m)) \in Nat
    BY <1>1, FS_CardinalityType
  <1>3. Cardinality(Risky(m)) = 0 <=> Risky(m) = {}
    BY <1>1, FS_EmptySet
  <1>4. QED
    BY <1>1, <1>2, <1>3 DEF Owes

LEMMA DraftsInitially == EmailDraftsInit => DraftsInv
  <1> SUFFICES ASSUME EmailDraftsInit
               PROVE  DraftsInv
    OBVIOUS
  <1>1. EmailDraftsTypeOK /\ CommandsSound
    BY EmailDraftsAssumption
       DEF EmailDraftsAssumption, EmailDraftsInit, EmailDraftsTypeOK, CommandsSound, CommandAtRest, DraftStates
  <1>2. \A m \in Replies : Risky(m) = {} /\ mailed[m] = 0 /\ slips[m] = 0
    BY DEF EmailDraftsInit, CommandAtRest, Risky, Risks
  <1>3. \A m \in Replies : Owes(m) \in {0, 1}
    BY <1>2 DEF Owes
  <1>4. QED
    BY <1>1, <1>2, <1>3 DEF DraftsInv, Paid

\* A command that moves on one reply, and what it leaves of the others.
LEMMA OthersArePaid ==
    ASSUME DraftsInv, NEW c \in Editors, NEW m \in Replies, NEW state,
           command' = [command EXCEPT ![c] = state],
           command[c].on \in {m, NoReply}, state.on \in {m, NoReply},
           \A n \in Replies : n # m =>
               draft'[n] = draft[n] /\ mailed'[n] = mailed[n] /\ slips'[n] = slips[n],
           NEW n \in Replies, n # m
    PROVE  Paid(n)'
  <1>1. command'[c] = state /\ \A d \in Editors : d # c => command'[d] = command[d]
    BY DEF DraftsInv, EmailDraftsTypeOK
  <1>2. n # NoReply
    BY EmailDraftsAssumption DEF EmailDraftsAssumption
  <1>3. Risky(n)' = Risky(n)
    BY <1>1, <1>2 DEF Risky, Risks
  <1>4. Approving(n)' <=> Approving(n)
    BY <1>1, <1>2 DEF Approving
  <1>5. Waits(n)' <=> Waits(n)
    BY <1>4 DEF Waits
  <1>6. Owes(n)' = Owes(n)
    BY <1>3, <1>5 DEF Owes
  <1>7. QED
    BY <1>6 DEF DraftsInv, Paid

\* What a command's step makes of the sends that its reply may still have.
LEMMA OneRisks ==
    ASSUME DraftsInv, NEW c \in Editors, NEW m \in Replies, NEW state,
           command' = [command EXCEPT ![c] = state]
    PROVE  /\ command'[c] = state /\ \A d \in Editors : d # c => command'[d] = command[d]
           /\ Risks(c, m)' => Risky(m)' = Risky(m) \cup {c}
           /\ ~Risks(c, m)' => Risky(m)' = Risky(m) \ {c}
           /\ Cardinality(Risky(m) \cup {c}) = IF Risks(c, m) THEN Cardinality(Risky(m))
                                               ELSE Cardinality(Risky(m)) + 1
           /\ Cardinality(Risky(m) \ {c}) = IF Risks(c, m) THEN Cardinality(Risky(m)) - 1
                                            ELSE Cardinality(Risky(m))
  <1>1. command'[c] = state /\ \A d \in Editors : d # c => command'[d] = command[d]
    BY DEF DraftsInv, EmailDraftsTypeOK
  <1>2. \A d \in Editors : d # c => (Risks(d, m)' <=> Risks(d, m))
    BY <1>1 DEF Risks
  <1>3. c \in Risky(m) <=> Risks(c, m)
    BY DEF Risky
  <1>4. /\ Risks(c, m)' => Risky(m)' = Risky(m) \cup {c}
        /\ ~Risks(c, m)' => Risky(m)' = Risky(m) \ {c}
    BY <1>2 DEF Risky
  <1>5. IsFiniteSet(Risky(m))
    BY OwesNumber
  <1>6. Cardinality(Risky(m) \cup {c}) = IF c \in Risky(m) THEN Cardinality(Risky(m))
                                         ELSE Cardinality(Risky(m)) + 1
    BY <1>5, FS_AddElement
  <1>7. Cardinality(Risky(m) \ {c}) = IF c \in Risky(m) THEN Cardinality(Risky(m)) - 1
                                      ELSE Cardinality(Risky(m))
    BY <1>5, FS_RemoveElement
  <1>8. QED
    BY <1>1, <1>3, <1>4, <1>6, <1>7

LEMMA Slips ==
    ASSUME EmailDraftsTypeOK, NEW m \in Replies
    PROVE  /\ Slip(m) => /\ slips' \in [Replies -> 0..MaxSlips] /\ slips'[m] = slips[m] + 1
                         /\ \A n \in Replies : n # m => slips'[n] = slips[n]
           /\ UNCHANGED slips => slips' \in [Replies -> 0..MaxSlips]
  BY EmailDraftsAssumption DEF EmailDraftsAssumption, EmailDraftsTypeOK, Slip

LEMMA DraftsStay == DraftsInv /\ [EmailDraftsNext]_emailDraftsVars => DraftsInv'
  <1> SUFFICES ASSUME DraftsInv, [EmailDraftsNext]_emailDraftsVars
               PROVE  DraftsInv'
    OBVIOUS
  <1>0. EmailDraftsTypeOK /\ CommandsSound /\ NoReply \notin Replies
    BY EmailDraftsAssumption DEF EmailDraftsAssumption, DraftsInv
  <1>1. ASSUME NEW m \in Replies, DraftReply(m) PROVE DraftsInv'
    <2>1. draft' = [draft EXCEPT ![m] = "pending"] /\ UNCHANGED <<command, mailed>>
      BY <1>1 DEF DraftReply, EnqueueDraft
    <2>2. /\ slips' \in [Replies -> 0..MaxSlips] /\ \A n \in Replies : n # m => slips'[n] = slips[n]
          /\ IF draft[m] = "none" THEN slips'[m] = slips[m] ELSE slips'[m] = slips[m] + 1
      BY <1>0, <1>1, Slips DEF DraftReply
    <2>3. EmailDraftsTypeOK' /\ CommandsSound'
      BY <1>0, <2>1, <2>2 DEF EmailDraftsTypeOK, CommandsSound, DraftStates
    <2>4. ASSUME NEW n \in Replies PROVE Paid(n)'
      <3>1. Risky(n)' = Risky(n) /\ (Approving(n)' <=> Approving(n)) /\ mailed'[n] = mailed[n]
        BY <2>1 DEF Risky, Risks, Approving
      <3>2. Owes(n) \in Nat /\ mailed[n] \in Nat /\ slips[n] \in Nat /\ Paid(n)
        BY <1>0, OwesNumber DEF DraftsInv, EmailDraftsTypeOK
      <3>3. CASE n # m \/ draft[m] = "none"
        <4>1. Waits(n)' <=> Waits(n)
          BY <1>0, <2>1, <3>1, <3>3 DEF Waits, EmailDraftsTypeOK
        <4>2. Owes(n)' = Owes(n)
          BY <3>1, <4>1 DEF Owes
        <4>3. QED
          BY <2>2, <3>1, <3>2, <3>3, <4>2 DEF Paid
      <3>4. CASE n = m /\ draft[m] # "none"
        <4>0. Waits(n) => Waits(n)'
          BY <1>0, <2>1, <3>1, <3>4 DEF Waits, EmailDraftsTypeOK
        <4>1. Owes(n)' \in {Owes(n), Owes(n) + 1}
          BY <3>1, <3>2, <4>0 DEF Owes
        <4>2. QED
          BY <2>2, <3>1, <3>2, <3>4, <4>1 DEF Paid
      <3>5. QED
        BY <3>3, <3>4
    <2>5. QED
      BY <2>3, <2>4 DEF DraftsInv
  <1>2. ASSUME NEW c \in Editors, NEW m \in Replies, NEW at \in {"sending", "rejecting", "editing"},
               Begin(c, m, at), at = "sending" => draft[m] = "pending"
        PROVE  DraftsInv'
    <2> DEFINE state == [at |-> at, on |-> m, read |-> draft[m]]
    <2>1. /\ command[c].at = "rest" /\ draft[m] # "none" /\ UNCHANGED <<draft, mailed>>
          /\ command' = [command EXCEPT ![c] = state] /\ command[c].on = NoReply
      BY <1>0, <1>2 DEF Begin, CommandsSound
    <2>2. /\ slips' \in [Replies -> 0..MaxSlips] /\ \A n \in Replies : n # m => slips'[n] = slips[n]
          /\ IF \E d \in Editors : command[d].on = m THEN slips'[m] = slips[m] + 1
             ELSE slips'[m] = slips[m]
      BY <1>0, <1>2, Slips DEF Begin
    <2>3. /\ command'[c] = state /\ \A d \in Editors : d # c => command'[d] = command[d]
          /\ Risks(c, m)' => Risky(m)' = Risky(m) \cup {c}
          /\ ~Risks(c, m)' => Risky(m)' = Risky(m) \ {c}
          /\ Cardinality(Risky(m) \cup {c}) = IF Risks(c, m) THEN Cardinality(Risky(m))
                                              ELSE Cardinality(Risky(m)) + 1
          /\ Cardinality(Risky(m) \ {c}) = IF Risks(c, m) THEN Cardinality(Risky(m)) - 1
                                           ELSE Cardinality(Risky(m))
      BY <2>1, OneRisks
    <2>4. ~Risks(c, m) /\ Risky(m) \ {c} = Risky(m)
      BY <2>1 DEF Risks, Risky
    <2>5. EmailDraftsTypeOK'
      BY <1>0, <2>1, <2>2 DEF EmailDraftsTypeOK
    <2>6. CommandsSound'
      BY <1>0, <2>1, <2>3 DEF CommandsSound
    <2>7. \A n \in Replies : n # m => Paid(n)'
      <3>1. state.on = m
        OBVIOUS
      <3>2. \A n \in Replies : n # m => draft'[n] = draft[n] /\ mailed'[n] = mailed[n] /\ slips'[n] = slips[n]
        BY <2>1, <2>2
      <3> HIDE DEF state
      <3>3. QED
        BY <2>1, <3>1, <3>2, OthersArePaid
    <2>8. Paid(m)'
      <3>1. /\ Owes(m) \in Nat /\ mailed[m] \in Nat /\ slips[m] \in Nat /\ Paid(m)
            /\ Cardinality(Risky(m)) \in Nat /\ Owes(m) >= Cardinality(Risky(m))
        BY <1>0, OwesNumber DEF DraftsInv, EmailDraftsTypeOK
      <3>2. CASE Risks(c, m)'
        <4>1. Owes(m)' = Cardinality(Risky(m)) + 1
          <5>1. Owes(m)' = Cardinality(Risky(m)')
            BY <2>3, <3>2 DEF Owes
          <5>2. QED
            BY <2>3, <2>4, <3>2, <5>1
        <4>2. CASE \E d \in Editors : command[d].on = m
          BY <2>1, <2>2, <3>1, <4>1, <4>2 DEF Paid
        <4>3. CASE ~\E d \in Editors : command[d].on = m
          <5>1. Risky(m) = {} /\ ~Approving(m) /\ draft[m] = "pending"
            BY <1>2, <2>3, <3>2, <4>3 DEF Risky, Risks, Approving
          <5>2. Owes(m) = 1 /\ Cardinality(Risky(m)) = 0
            BY <5>1, FS_EmptySet DEF Owes, Waits
          <5>3. QED
            BY <2>1, <2>2, <3>1, <4>1, <4>3, <5>2 DEF Paid
        <4>4. QED
          BY <4>2, <4>3
      <3>3. CASE ~Risks(c, m)'
        <4>1. Risky(m)' = Risky(m)
          BY <2>3, <2>4, <3>3
        <4>2. Approving(m)' <=> Approving(m)
          BY <2>1, <2>3, <3>3 DEF Approving, Risks
        <4>3. Owes(m)' = Owes(m)
          BY <2>1, <4>1, <4>2 DEF Owes, Waits
        <4>4. slips'[m] \in {slips[m], slips[m] + 1}
          BY <2>2
        <4>5. QED
          BY <2>1, <3>1, <4>3, <4>4 DEF Paid
      <3>4. QED
        BY <3>2, <3>3
    <2>9. QED
      BY <2>5, <2>6, <2>7, <2>8 DEF DraftsInv
  <1>3. ASSUME NEW c \in Editors, NEW m \in Replies, BeginApprove(c, m) \/ BeginReject(c, m) \/ BeginEdit(c, m)
        PROVE  DraftsInv'
    BY <1>2, <1>3 DEF BeginApprove, BeginReject, BeginEdit, Approves
  \* A command that goes on or ends on its reply.
  <1>4. ASSUME NEW c \in Editors, NEW m \in Replies, command[c].on = m, command[c].at # "rest", NEW state,
               command' = [command EXCEPT ![c] = state],
               state = CommandAtRest \/ (state.at \in {"sent", "failed"} /\ state.on = m
                                         /\ state.read = command[c].read /\ state \in
                                 [at : {"rest", "sending", "sent", "failed", "rejecting", "editing"},
                                on : Replies \cup {NoReply}, read : DraftStates]),
               draft' \in [Replies -> DraftStates], draft'[m] # "none",
               mailed' \in [Replies -> Nat], slips' \in [Replies -> 0..MaxSlips],
               \A n \in Replies : n # m =>
                   draft'[n] = draft[n] /\ mailed'[n] = mailed[n] /\ slips'[n] = slips[n],
               mailed'[m] + Owes(m)' + slips[m] <= mailed[m] + Owes(m) + slips'[m]
        PROVE  DraftsInv'
    <2>1. command'[c] = state /\ \A d \in Editors : d # c => command'[d] = command[d]
      BY <1>0, <1>4 DEF EmailDraftsTypeOK
    <2>2. state.on \in {m, NoReply} /\ (state.at = "rest" <=> state.on = NoReply)
      BY <1>0, <1>4 DEF CommandAtRest
    <2>3. EmailDraftsTypeOK'
      <3>1. CommandAtRest \in [at : {"rest", "sending", "sent", "failed", "rejecting", "editing"},
                               on : Replies \cup {NoReply}, read : DraftStates]
        BY DEF CommandAtRest, DraftStates
      <3>2. QED
        BY <1>0, <1>4, <3>1 DEF EmailDraftsTypeOK
    <2>4. CommandsSound'
      <3>1. ASSUME NEW d \in Editors, d # c, command[d].at # "rest"
            PROVE  draft'[command[d].on] # "none"
        <4>1. command[d].on \in Replies /\ draft[command[d].on] # "none"
          BY <1>0, <3>1 DEF CommandsSound, EmailDraftsTypeOK
        <4>2. QED
          BY <1>4, <4>1
      <3>2. state.at # "rest" => state.on = m /\ state.read # "none"
        BY <1>0, <1>4 DEF CommandsSound, CommandAtRest
      <3>3. \A d \in Editors : d # c =>
               /\ command[d].at = "rest" <=> command[d].on = NoReply
               /\ command[d].at # "rest" => command[d].read # "none"
        BY <1>0 DEF CommandsSound
      <3>4. QED
        BY <1>4, <2>1, <2>2, <3>1, <3>2, <3>3 DEF CommandsSound
    <2>5. \A n \in Replies : n # m => Paid(n)'
      BY <1>4, <2>2, OthersArePaid
    <2>6. Paid(m)'
      <3>1. /\ Owes(m) \in Nat /\ mailed[m] \in Nat /\ slips[m] \in Nat /\ Paid(m)
            /\ mailed'[m] \in Nat /\ slips'[m] \in Nat
        BY <1>0, <1>4, OwesNumber DEF DraftsInv, EmailDraftsTypeOK
      <3>2. Owes(m)' \in Nat
        <4>1. Cardinality(Risky(m)') \in Nat
          <5>1. IsFiniteSet(Risky(m)') 
            <6>1. IsFiniteSet(Editors) /\ Risky(m)' \in SUBSET Editors
              BY EmailDraftsAssumption DEF EmailDraftsAssumption, Risky
            <6>2. QED
              BY <6>1, FS_Subset
          <5>2. QED
            BY <5>1, FS_CardinalityType
        <4>2. QED
          BY <4>1 DEF Owes
      <3>3. QED
        BY <1>4, <3>1, <3>2 DEF Paid
    <2>7. QED
      BY <2>3, <2>4, <2>5, <2>6 DEF DraftsInv
  <1>5. ASSUME NEW c \in Editors, Send(c) PROVE DraftsInv'
    <2>1. command[c].at = "sending" /\ command[c].on \in Replies /\ UNCHANGED <<draft, slips>>
      BY <1>0, <1>5 DEF Send, EmailDraftsTypeOK, CommandsSound
    <2>2. PICK m \in Replies : m = command[c].on
      BY <2>1
    <2>3. PICK at \in {"sent", "failed"}, out \in BOOLEAN :
              /\ command' = [command EXCEPT ![c].at = at]
              /\ mailed' = IF out THEN [mailed EXCEPT ![m] = @ + 1] ELSE mailed
      BY <1>5, <2>2 DEF Send
    <2> DEFINE state == [command[c] EXCEPT !.at = at]
    <2>4. /\ command' = [command EXCEPT ![c] = state] /\ state.at = at /\ state.on = m
          /\ state.read = command[c].read
          /\ state \in [at : {"rest", "sending", "sent", "failed", "rejecting", "editing"},
                        on : Replies \cup {NoReply}, read : DraftStates]
      BY <1>0, <2>2, <2>3 DEF EmailDraftsTypeOK
    <2> HIDE DEF state
    <2>5. /\ command'[c] = state
          /\ ~Risks(c, m)' => Risky(m)' = Risky(m) \ {c}
          /\ Cardinality(Risky(m) \ {c}) = IF Risks(c, m) THEN Cardinality(Risky(m)) - 1
                                           ELSE Cardinality(Risky(m))
      BY <2>4, OneRisks
    <2>6. Risks(c, m) /\ ~Risks(c, m)' /\ Approving(m)'
      BY <2>1, <2>2, <2>4, <2>5 DEF Risks, Approving
    <2>7. Owes(m)' = Owes(m) - 1
      <3>1. Owes(m) = Cardinality(Risky(m))
        BY <2>6 DEF Owes, Risky
      <3>2. Risky(m)' = {} => Owes(m)' = 0 /\ Cardinality(Risky(m) \ {c}) = 0
        BY <2>5, <2>6, FS_EmptySet DEF Owes, Waits
      <3>3. Risky(m)' # {} => Owes(m)' = Cardinality(Risky(m) \ {c})
        BY <2>5, <2>6 DEF Owes
      <3>4. Cardinality(Risky(m) \ {c}) = Cardinality(Risky(m)) - 1
        BY <2>5, <2>6
      <3>5. QED
        BY <3>1, <3>2, <3>3, <3>4
    <2>8. /\ mailed' \in [Replies -> Nat] /\ mailed'[m] <= mailed[m] + 1
          /\ \A n \in Replies : n # m => mailed'[n] = mailed[n]
      BY <1>0, <2>3 DEF EmailDraftsTypeOK
    <2>9. mailed'[m] + Owes(m)' + slips[m] <= mailed[m] + Owes(m) + slips'[m]
      <3>1. Owes(m) \in Nat /\ mailed[m] \in Nat /\ slips[m] \in Nat /\ mailed'[m] \in Nat
        BY <1>0, <2>8, OwesNumber DEF EmailDraftsTypeOK
      <3>2. QED
        BY <2>1, <2>7, <2>8, <3>1
    <2>10. draft' \in [Replies -> DraftStates] /\ draft'[m] # "none" /\ slips' \in [Replies -> 0..MaxSlips]
      BY <1>0, <2>1, <2>2 DEF EmailDraftsTypeOK, CommandsSound
    <2>11. QED
      BY <1>4, <2>1, <2>2, <2>4, <2>8, <2>9, <2>10
  <1>6. ASSUME NEW c \in Editors, WriteDraft(c) PROVE DraftsInv'
    <2>1. command[c].at \in {"sent", "failed", "rejecting", "editing"} /\ command[c].on \in Replies
      BY <1>0, <1>6 DEF WriteDraft, EmailDraftsTypeOK, CommandsSound
    <2>2. PICK m \in Replies : m = command[c].on
      BY <2>1
    <2>3. PICK text \in DraftStates :
              /\ draft' = [draft EXCEPT ![m] = text] /\ text # "none"
              /\ text = "pending" => command[c].at = "editing" /\ command[c].read = "pending"
      <3>1. command[c].read \in DraftStates /\ command[c].read # "none"
        BY <1>0, <2>1 DEF EmailDraftsTypeOK, CommandsSound
      <3>2. CASE command[c].at = "rejecting"
        <4>1. draft' = [draft EXCEPT ![m] = "rejected"]
          BY <1>6, <2>2, <3>2 DEF WriteDraft
        <4>2. QED
          BY <4>1 DEF DraftStates
      <3>3. CASE command[c].at = "editing"
        <4>1. draft' = [draft EXCEPT ![m] = command[c].read]
          BY <1>6, <2>2, <3>3 DEF WriteDraft
        <4>2. QED
          BY <3>1, <3>3, <4>1
      <3>4. CASE command[c].at \in {"sent", "failed"}
        <4>1. draft' = [draft EXCEPT ![m] = command[c].at]
          BY <1>6, <2>2, <3>4 DEF WriteDraft
        <4>2. QED
          BY <3>4, <4>1 DEF DraftStates
      <3>5. QED
        BY <2>1, <3>2, <3>3, <3>4
    <2>4. command' = [command EXCEPT ![c] = CommandAtRest] /\ UNCHANGED <<mailed, slips>>
      BY <1>6 DEF WriteDraft
    <2>5. /\ command'[c] = CommandAtRest
          /\ ~Risks(c, m)' => Risky(m)' = Risky(m) \ {c}
          /\ Cardinality(Risky(m) \ {c}) = IF Risks(c, m) THEN Cardinality(Risky(m)) - 1
                                           ELSE Cardinality(Risky(m))
      BY <2>4, OneRisks
    <2>6. ~Risks(c, m)'
      BY <2>5 DEF Risks, CommandAtRest
    <2>7. Owes(m)' <= Owes(m) /\ Owes(m)' \in Nat
      <3>1. /\ Owes(m) \in Nat /\ Cardinality(Risky(m)) \in Nat /\ Owes(m) >= Cardinality(Risky(m))
            /\ Risky(m) # {} => Cardinality(Risky(m)) > 0
        BY OwesNumber
      <3>2. CASE Risky(m)' # {}
        <4>1. Owes(m)' = Cardinality(Risky(m) \ {c}) /\ Risky(m) # {}
          BY <2>5, <2>6, <3>2 DEF Owes
        <4>2. QED
          BY <2>5, <3>1, <4>1
      <3>3. CASE Risky(m)' = {} /\ draft'[m] = "pending"
        <4>1. Risks(c, m)
          BY <1>0, <2>2, <2>3, <3>3 DEF EmailDraftsTypeOK, Risks
        <4>2. Risky(m) # {}
          BY <4>1 DEF Risky
        <4>3. Owes(m)' \in {0, 1}
          BY <3>3 DEF Owes
        <4>4. QED
          BY <3>1, <4>2, <4>3
      <3>4. CASE Risky(m)' = {} /\ draft'[m] # "pending"
        <4>1. draft'[m] # "none"
          BY <1>0, <2>3 DEF EmailDraftsTypeOK
        <4>2. Owes(m)' = 0
          BY <3>4, <4>1 DEF Owes, Waits
        <4>3. QED
          BY <3>1, <4>2
      <3>5. QED
        BY <3>2, <3>3, <3>4
    <2>8. mailed'[m] + Owes(m)' + slips[m] <= mailed[m] + Owes(m) + slips'[m]
      <3>1. Owes(m) \in Nat /\ mailed[m] \in Nat /\ slips[m] \in Nat
        BY <1>0, OwesNumber DEF EmailDraftsTypeOK
      <3>2. QED
        BY <2>4, <2>7, <3>1
    <2>9. /\ draft' \in [Replies -> DraftStates] /\ draft'[m] # "none"
          /\ \A n \in Replies : n # m => draft'[n] = draft[n]
          /\ mailed' \in [Replies -> Nat] /\ slips' \in [Replies -> 0..MaxSlips]
      BY <1>0, <2>3, <2>4 DEF EmailDraftsTypeOK
    <2>10. command[c].at # "rest"
      BY <2>1
    <2>11. QED
      BY <1>4, <2>2, <2>4, <2>8, <2>9, <2>10
  <1>7. ASSUME NEW c \in Editors, CommandKilled(c) PROVE DraftsInv'
    <2>1. /\ command[c].at # "rest" /\ command[c].on \in Replies /\ UNCHANGED <<draft, mailed>>
          /\ command' = [command EXCEPT ![c] = CommandAtRest]
      BY <1>0, <1>7 DEF CommandKilled, EmailDraftsTypeOK, CommandsSound
    <2>2. PICK m \in Replies : m = command[c].on
      BY <2>1
    <2>3. /\ slips' \in [Replies -> 0..MaxSlips] /\ slips'[m] = slips[m] + 1
          /\ \A n \in Replies : n # m => slips'[n] = slips[n]
      BY <1>0, <1>7, <2>2, Slips DEF CommandKilled
    <2>4. /\ command'[c] = CommandAtRest
          /\ ~Risks(c, m)' => Risky(m)' = Risky(m) \ {c}
          /\ Cardinality(Risky(m) \ {c}) = IF Risks(c, m) THEN Cardinality(Risky(m)) - 1
                                           ELSE Cardinality(Risky(m))
      BY <2>1, OneRisks
    <2>5. ~Risks(c, m)'
      BY <2>4 DEF Risks, CommandAtRest
    <2>6. Owes(m)' <= Owes(m) + 1 /\ Owes(m)' \in Nat
      <3>1. Owes(m) \in Nat /\ Cardinality(Risky(m)) \in Nat /\ Owes(m) >= Cardinality(Risky(m))
            /\ (Risky(m) # {} => Cardinality(Risky(m)) > 0)
        BY OwesNumber
      <3>2. Risky(m)' # {} => Owes(m)' = Cardinality(Risky(m) \ {c}) /\ Risky(m) # {}
        BY <2>4, <2>5 DEF Owes
      <3>3. Risky(m)' = {} => Owes(m)' \in {0, 1}
        BY DEF Owes
      <3>4. QED
        BY <2>4, <3>1, <3>2, <3>3
    <2>7. mailed'[m] + Owes(m)' + slips[m] <= mailed[m] + Owes(m) + slips'[m]
      <3>1. Owes(m) \in Nat /\ mailed[m] \in Nat /\ slips[m] \in Nat
        BY <1>0, OwesNumber DEF EmailDraftsTypeOK
      <3>2. QED
        BY <2>1, <2>3, <2>6, <3>1
    <2>8. draft' \in [Replies -> DraftStates] /\ draft'[m] # "none" /\ mailed' \in [Replies -> Nat]
      BY <1>0, <2>1, <2>2 DEF EmailDraftsTypeOK, CommandsSound
    <2>9. QED
      BY <1>4, <2>1, <2>2, <2>3, <2>7, <2>8
  <1>8. ASSUME UNCHANGED emailDraftsVars PROVE DraftsInv'
    <2>1. \A m \in Replies : Risky(m)' = Risky(m) /\ (Approving(m)' <=> Approving(m))
      BY <1>8 DEF emailDraftsVars, Risky, Risks, Approving
    <2>2. \A m \in Replies : Owes(m)' = Owes(m)
      BY <1>8, <2>1 DEF emailDraftsVars, Owes, Waits
    <2>3. QED
      BY <1>8, <2>2 DEF emailDraftsVars, DraftsInv, EmailDraftsTypeOK, CommandsSound, Paid
  <1>9. QED
    BY <1>1, <1>3, <1>5, <1>6, <1>7, <1>8 DEF EmailDraftsNext

LEMMA DraftsKept == DraftsInv => DraftSentOnce
  <1>1. \A m \in Replies : Owes(m) \in Nat
    BY OwesNumber
  <1>2. QED
    BY <1>1 DEF DraftsInv, EmailDraftsTypeOK, Paid, DraftSentOnce

\* A reply to an external sender goes out once, and once more for each second draft
\* of it, killed command and crossing of two commands, for any number of replies and
\* of commands (enqueue_draft, update_draft, draft approve).
THEOREM DraftsGoOnce == EmailDraftsSpec => []DraftSentOnce
  BY DraftsInitially, DraftsStay, DraftsKept, PTL DEF EmailDraftsSpec

-----------------------------------------------------------------------------
(* Telegram: what is in the chat of a reply that is sent in parts. *)

\* The numbers up to n; an end that counts up to n.
Counts(s, n) == s \in Seq(Nat) /\ Len(s) = n /\ \A i \in 1..n : s[i] = i
EndsWith(s, n) == s \in Seq(Nat) /\ Len(s) >= n /\ \A j \in 1..n : s[Len(s) - n + j] = j

LEMMA OneMoreSaid ==
    ASSUME NEW s \in Seq(Nat), NEW n \in Nat
    PROVE  /\ Append(s, n + 1) \in Seq(Nat)
           /\ Counts(s, n) => Counts(Append(s, n + 1), n + 1)
           /\ EndsWith(s, n) => EndsWith(Append(s, n + 1), n + 1)
  <1> DEFINE longer == Append(s, n + 1)
  <1>1. /\ longer \in Seq(Nat) /\ Len(longer) = Len(s) + 1 /\ Len(s) \in Nat
        /\ longer[Len(s) + 1] = n + 1 /\ \A i \in 1..Len(s) : longer[i] = s[i]
    OBVIOUS
  <1> HIDE DEF longer
  <1>2. ASSUME Counts(s, n) PROVE Counts(longer, n + 1)
    <2>1. \A i \in 1..(n + 1) : i \in 1..n \/ i = n + 1
      OBVIOUS
    <2>2. QED
      BY <1>1, <1>2, <2>1 DEF Counts
  <1>3. ASSUME EndsWith(s, n) PROVE EndsWith(longer, n + 1)
    <2>1. Len(longer) >= n + 1
      BY <1>1, <1>3 DEF EndsWith
    <2>2. ASSUME NEW j \in 1..(n + 1)
          PROVE  longer[Len(longer) - (n + 1) + j] = j
      <3>1. Len(longer) - (n + 1) + j = Len(s) - n + j
        BY <1>1
      <3>2. CASE j = n + 1
        <4>1. Len(s) - n + j = Len(s) + 1
          BY <1>1, <3>2
        <4>2. QED
          BY <1>1, <3>1, <3>2, <4>1
      <3>3. CASE j # n + 1
        <4>1. j \in 1..n /\ Len(s) - n + j \in 1..Len(s)
          BY <1>1, <1>3, <3>3 DEF EndsWith
        <4>2. QED
          BY <1>1, <1>3, <3>1, <4>1 DEF EndsWith
      <3>4. QED
        BY <3>2, <3>3
    <2>3. QED
      BY <1>1, <2>1, <2>2 DEF EndsWith
  <1>4. QED
    BY <1>1, <1>2, <1>3 DEF longer

LEMMA WholeIsSaid ==
    ASSUME NEW n \in Nat \ {0}, NEW s \in Seq(Nat), EndsWith(s, n)
    PROVE  IsSuffix([i \in 1..n |-> i], s)
  <1> DEFINE all == [i \in 1..n |-> i]
  <1>1. all \in Seq(Nat) /\ Len(all) = n /\ \A i \in 1..n : all[i] = i
    OBVIOUS
  <1> HIDE DEF all
  <1>2. s \in Seq(Nat) /\ Len(s) >= n /\ \A j \in 1..n : s[Len(s) - n + j] = j
    BY DEF EndsWith
  <1>3. ASSUME NEW t \in Seq(Nat)
        PROVE  /\ Len(Reverse(t)) = Len(t) /\ Reverse(t) \in Seq(Nat)
               /\ \A i \in 1..Len(t) : Reverse(t)[i] = t[(Len(t) - i) + 1]
    <2>1. \A i \in 1..Len(t) : (Len(t) - i) + 1 \in 1..Len(t)
      OBVIOUS
    <2>2. \A i \in 1..Len(t) : t[(Len(t) - i) + 1] \in Nat
      BY <2>1
    <2>3. Reverse(t) = [i \in 1..Len(t) |-> t[(Len(t) - i) + 1]]
      BY DEF Reverse
    <2>4. Reverse(t) \in [1..Len(t) -> Nat]
      BY <2>2, <2>3
    <2>5. Reverse(t) \in Seq(Nat) /\ Len(Reverse(t)) = Len(t)
      BY <2>4
    <2>6. QED
      BY <2>3, <2>5
  <1>4. /\ Len(Reverse(all)) = n /\ Reverse(all) \in Seq(Nat)
        /\ Len(Reverse(s)) = Len(s) /\ Reverse(s) \in Seq(Nat)
    BY <1>1, <1>2, <1>3
  <1>5. ASSUME NEW i \in 1..n PROVE Reverse(s)[i] = Reverse(all)[i]
    <2>1. /\ n - i + 1 \in 1..n /\ i \in 1..Len(s)
          /\ Len(s) - n + (n - i + 1) = (Len(s) - i) + 1
      BY <1>2
    <2>2. s[Len(s) - n + (n - i + 1)] = n - i + 1
      BY <1>2, <2>1
    <2>3. Reverse(s)[i] = n - i + 1
      BY <1>2, <1>3, <2>1, <2>2
    <2>4. Reverse(all)[i] = n - i + 1
      <3>1. Reverse(all)[i] = all[(Len(all) - i) + 1]
        BY <1>1, <1>3
      <3>2. (Len(all) - i) + 1 = n - i + 1
        BY <1>1
      <3>3. all[n - i + 1] = n - i + 1
        BY <1>1, <2>1
      <3>4. QED
        BY <3>1, <3>2, <3>3
    <2>5. QED
      BY <2>3, <2>4
  <1>6. SubSeq(Reverse(all), 1, n) = SubSeq(Reverse(s), 1, n)
    BY <1>2, <1>4, <1>5
  <1>7. QED
    BY <1>2, <1>4, <1>6 DEF IsSuffix, IsPrefix, all

LEMMA BeginningIsSaid ==
    ASSUME NEW n \in 0..answer.parts, Counts(said, n), answer.parts \in Nat
    PROVE  IsPrefix(said, Text)
  <1>1. Text \in Seq(Nat) /\ Len(Text) = answer.parts /\ \A i \in 1..answer.parts : Text[i] = i
    BY DEF Text
  <1>2. said \in Seq(Nat) /\ Len(said) = n /\ \A i \in 1..n : said[i] = i
    BY DEF Counts
  <1>3. SubSeq(said, 1, n) = SubSeq(Text, 1, n)
    BY <1>1, <1>2
  <1>4. QED
    BY <1>1, <1>2, <1>3 DEF IsPrefix


\* The fields of a send, one by one.
SendTyped ==
    /\ answer.parts \in Nat \ {0}
    /\ DOMAIN call = {"via", "part", "plain", "posts"}
    /\ call.via \in {"none", "live", "stateless"} /\ call.part \in 0..answer.parts
    /\ call.posts \in 0..(MaxPosts - 1)
    /\ call.via = "none" => call = NoCall
    /\ call.via # "none" => reservation = "sending"
    /\ said \in Seq(Nat)

\* The parts before the one that a send is at are the last of the chat; without a
\* doubt they are all of it, and nothing is there when the reply may be claimed.
Begun ==
    /\ call # NoCall /\ call.part # Voice => EndsWith(said, call.part - 1)
    /\ doubts = {} /\ call # NoCall =>
          Counts(said, IF call.part = Voice THEN 0 ELSE call.part - 1)
    /\ doubts = {} /\ call = NoCall /\ reservation = "none" => Counts(said, 0)
    /\ doubts = {} /\ call = NoCall =>
          said = <<Voice>> \/ \E n \in 0..answer.parts : Counts(said, n)

SendInv == SendTyped /\ Begun /\ SentWhole

LEMMA NothingSaid ==
    ASSUME NEW s \in Seq(Nat)
    PROVE  EndsWith(s, 0) /\ (Counts(s, 0) => s = <<>>) /\ Counts(<<>>, 0)
  BY DEF Counts, EndsWith

\* A send that starts: at the voice if there is one, at the text after it.
LEMMA Openings ==
    ASSUME NEW via \in {"live", "stateless"}
    PROVE  /\ NoCall.via = "none" /\ NoCall.part = 1 /\ NoCall.posts = 0
           /\ DOMAIN NoCall = {"via", "part", "plain", "posts"}
           /\ LET text == [NoCall EXCEPT !.via = via]
              IN  /\ text.via = via /\ text.part = 1 /\ text.posts = 0 /\ text # NoCall
                  /\ DOMAIN text = {"via", "part", "plain", "posts"}
           /\ Opening(via).via = via /\ Opening(via).posts = 0 /\ Opening(via) # NoCall
           /\ Opening(via).part \in {Voice, 1}
           /\ DOMAIN Opening(via) = {"via", "part", "plain", "posts"}
  <1>1. /\ NoCall.via = "none" /\ NoCall.part = 1 /\ NoCall.posts = 0
        /\ DOMAIN NoCall = {"via", "part", "plain", "posts"}
    BY DEF NoCall
  <1>2. LET text == [NoCall EXCEPT !.via = via]
        IN  /\ text.via = via /\ text.part = 1 /\ text.posts = 0
            /\ DOMAIN text = {"via", "part", "plain", "posts"}
    BY <1>1
  <1>3. /\ Opening(via).via = via /\ Opening(via).posts = 0
        /\ Opening(via).part = IF answer.voice THEN Voice ELSE 1
        /\ DOMAIN Opening(via) = {"via", "part", "plain", "posts"}
    BY <1>1 DEF Opening
  <1>4. QED
    BY <1>1, <1>2, <1>3

LEMMA SendInitially == SendInit => SendInv
  <1> SUFFICES ASSUME SendInit
               PROVE  SendInv
    OBVIOUS
  <1>1. answer.parts \in Nat \ {0}
    <2>1. PICK n \in 1..MaxParts : answer.parts = n
      BY DEF SendInit
    <2>2. QED
      BY <2>1, SendAssumption DEF SendAssumption
  <1>2. SendTyped
    BY <1>1, Openings, SendAssumption DEF SendAssumption, SendInit, SendTyped
  <1>3. Counts(said, 0) /\ 0 \in 0..answer.parts
    <2>1. said = <<>>
      BY DEF SendInit
    <2>2. Counts(said, 0)
      BY <2>1 DEF Counts
    <2>3. QED
      BY <1>1, <2>2
  <1>4. Begun /\ SentWhole
    BY <1>3 DEF SendInit, Begun, SentWhole
  <1>5. QED
    BY <1>2, <1>4 DEF SendInv

\* A call that fails ends the send, or it goes on from the beginning.
LEMMA Failures ==
    ASSUME SendTyped, call # NoCall, NEW proof \in BOOLEAN, AfterFailure(proof)
    PROVE  /\ DOMAIN call' = {"via", "part", "plain", "posts"} /\ call'.posts = 0
           /\ \/ /\ call'.via \in {"live", "stateless"} /\ call' # NoCall
                 /\ call'.part \in {Voice, 1} /\ reservation' = reservation
                 /\ call.part = Voice \/ (call.via = "live" /\ proof)
              \/ /\ call' = NoCall /\ call.part # Voice /\ call'.part = 1
                 /\ reservation' = IF call.via = "stateless" THEN "none" ELSE reservation
                 /\ call'.via = "none"
  <1>1. call.via \in {"live", "stateless"} /\ "stateless" \in {"live", "stateless"}
    BY DEF SendTyped
  <1>2. CASE call.part = Voice
    BY <1>1, <1>2, Openings DEF AfterFailure
  <1>3. CASE call.part # Voice /\ call.via = "live" /\ proof
    BY <1>1, <1>3, Openings DEF AfterFailure
  <1>4. CASE call.part # Voice /\ ~(call.via = "live" /\ proof)
    BY <1>1, <1>4, Openings DEF AfterFailure
  <1>5. QED
    BY <1>2, <1>3, <1>4

\* It leaves the chat with what the next call, or the next claim, relies on.
LEMMA FailedSends ==
    ASSUME SendInv, call # NoCall, NEW proof \in BOOLEAN, AfterFailure(proof),
           NEW got \in BOOLEAN, said' = IF got THEN Append(said, call.part) ELSE said,
           answer' = answer, doubts \subseteq doubts',
           got /\ (call.part = Voice \/ call.via = "stateless" \/ proof) => doubts' # {},
           call.part > 1 /\ (call.via = "stateless" \/ proof) => doubts' # {}
    PROVE  SendInv'
  <1> USE DEF Voice
  <1>1. /\ answer.parts \in Nat \ {0} /\ call.via \in {"live", "stateless"}
        /\ reservation = "sending" /\ said \in Seq(Nat)
        /\ call.part \in 0..answer.parts /\ call.part \in Nat
    BY DEF SendInv, SendTyped
  <1>2. /\ DOMAIN call' = {"via", "part", "plain", "posts"} /\ call'.posts = 0
        /\ \/ /\ call'.via \in {"live", "stateless"} /\ call' # NoCall
              /\ call'.part \in {Voice, 1} /\ reservation' = reservation
              /\ call.part = Voice \/ (call.via = "live" /\ proof)
           \/ /\ call' = NoCall /\ call.part # Voice /\ call'.part = 1
              /\ reservation' = IF call.via = "stateless" THEN "none" ELSE reservation
              /\ call'.via = "none"
    BY Failures DEF SendInv
  <1>3. said' \in Seq(Nat)
    BY <1>1
  <1>4. SendTyped'
    <2>1. 0 \in 0..(MaxPosts - 1)
      BY SendAssumption DEF SendAssumption
    <2>2. QED
      BY <1>1, <1>2, <1>3, <2>1 DEF SendTyped
  <1>5. ASSUME doubts' = {}
        PROVE  doubts = {} /\ Counts(said, IF call.part = Voice THEN 0 ELSE call.part - 1)
    BY <1>5 DEF SendInv, Begun
  <1>6. CASE call' # NoCall
    <2>1. EndsWith(said', 0) /\ call'.part \in {0, 1}
      BY <1>2, <1>3, <1>6, NothingSaid
    <2>2. ASSUME doubts' = {} PROVE Counts(said', 0)
      <3>1. ~got
        BY <1>2, <1>6, <2>2
      <3>2. call.part \in {0, 1}
        BY <1>1, <1>2, <1>6, <2>2
      <3>3. QED
        BY <1>5, <2>2, <3>1, <3>2
    <2>3. Begun'
      BY <1>6, <2>1, <2>2 DEF Begun
    <2>4. QED
      BY <1>1, <1>2, <1>4, <1>6, <2>3 DEF SendInv, SentWhole
  <1>7. CASE call' = NoCall
    <2>1. call.part # 0 /\ call.part - 1 \in Nat
      BY <1>1, <1>2, <1>7
    <2>2. ASSUME doubts' = {}
          PROVE  \E n \in 0..answer.parts : Counts(said', n)
      <3>1. Counts(said, call.part - 1)
        BY <1>5, <2>1, <2>2
      <3>2. CASE got
        <4>1. said' = Append(said, (call.part - 1) + 1)
          BY <1>1, <3>2
        <4>2. Counts(said', (call.part - 1) + 1)
          BY <1>1, <2>1, <3>1, <4>1, OneMoreSaid
        <4>3. (call.part - 1) + 1 \in 0..answer.parts
          BY <1>1
        <4>4. QED
          BY <4>2, <4>3
      <3>3. CASE ~got
        <4>1. call.part - 1 \in 0..answer.parts
          BY <1>1, <2>1
        <4>2. QED
          BY <3>1, <3>3, <4>1
      <3>4. QED
        BY <3>2, <3>3
    <2>3. ASSUME doubts' = {}, reservation' = "none" PROVE Counts(said', 0)
      <3>1. call.via = "stateless"
        BY <1>1, <1>2, <1>7, <2>3
      <3>2. ~got /\ call.part = 1
        BY <1>1, <2>1, <2>3, <3>1
      <3>3. QED
        BY <1>5, <2>3, <3>2
    <2>4. Begun'
      BY <1>7, <2>2, <2>3 DEF Begun
    <2>5. SentWhole'
      BY <1>1, <1>2 DEF SentWhole
    <2>6. QED
      BY <1>4, <2>4, <2>5 DEF SendInv
  <1>8. QED
    BY <1>6, <1>7

LEMMA SendStays == SendInv /\ [SendNext]_sendVars => SendInv'
  <1> SUFFICES ASSUME SendInv, [SendNext]_sendVars
               PROVE  SendInv'
    OBVIOUS
  <1> USE DEF Voice
  <1>1. /\ answer.parts \in Nat \ {0} /\ call.via \in {"none", "live", "stateless"}
        /\ call.part \in 0..answer.parts /\ call.part \in Nat /\ said \in Seq(Nat)
        /\ call.posts \in 0..(MaxPosts - 1)
        /\ DOMAIN call = {"via", "part", "plain", "posts"}
        /\ SendTyped /\ Begun /\ SentWhole
    BY DEF SendInv, SendTyped
  <1>2. call # NoCall => call.via \in {"live", "stateless"} /\ reservation = "sending"
    BY <1>1 DEF SendTyped
  <1>3. 0 \in 0..(MaxPosts - 1)
    BY SendAssumption DEF SendAssumption
  <1>4. CASE UNCHANGED sendVars
    BY <1>1, <1>4 DEF SendInv, SendTyped, Begun, SentWhole, sendVars, Text
  <1>5. CASE BeginSend
    <2>1. /\ call'.via = "live" /\ call'.posts = 0 /\ call'.part \in {0, 1}
          /\ call' # NoCall /\ DOMAIN call' = {"via", "part", "plain", "posts"}
          /\ reservation' = "sending" /\ UNCHANGED <<answer, said, doubts>>
          /\ reservation = "none" /\ call = NoCall
      BY <1>5, Openings DEF BeginSend
    <2>2. SendTyped'
      BY <1>1, <1>3, <2>1 DEF SendTyped
    <2>3. EndsWith(said', 0) /\ (doubts' = {} => Counts(said', 0))
      BY <1>1, <2>1, NothingSaid DEF Begun
    <2>4. Begun' /\ SentWhole'
      BY <2>1, <2>3 DEF Begun, SentWhole
    <2>5. QED
      BY <2>2, <2>4 DEF SendInv
  <1>6. CASE SenderDies
    <2>1. /\ call # NoCall /\ call' = NoCall /\ reservation = "sending"
          /\ UNCHANGED <<answer, reservation, said, doubts>>
      BY <1>2, <1>6 DEF SenderDies
    <2>2. SendTyped'
      BY <1>1, <1>3, <2>1, Openings DEF SendTyped
    <2>3. ASSUME doubts' = {} PROVE \E n \in 0..answer.parts : Counts(said, n)
      <3>1. Counts(said, IF call.part = 0 THEN 0 ELSE call.part - 1)
        BY <1>1, <2>1, <2>3 DEF Begun
      <3>2. (IF call.part = 0 THEN 0 ELSE call.part - 1) \in 0..answer.parts
        BY <1>1
      <3>3. QED
        BY <3>1, <3>2
    <2>4. Begun' /\ SentWhole'
      BY <2>1, <2>3 DEF Begun, SentWhole
    <2>5. QED
      BY <2>2, <2>4 DEF SendInv
  <1>7. CASE Accepted
    <2>1. /\ call # NoCall /\ call.via \in {"live", "stateless"} /\ reservation = "sending"
          /\ said' = Append(said, call.part) /\ UNCHANGED <<answer, doubts>>
      BY <1>2, <1>7 DEF Accepted
    <2>2. said' \in Seq(Nat)
      BY <1>1, <2>1
    <2>3. ASSUME call.part # 0
          PROVE  /\ EndsWith(said', call.part)
                 /\ doubts = {} => Counts(said', call.part)
      <3>1. call.part - 1 \in Nat /\ (call.part - 1) + 1 = call.part
        BY <1>1, <2>3
      <3>2. EndsWith(said, call.part - 1) /\ (doubts = {} => Counts(said, call.part - 1))
        BY <1>1, <2>1, <2>3 DEF Begun
      <3>3. QED
        BY <1>1, <2>1, <3>1, <3>2, OneMoreSaid
    <2>4. CASE LastPart
      <3>1. call' = NoCall /\ reservation' = "sent"
        BY <1>7, <2>4 DEF Accepted
      <3>2. SendTyped'
        BY <1>1, <1>3, <2>1, <2>2, <3>1, Openings DEF SendTyped
      <3>3. CASE call.part = 0
        <4>1. Last(said') = 0
          BY <1>1, <2>1, <3>3 DEF Last
        <4>2. doubts' = {} => said' = <<0>>
          <5>1. doubts = {} => said = <<>>
            BY <1>1, <2>1, <3>3, NothingSaid DEF Begun
          <5>2. QED
            BY <2>1, <3>3, <5>1
        <4>3. QED
          BY <3>1, <3>2, <4>1, <4>2 DEF SendInv, Begun, SentWhole
      <3>4. CASE call.part # 0
        <4>1. call.part = answer.parts
          BY <2>4, <3>4 DEF LastPart
        <4>2. EndsWith(said', answer'.parts) /\ answer'.parts \in Nat \ {0}
          BY <1>1, <2>1, <2>3, <3>4, <4>1
        <4>3. IsSuffix([i \in 1..(answer'.parts) |-> i], said')
          BY <2>2, <4>2, WholeIsSaid
        <4>4. SentWhole'
          BY <4>3 DEF SentWhole, Text
        <4>5. Begun'
          BY <1>1, <2>1, <2>3, <3>1, <3>4, <4>1 DEF Begun
        <4>6. QED
          BY <3>2, <4>4, <4>5 DEF SendInv
      <3>5. QED
        BY <3>3, <3>4
    <2>5. CASE ~LastPart
      <3>1. /\ call' = [call EXCEPT !.part = call.part + 1, !.plain = FALSE, !.posts = 0]
            /\ reservation' = reservation
        BY <1>7, <2>5 DEF Accepted
      <3>2. call.part # 0 /\ call.part # answer.parts
        BY <2>5 DEF LastPart
      <3>3. /\ call'.via = call.via /\ call'.part = call.part + 1 /\ call'.posts = 0
            /\ DOMAIN call' = {"via", "part", "plain", "posts"}
        BY <1>1, <3>1
      <3>4. call.part + 1 \in 0..answer.parts /\ call.part + 1 # 0
            /\ (call.part + 1) - 1 = call.part
        BY <1>1, <3>2
      <3>5. SendTyped'
        BY <1>1, <1>3, <2>1, <2>2, <3>1, <3>3, <3>4 DEF SendTyped
      <3>6. call' # NoCall
        BY <2>1, <3>3, Openings
      <3>7. Begun' /\ SentWhole'
        BY <2>1, <2>3, <3>1, <3>2, <3>3, <3>4, <3>6 DEF Begun, SentWhole
      <3>8. QED
        BY <3>5, <3>7 DEF SendInv
    <2>6. QED
      BY <2>4, <2>5
  <1>8. CASE Throttled
    <2>1. /\ call # NoCall /\ call.via \in {"live", "stateless"} /\ reservation = "sending"
          /\ UNCHANGED <<answer, said>>
      BY <1>2, <1>8 DEF Throttled
    <2>2. CASE call.part # Voice /\ call.posts + 1 < MaxPosts
      <3>1. /\ call' = [call EXCEPT !.posts = call.posts + 1] /\ reservation' = reservation
            /\ doubts' = doubts
        BY <1>1, <1>8, <2>2, SendAssumption DEF Throttled, SendAssumption
      <3>2. /\ call'.via = call.via /\ call'.part = call.part
            /\ call'.posts = call.posts + 1
            /\ DOMAIN call' = {"via", "part", "plain", "posts"}
        BY <1>1, <3>1
      <3>3. call.posts + 1 \in 0..(MaxPosts - 1)
        BY <1>1, <2>2, SendAssumption DEF SendAssumption
      <3>4. SendTyped' /\ call' # NoCall
        BY <1>1, <2>1, <3>1, <3>2, <3>3, Openings DEF SendTyped
      <3>5. Begun' /\ SentWhole'
        BY <1>1, <2>1, <3>1, <3>2, <3>4 DEF Begun, SentWhole
      <3>6. QED
        BY <3>4, <3>5 DEF SendInv
    <2>3. CASE ~(call.part # Voice /\ call.posts + 1 < MaxPosts)
      <3>1. AfterFailure(FALSE) /\ doubts \subseteq doubts'
        BY <1>8, <2>3 DEF Throttled
      <3>2. ASSUME call.part > 1, call.via = "stateless" PROVE doubts' # {}
        <4>1. call.posts + 1 = MaxPosts
          BY <1>1, <2>3, <3>2, SendAssumption DEF SendAssumption
        <4>2. "stateless" \in doubts'
          BY <1>8, <3>2, <4>1 DEF Throttled
        <4>3. QED
          BY <4>2
      <3>3. QED
        BY <2>1, <3>1, <3>2, FailedSends
    <2>4. QED
      BY <2>2, <2>3
  <1>9. CASE Unparsed
    <2>1. /\ call.via # "none" /\ call' = [call EXCEPT !.plain = TRUE, !.posts = 0]
          /\ UNCHANGED <<answer, reservation, said, doubts>>
      BY <1>9 DEF Unparsed
    <2>2. /\ call'.via = call.via /\ call'.part = call.part /\ call'.posts = 0
          /\ DOMAIN call' = {"via", "part", "plain", "posts"}
      BY <1>1, <2>1
    <2>3. call # NoCall /\ call' # NoCall
      BY <2>1, <2>2, Openings
    <2>4. SendTyped'
      BY <1>1, <1>2, <1>3, <2>1, <2>2, <2>3 DEF SendTyped
    <2>5. Begun' /\ SentWhole'
      BY <1>1, <1>2, <2>1, <2>2, <2>3 DEF Begun, SentWhole
    <2>6. QED
      BY <2>4, <2>5 DEF SendInv
  <1>10. CASE PostRefused
    <2>1. /\ call # NoCall /\ AfterFailure(FALSE) /\ UNCHANGED <<answer, said>>
          /\ doubts \subseteq doubts'
          /\ call.part > 1 /\ call.via = "stateless" => doubts' # {}
      BY <1>10 DEF PostRefused
    <2>2. QED
      BY <2>1, FailedSends
  <1>11. CASE Unreached
    <2>1. /\ call # NoCall /\ AfterFailure(TRUE) /\ UNCHANGED <<answer, said>>
          /\ doubts \subseteq doubts' /\ (call.part > 1 => doubts' # {})
      BY <1>11 DEF Unreached
    <2>2. QED
      BY <2>1, FailedSends
  <1>12. ASSUME NEW got \in BOOLEAN, TimesOut(got) PROVE SendInv'
    <2>1. /\ call # NoCall /\ AfterFailure(FALSE) /\ UNCHANGED answer
          /\ said' = IF got THEN Append(said, call.part) ELSE said
          /\ doubts \subseteq doubts'
      BY <1>12 DEF TimesOut
    <2>2. got /\ (call.part = Voice \/ call.via = "stateless") => doubts' # {}
      BY <1>12 DEF TimesOut
    <2>3. call.part > 1 /\ call.via = "stateless" => doubts' # {}
      BY <1>12 DEF TimesOut
    <2>4. QED
      BY <2>1, <2>2, <2>3, FailedSends
  <1>13. QED
    BY <1>4, <1>5, <1>6, <1>7, <1>8, <1>9, <1>10, <1>11, <1>12 DEF SendNext

LEMMA SendKept == SendInv => ReplySentOnce
  <1> SUFFICES ASSUME SendInv
               PROVE  SentWhole /\ SaidOnce
    BY DEF ReplySentOnce
  <1>1. SentWhole /\ answer.parts \in Nat
    BY DEF SendInv, SendTyped
  <1>2. ASSUME doubts = {} PROVE said = <<Voice>> \/ \E n \in 0..answer.parts : Counts(said, n)
    <2>1. CASE call = NoCall
      BY <1>2, <2>1 DEF SendInv, Begun
    <2>2. CASE call # NoCall
      <3>1. Counts(said, IF call.part = Voice THEN 0 ELSE call.part - 1)
        BY <1>2, <2>2 DEF SendInv, Begun
      <3>2. (IF call.part = Voice THEN 0 ELSE call.part - 1) \in 0..answer.parts
        BY DEF SendInv, SendTyped, Voice
      <3>3. QED
        BY <3>1, <3>2
    <2>3. QED
      BY <2>1, <2>2
  <1>3. SaidOnce
    BY <1>1, <1>2, BeginningIsSaid DEF SaidOnce
  <1>4. QED
    BY <1>1, <1>3

\* A Telegram reply is in the chat from its first part to its last when it counts as
\* sent, and, unless something that the sender cannot know happened, no part of it is
\* there twice or out of order, whatever is throttled, refused or lost on the way.
THEOREM PartsAreSaidOnce == SendSpec => []ReplySentOnce
  BY SendInitially, SendStays, SendKept, PTL DEF SendSpec

-----------------------------------------------------------------------------
(* Commitments: the sends that a touch may still have before it. *)

\* A tick that holds a file, and one that may send it, or write it back to be sent.
Holds(t, s) == ticker[t].slug = s
Spends(t, s) == ticker[t].slug = s /\ ticker[t].at \in {"sending", "opening", "writing"}
Spenders(s) == {t \in Tickers : Spends(t, s)}

\* One for a file that no tick holds; one for a file that the task is about to add.
Held(s) == \E t \in Tickers : Holds(t, s)
Waiting(s) == IF pending[s] # Absent /\ ~Held(s) THEN 1 ELSE 0
Adding(s) == IF queuer.at = "adding" /\ queuer.slug = s THEN 1 ELSE 0

TickSteps == {"rest", "sending", "ok", "opening", "writing", "moving"}
TickerFormed(record) ==
    /\ DOMAIN record = {"at", "slug", "retries", "gives"}
    /\ record.at \in TickSteps /\ record.slug \in Slugs \cup {NoSlug}
    /\ record.at = "rest" <=> record.slug = NoSlug

CommitmentsFormed ==
    /\ DOMAIN pending = Slugs
    /\ filed \in [1..MaxSilences -> Nat] /\ sent \in [Touches -> Nat] /\ upsets \in Nat
    /\ DOMAIN ticker = Tickers /\ \A t \in Tickers : TickerFormed(ticker[t])
    /\ DOMAIN queuer = {"at", "slug"} /\ queuer.at \in {"idle", "adding", "writing"}
    /\ queuer.slug \in Touches \cup {NoSlug}
    /\ queuer.at = "idle" <=> queuer.slug = NoSlug
    /\ DOMAIN silence = {"number", "long"} /\ silence.number \in 0..MaxSilences
    /\ resetDue => ~silence.long

\* What is begun of a touch, which is nothing before its silence is long.
InPlay(s) == pending[s] # Absent \/ queuer.slug = s \/ Held(s)
Early(s) == s.silence > silence.number \/ (s.silence = silence.number /\ ~silence.long)

TouchSound(s) ==
    /\ Early(s) => sent[s] = 0 /\ ~InPlay(s)
    /\ InPlay(s) => filed[s.silence] >= s.n - 1
    /\ sent[s] + Cardinality(Spenders(s)) + Waiting(s) + Adding(s) <= 1 + upsets
    /\ s.silence = silence.number /\ pending[s] = Absent /\ Adding(s) = 0 /\ filed[s.silence] < s.n
          => sent[s] + Cardinality(Spenders(s)) <= upsets

TouchesInv == CommitmentsFormed /\ \A s \in Touches : TouchSound(s)

LEMMA TouchNumbers ==
    ASSUME CommitmentsFormed, NEW s \in Touches
    PROVE  /\ IsFiniteSet(Spenders(s)) /\ Cardinality(Spenders(s)) \in Nat
           /\ Cardinality(Spenders(s)) = 0 <=> Spenders(s) = {}
           /\ Waiting(s) \in {0, 1} /\ Adding(s) \in {0, 1}
           /\ s.silence \in 1..MaxSilences /\ s.n \in 1..MaxTouches /\ s \in Slugs
           /\ sent[s] \in Nat /\ filed[s.silence] \in Nat /\ upsets \in Nat
           /\ silence.number \in Nat /\ s # NoSlug /\ MaxTouches \in Nat /\ MaxSilences \in Nat
           /\ Spenders(s) # {} => Held(s)
  <1>1. IsFiniteSet(Spenders(s))
    <2>1. IsFiniteSet(Tickers) /\ Spenders(s) \in SUBSET Tickers
      BY CommitmentsAssumption DEF CommitmentsAssumption, Spenders
    <2>2. QED
      BY <2>1, FS_Subset
  <1>2. Cardinality(Spenders(s)) \in Nat /\ (Cardinality(Spenders(s)) = 0 <=> Spenders(s) = {})
    BY <1>1, FS_CardinalityType, FS_EmptySet
  <1>3. s.silence \in 1..MaxSilences /\ s.n \in 1..MaxTouches /\ s \in Slugs /\ s # NoSlug
    BY CommitmentsAssumption DEF CommitmentsAssumption, Touches, Slugs
  <1>4. sent[s] \in Nat /\ filed[s.silence] \in Nat /\ upsets \in Nat /\ silence.number \in Nat
    BY <1>3 DEF CommitmentsFormed
  <1>5. Waiting(s) \in {0, 1} /\ Adding(s) \in {0, 1} /\ (Spenders(s) # {} => Held(s))
    BY DEF Waiting, Adding, Spenders, Spends, Held, Holds
  <1>6. QED
    BY <1>1, <1>2, <1>3, <1>4, <1>5, CommitmentsAssumption DEF CommitmentsAssumption

LEMMA CommitmentsInitially == CommitmentsInit => TouchesInv
  <1> SUFFICES ASSUME CommitmentsInit
               PROVE  TouchesInv
    OBVIOUS
  <1>1. CommitmentsFormed
    BY CommitmentsAssumption
       DEF CommitmentsAssumption, CommitmentsInit, CommitmentsFormed, TickerFormed, TickSteps,
           Resting, Absent
  <1>2. ASSUME NEW s \in Touches PROVE TouchSound(s)
    <2>1. s \in Slugs /\ s \notin Repeating /\ s # NoSlug
      BY <1>1, TouchNumbers, CommitmentsAssumption DEF CommitmentsAssumption
    <2>2. pending[s] = Absent /\ sent[s] = 0 /\ queuer.slug = NoSlug /\ queuer.at = "idle"
      BY <2>1 DEF CommitmentsInit
    <2>3. \A t \in Tickers : ticker[t].slug = NoSlug
      BY DEF CommitmentsInit, Resting
    <2>4. ~Held(s) /\ ~InPlay(s) /\ Spenders(s) = {} /\ Waiting(s) = 0 /\ Adding(s) = 0
      BY <2>1, <2>2, <2>3 DEF Held, Holds, InPlay, Spenders, Spends, Waiting, Adding
    <2>5. Cardinality(Spenders(s)) = 0 /\ upsets \in Nat
      BY <1>1, <2>4, TouchNumbers
    <2>6. QED
      BY <2>2, <2>4, <2>5 DEF TouchSound
  <1>3. QED
    BY <1>1, <1>2 DEF TouchesInv

\* A touch that a step passes by.
LEMMA PassedBy ==
    ASSUME TouchesInv, NEW s \in Touches,
           \A t \in Tickers : (Holds(t, s)' <=> Holds(t, s)) /\ (Spends(t, s)' <=> Spends(t, s)),
           pending'[s] = pending[s], sent'[s] = sent[s], silence' = silence,
           queuer'.slug = s <=> queuer.slug = s, Adding(s)' = Adding(s),
           filed'[s.silence] \in Nat, filed'[s.silence] >= filed[s.silence],
           upsets' \in Nat, upsets' >= upsets
    PROVE  TouchSound(s)'
  <1>1. Held(s)' <=> Held(s)
    BY DEF Held
  <1>2. Spenders(s)' = Spenders(s)
    BY DEF Spenders
  <1>3. Absent' = Absent
    BY DEF Absent
  <1>4. Waiting(s)' = Waiting(s) /\ (InPlay(s)' <=> InPlay(s)) /\ (Early(s)' <=> Early(s))
    BY <1>1, <1>3 DEF Waiting, InPlay, Early
  <1>5. /\ TouchSound(s) /\ Cardinality(Spenders(s)) \in Nat /\ Waiting(s) \in {0, 1}
        /\ Adding(s) \in {0, 1} /\ s.n \in Nat /\ sent[s] \in Nat /\ filed[s.silence] \in Nat
        /\ upsets \in Nat
    <2>1. s.n \in Nat
      <3>1. s.n \in 1..MaxTouches /\ MaxTouches \in Nat
        BY TouchNumbers DEF TouchesInv
      <3>2. QED
        BY <3>1
    <2>2. QED
      BY <2>1, TouchNumbers DEF TouchesInv
  <1>6. /\ Early(s)' => sent'[s] = 0 /\ ~InPlay(s)'
        /\ InPlay(s)' => filed'[s.silence] >= s.n - 1
    BY <1>4, <1>5 DEF TouchSound
  <1>7. sent'[s] + Cardinality(Spenders(s)') + Waiting(s)' + Adding(s)' <= 1 + upsets'
    BY <1>2, <1>4, <1>5 DEF TouchSound
  <1>8. s.silence = silence'.number /\ pending'[s] = Absent' /\ Adding(s)' = 0
              /\ filed'[s.silence] < s.n
            => sent'[s] + Cardinality(Spenders(s)') <= upsets'
    BY <1>2, <1>3, <1>5 DEF TouchSound
  <1>9. QED
    BY <1>6, <1>7, <1>8 DEF TouchSound

\* The sends of a touch that a tick moves with.
LEMMA TickSpends ==
    ASSUME TouchesInv, NEW t \in Tickers, \A u \in Tickers : u # t => ticker'[u] = ticker[u],
           NEW s \in Touches
    PROVE  /\ Cardinality(Spenders(s)') \in Nat
           /\ Cardinality(Spenders(s)') = (Cardinality(Spenders(s)) + (IF Spends(t, s)' THEN 1 ELSE 0))
                                          - (IF Spends(t, s) THEN 1 ELSE 0)
  <1>1. \A u \in Tickers : u # t => (Spends(u, s)' <=> Spends(u, s))
    BY DEF Spends
  <1>2. t \in Spenders(s) <=> Spends(t, s)
    BY DEF Spenders
  <1>3. /\ Spends(t, s)' => Spenders(s)' = Spenders(s) \cup {t}
        /\ ~Spends(t, s)' => Spenders(s)' = Spenders(s) \ {t}
    BY <1>1 DEF Spenders
  <1>4. IsFiniteSet(Spenders(s)) /\ Cardinality(Spenders(s)) \in Nat
        /\ (Cardinality(Spenders(s)) = 0 <=> Spenders(s) = {})
    BY TouchNumbers DEF TouchesInv
  <1>5. Cardinality(Spenders(s) \cup {t}) = IF t \in Spenders(s) THEN Cardinality(Spenders(s))
                                            ELSE Cardinality(Spenders(s)) + 1
    BY <1>4, FS_AddElement
  <1>6. Cardinality(Spenders(s) \ {t}) = IF t \in Spenders(s) THEN Cardinality(Spenders(s)) - 1
                                         ELSE Cardinality(Spenders(s))
    BY <1>4, FS_RemoveElement
  <1>7. t \in Spenders(s) => Cardinality(Spenders(s)) > 0
    BY <1>4
  <1>8. CASE Spends(t, s)'
    BY <1>2, <1>3, <1>4, <1>5, <1>8
  <1>9. CASE ~Spends(t, s)'
    BY <1>2, <1>3, <1>4, <1>6, <1>7, <1>9
  <1>10. QED
    BY <1>8, <1>9

\* A tick's step on one file.
LEMMA TickMoves ==
    ASSUME TouchesInv, NEW t \in Tickers, NEW s0 \in Slugs,
           ticker[t].slug \in {s0, NoSlug}, ticker'[t].slug \in {s0, NoSlug},
           DOMAIN ticker' = Tickers, TickerFormed(ticker'[t]),
           \A u \in Tickers : u # t => ticker'[u] = ticker[u],
           DOMAIN pending' = Slugs, \A s \in Slugs : s # s0 => pending'[s] = pending[s],
           sent' \in [Touches -> Nat], \A s \in Touches : s # s0 => sent'[s] = sent[s],
           filed' \in [1..MaxSilences -> Nat],
           \A i \in 1..MaxSilences : filed'[i] >= filed[i],
           upsets' \in Nat, upsets' >= upsets, UNCHANGED <<queuer, silence, resetDue>>,
           s0 \in Touches => InPlay(s0),
           s0 \in Touches => sent'[s0] + Cardinality(Spenders(s0)') + Waiting(s0)' + Adding(s0)
                             <= 1 + upsets',
           s0 \in Touches /\ s0.silence = silence.number /\ pending'[s0] = Absent /\ Adding(s0) = 0
                 /\ filed'[s0.silence] < s0.n
               => sent'[s0] + Cardinality(Spenders(s0)') <= upsets'
    PROVE  TouchesInv'
  <1>1. CommitmentsFormed'
    BY DEF TouchesInv, CommitmentsFormed
  <1>2. ASSUME NEW s \in Touches, s # s0 PROVE TouchSound(s)'
    <2>1. s \in Slugs /\ s # NoSlug /\ s.silence \in 1..MaxSilences
      BY TouchNumbers DEF TouchesInv
    <2>2. \A u \in Tickers : (Holds(u, s)' <=> Holds(u, s)) /\ (Spends(u, s)' <=> Spends(u, s))
      BY <1>2, <2>1 DEF Holds, Spends
    <2>3. Adding(s)' = Adding(s) /\ pending'[s] = pending[s] /\ sent'[s] = sent[s]
      BY <1>2, <2>1 DEF Adding
    <2>4. filed'[s.silence] \in Nat /\ filed'[s.silence] >= filed[s.silence]
      BY <2>1
    <2>5. QED
      BY <2>2, <2>3, <2>4, PassedBy
  <1>3. ASSUME s0 \in Touches PROVE TouchSound(s0)'
    <2>1. /\ TouchSound(s0) /\ InPlay(s0) /\ s0.silence \in 1..MaxSilences
          /\ s0.n \in 1..MaxTouches /\ filed[s0.silence] \in Nat /\ MaxTouches \in Nat
      BY <1>3, TouchNumbers DEF TouchesInv
    <2>2. ~Early(s0)' /\ Absent' = Absent /\ Adding(s0)' = Adding(s0)
      BY <2>1 DEF TouchSound, Early, Absent, Adding
    <2>3. filed'[s0.silence] >= s0.n - 1
      <3>1. filed'[s0.silence] \in Nat /\ filed'[s0.silence] >= filed[s0.silence]
        BY <2>1
      <3>2. QED
        BY <2>1, <3>1 DEF TouchSound
    <2>4. QED
      BY <1>3, <2>2, <2>3 DEF TouchSound
  <1>4. QED
    BY <1>1, <1>2, <1>3 DEF TouchesInv

\* Where a step takes a tick.
LEMMA TickGoes ==
    ASSUME CommitmentsFormed, NEW t \in Tickers, ticker[t].at # "rest",
           NEW step \in TickSteps, step # "rest", Goto(t, step)
    PROVE  /\ DOMAIN ticker' = Tickers /\ TickerFormed(ticker'[t])
           /\ ticker'[t].at = step /\ ticker'[t].slug = ticker[t].slug
           /\ \A u \in Tickers : u # t => ticker'[u] = ticker[u]
  <1>1. DOMAIN ticker = Tickers /\ TickerFormed(ticker[t])
    BY DEF CommitmentsFormed
  <1>2. ticker' = [ticker EXCEPT ![t].at = step]
    BY DEF Goto
  <1>3. ticker'[t] = [ticker[t] EXCEPT !.at = step]
    BY <1>1, <1>2
  <1>4. /\ DOMAIN ticker'[t] = {"at", "slug", "retries", "gives"}
        /\ ticker'[t].at = step /\ ticker'[t].slug = ticker[t].slug
    BY <1>1, <1>3 DEF TickerFormed
  <1>5. QED
    BY <1>1, <1>2, <1>4 DEF TickerFormed

LEMMA TickRests ==
    ASSUME CommitmentsFormed, NEW t \in Tickers, Rests(t)
    PROVE  /\ DOMAIN ticker' = Tickers /\ TickerFormed(ticker'[t])
           /\ ticker'[t].at = "rest" /\ ticker'[t].slug = NoSlug
           /\ \A u \in Tickers : u # t => ticker'[u] = ticker[u]
  BY DEF CommitmentsFormed, Rests, Resting, TickerFormed, TickSteps

LEMMA Filing ==
    ASSUME CommitmentsFormed, NEW s \in Touches, Files(s)
    PROVE  /\ filed' \in [1..MaxSilences -> Nat] /\ filed'[s.silence] = filed[s.silence] + 1
           /\ \A i \in 1..MaxSilences : filed'[i] >= filed[i]
  <1>1. s.silence \in 1..MaxSilences /\ filed \in [1..MaxSilences -> Nat]
    BY TouchNumbers DEF CommitmentsFormed
  <1>2. QED
    BY <1>1 DEF Files

\* What a tick has before it with the file that it holds.
LEMMA Holding ==
    ASSUME TouchesInv, NEW t \in Tickers, ticker[t].at # "rest"
    PROVE  /\ ticker[t].slug \in Slugs /\ InPlay(ticker[t].slug)
           /\ ticker[t].slug \in Touches =>
                 LET s == ticker[t].slug IN
                 /\ Cardinality(Spenders(s)) \in Nat /\ Adding(s) \in {0, 1}
                 /\ sent[s] \in Nat /\ filed[s.silence] \in Nat /\ s.n \in Nat
                 /\ sent[s] + Cardinality(Spenders(s)) + Adding(s) <= 1 + upsets
                 /\ filed[s.silence] >= s.n - 1
                 /\ s.silence = silence.number /\ pending[s] = Absent /\ Adding(s) = 0
                       /\ filed[s.silence] < s.n
                    => sent[s] + Cardinality(Spenders(s)) <= upsets
  <1> DEFINE s0 == ticker[t].slug
  <1>1. s0 \in Slugs /\ Held(s0) /\ InPlay(s0)
    BY DEF TouchesInv, CommitmentsFormed, TickerFormed, Held, Holds, InPlay
  <1>2. ASSUME s0 \in Touches
        PROVE  /\ Cardinality(Spenders(s0)) \in Nat /\ Adding(s0) \in {0, 1}
               /\ sent[s0] \in Nat /\ filed[s0.silence] \in Nat /\ s0.n \in Nat
               /\ sent[s0] + Cardinality(Spenders(s0)) + Adding(s0) <= 1 + upsets
               /\ filed[s0.silence] >= s0.n - 1
               /\ s0.silence = silence.number /\ pending[s0] = Absent /\ Adding(s0) = 0
                     /\ filed[s0.silence] < s0.n
                  => sent[s0] + Cardinality(Spenders(s0)) <= upsets
    <2>1. Waiting(s0) = 0 /\ TouchSound(s0)
      BY <1>1, <1>2 DEF Waiting, TouchesInv
    <2>2. /\ Cardinality(Spenders(s0)) \in Nat /\ Adding(s0) \in {0, 1}
          /\ sent[s0] \in Nat /\ filed[s0.silence] \in Nat
          /\ s0.n \in 1..MaxTouches /\ MaxTouches \in Nat
      BY <1>2, TouchNumbers DEF TouchesInv
    <2>3. QED
      BY <1>1, <2>1, <2>2 DEF TouchSound
  <1>3. QED
    BY <1>1, <1>2

\* A step that gives up a send, or is an upset.
Pays(t, s) == (Spends(t, s) /\ ~Spends(t, s)') \/ upsets' = upsets + 1

\* A tick's step that sends nothing, on the file that it holds: it risks no more than
\* before, and a file that waits again, or is gone, is paid for.
LEMMA HeldMoves ==
    ASSUME TouchesInv, NEW t \in Tickers, NEW s0, s0 = ticker[t].slug, ticker[t].at # "rest",
           ticker'[t].slug \in {s0, NoSlug}, DOMAIN ticker' = Tickers, TickerFormed(ticker'[t]),
           \A u \in Tickers : u # t => ticker'[u] = ticker[u],
           DOMAIN pending' = Slugs, \A s \in Slugs : s # s0 => pending'[s] = pending[s],
           filed' \in [1..MaxSilences -> Nat],
           \A i \in 1..MaxSilences : filed'[i] >= filed[i],
           upsets' \in {upsets, upsets + 1}, UNCHANGED <<sent, queuer, silence, resetDue>>,
           Spends(t, s0)' => Spends(t, s0),
           s0 \in Touches /\ ~Pays(t, s0) => Waiting(s0)' = 0,
           s0 \in Touches /\ ~Pays(t, s0) /\ pending'[s0] = Absent =>
               pending[s0] = Absent \/ filed'[s0.silence] = filed[s0.silence] + 1
    PROVE  TouchesInv'
  <1>1. /\ s0 \in Slugs /\ InPlay(s0) /\ upsets \in Nat
        /\ sent \in [Touches -> Nat]
        /\ s0 \in Touches =>
              /\ Cardinality(Spenders(s0)) \in Nat /\ Adding(s0) \in {0, 1}
              /\ sent[s0] \in Nat /\ filed[s0.silence] \in Nat /\ s0.n \in Nat
              /\ sent[s0] + Cardinality(Spenders(s0)) + Adding(s0) <= 1 + upsets
              /\ filed[s0.silence] >= s0.n - 1
              /\ s0.silence = silence.number /\ pending[s0] = Absent /\ Adding(s0) = 0
                    /\ filed[s0.silence] < s0.n
                 => sent[s0] + Cardinality(Spenders(s0)) <= upsets
    BY Holding DEF TouchesInv, CommitmentsFormed
  <1>2. ASSUME s0 \in Touches
        PROVE  /\ Cardinality(Spenders(s0)') \in Nat /\ Waiting(s0)' \in {0, 1}
               /\ Cardinality(Spenders(s0)') <= Cardinality(Spenders(s0))
               /\ Spends(t, s0) /\ ~Spends(t, s0)' =>
                      Cardinality(Spenders(s0)') = Cardinality(Spenders(s0)) - 1
    <2>1. /\ Cardinality(Spenders(s0)') \in Nat
          /\ Cardinality(Spenders(s0)') = (Cardinality(Spenders(s0)) + (IF Spends(t, s0)' THEN 1 ELSE 0))
                                          - (IF Spends(t, s0) THEN 1 ELSE 0)
      BY <1>2, TickSpends
    <2>2. Waiting(s0)' \in {0, 1}
      BY DEF Waiting
    <2>3. QED
      BY <1>1, <1>2, <2>1, <2>2
  <1>3. ASSUME s0 \in Touches
        PROVE  /\ sent'[s0] + Cardinality(Spenders(s0)') + Waiting(s0)' + Adding(s0) <= 1 + upsets'
               /\ s0.silence = silence.number /\ pending'[s0] = Absent /\ Adding(s0) = 0
                     /\ filed'[s0.silence] < s0.n
                  => sent'[s0] + Cardinality(Spenders(s0)') <= upsets'
    <2>1. CASE Spends(t, s0) /\ ~Spends(t, s0)'
      <3>1. /\ Cardinality(Spenders(s0)') = Cardinality(Spenders(s0)) - 1
            /\ Waiting(s0)' \in {0, 1} /\ sent' = sent
        BY <1>2, <1>3, <2>1
      <3>2. QED
        BY <1>1, <1>3, <3>1
    <2>2. CASE upsets' = upsets + 1
      BY <1>1, <1>2, <1>3, <2>2
    <2>3. CASE ~Pays(t, s0)
      <3>1. /\ Cardinality(Spenders(s0)') \in Nat /\ Waiting(s0)' = 0 /\ sent' = sent
            /\ Cardinality(Spenders(s0)') <= Cardinality(Spenders(s0)) /\ upsets' = upsets
            /\ pending'[s0] = Absent =>
                   pending[s0] = Absent \/ filed'[s0.silence] = filed[s0.silence] + 1
        BY <1>2, <1>3, <2>3 DEF Pays
      <3>2. ~(filed[s0.silence] + 1 < s0.n)
        BY <1>1, <1>3
      <3>3. filed'[s0.silence] < s0.n => filed[s0.silence] < s0.n
        <4>1. s0.silence \in 1..MaxSilences
          BY <1>3, TouchNumbers DEF TouchesInv
        <4>2. filed'[s0.silence] \in Nat /\ filed'[s0.silence] >= filed[s0.silence]
          BY <4>1
        <4>3. QED
          BY <1>1, <1>3, <4>2
      <3>4. QED
        BY <1>1, <1>3, <3>1, <3>2, <3>3
    <2>4. QED
      BY <2>1, <2>2, <2>3 DEF Pays
  <1>4. upsets' \in Nat /\ upsets' >= upsets
    BY <1>1
  <1>5. QED
    BY <1>1, <1>3, <1>4, TickMoves

LEMMA TicksStay ==
    ASSUME TouchesInv, NEW t \in Tickers, TickStep(t)
    PROVE  TouchesInv'
  <1>0. /\ CommitmentsFormed /\ DOMAIN pending = Slugs /\ DOMAIN ticker = Tickers
        /\ TickerFormed(ticker[t]) /\ sent \in [Touches -> Nat] /\ upsets \in Nat
        /\ filed \in [1..MaxSilences -> Nat] /\ \A i \in 1..MaxSilences : filed[i] >= filed[i]
        /\ NoSlug \notin Slugs /\ Slugs = Touches \cup Repeating
        /\ \A s \in Touches : s \in Slugs /\ s \notin Repeating
    <2>1. filed \in [1..MaxSilences -> Nat] /\ CommitmentsFormed
      BY DEF TouchesInv, CommitmentsFormed
    <2>2. \A i \in 1..MaxSilences : filed[i] >= filed[i]
      BY <2>1
    <2>3. NoSlug \notin Slugs /\ \A s \in Touches : s \in Slugs /\ s \notin Repeating
      BY CommitmentsAssumption DEF CommitmentsAssumption, Slugs
    <2>4. QED
      BY <2>1, <2>2, <2>3 DEF CommitmentsFormed, Slugs
  <1>1. Torn # Absent /\ Absent' = Absent /\ \A n \in Retries : n # Absent
    BY CommitmentsAssumption DEF CommitmentsAssumption, Torn, Absent, Retries
  <1>2. CASE TickLoads(t)
    <2>1. PICK s0 \in Slugs :
             /\ Whole(s0)
             /\ ticker' = [ticker EXCEPT ![t] =
                   [at |-> "sending", slug |-> s0, retries |-> pending[s0], gives |-> FALSE]]
             /\ UpsetIf(\E u \in Tickers : ticker[u].slug = s0)
      BY <1>2 DEF TickLoads
    <2>2. /\ ticker[t].slug = NoSlug /\ pending[s0] # Absent /\ InPlay(s0)
          /\ UNCHANGED <<pending, filed, queuer, silence, resetDue, sent>>
      BY <1>0, <1>1, <1>2, <2>1 DEF TickLoads, TickerFormed, Whole, InPlay
    <2>3. /\ DOMAIN ticker' = Tickers /\ ticker'[t].at = "sending" /\ ticker'[t].slug = s0
          /\ TickerFormed(ticker'[t]) /\ \A u \in Tickers : u # t => ticker'[u] = ticker[u]
      BY <1>0, <2>1 DEF TickerFormed, TickSteps
    <2>4. upsets' = IF Held(s0) THEN upsets + 1 ELSE upsets
      BY <2>1 DEF UpsetIf, Held, Holds
    <2>5. upsets' \in Nat /\ upsets' >= upsets
      BY <1>0, <2>4
    <2>6. ASSUME s0 \in Touches
          PROVE  sent'[s0] + Cardinality(Spenders(s0)') + Waiting(s0)' + Adding(s0) <= 1 + upsets'
      <3>1. Spends(t, s0)' /\ ~Spends(t, s0) /\ Held(s0)'
        BY <1>0, <2>2, <2>3 DEF Spends, Held, Holds
      <3>2. /\ Cardinality(Spenders(s0)') = Cardinality(Spenders(s0)) + 1
            /\ Cardinality(Spenders(s0)) \in Nat /\ Adding(s0) \in {0, 1} /\ sent[s0] \in Nat
        BY <1>0, <2>3, <2>6, <3>1, TickSpends, TouchNumbers
      <3>3. Waiting(s0)' = 0 /\ Waiting(s0) = IF Held(s0) THEN 0 ELSE 1
        BY <2>2, <3>1 DEF Waiting
      <3>4. sent[s0] + Cardinality(Spenders(s0)) + Waiting(s0) + Adding(s0) <= 1 + upsets
        BY <2>6 DEF TouchesInv, TouchSound
      <3>5. QED
        BY <1>0, <2>2, <2>4, <3>2, <3>3, <3>4
    <2>7. QED
      BY <1>0, <2>2, <2>3, <2>5, <2>6, TickMoves
  <1>s. PICK s0 : s0 = ticker[t].slug
    OBVIOUS
  <1>3. ASSUME ticker[t].at # "rest"
        PROVE  /\ s0 \in Slugs /\ InPlay(s0) /\ s0 # NoSlug
               /\ s0 \in Touches =>
                     /\ Cardinality(Spenders(s0)) \in Nat /\ Adding(s0) \in {0, 1}
                     /\ sent[s0] \in Nat /\ filed[s0.silence] \in Nat /\ s0.n \in Nat
                     /\ sent[s0] + Cardinality(Spenders(s0)) + Adding(s0) <= 1 + upsets
                     /\ filed[s0.silence] >= s0.n - 1
                     /\ s0.silence = silence.number /\ pending[s0] = Absent /\ Adding(s0) = 0
                           /\ filed[s0.silence] < s0.n
                        => sent[s0] + Cardinality(Spenders(s0)) <= upsets
    BY <1>0, <1>s, <1>3, Holding
  <1>4. CASE TickSends(t)
    <2>1. /\ ticker[t].at = "sending" /\ UNCHANGED <<pending, filed, queuer, silence, resetDue, upsets>>
      BY <1>4 DEF TickSends
    <2>2. CASE /\ Goto(t, "ok")
               /\ sent' = IF s0 \in Touches THEN [sent EXCEPT ![s0] = sent[s0] + 1] ELSE sent
      <3>1. /\ DOMAIN ticker' = Tickers /\ TickerFormed(ticker'[t])
            /\ ticker'[t].at = "ok" /\ ticker'[t].slug = s0
            /\ \A u \in Tickers : u # t => ticker'[u] = ticker[u]
        BY <1>s, <1>0, <2>1, <2>2, TickGoes DEF TickSteps
      <3>2. sent' \in [Touches -> Nat] /\ \A s \in Touches : s # s0 => sent'[s] = sent[s]
        BY <1>0, <2>2
      <3>3. ASSUME s0 \in Touches
            PROVE  /\ sent'[s0] + Cardinality(Spenders(s0)') + Waiting(s0)' + Adding(s0) <= 1 + upsets'
                   /\ s0.silence = silence.number /\ pending'[s0] = Absent /\ Adding(s0) = 0
                         /\ filed'[s0.silence] < s0.n
                      => sent'[s0] + Cardinality(Spenders(s0)') <= upsets'
        <4>1. ~Spends(t, s0)' /\ Spends(t, s0) /\ Waiting(s0)' = 0
          BY <1>s, <2>1, <3>1 DEF Spends, Held, Holds, Waiting
        <4>2. /\ Cardinality(Spenders(s0)') \in Nat
              /\ Cardinality(Spenders(s0)') = Cardinality(Spenders(s0)) - 1
          BY <1>3, <2>1, <3>1, <3>3, <4>1, TickSpends
        <4>3. sent'[s0] = sent[s0] + 1
          BY <1>0, <2>2, <3>3
        <4>4. QED
          BY <1>0, <1>3, <2>1, <3>3, <4>1, <4>2, <4>3
      <3>4. QED
        BY <1>s, <1>0, <1>3, <2>1, <3>1, <3>2, <3>3, TickMoves
    <2>3. ASSUME NEW gives,
                 ticker' = [ticker EXCEPT ![t] =
                     [at |-> "opening", slug |-> s0, retries |-> ticker[t].retries + 1, gives |-> gives]],
                 UNCHANGED sent
          PROVE  TouchesInv'
      <3>1. /\ DOMAIN ticker' = Tickers /\ TickerFormed(ticker'[t])
            /\ ticker'[t].at = "opening" /\ ticker'[t].slug = s0
            /\ \A u \in Tickers : u # t => ticker'[u] = ticker[u]
        BY <1>0, <1>3, <2>1, <2>3 DEF TickerFormed, TickSteps
      <3>2. ASSUME s0 \in Touches
            PROVE  /\ sent'[s0] + Cardinality(Spenders(s0)') + Waiting(s0)' + Adding(s0) <= 1 + upsets'
                   /\ s0.silence = silence.number /\ pending'[s0] = Absent /\ Adding(s0) = 0
                         /\ filed'[s0.silence] < s0.n
                      => sent'[s0] + Cardinality(Spenders(s0)') <= upsets'
        <4>1. Spends(t, s0)' /\ Spends(t, s0) /\ Waiting(s0)' = 0
          BY <1>s, <2>1, <3>1 DEF Spends, Held, Holds, Waiting
        <4>2. Cardinality(Spenders(s0)') = Cardinality(Spenders(s0))
          BY <1>3, <2>1, <3>1, <3>2, <4>1, TickSpends
        <4>3. QED
          BY <1>0, <1>3, <2>1, <2>3, <3>2, <4>1, <4>2
      <3>3. QED
        BY <1>s, <1>0, <1>3, <2>1, <2>3, <3>1, <3>2, TickMoves
    <2>4. QED
      BY <1>s, <1>4, <2>2, <2>3 DEF TickSends

  <1>5. CASE TickArchives(t)
    <2>1. ticker[t].at = "ok" /\ UNCHANGED <<queuer, silence, resetDue, sent, upsets>>
      BY <1>5 DEF TickArchives
    <2>2. ASSUME /\ DOMAIN ticker' = Tickers /\ TickerFormed(ticker'[t])
                 /\ ticker'[t].at = "rest" /\ ticker'[t].slug = NoSlug
                 /\ \A u \in Tickers : u # t => ticker'[u] = ticker[u],
                 pending'[s0] = Absent, DOMAIN pending' = Slugs,
                 \A s \in Slugs : s # s0 => pending'[s] = pending[s],
                 filed' \in [1..MaxSilences -> Nat], \A i \in 1..MaxSilences : filed'[i] >= filed[i],
                 pending[s0] = Absent \/ filed'[s0.silence] = filed[s0.silence] + 1
          PROVE  TouchesInv'
      <3>1. ~Spends(t, s0)' /\ ~Spends(t, s0) /\ Waiting(s0)' = 0
        BY <1>1, <1>3, <2>1, <2>2 DEF Spends, Waiting
      <3>2. QED
        BY <1>s, <2>1, <2>2, <3>1, HeldMoves DEF Pays
    <2>3. CASE pending[s0] = Absent
      <3>1. Rests(t) /\ UNCHANGED <<pending, filed>>
        BY <1>s, <1>5, <2>3 DEF TickArchives
      <3>2. QED
        BY <1>0, <2>2, <2>3, <3>1, TickRests
    <2>4. CASE pending[s0] # Absent /\ s0 \in Touches
      <3>1. Rests(t) /\ pending' = [pending EXCEPT ![s0] = Absent] /\ Files(s0)
        BY <1>s, <1>0, <1>5, <2>4 DEF TickArchives
      <3>2. QED
        BY <1>0, <1>3, <2>1, <2>2, <2>4, <3>1, TickRests, Filing
    <2>5. CASE pending[s0] # Absent /\ s0 \in Repeating
      <3>1. /\ ticker' = [ticker EXCEPT ![t].at = "opening", ![t].retries = RetriesAfterSuccess(t)]
            /\ UNCHANGED <<pending, filed>>
        BY <1>s, <1>0, <1>5, <2>5 DEF TickArchives
      <3>2. ticker'[t] = [ticker[t] EXCEPT !.at = "opening", !.retries = RetriesAfterSuccess(t)]
        BY <1>0, <3>1
      <3>3. /\ DOMAIN ticker' = Tickers /\ ticker'[t].at = "opening" /\ ticker'[t].slug = s0
            /\ DOMAIN ticker'[t] = {"at", "slug", "retries", "gives"}
            /\ \A u \in Tickers : u # t => ticker'[u] = ticker[u]
        BY <1>s, <1>0, <3>1, <3>2 DEF TickerFormed
      <3>4. TickerFormed(ticker'[t])
        BY <1>0, <1>3, <2>1, <3>3 DEF TickerFormed, TickSteps
      <3>5. s0 \notin Touches
        BY <1>0, <2>5
      <3>6. QED
        BY <1>s, <1>0, <1>3, <2>1, <3>1, <3>3, <3>4, <3>5, TickMoves
    <2>6. QED
      BY <1>0, <1>3, <2>1, <2>3, <2>4, <2>5
  <1>6. CASE TickOpens(t)
    <2>1. /\ ticker[t].at = "opening" /\ Goto(t, "writing")
          /\ pending' = [pending EXCEPT ![s0] = Torn]
          /\ UNCHANGED <<filed, queuer, silence, resetDue, sent, upsets>>
      BY <1>s, <1>6 DEF TickOpens
    <2>2. /\ DOMAIN ticker' = Tickers /\ TickerFormed(ticker'[t])
          /\ ticker'[t].at = "writing" /\ ticker'[t].slug = s0
          /\ \A u \in Tickers : u # t => ticker'[u] = ticker[u]
      BY <1>s, <1>0, <2>1, TickGoes DEF TickSteps
    <2>3. Spends(t, s0)' /\ Spends(t, s0) /\ Waiting(s0)' = 0
      BY <1>s, <2>1, <2>2 DEF Spends, Held, Holds, Waiting
    <2>4. /\ DOMAIN pending' = Slugs /\ pending'[s0] # Absent
          /\ \A s \in Slugs : s # s0 => pending'[s] = pending[s]
      BY <1>0, <1>1, <1>3, <2>1
    <2>5. QED
      BY <1>s, <1>0, <2>1, <2>2, <2>3, <2>4, HeldMoves DEF Pays
  <1>7. CASE TickWrites(t)
    <2>1. /\ ticker[t].at = "writing"
          /\ pending' = [pending EXCEPT ![s0] = IF pending[s0] = Absent THEN pending[s0]
                                                ELSE ticker[t].retries]
          /\ Goto(t, "moving") \/ Rests(t)
          /\ UNCHANGED <<filed, queuer, silence, resetDue, sent, upsets>>
      BY <1>s, <1>7 DEF TickWrites
    <2>2. DOMAIN pending' = Slugs /\ \A s \in Slugs : s # s0 => pending'[s] = pending[s]
      BY <1>0, <2>1
    <2>3. /\ DOMAIN ticker' = Tickers /\ TickerFormed(ticker'[t])
          /\ ticker'[t].at \in {"moving", "rest"} /\ ticker'[t].slug \in {s0, NoSlug}
          /\ \A u \in Tickers : u # t => ticker'[u] = ticker[u]
      <3>1. "moving" \in TickSteps
        BY DEF TickSteps
      <3>2. QED
        BY <1>s, <1>0, <2>1, <3>1, TickGoes, TickRests
    <2>4. Spends(t, s0) /\ ~Spends(t, s0)'
      BY <1>s, <2>1, <2>3 DEF Spends
    <2>5. QED
      BY <1>s, <1>0, <2>1, <2>2, <2>3, <2>4, HeldMoves DEF Pays
  <1>8. CASE TickGivesUp(t)
    <2>1. /\ ticker[t].at = "moving" /\ Rests(t)
          /\ UNCHANGED <<queuer, silence, resetDue, sent, upsets>>
      BY <1>8 DEF TickGivesUp
    <2>2. /\ DOMAIN ticker' = Tickers /\ TickerFormed(ticker'[t])
          /\ ticker'[t].at = "rest" /\ ticker'[t].slug = NoSlug
          /\ \A u \in Tickers : u # t => ticker'[u] = ticker[u]
      BY <1>0, <2>1, TickRests
    <2>3. /\ pending'[s0] = Absent /\ DOMAIN pending' = Slugs
          /\ \A s \in Slugs : s # s0 => pending'[s] = pending[s]
      BY <1>s, <1>0, <1>3, <1>8, <2>1 DEF TickGivesUp
    <2>4. /\ filed' \in [1..MaxSilences -> Nat] /\ \A i \in 1..MaxSilences : filed'[i] >= filed[i]
          /\ s0 \in Touches => pending[s0] = Absent \/ filed'[s0.silence] = filed[s0.silence] + 1
      <3>1. CASE pending[s0] # Absent /\ s0 \in Touches
        BY <1>s, <1>0, <1>8, <3>1, Filing DEF TickGivesUp
      <3>2. CASE pending[s0] = Absent \/ s0 \notin Touches
        BY <1>s, <1>0, <1>8, <3>2 DEF TickGivesUp
      <3>3. QED
        BY <3>1, <3>2
    <2>5. ~Spends(t, s0)' /\ ~Spends(t, s0) /\ Waiting(s0)' = 0
      BY <1>1, <1>3, <2>1, <2>2, <2>3 DEF Spends, Waiting
    <2>6. QED
      BY <1>s, <2>1, <2>2, <2>3, <2>4, <2>5, HeldMoves DEF Pays
  <1>9. CASE TickDies(t)
    <2>1. /\ ticker[t].at # "rest" /\ Rests(t) /\ upsets' = upsets + 1
          /\ UNCHANGED <<pending, filed, queuer, silence, resetDue, sent>>
      BY <1>9 DEF TickDies, UpsetIf
    <2>2. /\ DOMAIN ticker' = Tickers /\ TickerFormed(ticker'[t])
          /\ ticker'[t].at = "rest" /\ ticker'[t].slug = NoSlug
          /\ \A u \in Tickers : u # t => ticker'[u] = ticker[u]
      BY <1>0, <2>1, TickRests
    <2>3. ~Spends(t, s0)'
      BY <1>3, <2>1, <2>2 DEF Spends
    <2>4. QED
      BY <1>s, <1>0, <2>1, <2>2, <2>3, HeldMoves DEF Pays
  <1>10. QED
    BY <1>2, <1>4, <1>5, <1>6, <1>7, <1>8, <1>9 DEF TickStep
\* The retries of a file, which a tick reads and writes back: one that is too many for
\* one more is in a file that a tick is moving away.
Moving(s) == \E t \in Tickers : ticker[t].slug = s /\ ticker[t].at = "moving"
FileFits(s) ==
    \/ pending[s] \in {Absent, Torn} \/ pending[s] \in 0..(2 + upsets)
    \/ pending[s] \in 0..(3 + upsets) /\ Moving(s)
TickFits(t) ==
    /\ ticker[t].at \in {"sending", "ok"} =>
           ticker[t].retries \in 0..(2 + upsets) /\ ~ticker[t].gives
    /\ ticker[t].at \in {"opening", "writing"} =>
           ticker[t].retries \in 0..(IF ticker[t].gives THEN 3 + upsets ELSE 2)

RetriesInv ==
    /\ upsets \in 0..MaxUpsets
    /\ \A s \in Slugs : FileFits(s)
    /\ \A t \in Tickers : TickFits(t)

LEMMA FilesFit ==
    ASSUME RetriesInv, NEW s \in Slugs
    PROVE  pending[s] \in Retries \cup {Absent, Torn} /\ Torn # Absent
           /\ \A n \in Retries : n # Absent /\ n # Torn
  <1>1. upsets \in 0..MaxUpsets /\ MaxUpsets \in Nat /\ FileFits(s)
    BY CommitmentsAssumption DEF CommitmentsAssumption, RetriesInv
  <1>2. QED
    BY <1>1 DEF FileFits, Retries, Absent, Torn

LEMMA RetriesInitially == CommitmentsInit => RetriesInv
  BY CommitmentsAssumption
     DEF CommitmentsAssumption, CommitmentsInit, RetriesInv, FileFits, TickFits, Resting

\* A step that changes the file of one slug at most, and one tick at most.
LEMMA OneFits ==
    ASSUME RetriesInv, NEW s0, NEW t0, upsets' \in upsets..MaxUpsets,
           \A s \in Slugs : s # s0 => pending'[s] = pending[s],
           \A t \in Tickers : t # t0 => ticker'[t] = ticker[t],
           t0 \in Tickers => TickFits(t0)',
           s0 \in Slugs => FileFits(s0)',
           t0 \in Tickers => (ticker[t0].slug \in {s0, NoSlug} \/ ticker[t0].at # "moving")
    PROVE  RetriesInv'
  <1>1. upsets \in Nat /\ MaxUpsets \in Nat /\ upsets' \in 0..MaxUpsets /\ upsets' >= upsets
    BY CommitmentsAssumption DEF CommitmentsAssumption, RetriesInv
  <1>2. ASSUME NEW t \in Tickers, t # t0 PROVE TickFits(t)'
    <2>1. TickFits(t) /\ ticker'[t] = ticker[t]
      BY <1>2 DEF RetriesInv
    <2>2. QED
      BY <1>1, <2>1 DEF TickFits
  <1>3. ASSUME NEW s \in Slugs, s # s0 PROVE FileFits(s)'
    <2>1. FileFits(s) /\ pending'[s] = pending[s] /\ Absent' = Absent /\ Torn' = Torn
      BY <1>3 DEF RetriesInv, Absent, Torn
    <2>2. Moving(s) => Moving(s)'
      <3>1. s # NoSlug
        BY <1>3, CommitmentsAssumption DEF CommitmentsAssumption
      <3>2. QED
        BY <1>3, <3>1 DEF Moving
    <2>3. QED
      BY <1>1, <2>1, <2>2 DEF FileFits
  <1>4. QED
    BY <1>1, <1>2, <1>3 DEF RetriesInv

LEMMA NoTickFits ==
    ASSUME RetriesInv, ticker' = ticker, upsets' \in upsets..MaxUpsets,
           \A s \in Slugs : pending'[s] \in {pending[s], Absent, Torn, 0}
    PROVE  RetriesInv'
  <1>1. upsets \in Nat /\ MaxUpsets \in Nat /\ upsets' \in 0..MaxUpsets /\ upsets' >= upsets
    BY CommitmentsAssumption DEF CommitmentsAssumption, RetriesInv
  <1>2. ASSUME NEW t \in Tickers PROVE TickFits(t)'
    <2>1. TickFits(t)
      BY DEF RetriesInv
    <2>2. QED
      BY <1>1, <2>1 DEF TickFits
  <1>3. ASSUME NEW s \in Slugs PROVE FileFits(s)'
    <2>1. FileFits(s) /\ Absent' = Absent /\ Torn' = Torn /\ (Moving(s)' <=> Moving(s))
      BY DEF RetriesInv, Absent, Torn, Moving
    <2>2. QED
      BY <1>1, <2>1 DEF FileFits
  <1>4. QED
    BY <1>1, <1>2, <1>3 DEF RetriesInv

LEMMA RetriesStay == TouchesInv /\ RetriesInv /\ [CommitmentsNext]_commitmentsVars => RetriesInv'
  <1> SUFFICES ASSUME TouchesInv, RetriesInv, [CommitmentsNext]_commitmentsVars
               PROVE  RetriesInv'
    OBVIOUS
  <1>0. /\ upsets \in 0..MaxUpsets /\ upsets \in upsets..MaxUpsets /\ MaxUpsets \in Nat
        /\ DOMAIN pending = Slugs /\ DOMAIN ticker = Tickers
        /\ \A s \in Slugs : FileFits(s)
        /\ \A t \in Tickers : TickFits(t) /\ TickerFormed(ticker[t])
        /\ NoSlug \notin Slugs /\ Absent' = Absent /\ Torn' = Torn
    <2>1. upsets \in 0..MaxUpsets /\ MaxUpsets \in Nat
      BY CommitmentsAssumption DEF CommitmentsAssumption, RetriesInv
    <2>2. upsets \in upsets..MaxUpsets
      BY <2>1
    <2>3. NoSlug \notin Slugs /\ Absent' = Absent /\ Torn' = Torn
      BY CommitmentsAssumption DEF CommitmentsAssumption, Absent, Torn
    <2>4. QED
      BY <2>1, <2>2, <2>3 DEF TouchesInv, CommitmentsFormed, RetriesInv
  <1>1. ASSUME NEW cond \in BOOLEAN, UpsetIf(cond)
        PROVE  upsets' \in upsets..MaxUpsets /\ (cond => upsets' = upsets + 1)
    BY <1>0, <1>1 DEF UpsetIf
  <1>2. ASSUME NEW t \in Tickers, TickLoads(t) PROVE RetriesInv'
    <2>1. PICK s0 \in Slugs :
             /\ Whole(s0)
             /\ ticker' = [ticker EXCEPT ![t] =
                   [at |-> "sending", slug |-> s0, retries |-> pending[s0], gives |-> FALSE]]
             /\ UpsetIf(\E u \in Tickers : ticker[u].slug = s0)
      BY <1>2 DEF TickLoads
    <2>2. ticker[t].slug = NoSlug /\ ticker[t].at = "rest" /\ pending' = pending
      BY <1>0, <1>2 DEF TickLoads, TickerFormed
    <2>3. /\ \A u \in Tickers : u # t => ticker'[u] = ticker[u]
          /\ ticker'[t].at = "sending" /\ ticker'[t].retries = pending[s0] /\ ~ticker'[t].gives
      BY <1>0, <2>1
    <2>4. /\ upsets' \in upsets..MaxUpsets
          /\ Moving(s0) => upsets' = upsets + 1
      BY <1>1, <2>1 DEF Moving
    <2>5. pending[s0] \in Nat /\ pending[s0] # Absent /\ pending[s0] # Torn
      BY <1>0, <2>1, FilesFit DEF Whole, Retries
    <2>6. pending[s0] \in 0..(2 + upsets')
      BY <1>0, <2>4, <2>5 DEF FileFits
    <2>7. TickFits(t)'
      BY <2>3, <2>6 DEF TickFits
    <2>8. FileFits(s0)'
      BY <2>2, <2>6 DEF FileFits
    <2>9. QED
      BY <2>2, <2>3, <2>4, <2>7, <2>8, OneFits
  <1>3. ASSUME NEW t \in Tickers, TickSends(t) PROVE RetriesInv'
    <2>1. ticker[t].at = "sending" /\ UNCHANGED <<pending, upsets>> /\ TickFits(t)
      BY <1>0, <1>3 DEF TickSends
    <2>2. CASE Goto(t, "ok")
      <3>1. /\ \A u \in Tickers : u # t => ticker'[u] = ticker[u]
            /\ ticker'[t] = [ticker[t] EXCEPT !.at = "ok"]
        BY <1>0, <2>2 DEF Goto
      <3>2. ticker'[t].at = "ok" /\ ticker'[t].retries = ticker[t].retries
            /\ (ticker'[t].gives <=> ticker[t].gives)
        BY <1>0, <3>1 DEF TickerFormed
      <3>3. TickFits(t)'
        BY <2>1, <3>2 DEF TickFits
      <3>4. QED
        BY <1>0, <2>1, <3>1, <3>3, OneFits
    <2>3. CASE \E fatal \in BOOLEAN :
                  ticker' = [ticker EXCEPT ![t] =
                     [at |-> "opening", slug |-> ticker[t].slug, retries |-> ticker[t].retries + 1,
                      gives |-> fatal \/ GivesUp(ticker[t].retries + 1)]]
      <3>1. PICK fatal \in BOOLEAN :
                  ticker' = [ticker EXCEPT ![t] =
                     [at |-> "opening", slug |-> ticker[t].slug, retries |-> ticker[t].retries + 1,
                      gives |-> fatal \/ GivesUp(ticker[t].retries + 1)]]
        BY <2>3
      <3>2. /\ \A u \in Tickers : u # t => ticker'[u] = ticker[u]
            /\ ticker'[t].at = "opening" /\ ticker'[t].retries = ticker[t].retries + 1
            /\ ticker'[t].gives <=> fatal \/ GivesUp(ticker[t].retries + 1)
        BY <1>0, <3>1
      <3>3. ticker[t].retries \in 0..(2 + upsets)
        BY <2>1 DEF TickFits
      <3>4. ticker'[t].retries \in 0..(3 + upsets) /\ (~ticker'[t].gives => ticker'[t].retries \in 0..2)
        BY <1>0, <3>2, <3>3 DEF GivesUp
      <3>5. TickFits(t)'
        BY <2>1, <3>2, <3>4 DEF TickFits
      <3>6. QED
        BY <1>0, <2>1, <3>2, <3>5, OneFits
    <2>4. QED
      BY <1>3, <2>2, <2>3 DEF TickSends
  <1>4. ASSUME NEW t \in Tickers, TickArchives(t) PROVE RetriesInv'
    <2>1. ticker[t].at = "ok" /\ UNCHANGED upsets /\ TickFits(t)
      BY <1>0, <1>4 DEF TickArchives
    <2>2. CASE /\ Rests(t)
               /\ pending' \in {pending, [pending EXCEPT ![ticker[t].slug] = Absent]}
      <3>1. \A u \in Tickers : u # t => ticker'[u] = ticker[u]
        BY <1>0, <2>2 DEF Rests
      <3>2. TickFits(t)'
        BY <1>0, <2>2 DEF Rests, Resting, TickFits
      <3>3. PICK s0 : s0 = ticker[t].slug
        OBVIOUS
      <3>4. /\ \A s \in Slugs : s # s0 => pending'[s] = pending[s]
            /\ s0 \in Slugs => pending'[s0] \in {pending[s0], Absent}
        BY <1>0, <2>2, <3>3
      <3>5. s0 \in Slugs => FileFits(s0)'
        <4>1. CASE s0 \in Slugs /\ pending'[s0] = Absent
          BY <1>0, <4>1 DEF FileFits
        <4>2. CASE s0 \in Slugs /\ pending'[s0] = pending[s0]
          <5>1. Moving(s0) => Moving(s0)'
            BY <2>1, <3>1 DEF Moving
          <5>2. FileFits(s0)
            BY <1>0, <4>2
          <5>3. QED
            BY <1>0, <2>1, <4>2, <5>1, <5>2 DEF FileFits
        <4>3. QED
          BY <3>4, <4>1, <4>2
      <3>6. QED
        BY <1>0, <2>1, <3>1, <3>2, <3>3, <3>4, <3>5, OneFits
    <2>3. CASE /\ ticker' = [ticker EXCEPT ![t].at = "opening", ![t].retries = RetriesAfterSuccess(t)]
               /\ UNCHANGED pending
      <3>1. /\ \A u \in Tickers : u # t => ticker'[u] = ticker[u]
            /\ ticker'[t] = [ticker[t] EXCEPT !.at = "opening", !.retries = 0]
        BY <1>0, <2>3 DEF RetriesAfterSuccess
      <3>2. ticker'[t].at = "opening" /\ ticker'[t].retries = 0
        BY <1>0, <3>1 DEF TickerFormed
      <3>3. TickFits(t)'
        BY <1>0, <2>1, <3>2 DEF TickFits
      <3>4. QED
        BY <1>0, <2>1, <2>3, <3>1, <3>3, OneFits
    <2>4. QED
      BY <1>4, <2>2, <2>3 DEF TickArchives

  <1>5. ASSUME NEW t \in Tickers, TickOpens(t) PROVE RetriesInv'
    <2>1. PICK s0 : s0 = ticker[t].slug
      OBVIOUS
    <2>2. /\ ticker[t].at = "opening" /\ Goto(t, "writing") /\ TickFits(t)
          /\ pending' = [pending EXCEPT ![s0] = Torn] /\ UNCHANGED upsets
      BY <1>0, <1>5, <2>1 DEF TickOpens
    <2>3. /\ \A u \in Tickers : u # t => ticker'[u] = ticker[u]
          /\ ticker'[t] = [ticker[t] EXCEPT !.at = "writing"]
      BY <1>0, <2>2 DEF Goto
    <2>4. ticker'[t].at = "writing" /\ ticker'[t].retries = ticker[t].retries
          /\ ticker'[t].gives = ticker[t].gives
      BY <1>0, <2>3 DEF TickerFormed
    <2>5. TickFits(t)'
      BY <2>2, <2>4 DEF TickFits
    <2>6. \A s \in Slugs : s # s0 => pending'[s] = pending[s]
      BY <1>0, <2>2
    <2>7. s0 \in Slugs => FileFits(s0)'
      BY <1>0, <2>2 DEF FileFits
    <2>8. QED
      BY <1>0, <2>1, <2>2, <2>3, <2>5, <2>6, <2>7, OneFits
  <1>6. ASSUME NEW t \in Tickers, TickWrites(t) PROVE RetriesInv'
    <2>1. PICK s0 : s0 = ticker[t].slug
      OBVIOUS
    <2>2. /\ ticker[t].at = "writing" /\ TickFits(t) /\ UNCHANGED upsets
          /\ pending' = [pending EXCEPT ![s0] = IF pending[s0] = Absent THEN pending[s0]
                                                ELSE ticker[t].retries]
          /\ IF ticker[t].gives THEN Goto(t, "moving") ELSE Rests(t)
      BY <1>0, <1>6, <2>1 DEF TickWrites
    <2>3. \A s \in Slugs : s # s0 => pending'[s] = pending[s]
      BY <1>0, <2>2
    <2>4. /\ \A u \in Tickers : u # t => ticker'[u] = ticker[u]
          /\ ticker'[t].at \in {"moving", "rest"}
          /\ ticker[t].gives => ticker'[t].at = "moving" /\ ticker'[t].slug = s0
      <3>1. CASE ticker[t].gives
        <4>1. /\ \A u \in Tickers : u # t => ticker'[u] = ticker[u]
              /\ ticker'[t] = [ticker[t] EXCEPT !.at = "moving"]
          BY <1>0, <2>2, <3>1 DEF Goto
        <4>2. QED
          BY <1>0, <2>1, <4>1 DEF TickerFormed
      <3>2. CASE ~ticker[t].gives
        BY <1>0, <2>2, <3>2 DEF Rests, Resting
      <3>3. QED
        BY <3>1, <3>2
    <2>5. TickFits(t)'
      BY <2>4 DEF TickFits
    <2>6. ASSUME s0 \in Slugs PROVE FileFits(s0)'
      <3>1. pending'[s0] \in {Absent, ticker[t].retries}
        BY <1>0, <2>2, <2>6
      <3>2. CASE ticker[t].gives
        <4>1. Moving(s0)'
          BY <2>4, <3>2 DEF Moving
        <4>2. ticker[t].retries \in 0..(3 + upsets)
          BY <2>2, <3>2 DEF TickFits
        <4>3. QED
          BY <1>0, <2>2, <3>1, <4>1, <4>2 DEF FileFits
      <3>3. CASE ~ticker[t].gives
        <4>1. ticker[t].retries \in 0..(2 + upsets)
          BY <1>0, <2>2, <3>3 DEF TickFits
        <4>2. QED
          BY <1>0, <2>2, <3>1, <4>1 DEF FileFits
      <3>4. QED
        BY <3>2, <3>3
    <2>7. QED
      BY <1>0, <2>1, <2>2, <2>3, <2>4, <2>5, <2>6, OneFits
  <1>7. ASSUME NEW t \in Tickers, TickGivesUp(t) \/ TickDies(t) PROVE RetriesInv'
    <2>1. PICK s0 : s0 = ticker[t].slug
      OBVIOUS
    <2>2. /\ Rests(t) /\ ticker[t].at # "rest"
          /\ \/ upsets' = upsets /\ pending' = [pending EXCEPT ![s0] = Absent]
             \/ upsets' = upsets /\ pending' = pending /\ pending[s0] = Absent
             \/ UpsetIf(TRUE) /\ pending' = pending
      BY <1>0, <1>7, <2>1 DEF TickGivesUp, TickDies
    <2>3. /\ s0 \in Slugs /\ \A s \in Slugs : s # s0 => pending'[s] = pending[s]
          /\ upsets' \in upsets..MaxUpsets
          /\ pending'[s0] = Absent \/ (pending'[s0] = pending[s0] /\ upsets' = upsets + 1)
      BY <1>0, <1>1, <2>1, <2>2 DEF TickerFormed
    <2>4. \A u \in Tickers : u # t => ticker'[u] = ticker[u]
      BY <1>0, <2>2 DEF Rests
    <2>5. TickFits(t)'
      BY <1>0, <2>2 DEF Rests, Resting, TickFits
    <2>6. FileFits(s0)'
      <3>1. CASE pending'[s0] = Absent
        BY <1>0, <3>1 DEF FileFits
      <3>2. CASE pending'[s0] = pending[s0] /\ upsets' = upsets + 1
        <4>1. pending[s0] \in {Absent, Torn} \/ pending[s0] \in 0..(3 + upsets)
          BY <1>0, <2>3 DEF FileFits
        <4>2. QED
          BY <1>0, <3>2, <4>1 DEF FileFits
      <3>3. QED
        BY <2>3, <3>1, <3>2
    <2>7. QED
      BY <2>1, <2>3, <2>4, <2>5, <2>6, OneFits
  <1>8. ASSUME ResetTouches \/ GatewayResets PROVE RetriesInv'
    BY <1>0, <1>8, NoTickFits DEF ResetTouches, GatewayResets, Untouched
  <1>9. ASSUME ChooseTouch PROVE RetriesInv'
    <2>1. UpsetIf(\E s \in Touches : pending[s] = Torn) /\ UNCHANGED <<pending, ticker>>
      BY <1>9 DEF ChooseTouch
    <2>2. upsets' \in upsets..MaxUpsets
      BY <1>1, <2>1
    <2>3. QED
      BY <2>1, <2>2, NoTickFits
  <1>10. ASSUME AddTouch PROVE RetriesInv'
    <2>1. UNCHANGED <<ticker, upsets>>
      BY <1>10 DEF AddTouch
    <2>2. \A s \in Slugs : pending'[s] \in {pending[s], Absent, Torn, 0}
      BY <1>0, <1>10 DEF AddTouch
    <2>3. QED
      BY <1>0, <2>1, <2>2, NoTickFits
  <1>11. ASSUME UNCHANGED <<pending, ticker, upsets>> PROVE RetriesInv'
    BY <1>0, <1>11, NoTickFits
  <1>12. ASSUME NEW s \in Slugs, CancelByHand(s) PROVE RetriesInv'
    <2>1. /\ UpsetIf(\E t \in Tickers : ticker[t].slug = s) /\ UNCHANGED ticker
          /\ pending' = [pending EXCEPT ![s] = Absent]
      BY <1>12 DEF CancelByHand
    <2>2. upsets' \in upsets..MaxUpsets
      BY <1>1, <2>1
    <2>3. \A z \in Slugs : pending'[z] \in {pending[z], Absent, Torn, 0}
      BY <1>0, <2>1
    <2>4. QED
      BY <2>1, <2>2, <2>3, NoTickFits
  <1>13. UNCHANGED commitmentsVars \/ QueuerDies \/ UserWrites \/ SilenceIsLong
            => UNCHANGED <<pending, ticker, upsets>>
    BY DEF commitmentsVars, QueuerDies, UserWrites, SilenceIsLong
  <1>14. QED
    BY <1>2, <1>3, <1>4, <1>5, <1>6, <1>7, <1>8, <1>9, <1>10, <1>11, <1>12, <1>13
       DEF CommitmentsNext, TickStep

\* A step of the task, the user or the gateway, which moves no tick.
LEMMA NoTicks ==
    ASSUME ticker' = ticker, NEW s
    PROVE  /\ \A t \in Tickers : (Holds(t, s)' <=> Holds(t, s)) /\ (Spends(t, s)' <=> Spends(t, s))
           /\ (Held(s)' <=> Held(s)) /\ Spenders(s)' = Spenders(s) /\ Absent' = Absent
  BY DEF Holds, Spends, Held, Spenders, Absent

LEMMA NoTickPasses ==
    ASSUME TouchesInv, NEW s \in Touches, UNCHANGED <<filed, ticker, silence, sent>>,
           pending'[s] = pending[s], queuer'.slug = s <=> queuer.slug = s,
           Adding(s)' = Adding(s), upsets' \in Nat, upsets' >= upsets
    PROVE  TouchSound(s)'
  <1>1. \A t \in Tickers : (Holds(t, s)' <=> Holds(t, s)) /\ (Spends(t, s)' <=> Spends(t, s))
    BY NoTicks
  <1>2. filed[s.silence] \in Nat
    BY TouchNumbers DEF TouchesInv
  <1>3. filed'[s.silence] \in Nat /\ filed'[s.silence] >= filed[s.silence]
    BY <1>2
  <1>4. QED
    BY <1>1, <1>3, PassedBy

\* The touches of a chat that is not silent for long are removed: none is of this silence.
LEMMA ResetsStay ==
    ASSUME TouchesInv, ~silence.long, pending' = Untouched, resetDue' \in {resetDue, FALSE},
           UNCHANGED <<filed, ticker, queuer, silence, sent, upsets>>
    PROVE  TouchesInv'
  <1>1. CommitmentsFormed'
    BY DEF TouchesInv, CommitmentsFormed, Untouched
  <1>2. ASSUME NEW s \in Touches PROVE TouchSound(s)'
    <2>1. /\ (Held(s)' <=> Held(s)) /\ Spenders(s)' = Spenders(s) /\ Absent' = Absent
          /\ \A t \in Tickers : Spends(t, s) => Held(s)
      BY NoTicks DEF Spends, Held, Holds
    <2>2. pending'[s] \in {Absent, pending[s]} /\ Adding(s)' = Adding(s)
      BY TouchNumbers DEF TouchesInv, Untouched, Adding
    <2>3. /\ InPlay(s)' => InPlay(s)
          /\ Waiting(s)' \in {0, 1} /\ Waiting(s)' <= Waiting(s) /\ (Early(s)' <=> Early(s))
      BY <2>1, <2>2 DEF InPlay, Waiting, Early
    <2>4. /\ TouchSound(s) /\ Cardinality(Spenders(s)) \in Nat /\ Waiting(s) \in {0, 1}
          /\ Adding(s) \in {0, 1} /\ sent[s] \in Nat /\ upsets \in Nat
          /\ Cardinality(Spenders(s)) = 0 <=> Spenders(s) = {}
      BY TouchNumbers DEF TouchesInv
    <2>5. s.silence = silence.number => sent[s] = 0 /\ Cardinality(Spenders(s)) = 0
      <3>1. s.silence = silence.number => sent[s] = 0 /\ ~Held(s)
        BY <2>4 DEF TouchSound, Early, InPlay
      <3>2. ~Held(s) => Spenders(s) = {}
        BY <2>1 DEF Spenders
      <3>3. QED
        BY <2>4, <3>1, <3>2
    <2>6. sent'[s] + Cardinality(Spenders(s)') + Waiting(s)' + Adding(s)' <= 1 + upsets'
      BY <2>1, <2>2, <2>3, <2>4 DEF TouchSound
    <2>7. s.silence = silence'.number => sent'[s] + Cardinality(Spenders(s)') <= upsets'
      BY <2>1, <2>4, <2>5
    <2>8. /\ Early(s)' => sent'[s] = 0 /\ ~InPlay(s)'
          /\ InPlay(s)' => filed'[s.silence] >= s.n - 1
      BY <2>3, <2>4 DEF TouchSound
    <2>9. QED
      BY <2>6, <2>7, <2>8 DEF TouchSound
  <1>3. QED
    BY <1>1, <1>2 DEF TouchesInv

\* The touch that is next is one that was never filed.
LEMMA ChoiceStays ==
    ASSUME TouchesInv, RetriesInv, ChooseTouch
    PROVE  TouchesInv'
  <1> DEFINE next == [silence |-> silence.number, n |-> Queued + 1]
  <1>1. /\ silence.number > 0 /\ silence.long /\ \A s \in Touches : ~Whole(s)
        /\ queuer.at = "idle" /\ Queued < MaxTouches
        /\ queuer' = [at |-> "adding", slug |-> next]
        /\ UpsetIf(\E s \in Touches : pending[s] = Torn)
        /\ UNCHANGED <<pending, filed, ticker, silence, resetDue, sent>>
    BY DEF ChooseTouch
  <1>2. /\ CommitmentsFormed /\ silence.number \in 1..MaxSilences /\ filed \in [1..MaxSilences -> Nat]
        /\ upsets \in Nat /\ MaxTouches \in Nat
    BY <1>1, CommitmentsAssumption DEF CommitmentsAssumption, TouchesInv, CommitmentsFormed
  <1>3. Queued = filed[silence.number] /\ Queued \in Nat
    <2>1. {s \in OfThisSilence : Whole(s)} = {}
      BY <1>1 DEF OfThisSilence
    <2>2. Cardinality({s \in OfThisSilence : Whole(s)}) = 0
      BY <2>1, FS_EmptySet
    <2>3. QED
      BY <1>2, <2>2 DEF Queued
  <1>4. next \in Touches
    BY <1>1, <1>2, <1>3 DEF Touches
  <1>5. PICK s0 \in Touches : s0 = next
    BY <1>4
  <1>6. s0.silence = silence.number /\ s0.n = filed[silence.number] + 1 /\ queuer'.slug = s0
    BY <1>1, <1>3, <1>5
  <1> HIDE DEF next
  <1>7. upsets' = (IF \E s \in Touches : pending[s] = Torn THEN upsets + 1 ELSE upsets)
    BY <1>1 DEF UpsetIf
  <1>8. upsets' \in Nat /\ upsets' >= upsets
    BY <1>2, <1>7
  <1>9. CommitmentsFormed'
    <2>1. queuer'.at = "adding" /\ DOMAIN queuer' = {"at", "slug"} /\ s0 # NoSlug
      BY <1>1, TouchNumbers, <1>2
    <2>2. QED
      BY <1>1, <1>2, <1>6, <1>8, <2>1 DEF CommitmentsFormed
  <1>10. ASSUME NEW s \in Touches, s # s0 PROVE TouchSound(s)'
    <2>1. /\ queuer.slug # s /\ queuer'.slug # s /\ s.silence \in 1..MaxSilences
          /\ filed[s.silence] \in Nat
      BY <1>1, <1>2, <1>6, <1>10, TouchNumbers DEF CommitmentsFormed
    <2>2. Adding(s)' = Adding(s)
      BY <2>1 DEF Adding
    <2>3. QED
      BY <1>1, <1>8, <2>1, <2>2, NoTickPasses
  <1>11. TouchSound(s0)'
    <2>1. /\ TouchSound(s0) /\ Cardinality(Spenders(s0)) \in Nat /\ Waiting(s0) \in {0, 1}
          /\ sent[s0] \in Nat /\ filed[s0.silence] \in Nat /\ queuer.slug # s0
      BY <1>1, <1>2, TouchNumbers DEF TouchesInv, CommitmentsFormed
    <2>2. /\ (Held(s0)' <=> Held(s0)) /\ Spenders(s0)' = Spenders(s0) /\ Absent' = Absent
      BY <1>1, NoTicks
    <2>3. Adding(s0) = 0 /\ Adding(s0)' = 1 /\ Waiting(s0)' = Waiting(s0) /\ ~Early(s0)'
      <3>1. Adding(s0) = 0 /\ Adding(s0)' = 1
        BY <1>1, <1>6, <2>1 DEF Adding
      <3>2. Waiting(s0)' = Waiting(s0)
        BY <1>1, <2>2 DEF Waiting
      <3>3. ~Early(s0)'
        BY <1>1, <1>2, <1>6 DEF Early
      <3>4. QED
        BY <3>1, <3>2, <3>3
    <2>4. pending[s0] \in {Absent, Torn}
      BY <1>1, TouchNumbers, FilesFit DEF TouchesInv, Whole
    <2>5. CASE pending[s0] = Torn
      <3>1. upsets' = upsets + 1 /\ pending'[s0] # Absent'
        BY <1>1, <1>7, <2>2, <2>5, TouchNumbers, FilesFit DEF TouchesInv
      <3>2. InPlay(s0) => filed[s0.silence] >= s0.n - 1
        BY <2>1 DEF TouchSound
      <3>3. sent'[s0] + Cardinality(Spenders(s0)') + Waiting(s0)' + Adding(s0)' <= 1 + upsets'
        BY <1>1, <1>2, <2>1, <2>2, <2>3, <3>1 DEF TouchSound
      <3>4. filed'[s0.silence] >= s0.n - 1
        BY <1>1, <1>6, <2>1
      <3>5. QED
        BY <2>3, <3>1, <3>3, <3>4 DEF TouchSound
    <2>6. CASE pending[s0] = Absent
      <3>1. Waiting(s0) = 0
        BY <2>6 DEF Waiting
      <3>2. filed[s0.silence] < s0.n
        BY <1>6, <2>1
      <3>3. sent[s0] + Cardinality(Spenders(s0)) <= upsets
        BY <1>6, <2>1, <2>3, <2>6, <3>2 DEF TouchSound
      <3>4. sent'[s0] + Cardinality(Spenders(s0)') + Waiting(s0)' + Adding(s0)' <= 1 + upsets'
        BY <1>1, <1>2, <1>8, <2>1, <2>2, <2>3, <3>1, <3>3
      <3>5. filed'[s0.silence] >= s0.n - 1
        BY <1>1, <1>6, <2>1
      <3>6. QED
        BY <2>3, <3>4, <3>5 DEF TouchSound
    <2>7. QED
      BY <2>4, <2>5, <2>6
  <1>12. QED
    BY <1>9, <1>10, <1>11 DEF TouchesInv

\* The task adds its touch, or is gone.
LEMMA AddingStays ==
    ASSUME TouchesInv, AddTouch \/ QueuerDies
    PROVE  TouchesInv'
  <1>1. PICK s0 : s0 = queuer.slug
    OBVIOUS
  <1>2. /\ queuer.at \in {"adding", "writing"} /\ s0 \in Touches /\ s0 \in Slugs
        /\ CommitmentsFormed /\ TouchSound(s0) /\ DOMAIN pending = Slugs
        /\ UNCHANGED <<filed, ticker, silence, resetDue, sent, upsets>>
    <2>1. queuer.at \in {"adding", "writing"} /\ UNCHANGED <<filed, ticker, silence, resetDue, sent, upsets>>
      BY DEF AddTouch, QueuerDies, TouchesInv, CommitmentsFormed
    <2>2. s0 \in Touches
      BY <1>1, <2>1 DEF TouchesInv, CommitmentsFormed
    <2>3. QED
      BY <2>1, <2>2, TouchNumbers DEF TouchesInv, CommitmentsFormed
  <1>3. Torn # Absent /\ Absent' = Absent /\ 0 # Absent
    BY CommitmentsAssumption DEF CommitmentsAssumption, Torn, Absent
  <1>4. /\ DOMAIN pending' = Slugs
        /\ \A s \in Slugs : s # s0 => pending'[s] = pending[s]
        /\ \/ /\ queuer.at = "adding" /\ pending[s0] = Absent
              /\ queuer'.at = "writing" /\ queuer'.slug = s0
           \/ /\ queuer'.at = "idle" /\ queuer'.slug = NoSlug
              /\ pending'[s0] = Absent <=> pending[s0] = Absent
        /\ DOMAIN queuer' = {"at", "slug"}
    <2>1. DOMAIN queuer = {"at", "slug"}
      BY DEF TouchesInv, CommitmentsFormed
    <2>2. QED
      BY <1>1, <1>2, <1>3, <2>1 DEF AddTouch, QueuerDies
  <1>5. CommitmentsFormed'
    BY <1>2, <1>4, TouchNumbers DEF CommitmentsFormed
  <1>6. ASSUME NEW s \in Touches, s # s0 PROVE TouchSound(s)'
    <2>1. s \in Slugs /\ s.silence \in 1..MaxSilences /\ filed[s.silence] \in Nat /\ s # NoSlug /\ upsets \in Nat
      BY <1>2, TouchNumbers
    <2>2. pending'[s] = pending[s] /\ queuer.slug # s /\ queuer'.slug # s
      BY <1>1, <1>4, <1>6, <2>1
    <2>3. Adding(s)' = Adding(s)
      BY <2>2 DEF Adding
    <2>4. QED
      BY <1>2, <2>1, <2>2, <2>3, NoTickPasses
  <1>7. TouchSound(s0)'
    <2>1. /\ Cardinality(Spenders(s0)) \in Nat /\ Waiting(s0) \in {0, 1} /\ Adding(s0) \in {0, 1}
          /\ sent[s0] \in Nat /\ upsets \in Nat /\ InPlay(s0)
      BY <1>1, <1>2, TouchNumbers DEF InPlay
    <2>2. /\ (Held(s0)' <=> Held(s0)) /\ Spenders(s0)' = Spenders(s0)
          /\ (Early(s0)' <=> Early(s0)) /\ ~Early(s0)
      BY <1>2, <2>1, NoTicks DEF Early, TouchSound
    <2>3. /\ Adding(s0)' = 0 /\ Waiting(s0)' \in {0, 1}
          /\ Waiting(s0)' + Adding(s0)' <= Waiting(s0) + Adding(s0)
          /\ Adding(s0) = 1 \/ (Adding(s0) = 0 /\ (pending'[s0] = Absent => pending[s0] = Absent))
      <3>1. CASE queuer.at = "adding" /\ pending[s0] = Absent /\ queuer'.at = "writing"
        BY <1>1, <1>3, <2>2, <3>1 DEF Adding, Waiting
      <3>2. CASE queuer'.at = "idle" /\ (pending'[s0] = Absent <=> pending[s0] = Absent)
        BY <1>1, <1>3, <2>2, <3>2 DEF Adding, Waiting
      <3>3. QED
        BY <1>4, <3>1, <3>2
    <2>4. sent'[s0] + Cardinality(Spenders(s0)') + Waiting(s0)' + Adding(s0)' <= 1 + upsets'
      BY <1>2, <2>1, <2>2, <2>3 DEF TouchSound
    <2>5. filed'[s0.silence] >= s0.n - 1
      BY <1>2, <2>1 DEF TouchSound
    <2>6. s0.silence = silence'.number /\ pending'[s0] = Absent' /\ filed'[s0.silence] < s0.n
             => sent'[s0] + Cardinality(Spenders(s0)') <= upsets'
      <3>1. CASE Adding(s0) = 1
        BY <1>2, <2>1, <2>2, <3>1 DEF TouchSound
      <3>2. CASE Adding(s0) = 0
        BY <1>2, <1>3, <2>1, <2>2, <2>3, <3>2 DEF TouchSound
      <3>3. QED
        BY <2>1, <3>1, <3>2
    <2>7. QED
      BY <2>2, <2>4, <2>5, <2>6 DEF TouchSound
  <1>8. QED
    BY <1>5, <1>6, <1>7 DEF TouchesInv

\* The user writes, and another silence begins; or the silence is long.
LEMMA SilenceStays ==
    ASSUME TouchesInv, UserWrites \/ SilenceIsLong
    PROVE  TouchesInv'
  <1>1. /\ UNCHANGED <<pending, filed, ticker, queuer, sent, upsets>>
        /\ DOMAIN silence' = {"number", "long"} /\ silence'.number \in 0..MaxSilences
        /\ \/ silence'.number = silence.number + 1 /\ ~silence'.long
           \/ silence'.number = silence.number /\ silence'.long
        /\ resetDue' => ~silence'.long
        /\ silence.number \in Nat
    <2>1. DOMAIN silence = {"number", "long"} /\ silence.number \in 0..MaxSilences /\ MaxSilences \in Nat
      BY CommitmentsAssumption DEF CommitmentsAssumption, TouchesInv, CommitmentsFormed
    <2>2. CASE UserWrites
      BY <2>1, <2>2 DEF UserWrites
    <2>3. CASE SilenceIsLong
      BY <2>1, <2>3 DEF SilenceIsLong
    <2>4. QED
      BY <2>2, <2>3
  <1>2. CommitmentsFormed'
    BY <1>1 DEF TouchesInv, CommitmentsFormed
  <1>3. ASSUME NEW s \in Touches PROVE TouchSound(s)'
    <2>1. /\ TouchSound(s) /\ Cardinality(Spenders(s)) \in Nat /\ upsets \in Nat
          /\ Cardinality(Spenders(s)) = 0 <=> Spenders(s) = {}
          /\ Spenders(s) # {} => Held(s)
          /\ s.silence \in 1..MaxSilences /\ MaxSilences \in Nat
      BY TouchNumbers DEF TouchesInv
    <2>2. /\ (Held(s)' <=> Held(s)) /\ Spenders(s)' = Spenders(s) /\ Absent' = Absent
      BY <1>1, NoTicks
    <2>3. /\ Waiting(s)' = Waiting(s) /\ Adding(s)' = Adding(s) /\ (InPlay(s)' <=> InPlay(s))
      BY <1>1, <2>2 DEF Waiting, Adding, InPlay
    <2>4. Early(s)' => Early(s)
      BY <1>1, <2>1 DEF Early
    <2>5. s.silence = silence'.number => s.silence = silence.number \/ Early(s)
      BY <1>1, <2>1 DEF Early
    <2>6. Early(s) => sent[s] + Cardinality(Spenders(s)) <= upsets
      <3>1. ASSUME Early(s) PROVE sent[s] = 0 /\ Cardinality(Spenders(s)) = 0
        BY <2>1, <3>1 DEF TouchSound, InPlay
      <3>2. QED
        BY <2>1, <3>1
    <2>7. s.silence = silence'.number /\ pending'[s] = Absent' /\ Adding(s)' = 0 /\ filed'[s.silence] < s.n
             => sent'[s] + Cardinality(Spenders(s)') <= upsets'
      BY <1>1, <2>1, <2>2, <2>3, <2>5, <2>6 DEF TouchSound
    <2>8. QED
      BY <1>1, <2>1, <2>2, <2>3, <2>4, <2>7 DEF TouchSound
  <1>4. QED
    BY <1>2, <1>3 DEF TouchesInv

\* A file is removed by hand: what is not sent of it will not be, or it is an upset.
LEMMA CancelStays ==
    ASSUME TouchesInv, NEW s0 \in Slugs, CancelByHand(s0)
    PROVE  TouchesInv'
  <1>1. /\ pending[s0] # Absent /\ pending' = [pending EXCEPT ![s0] = Absent]
        /\ UpsetIf(Held(s0)) /\ UNCHANGED <<filed, ticker, queuer, silence, resetDue, sent>>
    BY DEF CancelByHand, Held, Holds
  <1>2. CommitmentsFormed /\ DOMAIN pending = Slugs /\ upsets \in Nat
    BY DEF TouchesInv, CommitmentsFormed
  <1>3. upsets' = (IF Held(s0) THEN upsets + 1 ELSE upsets) /\ upsets' \in Nat /\ upsets' >= upsets
    <2>1. upsets' = (IF Held(s0) THEN upsets + 1 ELSE upsets)
      BY <1>1 DEF UpsetIf
    <2>2. QED
      BY <1>2, <2>1
  <1>4. CommitmentsFormed'
    BY <1>1, <1>2, <1>3 DEF CommitmentsFormed
  <1>5. ASSUME NEW s \in Touches, s # s0 PROVE TouchSound(s)'
    <2>1. s \in Slugs /\ s.silence \in 1..MaxSilences /\ filed[s.silence] \in Nat
      BY <1>2, TouchNumbers
    <2>2. pending'[s] = pending[s] /\ Adding(s)' = Adding(s)
      BY <1>1, <1>2, <1>5, <2>1 DEF Adding
    <2>3. QED
      BY <1>1, <1>3, <2>1, <2>2, NoTickPasses
  <1>6. ASSUME s0 \in Touches PROVE TouchSound(s0)'
    <2>1. /\ Cardinality(Spenders(s0)) \in Nat /\ Waiting(s0) = (IF Held(s0) THEN 0 ELSE 1)
          /\ Adding(s0) \in {0, 1} /\ sent[s0] \in Nat /\ InPlay(s0) /\ TouchSound(s0)
      BY <1>1, <1>2, <1>6, TouchNumbers DEF InPlay, TouchesInv, Waiting
    <2>2. /\ Spenders(s0)' = Spenders(s0) /\ Absent' = Absent /\ pending'[s0] = Absent
          /\ Adding(s0)' = Adding(s0) /\ Waiting(s0)' = 0 /\ ~Early(s0)'
      BY <1>1, <1>2, <2>1, NoTicks DEF Waiting, Adding, Early, TouchSound
    <2>3. sent[s0] + Cardinality(Spenders(s0)) + Adding(s0) <= upsets'
      BY <1>2, <1>3, <2>1 DEF TouchSound
    <2>4. filed'[s0.silence] >= s0.n - 1
      BY <1>1, <2>1 DEF TouchSound
    <2>5. sent'[s0] + Cardinality(Spenders(s0)') + Waiting(s0)' + Adding(s0)' <= 1 + upsets'
      BY <1>1, <1>3, <2>1, <2>2, <2>3
    <2>6. sent'[s0] + Cardinality(Spenders(s0)') <= upsets'
      BY <1>1, <1>3, <2>1, <2>2, <2>3
    <2>7. QED
      BY <2>2, <2>4, <2>5, <2>6 DEF TouchSound
  <1>7. QED
    BY <1>4, <1>5, <1>6 DEF TouchesInv

CommitmentsInv == TouchesInv /\ RetriesInv

LEMMA CommitmentsStay == CommitmentsInv /\ [CommitmentsNext]_commitmentsVars => CommitmentsInv'
  <1> SUFFICES ASSUME TouchesInv, RetriesInv, [CommitmentsNext]_commitmentsVars
               PROVE  CommitmentsInv'
    BY DEF CommitmentsInv
  <1>1. RetriesInv'
    BY RetriesStay
  <1>2. ASSUME UNCHANGED commitmentsVars PROVE TouchesInv'
    <2>1. CommitmentsFormed'
      BY <1>2 DEF commitmentsVars, TouchesInv, CommitmentsFormed
    <2>2. ASSUME NEW s \in Touches PROVE TouchSound(s)'
      <3>1. upsets \in Nat /\ filed[s.silence] \in Nat
        BY TouchNumbers DEF TouchesInv
      <3>2. upsets' \in Nat /\ upsets' >= upsets
        BY <1>2, <3>1 DEF commitmentsVars
      <3>3. Adding(s)' = Adding(s)
        BY <1>2 DEF commitmentsVars, Adding
      <3>4. QED
        BY <1>2, <3>1, <3>2, <3>3, NoTickPasses DEF commitmentsVars
    <2>3. QED
      BY <2>1, <2>2 DEF TouchesInv
  <1>3. ASSUME ResetTouches \/ GatewayResets PROVE TouchesInv'
    <2>1. /\ ~silence.long /\ pending' = Untouched /\ resetDue' \in {resetDue, FALSE}
          /\ UNCHANGED <<filed, ticker, queuer, silence, sent, upsets>>
      BY <1>3 DEF ResetTouches, GatewayResets, TouchesInv, CommitmentsFormed
    <2>2. QED
      BY <2>1, ResetsStay
  <1>4. TouchesInv'
    <2>1. ASSUME NEW t \in Tickers, TickStep(t) PROVE TouchesInv'
      BY <2>1, TicksStay
    <2>2. ASSUME NEW s \in Slugs, CancelByHand(s) PROVE TouchesInv'
      BY <2>2, CancelStays
    <2>3. CASE ChooseTouch
      BY <2>3, ChoiceStays
    <2>4. CASE AddTouch \/ QueuerDies
      BY <2>4, AddingStays
    <2>5. CASE UserWrites \/ SilenceIsLong
      BY <2>5, SilenceStays
    <2>6. QED
      BY <1>2, <1>3, <2>1, <2>2, <2>3, <2>4, <2>5 DEF CommitmentsNext
  <1>5. QED
    BY <1>1, <1>4 DEF CommitmentsInv

LEMMA TouchesKept == CommitmentsInv => TouchedOnce
  <1> SUFFICES ASSUME TouchesInv, NEW s \in Touches
               PROVE  sent[s] <= 1 + upsets
    BY DEF CommitmentsInv, TouchedOnce
  <1>1. /\ Cardinality(Spenders(s)) \in Nat /\ Waiting(s) \in {0, 1} /\ Adding(s) \in {0, 1}
        /\ sent[s] \in Nat /\ upsets \in Nat /\ TouchSound(s)
    BY TouchNumbers DEF TouchesInv
  <1>2. QED
    BY <1>1 DEF TouchSound

\* No touch of a silence goes out twice, however the tick of the heartbeat, a tick by
\* hand, the re-engagement task, the gateway and the operator move the files, unless a
\* tick dies, overlaps another, meets a cancel, or the task finds a file half written:
\* one more for each of these.
THEOREM TouchesGoOnce == CommitmentsSpec => []TouchedOnce
  <1>1. CommitmentsInit => CommitmentsInv
    BY CommitmentsInitially, RetriesInitially DEF CommitmentsInv
  <1>2. QED
    BY <1>1, CommitmentsStay, TouchesKept, PTL DEF CommitmentsSpec

-----------------------------------------------------------------------------
(* Approvals: a change to a memory file is made with consent, is stamped as *)
(* made only when it was, and a decision is not turned round.               *)

\* An approved row, and every applier past the start of its callback, shows
\* that somebody consented.
Consented ==
    /\ \A r \in Rows : approval[r].status = "approved" => consent
    /\ \A a \in Appliers : applier[a].at \in {"called", "gated", "written"} => consent

\* An applier that has a row to stamp and has passed the file has written it;
\* a rejection has none; what is archived may leave staging.
Written ==
    \A a \in Appliers :
        /\ applier[a].at \in {"archived", "moved"} /\ applier[a].row # NoRow => copies > 0
        /\ applier[a].at = "written" => copies > 0
        /\ applier[a].at = "rejecting" => applier[a].row = NoRow
        /\ applier[a].at = "archived" => archives # {}

\* Until an open decision commits, its row stays as the checks found it.
DecidesPending == ~Unlocked => approval[deciding.row].status = "pending"

ApprovalsInv ==
    ApprovalsTypeOK /\ Consented /\ Written /\ DecidesPending /\ ChangeFollowsConsent

\* Operators that the steps expand.
USE DEF Appliers, Unlocked, SetStatus, At, Ends

\* What an open decision is about.
LEMMA OpenDecision ==
    ASSUME ApprovalsTypeOK
    PROVE  /\ ~Unlocked => deciding.row \in Rows /\ deciding.to \in {"approved", "rejected"}
           /\ \A r \in Rows, to \in {"approved", "rejected"} : [row |-> r, to |-> to] # Undecided
  BY ApprovalsAssumption DEF ApprovalsTypeOK, Undecided, ApprovalsAssumption

\* An applier that is not at rest is at a step, with a row or with none.
LEMMA ApplierAtWork ==
    ASSUME ApprovalsTypeOK, NEW a \in Appliers, applier[a].at # "idle"
    PROVE  applier[a] \in Applying
  BY DEF ApprovalsTypeOK, Idle

LEMMA ApprovalsInitially == ApprovalsInit => ApprovalsInv
  <1> SUFFICES ASSUME ApprovalsInit
               PROVE  ApprovalsInv
    OBVIOUS
  <1> USE DEF ApprovalsInit
  <1>1. ApprovalsTypeOK
    <2>1. NotRaised \in Standings
      BY DEF NotRaised, Standings
    <2>2. copies \in 0..MaxCopies
      BY ApprovalsAssumption DEF ApprovalsAssumption
    <2>3. QED
      BY <2>1, <2>2 DEF ApprovalsTypeOK
  <1>2. Consented /\ Written /\ DecidesPending
    BY DEF Consented, Written, DecidesPending, Idle, NotRaised
  <1>3. ChangeFollowsConsent
    BY DEF ChangeFollowsConsent, ConsentBeforeChange, StampedIsChanged, ProposalKept, NotRaised
  <1>4. QED
    BY <1>1, <1>2, <1>3 DEF ApprovalsInv

-----------------------------------------------------------------------------
\* Every step keeps the types.
LEMMA TypeStep ==
    ASSUME ApprovalsTypeOK, ApprovalsNext
    PROVE  ApprovalsTypeOK'
  <1>1. ASSUME NEW p \in Producers, RaiseLooks(p) PROVE ApprovalsTypeOK'
    BY <1>1 DEF RaiseLooks, ApprovalsTypeOK
  <1>2. ASSUME NEW p \in Producers, RaiseInserts(p) PROVE ApprovalsTypeOK'
    BY <1>2 DEF RaiseInserts, Standings, ApprovalsTypeOK
  <1>3. ASSUME NEW r \in Rows, BecomesOverdue(r) \/ FindExpired(r) PROVE ApprovalsTypeOK'
    BY <1>3 DEF BecomesOverdue, FindExpired, ApprovalsTypeOK
  <1>4. ASSUME NEW r \in Rows, Expire(r) \/ WriteExpired(r) PROVE ApprovalsTypeOK'
    BY <1>4 DEF Expire, WriteExpired, Standings, ApprovalsTypeOK
  <1>5. ASSUME NEW r \in Rows, DeleteDecided(r) PROVE ApprovalsTypeOK'
    <2>1. NotRaised \in Standings
      BY DEF NotRaised, Standings, ApprovalsTypeOK
    <2>2. QED
      BY <1>5, <2>1 DEF DeleteDecided, ApprovalsTypeOK
  <1>6. ASSUME NEW r \in Rows, NEW to \in {"approved", "rejected"}, DecideChecks(r, to)
        PROVE  ApprovalsTypeOK'
    BY <1>6 DEF DecideChecks, ApprovalsTypeOK
  <1>7. ASSUME DecideCommits PROVE ApprovalsTypeOK'
    <2>1. deciding.row \in Rows /\ deciding.to \in {"approved", "rejected"}
      BY <1>7, OpenDecision DEF DecideCommits, ApprovalsTypeOK
    <2>2. approval' \in [Rows -> Standings]
      BY <1>7, <2>1 DEF DecideCommits, Standings, ApprovalsTypeOK
    <2>3. [at |-> "called", row |-> deciding.row] \in Applying
      BY <2>1 DEF Applying, ApprovalsTypeOK
    <2>4. applier' \in [Appliers -> Applying \cup {Idle}] /\ consent' \in BOOLEAN
      BY <1>7, <2>3 DEF DecideCommits, ApprovalsTypeOK
    <2>5. QED
      BY <1>7, <2>2, <2>4 DEF DecideCommits, ApprovalsTypeOK
  <1>8. ASSUME NEW r \in Rows, OperatorApplies(r) PROVE ApprovalsTypeOK'
    BY <1>8 DEF OperatorApplies, Applying, ApprovalsTypeOK
  <1>9. ASSUME NEW a \in Appliers, PassGate(a) PROVE ApprovalsTypeOK'
    <2>1. applier[a] \in Applying
      BY <1>9, ApplierAtWork DEF PassGate
    <2>2. [applier[a] EXCEPT !.at = "gated"] \in Applying
      BY <2>1 DEF Applying
    <2>3. applier' \in [Appliers -> Applying \cup {Idle}]
      BY <1>9, <2>2 DEF PassGate, ApprovalsTypeOK
    <2>4. QED
      BY <1>9, <2>3 DEF PassGate, ApprovalsTypeOK
  <1>10. ASSUME NEW a \in Appliers, WriteFile(a) PROVE ApprovalsTypeOK'
    <2>1. applier[a] \in Applying
      BY <1>10, ApplierAtWork DEF WriteFile
    <2>2. [applier[a] EXCEPT !.at = "written"] \in Applying
      BY <2>1 DEF Applying
    <2>3. applier' \in [Appliers -> Applying \cup {Idle}]
      BY <1>10, <2>2 DEF WriteFile, ApprovalsTypeOK
    <2>4. copies < MaxCopies /\ (copies' = copies \/ copies' = copies + 1)
      BY <1>10 DEF WriteFile
    <2>5. copies' \in 0..MaxCopies
      BY <2>4, ApprovalsAssumption DEF ApprovalsAssumption, ApprovalsTypeOK
    <2>6. QED
      BY <1>10, <2>3, <2>5 DEF WriteFile, ApprovalsTypeOK
  <1>11. ASSUME NEW a \in Appliers, Archive(a) \/ Unstage(a) PROVE ApprovalsTypeOK'
    <2> DEFINE row == IF applier[a].at = "written" THEN applier[a].row ELSE NoRow
    <2>1. applier[a] \in Applying
      BY <1>11, ApplierAtWork DEF Archive, Unstage
    <2>2. /\ [applier[a] EXCEPT !.at = "archived", !.row = row] \in Applying
          /\ [applier[a] EXCEPT !.at = "moved"] \in Applying
      BY <2>1 DEF Applying
    <2>3. \/ applier' = [applier EXCEPT ![a] = [@ EXCEPT !.at = "archived", !.row = row]]
          \/ applier' = [applier EXCEPT ![a] = [@ EXCEPT !.at = "moved"]]
      BY <1>11 DEF Archive, Unstage
    <2>4. applier' \in [Appliers -> Applying \cup {Idle}]
      BY <2>2, <2>3 DEF ApprovalsTypeOK
    <2>5. archives' \subseteq {"applied", "rejected"} /\ staged' \in BOOLEAN
      BY <1>11 DEF Archive, Unstage, ApprovalsTypeOK
    <2>6. QED
      BY <1>11, <2>4, <2>5 DEF Archive, Unstage, ApprovalsTypeOK
  <1>12. ASSUME NEW a \in Appliers, StampApplied(a) \/ ApplierDies(a) PROVE ApprovalsTypeOK'
    <2>1. applier' \in [Appliers -> Applying \cup {Idle}]
      BY <1>12 DEF StampApplied, ApplierDies, ApprovalsTypeOK
    <2>2. \A r \in Rows : [approval[r] EXCEPT !.applied = TRUE] \in Standings
      BY DEF Standings, ApprovalsTypeOK
    <2>3. approval' \in [Rows -> Standings]
      BY <1>12, <2>2 DEF StampApplied, ApplierDies, ApprovalsTypeOK
    <2>4. QED
      BY <1>12, <2>1, <2>3 DEF StampApplied, ApplierDies, ApprovalsTypeOK
  <1>13. ASSUME RejectProposal PROVE ApprovalsTypeOK'
    BY <1>13 DEF RejectProposal, Applying, ApprovalsTypeOK
  <1>14. QED
    BY <1>1, <1>2, <1>3, <1>4, <1>5, <1>6, <1>7, <1>8, <1>9, <1>10, <1>11, <1>12, <1>13
       DEF ApprovalsNext, ApplierStep

\* Whose status may become what: the two steps that a decision takes, and that
\* nothing else approves a row or touches the one a decision is open for.
LEMMA StatusStep ==
    ASSUME ApprovalsTypeOK, DecidesPending, ApprovalsNext
    PROVE  /\ \A r \in Rows : \/ approval'[r].status = approval[r].status
                             \/ approval'[r].status \in {"expired", "absent"}
                             \/ approval[r].status \in {"absent", "pending"}
           /\ \A r \in Rows : approval'[r].status = "approved" /\ approval[r].status # "approved"
                               => consent'
           /\ DecidesPending'
           /\ consent => consent'
  <1> USE DEF DecidesPending, ApprovalsTypeOK, Standings
  <1> DEFINE StepOK ==
           /\ \A r \in Rows : \/ approval'[r].status = approval[r].status
                             \/ approval'[r].status \in {"expired", "absent"}
                             \/ approval[r].status \in {"absent", "pending"}
           /\ \A r \in Rows : approval'[r].status = "approved" /\ approval[r].status # "approved"
                               => consent'
           /\ DecidesPending'
           /\ consent => consent'
  <1>1. ASSUME NEW p \in Producers, RaiseLooks(p) PROVE StepOK
    BY <1>1 DEF RaiseLooks
  <1>2. ASSUME NEW p \in Producers, RaiseInserts(p) PROVE StepOK
    BY <1>2 DEF RaiseInserts
  <1>3. ASSUME NEW r \in Rows, BecomesOverdue(r) \/ FindExpired(r) PROVE StepOK
    BY <1>3 DEF BecomesOverdue, FindExpired
  <1>4. ASSUME NEW r \in Rows, Expire(r) \/ WriteExpired(r) PROVE StepOK
    BY <1>4 DEF Expire, WriteExpired
  <1>5. ASSUME NEW r \in Rows, DeleteDecided(r) PROVE StepOK
    BY <1>5 DEF DeleteDecided, NotRaised
  <1>6. ASSUME NEW r \in Rows, NEW to \in {"approved", "rejected"}, DecideChecks(r, to)
        PROVE  StepOK
    BY <1>6, OpenDecision DEF DecideChecks, MayDecide
  <1>7. ASSUME DecideCommits PROVE StepOK
    BY <1>7, OpenDecision DEF DecideCommits
  <1>8. ASSUME UNCHANGED <<approval, deciding, consent>> PROVE StepOK
    BY <1>8
  <1>9. ASSUME NEW a \in Appliers, StampApplied(a) PROVE StepOK
    BY <1>9 DEF StampApplied
  <1>10. QED
    BY <1>1, <1>2, <1>3, <1>4, <1>5, <1>6, <1>7, <1>8, <1>9
       DEF ApprovalsNext, ApplierStep, OperatorApplies, PassGate, WriteFile, Archive, Unstage,
           ApplierDies, RejectProposal

\* What one step makes of an applier.
NextPlace(old, new) ==
    \/ new.at = "idle"
    \/ old.at = "called" /\ new.at = "gated"
    \/ old.at = "gated" /\ new.at = "written" /\ copies' > 0
    \/ /\ old.at \in {"written", "rejecting"} /\ new.at = "archived"
       /\ new.row = IF old.at = "written" THEN old.row ELSE NoRow
       /\ archives' # {}
    \/ old.at \in {"written", "rejecting", "archived"} /\ new.at = "moved" /\ new.row = old.row

LEMMA ApplierFollows ==
    ASSUME ApprovalsTypeOK, NEW a \in Appliers, ApplierStep(a)
    PROVE  /\ NextPlace(applier[a], applier'[a])
           /\ \A b \in Appliers : b # a => applier'[b] = applier[b]
           /\ copies' >= copies /\ archives \subseteq archives'
  <1> USE DEF ApprovalsTypeOK, NextPlace
  <1> DEFINE Kept == /\ \A b \in Appliers : b # a => applier'[b] = applier[b]
                     /\ copies' >= copies /\ archives \subseteq archives'
  <1>1. ASSUME applier' = [applier EXCEPT ![a] = Idle], UNCHANGED <<copies, archives>>
        PROVE  NextPlace(applier[a], applier'[a]) /\ Kept
    BY <1>1 DEF Idle
  <1>2. ASSUME NEW step, applier' = [applier EXCEPT ![a].at = step], applier[a].at # "idle"
        PROVE  /\ applier'[a].at = step /\ applier'[a].row = applier[a].row
               /\ \A b \in Appliers : b # a => applier'[b] = applier[b]
    <2>1. applier[a] \in Applying
      BY <1>2, ApplierAtWork
    <2>2. QED
      BY <1>2, <2>1 DEF Applying
  <1>3. CASE PassGate(a)
    <2>1. /\ applier[a].at = "called" /\ UNCHANGED <<copies, archives>>
          /\ \/ applier' = [applier EXCEPT ![a].at = "gated"]
             \/ applier' = [applier EXCEPT ![a] = Idle]
      BY <1>3 DEF PassGate
    <2>2. CASE applier' = [applier EXCEPT ![a].at = "gated"]
      BY <1>2, <2>1, <2>2
    <2>3. CASE applier' = [applier EXCEPT ![a] = Idle]
      BY <1>1, <2>1, <2>3
    <2>4. QED
      BY <2>1, <2>2, <2>3
  <1>4. CASE WriteFile(a)
    <2>1. copies' = copies \/ copies' = copies + 1
      BY <1>4 DEF WriteFile
    <2>2. CASE applier' = [applier EXCEPT ![a].at = "written"] /\ copies' = copies + 1
      BY <1>2, <1>4, <2>2 DEF WriteFile
    <2>3. CASE applier' = [applier EXCEPT ![a] = Idle] /\ UNCHANGED copies
      BY <1>1, <1>4, <2>3 DEF WriteFile
    <2>4. QED
      BY <1>4, <2>2, <2>3 DEF WriteFile
  <1>5. CASE Archive(a)
    <2> DEFINE row == IF applier[a].at = "written" THEN applier[a].row ELSE NoRow
    <2>1. applier[a] \in Applying
      BY <1>5, ApplierAtWork DEF Archive
    <2>2. CASE staged
      <3>1. applier' = [applier EXCEPT ![a] = [@ EXCEPT !.at = "archived", !.row = row]]
        BY <1>5, <2>2 DEF Archive
      <3>2. applier'[a].at = "archived" /\ applier'[a].row = row
        BY <2>1, <3>1 DEF Applying
      <3>3. QED
        BY <1>5, <2>2, <3>1, <3>2 DEF Archive
    <2>3. CASE ~staged
      BY <1>2, <1>5, <2>3 DEF Archive
    <2>4. QED
      BY <2>2, <2>3
  <1>6. CASE Unstage(a)
    <2>1. applier[a].at # "idle" /\ applier' = [applier EXCEPT ![a].at = "moved"]
      BY <1>6 DEF Unstage
    <2>2. QED
      BY <1>2, <1>6, <2>1 DEF Unstage
  <1>7. CASE StampApplied(a) \/ ApplierDies(a)
    BY <1>1, <1>7 DEF StampApplied, ApplierDies
  <1>8. QED
    BY <1>3, <1>4, <1>5, <1>6, <1>7 DEF ApplierStep

\* An applier begins with an approved row, or goes on.
LEMMA ConsentStep ==
    ASSUME ApprovalsTypeOK, Consented, DecidesPending, ApprovalsNext
    PROVE  Consented'
  <1> DEFINE Starts == {"called", "gated", "written"}
  <1>1. /\ \A r \in Rows : approval'[r].status = "approved" => consent'
        /\ consent => consent'
    BY StatusStep DEF Consented
  <1>2. \A a \in Appliers : applier'[a].at \in Starts => consent'
    <2>1. ASSUME UNCHANGED applier PROVE <1>2
      BY <1>1, <2>1 DEF Consented
    <2>2. ASSUME DecideCommits PROVE <1>2
      BY <1>1, <2>2 DEF DecideCommits, Consented, ApprovalsTypeOK
    <2>3. ASSUME NEW r \in Rows, OperatorApplies(r) PROVE <1>2
      BY <2>3 DEF OperatorApplies, MayApply, Consented, ApprovalsTypeOK
    <2>4. ASSUME NEW a \in Appliers, ApplierStep(a) PROVE <1>2
      BY <1>1, <2>4, ApplierFollows DEF NextPlace, Consented
    <2>5. ASSUME RejectProposal PROVE <1>2
      BY <2>5 DEF RejectProposal, Consented, ApprovalsTypeOK
    <2>6. QED
      BY <2>1, <2>2, <2>3, <2>4, <2>5
         DEF ApprovalsNext, RaiseLooks, RaiseInserts, BecomesOverdue, Expire, FindExpired,
             WriteExpired, DeleteDecided, DecideChecks
  <1>3. QED
    BY <1>1, <1>2 DEF Consented

\* What has been written is stamped, and what was archived is kept.
LEMMA WrittenStep ==
    ASSUME ApprovalsTypeOK, Written, ApprovalsNext
    PROVE  Written' /\ (copies > 0 => copies' > 0) /\ archives \subseteq archives'
  <1> DEFINE StepOK == Written' /\ (copies > 0 => copies' > 0) /\ archives \subseteq archives'
  <1>1. ASSUME UNCHANGED <<applier, copies, archives>> PROVE StepOK
    BY <1>1 DEF Written
  <1>2. ASSUME DecideCommits PROVE StepOK
    BY <1>2 DEF DecideCommits, Written, ApprovalsTypeOK
  <1>3. ASSUME NEW r \in Rows, OperatorApplies(r) PROVE StepOK
    BY <1>3 DEF OperatorApplies, Written, ApprovalsTypeOK
  <1>4. ASSUME NEW a \in Appliers, ApplierStep(a) PROVE StepOK
    <2>1. /\ NextPlace(applier[a], applier'[a])
          /\ \A b \in Appliers : b # a => applier'[b] = applier[b]
          /\ copies' >= copies /\ archives \subseteq archives'
      BY <1>4, ApplierFollows
    <2>2. copies > 0 => copies' > 0
      <3>1. copies \in Nat /\ copies' \in Nat
        BY TypeStep, ApprovalsAssumption DEF ApprovalsTypeOK, ApprovalsAssumption
      <3>2. QED
        BY <2>1, <3>1
    <2>3. archives # {} => archives' # {}
      BY <2>1
    <2>4. \A b \in Appliers : b # a =>
              /\ applier'[b].at \in {"archived", "moved"} /\ applier'[b].row # NoRow => copies' > 0
              /\ applier'[b].at = "written" => copies' > 0
              /\ applier'[b].at = "rejecting" => applier'[b].row = NoRow
              /\ applier'[b].at = "archived" => archives' # {}
      BY <2>1, <2>2, <2>3 DEF Written
    <2>5. /\ applier'[a].at \in {"archived", "moved"} /\ applier'[a].row # NoRow => copies' > 0
          /\ applier'[a].at = "written" => copies' > 0
          /\ applier'[a].at = "rejecting" => applier'[a].row = NoRow
          /\ applier'[a].at = "archived" => archives' # {}
      BY <2>1, <2>2 DEF NextPlace, Written
    <2>6. QED
      BY <2>1, <2>2, <2>4, <2>5 DEF Written
  <1>5. ASSUME RejectProposal PROVE StepOK
    BY <1>5 DEF RejectProposal, Written, ApprovalsTypeOK
  <1>6. QED
    BY <1>1, <1>2, <1>3, <1>4, <1>5
       DEF ApprovalsNext, RaiseLooks, RaiseInserts, BecomesOverdue, Expire, FindExpired,
           WriteExpired, DeleteDecided, DecideChecks

\* Consent comes before the change, the stamp after it, and the staging file is
\* rewritten after the archive.
LEMMA ChangeStep ==
    ASSUME ApprovalsInv, ApprovalsNext
    PROVE  ChangeFollowsConsent'
  <1>1. /\ ApprovalsTypeOK /\ Consented /\ Written /\ DecidesPending
        /\ ConsentBeforeChange /\ StampedIsChanged /\ ProposalKept
    BY DEF ApprovalsInv, ChangeFollowsConsent
  <1>2. /\ consent => consent'
        /\ copies > 0 => copies' > 0
        /\ archives \subseteq archives'
    BY <1>1, StatusStep, WrittenStep
  <1>3. ConsentBeforeChange'
    <2>1. ASSUME UNCHANGED copies PROVE ConsentBeforeChange'
      BY <1>1, <1>2, <2>1 DEF ConsentBeforeChange
    <2>2. ASSUME NEW a \in Appliers, WriteFile(a) PROVE ConsentBeforeChange'
      BY <1>1, <1>2, <2>2 DEF WriteFile, Consented, ConsentBeforeChange
    <2>3. QED
      BY <2>1, <2>2
         DEF ApprovalsNext, ApplierStep, RaiseLooks, RaiseInserts, BecomesOverdue, Expire,
             FindExpired, WriteExpired, DeleteDecided, DecideChecks, DecideCommits,
             OperatorApplies, PassGate, Archive, Unstage, StampApplied, ApplierDies,
             RejectProposal
  <1>4. StampedIsChanged'
    <2> SUFFICES ASSUME NEW r \in Rows, approval'[r].applied, ~approval[r].applied
                 PROVE  copies > 0
      BY <1>1, <1>2 DEF StampedIsChanged
    <2> USE <1>1 DEF ApprovalsTypeOK, Standings
    <2>1. ASSUME NEW p \in Producers, RaiseInserts(p) PROVE FALSE
      BY <2>1 DEF RaiseInserts
    <2>2. ASSUME NEW q \in Rows, Expire(q) \/ WriteExpired(q) PROVE FALSE
      BY <2>2 DEF Expire, WriteExpired
    <2>3. ASSUME NEW q \in Rows, DeleteDecided(q) PROVE FALSE
      BY <2>3 DEF DeleteDecided, NotRaised
    <2>4. ASSUME DecideCommits PROVE FALSE
      BY <2>4, OpenDecision DEF DecideCommits
    <2>5. ASSUME NEW a \in Appliers, StampApplied(a) PROVE copies > 0
      <3>1. applier[a].at = "moved" /\ applier[a].row = r
        BY <2>5 DEF StampApplied, Finished
      <3>2. applier[a].row # NoRow
        BY <3>1, ApprovalsAssumption DEF ApprovalsAssumption
      <3>3. QED
        BY <3>1, <3>2 DEF Written
    <2>6. ASSUME UNCHANGED approval PROVE FALSE
      BY <2>6
    <2>7. QED
      BY <2>1, <2>2, <2>3, <2>4, <2>5, <2>6
         DEF ApprovalsNext, ApplierStep, RaiseLooks, BecomesOverdue, FindExpired, DecideChecks,
             OperatorApplies, PassGate, WriteFile, Archive, Unstage, ApplierDies, RejectProposal
  <1>5. ProposalKept'
    <2>1. ASSUME UNCHANGED staged PROVE ProposalKept'
      BY <1>1, <1>2, <2>1 DEF ProposalKept
    <2>2. ASSUME NEW a \in Appliers, Unstage(a) PROVE ProposalKept'
      BY <1>1, <1>2, <2>2 DEF Unstage, Written, ProposalKept
    <2>3. QED
      BY <2>1, <2>2
         DEF ApprovalsNext, ApplierStep, RaiseLooks, RaiseInserts, BecomesOverdue, Expire,
             FindExpired, WriteExpired, DeleteDecided, DecideChecks, DecideCommits,
             OperatorApplies, PassGate, WriteFile, Archive, StampApplied, ApplierDies,
             RejectProposal
  <1>6. QED
    BY <1>3, <1>4, <1>5 DEF ChangeFollowsConsent

-----------------------------------------------------------------------------
LEMMA ApprovalsStep == ApprovalsInv /\ [ApprovalsNext]_approvalsVars => ApprovalsInv'
  <1> SUFFICES ASSUME ApprovalsInv, [ApprovalsNext]_approvalsVars
               PROVE  ApprovalsInv'
    OBVIOUS
  <1>1. CASE ApprovalsNext
    BY <1>1, TypeStep, StatusStep, ConsentStep, WrittenStep, ChangeStep DEF ApprovalsInv
  <1>2. CASE UNCHANGED approvalsVars
    BY <1>2 DEF approvalsVars, ApprovalsInv, ApprovalsTypeOK, Consented, Written, DecidesPending,
                ChangeFollowsConsent, ConsentBeforeChange, StampedIsChanged, ProposalKept,
                Standings, Applying, Undecided, Idle
  <1>3. QED
    BY <1>1, <1>2

THEOREM ApprovalsInvariant == ApprovalsSpec => []ApprovalsInv
  BY ApprovalsInitially, ApprovalsStep, PTL DEF ApprovalsSpec

\* However many rows a proposal has, and whoever decides, applies, rejects,
\* expires or dies in between: the memory file is changed only after a consent,
\* a row is stamped only when it is changed, and the proposal is in staging or
\* in an archive (decide, _run_callback, apply_proposal, move_proposal).
THEOREM ChangesHaveConsent == ApprovalsSpec => []ChangeFollowsConsent
  <1>1. ApprovalsInv => ChangeFollowsConsent
    BY DEF ApprovalsInv
  <1>2. QED
    BY <1>1, ApprovalsInvariant, PTL

\* A decision is never replaced by the opposite one, for any number of rows.
THEOREM DecisionsStand == ApprovalsSpec => DecisionStands
  <1>1. ApprovalsInv /\ [ApprovalsNext]_approvalsVars =>
            [\A r \in Rows :
                approval[r].status \in {"approved", "rejected"}
                => approval'[r].status \in {approval[r].status, "expired", "absent"}]_approvalsVars
    BY StatusStep DEF ApprovalsInv
  <1>2. QED
    BY <1>1, ApprovalsInvariant, PTL DEF ApprovalsSpec, DecisionStands

-----------------------------------------------------------------------------
(* The services side by side: what holds of each holds of all of them. *)

\* A step of the whole is, on each component, a step of it or a stutter.
LEMMA EachMovesAlone ==
    ASSUME [Next]_servicesVars
    PROVE  /\ [WorkersNext]_workersVars /\ [DaemonNext]_daemonVars /\ [SessionsNext]_sessionsVars
           /\ [TelegramNext]_telegramVars /\ [EmailPollNext]_emailPollVars /\ [FeedNext]_feedVars
           /\ [CommitmentsNext]_commitmentsVars /\ [EmailDraftsNext]_emailDraftsVars
           /\ [SendNext]_sendVars /\ [InboxNext]_inboxVars /\ [EnrollmentNext]_enrollmentVars
           /\ [ApprovalsNext]_approvalsVars /\ [ReauthNext]_reauthVars
  BY DEF Next, servicesVars

\* Of what a source no longer offers nothing was passed over: the updates of the
\* bot, the mails, the tasks of the company's feed.
THEOREM NothingIsPassedOver == Spec => []NothingPassedOver
  <1>1. Init => TelegramInv /\ MailInv /\ FeedInv
    BY TelegramInitially, MailInitially, FeedInitially DEF Init
  <1>2. TelegramInv /\ MailInv /\ FeedInv /\ [Next]_servicesVars => (TelegramInv /\ MailInv /\ FeedInv)'
    BY EachMovesAlone, TelegramStays, MailStays, FeedStays
  <1>3. TelegramInv /\ MailInv /\ FeedInv => NothingPassedOver
    BY DEF NothingPassedOver, TelegramInv, TracedBelow, UpdatesAccountedFor, Traced,
       MailInv, MailsAccountedFor, Accounted, FeedInv, ToldUpTo, UpdatesTold
  <1>4. QED
    BY <1>1, <1>2, <1>3, PTL DEF Spec

\* What is written to somebody once goes out once: the touch of a silence, the mail of
\* a draft, the reply in a chat, each but for what its sender cannot know.
THEOREM WritingsGoOnce == Spec => []SentOnce
  <1>1. Init => CommitmentsInv /\ DraftsInv /\ SendInv
    BY CommitmentsInitially, RetriesInitially, DraftsInitially, SendInitially
       DEF Init, CommitmentsInv
  <1>2. CommitmentsInv /\ DraftsInv /\ SendInv /\ [Next]_servicesVars
           => (CommitmentsInv /\ DraftsInv /\ SendInv)'
    BY EachMovesAlone, CommitmentsStay, DraftsStay, SendStays
  <1>3. CommitmentsInv /\ DraftsInv /\ SendInv => SentOnce
    BY TouchesKept, DraftsKept, SendKept DEF SentOnce
  <1>4. QED
    BY <1>1, <1>2, <1>3, PTL DEF Spec

\* The company's tasks are followed: one that is called closed is over, and the key
\* to them is kept.
THEOREM TasksAreReached == Spec => []TasksReached
  <1>1. Init => InboxInv /\ EnrollmentInv
    BY InboxInitially, EnrollmentInitially DEF Init
  <1>2. InboxInv /\ EnrollmentInv /\ [Next]_servicesVars => (InboxInv /\ EnrollmentInv)'
    BY EachMovesAlone, InboxStays, EnrollmentStays
  <1>3. InboxInv /\ EnrollmentInv => TasksReached
    BY EnrollmentKeeps DEF InboxInv, TasksReached
  <1>4. QED
    BY <1>1, <1>2, <1>3, PTL DEF Spec

-----------------------------------------------------------------------------
(* The types of the services: what their promises do not need, kept with   *)
(* the invariants that the promises rest on.                               *)

\* The types that the promise of the Telegram channel does not need: where the
\* poller can stand, and that an update that was given up is not offered again.
TelegramRest ==
    /\ confirmed <= MaxUpdates + 1 /\ offset <= MaxUpdates + 1
    /\ failing \in [update : 0..MaxUpdates, count : 0..Tries]
    /\ failing.count = Tries =>
          failing.update < offset /\ \A u \in results : failing.update < u
    /\ escaped \subseteq Updates /\ troubles \in 0..MaxTroubles

LEMMA TelegramRests ==
    ASSUME TelegramInv, TelegramRest, [TelegramNext]_telegramVars
    PROVE  TelegramRest'
  <1>0. /\ MaxUpdates \in Nat /\ MaxTroubles \in Nat /\ Tries = 3
        /\ arrived \in 0..MaxUpdates /\ offset \in Nat /\ confirmed \in Nat
        /\ results \subseteq Updates /\ Updates = 1..MaxUpdates
        /\ troubles \in 0..MaxTroubles
    BY TelegramAssumption DEF TelegramAssumption, TelegramInv, TelegramTyped, Tries, Updates,
                              TelegramRest
  <1>1. NoFailure \in [update : 0..MaxUpdates, count : 0..Tries] /\ NoFailure.count = 0
    BY <1>0 DEF NoFailure
  <1>2. CASE UpdateArrives
    BY <1>2 DEF UpdateArrives, TelegramRest
  <1>3. CASE GetUpdates
    BY <1>0, <1>3 DEF GetUpdates, TelegramRest
  <1>4. CASE PollerCrashes
    BY <1>0, <1>1, <1>4 DEF PollerCrashes, TelegramRest
  <1>5. ASSUME NEW u \in results, Earliest(u), HandledHere(u)
        PROVE  TelegramRest'
    <2>1. u \in 1..MaxUpdates /\ offset' = Past(u) /\ results' = results \ {u}
          /\ UNCHANGED <<confirmed, failing, escaped, troubles>>
      BY <1>0, <1>5 DEF HandledHere
    <2>2. QED
      BY <1>0, <2>1 DEF TelegramRest, Past
  <1>6. ASSUME NEW u \in results, Earliest(u), Enqueued(u)
        PROVE  TelegramRest'
    <2>1. u \in 1..MaxUpdates /\ offset' = Past(u) /\ failing' = NoFailure
          /\ UNCHANGED <<confirmed, escaped, troubles>>
      BY <1>0, <1>6 DEF Enqueued
    <2>2. QED
      BY <1>0, <1>1, <2>1 DEF TelegramRest, Past
  <1>7. ASSUME NEW u \in results, Earliest(u), EnqueueRaises(u)
        PROVE  TelegramRest'
    <2> DEFINE count == IF failing.update = u THEN failing.count + 1 ELSE 1
    <2>1. /\ u \in 1..MaxUpdates /\ UNCHANGED <<confirmed, escaped>>
          /\ troubles < MaxTroubles /\ troubles' = troubles + 1
          /\ failing' = [update |-> u, count |-> count]
          /\ count >= Tries => offset' = Past(u) /\ results' = results \ {u}
          /\ ~ (count >= Tries) => offset' = u /\ results' = {}
      BY <1>0, <1>7 DEF EnqueueRaises, Rewound
    <2>2. count \in 1..Tries
      BY <1>0 DEF TelegramRest
    <2>3. /\ failing' \in [update : 0..MaxUpdates, count : 0..Tries]
          /\ failing'.update = u /\ failing'.count = count
      BY <1>0, <2>1, <2>2
    <2>4. \A v \in results : v # u => u < v
      BY <1>0, <1>7 DEF Earliest
    <2> HIDE DEF count
    <2>5. offset' <= MaxUpdates + 1 /\ confirmed' <= MaxUpdates + 1
      BY <1>0, <2>1 DEF TelegramRest, Past
    <2>6. ASSUME failing'.count = Tries
          PROVE  failing'.update < offset' /\ \A v \in results' : failing'.update < v
      <3>1. offset' = Past(u) /\ results' = results \ {u}
        BY <1>0, <2>1, <2>2, <2>3, <2>6
      <3>2. u < offset'
        BY <1>0, <2>1, <3>1 DEF Past
      <3>3. QED
        BY <2>3, <2>4, <3>1, <3>2
    <2>7. escaped' \subseteq Updates' /\ troubles' \in 0..MaxTroubles
      BY <1>0, <2>1 DEF TelegramRest, Updates
    <2>8. QED
      BY <2>3, <2>5, <2>6, <2>7 DEF TelegramRest, Updates
  <1>8. ASSUME NEW u \in results, Earliest(u), Escapes(u)
        PROVE  TelegramRest'
    <2>1. u \in 1..MaxUpdates /\ offset' = Past(u) /\ results' = {}
          /\ UNCHANGED <<confirmed, failing>> /\ escaped' = escaped \cup {u}
          /\ troubles < MaxTroubles /\ troubles' = troubles + 1
      BY <1>0, <1>8 DEF Escapes
    <2>2. QED
      BY <1>0, <2>1 DEF TelegramRest, Past
  <1>9. CASE UNCHANGED telegramVars
    BY <1>9 DEF telegramVars, TelegramRest
  <1>10. QED
    BY <1>2, <1>3, <1>4, <1>5, <1>6, <1>7, <1>8, <1>9 DEF TelegramNext

LEMMA TelegramIsTyped ==
    /\ TelegramInit => TelegramRest
    /\ TelegramInv /\ TelegramRest => TelegramTypeOK
  <1>1. MaxUpdates \in Nat /\ MaxTroubles \in Nat
    BY TelegramAssumption DEF TelegramAssumption
  <1>2. QED
    BY <1>1 DEF TelegramInit, TelegramRest, NoFailure, Tries, Updates, TelegramInv, TelegramTyped,
                TelegramTypeOK

\* The types of the feed that the promise does not need.
FeedRest ==
    /\ relayed \subseteq 1..MaxNotes /\ origin <= MaxNotes /\ breaks \in 0..MaxBreaks

LEMMA FeedRests ==
    ASSUME FeedInv, FeedRest, [FeedNext]_feedVars
    PROVE  FeedRest'
  <1>0. MaxNotes \in Nat /\ MaxBreaks \in Nat /\ reader.todo \subseteq 1..MaxNotes
        /\ Len(feed) <= MaxNotes
    BY CompanyFeedAssumption DEF CompanyFeedAssumption, FeedInv, FeedTyped
  <1>1. QED
    BY <1>0 DEF FeedRest, FeedNext, Publish, ReadFeed, InjectUpdate, AdvanceCursor, SaveCursor,
                UpdateRaises, FeedRestarts, feedVars

LEMMA FeedIsTyped ==
    /\ FeedInit => FeedRest
    /\ FeedInv /\ FeedRest => FeedTypeOK
  <1>1. MaxNotes \in Nat /\ MaxBreaks \in Nat /\ NoCursor = MaxNotes + 1
    BY CompanyFeedAssumption DEF CompanyFeedAssumption, NoCursor
  <1>2. FeedInit => FeedRest
    BY <1>1 DEF FeedInit, FeedRest
  <1>3. ASSUME FeedInv, FeedRest
        PROVE  FeedTypeOK
    <2>1. Len(feed) \in 0..MaxNotes /\ feed \in [1..Len(feed) -> FeedTasks]
      BY <1>1, <1>3 DEF FeedInv, FeedTyped
    <2>2. feed \in UNION {[1..n -> FeedTasks] : n \in 0..MaxNotes}
      BY <2>1
    <2>3. cursor \in 0..NoCursor /\ cursorFile \in 0..NoCursor
      BY <1>1, <1>3, <2>1 DEF FeedInv, ToldUpTo
    <2>4. QED
      BY <1>1, <1>3, <2>2, <2>3 DEF FeedInv, FeedTyped, FeedRest, FeedTypeOK
  <1>4. QED
    BY <1>2, <1>3

\* The types of the workers that the promise does not need.
Notices == [Terminal -> {"none", "torn", "whole", "bad"}]
WorkersRest ==
    /\ adapter \in [Workers -> {"none", "live", "ended"}]
    /\ fresh \subseteq Workers
    /\ canceller \in [Workers -> {"none", "sawPid", "sawNull", "killed", "marked", "telling"}]
    /\ notice \in [Workers -> Notices]
    /\ told \in [Workers -> SUBSET Terminal]

LEMMA WorkersRestsStay ==
    ASSUME WorkersRest, [WorkersNext]_workersVars
    PROVE  WorkersRest'
  <1>0. WorkersRest
    OBVIOUS
  <1>1. ASSUME NEW w \in Workers, \/ Create(w) \/ DoubleFork(w) \/ RecordPid(w) \/ SpawnDies(w)
                                  \/ StartRun(w) \/ AdapterEnds(w) \/ Conclude(w) \/ RunnerDies(w)
                                  \/ CancelReads(w) \/ CancelKills(w) \/ CancelMarks(w)
                                  \/ GrowsOld(w) \/ CollectGarbage(w) \/ ReconcileChecks(w)
                                  \/ ReconcileMarks(w) \/ ReconcileReads
        PROVE  WorkersRest'
    <2>1. UNCHANGED <<notice, told>>
      BY <1>1 DEF Create, DoubleFork, RecordPid, SpawnDies, StartRun, AdapterEnds, Conclude,
                  RunnerDies, CancelReads, CancelKills, CancelMarks, GrowsOld, CollectGarbage,
                  ReconcileChecks, ReconcileMarks, ReconcileReads
    <2>2. \/ UNCHANGED adapter
          \/ \E s \in {"live", "ended"} : adapter' = [adapter EXCEPT ![w] = s]
      BY <1>1 DEF Create, DoubleFork, RecordPid, SpawnDies, StartRun, AdapterEnds, Conclude,
                  RunnerDies, CancelReads, CancelKills, CancelMarks, GrowsOld, CollectGarbage,
                  ReconcileChecks, ReconcileMarks, ReconcileReads
    <2>3. fresh' \subseteq fresh \cup {w}
      BY <1>1 DEF Create, DoubleFork, RecordPid, SpawnDies, StartRun, AdapterEnds, Conclude,
                  RunnerDies, CancelReads, CancelKills, CancelMarks, GrowsOld, CollectGarbage,
                  ReconcileChecks, ReconcileMarks, ReconcileReads
    <2>4. \/ UNCHANGED canceller
          \/ \E s \in {"sawPid", "sawNull", "killed", "marked"} :
                canceller' = [canceller EXCEPT ![w] = s]
      BY <1>1 DEF Create, DoubleFork, RecordPid, SpawnDies, StartRun, AdapterEnds, Conclude,
                  RunnerDies, CancelReads, CancelKills, CancelMarks, GrowsOld, CollectGarbage,
                  ReconcileChecks, ReconcileMarks, ReconcileReads
    <2>5. QED
      BY <1>0, <2>1, <2>2, <2>3, <2>4 DEF WorkersRest
  <1>2. ASSUME NEW w \in Workers, NEW s \in Terminal, NEW to \in {"none", "torn", "bad"},
               notice' = [notice EXCEPT ![w][s] = to]
        PROVE  notice' \in [Workers -> Notices]
    BY <1>0, <1>2 DEF WorkersRest, Notices
  <1>3. ASSUME NEW w \in Workers, CloseNotice(w)
        PROVE  notice' \in [Workers -> Notices]
    BY <1>0, <1>3 DEF CloseNotice, WorkersRest, Notices
  <1>4. ASSUME NEW w \in Workers, NEW s \in Terminal, told' = [told EXCEPT ![w] = told[w] \cup {s}]
        PROVE  told' \in [Workers -> SUBSET Terminal]
    BY <1>0, <1>4 DEF WorkersRest
  <1>5. ASSUME NEW w \in Workers, RunnerNotifies(w) \/ RunnerWritesNotice(w)
        PROVE  WorkersRest'
    <2>1. UNCHANGED <<adapter, fresh, canceller>>
      BY <1>5 DEF RunnerNotifies, RunnerWritesNotice
    <2>2. notice' \in [Workers -> Notices]
      BY <1>0, <1>2, <1>3, <1>5 DEF RunnerNotifies, RunnerWritesNotice, OpenNotice, WorkersRest
    <2>3. told' \in [Workers -> SUBSET Terminal]
      BY <1>0, <1>4, <1>5 DEF RunnerNotifies, RunnerWritesNotice, WorkersRest, Terminal
    <2>4. QED
      BY <1>0, <2>1, <2>2, <2>3 DEF WorkersRest
  <1>6. ASSUME NEW w \in Workers, CancelNotifies(w)
        PROVE  WorkersRest'
    <2>1. UNCHANGED <<adapter, fresh, told>>
          /\ \E s \in {"telling", "none"} : canceller' = [canceller EXCEPT ![w] = s]
      BY <1>6 DEF CancelNotifies
    <2>2. notice' \in [Workers -> Notices]
      BY <1>0, <1>2, <1>3, <1>6 DEF CancelNotifies, OpenNotice, WorkersRest
    <2>3. QED
      BY <1>0, <2>1, <2>2 DEF WorkersRest
  <1>7. ASSUME NEW w \in Workers, ConsumeNotice(w)
        PROVE  WorkersRest'
    <2>1. UNCHANGED <<adapter, fresh, canceller>>
      BY <1>7 DEF ConsumeNotice
    <2>2. PICK s \in Terminal :
            \/ told' = [told EXCEPT ![w] = told[w] \cup {s}] /\ notice' = [notice EXCEPT ![w][s] = "none"]
            \/ UNCHANGED told /\ notice' = [notice EXCEPT ![w][s] = "bad"]
      BY <1>7 DEF ConsumeNotice
    <2>3. notice' \in [Workers -> Notices]
      BY <1>2, <2>2
    <2>4. told' \in [Workers -> SUBSET Terminal]
      BY <1>0, <1>4, <2>2 DEF WorkersRest
    <2>5. QED
      BY <1>0, <2>1, <2>3, <2>4 DEF WorkersRest
  <1>8. CASE ReconcileReads
    BY <1>0, <1>8 DEF ReconcileReads, WorkersRest
  <1>9. CASE UNCHANGED workersVars
    BY <1>9 DEF workersVars, WorkersRest
  <1>10. QED
    BY <1>1, <1>5, <1>6, <1>7, <1>8, <1>9 DEF WorkersNext, RunnerStep, ReconcileStep

LEMMA WorkersAreTyped ==
    /\ WorkersInit => WorkersRest
    /\ WorkersInv /\ WorkersRest => WorkersTypeOK
  BY DEF WorkersInit, WorkersRest, Notices, WorkersInv, WorkersTyped, WorkersTypeOK

\* The types of the daemons, the sessions and a send that their promises do not need.
DaemonRest == pidfile \in Pids \cup {NoPid}

LEMMA DaemonRests ==
    ASSUME DaemonInv, DaemonRest, [DaemonNext]_daemonVars
    PROVE  DaemonRest'
  <1>1. \A s \in Starters : starter[s].pid \in Pids \cup {NoPid}
    BY DEF DaemonInv, DaemonTyped
  <1>2. QED
    BY <1>1 DEF DaemonRest, DaemonNext, DaemonStep, StartStep, ProcessStep, StartLooks,
                StartReaps, StartForks, StartRecords, Run, EnsurePidfile, Leave, Die, Wedge,
                StopKills, daemonVars

LEMMA DaemonIsTyped ==
    /\ DaemonInit => DaemonRest
    /\ DaemonInv /\ DaemonRest => DaemonTypeOK
  BY DEF DaemonInit, DaemonInv, DaemonTyped, DaemonRest, DaemonTypeOK

SessionsRest ==
    /\ lost \subseteq Natives
    /\ compactor \in [slots : SUBSET Slots, expected : [Slots -> Natives \cup {None}],
                      compared : SUBSET Slots]
    /\ awaiting \subseteq Slots
    /\ blind <= MaxBlind

LEMMA SessionsRests ==
    ASSUME SessionsInv, SessionsRest, [SessionsNext]_sessionsVars
    PROVE  SessionsRest'
  <1> DEFINE Compactors == [slots : SUBSET Slots, expected : [Slots -> Natives \cup {None}],
                            compared : SUBSET Slots]
  <1>0. /\ blind \in Nat /\ MaxBlind \in Nat /\ blind <= MaxBlind
        /\ session \in [Slots -> Natives \cup {None}] /\ Mapped \subseteq Slots
        /\ compactor \in Compactors /\ lost \subseteq Natives /\ awaiting \subseteq Slots
    BY SessionsAssumption DEF SessionsAssumption, SessionsInv, SessionsTyped, SessionsRest, Mapped
  <1>1. NoCompaction \in Compactors
    BY DEF NoCompaction
  <1>2. blind' <= MaxBlind
    <2>1. ASSUME NEW cond, Blind(cond) PROVE blind' <= MaxBlind
      BY <1>0, <2>1 DEF Blind
    <2>2. \/ blind' = blind
          \/ \E cond : Blind(cond)
      BY DEF SessionsNext, TurnStep, CompactStep, PickSlot, ReadSession, Gate, PassesUngated,
                GateRotates, BrainRuns, SessionIsMissing, RecordSession, RecordUsage,
                MissingRecovers, ProfileUnavailable, LoseSession, CompactLists, CompactCompares,
                CompactRotates, CompactEnds, Restart, sessionsVars
    <2>3. QED
      BY <1>0, <2>1, <2>2
  <1>3. lost' \subseteq Natives
    BY <1>0 DEF SessionsNext, TurnStep, CompactStep, PickSlot, ReadSession, Gate, PassesUngated,
                GateRotates, BrainRuns, SessionIsMissing, RecordSession, RecordUsage,
                MissingRecovers, ProfileUnavailable, LoseSession, CompactLists, CompactCompares,
                CompactRotates, CompactEnds, Restart, sessionsVars
  <1>4. awaiting' \subseteq Slots
    BY <1>0 DEF Unmap, SessionsNext, TurnStep, CompactStep, PickSlot, ReadSession, Gate, PassesUngated,
                GateRotates, BrainRuns, SessionIsMissing, RecordSession, RecordUsage,
                MissingRecovers, ProfileUnavailable, LoseSession, CompactLists, CompactCompares,
                CompactRotates, CompactEnds, Restart, sessionsVars
  <1>5. compactor' \in Compactors
    <2>1. ASSUME NEW s \in Slots, CompactLists(s) PROVE compactor' \in Compactors
      BY <1>0, <2>1 DEF CompactLists
    <2>2. ASSUME NEW x \in Slots, CompactCompares(x) PROVE compactor' \in Compactors
      <3>1. \/ compactor' = [compactor EXCEPT !.compared = compactor.compared \cup {x}]
            \/ compactor' = [compactor EXCEPT !.slots = compactor.slots \ {x}]
        BY <2>2 DEF CompactCompares
      <3>2. QED
        BY <1>0, <3>1
    <2>3. ASSUME NEW x \in Slots, CompactRotates(x) PROVE compactor' \in Compactors
      <3>1. compactor' = [compactor EXCEPT !.slots = compactor.slots \ {x},
                                           !.compared = compactor.compared \ {x}]
        BY <2>3 DEF CompactRotates
      <3>2. QED
        BY <1>0, <3>1
    <2>4. ASSUME NEW s \in Slots, CompactEnds(s) PROVE compactor' \in Compactors
      BY <1>1, <2>4 DEF CompactEnds
    <2>5. CASE Restart
      BY <1>1, <2>5 DEF Restart
    <2>6. CASE UNCHANGED compactor
      BY <1>0, <2>6
    <2>7. QED
      BY <2>1, <2>2, <2>3, <2>4, <2>5, <2>6
         DEF SessionsNext, TurnStep, CompactStep, PickSlot, ReadSession, Gate, PassesUngated, GateRotates,
             BrainRuns, SessionIsMissing, RecordSession, RecordUsage, MissingRecovers,
             ProfileUnavailable, LoseSession, sessionsVars
  <1>6. QED
    BY <1>2, <1>3, <1>4, <1>5 DEF SessionsRest

LEMMA SessionsAreTyped ==
    /\ SessionsInit => SessionsRest
    /\ SessionsInv /\ SessionsRest => SessionsTypeOK
  <1>1. MaxBlind \in Nat
    BY SessionsAssumption DEF SessionsAssumption
  <1>2. SessionsInit => SessionsRest
    BY <1>1 DEF SessionsInit, SessionsRest, NoCompaction
  <1>3. SessionsInv /\ SessionsRest => SessionsTypeOK
    BY <1>1 DEF SessionsInv, SessionsTyped, TurnRecord, SessionsRest, SessionsTypeOK
  <1>4. QED
    BY <1>2, <1>3

\* The call that is under way, and what it left in doubt; an answer is said part by part.
CallRecord == [via : {"none", "live", "stateless"}, part : Nat, plain : BOOLEAN, posts : Nat]
DoubtsNamed == doubts \subseteq {"voice", "later part", "stateless"}
SendRest ==
    /\ answer \in [parts : 1..MaxParts, voice : BOOLEAN]
    /\ reservation \in {"none", "sending", "sent"}
    /\ call \in CallRecord
    /\ call.part = Voice => answer.voice /\ ~call.plain
    /\ \A i \in DOMAIN said : said[i] \in 0..answer.parts
    /\ deliveries \in 0..MaxDeliveries
    /\ DoubtsNamed

LEMMA CallOpens ==
    ASSUME NEW via \in {"live", "stateless"}, answer.voice \in BOOLEAN
    PROVE  /\ Opening(via) \in CallRecord /\ [NoCall EXCEPT !.via = via] \in CallRecord
           /\ Opening(via).part = Voice => answer.voice
           /\ ~Opening(via).plain
           /\ [NoCall EXCEPT !.via = via].part = 1
  <1> DEFINE n == IF answer.voice THEN Voice ELSE 1
  <1>1. NoCall \in CallRecord /\ NoCall.part = 1
    BY DEF NoCall, CallRecord
  <1>2. NoCall.plain = FALSE
    BY DEF NoCall
  <1>3. n \in Nat /\ (n = Voice => answer.voice)
    BY DEF Voice
  <1>4. Opening(via) = [NoCall EXCEPT !.via = via, !.part = n]
    BY DEF Opening
  <1> HIDE DEF n
  <1>5. Opening(via) \in CallRecord /\ Opening(via).part = n
    BY <1>1, <1>3, <1>4 DEF CallRecord
  <1>6. Opening(via).plain = NoCall.plain
    BY <1>1, <1>4 DEF CallRecord
  <1>7. [NoCall EXCEPT !.via = via] \in CallRecord /\ [NoCall EXCEPT !.via = via].part = 1
    BY <1>1 DEF CallRecord
  <1>8. QED
    BY <1>2, <1>3, <1>5, <1>6, <1>7

LEMMA CallGoesOn ==
    ASSUME NEW c \in CallRecord, NEW n \in Nat
    PROVE  LET d == [c EXCEPT !.part = n, !.plain = FALSE, !.posts = 0]
           IN  d \in CallRecord /\ d.part = n
  BY DEF CallRecord

LEMMA CallAgain ==
    ASSUME NEW c \in CallRecord, NEW n \in Nat
    PROVE  LET d == [c EXCEPT !.posts = n]
           IN  d \in CallRecord /\ d.part = c.part /\ d.plain = c.plain
  BY DEF CallRecord

LEMMA CallPlain ==
    ASSUME NEW c \in CallRecord
    PROVE  LET d == [c EXCEPT !.plain = TRUE, !.posts = 0]
           IN  d \in CallRecord /\ d.part = c.part
  BY DEF CallRecord

LEMMA SendRests ==
    ASSUME SendInv, SendRest, [SendNext]_sendVars
    PROVE  SendRest'
  <1> DEFINE Spoken == call'.part = Voice => answer.voice /\ ~call'.plain
  <1>0. /\ MaxDeliveries \in Nat /\ deliveries \in 0..MaxDeliveries
        /\ answer.parts \in Nat \ {0} /\ answer.voice \in BOOLEAN
        /\ call \in CallRecord /\ call.part \in 0..answer.parts /\ said \in Seq(Nat)
        /\ call.part = Voice => answer.voice /\ ~call.plain
    BY SendAssumption DEF SendAssumption, SendInv, SendTyped, SendRest
  <1>2. NoCall \in CallRecord /\ NoCall.part = 1 /\ Voice = 0
    BY DEF NoCall, Voice, CallRecord
  <1>3. ASSUME NEW proof \in BOOLEAN, call # NoCall, AfterFailure(proof)
        PROVE  /\ call' \in CallRecord /\ Spoken
               /\ reservation' \in {"none", "sending", "sent"}
    <2>1. call.via \in {"live", "stateless"}
      BY <1>3 DEF SendInv, SendTyped
    <2>2. CASE call.part = Voice
      BY <1>0, <1>2, <1>3, <2>1, <2>2, CallOpens DEF AfterFailure, SendRest
    <2>3. CASE call.part # Voice /\ call.via = "live" /\ proof
      BY <1>0, <1>3, <2>3, CallOpens DEF AfterFailure, SendRest
    <2>4. CASE call.part # Voice /\ ~(call.via = "live" /\ proof)
      BY <1>2, <1>3, <2>1, <2>4 DEF AfterFailure, SendRest
    <2>5. QED
      BY <2>2, <2>3, <2>4
  <1>4. call' \in CallRecord /\ Spoken /\ reservation' \in {"none", "sending", "sent"}
    <2>1. CASE BeginSend
      BY <1>0, <2>1, CallOpens DEF BeginSend
    <2>2. CASE SenderDies
      BY <1>2, <2>2 DEF SenderDies, SendRest
    <2>3. CASE Accepted
      <3>1. CASE LastPart
        BY <1>2, <2>3, <3>1 DEF Accepted
      <3>2. CASE ~LastPart
        <4>1. /\ call' = [call EXCEPT !.part = call.part + 1, !.plain = FALSE, !.posts = 0]
              /\ reservation' = reservation
          BY <2>3, <3>2 DEF Accepted
        <4>2. call' \in CallRecord /\ call'.part = call.part + 1
          <5>1. call.part + 1 \in Nat
            BY <1>0
          <5>2. QED
            BY <1>0, <4>1, <5>1, CallGoesOn
        <4>3. QED
          BY <1>0, <1>2, <4>1, <4>2 DEF SendRest
      <3>3. QED
        BY <3>1, <3>2
    <2>4. CASE Throttled
      <3>1. CASE call.part # Voice /\ call.posts + 1 < MaxPosts
        <4>1. call' = [call EXCEPT !.posts = call.posts + 1] /\ reservation' = reservation
          BY <2>4, <3>1 DEF Throttled
        <4>2. call' \in CallRecord /\ call'.part = call.part /\ call'.plain = call.plain
          <5>1. call.posts + 1 \in Nat
            BY <1>0 DEF CallRecord
          <5>2. QED
            BY <1>0, <4>1, <5>1, CallAgain
        <4>3. QED
          BY <3>1, <4>1, <4>2 DEF SendRest
      <3>2. CASE ~(call.part # Voice /\ call.posts + 1 < MaxPosts)
        BY <1>3, <2>4, <3>2 DEF Throttled
      <3>3. QED
        BY <3>1, <3>2
    <2>5. CASE Unparsed
      <3>1. /\ call' = [call EXCEPT !.plain = TRUE, !.posts = 0] /\ reservation' = reservation
            /\ call.part # Voice
        BY <2>5 DEF Unparsed
      <3>2. call' \in CallRecord /\ call'.part = call.part
        BY <1>0, <3>1, CallPlain
      <3>3. QED
        BY <3>1, <3>2 DEF SendRest
    <2>6. CASE PostRefused
      BY <1>3, <2>6 DEF PostRefused
    <2>7. CASE Unreached
      BY <1>3, <2>7, Zenon DEF Unreached
    <2>8. ASSUME NEW got \in BOOLEAN, TimesOut(got)
          PROVE  call' \in CallRecord /\ Spoken /\ reservation' \in {"none", "sending", "sent"}
      BY <1>3, <2>8 DEF TimesOut
    <2>9. CASE UNCHANGED sendVars
      BY <1>0, <2>9 DEF sendVars, SendRest
    <2>10. QED
      BY <2>1, <2>2, <2>3, <2>4, <2>5, <2>6, <2>7, <2>8, <2>9 DEF SendNext
  <1>5. /\ answer' = answer /\ deliveries' \in 0..MaxDeliveries
        /\ said' \in {said, Append(said, call.part)}
    <2>1. answer' = answer /\ said' \in {said, Append(said, call.part)}
      BY Zenon DEF SendNext, BeginSend, SenderDies, Accepted, Throttled, Unparsed, PostRefused,
                   Unreached, TimesOut, sendVars
    <2>2. \/ deliveries < MaxDeliveries /\ deliveries' = deliveries + 1
          \/ deliveries' = deliveries
      BY Zenon DEF SendNext, BeginSend, SenderDies, Accepted, Throttled, Unparsed, PostRefused,
                   Unreached, TimesOut, sendVars
    <2>3. QED
      BY <1>0, <2>1, <2>2
  <1>6. DoubtsNamed'
    BY Zenon DEF SendRest, DoubtsNamed, SendNext, BeginSend, SenderDies, Accepted, Throttled,
                 Unparsed, PostRefused, Unreached, TimesOut, sendVars
  <1>7. \A i \in DOMAIN said' : said'[i] \in 0..answer.parts
    <2>1. CASE said' = said
      BY <2>1 DEF SendRest
    <2>2. CASE said' = Append(said, call.part)
      <3>1. \A i \in 1..Len(said) : said[i] \in 0..answer.parts
        BY <1>0 DEF SendRest
      <3>2. QED
        BY <1>0, <2>2, <3>1
    <2>3. QED
      BY <1>5, <2>1, <2>2
  <1>8. answer \in [parts : 1..MaxParts, voice : BOOLEAN]
    BY DEF SendRest
  <1>9. QED
    BY <1>4, <1>5, <1>6, <1>7, <1>8 DEF SendRest

LEMMA SendIsTyped ==
    /\ SendInit => SendRest
    /\ SendInv /\ SendRest => SendTypeOK
  <1>1. MaxDeliveries \in Nat /\ MaxParts \in Nat
    BY SendAssumption DEF SendAssumption
  <1>2. ASSUME SendInit
        PROVE  SendRest
    <2>1. /\ answer \in [parts : 1..MaxParts, voice : BOOLEAN] /\ reservation = "none"
          /\ call = NoCall /\ said = <<>> /\ deliveries = 0 /\ doubts = {}
      BY <1>2 DEF SendInit
    <2>2. NoCall \in CallRecord /\ NoCall.part = 1 /\ Voice = 0
      BY DEF NoCall, Voice, CallRecord
    <2>3. DoubtsNamed
      BY <2>1, Zenon DEF DoubtsNamed
    <2>4. QED
      BY <1>1, <2>1, <2>2, <2>3 DEF SendRest
  <1>3. ASSUME SendInv, SendRest
        PROVE  SendTypeOK
    <2>1. /\ call.part \in 0..answer.parts /\ answer.parts \in 1..MaxParts
          /\ call.posts \in 0..(MaxPosts - 1) /\ (call.via # "none" => reservation = "sending")
      BY <1>3 DEF SendInv, SendTyped, SendRest
    <2>2. call.part \in 0..MaxParts /\ call.part <= answer.parts
      BY <1>1, <2>1
    <2>3. call \in [via : {"none", "live", "stateless"}, part : 0..MaxParts,
                    plain : BOOLEAN, posts : 0..(MaxPosts - 1)]
      BY <1>3, <2>1, <2>2 DEF SendRest, CallRecord
    <2>4. QED
      BY <1>3, <2>1, <2>2, <2>3, Zenon DEF SendRest, DoubtsNamed, SendTypeOK
  <1>4. QED
    BY <1>2, <1>3

\* The types of the commitments that the promise of the touches does not need: that a
\* file holds a number of retries, torn or absent as it may be, and what a tick carries.
CommitmentsRest ==
    /\ pending = [s \in Slugs |-> pending[s]]
    /\ givenUp \subseteq Slugs
    /\ \A t \in Tickers : ticker[t].retries \in Retries /\ ticker[t].gives \in BOOLEAN
    /\ silence \in [number : Nat, long : BOOLEAN]
    /\ resetDue \in BOOLEAN

\* A tick carries what a file holds, a retry more, or what it carried before.
LEMMA TicksCarry ==
    ASSUME CommitmentsInv, RetriesInv', CommitmentsRest, NEW t \in Tickers, TickStep(t)
    PROVE  /\ \A u \in Tickers : u # t => ticker'[u] = ticker[u]
           /\ ticker'[t].retries \in Retries /\ ticker'[t].gives \in BOOLEAN
  <1>0. /\ DOMAIN ticker = Tickers /\ TickerFormed(ticker[t]) /\ MaxUpsets \in Nat
        /\ ticker[t].retries \in Retries /\ ticker[t].gives \in BOOLEAN
        /\ upsets' \in 0..MaxUpsets /\ TickFits(t)'
    BY CommitmentsAssumption
       DEF CommitmentsAssumption, CommitmentsInv, TouchesInv, CommitmentsFormed, RetriesInv,
           CommitmentsRest
  <1>1. \A u \in Tickers : u # t => ticker'[u] = ticker[u]
    BY <1>0 DEF TickStep, TickLoads, TickSends, TickArchives, TickOpens, TickWrites,
                TickGivesUp, TickDies, Goto, Rests
  <1>2. ASSUME NEW step, Goto(t, step)
        PROVE  ticker'[t].retries \in Retries /\ ticker'[t].gives \in BOOLEAN
    <2>1. ticker'[t] = [ticker[t] EXCEPT !.at = step]
      BY <1>0, <1>2 DEF Goto
    <2>2. QED
      BY <1>0, <2>1 DEF TickerFormed
  <1>3. ASSUME Rests(t)
        PROVE  ticker'[t].retries \in Retries /\ ticker'[t].gives \in BOOLEAN
    <2>1. ticker'[t] = Resting
      BY <1>0, <1>3 DEF Rests
    <2>2. QED
      BY <1>0, <2>1 DEF Resting, Retries
  <1>4. CASE TickLoads(t)
    <2>1. PICK s \in Slugs : Whole(s) /\ ticker' = [ticker EXCEPT ![t] =
                [at |-> "sending", slug |-> s, retries |-> pending[s], gives |-> FALSE]]
      BY <1>4 DEF TickLoads
    <2>2. QED
      BY <1>0, <1>1, <2>1 DEF Whole
  <1>5. CASE TickSends(t)
    <2>1. \/ Goto(t, "ok")
          \/ \E fatal \in BOOLEAN : ticker' = [ticker EXCEPT ![t] =
                   [at |-> "opening", slug |-> ticker[t].slug, retries |-> ticker[t].retries + 1,
                    gives |-> fatal \/ GivesUp(ticker[t].retries + 1)]]
      BY <1>5 DEF TickSends
    <2>2. ASSUME NEW fatal \in BOOLEAN,
                 ticker' = [ticker EXCEPT ![t] =
                   [at |-> "opening", slug |-> ticker[t].slug, retries |-> ticker[t].retries + 1,
                    gives |-> fatal \/ GivesUp(ticker[t].retries + 1)]]
          PROVE  ticker'[t].retries \in Retries /\ ticker'[t].gives \in BOOLEAN
      <3>1. ticker'[t] = [at |-> "opening", slug |-> ticker[t].slug,
                          retries |-> ticker[t].retries + 1,
                          gives |-> fatal \/ GivesUp(ticker[t].retries + 1)]
        BY <1>0, <2>2
      <3>2. ticker'[t].at = "opening" /\ ticker'[t].gives \in BOOLEAN
        BY <3>1 DEF GivesUp
      <3>3. ticker'[t].retries \in 0..(IF ticker'[t].gives THEN 3 + upsets' ELSE 2)
        BY <1>0, <3>2 DEF TickFits
      <3>4. ticker'[t].retries \in 0..(3 + MaxUpsets)
        BY <1>0, <3>3
      <3>5. QED
        BY <3>2, <3>4 DEF Retries
    <2>3. QED
      BY <1>1, <1>2, <2>1, <2>2
  <1>6. CASE TickArchives(t)
    <2>1. \/ Rests(t)
          \/ ticker' = [ticker EXCEPT ![t].at = "opening", ![t].retries = 0]
      BY <1>6 DEF TickArchives, RetriesAfterSuccess
    <2>2. CASE ticker' = [ticker EXCEPT ![t].at = "opening", ![t].retries = 0]
      <3>1. ticker'[t] = [ticker[t] EXCEPT !.at = "opening", !.retries = 0]
        BY <1>0, <2>2
      <3>2. QED
        BY <1>0, <1>1, <3>1 DEF TickerFormed, Retries
    <2>3. QED
      BY <1>1, <1>3, <2>1, <2>2
  <1>7. CASE TickOpens(t) \/ TickWrites(t) \/ TickGivesUp(t) \/ TickDies(t)
    <2>1. Rests(t) \/ \E step \in {"writing", "moving"} : Goto(t, step)
      BY <1>7 DEF TickOpens, TickWrites, TickGivesUp, TickDies
    <2>2. QED
      BY <1>1, <1>2, <1>3, <2>1
  <1>8. QED
    BY <1>1, <1>4, <1>5, <1>6, <1>7 DEF TickStep

LEMMA CommitmentsRests ==
    ASSUME CommitmentsInv, CommitmentsRest, [CommitmentsNext]_commitmentsVars
    PROVE  CommitmentsRest'
  <1>0. /\ TouchesInv /\ RetriesInv' /\ MaxSilences \in Nat
        /\ \A t \in Tickers : TickerFormed(ticker[t])
    BY RetriesStay, CommitmentsAssumption
       DEF CommitmentsAssumption, CommitmentsInv, TouchesInv, CommitmentsFormed
  <1>1. ASSUME NEW t \in Tickers, TickStep(t)
        PROVE  CommitmentsRest'
    <2>1. \A u \in Tickers : ticker'[u].retries \in Retries /\ ticker'[u].gives \in BOOLEAN
      BY <1>0, <1>1, TicksCarry DEF CommitmentsRest
    <2>2. UNCHANGED <<silence, resetDue>>
      BY <1>1 DEF TickStep, TickLoads, TickSends, TickArchives, TickOpens, TickWrites,
                  TickGivesUp, TickDies
    <2>3. pending' = pending \/ \E x, s : pending' = [pending EXCEPT ![s] = x]
      BY <1>1 DEF TickStep, TickLoads, TickSends, TickArchives, TickOpens, TickWrites,
                  TickGivesUp, TickDies
    <2>4. pending' = [s \in Slugs |-> pending'[s]]
      BY <2>3 DEF CommitmentsRest
    <2>5. givenUp' \subseteq Slugs
      <3>1. CASE TickGivesUp(t)
        <4>1. ticker[t].slug \in Slugs
          BY <1>0, <3>1 DEF TickGivesUp, TickerFormed
        <4>2. QED
          BY <3>1, <4>1 DEF TickGivesUp, CommitmentsRest
      <3>2. CASE ~TickGivesUp(t)
        BY <1>1, <3>2 DEF TickStep, TickLoads, TickSends, TickArchives, TickOpens, TickWrites,
                          TickDies, CommitmentsRest
      <3>3. QED
        BY <3>1, <3>2
    <2>6. QED
      BY <2>1, <2>2, <2>4, <2>5 DEF CommitmentsRest, Retries
  <1>2. CASE ResetTouches \/ ChooseTouch \/ AddTouch \/ QueuerDies \/ UserWrites \/ GatewayResets
             \/ SilenceIsLong \/ (\E s \in Slugs : CancelByHand(s)) \/ UNCHANGED commitmentsVars
    <2>1. UNCHANGED <<ticker, givenUp>>
      BY <1>2 DEF ResetTouches, ChooseTouch, AddTouch, QueuerDies, UserWrites, GatewayResets,
                  SilenceIsLong, CancelByHand, commitmentsVars
    <2>2. \/ pending' = pending \/ pending' = Untouched
          \/ \E x, s : pending' = [pending EXCEPT ![s] = x]
      BY <1>2 DEF ResetTouches, ChooseTouch, AddTouch, QueuerDies, UserWrites, GatewayResets,
                  SilenceIsLong, CancelByHand, commitmentsVars
    <2>3. pending' = [s \in Slugs |-> pending'[s]]
      BY <2>2 DEF CommitmentsRest, Untouched
    <2>4. silence' \in [number : Nat, long : BOOLEAN] /\ resetDue' \in BOOLEAN
      <3>1. silence \in [number : Nat, long : BOOLEAN] /\ resetDue \in BOOLEAN
        BY DEF CommitmentsRest
      <3>2. /\ \/ silence' = silence \/ silence' = [number |-> silence.number + 1, long |-> FALSE]
               \/ silence' = [silence EXCEPT !.long = TRUE]
            /\ resetDue' = resetDue \/ resetDue' = FALSE \/ resetDue' = TRUE
        BY <1>2, Zenon DEF ResetTouches, ChooseTouch, AddTouch, QueuerDies, UserWrites,
                           GatewayResets, SilenceIsLong, CancelByHand, commitmentsVars
      <3>3. silence' \in [number : Nat, long : BOOLEAN]
        <4>1. silence.number + 1 \in Nat
          BY <3>1
        <4>2. [silence EXCEPT !.long = TRUE] \in [number : Nat, long : BOOLEAN]
          BY <3>1
        <4>3. CASE silence' = [number |-> silence.number + 1, long |-> FALSE]
          BY <4>1, <4>3
        <4>4. QED
          BY <3>1, <3>2, <4>2, <4>3
      <3>4. QED
        BY <3>1, <3>2, <3>3
    <2>5. QED
      BY <2>1, <2>3, <2>4 DEF CommitmentsRest, Retries
  <1>3. QED
    BY <1>1, <1>2 DEF CommitmentsNext

LEMMA CommitmentsAreTyped ==
    /\ CommitmentsInit => CommitmentsRest
    /\ CommitmentsInv /\ CommitmentsRest => CommitmentsTypeOK
  <1>1. MaxUpsets \in Nat
    BY CommitmentsAssumption DEF CommitmentsAssumption
  <1>2. CommitmentsInit => CommitmentsRest
    <2> SUFFICES ASSUME CommitmentsInit
                 PROVE  CommitmentsRest
      OBVIOUS
    <2>1. pending = [s \in Slugs |-> pending[s]]
      BY DEF CommitmentsInit
    <2>2. \A t \in Tickers : ticker[t].retries = 0 /\ ticker[t].gives = FALSE
      BY DEF CommitmentsInit, Resting
    <2>3. 0 \in Retries /\ silence \in [number : Nat, long : BOOLEAN]
      BY <1>1 DEF CommitmentsInit, Retries
    <2>4. QED
      BY <2>1, <2>2, <2>3 DEF CommitmentsInit, CommitmentsRest
  <1>3. ASSUME CommitmentsInv, CommitmentsRest
        PROVE  CommitmentsTypeOK
    <2>1. \A s \in Slugs : pending[s] \in Retries \cup {Absent, Torn}
      BY <1>3, FilesFit DEF CommitmentsInv
    <2>2. pending \in [Slugs -> Retries \cup {Absent, Torn}]
      BY <1>3, <2>1 DEF CommitmentsRest
    <2>3. \A t \in Tickers : /\ ticker[t].at \in TickSteps
                             /\ ticker[t].slug \in Slugs \cup {NoSlug}
      BY <1>3 DEF CommitmentsInv, TouchesInv, CommitmentsFormed, TickerFormed
    <2>4. silence \in [number : 0..MaxSilences, long : BOOLEAN]
      BY <1>3 DEF CommitmentsInv, TouchesInv, CommitmentsFormed, CommitmentsRest
    <2>5. upsets \in 0..MaxUpsets
      BY <1>3 DEF CommitmentsInv, RetriesInv
    <2>6. QED
      BY <1>3, <2>2, <2>3, <2>4, <2>5
         DEF CommitmentsInv, TouchesInv, CommitmentsFormed, CommitmentsRest, TickSteps,
             CommitmentsTypeOK
  <1>4. QED
    BY <1>2, <1>3

\* What is kept of all thirteen: the invariant of each and the rest of its types.
TypedServices ==
    /\ WorkersInv /\ WorkersRest /\ ApprovalsInv /\ DaemonInv /\ DaemonRest
    /\ CommitmentsInv /\ CommitmentsRest /\ ReauthTypeOK /\ RowsNamed
    /\ SessionsInv /\ SessionsRest /\ TelegramInv /\ TelegramRest /\ MailInv /\ DraftsInv
    /\ InboxInv /\ FeedInv /\ FeedRest /\ EnrollmentInv /\ SendInv /\ SendRest

\* Every component at work keeps its types: rows, files and what the threads hold are
\* of the kinds that the code writes, for any number of workers, mails, prompts and slots.
THEOREM ServicesAreTyped == Spec => []ServicesTypeOK
  <1>1. Init => TypedServices
    <2> SUFFICES ASSUME Init
                 PROVE  TypedServices
      OBVIOUS
    <2>1. /\ WorkersInit /\ ApprovalsInit /\ DaemonInit /\ CommitmentsInit /\ ReauthInit
          /\ SessionsInit /\ TelegramInit /\ EmailPollInit /\ EmailDraftsInit
          /\ InboxInit /\ FeedInit /\ EnrollmentInit /\ SendInit
      BY DEF Init
    <2>2. RowsNamed /\ ReauthTypeOK
      BY <2>1, ReauthInitially
         DEF ReauthInv, ReauthInit, RowsNamed, HandlerAtRest, RedeemerAtRest
    <2>3. /\ WorkersInv /\ WorkersRest /\ ApprovalsInv /\ DaemonInv /\ DaemonRest
          /\ CommitmentsInv /\ CommitmentsRest
      BY <2>1, WorkersInitially, WorkersAreTyped, ApprovalsInitially, DaemonInitially,
         DaemonIsTyped, CommitmentsInitially, RetriesInitially, CommitmentsAreTyped
         DEF CommitmentsInv
    <2>4. SessionsInv /\ SessionsRest /\ TelegramInv /\ TelegramRest /\ MailInv /\ DraftsInv
      BY <2>1, SessionsInitially, SessionsAreTyped, TelegramInitially, TelegramIsTyped,
         MailInitially, DraftsInitially
    <2>5. InboxInv /\ FeedInv /\ FeedRest /\ EnrollmentInv /\ SendInv /\ SendRest
      BY <2>1, InboxInitially, FeedInitially, FeedIsTyped, EnrollmentInitially, SendInitially,
         SendIsTyped
    <2>6. QED
      BY <2>2, <2>3, <2>4, <2>5 DEF TypedServices
  <1>2. TypedServices /\ [Next]_servicesVars => TypedServices'
    <2> SUFFICES ASSUME TypedServices, [Next]_servicesVars
                 PROVE  TypedServices'
      OBVIOUS
    <2>1. WorkersInv' /\ WorkersRest' /\ DaemonInv' /\ DaemonRest' /\ ApprovalsInv'
      BY EachMovesAlone, WorkersStay, WorkersRestsStay, DaemonStays, DaemonRests, ApprovalsStep
         DEF TypedServices
    <2>2. CommitmentsInv' /\ CommitmentsRest' /\ ReauthTypeOK' /\ RowsNamed'
      BY EachMovesAlone, CommitmentsStay, CommitmentsRests, ReauthTypesStay DEF TypedServices
    <2>3. SessionsInv' /\ SessionsRest' /\ TelegramInv' /\ TelegramRest' /\ MailInv' /\ DraftsInv'
      BY EachMovesAlone, SessionsStay, SessionsRests, TelegramStays, TelegramRests, MailStays,
         DraftsStay
         DEF TypedServices
    <2>4. InboxInv' /\ FeedInv' /\ FeedRest' /\ EnrollmentInv' /\ SendInv' /\ SendRest'
      BY EachMovesAlone, InboxStays, FeedStays, FeedRests, EnrollmentStays, SendStays, SendRests
         DEF TypedServices
    <2>5. QED
      BY <2>1, <2>2, <2>3, <2>4 DEF TypedServices
  <1>3. TypedServices => ServicesTypeOK
    <2> SUFFICES ASSUME TypedServices
                 PROVE  ServicesTypeOK
      OBVIOUS
    <2>1. /\ WorkersTypeOK /\ DaemonTypeOK /\ CommitmentsTypeOK /\ SessionsTypeOK
          /\ TelegramTypeOK /\ FeedTypeOK /\ SendTypeOK
      BY WorkersAreTyped, DaemonIsTyped, CommitmentsAreTyped, SessionsAreTyped, TelegramIsTyped,
         FeedIsTyped, SendIsTyped
         DEF TypedServices
    <2>2. /\ ApprovalsTypeOK /\ ReauthTypeOK /\ EmailPollTypeOK /\ EmailDraftsTypeOK
          /\ InboxTypeOK /\ EnrollmentTypeOK
      BY DEF TypedServices, ApprovalsInv, MailInv, DraftsInv, InboxInv, EnrollmentInv,
             EnrollmentFormed
    <2>3. QED
      BY <2>1, <2>2 DEF ServicesTypeOK
  <1>4. QED
    BY <1>1, <1>2, <1>3, PTL DEF Spec

=============================================================================

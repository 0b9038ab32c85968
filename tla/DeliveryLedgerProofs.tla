------------------------ MODULE DeliveryLedgerProofs ------------------------
(***************************************************************************)
(* A reply reaches the user at most once, for any number of events and     *)
(* claims and any crashes, provided the transport has neither of the two   *)
(* accidents that the code misjudges.                                      *)
(***************************************************************************)
EXTENDS DeliveryLedger, TLAPS

\* Strengthening: a claim in the middle of its send holds the reservation, and
\* until the transport has confirmed, the user has seen nothing of it.
Held ==
    \A c \in Claims : sender[c] \in InFlight => ledger[target[c]] = Reservation(c)

Counted ==
    \A c \in Claims :
        /\ sender[c] \in {"reserved", "fallback", "undelivered"} => replies[target[c]] = 0
        /\ sender[c] = "confirmed" => replies[target[c]] = 1
        /\ sender[c] = "already_sent" => ledger[target[c]].status = "sent"

Recorded ==
    \A e \in Events :
        /\ ledger[e].status = "none" => replies[e] = 0
        /\ ledger[e].status = "sent" => replies[e] = 1
        /\ replies[e] <= 1

\* A claim that has not begun has no reservation left from before.
IdleFree == \A c \in Claims, e \in Events : sender[c] = "idle" => ledger[e].by # c

LedgerInv == LedgerTypeOK /\ Held /\ Counted /\ Recorded /\ IdleFree

\* A claim in the middle of its send has named its event, and no other claim is
\* in the middle of a send for that event.
LEMMA SoleSender ==
    ASSUME LedgerInv, NEW c \in Claims, sender[c] \in InFlight
    PROVE  /\ target[c] \in Events
           /\ ledger[target[c]].status = "sending"
           /\ ledger[target[c]].by = c
           /\ \A d \in Claims : sender[d] \in InFlight /\ target[d] = target[c] => d = c
  <1>1. target[c] \in Events
    BY DEF LedgerInv, LedgerTypeOK, InFlight
  <1>2. \A d \in Claims : sender[d] \in InFlight =>
            ledger[target[d]].status = "sending" /\ ledger[target[d]].by = d
    <2>1. \A d \in Claims : Reservation(d).status = "sending" /\ Reservation(d).by = d
      BY DEF Reservation
    <2>2. QED
      BY <2>1 DEF LedgerInv, Held
  <1>3. QED
    BY <1>1, <1>2

\* A move of the send by a claim keeps the invariant when the reply count it
\* leaves is the one the new phase stands for.
LEMMA SendStep ==
    ASSUME LedgerInv, NEW c \in Claims, NEW from \in {"reserved", "fallback"},
           NEW to \in {"fallback", "confirmed", "undelivered", "kept"}, NEW n \in {0, 1},
           SendMoves(c, from, to, n),
           to \in {"fallback", "undelivered"} => n = 0,
           to = "confirmed" => n = 1
    PROVE  LedgerInv'
  <1> DEFINE e == target[c]
  <1>1. /\ sender[c] = from /\ sender' = [sender EXCEPT ![c] = to]
        /\ replies' = [replies EXCEPT ![e] = @ + n]
        /\ UNCHANGED <<ledger, target>>
    BY DEF SendMoves
  <1>2. /\ e \in Events /\ ledger[e].status = "sending" /\ ledger[e].by = c
        /\ \A d \in Claims : sender[d] \in InFlight /\ target[d] = e => d = c
    BY <1>1, SoleSender DEF InFlight
  <1>3. replies[e] = 0
    BY <1>1 DEF LedgerInv, Counted
  <1>4. LedgerTypeOK /\ Held /\ Counted /\ Recorded /\ IdleFree
    BY DEF LedgerInv
  <1>5. /\ \A d \in Claims : sender'[d] = IF d = c THEN to ELSE sender[d]
        /\ \A x \in Events : replies'[x] = IF x = e THEN n ELSE replies[x]
    BY <1>1, <1>2, <1>3, <1>4 DEF LedgerTypeOK
  <1> HIDE DEF e
  <1>6. LedgerTypeOK'
    <2>1. sender' \in [Claims -> {"idle"} \cup InFlight \cup Over]
      BY <1>1, <1>4 DEF LedgerTypeOK, InFlight, Over
    <2>2. replies' \in [Events -> Nat]
      <3>1. \A x \in Events : replies'[x] \in Nat
        BY <1>4, <1>5 DEF LedgerTypeOK
      <3>2. QED
        BY <1>1, <1>4, <3>1 DEF LedgerTypeOK
    <2>3. \A d \in Claims : target'[d] = NoEvent <=> sender'[d] = "idle"
      BY <1>1, <1>4, <1>5 DEF LedgerTypeOK
    <2>4. QED
      BY <1>1, <1>4, <2>1, <2>2, <2>3 DEF LedgerTypeOK
  <1>7. Held'
    BY <1>1, <1>4, <1>5 DEF Held, InFlight, Reservation
  <1>8. Counted'
    <2> SUFFICES ASSUME NEW d \in Claims
                 PROVE  /\ sender'[d] \in {"reserved", "fallback", "undelivered"}
                             => replies'[target[d]] = 0
                        /\ sender'[d] = "confirmed" => replies'[target[d]] = 1
                        /\ sender'[d] = "already_sent" => ledger[target[d]].status = "sent"
      BY <1>1 DEF Counted
    <2>1. CASE d = c
      BY <1>1, <1>2, <1>3, <1>5, <2>1 DEF e
    <2>2. CASE d # c
      <3>1. sender'[d] = sender[d]
        BY <1>5, <2>2
      <3>2. sender[d] \in InFlight => target[d] # e /\ target[d] \in Events
        BY <1>2, <2>2, SoleSender
      <3>3. sender[d] \in InFlight => replies'[target[d]] = replies[target[d]]
        BY <1>5, <3>2
      <3>4. QED
        BY <1>4, <3>1, <3>3 DEF Counted, InFlight
    <2>3. QED
      BY <2>1, <2>2
  <1>9. Recorded'
    BY <1>1, <1>2, <1>4, <1>5 DEF Recorded
  <1>10. IdleFree'
    BY <1>1, <1>4, <1>5 DEF IdleFree
  <1>11. QED
    BY <1>6, <1>7, <1>8, <1>9, <1>10 DEF LedgerInv

\* begin_delivery reserves only a reply that nobody has sent or is sending.
LEMMA BeginStep ==
    ASSUME LedgerInv, NEW c \in Claims, NEW e \in Events, BeginDelivery(c, e)
    PROVE  LedgerInv'
  <1>1. LedgerTypeOK /\ Held /\ Counted /\ Recorded /\ IdleFree
    BY DEF LedgerInv
  <1>2. /\ sender[c] = "idle" /\ target' = [target EXCEPT ![c] = e] /\ UNCHANGED replies
        /\ sender' = [sender EXCEPT ![c] =
                        IF Verdict(e, c) = "proceed" THEN "reserved" ELSE Verdict(e, c)]
        /\ ledger' = IF ledger[e].status = "none"
                     THEN [ledger EXCEPT ![e] = Reservation(c)] ELSE ledger
    BY DEF BeginDelivery
  <1>3. \A d \in Claims : d # c => sender'[d] = sender[d] /\ target'[d] = target[d]
    BY <1>1, <1>2 DEF LedgerTypeOK
  <1>4. target'[c] = e
    BY <1>1, <1>2 DEF LedgerTypeOK
  <1>5. Reservation(c) \in [status : {"none", "sending", "sent"}, by : Claims \cup {NoClaim}]
        /\ Reservation(c).status = "sending" /\ Reservation(c).by = c /\ c # NoClaim
        /\ e # NoEvent
    BY LedgerConstants DEF Reservation, LedgerConstants
  <1>6. CASE ledger[e].status = "none"
    <2>1. /\ \A x \in Events : ledger'[x] = IF x = e THEN Reservation(c) ELSE ledger[x]
          /\ sender'[c] = "reserved" /\ sender' = [sender EXCEPT ![c] = "reserved"]
          /\ ledger' = [ledger EXCEPT ![e] = Reservation(c)]
      BY <1>1, <1>2, <1>6 DEF Verdict, LedgerTypeOK
    <2>2. \A d \in Claims : sender[d] \in InFlight => target[d] \in Events /\ target[d] # e
      BY <1>6, SoleSender
    <2>3. LedgerTypeOK'
      BY <1>1, <1>2, <1>3, <1>4, <1>5, <2>1 DEF LedgerTypeOK, InFlight
    <2>4. Held'
      BY <1>1, <1>3, <1>4, <2>1, <2>2 DEF Held
    <2>5. Counted'
      <3> SUFFICES ASSUME NEW d \in Claims
                   PROVE  /\ sender'[d] \in {"reserved", "fallback", "undelivered"}
                               => replies[target'[d]] = 0
                          /\ sender'[d] = "confirmed" => replies[target'[d]] = 1
                          /\ sender'[d] = "already_sent" => ledger'[target'[d]].status = "sent"
        BY <1>2 DEF Counted
      <3>1. CASE d = c
        BY <1>1, <1>4, <1>6, <2>1, <3>1 DEF Recorded
      <3>2. CASE d # c
        <4>1. sender'[d] = sender[d] /\ target'[d] = target[d]
          BY <1>3, <3>2
        <4>2. sender[d] = "already_sent" =>
                target[d] \in Events /\ ledger[target[d]].status = "sent"
          BY <1>1 DEF LedgerTypeOK, Counted
        <4>3. sender[d] = "already_sent" => ledger'[target[d]].status = "sent"
          BY <1>6, <2>1, <4>2
        <4>4. QED
          BY <1>1, <4>1, <4>3 DEF Counted
      <3>3. QED
        BY <3>1, <3>2
    <2>6. Recorded'
      BY <1>1, <1>2, <1>5, <1>6, <2>1 DEF Recorded
    <2>7. IdleFree'
      BY <1>1, <1>3, <1>5, <2>1 DEF IdleFree
    <2>8. QED
      BY <2>3, <2>4, <2>5, <2>6, <2>7 DEF LedgerInv
  <1>7. CASE ledger[e].status # "none"
    <2>1. ledger' = ledger
      BY <1>2, <1>7
    <2>2. ledger[e].by # c
      BY <1>1, <1>2 DEF IdleFree
    <2>3. /\ sender'[c] \in {"already_sent", "ambiguous"}
          /\ sender'[c] = "already_sent" => ledger[e].status = "sent"
          /\ sender' = [sender EXCEPT ![c] = sender'[c]]
      BY <1>1, <1>2, <1>7, <2>2 DEF Verdict, LedgerTypeOK
    <2>4. LedgerTypeOK'
      BY <1>1, <1>2, <1>3, <1>4, <1>5, <2>1, <2>3 DEF LedgerTypeOK, Over
    <2>5. Held' /\ IdleFree'
      BY <1>1, <1>3, <2>1, <2>3 DEF Held, IdleFree, InFlight
    <2>6. Counted'
      BY <1>1, <1>2, <1>3, <1>4, <2>1, <2>3 DEF Counted
    <2>7. Recorded'
      BY <1>1, <1>2, <2>1 DEF Recorded
    <2>8. QED
      BY <2>4, <2>5, <2>6, <2>7 DEF LedgerInv
  <1>8. QED
    BY <1>6, <1>7

\* finish_delivery records a reply that reached the user; nobody else is
\* sending it, so no reservation is lost.
LEMMA FinishStep ==
    ASSUME LedgerInv, NEW c \in Claims, FinishDelivery(c)
    PROVE  LedgerInv'
  <1> DEFINE e == target[c]
  <1>1. LedgerTypeOK /\ Held /\ Counted /\ Recorded /\ IdleFree
    BY DEF LedgerInv
  <1>2. /\ e \in Events /\ ledger[e].status = "sending" /\ ledger[e].by = c
        /\ \A d \in Claims : sender[d] \in InFlight /\ target[d] = e => d = c
        /\ replies[e] = 1
    BY <1>1, SoleSender DEF FinishDelivery, Confirmed, InFlight, Counted
  <1>3. /\ sender' = [sender EXCEPT ![c] = "finished"]
        /\ ledger' = [ledger EXCEPT ![e].status = "sent"]
        /\ UNCHANGED <<target, replies>>
    BY <1>2 DEF FinishDelivery
  <1> HIDE DEF e
  <1>4. /\ \A d \in Claims : sender'[d] = IF d = c THEN "finished" ELSE sender[d]
        /\ \A x \in Events : x # e => ledger'[x] = ledger[x]
        /\ ledger'[e].status = "sent" /\ ledger'[e].by = ledger[e].by
        /\ ledger'[e] \in [status : {"none", "sending", "sent"}, by : Claims \cup {NoClaim}]
    BY <1>1, <1>2, <1>3 DEF LedgerTypeOK
  <1>5. LedgerTypeOK'
    <2>1. ledger' \in [Events -> [status : {"none", "sending", "sent"}, by : Claims \cup {NoClaim}]]
      BY <1>1, <1>3, <1>4 DEF LedgerTypeOK
    <2>2. sender' \in [Claims -> {"idle"} \cup InFlight \cup Over]
      BY <1>1, <1>3 DEF LedgerTypeOK, Over
    <2>3. \A x \in Events : ledger'[x].by = NoClaim <=> ledger'[x].status = "none"
      BY <1>1, <1>2, <1>4 DEF LedgerTypeOK
    <2>4. \A d \in Claims : target'[d] = NoEvent <=> sender'[d] = "idle"
      BY <1>1, <1>2, <1>3, <1>4, LedgerConstants DEF LedgerTypeOK, LedgerConstants, e
    <2>5. QED
      BY <1>1, <1>3, <2>1, <2>2, <2>3, <2>4 DEF LedgerTypeOK
  <1>6. \A d \in Claims : sender'[d] \in InFlight =>
            d # c /\ sender[d] \in InFlight /\ target[d] \in Events /\ target[d] # e
    BY <1>2, <1>4, SoleSender DEF InFlight
  <1>7. Held'
    BY <1>1, <1>3, <1>4, <1>6 DEF Held
  <1>8. Counted'
    <2> SUFFICES ASSUME NEW d \in Claims
                 PROVE  /\ sender'[d] \in {"reserved", "fallback", "undelivered"}
                             => replies[target[d]] = 0
                        /\ sender'[d] = "confirmed" => replies[target[d]] = 1
                        /\ sender'[d] = "already_sent" => ledger'[target[d]].status = "sent"
      BY <1>3 DEF Counted
    <2>1. sender'[d] = "already_sent" =>
             /\ sender[d] = "already_sent" /\ target[d] \in Events
             /\ ledger[target[d]].status = "sent"
      BY <1>1, <1>4 DEF Counted, LedgerTypeOK
    <2>2. sender'[d] = "already_sent" => ledger'[target[d]].status = "sent"
      BY <1>4, <2>1
    <2>3. QED
      BY <1>1, <1>4, <2>2 DEF Counted
  <1>9. Recorded' /\ IdleFree'
    BY <1>1, <1>2, <1>3, <1>4 DEF Recorded, IdleFree
  <1>10. QED
    BY <1>5, <1>7, <1>8, <1>9 DEF LedgerInv

\* clear_delivery gives up a reservation of which the user has seen nothing.
LEMMA ClearStep ==
    ASSUME LedgerInv, NEW c \in Claims, ClearDelivery(c)
    PROVE  /\ LedgerInv'
           /\ replies[target[c]] = 0
  <1> DEFINE e == target[c]
  <1>1. LedgerTypeOK /\ Held /\ Counted /\ Recorded /\ IdleFree
    BY DEF LedgerInv
  <1>2. /\ e \in Events /\ ledger[e] = Reservation(c)
        /\ \A d \in Claims : sender[d] \in InFlight /\ target[d] = e => d = c
        /\ replies[e] = 0
    BY <1>1, SoleSender DEF ClearDelivery, Clears, InFlight, Counted, Held
  <1>3. /\ sender' = [sender EXCEPT ![c] = "cleared"]
        /\ ledger' = [ledger EXCEPT ![e] = NoRow]
        /\ UNCHANGED <<target, replies>>
    BY <1>2 DEF ClearDelivery
  <1>4. replies[target[c]] = 0
    BY <1>2
  <1>5. ledger[e].status = "sending"
    BY <1>2 DEF Reservation
  <1> HIDE DEF e
  <1>6. /\ \A d \in Claims : sender'[d] = IF d = c THEN "cleared" ELSE sender[d]
        /\ \A x \in Events : ledger'[x] = IF x = e THEN NoRow ELSE ledger[x]
        /\ NoRow.status = "none" /\ NoRow.by = NoClaim
        /\ NoRow \in [status : {"none", "sending", "sent"}, by : Claims \cup {NoClaim}]
    BY <1>1, <1>3 DEF LedgerTypeOK, NoRow
  <1>7. LedgerTypeOK'
    <2>1. \A d \in Claims : target'[d] = NoEvent <=> sender'[d] = "idle"
      BY <1>1, <1>2, <1>3, <1>6, LedgerConstants DEF LedgerTypeOK, LedgerConstants, e
    <2>2. sender' \in [Claims -> {"idle"} \cup InFlight \cup Over]
      BY <1>1, <1>3 DEF LedgerTypeOK, Over
    <2>3. QED
      BY <1>1, <1>3, <1>6, <2>1, <2>2 DEF LedgerTypeOK
  <1>8. \A d \in Claims : sender'[d] \in InFlight =>
            d # c /\ sender[d] \in InFlight /\ target[d] \in Events /\ target[d] # e
    BY <1>2, <1>6, SoleSender DEF InFlight
  <1>9. Held'
    BY <1>1, <1>3, <1>6, <1>8 DEF Held
  <1>10. Counted'
    <2> SUFFICES ASSUME NEW d \in Claims
                 PROVE  /\ sender'[d] \in {"reserved", "fallback", "undelivered"}
                             => replies[target[d]] = 0
                        /\ sender'[d] = "confirmed" => replies[target[d]] = 1
                        /\ sender'[d] = "already_sent" => ledger'[target[d]].status = "sent"
      BY <1>3 DEF Counted
    <2>1. sender'[d] = "already_sent" =>
             /\ sender[d] = "already_sent" /\ target[d] \in Events
             /\ ledger[target[d]].status = "sent"
      BY <1>1, <1>6 DEF Counted, LedgerTypeOK
    <2>2. sender'[d] = "already_sent" => ledger'[target[d]].status = "sent"
      BY <1>5, <1>6, <2>1
    <2>3. QED
      BY <1>1, <1>6, <2>2 DEF Counted
  <1>11. Recorded' /\ IdleFree'
    BY <1>1, <1>2, <1>3, <1>6, LedgerConstants DEF Recorded, IdleFree, LedgerConstants
  <1>12. QED
    BY <1>4, <1>7, <1>9, <1>10, <1>11 DEF LedgerInv

\* A crash leaves the reservation, which is what blocks a second send.
LEMMA CrashStep ==
    ASSUME LedgerInv, NEW dying \in SUBSET Claims, Crash(dying)
    PROVE  LedgerInv'
  <1>1. LedgerTypeOK /\ Held /\ Counted /\ Recorded /\ IdleFree
    BY DEF LedgerInv
  <1>2. /\ \A d \in Claims : \/ sender'[d] = sender[d]
                             \/ sender'[d] = "crashed" /\ sender[d] \in InFlight
        /\ sender' \in [Claims -> {"idle"} \cup InFlight \cup Over]
        /\ UNCHANGED <<ledger, target, replies>>
    BY <1>1 DEF Crash, LedgerTypeOK, Over
  <1>3. LedgerTypeOK'
    BY <1>1, <1>2 DEF LedgerTypeOK, InFlight
  <1>4. Held' /\ Counted'
    BY <1>1, <1>2 DEF Held, Counted, InFlight
  <1>5. Recorded' /\ IdleFree'
    BY <1>1, <1>2 DEF Recorded, IdleFree, InFlight
  <1>6. QED
    BY <1>3, <1>4, <1>5 DEF LedgerInv

\* Every step of the ledger keeps the invariant.
LEMMA LedgerStep ==
    TransportFaults = {} => (LedgerInv /\ [LedgerNext]_ledgerVars => LedgerInv')
  <1> SUFFICES ASSUME TransportFaults = {}, LedgerInv, [LedgerNext]_ledgerVars
               PROVE  LedgerInv'
    OBVIOUS
  <1>1. CASE UNCHANGED ledgerVars
    BY <1>1 DEF ledgerVars, LedgerInv, LedgerTypeOK, Held, Counted, Recorded, IdleFree
  <1>2. ASSUME NEW c \in Claims, NEW e \in Events, BeginDelivery(c, e)
        PROVE  LedgerInv'
    BY <1>2, BeginStep
  <1>3. ASSUME NEW c \in Claims, LiveDelivers(c) \/ FallbackDelivers(c)
        PROVE  LedgerInv'
    BY <1>3, SendStep DEF LiveDelivers, FallbackDelivers
  <1>4. ASSUME NEW c \in Claims, LiveAmbiguous(c)
        PROVE  LedgerInv'
    BY <1>4, SendStep DEF LiveAmbiguous
  <1>5. ASSUME NEW c \in Claims, LiveUndelivered(c) \/ FallbackFails(c)
        PROVE  LedgerInv'
    <2>1. SendMoves(c, "reserved", "fallback", 0) \/ SendMoves(c, "fallback", "undelivered", 0)
      BY <1>5 DEF LiveUndelivered, FallbackFails
    <2>2. QED
      BY <2>1, SendStep
  <1>6. ASSUME NEW c \in Claims, FinishDelivery(c) \/ ClearDelivery(c)
        PROVE  LedgerInv'
    BY <1>6, FinishStep, ClearStep
  <1>7. ASSUME NEW dying \in SUBSET Claims, Crash(dying)
        PROVE  LedgerInv'
    BY <1>7, CrashStep
  <1>8. QED
    BY <1>1, <1>2, <1>3, <1>4, <1>5, <1>6, <1>7 DEF LedgerNext

\* The empty ledger satisfies the invariant.
LEMMA LedgerStart == LedgerInit => LedgerInv
  <1> SUFFICES ASSUME LedgerInit
               PROVE  LedgerInv
    OBVIOUS
  <1>1. /\ NoRow \in [status : {"none", "sending", "sent"}, by : Claims \cup {NoClaim}]
        /\ NoRow.status = "none" /\ NoRow.by = NoClaim
    BY DEF NoRow
  <1>2. LedgerTypeOK
    BY <1>1 DEF LedgerInit, LedgerTypeOK
  <1>3. Held /\ Counted /\ Recorded /\ IdleFree
    BY <1>1, LedgerConstants
       DEF LedgerInit, Held, Counted, Recorded, IdleFree, InFlight, LedgerConstants
  <1>4. QED
    BY <1>2, <1>3 DEF LedgerInv

\* The invariant holds in every reachable state of a sound transport.
LEMMA LedgerInvariant == TransportFaults = {} /\ LedgerSpec => []LedgerInv
  <1>1. ASSUME TransportFaults = {}
        PROVE  LedgerSpec => []LedgerInv
    <2>1. LedgerInv /\ [LedgerNext]_ledgerVars => LedgerInv'
      BY <1>1, LedgerStep
    <2>2. QED
      BY <2>1, LedgerStart, PTL DEF LedgerSpec
  <1>2. QED
    BY <1>1

-----------------------------------------------------------------------------
\* The table and the senders keep their types.
THEOREM LedgerTypeCorrect == TransportFaults = {} /\ LedgerSpec => []LedgerTypeOK
  <1>1. LedgerInv => LedgerTypeOK
    BY DEF LedgerInv
  <1>2. QED
    BY <1>1, LedgerInvariant, PTL

\* No message is answered twice, however many claims race or crash.
THEOREM RepliesAtMostOnce == TransportFaults = {} /\ LedgerSpec => []AtMostOnce
  <1>1. LedgerInv => AtMostOnce
    BY DEF LedgerInv, Recorded, AtMostOnce
  <1>2. QED
    BY <1>1, LedgerInvariant, PTL

\* A record of `sent` is never a record of a lost reply.
THEOREM SentMeansDelivered == TransportFaults = {} /\ LedgerSpec => []SentWasDelivered
  <1>1. LedgerInv => SentWasDelivered
    <2> SUFFICES ASSUME LedgerInv
                 PROVE  SentWasDelivered
      OBVIOUS
    <2>1. \A e \in Events : ledger[e].status = "sent" => replies[e] >= 1
      BY DEF LedgerInv, Recorded
    <2>2. \A c \in Claims : sender[c] = "already_sent" =>
             target[c] \in Events /\ ledger[target[c]].status = "sent"
      BY DEF LedgerInv, LedgerTypeOK, Counted
    <2>3. QED
      BY <2>1, <2>2 DEF SentWasDelivered
  <1>2. QED
    BY <1>1, LedgerInvariant, PTL

\* No reservation is dropped once the reply is out: each step keeps the status
\* of the rows it does not name, and only ClearDelivery makes one "none".
THEOREM ReservationsStandWhenDelivered ==
    TransportFaults = {} /\ LedgerSpec => ClearOnlyUndelivered
  <1> DEFINE Kept == \A e \in Events :
               ledger[e].status = "sending" /\ ledger'[e].status = "none" => replies[e] = 0
  <1>1. LedgerInv /\ [LedgerNext]_ledgerVars => [Kept]_ledgerVars
    <2> SUFFICES ASSUME LedgerInv, LedgerNext
                 PROVE  Kept
      OBVIOUS
    <2>0. LedgerTypeOK
      BY DEF LedgerInv
    <2>1. ASSUME UNCHANGED ledger
          PROVE  Kept
      BY <2>1
    <2>2. ASSUME NEW c \in Claims, NEW e \in Events, BeginDelivery(c, e)
          PROVE  Kept
      BY <2>0, <2>2 DEF BeginDelivery, Reservation, LedgerTypeOK
    <2>3. ASSUME NEW c \in Claims, FinishDelivery(c)
          PROVE  Kept
      BY <2>0, <2>3, SoleSender DEF FinishDelivery, Confirmed, InFlight, LedgerTypeOK
    <2>4. ASSUME NEW c \in Claims, ClearDelivery(c)
          PROVE  Kept
      <3>1. target[c] \in Events /\ replies[target[c]] = 0
        BY <2>4, ClearStep, SoleSender DEF ClearDelivery, Clears, InFlight
      <3>2. \A e \in Events : e # target[c] => ledger'[e] = ledger[e]
        BY <2>0, <2>4 DEF ClearDelivery, LedgerTypeOK
      <3>3. QED
        BY <3>1, <3>2
    <2>5. ASSUME NEW c \in Claims,
                 \/ LiveDelivers(c) \/ LiveAmbiguous(c) \/ LiveUndelivered(c)
                 \/ FallbackDelivers(c) \/ FallbackFails(c)
          PROVE  Kept
      BY <2>1, <2>5 DEF LiveDelivers, LiveAmbiguous, LiveUndelivered, FallbackDelivers,
                       FallbackFails, SendMoves
    <2>6. ASSUME NEW dying \in SUBSET Claims, Crash(dying)
          PROVE  Kept
      BY <2>1, <2>6 DEF Crash
    <2>7. QED
      BY <2>2, <2>3, <2>4, <2>5, <2>6 DEF LedgerNext
  <1>2. QED
    BY <1>1, LedgerInvariant, PTL DEF LedgerSpec, ClearOnlyUndelivered

\* Two functions that agree but at one point.
LEMMA OnePointApart ==
    ASSUME NEW old, NEW new, NEW T, old \in [Events -> T], new \in [Events -> T],
           NEW e \in Events, NEW v \in T,
           \A x \in Events : new[x] = IF x = e THEN v ELSE old[x]
    PROVE  new = [old EXCEPT ![e] = v]
  OBVIOUS

\* The stages before and after a step, point by point.
LEMMA StagesAreFunctions ==
    ASSUME LedgerTypeOK, LedgerTypeOK'
    PROVE  /\ [x \in Events |-> Stage[ledger[x].status]]
                  \in [Events -> {"open", "attempted", "confirmed"}]
           /\ [x \in Events |-> Stage[ledger'[x].status]]
                  \in [Events -> {"open", "attempted", "confirmed"}]
  <1>1. \A s \in {"none", "sending", "sent"} : Stage[s] \in {"open", "attempted", "confirmed"}
    BY DEF Stage
  <1>2. \A x \in Events : /\ ledger[x].status \in {"none", "sending", "sent"}
                          /\ ledger'[x].status \in {"none", "sending", "sent"}
    BY DEF LedgerTypeOK
  <1>3. QED
    BY <1>1, <1>2

\* The ledger implements ReplyPromise: each step of a claim is a step of the
\* promise about its event, or is invisible to it.
THEOREM LedgerKeepsPromise == TransportFaults = {} /\ LedgerSpec => KeepsPromise
  <1> SUFFICES ASSUME TransportFaults = {}
               PROVE  LedgerSpec => KeepsPromise
    OBVIOUS
  <1>1. LedgerInit => Promise!PromiseInit
    BY DEF LedgerInit, NoRow, Promise!PromiseInit, Stage
  <1>2. LedgerInv /\ [LedgerNext]_ledgerVars => [Promise!PromiseNext]_(Promise!promiseVars)
    <2> SUFFICES ASSUME LedgerInv, [LedgerNext]_ledgerVars
                 PROVE  [Promise!PromiseNext]_(Promise!promiseVars)
      OBVIOUS
    <2> DEFINE stage == [e \in Events |-> Stage[ledger[e].status]]
    <2> DEFINE next == [x \in Events |-> Stage[ledger'[x].status]]
    <2>0. LedgerTypeOK
      BY DEF LedgerInv
    <2>a. stage' = next
      BY DEF Stage
    <2>b. LedgerTypeOK'
      BY LedgerStep DEF LedgerInv
    <2>c. /\ stage \in [Events -> {"open", "attempted", "confirmed"}]
          /\ next \in [Events -> {"open", "attempted", "confirmed"}]
      BY <2>0, <2>b, StagesAreFunctions
    <2>d. ASSUME NEW e \in Events, NEW r, ledger' = [ledger EXCEPT ![e] = r],
                 NEW v \in {"open", "attempted", "confirmed"}, Stage[r.status] = v
          PROVE  next = [stage EXCEPT ![e] = v]
      <3>1. \A x \in Events : ledger'[x] = IF x = e THEN r ELSE ledger[x]
        BY <2>0, <2>d DEF LedgerTypeOK
      <3>2. \A x \in Events : next[x] = IF x = e THEN v ELSE stage[x]
        BY <2>d, <3>1
      <3> HIDE DEF next, stage
      <3>3. QED
        BY <2>c, <3>2, OnePointApart
    <2>1. ASSUME UNCHANGED <<ledger, replies>>
          PROVE  [Promise!PromiseNext]_(Promise!promiseVars)
      BY <2>1 DEF Promise!promiseVars
    <2>2. ASSUME NEW c \in Claims, NEW from \in {"reserved", "fallback"},
                 NEW to \in {"fallback", "confirmed", "undelivered", "kept"}, NEW n \in {0, 1},
                 SendMoves(c, from, to, n)
          PROVE  [Promise!PromiseNext]_(Promise!promiseVars)
      <3>1. /\ target[c] \in Events /\ ledger[target[c]].status = "sending"
            /\ replies[target[c]] = 0
        BY <2>2, SoleSender DEF SendMoves, InFlight, LedgerInv, Counted
      <3>2. replies' = [replies EXCEPT ![target[c]] = replies[target[c]] + n] /\ UNCHANGED ledger
        BY <2>2 DEF SendMoves
      <3>3. CASE n = 0
        <4>1. replies' = replies
          BY <2>0, <3>1, <3>2, <3>3 DEF LedgerTypeOK
        <4>2. QED
          BY <2>1, <3>2, <4>1
      <3>4. CASE n = 1
        <4>1. Promise!Reach(target[c])
          BY <3>1, <3>2, <3>4 DEF Promise!Reach, Stage
        <4>2. QED
          BY <3>1, <4>1 DEF Promise!PromiseNext
      <3>5. QED
        BY <3>3, <3>4
    <2>3. ASSUME NEW c \in Claims, NEW e \in Events, BeginDelivery(c, e)
          PROVE  [Promise!PromiseNext]_(Promise!promiseVars)
      <3>1. CASE ledger[e].status = "none"
        <4>1. ledger' = [ledger EXCEPT ![e] = Reservation(c)] /\ UNCHANGED replies
          BY <2>3, <3>1 DEF BeginDelivery
        <4>2. stage[e] = "open" /\ replies[e] = 0
          BY <3>1 DEF LedgerInv, Recorded, Stage
        <4>3. Stage[Reservation(c).status] = "attempted"
          BY DEF Reservation, Stage
        <4>4. next = [stage EXCEPT ![e] = "attempted"]
          BY <4>1, <4>3, <2>d
        <4>5. Promise!Attempt(e)
          BY <2>a, <4>1, <4>2, <4>4 DEF Promise!Attempt
        <4>6. QED
          BY <4>5 DEF Promise!PromiseNext
      <3>2. CASE ledger[e].status # "none"
        BY <2>1, <2>3, <3>2 DEF BeginDelivery
      <3>3. QED
        BY <3>1, <3>2
    <2>4. ASSUME NEW c \in Claims, FinishDelivery(c)
          PROVE  [Promise!PromiseNext]_(Promise!promiseVars)
      <3> PICK e \in Events : e = target[c]
        BY <2>4, SoleSender DEF FinishDelivery, Confirmed, InFlight
      <3>1. ledger[e].status = "sending" /\ replies[e] = 1
        BY <2>4, SoleSender DEF FinishDelivery, Confirmed, InFlight, LedgerInv, Counted
      <3> DEFINE r == [ledger[e] EXCEPT !.status = "sent"]
      <3>2. ledger' = [ledger EXCEPT ![e] = r] /\ UNCHANGED replies
        BY <2>4, <3>1 DEF FinishDelivery
      <3>3. Stage[r.status] = "confirmed"
        BY <2>0 DEF LedgerTypeOK, Stage
      <3> HIDE DEF r
      <3>4. next = [stage EXCEPT ![e] = "confirmed"]
        BY <3>2, <3>3, <2>d
      <3>5. stage[e] = "attempted"
        BY <3>1 DEF Stage
      <3>6. Promise!Confirm(e)
        BY <2>a, <3>1, <3>2, <3>4, <3>5 DEF Promise!Confirm
      <3>7. QED
        BY <3>6 DEF Promise!PromiseNext
    <2>5. ASSUME NEW c \in Claims, ClearDelivery(c)
          PROVE  [Promise!PromiseNext]_(Promise!promiseVars)
      <3> PICK e \in Events : e = target[c]
        BY <2>5, SoleSender DEF ClearDelivery, Clears, InFlight
      <3>1. ledger[e].status = "sending" /\ replies[e] = 0
        BY <2>5, SoleSender, ClearStep DEF ClearDelivery, Clears, InFlight
      <3>2. ledger[e] = Reservation(c)
        BY <2>5 DEF ClearDelivery, Clears, InFlight, LedgerInv, Held
      <3>3. ledger' = [ledger EXCEPT ![e] = NoRow] /\ UNCHANGED replies
        BY <2>5, <3>2 DEF ClearDelivery
      <3>4. Stage[NoRow.status] = "open"
        BY DEF NoRow, Stage
      <3>5. next = [stage EXCEPT ![e] = "open"]
        BY <3>3, <3>4, <2>d
      <3>6. stage[e] = "attempted"
        BY <3>1 DEF Stage
      <3>7. Promise!GiveUp(e)
        BY <2>a, <3>1, <3>3, <3>5, <3>6 DEF Promise!GiveUp
      <3>8. QED
        BY <3>7 DEF Promise!PromiseNext
    <2>6. ASSUME NEW dying \in SUBSET Claims, Crash(dying)
          PROVE  [Promise!PromiseNext]_(Promise!promiseVars)
      BY <2>1, <2>6 DEF Crash
    <2>7. CASE UNCHANGED ledgerVars
      BY <2>1, <2>7 DEF ledgerVars
    <2>8. ASSUME NEW c \in Claims,
                 \/ LiveDelivers(c) \/ LiveAmbiguous(c) \/ LiveUndelivered(c)
                 \/ FallbackDelivers(c) \/ FallbackFails(c)
          PROVE  [Promise!PromiseNext]_(Promise!promiseVars)
      <3>1. PICK n \in {0, 1} : \/ SendMoves(c, "reserved", "confirmed", n)
                                \/ SendMoves(c, "reserved", "kept", n)
                                \/ SendMoves(c, "reserved", "fallback", n)
                                \/ SendMoves(c, "fallback", "confirmed", n)
                                \/ SendMoves(c, "fallback", "undelivered", n)
        BY <2>8 DEF LiveDelivers, LiveAmbiguous, LiveUndelivered, FallbackDelivers, FallbackFails
      <3>2. QED
        BY <2>2, <3>1
    <2>9. QED
      BY <2>3, <2>4, <2>5, <2>6, <2>7, <2>8 DEF LedgerNext
  <1>3. QED
    BY <1>1, <1>2, LedgerInvariant, PTL DEF LedgerSpec, KeepsPromise, Promise!PromiseSpec
=============================================================================

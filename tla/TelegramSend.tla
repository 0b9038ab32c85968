---------------------------- MODULE TelegramSend -----------------------------
(***************************************************************************)
(* What one delivery of DeliveryLedger is on Telegram: a voice message or  *)
(* the parts of a text, each a call that is accepted, throttled, refused,  *)
(* lost before it got there or lost on the way; the text after a voice     *)
(* that failed; and the stateless sender after a live one that provably    *)
(* did not send.                                                           *)
(*   lib/gateway/channels/{telegram_outbound,telegram,_http,registry}.py,  *)
(*   lib/gateway/delivery.py                                               *)
(***************************************************************************)
EXTENDS Naturals, Sequences, SequencesExt

CONSTANTS
    MaxParts,       \* bound: parts of a reply too long for one message
    MaxPosts,       \* _SEND_RETRY_ATTEMPTS
    MaxDeliveries   \* bound: claims that deliver the reply

ASSUME SendAssumption ==
    MaxParts \in Nat \ {0} /\ MaxPosts \in Nat \ {0} /\ MaxDeliveries \in Nat

VARIABLES
    answer,         \* the reply: its parts, and whether a voice was synthesised
    reservation,    \* its row in `deliveries`: "none", "sending", "sent"
    call,           \* where the send is
    said,           \* what is in the chat, in order; 0 is the voice message
    deliveries,     \* deliveries begun
    doubts          \* history: why something may be said again

sendVars == <<answer, reservation, call, said, deliveries, doubts>>

Voice == 0
NoCall == [via |-> "none", part |-> 1, plain |-> FALSE, posts |-> 0]

SendTypeOK ==
    /\ answer \in [parts : 1..MaxParts, voice : BOOLEAN]
    /\ reservation \in {"none", "sending", "sent"}
    /\ call \in [via : {"none", "live", "stateless"}, part : 0..MaxParts,
                 plain : BOOLEAN, posts : 0..(MaxPosts - 1)]
    /\ call.part <= answer.parts /\ (call.part = Voice => answer.voice /\ ~call.plain)
    /\ (call.via # "none" => reservation = "sending")
    /\ \A i \in DOMAIN said : said[i] \in 0..answer.parts
    /\ deliveries \in 0..MaxDeliveries
    /\ doubts \subseteq {"voice", "later part", "stateless"}

SendInit ==
    /\ answer \in [parts : 1..MaxParts, voice : BOOLEAN]
    /\ reservation = "none" /\ call = NoCall /\ said = <<>> /\ deliveries = 0 /\ doubts = {}

\* TelegramChannel.send: a voice before the text.
Opening(via) == [NoCall EXCEPT !.via = via, !.part = IF answer.voice THEN Voice ELSE 1]

-----------------------------------------------------------------------------
(* The gateway.                                                            *)

\* A claim of the event finds no reservation, and reserves it.
BeginSend ==
    /\ reservation = "none" /\ call = NoCall /\ deliveries < MaxDeliveries
    /\ reservation' = "sending" /\ deliveries' = deliveries + 1 /\ call' = Opening("live")
    /\ UNCHANGED <<answer, said, doubts>>

\* The row that it leaves keeps every later claim from sending.
SenderDies ==
    /\ call # NoCall /\ call' = NoCall
    /\ UNCHANGED <<answer, reservation, said, deliveries, doubts>>

\* How a failed call goes on.  A voice goes on with the text; the live sender gives
\* its row up only for the stateless one, whose failure clears it.
AfterAnyFailure(proof) ==  \* Mutation of AfterFailure
    /\ call' = IF call.part = Voice THEN [NoCall EXCEPT !.via = call.via]
               ELSE IF call.via = "live" THEN Opening("stateless") ELSE NoCall
    /\ reservation' = IF call.part # Voice /\ call.via = "stateless" THEN "none"
                      ELSE reservation

AfterFailure(proof) ==
    /\ call' = IF call.part = Voice THEN [NoCall EXCEPT !.via = call.via]
               ELSE IF call.via = "live" /\ proof THEN Opening("stateless") ELSE NoCall
    /\ reservation' = IF call.part # Voice /\ call.via = "stateless" THEN "none"
                      ELSE reservation

-----------------------------------------------------------------------------
(* A call to Telegram.                                                     *)

LastPart == call.part \in {Voice, answer.parts}

AcceptedEarly ==  \* Mutation of Accepted
    /\ call # NoCall
    /\ said' = Append(said, call.part)
    /\ call' = NoCall /\ reservation' = "sent"
    /\ UNCHANGED <<answer, deliveries, doubts>>

\* The id of the last part is the id of the answer.
Accepted ==
    /\ call # NoCall
    /\ said' = Append(said, call.part)
    /\ IF LastPart THEN call' = NoCall /\ reservation' = "sent"
       ELSE /\ call' = [call EXCEPT !.part = @ + 1, !.plain = FALSE, !.posts = 0]
            /\ UNCHANGED reservation
    /\ UNCHANGED <<answer, deliveries, doubts>>

\* 429: a text is posted again after a pause, MaxPosts times in all.
Throttled ==
    /\ call # NoCall
    /\ IF call.part # Voice /\ call.posts + 1 < MaxPosts
       THEN call' = [call EXCEPT !.posts = @ + 1] /\ UNCHANGED reservation
       ELSE AfterFailure(FALSE)
    /\ doubts' = IF call.part > 1 /\ call.via = "stateless" /\ call.posts + 1 = MaxPosts
                 THEN doubts \cup {"stateless"} ELSE doubts
    /\ UNCHANGED <<answer, said, deliveries>>

\* 400, the markup does not parse: once more as plain text.
Unparsed ==
    /\ call.via # "none" /\ call.part # Voice /\ ~call.plain
    /\ call' = [call EXCEPT !.plain = TRUE, !.posts = 0]
    /\ UNCHANGED <<answer, reservation, said, deliveries, doubts>>

\* Any other answer that is not ok is an error like any other.
PostRefused ==
    /\ call # NoCall /\ AfterFailure(FALSE)
    /\ doubts' = IF call.part > 1 /\ call.via = "stateless" THEN doubts \cup {"stateless"}
                 ELSE doubts
    /\ UNCHANGED <<answer, said, deliveries>>

\* _provably_undelivered: no name, no connection.  It proves it of this part.
Unreached ==
    /\ call # NoCall /\ AfterFailure(TRUE)
    /\ doubts' = IF call.part > 1 THEN doubts \cup {"later part"} ELSE doubts
    /\ UNCHANGED <<answer, said, deliveries>>

TimesOut(got) ==
    /\ call # NoCall /\ AfterFailure(FALSE)
    /\ said' = IF got THEN Append(said, call.part) ELSE said
    /\ doubts' = doubts
          \cup (IF got /\ call.part = Voice THEN {"voice"} ELSE {})
          \cup (IF call.via = "stateless" /\ (got \/ call.part > 1)
                THEN {"stateless"} ELSE {})
    /\ UNCHANGED <<answer, deliveries>>

SendNext ==
    \/ BeginSend \/ SenderDies
    \/ Accepted \/ Throttled \/ Unparsed \/ PostRefused \/ Unreached
    \/ \E got \in BOOLEAN : TimesOut(got)

SendSpec == SendInit /\ [][SendNext]_sendVars

-----------------------------------------------------------------------------
(* Properties.                                                             *)

Text == [i \in 1..answer.parts |-> i]

\* What counts as sent was said from its first part to its last without a gap, or
\* as a voice.  (telegram_outbound.py: "chunks in order so the footer survives")
SentWhole == reservation = "sent" => Last(said) = Voice \/ IsSuffix(Text, said)

\* At every moment the chat holds a beginning of the answer, once, whatever was
\* throttled, refused or lost, unless a voice arrived that had timed out, a later
\* part was not reached, or the stateless sender failed half way or after the part
\* had arrived.  (delivery.py: a send that may have been accepted is not repeated)
SaidOnce == doubts = {} => said = <<Voice>> \/ IsPrefix(said, Text)

ReplySentOnce == SentWhole /\ SaidOnce

=============================================================================

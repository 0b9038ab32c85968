---------------------------- MODULE EmailChannel ----------------------------
(***************************************************************************)
(* Mail in.  Pollers, the gateway's own and the one that cron starts,      *)
(* fetch what lies above the UID watermark, newest first, dispatch it, and *)
(* raise the watermark to the highest UID that they handled.               *)
(*                                                                         *)
(* Mail out.  The reply to an external sender is a draft in a file, which  *)
(* the operator approves, edits or rejects from the command line or by a   *)
(* tap in Telegram.  Each command reads the file and writes it back whole; *)
(* nothing locks it.                                                       *)
(*   lib/channels/email/{adapter,imap_client}.py, bin/jc-email             *)
(*   lib/gateway/channels/{email,email_dispatcher,email_state,telegram}.py *)
(***************************************************************************)
EXTENDS Naturals, FiniteSets, FiniteSetsExt

CONSTANTS
    Pollers,
    MaxMails,       \* bound: mails that arrive
    MaxMissed       \* bound: mails that a fetch or a dispatch fails on

ASSUME EmailPollAssumption == MaxMails \in Nat /\ MaxMissed \in Nat

VARIABLES
    arrivedMail,    \* highest UID of the mailbox
    mail,           \* what became of each mail
    missed,         \* mails that some fetch or dispatch failed on
    watermark,      \* state/channels/email/last_uid
    poller

emailPollVars == <<arrivedMail, mail, missed, watermark, poller>>

Mails == 1..MaxMails
PollerAtRest == [at |-> "rest", batch |-> {}, handled |-> {}, read |-> 0]

EmailPollTypeOK ==
    /\ arrivedMail \in 0..MaxMails /\ watermark \in 0..MaxMails
    /\ mail \in [Mails -> {"none", "queued", "rejected", "blocked"}]
    /\ missed \subseteq Mails
    /\ poller \in [Pollers -> [at : {"rest", "dispatching", "marking"}, batch : SUBSET Mails,
                               handled : SUBSET Mails, read : 0..MaxMails]]

EmailPollInit ==
    /\ arrivedMail = 0 /\ watermark = 0
    /\ mail = [m \in Mails |-> "none"] /\ missed = {}
    /\ poller = [p \in Pollers |-> PollerAtRest]

-----------------------------------------------------------------------------
MailArrives ==
    /\ arrivedMail < MaxMails /\ arrivedMail' = arrivedMail + 1
    /\ UNCHANGED <<mail, missed, watermark, poller>>

\* UID n:* also means the last mail when none is above the watermark.
Found == IF arrivedMail <= watermark /\ watermark > 0
         THEN {arrivedMail} \ {0} ELSE (watermark + 1)..arrivedMail

\* A mail that cannot be fetched or parsed is left out of the batch.
Parsed(found) == SUBSET found

Fetch(p) ==
    /\ poller[p].at = "rest" /\ Found # {}
    /\ \E got \in Parsed(Found) :
          /\ poller' = [poller EXCEPT ![p] = [at |-> "dispatching", batch |-> got,
                                              handled |-> {}, read |-> 0]]
          /\ missed' = missed \cup (Found \ got)
          /\ Cardinality(missed') <= MaxMissed
    /\ UNCHANGED <<arrivedMail, mail, watermark>>

\* handled_uids becomes the watermark when the whole batch has been dispatched.
MarkedAsItGoes(handled) ==      \* Mutation of Marked
    IF handled = {} THEN watermark ELSE Max(handled \cup {watermark})
Marked(handled) == watermark

Newest(p) == Max(poller[p].batch)

\* A mail is queued, once, or it is recorded that its sender is blocked or not valid.
Recorded(m, end) == mail' = [mail EXCEPT ![m] = IF @ = "none" THEN end ELSE @]
EnqueueMessage(m) == Recorded(m, "queued")
TurnsAway(m) == Recorded(m, "rejected") \/ Recorded(m, "blocked")

Dispatch(p) ==
    /\ poller[p].at = "dispatching" /\ poller[p].batch # {}
    /\ LET m == Newest(p) IN
       \/ /\ EnqueueMessage(m) \/ TurnsAway(m)
          /\ poller' = [poller EXCEPT ![p].batch = @ \ {m}, ![p].handled = @ \cup {m}]
          /\ watermark' = Marked(poller[p].handled \cup {m})
          /\ UNCHANGED missed
       \/ /\ missed' = missed \cup {m} /\ Cardinality(missed') <= MaxMissed
          /\ poller' = [poller EXCEPT ![p].batch = @ \ {m}]
          /\ UNCHANGED <<mail, watermark>>
    /\ UNCHANGED <<arrivedMail>>

\* mark_handled_uids: the file is read, and written if it grows.
MarkReads(p) ==
    /\ poller[p].at = "dispatching" /\ poller[p].batch = {}
    /\ poller' = [poller EXCEPT ![p].at = "marking", ![p].read = watermark]
    /\ UNCHANGED <<arrivedMail, mail, missed, watermark>>

MarkWrites(p) ==
    /\ poller[p].at = "marking"
    /\ LET highest == Max(poller[p].handled \cup {poller[p].read}) IN
       watermark' = IF highest > poller[p].read THEN highest ELSE watermark
    /\ poller' = [poller EXCEPT ![p] = PollerAtRest]
    /\ UNCHANGED <<arrivedMail, mail, missed>>

\* The poll raises, is killed, or its gateway crashes.
PollEnds(p) ==
    /\ poller[p].at # "rest"
    /\ poller' = [poller EXCEPT ![p] = PollerAtRest]
    /\ UNCHANGED <<arrivedMail, mail, missed, watermark>>

-----------------------------------------------------------------------------
EmailPollNext ==
    \/ MailArrives
    \/ \E p \in Pollers : Fetch(p) \/ Dispatch(p) \/ MarkReads(p) \/ MarkWrites(p) \/ PollEnds(p)

EmailPollSpec == EmailPollInit /\ [][EmailPollNext]_emailPollVars

-----------------------------------------------------------------------------
(* Properties. *)

\* Every mail that no fetch will return again was queued or recorded, wherever a
\* poll ended and however two polls crossed, or was one that failed on its way.
MailsAccountedFor ==
    \A m \in Mails : m <= watermark => mail[m] # "none" \/ m \in missed

\* "UID state cannot lose default-external messages", and the watermark advances
\* only after a message is enqueued or recorded (docs/specs/email-channel.md).
MailNotLost == \A m \in Mails : m <= watermark => mail[m] # "none"

-----------------------------------------------------------------------------
(* Drafts. *)

CONSTANTS
    Replies,        \* mails of external senders; each has one draft file
    Editors,        \* commands that can run at a time
    MaxSlips,       \* bound: kills, overlaps and second drafts of a reply
    NoReply

ASSUME EmailDraftsAssumption ==
    MaxSlips \in Nat /\ NoReply \notin Replies /\ IsFiniteSet(Editors)

VARIABLES
    draft,          \* the state in each draft file
    command,        \* the commands that are under way
    mailed,         \* how often each reply went out
    slips           \* per reply: see Slip

emailDraftsVars == <<draft, command, mailed, slips>>

CommandAtRest == [at |-> "rest", on |-> NoReply, read |-> "none"]
DraftStates == {"none", "pending", "sent", "failed", "rejected"}

EmailDraftsTypeOK ==
    /\ draft \in [Replies -> DraftStates]
    /\ command \in [Editors -> [at : {"rest", "sending", "sent", "failed", "rejecting", "editing"},
                                on : Replies \cup {NoReply}, read : DraftStates]]
    /\ mailed \in [Replies -> Nat]
    /\ slips \in [Replies -> 0..MaxSlips]

EmailDraftsInit ==
    /\ draft = [m \in Replies |-> "none"]
    /\ command = [c \in Editors |-> CommandAtRest]
    /\ mailed = [m \in Replies |-> 0] /\ slips = [m \in Replies |-> 0]

\* Something went wrong with m, or crossed something else that is done to it.
Slip(m) ==
    /\ slips[m] < MaxSlips
    /\ slips' = [slips EXCEPT ![m] = @ + 1]

-----------------------------------------------------------------------------
\* The answer to an external sender becomes a draft: enqueue_draft writes the
\* file, also over one of the same reply.
EnqueueDraft(m) == draft' = [draft EXCEPT ![m] = "pending"]

DraftReply(m) ==
    /\ EnqueueDraft(m)
    /\ IF draft[m] = "none" THEN UNCHANGED slips ELSE Slip(m)
    /\ UNCHANGED <<command, mailed>>

\* A command starts by reading the file.
Begin(c, m, at) ==
    /\ command[c].at = "rest" /\ draft[m] # "none"
    /\ command' = [command EXCEPT ![c] = [at |-> at, on |-> m, read |-> draft[m]]]
    /\ IF \E d \in Editors : command[d].on = m THEN Slip(m) ELSE UNCHANGED slips
    /\ UNCHANGED <<draft, mailed>>

ApprovesAny(m) == TRUE          \* Mutation of Approves
Approves(m) == draft[m] = "pending"

\* By hand, or by a tap on the notice of the draft, which stays in the chat.
BeginApprove(c, m) == Approves(m) /\ Begin(c, m, "sending")
BeginReject(c, m) == Begin(c, m, "rejecting")
BeginEdit(c, m) == Begin(c, m, "editing")

\* SMTP takes the reply, or raises; an answer that comes too late raises too.
Send(c) ==
    /\ command[c].at = "sending"
    /\ \E at \in {"sent", "failed"}, out \in BOOLEAN :
          /\ at = "sent" => out
          /\ command' = [command EXCEPT ![c].at = at]
          /\ mailed' = IF out THEN [mailed EXCEPT ![command[c].on] = @ + 1] ELSE mailed
    /\ UNCHANGED <<draft, slips>>

\* update_draft writes back what the command read, with its own change in it.
WriteDraft(c) ==
    /\ command[c].at \in {"sent", "failed", "rejecting", "editing"}
    /\ draft' = [draft EXCEPT ![command[c].on] =
          CASE command[c].at = "rejecting" -> "rejected"
            [] command[c].at = "editing" -> command[c].read
            [] OTHER -> command[c].at]
    /\ command' = [command EXCEPT ![c] = CommandAtRest]
    /\ UNCHANGED <<mailed, slips>>

\* A tap gives its command 30 seconds.
CommandKilled(c) ==
    /\ command[c].at # "rest" /\ Slip(command[c].on)
    /\ command' = [command EXCEPT ![c] = CommandAtRest]
    /\ UNCHANGED <<draft, mailed>>

-----------------------------------------------------------------------------
EmailDraftsNext ==
    \/ \E m \in Replies : DraftReply(m)
    \/ \E c \in Editors, m \in Replies : BeginApprove(c, m) \/ BeginReject(c, m) \/ BeginEdit(c, m)
    \/ \E c \in Editors : Send(c) \/ WriteDraft(c) \/ CommandKilled(c)

EmailDraftsSpec == EmailDraftsInit /\ [][EmailDraftsNext]_emailDraftsVars

-----------------------------------------------------------------------------
(* Properties. *)

\* "draft approve sends once": a second reply needs a second draft of it, a killed
\* command, or two commands that cross on its file.
DraftSentOnce == \A m \in Replies : mailed[m] <= 1 + slips[m]

=============================================================================

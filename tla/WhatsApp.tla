------------------------------- MODULE WhatsApp -------------------------------
(***************************************************************************)
(* The WhatsApp channel: a thread of the gateway that runs a Node process, *)
(* the sidecar; a reader thread that hands its events on and starts it     *)
(* again when it ends; messages that are queued, answered or drafted as    *)
(* the policy says; and the commands that change policy and login.         *)
(*   lib/gateway/channels/whatsapp*.py, whatsapp_sidecar/src/*.ts,         *)
(*   bin/jc-whatsapp                                                       *)
(***************************************************************************)
EXTENDS Naturals

CONSTANTS
    Posts,          \* messages
    MaxRestarts,    \* 3: relaunches of the sidecar that the reader attempts
    MaxMisfires,    \* bound: relaunches whose Popen fails, stops that meet one
    MaxRaises       \* bound: events that the reader fails to handle

ASSUME LineAssumption == {MaxRestarts, MaxMisfires, MaxRaises} \subseteq Nat

VARIABLES
    channel,    \* the channel's thread
    halted,     \* _stop_event
    sidecar,    \* the process that the channel knows of
    reader,     \* the reader thread of it
    relaunches,
    fatal,      \* _fatal_error
    creds,      \* creds.json is there
    linking,    \* `jc whatsapp login` runs a sidecar of its own
    tier,       \* who writes -> trusted, external, blocked
    post,       \* message -> how far it came, and the tier it came in with
    stray,      \* sidecars that a relaunch has left behind, alive
    raised,     \* history: exceptions that ended a reader whose sidecar lived
    misfires, hasty     \* a stop has fallen between the reader's last look at the
                        \* flag and its start of the process

lineVars == <<channel, halted, sidecar, reader, relaunches, fatal, creds, linking, tier, post,
              stray, raised, misfires, hasty>>

Tiers == {"trusted", "external", "blocked"}
Parties == {"sender", "group"}
NewPost == [at |-> "new", tier |-> "external"]
Up == sidecar \in {"up", "linked"}

LineTypeOK ==
    /\ channel \in {"off", "running", "stopping", "ended"}
    /\ {halted, fatal, creds, linking, hasty} \subseteq BOOLEAN
    /\ sidecar \in {"none", "up", "linked", "dead"}
    /\ reader \in {"none", "reading", "sleeping", "starting"}
    /\ relaunches \in 0..(MaxRestarts + 1)
    /\ tier \in [Parties -> Tiers]
    /\ post \in [Posts -> [at : {"new", "dropped", "queued", "drafted", "approved", "denied",
                                 "handed", "sent", "lost"}, tier : Tiers]]
    /\ misfires \in 0..MaxMisfires /\ stray \in Nat /\ raised \in 0..MaxRaises

LineAtRest ==
    /\ channel = "off" /\ halted = FALSE /\ sidecar = "none" /\ reader = "none"
    /\ relaunches = 0 /\ fatal = FALSE /\ hasty = FALSE /\ stray = 0

LineInit ==
    /\ LineAtRest
    /\ creds \in BOOLEAN /\ linking = FALSE /\ tier \in [Parties -> Tiers]
    /\ post = [m \in Posts |-> NewPost]
    /\ misfires = 0 /\ raised = 0

-----------------------------------------------------------------------------
\* WhatsAppChannel.run: the sidecar is started, or the channel is over at once.
RunChannel ==
    /\ channel = "off"
    /\ \/ /\ channel' = "running" /\ sidecar' = "up" /\ reader' = "reading"
          /\ halted' = FALSE
          /\ UNCHANGED fatal
       \/ /\ channel' = "ended" /\ fatal' = TRUE
          /\ UNCHANGED <<sidecar, reader, halted>>
    /\ UNCHANGED <<relaunches, creds, linking, tier, post,
                   stray, raised, misfires, hasty>>

\* connection.update of the socket: open, if there is a login or its QR code is
\* scanned, which saves one; closed, and it reconnects by itself; or logged out.
SocketOpens ==
    /\ sidecar = "up"
    /\ sidecar' = "linked" /\ creds' = TRUE
    /\ UNCHANGED <<channel, halted, reader, relaunches, fatal, linking, tier, post,
                   stray, raised, misfires, hasty>>

SocketCloses ==
    /\ sidecar = "linked"
    /\ sidecar' = "up"
    /\ fatal' \in {fatal, TRUE}
    /\ UNCHANGED <<channel, halted, reader, relaunches, creds, linking, tier, post,
                   stray, raised, misfires, hasty>>

\* creds.update, and a logout by hand, which the sidecar does not notice.
SaveCreds ==
    /\ sidecar = "linked" /\ ~creds
    /\ creds' = TRUE
    /\ UNCHANGED <<channel, halted, sidecar, reader, relaunches, fatal, linking, tier, post,
                   stray, raised, misfires, hasty>>

Logout ==
    /\ creds' = FALSE
    /\ UNCHANGED <<channel, halted, sidecar, reader, relaunches, fatal, linking, tier, post,
                   stray, raised, misfires, hasty>>

\* cmd_login, where there is no login yet: the codes are shown in the terminal
\* until one is scanned; or the first one is printed, or sent by Telegram, and
\* the sidecar that would wait for its scan is ended.
BeginLogin ==
    /\ ~linking /\ ~creds
    /\ linking' = TRUE
    /\ UNCHANGED <<channel, halted, sidecar, reader, relaunches, fatal, creds, tier, post,
                   stray, raised, misfires, hasty>>

LoginIsScanned ==
    /\ linking /\ linking' = FALSE
    /\ creds' = TRUE
    /\ UNCHANGED <<channel, halted, sidecar, reader, relaunches, fatal, tier, post,
                   stray, raised, misfires, hasty>>

LoginEnds ==
    /\ linking /\ linking' = FALSE
    /\ UNCHANGED <<channel, halted, sidecar, reader, relaunches, fatal, creds, tier, post,
                   stray, raised, misfires, hasty>>

SidecarDies ==
    /\ Up
    /\ sidecar' = "dead"
    /\ fatal' \in {fatal, TRUE}
    /\ UNCHANGED <<channel, halted, reader, relaunches, creds, linking, tier, post,
                   stray, raised, misfires, hasty>>

\* One that nobody reads or knows of any more.
StrayDies ==
    /\ stray > 0 /\ stray' = stray - 1
    /\ UNCHANGED <<channel, halted, sidecar, reader, relaunches, fatal, creds, linking, tier, post,
                   raised, misfires, hasty>>

-----------------------------------------------------------------------------
\* An event that cannot be handled: the queue or a state file cannot be written,
\* or the line cannot be decoded.  The message may be lost with it.
HandlerRaises ==
    /\ Up /\ raised < MaxRaises
    /\ raised' = raised + 1
    /\ \/ UNCHANGED post
       \/ \E m \in Posts : post[m].at = "new" /\ post' = [post EXCEPT ![m].at = "lost"]

\* _handle_exit, in the reader's thread, once the sidecar has ended or an exception
\* has ended the loop that reads it: give up, or sleep, look again, start.
ReaderLeaves ==
    /\ reader = "reading"
    /\ \/ sidecar = "dead" /\ UNCHANGED <<raised, post>>
       \/ HandlerRaises
    /\ IF halted THEN reader' = "none" /\ UNCHANGED <<relaunches, fatal>>
       ELSE /\ relaunches' = relaunches + 1
            /\ IF relaunches < MaxRestarts THEN reader' = "sleeping" /\ UNCHANGED fatal
               ELSE reader' = "none" /\ fatal' = TRUE
    /\ UNCHANGED <<channel, halted, sidecar, creds, linking, tier, stray, misfires, hasty>>

ReaderWakesBlind ==  \* Mutation of ReaderWakes
    /\ reader = "sleeping"
    /\ reader' = "starting"
    /\ UNCHANGED <<channel, halted, sidecar, relaunches, fatal, creds, linking, tier, post,
                   stray, raised, misfires, hasty>>

ReaderWakes ==
    /\ reader = "sleeping"
    /\ reader' = IF halted THEN "none" ELSE "starting"
    /\ UNCHANGED <<channel, halted, sidecar, relaunches, fatal, creds, linking, tier, post,
                   stray, raised, misfires, hasty>>

\* _spawn, which forgets that a stop was asked for, and a sidecar that still runs;
\* its failure is told nobody.
ReaderStarts ==
    /\ reader = "starting"
    /\ \/ /\ sidecar' = "up" /\ reader' = "reading" /\ halted' = FALSE
          /\ stray' = IF Up THEN stray + 1 ELSE stray
          /\ UNCHANGED misfires
       \/ /\ misfires < MaxMisfires /\ misfires' = misfires + 1
          /\ reader' = "none"
          /\ UNCHANGED <<sidecar, halted, stray>>
    /\ UNCHANGED <<channel, relaunches, fatal, creds, linking, tier, post, raised, hasty>>

\* The loop of run ends, once the gateway stops or the sidecar said a fatal word;
\* stop: the flag, then the process.
ChannelStops ==
    /\ channel = "running"      \* should_stop(), or fatal
    /\ channel' = "stopping" /\ halted' = TRUE
    /\ hasty' = (hasty \/ reader = "starting")
    /\ UNCHANGED <<sidecar, reader, relaunches, fatal, creds, linking, tier, post,
                   stray, raised, misfires>>

StopSidecar ==
    /\ channel = "stopping"
    /\ sidecar' = IF Up THEN "dead" ELSE sidecar
    /\ channel' = "ended"
    /\ UNCHANGED <<halted, reader, relaunches, fatal, creds, linking, tier, post,
                   stray, raised, misfires, hasty>>

\* The gateway starts anew: a sidecar whose stdin is closed ends, left behind or not.
GatewayAnew ==
    /\ channel # "off"
    /\ channel' = "off" /\ halted' = FALSE /\ sidecar' = "none" /\ reader' = "none"
    /\ relaunches' = 0 /\ fatal' = FALSE /\ hasty' = FALSE /\ stray' = 0
    /\ UNCHANGED <<creds, linking, tier, post, raised, misfires>>

-----------------------------------------------------------------------------
\* resolve_tier, resolve_group_tier: who is blocked, anywhere, is not heard; who
\* is external, anywhere, is answered with a draft.
TierOf(inGroup) ==
    LET of == {tier[p] : p \in IF inGroup THEN Parties ELSE {"sender"}} IN
    IF "blocked" \in of THEN "blocked" ELSE IF "external" \in of THEN "external" ELSE "trusted"

\* _on_message, in the reader's thread; a group that does not mention us is not
\* heard either.
OnMessage(m, inGroup) ==
    /\ sidecar = "linked" /\ reader = "reading" /\ post[m].at = "new"
    /\ LET t == TierOf(inGroup) IN
       \E at \in (IF t = "blocked" THEN {"dropped"}
                  ELSE {"queued"} \cup (IF inGroup THEN {"dropped"} ELSE {})) :
          post' = [post EXCEPT ![m] = [at |-> at, tier |-> t]]
    /\ UNCHANGED <<channel, halted, sidecar, reader, relaunches, fatal, creds, linking, tier,
                   stray, raised, misfires, hasty>>

\* send: by the tier that the message came in with.  A line to a sidecar that is
\* not there is lost, and so is one that the socket cannot send.
Answer(m) ==
    /\ post[m].at = "queued"
    /\ post' = [post EXCEPT ![m].at = IF post[m].tier = "external" THEN "drafted"
                                      ELSE IF Up THEN "handed" ELSE "lost"]
    /\ UNCHANGED <<channel, halted, sidecar, reader, relaunches, fatal, creds, linking, tier,
                   stray, raised, misfires, hasty>>

SendResult(m) ==
    /\ post[m].at = "handed"
    /\ post' = [post EXCEPT ![m].at = IF sidecar = "linked" THEN "sent" ELSE "lost"]
    /\ UNCHANGED <<channel, halted, sidecar, reader, relaunches, fatal, creds, linking, tier,
                   stray, raised, misfires, hasty>>

\* What `chats trust` and `chats block` make of the sender's drafts.
DraftAfter(m, p, t) ==
    IF p = "sender" /\ post[m].at = "drafted" /\ t # "external"
    THEN [post[m] EXCEPT !.at = IF t = "trusted" THEN "approved" ELSE "denied"]
    ELSE post[m]

SetTier(p, t) ==
    /\ tier[p] # t
    /\ tier' = [tier EXCEPT ![p] = t]
    /\ post' = [m \in Posts |-> DraftAfter(m, p, t)]
    /\ UNCHANGED <<channel, halted, sidecar, reader, relaunches, fatal, creds, linking,
                   stray, raised, misfires, hasty>>

LineNext ==
    \/ RunChannel \/ SocketOpens \/ SocketCloses \/ SaveCreds \/ Logout \/ BeginLogin
    \/ LoginIsScanned \/ LoginEnds \/ SidecarDies \/ StrayDies
    \/ ReaderLeaves \/ ReaderWakes \/ ReaderStarts \/ ChannelStops \/ StopSidecar \/ GatewayAnew
    \/ \E m \in Posts : Answer(m) \/ SendResult(m) \/ \E g \in BOOLEAN : OnMessage(m, g)
    \/ \E p \in Parties, t \in Tiers : SetTier(p, t)

LineSpec == LineInit /\ [][LineNext]_lineVars

-----------------------------------------------------------------------------
(* Properties. *)

\* A channel that has ended stops its sidecar and will start none, but for a stop
\* that meets a restart; it leaves none behind but one for each exception that
\* ended a reader whose sidecar lived; and one that runs is never deaf for good
\* without a word: a reader listens, or is about to see the sidecar's end or to
\* start it anew, or the fatal word is said, but for a restart that fails.
\* (WhatsAppChannel.run; WhatsAppSidecar._read_stdout, _handle_exit, _spawn, stop)
LineKept ==
    /\ channel = "ended" /\ ~hasty => ~Up /\ reader # "starting"
    /\ stray <= raised
    /\ channel = "running" /\ misfires = 0 => fatal \/ reader # "none"

\* Two sidecars never use one login. (WhatsAppSidecar._spawn)
OneSidecar == stray = 0

=============================================================================

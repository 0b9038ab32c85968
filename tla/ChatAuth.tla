------------------------------- MODULE ChatAuth -------------------------------
(***************************************************************************)
(* Which chats the brain may hear: two lists in ops/gateway.yaml, and one  *)
(* in .env, each read and written back whole, with no lock, by the poller  *)
(* of the gateway (a tap on a card, the bot leaving a chat) and by shell   *)
(* commands.  Every decision changes the yaml first and .env after it.     *)
(*   lib/gateway/channels/telegram.py, lib/gateway/config_writer.py,       *)
(*   bin/jc-chats, lib/approvals/dispatch.py, lib/gateway/chats.py         *)
(***************************************************************************)
EXTENDS Naturals

CONSTANTS
    Groups,         \* chats other than the operator's own
    Installed,      \* those in .env as the installation left it
    MaxSlips        \* bound: writers that die half way, decisions begun while
                    \*        another is under way

ASSUME AuthAssumption ==
    Groups # {} /\ Installed \subseteq Groups /\ MaxSlips \in Nat

VARIABLES
    chatIds,        \* gateway.yaml: chat_ids
    blockedIds,     \* gateway.yaml: blocked_chat_ids
    envIds,         \* .env: TELEGRAM_CHAT_IDS
    writer,         \* who writes -> where, what, for which chat, what it has read
    leftOf,         \* chats whose "left" update is still to come
    promptsSent,    \* _auth_prompts_sent, in the gateway's memory
    cards,          \* chats with a card in the operator's chat
    asked,          \* chat -> the row that its card has in the approvals table
    deaths, overlap, raced,     \* what went wrong so far
    lastWord        \* history: chat -> the last decision that reached the yaml,
                    \*          or was answered "already so"

authVars == <<chatIds, blockedIds, envIds, writer, leftOf, promptsSent, cards, asked,
              deaths, overlap, raced, lastWord>>

Writers == {"gateway", "shell"}
Decisions == {"allow", "deny"}
NotWriting == [at |-> "idle", what |-> "allow", chat |-> CHOOSE c \in Groups : TRUE,
               allowed |-> {}, blocked |-> {}, mirrors |-> FALSE]

AuthTypeOK ==
    /\ chatIds \subseteq Groups /\ blockedIds \subseteq Groups /\ envIds \subseteq Groups
    /\ writer \in [Writers -> [at : {"idle", "yaml", "between", "env"}, what : Decisions,
                               chat : Groups, allowed : SUBSET Groups, blocked : SUBSET Groups,
                               mirrors : BOOLEAN]]
    /\ leftOf \subseteq Groups /\ promptsSent \subseteq cards /\ cards \subseteq Groups
    /\ asked \in [Groups -> {"none", "pending", "decided"}]
    /\ deaths \in 0..MaxSlips /\ overlap \in 0..MaxSlips /\ raced \in BOOLEAN
    /\ lastWord \in [Groups -> Decisions \cup {"none"}]

AuthInit ==
    /\ chatIds = {} /\ blockedIds = {}
    /\ envIds = Installed
    /\ writer = [w \in Writers |-> NotWriting]
    /\ leftOf = {} /\ promptsSent = {} /\ cards = {}
    /\ asked = [c \in Groups |-> "none"]
    /\ deaths = 0 /\ overlap = 0 /\ raced = FALSE
    /\ lastWord = [c \in Groups |-> IF c \in envIds THEN "allow" ELSE "none"]

\* _is_authorized
Authorized(c) == c \notin blockedIds /\ c \in chatIds \cup envIds

Known(c) == c \in chatIds \cup envIds \cup blockedIds
Writing(w) == writer[w].at # "idle"

-----------------------------------------------------------------------------
\* The card of a chat is entered in the approvals table, once; a decision that
\* is taken there or mirrored there stands.
MirrorPrompt(c) == asked' = [asked EXCEPT ![c] = IF @ = "none" THEN "pending" ELSE @]
MirrorDecision(c) == asked' = [asked EXCEPT ![c] = IF @ = "pending" THEN "decided" ELSE @]

\* A message, or the bot's arrival in a chat that is not known: the operator is
\* asked, once in the life of the process if Telegram took the card.
MaySendPrompt(c) == ~Known(c) /\ c \notin promptsSent

Prompt(c) ==
    /\ ~Writing("gateway") /\ c \notin leftOf
    /\ MaySendPrompt(c)
    /\ promptsSent' = promptsSent \cup {c} /\ cards' = cards \cup {c}
    /\ MirrorPrompt(c)
    /\ UNCHANGED <<chatIds, blockedIds, envIds, writer, leftOf, deaths, overlap, raced, lastWord>>

\* Both lists are read from the yaml.
Overlaps == IF \E v \in Writers : Writing(v)
            THEN deaths + overlap < MaxSlips /\ overlap' = overlap + 1 ELSE UNCHANGED overlap

BeginDecision(w, what, c, mirrors) ==
    /\ ~Writing(w) /\ Overlaps
    /\ writer' = [writer EXCEPT ![w] = [at |-> "yaml", what |-> what, chat |-> c,
                                        allowed |-> chatIds, blocked |-> blockedIds,
                                        mirrors |-> mirrors]]

\* The operator taps Allow or Deny, on a card that may be an old one.
Tap(c, what) ==
    /\ c \in cards
    /\ BeginDecision("gateway", what, c, TRUE)
    /\ UNCHANGED <<chatIds, blockedIds, envIds, leftOf, promptsSent, cards, asked, deaths, raced,
                   lastWord>>

\* The bot is out of the chat, by its own leave after a Deny or an admin's hand.
BotRemoved(c) ==
    /\ leftOf' = leftOf \cup {c}
    /\ UNCHANGED <<chatIds, blockedIds, envIds, writer, promptsSent, cards, asked, deaths, overlap,
                   raced, lastWord>>

HandleLeft(c) ==
    /\ c \in leftOf
    /\ BeginDecision("gateway", "deny", c, FALSE)
    /\ leftOf' = leftOf \ {c}
    /\ UNCHANGED <<chatIds, blockedIds, envIds, promptsSent, cards, asked, deaths, raced, lastWord>>

\* jc chats approve and deny: what is so already is left alone.
AlreadySo(c, what) ==
    IF what = "allow" THEN c \in chatIds \cup envIds ELSE c \in blockedIds

CommandDecides(c, what) ==
    /\ IF AlreadySo(c, what)
       THEN /\ ~Writing("shell") /\ Overlaps
            /\ lastWord' = [lastWord EXCEPT ![c] = what]
            /\ UNCHANGED writer
       ELSE BeginDecision("shell", what, c, FALSE) /\ UNCHANGED lastWord
    /\ UNCHANGED <<chatIds, blockedIds, envIds, leftOf, promptsSent, cards, asked, deaths, raced>>

\* jc approvals: the callback of a row that is approved allows the chat; nothing
\* is done for one that is rejected.
ApprovalAllows(c) ==
    /\ asked[c] = "pending" /\ MirrorDecision(c)
    /\ BeginDecision("shell", "allow", c, FALSE)
    /\ UNCHANGED <<chatIds, blockedIds, envIds, leftOf, promptsSent, cards, deaths, raced,
                   lastWord>>

ApprovalRejected(c) ==
    /\ asked[c] = "pending" /\ MirrorDecision(c)
    /\ ~Writing("shell")
    /\ UNCHANGED <<chatIds, blockedIds, envIds, writer, leftOf, promptsSent, cards, deaths,
                   overlap, raced, lastWord>>

-----------------------------------------------------------------------------
\* _apply_set_mutation, on what was read.
With(ids, w, what) ==
    IF writer[w].what = what THEN ids \cup {writer[w].chat} ELSE ids \ {writer[w].chat}

Races(w, at) == raced' = (raced \/ \E v \in Writers \ {w} : writer[v].at = at)
Step(w, at) == writer' = [writer EXCEPT ![w] = [@ EXCEPT !.at = at]]

\* update_gateway_yaml_chat_lists: nothing is written when nothing changes.
WriteYamlAllowOnly(w) ==  \* Mutation of WriteYaml
    /\ writer[w].at = "yaml"
    /\ chatIds' = With(writer[w].allowed, w, "allow")
    /\ lastWord' = [lastWord EXCEPT ![writer[w].chat] = writer[w].what]
    /\ Races(w, "yaml") /\ Step(w, "between")
    /\ UNCHANGED <<blockedIds, envIds, leftOf, promptsSent, cards, asked, deaths, overlap>>

WriteYaml(w) ==
    /\ writer[w].at = "yaml"
    /\ LET allowed == With(writer[w].allowed, w, "allow")
           blocked == With(writer[w].blocked, w, "deny")
       IN IF <<allowed, blocked>> = <<writer[w].allowed, writer[w].blocked>>
          THEN UNCHANGED <<chatIds, blockedIds, raced>>
          ELSE chatIds' = allowed /\ blockedIds' = blocked /\ Races(w, "yaml")
    /\ lastWord' = [lastWord EXCEPT ![writer[w].chat] = writer[w].what]
    /\ Step(w, "between")
    /\ UNCHANGED <<envIds, leftOf, promptsSent, cards, asked, deaths, overlap>>

\* update_env_chat_ids
ReadEnv(w) ==
    /\ writer[w].at = "between"
    /\ writer' = [writer EXCEPT ![w] = [@ EXCEPT !.at = "env", !.allowed = envIds, !.blocked = {}]]
    /\ UNCHANGED <<chatIds, blockedIds, envIds, leftOf, promptsSent, cards, asked, deaths, overlap,
                   raced, lastWord>>

WriteEnv(w) ==
    /\ writer[w].at = "env"
    /\ LET ids == With(writer[w].allowed, w, "allow") IN
       IF ids = writer[w].allowed THEN UNCHANGED <<envIds, raced>>
       ELSE envIds' = ids /\ Races(w, "env")
    /\ writer' = [writer EXCEPT ![w] = NotWriting]
    /\ IF writer[w].mirrors THEN MirrorDecision(writer[w].chat) ELSE UNCHANGED asked
    /\ UNCHANGED <<chatIds, blockedIds, leftOf, promptsSent, cards, deaths, overlap, lastWord>>

\* Killed, or a write that fails.  A gateway that starts anew remembers no prompt.
WriterDies(w) ==
    /\ deaths + overlap < MaxSlips
    /\ deaths' = IF Writing(w) THEN deaths + 1 ELSE deaths
    /\ writer' = [writer EXCEPT ![w] = NotWriting]
    /\ promptsSent' = IF w = "gateway" THEN {} ELSE promptsSent
    /\ UNCHANGED <<chatIds, blockedIds, envIds, leftOf, cards, asked, overlap, raced, lastWord>>

AuthNext ==
    \/ \E c \in Groups :
          \/ Prompt(c) \/ BotRemoved(c) \/ HandleLeft(c)
          \/ ApprovalAllows(c) \/ ApprovalRejected(c)
          \/ \E what \in Decisions : Tap(c, what) \/ CommandDecides(c, what)
    \/ \E w \in Writers : WriteYaml(w) \/ ReadEnv(w) \/ WriteEnv(w) \/ WriterDies(w)

AuthSpec == AuthInit /\ [][AuthNext]_authVars

-----------------------------------------------------------------------------
(* Properties. *)

\* A chat that was denied is not heard again, wherever a writer died and however
\* a tap, a leave and a command interleave, unless one wrote a list that another
\* had read; and one that was allowed is heard, if besides nothing died half way
\* and no two decisions overlapped.  (_is_authorized; _approve_chat, _block_chat:
\* the yaml first; cmd_approve, cmd_deny)
LastWordHolds ==
    \A c \in Groups : ~raced =>
        /\ lastWord[c] = "deny" => ~Authorized(c)
        /\ lastWord[c] = "allow" /\ deaths = 0 /\ overlap = 0 => Authorized(c)

=============================================================================

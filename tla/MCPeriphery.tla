----------------------------- MODULE MCPeriphery ----------------------------
(***************************************************************************)
(* What stands around the gateway: the brains' processes and their tokens, *)
(* the threads of the channels, the commands and the tasks beside it. They *)
(* share no state: in each behaviour one of them moves, as the first state *)
(* says, and the others rest, so that their states add up and do not       *)
(* multiply.                                                               *)
(***************************************************************************)
EXTENDS BrainSessions, CodexAuth, DeepResearch, Heartbeat, CronSync,
        MemoryIndex, Tidy, ChatAuth, WhatsApp, Interview, Dream, Proposals,
        ChannelThreads, TLC

VARIABLE focus

peripheryVars == <<focus, brainVars, codexVars, researchVars, heartbeatVars, cronVars,
                   memoryVars, tidyVars, authVars, lineVars, interviewVars, dreamVars,
                   proposalsVars, channelVars>>

PeripheryTypeOK ==
    /\ focus = "brains" => BrainTypeOK
    /\ focus = "tokens" => CodexTypeOK
    /\ focus = "research" => ResearchTypeOK
    /\ focus = "heartbeat" => HeartbeatTypeOK
    /\ focus = "cron" => CronTypeOK
    /\ focus = "memory" => MemoryTypeOK
    /\ focus = "tidy" => TidyTypeOK
    /\ focus = "chats" => AuthTypeOK
    /\ focus = "whatsapp" => LineTypeOK
    /\ focus = "interview" => InterviewTypeOK
    /\ focus = "dream" => DreamTypeOK
    /\ focus = "proposals" => ProposalsTypeOK
    /\ focus = "channels" => ChannelsTypeOK

Init ==
    /\ focus \in {"brains", "tokens", "research", "heartbeat", "cron", "memory", "tidy",
                 "chats", "whatsapp", "interview", "dream", "proposals", "channels"}
    /\ BrainInit /\ CodexInit /\ ResearchInit /\ HeartbeatInit
    /\ CronInit /\ MemoryInit /\ TidyInit /\ AuthInit
    /\ LineInit /\ InterviewInit /\ DreamInit /\ ProposalsInit
    /\ ChannelsInit
    /\ focus # "tokens" => aged = {}
    /\ focus # "tidy" => which = "hot"
    /\ focus # "whatsapp" => creds /\ \A p \in Parties : tier[p] = "trusted"

Next ==
    \/ /\ focus = "brains" /\ BrainNext
       /\ UNCHANGED <<focus, codexVars, researchVars, heartbeatVars, cronVars,
                      memoryVars, tidyVars, authVars, lineVars, interviewVars,
                      dreamVars, proposalsVars, channelVars>>
    \/ /\ focus = "tokens" /\ CodexNext
       /\ UNCHANGED <<focus, brainVars, researchVars, heartbeatVars, cronVars,
                      memoryVars, tidyVars, authVars, lineVars, interviewVars,
                      dreamVars, proposalsVars, channelVars>>
    \/ /\ focus = "research" /\ ResearchNext
       /\ UNCHANGED <<focus, brainVars, codexVars, heartbeatVars, cronVars, memoryVars,
                      tidyVars, authVars, lineVars, interviewVars, dreamVars,
                      proposalsVars, channelVars>>
    \/ /\ focus = "heartbeat" /\ HeartbeatNext
       /\ UNCHANGED <<focus, brainVars, codexVars, researchVars, cronVars, memoryVars,
                      tidyVars, authVars, lineVars, interviewVars, dreamVars,
                      proposalsVars, channelVars>>
    \/ /\ focus = "cron" /\ CronNext
       /\ UNCHANGED <<focus, brainVars, codexVars, researchVars, heartbeatVars,
                      memoryVars, tidyVars, authVars, lineVars, interviewVars,
                      dreamVars, proposalsVars, channelVars>>
    \/ /\ focus = "memory" /\ MemoryNext
       /\ UNCHANGED <<focus, brainVars, codexVars, researchVars, heartbeatVars,
                      cronVars, tidyVars, authVars, lineVars, interviewVars, dreamVars,
                      proposalsVars, channelVars>>
    \/ /\ focus = "tidy" /\ TidyNext
       /\ UNCHANGED <<focus, brainVars, codexVars, researchVars, heartbeatVars,
                      cronVars, memoryVars, authVars, lineVars, interviewVars,
                      dreamVars, proposalsVars, channelVars>>
    \/ /\ focus = "chats" /\ AuthNext
       /\ UNCHANGED <<focus, brainVars, codexVars, researchVars, heartbeatVars,
                      cronVars, memoryVars, tidyVars, lineVars, interviewVars,
                      dreamVars, proposalsVars, channelVars>>
    \/ /\ focus = "whatsapp" /\ LineNext
       /\ UNCHANGED <<focus, brainVars, codexVars, researchVars, heartbeatVars,
                      cronVars, memoryVars, tidyVars, authVars, interviewVars,
                      dreamVars, proposalsVars, channelVars>>
    \/ /\ focus = "interview" /\ InterviewNext
       /\ UNCHANGED <<focus, brainVars, codexVars, researchVars, heartbeatVars,
                      cronVars, memoryVars, tidyVars, authVars, lineVars, dreamVars,
                      proposalsVars, channelVars>>
    \/ /\ focus = "dream" /\ DreamNext
       /\ UNCHANGED <<focus, brainVars, codexVars, researchVars, heartbeatVars,
                      cronVars, memoryVars, tidyVars, authVars, lineVars, interviewVars,
                      proposalsVars, channelVars>>
    \/ /\ focus = "proposals" /\ ProposalsNext
       /\ UNCHANGED <<focus, brainVars, codexVars, researchVars, heartbeatVars,
                      cronVars, memoryVars, tidyVars, authVars, lineVars, interviewVars,
                      dreamVars, channelVars>>
    \/ /\ focus = "channels" /\ ChannelsNext
       /\ UNCHANGED <<focus, brainVars, codexVars, researchVars, heartbeatVars,
                      cronVars, memoryVars, tidyVars, authVars, lineVars, interviewVars,
                      dreamVars, proposalsVars>>

Spec == Init /\ [][Next]_peripheryVars

-----------------------------------------------------------------------------
(* Properties of several modules that say one thing; each is about the     *)
(* component that moves.                                                   *)

\* Nothing that was begun or written is lost, and nothing is done again: a research
\* job's end, an item that was tidied away, a refresh token, a change that is told,
\* the operator's answers about the persona, a proposal to change it.
NothingLostOrRepeated ==
    /\ focus = "research" => ResearchKept
    /\ focus = "tidy" => NothingTidiedAway
    /\ focus = "tokens" => TokenNotSpentTwice
    /\ focus = "heartbeat" => ChangeToldOnce
    /\ focus = "interview" => InterviewKept
    /\ focus = "proposals" => ProposalsHandled

\* What is kept twice agrees: the index and the notes, the crontab and the
\* schedules, the sidecar and its channel, the dreams' reports and what they wrote,
\* the health of a channel's thread and what `jc doctor` is told of it.
KeptInStep ==
    /\ focus = "memory" => IndexFollows
    /\ focus = "cron" => BlocksKept
    /\ focus = "whatsapp" => LineKept
    /\ focus = "dream" => DreamsKept
    /\ focus = "channels" => ChannelsTold

\* What the operator tapped or typed last is what holds: who may speak to the
\* assistant, and which session was stopped or sent to the background.
OperatorObeyed == (focus = "chats" => LastWordHolds) /\ (focus = "brains" => ButtonsKept)

\* What tells two states apart, for TLC: the others rest in the state they began in.
InMotion ==
    <<focus,
      CASE focus = "brains" -> brainVars
        [] focus = "tokens" -> codexVars
        [] focus = "research" -> researchVars
        [] focus = "heartbeat" -> heartbeatVars
        [] focus = "cron" -> cronVars
        [] focus = "memory" -> memoryVars
        [] focus = "tidy" -> tidyVars
        [] focus = "chats" -> authVars
        [] focus = "whatsapp" -> lineVars
        [] focus = "interview" -> interviewVars
        [] focus = "dream" -> dreamVars
        [] focus = "proposals" -> proposalsVars
        [] focus = "channels" -> channelVars>>

=============================================================================

----------------------------- MODULE MCServices -----------------------------
(***************************************************************************)
(* The components that share no state with each other, in one run: in each *)
(* behaviour one of them moves, as the first state says, and the others    *)
(* rest, so that their states add up and do not multiply.  A component at  *)
(* rest takes no step, and its fairness asks for nothing.                  *)
(***************************************************************************)
EXTENDS Workers, Approvals, GatewayDaemon, Commitments, Reauth, Sessions,
        TelegramPoll, EmailChannel, CompanyChannel, Enrollment, TelegramSend, TLC

VARIABLE focus

servicesVars == <<focus, workersVars, approvalsVars, daemonVars, commitmentsVars,
                  reauthVars, sessionsVars, telegramVars, emailPollVars,
                  emailDraftsVars, inboxVars, feedVars, enrollmentVars, sendVars>>

ServicesTypeOK ==
    /\ focus = "workers" => WorkersTypeOK
    /\ focus = "approvals" => ApprovalsTypeOK
    /\ focus = "daemon" => DaemonTypeOK
    /\ focus = "commitments" => CommitmentsTypeOK
    /\ focus = "reauth" => ReauthTypeOK
    /\ focus = "sessions" => SessionsTypeOK
    /\ focus = "telegram" => TelegramTypeOK
    /\ focus = "mail" => EmailPollTypeOK
    /\ focus = "drafts" => EmailDraftsTypeOK
    /\ focus = "inbox" => InboxTypeOK
    /\ focus = "feed" => FeedTypeOK
    /\ focus = "enrollment" => EnrollmentTypeOK
    /\ focus = "send" => SendTypeOK

Init ==
    /\ focus \in {"workers", "approvals", "daemon", "commitments", "reauth", "sessions",
                 "telegram", "mail", "drafts", "inbox", "feed", "enrollment", "send"}
    /\ WorkersInit /\ ApprovalsInit /\ DaemonInit
    /\ CommitmentsInit /\ ReauthInit /\ SessionsInit
    /\ TelegramInit /\ EmailPollInit /\ EmailDraftsInit
    /\ InboxInit /\ FeedInit /\ EnrollmentInit
    /\ SendInit
    /\ focus # "approvals" => change = [model |-> "user", adds |-> TRUE]
    /\ focus # "enrollment" => dotenv.token
    /\ focus # "send" => answer = [parts |-> 1, voice |-> FALSE]

Next ==
    \/ /\ focus = "workers" /\ WorkersNext
       /\ UNCHANGED <<focus, approvalsVars, daemonVars, commitmentsVars, reauthVars,
                      sessionsVars, telegramVars, emailPollVars, emailDraftsVars,
                      inboxVars, feedVars, enrollmentVars, sendVars>>
    \/ /\ focus = "approvals" /\ ApprovalsNext
       /\ UNCHANGED <<focus, workersVars, daemonVars, commitmentsVars, reauthVars,
                      sessionsVars, telegramVars, emailPollVars, emailDraftsVars,
                      inboxVars, feedVars, enrollmentVars, sendVars>>
    \/ /\ focus = "daemon" /\ DaemonNext
       /\ UNCHANGED <<focus, workersVars, approvalsVars, commitmentsVars, reauthVars,
                      sessionsVars, telegramVars, emailPollVars, emailDraftsVars,
                      inboxVars, feedVars, enrollmentVars, sendVars>>
    \/ /\ focus = "commitments" /\ CommitmentsNext
       /\ UNCHANGED <<focus, workersVars, approvalsVars, daemonVars, reauthVars,
                      sessionsVars, telegramVars, emailPollVars, emailDraftsVars,
                      inboxVars, feedVars, enrollmentVars, sendVars>>
    \/ /\ focus = "reauth" /\ ReauthNext
       /\ UNCHANGED <<focus, workersVars, approvalsVars, daemonVars, commitmentsVars,
                      sessionsVars, telegramVars, emailPollVars, emailDraftsVars,
                      inboxVars, feedVars, enrollmentVars, sendVars>>
    \/ /\ focus = "sessions" /\ SessionsNext
       /\ UNCHANGED <<focus, workersVars, approvalsVars, daemonVars, commitmentsVars,
                      reauthVars, telegramVars, emailPollVars, emailDraftsVars,
                      inboxVars, feedVars, enrollmentVars, sendVars>>
    \/ /\ focus = "telegram" /\ TelegramNext
       /\ UNCHANGED <<focus, workersVars, approvalsVars, daemonVars, commitmentsVars,
                      reauthVars, sessionsVars, emailPollVars, emailDraftsVars,
                      inboxVars, feedVars, enrollmentVars, sendVars>>
    \/ /\ focus = "mail" /\ EmailPollNext
       /\ UNCHANGED <<focus, workersVars, approvalsVars, daemonVars, commitmentsVars,
                      reauthVars, sessionsVars, telegramVars, emailDraftsVars,
                      inboxVars, feedVars, enrollmentVars, sendVars>>
    \/ /\ focus = "drafts" /\ EmailDraftsNext
       /\ UNCHANGED <<focus, workersVars, approvalsVars, daemonVars, commitmentsVars,
                      reauthVars, sessionsVars, telegramVars, emailPollVars, inboxVars,
                      feedVars, enrollmentVars, sendVars>>
    \/ /\ focus = "inbox" /\ InboxNext
       /\ UNCHANGED <<focus, workersVars, approvalsVars, daemonVars, commitmentsVars,
                      reauthVars, sessionsVars, telegramVars, emailPollVars,
                      emailDraftsVars, feedVars, enrollmentVars, sendVars>>
    \/ /\ focus = "feed" /\ FeedNext
       /\ UNCHANGED <<focus, workersVars, approvalsVars, daemonVars, commitmentsVars,
                      reauthVars, sessionsVars, telegramVars, emailPollVars,
                      emailDraftsVars, inboxVars, enrollmentVars, sendVars>>
    \/ /\ focus = "enrollment" /\ EnrollmentNext
       /\ UNCHANGED <<focus, workersVars, approvalsVars, daemonVars, commitmentsVars,
                      reauthVars, sessionsVars, telegramVars, emailPollVars,
                      emailDraftsVars, inboxVars, feedVars, sendVars>>
    \/ /\ focus = "send" /\ SendNext
       /\ UNCHANGED <<focus, workersVars, approvalsVars, daemonVars, commitmentsVars,
                      reauthVars, sessionsVars, telegramVars, emailPollVars,
                      emailDraftsVars, inboxVars, feedVars, enrollmentVars>>

Spec == Init /\ [][Next]_servicesVars /\ WorkersFair

\* What a source does not offer again was taken: see the three modules.
NothingPassedOver ==
    /\ focus = "telegram" => UpdatesAccountedFor
    /\ focus = "mail" => MailsAccountedFor
    /\ focus = "feed" => UpdatesTold

\* What is written to somebody once goes out once: a touch of a silence, the mail
\* that a draft holds, the reply in a chat; see Commitments, EmailChannel and
\* TelegramSend.
SentOnce ==
    /\ focus = "commitments" => TouchedOnce
    /\ focus = "drafts" => DraftSentOnce
    /\ focus = "send" => ReplySentOnce

\* The company's tasks are followed: a task that is called closed is over, and
\* the key to them is kept.
TasksReached ==
    /\ focus = "inbox" => ClosedMeansOver
    /\ focus = "enrollment" => EnrollmentKept

=============================================================================

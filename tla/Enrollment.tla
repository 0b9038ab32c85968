---------------------------- MODULE Enrollment ----------------------------
(***************************************************************************)
(* The agent's key and id at the company, in .env.  `jc company register`  *)
(* and the reporter enroll with a token, the inbox channel asks who it is, *)
(* and the three write the file with no lock, by way of one scratch file.  *)
(* The channel reads the file anew when its key is refused, and tells the  *)
(* operator once.  An enrollment gives a new key, which ends the old one.  *)
(*   lib/company/{conf,cli,reporter,client}.py                             *)
(*   lib/gateway/channels/company_inbox.py                                 *)
(***************************************************************************)
EXTENDS Naturals

CONSTANTS
    MaxKeys,        \* bound: enrollments
    MaxAdverse      \* bound: overlaps, failed writes, deaths, lost calls

ASSUME EnrollmentAssumption == MaxKeys \in Nat \ {0} /\ MaxAdverse \in Nat

VARIABLES
    dotenv,     \* .env: whether it has a token, and the agent's id; its key, or 0
    scratch,    \* .env.company.tmp: its content, if there is one
    enrolled,   \* the key that the company takes
    registrar,  \* what each writer of .env is at
    reporterCfg,\* what the reporter has loaded
    inbox,      \* the channel: its loaded key and id, and its failures
    warned,     \* history: how often it was loud since it last succeeded
    adverse

enrollmentVars == <<dotenv, scratch, enrolled, registrar, reporterCfg, inbox, warned,
                    adverse>>

Registrars == {"cli", "reporter", "channel"}
Contents == [token : BOOLEAN, key : 0..MaxKeys, id : BOOLEAN]
Blank == [token |-> FALSE, key |-> 0, id |-> FALSE]
AtEase == [at |-> "rest", copy |-> Blank, key |-> 0]
InboxOff == [at |-> "off", key |-> 0, id |-> FALSE, failures |-> 0, failing |-> FALSE,
             loud |-> FALSE]

EnrollmentTypeOK ==
    /\ dotenv \in Contents /\ reporterCfg \in Contents
    /\ scratch = {} \/ \E c \in Contents : scratch = {c}
    /\ enrolled \in 0..MaxKeys
    /\ registrar \in [Registrars -> [at : {"rest", "answered", "read", "filled"},
                                     copy : Contents, key : 0..MaxKeys]]
    /\ inbox.at \in {"off", "finding", "saving", "polling"} /\ inbox.failures \in 0..3
    /\ inbox.at = "saving" <=> registrar["channel"].at # "rest"
    /\ warned \in 0..2 /\ adverse \in 0..MaxAdverse

EnrollmentInit ==
    /\ dotenv \in {[Blank EXCEPT !.token = TRUE], [Blank EXCEPT !.key = 1]}
    /\ enrolled = dotenv.key /\ reporterCfg = dotenv /\ scratch = {}
    /\ registrar = [w \in Registrars |-> AtEase] /\ inbox = InboxOff
    /\ warned = 0 /\ adverse = 0

Adverse == adverse < MaxAdverse /\ adverse' = adverse + 1
Loaded(c) == [inbox EXCEPT !.key = c.key, !.id = c.id]

-----------------------------------------------------------------------------
(* Enrollment.                                                             *)

\* cmd_register writes the token that the operator has before it uses it.
BringToken ==
    /\ \A w \in Registrars : registrar[w].at = "rest"
    /\ ~dotenv.token /\ enrolled < MaxKeys
    /\ dotenv' = [dotenv EXCEPT !.token = TRUE]
    /\ UNCHANGED <<scratch, enrolled, registrar, reporterCfg, inbox, warned,
                   adverse>>

\* The reporter enrolls while it has no key; it looks at .env when it starts only.
MayEnroll(w) ==
    \/ w = "cli" /\ dotenv.token
    \/ w = "reporter" /\ reporterCfg.token /\ reporterCfg.key = 0

Enroll(w) ==
    /\ registrar[w].at = "rest" /\ MayEnroll(w) /\ enrolled < MaxKeys
    /\ IF \E v \in {"cli", "reporter"} \ {w} : registrar[v].at # "rest"
       THEN Adverse ELSE UNCHANGED adverse
    /\ enrolled' = enrolled + 1
    /\ registrar' = [registrar EXCEPT ![w] = [AtEase EXCEPT !.at = "answered",
                                                            !.key = enrolled + 1]]
    /\ UNCHANGED <<dotenv, scratch, reporterCfg, inbox, warned>>

-----------------------------------------------------------------------------
(* write_env_keys: read, fill the scratch file, move it into place.        *)

Touching(w) == \E v \in Registrars \ {w} : registrar[v].at \in {"read", "filled"}

ReadDotenv(w) ==
    /\ registrar[w].at = "answered"
    /\ IF Touching(w) THEN Adverse ELSE UNCHANGED adverse
    /\ registrar' = [registrar EXCEPT ![w].at = "read", ![w].copy = dotenv]
    /\ UNCHANGED <<dotenv, scratch, enrolled, reporterCfg, inbox, warned>>

\* Mutation of Changed: the channel writes the key that it has loaded.
ChangedWholly(w) ==
    CASE w = "channel" -> [token |-> registrar[w].copy.token, key |-> inbox.key, id |-> TRUE]
      [] w = "cli" -> [registrar[w].copy EXCEPT !.key = registrar[w].key, !.token = FALSE]
      [] OTHER -> [token |-> FALSE, key |-> registrar[w].key, id |-> TRUE]

\* The keys that a writer sets and unsets; the command does not keep the id.
Changed(w) ==
    CASE w = "channel" -> [registrar[w].copy EXCEPT !.id = TRUE]
      [] w = "cli" -> [registrar[w].copy EXCEPT !.key = registrar[w].key, !.token = FALSE]
      [] OTHER -> [token |-> FALSE, key |-> registrar[w].key, id |-> TRUE]

FillScratch(w) ==
    /\ registrar[w].at = "read"
    /\ scratch' = {Changed(w)}
    /\ registrar' = [registrar EXCEPT ![w].at = "filled"]
    /\ UNCHANGED <<dotenv, enrolled, reporterCfg, inbox, warned, adverse>>

\* Then the reporter and the channel load what there is, and the channel polls.
Replace(w) ==
    /\ registrar[w].at = "filled" /\ scratch # {}
    /\ scratch' = {}
    /\ \E c \in scratch :
          /\ dotenv' = c
          /\ reporterCfg' = IF w = "reporter" THEN c ELSE reporterCfg
          /\ inbox' = IF w = "channel"
                      THEN [Loaded(c) EXCEPT !.at = "polling", !.failures = 0,
                                             !.loud = FALSE]
                      ELSE inbox
    /\ registrar' = [registrar EXCEPT ![w] = AtEase]
    /\ warned' = IF w = "channel" THEN 0 ELSE warned
    /\ UNCHANGED <<enrolled, adverse>>

\* The file cannot be written, or another writer moved it away: the channel keeps
\* the id in memory, the reporter enrolls again, the command ends.
ReplaceFails(w) ==
    /\ registrar[w].at = "filled"
    /\ IF scratch = {} THEN UNCHANGED adverse ELSE w = "channel" /\ Adverse
    /\ scratch' = {}
    /\ inbox' = IF w = "channel"
                THEN [inbox EXCEPT !.at = "polling", !.id = TRUE, !.failures = 0,
                                !.loud = FALSE]
                ELSE inbox
    /\ registrar' = [registrar EXCEPT ![w] = AtEase]
    /\ warned' = IF w = "channel" THEN 0 ELSE warned
    /\ UNCHANGED <<dotenv, enrolled, reporterCfg>>

-----------------------------------------------------------------------------
(* The channel.                                                            *)

\* run: without an id it asks for one before it polls.
InboxRuns ==
    /\ inbox.at = "off" /\ (dotenv.token \/ dotenv.key # 0)
    /\ inbox' = [InboxOff EXCEPT !.key = dotenv.key, !.id = dotenv.id,
                                 !.at = IF dotenv.id THEN "polling" ELSE "finding"]
    /\ warned' = 0
    /\ UNCHANGED <<dotenv, scratch, enrolled, registrar, reporterCfg, adverse>>

Valid == inbox.key # 0 /\ inbox.key = enrolled

WhoAmI ==
    /\ inbox.at = "finding" /\ Valid
    /\ inbox' = [inbox EXCEPT !.at = "saving"]
    /\ registrar' = [registrar EXCEPT !["channel"] = [AtEase EXCEPT !.at = "answered"]]
    /\ UNCHANGED <<dotenv, scratch, enrolled, reporterCfg, warned, adverse>>

\* _on_success.
Polled ==
    /\ inbox.at = "polling" /\ Valid /\ inbox.id
    /\ inbox' = [inbox EXCEPT !.failures = 0, !.failing = FALSE, !.loud = FALSE]
    /\ warned' = 0
    /\ UNCHANGED <<dotenv, scratch, enrolled, registrar, reporterCfg, adverse>>

OneMore == IF inbox.failures = 3 THEN 3 ELSE inbox.failures + 1

\* Mutation of Fails: every time.
FailsLoudly(state, isLoud) ==
    /\ inbox' = [state EXCEPT !.loud = @ \/ isLoud]
    /\ warned' = IF isLoud /\ warned < 2 THEN warned + 1 ELSE warned

\* Loud once: at the third failure to find the id, at the first to poll with a key
\* that is refused and not replaced.
Fails(state, isLoud) ==
    /\ inbox' = [state EXCEPT !.loud = @ \/ isLoud]
    /\ warned' = IF isLoud /\ ~inbox.loud THEN warned + 1 ELSE warned

\* 401, and the file holds another key than the loaded one.
NewKey == dotenv.key \notin {0, inbox.key}

KeyRefused ==
    /\ inbox.at \in {"finding", "polling"} /\ ~Valid
    /\ CASE NewKey -> inbox' = [Loaded(dotenv) EXCEPT !.failing = FALSE] /\ UNCHANGED warned
         [] ~NewKey /\ inbox.at = "finding" ->
              Fails([Loaded(dotenv) EXCEPT !.failures = OneMore], OneMore = 3)
         [] OTHER -> Fails([Loaded(dotenv) EXCEPT !.failing = TRUE], TRUE)
    /\ UNCHANGED <<dotenv, scratch, enrolled, registrar, reporterCfg, adverse>>

\* The company cannot be reached, or answers nonsense; asked without an id it
\* refuses, and neither is more than counted while the channel polls.
CallFails ==
    /\ inbox.at \in {"finding", "polling"}
    /\ IF inbox.at = "polling" /\ ~inbox.id THEN UNCHANGED adverse ELSE Adverse
    /\ Fails([inbox EXCEPT !.failures = OneMore], inbox.at = "finding" /\ OneMore = 3)
    /\ UNCHANGED <<dotenv, scratch, enrolled, registrar, reporterCfg>>

GatewayEnds ==
    /\ Adverse
    /\ inbox' = InboxOff /\ warned' = 0 /\ reporterCfg' = dotenv
    /\ registrar' = [w \in Registrars |-> IF w = "cli" THEN registrar[w] ELSE AtEase]
    /\ UNCHANGED <<dotenv, scratch, enrolled>>

CommandEnds ==
    /\ registrar["cli"].at # "rest" /\ Adverse
    /\ registrar' = [registrar EXCEPT !["cli"] = AtEase]
    /\ UNCHANGED <<dotenv, scratch, enrolled, reporterCfg, inbox, warned>>

EnrollmentNext ==
    \/ \E w \in {"cli", "reporter"} : Enroll(w)
    \/ \E w \in Registrars : ReadDotenv(w) \/ FillScratch(w) \/ Replace(w) \/ ReplaceFails(w)
    \/ BringToken \/ InboxRuns \/ WhoAmI \/ Polled \/ KeyRefused \/ CallFails
    \/ GatewayEnds \/ CommandEnds

EnrollmentSpec == EnrollmentInit /\ [][EnrollmentNext]_enrollmentVars

-----------------------------------------------------------------------------
(* Properties.                                                             *)

\* The file holds the key that the company takes, once those who write it are done:
\* the writers read it anew and change their own keys alone (write_env_keys).  Not
\* so when two overlap, two enroll, or one dies before it writes.
KeyKept ==
    adverse = 0 /\ (\A w \in Registrars : registrar[w].at = "rest") => dotenv.key = enrolled

\* "By the time the poll loop calls _agent_id() the run() entrypoint has either
\* confirmed the .env carries one, or refused to enter the loop" (_agent_id): so it
\* is, unless the id could not be written, or another writer overlapped.
PollsWithId == inbox.at = "polling" /\ ~inbox.id => adverse > 0

\* A channel that gets no tasks because its key is refused has said so, and said it
\* once (_handle_auth_failure, _on_discovery_failure).
LoudOnce == warned <= 1 /\ (inbox.failing => warned = 1)

EnrollmentKept == KeyKept /\ PollsWithId /\ LoudOnce

=============================================================================

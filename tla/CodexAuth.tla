----------------------------- MODULE CodexAuth -----------------------------
(***************************************************************************)
(* The tokens of the Codex subscription: processes that call the Responses *)
(* endpoint share auth.json, and refresh it one at a time under a lock of  *)
(* their own.  A refresh token is good once: the server answers with its   *)
(* successor.  A pair of tokens is named by its generation.                *)
(*   lib/codex_auth/{client,responses}.py, gateway/brains/codex_api.py     *)
(***************************************************************************)
EXTENDS Naturals, FiniteSets

CONSTANTS
    Callers,        \* processes that call the endpoint
    NoCaller,
    MaxPosts,       \* posts of one refresh, with their backoffs
    MaxPairs,       \* bound: generations of tokens
    MaxUnlucky      \* bound: answers lost, deaths while one holds new tokens,
                    \*        and refreshes by the Codex CLI, which knows no lock

ASSUME CodexAssumption ==
    /\ NoCaller \notin Callers
    /\ MaxPosts \in Nat \ {0} /\ MaxPairs \in Nat \ {0} /\ MaxUnlucky \in Nat

VARIABLES
    file,       \* auth.json: the generation it holds
    good,       \* the server: the generation whose refresh token is good
    aged,       \* generations whose access token is about to expire
    locker,     \* who holds auth.json.lock exclusively
    caller,     \* process -> where it stands, the generation in its hands
    cli,        \* what the Codex CLI has been given and not yet written
    unlucky,
    banished    \* history: a process was told that a new login is needed

codexVars == <<file, good, aged, locker, caller, cli, unlucky, banished>>

Pairs == 1..MaxPairs
NoPair == 0
Idle == [at |-> "idle", pair |-> NoPair, again |-> FALSE, tries |-> 0]

CodexTypeOK ==
    /\ file \in Pairs /\ good \in Pairs /\ aged \subseteq Pairs
    /\ locker \in Callers \cup {NoCaller}
    /\ caller \in [Callers -> [at : {"idle", "wanting", "posting", "saving", "calling"},
                               pair : Pairs \cup {NoPair}, again : BOOLEAN,
                               tries : 0..(MaxPosts - 1)]]
    /\ cli \in Pairs \cup {NoPair}
    /\ unlucky \in 0..MaxUnlucky /\ banished \in BOOLEAN

CodexInit ==
    /\ file = 1 /\ good = 1 /\ aged \in SUBSET {1}
    /\ locker = NoCaller
    /\ caller = [c \in Callers |-> Idle]
    /\ cli = NoPair
    /\ unlucky = 0 /\ banished = FALSE

Unlucky == unlucky < MaxUnlucky /\ unlucky' = unlucky + 1
Moves(c, s) == caller' = [caller EXCEPT ![c] = s]

-----------------------------------------------------------------------------
\* get_bearer: the file under the shared lock, and the exclusive one if its
\* access token is about to expire.
GetBearer(c) ==
    /\ caller[c].at = "idle" /\ locker = NoCaller
    /\ Moves(c, [Idle EXCEPT !.at = IF file \in aged THEN "wanting" ELSE "calling", !.pair = file])
    /\ UNCHANGED <<file, good, aged, locker, cli, unlucky, banished>>

\* _refresh, under the lock: the file again, for another may have refreshed it;
\* forced, it is refreshed all the same.
RefreshPrior(c) ==  \* Mutation of Refresh
    /\ caller[c].at = "wanting" /\ locker = NoCaller
    /\ locker' = c
    /\ Moves(c, [caller[c] EXCEPT !.at = "posting", !.tries = 0])
    /\ UNCHANGED <<file, good, aged, cli, unlucky, banished>>

RefreshShared(c) ==  \* Mutation of Refresh
    /\ caller[c].at = "wanting"
    /\ Moves(c, [caller[c] EXCEPT !.at = "posting", !.pair = file, !.tries = 0])
    /\ UNCHANGED <<file, good, aged, locker, cli, unlucky, banished>>

Refresh(c) ==
    /\ caller[c].at = "wanting" /\ locker = NoCaller
    /\ IF caller[c].again \/ file \in aged
       THEN /\ locker' = c
            /\ Moves(c, [caller[c] EXCEPT !.at = "posting", !.pair = file, !.tries = 0])
       ELSE /\ Moves(c, [caller[c] EXCEPT !.at = "calling", !.pair = file])
            /\ UNCHANGED locker
    /\ UNCHANGED <<file, good, aged, cli, unlucky, banished>>

\* The lock is not to be had for ten seconds.
LockTimesOut(c) ==
    /\ caller[c].at = "wanting" /\ locker # NoCaller
    /\ Moves(c, Idle)
    /\ UNCHANGED <<file, good, aged, locker, cli, unlucky, banished>>

Release(c) == locker' = IF locker = c THEN NoCaller ELSE locker

\* _post_refresh: the server answers with a new pair, or with a new access token
\* alone, or that the refresh token is used.
Granted(c) ==
    /\ caller[c].at = "posting" /\ caller[c].pair = good
    /\ \/ /\ good < MaxPairs /\ good' = good + 1
          /\ Moves(c, [caller[c] EXCEPT !.at = "saving", !.pair = good + 1])
          /\ UNCHANGED aged
       \/ /\ Moves(c, [caller[c] EXCEPT !.at = "saving"])
          /\ aged' = aged \ {good}
          /\ UNCHANGED good
    /\ UNCHANGED <<file, locker, cli, unlucky, banished>>

RefreshExpired(c) ==
    /\ caller[c].at = "posting" /\ caller[c].pair # good
    /\ banished' = TRUE
    /\ Release(c) /\ Moves(c, Idle)
    /\ UNCHANGED <<file, good, aged, cli, unlucky>>

LastPostLate(c) ==  \* Mutation of LastPost
    caller[c].tries + 1 > MaxPosts

LastPost(c) == caller[c].tries + 1 >= MaxPosts

\* No answer: the post did not arrive, or its answer is lost.  It is tried again
\* with the same token, four times in all.
NoAnswer(c) ==
    /\ caller[c].at = "posting"
    /\ \/ UNCHANGED <<good, unlucky>>
       \/ /\ caller[c].pair = good /\ good < MaxPairs /\ good' = good + 1
          /\ Unlucky
    /\ IF LastPost(c)
       THEN Moves(c, Idle) /\ Release(c)
       ELSE Moves(c, [caller[c] EXCEPT !.tries = @ + 1]) /\ UNCHANGED locker
    /\ UNCHANGED <<file, aged, cli, banished>>

\* _atomic_write; the lock is released.
SaveTokens(c) ==
    /\ caller[c].at = "saving"
    /\ file' = caller[c].pair
    /\ Release(c) /\ Moves(c, [caller[c] EXCEPT !.at = "calling"])
    /\ UNCHANGED <<good, aged, cli, unlucky, banished>>

\* The call, and once more after a 401, with a refresh in between.
Call(c) ==
    /\ caller[c].at = "calling"
    /\ \/ Moves(c, Idle)
       \/ /\ ~caller[c].again
          /\ Moves(c, [caller[c] EXCEPT !.at = "wanting", !.again = TRUE])
    /\ UNCHANGED <<file, good, aged, locker, cli, unlucky, banished>>

-----------------------------------------------------------------------------
\* A process dies; what it was given and has not written is lost.
CallerDies(c) ==
    /\ caller[c].at # "idle"
    /\ IF caller[c].at = "saving" /\ caller[c].pair # file THEN Unlucky ELSE UNCHANGED unlucky
    /\ Release(c) /\ Moves(c, Idle)
    /\ UNCHANGED <<file, good, aged, cli, banished>>

AccessAges ==
    /\ aged' = aged \cup {file}
    /\ UNCHANGED <<file, good, locker, caller, cli, unlucky, banished>>

\* The Codex CLI refreshes its own file, or the operator logs in with it.
CliRefreshes ==
    /\ cli = NoPair /\ good < MaxPairs /\ Unlucky
    /\ good' = good + 1 /\ cli' = good + 1
    /\ UNCHANGED <<file, aged, locker, caller, banished>>

CliWrites ==
    /\ cli # NoPair
    /\ file' = cli /\ cli' = NoPair
    /\ UNCHANGED <<good, aged, locker, caller, unlucky, banished>>

CodexNext ==
    \/ \E c \in Callers :
          \/ GetBearer(c) \/ Refresh(c) \/ LockTimesOut(c) \/ Granted(c) \/ RefreshExpired(c)
          \/ NoAnswer(c) \/ SaveTokens(c) \/ Call(c) \/ CallerDies(c)
    \/ AccessAges \/ CliRefreshes \/ CliWrites

CodexSpec == CodexInit /\ [][CodexNext]_codexVars

-----------------------------------------------------------------------------
(* Properties. *)

\* However many processes find the token expired or refused at a time, none
\* spends a refresh token that another has spent: nobody is sent to log in again,
\* and the file holds the good one or a process is about to write it, as long as
\* no answer is lost, nobody dies with new tokens, and the CLI keeps out.
\* (_refresh; its re-read under the lock)
TokenNotSpentTwice ==
    unlucky = 0 =>
        /\ ~banished
        /\ file = good \/ \E c \in Callers : caller[c].at = "saving" /\ caller[c].pair = good

=============================================================================

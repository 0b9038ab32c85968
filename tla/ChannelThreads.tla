--------------------------- MODULE ChannelThreads ---------------------------
(***************************************************************************)
(* The threads of the channels (Telegram, Slack, ...) in the gateway: each *)
(* is started once, and its run is started again after a crash, with an    *)
(* interval that grows; what became of it is told in the health table and  *)
(* in a file for `jc doctor`.  The table has a lock; the file is written   *)
(* after the lock is released, by way of one temporary file for all.       *)
(*   lib/gateway/channel_lifecycle.py, lib/gateway/runtime.py:             *)
(*   start_channels, close                                                 *)
(***************************************************************************)
EXTENDS Naturals

CONSTANTS
    Channels,   \* the channels that are enabled
    Main,       \* the thread that starts and closes them
    MaxEnds,    \* bound: ends of a channel's runs
    MaxBackoff, \* the longest interval before a restart, as the number of doublings
    MaxUnwritten \* bound: failed writes of the file

ASSUME ChannelThreadsAssumption ==
    Main \notin Channels /\ {MaxEnds, MaxBackoff, MaxUnwritten} \subseteq Nat

VARIABLES
    untried,    \* channels that start() has not come to
    thread,     \* who -> its next step, what it writes to the file, its step after that
    instances,  \* the channels that have an instance
    health,     \* channel -> its entry in the table
    interim,    \* channel_health.tmp: nothing, or one table
    onFile,     \* channel_health.json
    tried,      \* channels whose first run is over
    backoff,    \* channel -> its interval, in doublings
    stopping,   \* "no", "asked", "closed"
    unwritten,  \* failed writes
    overlapped  \* history: one wrote the file while another was about to

channelVars == <<untried, thread, instances, health, interim, onFile, tried, backoff,
                 stopping, unwritten, overlapped>>

HealthWriters == Channels \cup {Main}
Steps == {"unborn", "start", "spawn", "top", "run", "write", "replace", "bump", "sleep",
          "build", "over"}
Afters == Steps \ {"write", "replace"}
Entry == [state : {"unknown", "running", "build-failed", "not-ready", "backoff", "stopped"},
          restarts : 0..MaxEnds]
Table == [Channels -> Entry]
Blank == [c \in Channels |-> [state |-> "unknown", restarts |-> 0]]

ChannelsTypeOK ==
    /\ untried \subseteq Channels /\ instances \subseteq Channels /\ tried \subseteq Channels
    /\ thread \in [HealthWriters -> [at : Steps, copy : Table, then : Afters]]
    /\ health \in Table /\ onFile \in Table /\ interim \subseteq Table
    /\ backoff \in [Channels -> 0..MaxBackoff]
    /\ stopping \in {"no", "asked", "closed"}
    /\ unwritten \in 0..MaxUnwritten /\ overlapped \in BOOLEAN

ChannelsInit ==
    /\ untried = Channels /\ instances = {} /\ tried = {}
    /\ thread = [w \in HealthWriters |-> [at |-> IF w = Main THEN "start" ELSE "unborn",
                                    copy |-> Blank, then |-> "over"]]
    /\ health = Blank /\ interim = {} /\ onFile = Blank
    /\ backoff = [c \in Channels |-> 0]
    /\ stopping = "no" /\ unwritten = 0 /\ overlapped = FALSE

WritesFile(w) == thread[w].at \in {"write", "replace"}
StepsTo(w, step) == thread' = [thread EXCEPT ![w].at = step]

\* Mutation of SetHealth: the file is not written.
SetHealthUnwritten(w, c, shown, next) ==
    /\ health' = [health EXCEPT ![c].state = shown]
    /\ thread' = [thread EXCEPT ![w] = [at |-> next, copy |-> Blank, then |-> next]]
    /\ UNCHANGED overlapped

\* _set_health: the table, and a copy of it to write.
SetHealth(w, c, shown, next) ==
    LET entries == [health EXCEPT ![c].state = shown] IN
    /\ health' = entries
    /\ thread' = [thread EXCEPT ![w] = [at |-> "write", copy |-> entries, then |-> next]]
    /\ overlapped' = (overlapped \/ \E v \in HealthWriters \ {w} : WritesFile(v))

\* _write_health_file: the temporary file takes the place of the other, whoever
\* wrote it; when there is none left, or the disk fails, nothing happens.
WriteInterim(w) ==
    /\ thread[w].at = "write"
    /\ interim' = {thread[w].copy}
    /\ StepsTo(w, "replace")
    /\ UNCHANGED <<untried, instances, health, onFile, tried, backoff, stopping, unwritten,
                   overlapped>>

Written(w) ==
    thread' = [thread EXCEPT ![w] = [at |-> thread[w].then, copy |-> Blank, then |-> "over"]]

ReplaceFile(w) ==
    /\ thread[w].at = "replace"
    /\ \/ interim = {} /\ UNCHANGED onFile
       \/ \E table \in interim : onFile' = table
    /\ interim' = {}
    /\ Written(w)
    /\ UNCHANGED <<untried, instances, health, tried, backoff, stopping, unwritten,
                   overlapped>>

WriteFails(w) ==
    /\ WritesFile(w) /\ unwritten < MaxUnwritten
    /\ unwritten' = unwritten + 1
    /\ Written(w)
    /\ UNCHANGED <<untried, instances, health, interim, onFile, tried, backoff, stopping,
                   overlapped>>

-----------------------------------------------------------------------------
(* start() and close(), in the gateway's own thread.                       *)

Build(c) ==
    /\ thread[Main].at = "start" /\ c \in untried
    /\ untried' = untried \ {c}
    /\ \/ instances' = instances \cup {c} /\ SetHealth(Main, c, "running", "spawn")
       \/ UNCHANGED instances /\ SetHealth(Main, c, "build-failed", "start")
    /\ UNCHANGED <<interim, onFile, tried, backoff, stopping, unwritten>>

StartThread(c) ==
    /\ thread[Main].at = "spawn" /\ thread[c].at = "unborn" /\ c \in instances
    /\ thread' = [thread EXCEPT ![Main].at = "start", ![c].at = "top"]
    /\ UNCHANGED <<untried, instances, health, interim, onFile, tried, backoff, stopping,
                   unwritten, overlapped>>

AskToStop ==
    /\ stopping = "no"
    /\ stopping' = "asked"
    /\ UNCHANGED <<untried, thread, instances, health, interim, onFile, tried, backoff,
                   unwritten, overlapped>>

\* It waits two seconds for each thread, and no longer.
Close ==
    /\ stopping = "asked" /\ thread[Main].at = "start" /\ untried = {}
    /\ stopping' = "closed" /\ instances' = {}
    /\ UNCHANGED <<untried, thread, health, interim, onFile, tried, backoff, unwritten,
                   overlapped>>

-----------------------------------------------------------------------------
(* _supervise, in the thread of a channel.                                 *)

Top(c) ==
    /\ thread[c].at = "top"
    /\ StepsTo(c, IF stopping = "no" /\ c \in instances THEN "run" ELSE "over")
    /\ UNCHANGED <<untried, instances, health, interim, onFile, tried, backoff, stopping,
                   unwritten, overlapped>>

RunStops(c) ==
    /\ thread[c].at = "run" /\ stopping # "no"
    /\ SetHealth(c, c, "stopped", "over")
    /\ UNCHANGED <<untried, instances, interim, onFile, tried, backoff, stopping, unwritten>>

\* The first run returns soon and without an error: nothing to do in this channel.
Park(c) ==
    /\ thread[c].at = "run" /\ stopping = "no" /\ c \notin tried
    /\ SetHealth(c, c, "not-ready", "over")
    /\ UNCHANGED <<untried, instances, interim, onFile, tried, backoff, stopping, unwritten>>

\* Any other end; a long run starts the intervals anew.
RunBreaksOff(c) ==
    /\ thread[c].at = "run" /\ stopping = "no" /\ health[c].restarts < MaxEnds
    /\ tried' = tried \cup {c}
    /\ backoff' \in {backoff, [backoff EXCEPT ![c] = 0]}
    /\ SetHealth(c, c, "backoff", "bump")
    /\ UNCHANGED <<untried, instances, interim, onFile, stopping, unwritten>>

\* The restart is counted after the file is written.
CountRestart(c) ==
    /\ thread[c].at = "bump"
    /\ health' = [health EXCEPT ![c].restarts = health[c].restarts + 1]
    /\ StepsTo(c, "sleep")
    /\ UNCHANGED <<untried, instances, interim, onFile, tried, backoff, stopping, unwritten,
                   overlapped>>

SleepStops(c) ==
    /\ thread[c].at = "sleep" /\ stopping # "no"
    /\ SetHealth(c, c, "stopped", "over")
    /\ UNCHANGED <<untried, instances, interim, onFile, tried, backoff, stopping, unwritten>>

SleepOver(c) ==
    /\ thread[c].at = "sleep" /\ stopping = "no"
    /\ backoff' = [backoff EXCEPT ![c] = IF backoff[c] < MaxBackoff THEN backoff[c] + 1
                                                                    ELSE backoff[c]]
    /\ StepsTo(c, "build")
    /\ UNCHANGED <<untried, instances, health, interim, onFile, tried, stopping, unwritten,
                   overlapped>>

\* When it fails, the instance that crashed is run again.
Rebuild(c) ==
    /\ thread[c].at = "build"
    /\ \/ instances' = instances \cup {c} /\ SetHealth(c, c, "running", "top")
       \/ UNCHANGED instances /\ SetHealth(c, c, "build-failed", "top")
    /\ UNCHANGED <<untried, interim, onFile, tried, backoff, stopping, unwritten>>

ChannelStep(c) ==
    \/ Build(c) \/ StartThread(c) \/ Top(c) \/ RunStops(c) \/ Park(c) \/ RunBreaksOff(c)
    \/ CountRestart(c) \/ SleepStops(c) \/ SleepOver(c) \/ Rebuild(c)

FileStep(w) == WriteInterim(w) \/ ReplaceFile(w) \/ WriteFails(w)

ChannelsNext ==
    \/ \E c \in Channels : ChannelStep(c)
    \/ \E w \in HealthWriters : FileStep(w)
    \/ AskToStop \/ Close

-----------------------------------------------------------------------------
(* Properties. *)

\* Unless two threads wrote at once or a write failed, the file tells the states of
\* the table as soon as nobody writes, and lags in the number of restarts by one at
\* most, and only of a channel that waits to be restarted (_set_health, _supervise).
HealthOnFile ==
    ~overlapped /\ unwritten = 0 /\ (\A w \in HealthWriters : ~WritesFile(w)) =>
        \A c \in Channels :
            /\ onFile[c].state = health[c].state
            /\ \/ onFile[c].restarts = health[c].restarts
               \/ /\ thread[c].at \in {"sleep", "build"}
                  /\ onFile[c].restarts + 1 = health[c].restarts

\* A channel that ran once is given up for a stop of the gateway alone; what is told
\* of a channel that runs is that it does, or that it could not be built anew; and no
\* thread ends with the promise to restart (_supervise).
ThreadsTold ==
    \A c \in Channels :
        /\ thread[c].at = "over" /\ stopping = "no" =>
               c \notin tried /\ health[c] = [state |-> "not-ready", restarts |-> 0]
        /\ thread[c].at = "run" =>
               \/ health[c].state = "running"
               \/ health[c].state = "build-failed" /\ c \in tried /\ health[c].restarts > 0
        /\ thread[c].at = "over" => health[c].state \notin {"backoff", "unknown"}

ChannelsTold == HealthOnFile /\ ThreadsTold

=============================================================================

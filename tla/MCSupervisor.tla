---------------------------- MODULE MCSupervisor ----------------------------
(***************************************************************************)
(* What is decided about an event besides its turn: the supervisor ticking *)
(* for ever over the queue that it watches, the company's tasks in the     *)
(* queue, and the brain that a message goes to.  The three share no state: *)
(* in a behaviour one of them moves, as its first state says, and the      *)
(* others rest.                                                            *)
(***************************************************************************)
EXTENDS Supervisor, TaskWork, Routing, TLC

VARIABLE focus

watchedVars == <<focus, supervisorVars, taskWorkVars, routingVars>>

WatchedTypeOK ==
    /\ focus = "jobs" => SupervisorTypeOK
    /\ focus = "tasks" => TaskWorkTypeOK
    /\ focus = "routing" => RoutingTypeOK

Init ==
    /\ focus \in {"jobs", "tasks", "routing"}
    /\ SupervisorInit /\ TaskWorkInit /\ RoutingInit
    /\ focus # "jobs" => chat.reporting
    /\ \A j \in Jobs :
          IF focus = "jobs" /\ ~chat.reporting
          THEN chat.channel[j] \in {"telegram", "discord"}   \* Slack's answers as Telegram's
          ELSE chat.channel[j] = "telegram"
    /\ focus # "tasks" => mode = "single"
    /\ focus # "routing" =>
          /\ setup = [lanes |-> 1, unsafe |-> "reject", pinned |-> FALSE]
          /\ \A m \in Inbound : sort[m] = "text"

JobsMove ==
    focus = "jobs" /\ SupervisorNext /\ UNCHANGED <<focus, taskWorkVars, routingVars>>
TasksMove ==
    focus = "tasks" /\ TaskWorkNext /\ UNCHANGED <<focus, supervisorVars, routingVars>>
MessagesMove ==
    focus = "routing" /\ RoutingNext /\ UNCHANGED <<focus, supervisorVars, taskWorkVars>>

Next == JobsMove \/ TasksMove \/ MessagesMove

\* The daemon ticks every thirty seconds, in a behaviour that is about it.
SupervisorMoves ==
    focus = "jobs" /\ SupervisorStep /\ UNCHANGED <<focus, taskWorkVars, routingVars>>

Spec == Init /\ [][Next]_watchedVars /\ WF_watchedVars(SupervisorMoves)

\* What an event or a task needs is remembered until it has it.
NothingForgotten ==
    /\ focus = "jobs" => SupervisorRemembers
    /\ focus = "tasks" => TasksWorked

\* A message goes where the operator, triage and the marks of brains send it.
BrainAsDecided == focus = "routing" => RoutedAsDecided

=============================================================================

----------------------------- MODULE A2AServer -----------------------------
(***************************************************************************)
(* The A2A server: request handlers of TaskManager, the runs of            *)
(* A2AAgentWorker, the events of TaskNotifier and the task table of        *)
(* A2AStorage, on one event loop.                                          *)
(*                                                                         *)
(* The storage methods never suspend, so what a handler or a run does      *)
(* between two of its awaits of the broker, the conversation or the        *)
(* notifier is one step.  The broker and the loop that takes operations    *)
(* from it belong to the fasta2a library: any queued operation may be      *)
(* taken next, by any free slot, and when it raises, the library may or    *)
(* may not mark the task as failed.                                        *)
(*                                                                         *)
(* A conversation is abstracted to the status it has; a message is counted *)
(* and not kept.                                                           *)
(***************************************************************************)
EXTENDS Naturals, FiniteSets

CONSTANTS
    Tasks, Contexts, NoContext,
    Clients,      \* message/send requests in progress at the same time
    Blocks,       \* values of configuration.blocking the clients use
    Slots,        \* operations the library executes at the same time
    NoTask,
    StartsFlow,   \* the assistant is a flow with an InputMessageStep
    Unguarded,    \* run_task may raise outside of its try statement
    Cancels,      \* clients send tasks/cancel
    Restarts,     \* the server may restart; the datastore is persistent
    MaxTurns      \* bound: messages accepted for one task

ASSUME ServerAssumption ==
    /\ NoContext \notin Contexts /\ NoTask \notin Tasks
    /\ Blocks \subseteq BOOLEAN
    /\ StartsFlow \in BOOLEAN /\ Unguarded \in BOOLEAN
    /\ Cancels \in BOOLEAN /\ Restarts \in BOOLEAN
    /\ MaxTurns \in Nat

VARIABLES
    state,    \* status.state of each task
    turns,    \* messages accepted for each task
    context,  \* context_id of each task
    saved,    \* status of the conversation saved with each task
    isLast,   \* is_last_turn of each task
    queued,   \* run operations in the broker, by prioritize_task
    cancels,  \* cancel operations in the broker
    run,      \* what each slot executes
    event,    \* which events of the notifier are set
    client    \* message/send requests: waiting for a task, last answer

taskVars == <<state, turns, context, saved, isLast>>
brokerVars == <<queued, cancels>>
vars == <<taskVars, brokerVars, run, event, client>>

TaskStates == {"absent", "submitted", "working", "input-required",
               "completed", "failed"}
\* Statuses a conversation returns that run_task knows.
KnownStatuses == {"user", "tool", "finished"}
Answers == TaskStates \cup {"none", "timeout"}
Phases == {"free", "starting", "executing", "saving", "notifying"}

\* An operation starts a task or (prioritize_task) continues it.
Ways == {"new", "continued"}
Runs == [phase : Phases, task : Tasks \cup {NoTask},
         result : KnownStatuses \cup {"none"}]
Requests == [phase : {"idle", "sent", "waiting"}, waits : Tasks \cup {NoTask},
             answer : Answers]
Free == [phase |-> "free", task |-> NoTask, result |-> "none"]
Idle(a) == [phase |-> "idle", waits |-> NoTask, answer |-> a]

Init ==
    /\ state = [t \in Tasks |-> "absent"]
    /\ turns = [t \in Tasks |-> 0]
    /\ context = [t \in Tasks |-> NoContext]
    /\ saved = [t \in Tasks |-> "none"]
    /\ isLast = [t \in Tasks |-> FALSE]
    /\ queued = [t \in Tasks |-> [w \in Ways |-> 0]]
    /\ cancels = {}
    /\ run = [s \in Slots |-> Free]
    /\ event = [t \in Tasks |-> FALSE]
    /\ client = [c \in Clients |-> Idle("none")]

\* A run that has stored its state and not yet its conversation holds the event
\* loop: only a restart comes in between.
LoopIsFree == \A s \in Slots : run[s].phase # "saving"

-----------------------------------------------------------------------------
(* TaskManager                                                             *)

\* broker.run_task, after which the operation may start before the request is
\* resumed; a request that does not block is answered then.
Enqueue(t, way) == queued' = [queued EXCEPT ![t][way] = @ + 1]
Respond(c, t, blocking) ==
    client' = [client EXCEPT ![c] =
        IF blocking THEN [phase |-> "sent", waits |-> t, answer |-> "none"]
                    ELSE Idle("none")]

\* message/send without a task id: submit_task.
SendNewTask(c, t, x, blocking) ==
    /\ LoopIsFree /\ client[c].phase = "idle" /\ state[t] = "absent"
    /\ MaxTurns > 0
    /\ state' = [state EXCEPT ![t] = "submitted"]
    /\ turns' = [turns EXCEPT ![t] = 1]
    /\ context' = [context EXCEPT ![t] = x]
    /\ Enqueue(t, "new") /\ Respond(c, t, blocking)
    /\ UNCHANGED <<saved, isLast, cancels, run, event>>

\* Mutant: only a completed task refuses a message.
SendToTaskUnchecked(c, t, blocking) ==
    /\ LoopIsFree /\ client[c].phase = "idle"
    /\ state[t] \notin {"absent", "completed"} /\ turns[t] < MaxTurns
    /\ state' = [state EXCEPT ![t] = "submitted"]
    /\ turns' = [turns EXCEPT ![t] = @ + 1]
    /\ Enqueue(t, "continued") /\ Respond(c, t, blocking)
    /\ UNCHANGED <<context, saved, isLast, cancels, run, event>>

\* Mutant: the task is not marked as submitted again.
SendToTaskBug(c, t, blocking) ==
    /\ LoopIsFree /\ client[c].phase = "idle"
    /\ state[t] = "input-required" /\ turns[t] < MaxTurns
    /\ turns' = [turns EXCEPT ![t] = @ + 1]
    /\ Enqueue(t, "continued") /\ Respond(c, t, blocking)
    /\ UNCHANGED <<state, context, saved, isLast, cancels, run, event>>

\* Mutant: the operation does not reach the broker.
SendToTaskDropped(c, t, blocking) ==
    /\ LoopIsFree /\ client[c].phase = "idle"
    /\ state[t] = "input-required" /\ turns[t] < MaxTurns
    /\ state' = [state EXCEPT ![t] = "submitted"]
    /\ turns' = [turns EXCEPT ![t] = @ + 1]
    /\ Respond(c, t, blocking)
    /\ UNCHANGED <<context, saved, isLast, brokerVars, run, event>>

\* message/send for an existing task, refused unless it is input-required.
SendToTask(c, t, blocking) ==
    /\ LoopIsFree /\ client[c].phase = "idle"
    /\ state[t] = "input-required" /\ turns[t] < MaxTurns
    /\ state' = [state EXCEPT ![t] = "submitted"]
    /\ turns' = [turns EXCEPT ![t] = @ + 1]
    /\ Enqueue(t, "continued") /\ Respond(c, t, blocking)
    /\ UNCHANGED <<context, saved, isLast, cancels, run, event>>

\* The blocking request calls notifier.wait_for.
StartWaiting(c) ==
    /\ LoopIsFree /\ client[c].phase = "sent"
    /\ client' = [client EXCEPT ![c].phase = "waiting"]
    /\ UNCHANGED <<taskVars, brokerVars, run, event>>

\* It resumes once the event is set and reads the task.
AnswerBlocked(c) ==
    /\ LoopIsFree /\ client[c].phase = "waiting" /\ event[client[c].waits]
    /\ client' = [client EXCEPT ![c] = Idle(state[client[c].waits])]
    /\ UNCHANGED <<taskVars, brokerVars, run, event>>

\* _BLOCKING_REQUESTS_MAX_TIME_SECONDS have passed.
TimeOutBlocked(c) ==
    /\ LoopIsFree /\ client[c].phase = "waiting"
    /\ client' = [client EXCEPT ![c] = Idle("timeout")]
    /\ UNCHANGED <<taskVars, brokerVars, run, event>>

\* tasks/cancel
CancelTask(t) ==
    /\ LoopIsFree /\ Cancels /\ state[t] # "absent"
    /\ cancels' = cancels \cup {t}
    /\ UNCHANGED <<taskVars, queued, run, event, client>>

-----------------------------------------------------------------------------
(* A2AAgentWorker                                                          *)

\* An operation raises: the library may mark its task as failed.
Raises(t) == state' \in {state, [state EXCEPT ![t] = "failed"]}

\* load_context_conversation: the conversation of the last turn of the context.
ContextConversation(t) ==
    IF \E u \in Tasks : context[u] = context[t] /\ isLast[u]
       THEN saved[CHOOSE u \in Tasks : context[u] = context[t] /\ isLast[u]]
       ELSE "none"

\* Up to the first await of the conversation: the task is taken, the
\* conversation loaded or started, the message appended.
StartRun(s, t, way) ==
    /\ LoopIsFree /\ run[s].phase = "free" /\ queued[t][way] > 0
    /\ queued' = [queued EXCEPT ![t][way] = @ - 1]
    /\ IF state[t] = "submitted"
          THEN LET loaded == IF way = "continued" THEN saved[t]
                                                ELSE ContextConversation(t)
                   starts == loaded # "user" /\ StartsFlow
               IN  /\ state' = [state EXCEPT ![t] = "working"]
                   /\ run' = [run EXCEPT ![s] =
                        [phase |-> IF starts THEN "starting" ELSE "executing",
                         task |-> t, result |-> "none"]]
          ELSE Raises(t) /\ UNCHANGED run
    /\ UNCHANGED <<turns, context, saved, isLast, cancels, event,
                   client>>

\* A flow is executed up to its InputMessageStep, outside of the try statement.
FlowStarts(s) ==
    /\ LoopIsFree /\ run[s].phase = "starting"
    /\ run' = [run EXCEPT ![s].phase = "executing"]
    /\ UNCHANGED <<taskVars, brokerVars, event, client>>

\* An exception outside of the try statement, a status the run does not know
\* (task_state is then unbound), or a failure of the second update, with the new
\* state already stored.
RunBreaks(s) ==
    /\ Unguarded
    /\ \/ LoopIsFree /\ run[s].phase \in {"starting", "executing"}
       \/ run[s].phase = "saving"
    /\ Raises(run[s].task)
    /\ run' = [run EXCEPT ![s] = Free]
    /\ UNCHANGED <<turns, context, saved, isLast, brokerVars, event,
                   client>>

ExecutionFails(s) ==
    /\ LoopIsFree /\ run[s].phase = "executing"
    /\ state' = [state EXCEPT ![run[s].task] = "failed"]
    /\ run' = [run EXCEPT ![s].phase = "notifying"]
    /\ UNCHANGED <<turns, context, saved, isLast, brokerVars, event,
                   client>>

\* Mutant: the state of a task that asks for a tool is not set.
ExecutionEndsBug(s, status) ==
    /\ LoopIsFree /\ run[s].phase = "executing"
    /\ state' = [state EXCEPT ![run[s].task] =
                    CASE status = "finished" -> "completed"
                      [] status = "user" -> "input-required"
                      [] OTHER -> "none"]
    /\ run' = [run EXCEPT ![s].phase = "saving", ![s].result = status]
    /\ UNCHANGED <<turns, context, saved, isLast, brokerVars, event, client>>

\* The conversation yields or finishes, and update_task stores the state that
\* stands for its status.
ExecutionEnds(s, status) ==
    /\ LoopIsFree /\ run[s].phase = "executing"
    /\ state' = [state EXCEPT ![run[s].task] =
                    IF status = "finished" THEN "completed"
                                           ELSE "input-required"]
    /\ run' = [run EXCEPT ![s].phase = "saving", ![s].result = status]
    /\ UNCHANGED <<turns, context, saved, isLast, brokerVars, event,
                   client>>

\* Mutant: the previous last turn is not reset.
SaveConversationBug(s) ==
    /\ run[s].phase = "saving"
    /\ LET t == run[s].task
       IN  /\ saved' = [saved EXCEPT ![t] = run[s].result]
           /\ isLast' = [isLast EXCEPT ![t] = TRUE]
    /\ run' = [run EXCEPT ![s].phase = "notifying"]
    /\ UNCHANGED <<state, turns, context, brokerVars, event, client>>

\* update_task_conversation: one transaction in a relational datastore.
SaveConversation(s) ==
    /\ run[s].phase = "saving"
    /\ LET t == run[s].task
       IN  /\ saved' = [saved EXCEPT ![t] = run[s].result]
           /\ isLast' = [u \in Tasks |-> IF context[u] = context[t]
                                           THEN u = t ELSE isLast[u]]
    /\ run' = [run EXCEPT ![s].phase = "notifying"]
    /\ UNCHANGED <<state, turns, context, brokerVars, event, client>>

\* Mutant: only a request that already waits is woken.
NotifyBug(s) ==
    /\ LoopIsFree /\ run[s].phase = "notifying"
    /\ event' = [event EXCEPT ![run[s].task] =
                    @ \/ \E c \in Clients : /\ client[c].phase = "waiting"
                                           /\ client[c].waits = run[s].task]
    /\ run' = [run EXCEPT ![s] = Free]
    /\ UNCHANGED <<taskVars, brokerVars, client>>

\* notifier.notify: the event stays set for ever.
Notify(s) ==
    /\ LoopIsFree /\ run[s].phase = "notifying"
    /\ event' = [event EXCEPT ![run[s].task] = TRUE]
    /\ run' = [run EXCEPT ![s] = Free]
    /\ UNCHANGED <<taskVars, brokerVars, client>>

\* cancel_task raises NotImplementedError.
CancelRaises(s, t) ==
    /\ LoopIsFree /\ run[s].phase = "free" /\ t \in cancels
    /\ cancels' = cancels \ {t}
    /\ Raises(t)
    /\ UNCHANGED <<turns, context, saved, isLast, queued, run, event,
                   client>>

-----------------------------------------------------------------------------
\* The process ends and starts again: the task table is all that is left.
Restart ==
    /\ Restarts
    /\ queued' = [t \in Tasks |-> [w \in Ways |-> 0]] /\ cancels' = {}
    /\ run' = [s \in Slots |-> Free]
    /\ event' = [t \in Tasks |-> FALSE]
    /\ client' = [c \in Clients |-> Idle("none")]
    /\ UNCHANGED taskVars

Send == \E c \in Clients, t \in Tasks, blocking \in Blocks :
           \/ SendToTask(c, t, blocking)
           \/ \E x \in Contexts : SendNewTask(c, t, x, blocking)

Worker(s) ==
    \/ \E t \in Tasks : CancelRaises(s, t)
                        \/ \E way \in Ways : StartRun(s, t, way)
    \/ FlowStarts(s) \/ RunBreaks(s) \/ ExecutionFails(s)
    \/ \E status \in KnownStatuses : ExecutionEnds(s, status)
    \/ SaveConversation(s) \/ Notify(s)

Next == \/ Send
        \/ \E c \in Clients : StartWaiting(c) \/ AnswerBlocked(c)
                               \/ TimeOutBlocked(c)
        \/ \E t \in Tasks : CancelTask(t)
        \/ \E s \in Slots : Worker(s)
        \/ Restart

Spec == Init /\ [][Next]_vars
\* The library keeps taking operations, an execution ends, and a request whose
\* event is set is resumed by the event loop.
FairSpec == /\ Spec /\ WF_vars(\E s \in Slots : Worker(s))
            /\ \A c \in Clients : WF_vars(StartWaiting(c) \/ AnswerBlocked(c))

-----------------------------------------------------------------------------
(* Properties.                                                             *)

TypeOK ==
    /\ state \in [Tasks -> TaskStates]
    /\ turns \in [Tasks -> 0..MaxTurns]
    /\ context \in [Tasks -> Contexts \cup {NoContext}]
    /\ saved \in [Tasks -> KnownStatuses \cup {"none"}]
    /\ isLast \in [Tasks -> BOOLEAN]
    /\ queued \in [Tasks -> [Ways -> Nat]]
    /\ cancels \subseteq Tasks
    /\ run \in [Slots -> Runs]
    /\ \A s \in Slots : run[s].phase # "free" => run[s].task \in Tasks
    /\ event \in [Tasks -> BOOLEAN]
    /\ client \in [Clients -> Requests]
    /\ \A c \in Clients : client[c].phase # "idle" => client[c].waits \in Tasks

Working(s, t) == /\ run[s].task = t
                 /\ run[s].phase \in {"starting", "executing", "saving"}

\* Run operations of a task in the broker.
Operations(t) == queued[t]["new"] + queued[t]["continued"]

\* A message is worked on once: whatever clients send concurrently, a task has
\* at most one run operation in the broker or in a slot.
OneOperationPerTask ==
    \A t \in Tasks :
        /\ Operations(t) <= 1
        /\ \A s \in Slots : Working(s, t)
              => /\ Operations(t) = 0
                 /\ \A r \in Slots : Working(r, t) => r = s

\* A context has one last turn, also after restarts: load_latest_task raises
\* "Internal error" otherwise, for every later task of the context.
OneLastTurn ==
    \A t, u \in Tasks :
        isLast[t] /\ isLast[u] /\ context[t] = context[u] => t = u

\* A blocking request that waits for an event that is not set waits for a run:
\* the notification cannot come before the wait and be lost.  A run that raises
\* outside of its try statement breaks this, although _worker.py:107 says "Notify
\* the task manager that the task failed in case it is waiting for the result".
NoLostWakeup ==
    \A c \in Clients : LET t == client[c].waits IN
        t # NoTask /\ ~event[t]
            => \/ Operations(t) > 0
               \/ \E s \in Slots : run[s].phase # "free" /\ run[s].task = t

\* Every accepted message is worked on.
SubmittedIsProcessed ==
    \A t \in Tasks : state[t] = "submitted" ~> state[t] # "submitted"

\* Seen from outside, where a task that completed and one that failed are both
\* closed, and nobody looks while a run is being saved, the server keeps the
\* promise of A2ATasks.
PhaseOf(s) == IF s \in {"completed", "failed"} THEN "closed" ELSE s
BeingSaved(t) == \E s \in Slots : run[s].phase = "saving" /\ run[s].task = t
Phase == [t \in Tasks |-> IF BeingSaved(t) THEN "working" ELSE PhaseOf(state[t])]
Abstract == INSTANCE A2ATasks WITH phase <- Phase, accepted <- turns
ImplementsTasks == Abstract!TasksSpec

-----------------------------------------------------------------------------
(* Claims of the sources that the code does not keep.                      *)

\* _task_manager.py:162: "Otherwise, wait until the task is finished".
BlockingAnswersAreFinal ==
    \A c \in Clients : client[c].answer \notin {"submitted", "working"}
=============================================================================

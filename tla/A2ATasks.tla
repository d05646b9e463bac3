------------------------------ MODULE A2ATasks ------------------------------
(***************************************************************************)
(* What the A2A server promises about tasks, seen from outside: a message  *)
(* is accepted for a task only when the task is new or waits for input,    *)
(* each accepted message is worked on at most once, and only working on it *)
(* settles the task.  A task that failed or completed is closed for good.  *)
(***************************************************************************)
EXTENDS Naturals

CONSTANTS Tasks, MaxTurns

VARIABLES
    phase,    \* absent, submitted, working, input-required or closed
    accepted  \* messages accepted for each task

TasksInit == /\ phase = [t \in Tasks |-> "absent"]
             /\ accepted = [t \in Tasks |-> 0]

Accept(t) ==
    /\ phase[t] \in {"absent", "input-required"} /\ accepted[t] < MaxTurns
    /\ phase' = [phase EXCEPT ![t] = "submitted"]
    /\ accepted' = [accepted EXCEPT ![t] = @ + 1]

Work(t) ==
    /\ phase[t] = "submitted"
    /\ phase' = [phase EXCEPT ![t] = "working"]
    /\ UNCHANGED accepted

Settle(t) ==
    /\ phase[t] = "working"
    /\ \E p \in {"input-required", "closed"} : phase' = [phase EXCEPT ![t] = p]
    /\ UNCHANGED accepted

TasksNext == \E t \in Tasks : Accept(t) \/ Work(t) \/ Settle(t)

TasksSpec == TasksInit /\ [][TasksNext]_<<phase, accepted>>
=============================================================================

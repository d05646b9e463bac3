---------------------------- MODULE SubFlowSteps ----------------------------
(***************************************************************************)
(* MapStep and ParallelFlowExecutionStep: one step of a flow that runs     *)
(* sub-flows in sub-conversations, which it keeps in the state of the      *)
(* conversation it belongs to.                                             *)
(*                                                                         *)
(* The flow may come to the step several times; the inputs of the step are *)
(* told apart by the visit they belong to.  An execution of the step may   *)
(* stop: a sub-flow was interrupted, yielded, or raised.  The flow then    *)
(* stays at the step, which is executed again in the same visit.  What a   *)
(* sub-flow does is FlowExecutor's; here it runs to its end or stops, and  *)
(* a sub-conversation that has run to its end returns its outputs again    *)
(* when it is executed again.                                              *)
(***************************************************************************)
EXTENDS Naturals, Sequences, FiniteSets

CONSTANTS
    SubFlows,     \* number of flows of a parallel step
    SubWorkers,   \* max_workers
    SubMaxItems,  \* bound: items of the iterated input of a map step
    SubMaxVisits  \* bound: visits of the step

ASSUME SubAssumption ==
    /\ SubFlows \in Nat \ {0} /\ SubWorkers \in Nat \ {0}
    /\ SubMaxItems \in Nat /\ SubMaxVisits \in Nat

VARIABLES
    subKind,    \* sequential map, parallel map, or parallel flows
    subPc,      \* the flow is elsewhere; the step runs; it was stopped
    subVisit,   \* the current or last visit
    subItems,   \* items of the visit
    subConv,    \* the sub-conversations
    subTasks,   \* what an execution still has to run
    subActive,  \* what it is running
    subHalted,  \* a sub-flow of this execution was interrupted
    subIndex,   \* _CURRENT_ITEM_KEY of a map step
    subOutputs, \* _ALL_OUTPUTS_KEY of a map step
    subResult,  \* outputs of the last visit
    subRuns     \* how often each item ran to its end, in this visit: 0, 1, many

subTaskVars == <<subTasks, subActive, subHalted>>
subLoopVars == <<subIndex, subOutputs>>
subVars == <<subKind, subPc, subVisit, subItems, subConv, subTaskVars,
             subLoopVars, subResult, subRuns>>

SubKinds == {"map", "parallelMap", "flows"}
Indices == 1 .. (IF SubFlows > SubMaxItems THEN SubFlows ELSE SubMaxItems)
\* A sub-conversation is started with the inputs of an item of a visit.
NoSub == [item |-> 0, visit |-> 0, ended |-> FALSE]
NewSub(i, visit) == [item |-> i, visit |-> visit, ended |-> FALSE]
Many == 2
Parallel == subKind # "map"
\* The flows of a parallel step have a key each; the others share one.
Key(i) == IF Parallel THEN i ELSE 1

SubInit ==
    /\ subKind \in SubKinds
    /\ subPc = "away" /\ subVisit = 0 /\ subItems = 0
    /\ subConv = [i \in Indices |-> NoSub]
    /\ subTasks = {} /\ subActive = {} /\ subHalted = FALSE
    /\ subIndex = 0 /\ subOutputs = <<>> /\ subResult = <<>>
    /\ subRuns = [i \in Indices |-> 0]

\* Mutant: every execution creates the sub-conversations of parallel flows.
SetupBug(items, visit) ==
    /\ subPc' = "running" /\ subHalted' = FALSE
    /\ subTasks' = IF Parallel THEN 1..items ELSE {}
    /\ subActive' = {}
    /\ subConv' = [i \in Indices |->
          IF Parallel /\ i \in 1..items THEN NewSub(i, visit) ELSE subConv[i]]
    /\ UNCHANGED <<subKind, subLoopVars, subResult>>

\* _invoke_step_async up to its first await.  A parallel step creates the
\* sub-conversations it does not find under the id of their flow; a parallel
\* map creates them all anew, each under the same key, which nobody reads.
Setup(items, visit) ==
    /\ subPc' = "running" /\ subHalted' = FALSE
    /\ subTasks' = IF Parallel THEN 1..items ELSE {}
    /\ subActive' = {}
    /\ subConv' = [i \in Indices |->
          IF i \in 1..items /\ \/ subKind = "parallelMap"
                               \/ subKind = "flows" /\ subConv[i] = NoSub
             THEN NewSub(i, visit) ELSE subConv[i]]
    /\ UNCHANGED <<subKind, subLoopVars, subResult>>

Visit(items) ==
    /\ subPc = "away" /\ subVisit < SubMaxVisits
    /\ subKind = "flows" => items = SubFlows
    /\ Setup(items, subVisit + 1)
    /\ subVisit' = subVisit + 1 /\ subItems' = items
    /\ subRuns' = [i \in Indices |-> 0]

\* The conversation is executed again.
Resume ==
    /\ subPc = "stopped"
    /\ Setup(subItems, subVisit)
    /\ UNCHANGED <<subVisit, subItems, subRuns>>

-----------------------------------------------------------------------------
(* The iterations of a map step, or the tasks of a parallel one.           *)

\* The next item of a map; its sub-conversation may be there already.
StartItem ==
    /\ subPc = "running" /\ subKind = "map"
    /\ subActive = {} /\ subIndex < subItems
    /\ subActive' = {subIndex + 1}
    /\ subConv' = [subConv EXCEPT ![1] =
                      IF @ = NoSub THEN NewSub(subIndex + 1, subVisit) ELSE @]
    /\ UNCHANGED <<subKind, subPc, subVisit, subItems, subTasks, subHalted,
                   subLoopVars, subResult, subRuns>>

\* A task gets the semaphore.
StartTask(i) ==
    /\ i \in subTasks /\ Cardinality(subActive) < SubWorkers
    /\ subTasks' = subTasks \ {i} /\ subActive' = subActive \cup {i}
    /\ UNCHANGED <<subKind, subPc, subVisit, subItems, subConv, subHalted,
                   subLoopVars, subResult, subRuns>>

\* Only a sub-conversation that has not ended yet does its work.
RunToEnd(i) ==
    LET sub == subConv[Key(i)]
    IN  subRuns' = [subRuns EXCEPT ![i] = 
                        IF sub.ended \/ @ = Many THEN @ ELSE @ + 1]
Ended(i) == [subConv EXCEPT ![Key(i)].ended = TRUE]
Output(i) == [item |-> subConv[Key(i)].item, visit |-> subConv[Key(i)].visit]

\* Mutant: the sub-conversation is not removed.
ItemFinishesBug(i) ==
    /\ subKind = "map" /\ i \in subActive
    /\ RunToEnd(i)
    /\ subConv' = Ended(i)
    /\ subIndex' = subIndex + 1 /\ subOutputs' = Append(subOutputs, Output(i))
    /\ subActive' = {}
    /\ UNCHANGED <<subKind, subPc, subVisit, subItems, subTasks, subHalted,
                   subResult>>

\* FinishedStatus.  A map removes the sub-conversation and keeps the outputs.
ItemFinishes(i) ==
    /\ subKind = "map" /\ i \in subActive
    /\ RunToEnd(i)
    /\ subConv' = [subConv EXCEPT ![1] = NoSub]
    /\ subIndex' = subIndex + 1 /\ subOutputs' = Append(subOutputs, Output(i))
    /\ subActive' = {}
    /\ UNCHANGED <<subKind, subPc, subVisit, subItems, subTasks, subHalted,
                   subResult>>

TaskFinishes(i) ==
    /\ Parallel /\ i \in subActive
    /\ RunToEnd(i) /\ subConv' = Ended(i)
    /\ subActive' = subActive \ {i}
    /\ UNCHANGED <<subKind, subPc, subVisit, subItems, subTasks, subHalted,
                   subLoopVars, subResult>>

\* An interrupt fires at an event of a sub-flow, the event of its end included.
\* The other tasks go on.
Interrupted(i) ==
    /\ i \in subActive /\ subKind # "parallelMap" /\ ~subConv[Key(i)].ended
    /\ \/ RunToEnd(i) /\ subConv' = Ended(i)
       \/ UNCHANGED <<subRuns, subConv>>
    /\ subActive' = subActive \ {i} /\ subHalted' = TRUE
    /\ subPc' = IF Parallel THEN "running" ELSE "stopped"
    /\ UNCHANGED <<subKind, subVisit, subItems, subTasks, subLoopVars,
                   subResult>>

\* The sub-flow of a map needs the user.
Yields(i) ==
    /\ i \in subActive /\ subKind = "map" /\ ~subConv[1].ended
    /\ subActive' = {} /\ subPc' = "stopped"
    /\ UNCHANGED <<subKind, subVisit, subItems, subConv, subTasks, subHalted,
                   subLoopVars, subResult, subRuns>>

\* An exception, also that of a sub-flow of a parallel map that did not finish:
\* the task group cancels the other tasks and waits for them.
Raises(i) ==
    /\ i \in subActive /\ ~subConv[Key(i)].ended
    /\ subTasks' = {} /\ subActive' = {} /\ subPc' = "stopped"
    /\ UNCHANGED <<subKind, subVisit, subItems, subConv, subHalted,
                   subLoopVars, subResult, subRuns>>

-----------------------------------------------------------------------------
(* The end of an execution.                                                *)

\* The index and the outputs of a map are reset.
LeaveMap ==
    /\ subPc = "running" /\ subKind = "map"
    /\ subActive = {} /\ subIndex = subItems
    /\ subResult' = subOutputs /\ subIndex' = 0 /\ subOutputs' = <<>>
    /\ subPc' = "away"
    /\ UNCHANGED <<subKind, subVisit, subItems, subConv, subTaskVars, subRuns>>

TasksEnd == subPc = "running" /\ Parallel /\ subTasks = {} /\ subActive = {}

\* A parallel step returns an interrupt if there is one.
Halt ==
    /\ TasksEnd /\ subHalted
    /\ subPc' = "stopped"
    /\ UNCHANGED <<subKind, subVisit, subItems, subConv, subTaskVars,
                   subLoopVars, subResult, subRuns>>

\* Its clean-up removes an entry from the states of the sub-conversations, where
\* there is none: they stay.
LeaveTasks ==
    /\ TasksEnd /\ ~subHalted
    /\ subResult' = [i \in 1..subItems |-> Output(i)]
    /\ subPc' = "away"
    /\ UNCHANGED <<subKind, subVisit, subItems, subConv, subTaskVars,
                   subLoopVars, subRuns>>

-----------------------------------------------------------------------------
SubNext ==
    \/ (\E n \in 0..Cardinality(Indices) : Visit(n)) \/ Resume
    \/ StartItem \/ LeaveMap \/ Halt \/ LeaveTasks
    \/ \E i \in Indices : \/ StartTask(i) \/ ItemFinishes(i) \/ TaskFinishes(i)
                          \/ Interrupted(i) \/ Yields(i) \/ Raises(i)

SubSpec == SubInit /\ [][SubNext]_subVars

-----------------------------------------------------------------------------
(* Properties.                                                             *)

SubConversations == [item : Indices \cup {0}, visit : 0..SubMaxVisits,
                     ended : BOOLEAN]
SubOutput == [item : Indices, visit : 1..SubMaxVisits]

SubTypeOK ==
    /\ subKind \in SubKinds /\ subPc \in {"away", "running", "stopped"}
    /\ subVisit \in 0..SubMaxVisits /\ subItems \in 0..Cardinality(Indices)
    /\ subConv \in [Indices -> SubConversations]
    /\ subTasks \subseteq Indices /\ subActive \subseteq Indices
    /\ subHalted \in BOOLEAN
    /\ subIndex \in 0..subItems
    /\ subOutputs \in Seq(SubOutput) /\ subResult \in Seq(SubOutput)
    /\ subRuns \in [Indices -> 0..Many]

\* However often an execution of a map step was interrupted, raised or yielded,
\* its outputs are those of every item, in the order of the items, and all
\* computed from the inputs of this visit.  Nothing is said of parallel flows: a
\* later visit of theirs gives the outputs of the first one again, since their
\* conversations stay (MapStep._invoke_step_async).
MapOutputsAreNew ==
    subKind # "flows" /\ subPc = "away" /\ subVisit > 0 =>
        /\ subResult = [i \in 1..subItems |-> [item |-> i, visit |-> subVisit]]
        /\ \A i \in 1..subItems : subRuns[i] # 0

\* What was done before an execution stopped is not done again by the next one
\* of the visit, although parallel flows execute conversations that have ended:
\* they run no step any more.  A parallel map starts all over
\* (_invoke_step_async of both steps).
NoWorkTwice ==
    subKind # "parallelMap" => \A i \in 1..subItems : subRuns[i] # Many
=============================================================================

--------------------------- MODULE A2AServerProofs ---------------------------
(***************************************************************************)
(* Theorems about A2AServer, for any number of tasks, contexts, clients    *)
(* and slots.                                                              *)
(***************************************************************************)
EXTENDS A2AServer, TLAPS

-----------------------------------------------------------------------------
(* What a handler does to one component of the state.                      *)

LEMMA EnqueueLemma ==
    ASSUME queued \in [Tasks -> [Ways -> Nat]],
           NEW t \in Tasks, NEW w \in Ways, Enqueue(t, w)
    PROVE  /\ queued' \in [Tasks -> [Ways -> Nat]]
           /\ \A u \in Tasks : Operations(u)' =
                 IF u = t THEN Operations(u) + 1 ELSE Operations(u)
<1>1. /\ queued' \in [Tasks -> [Ways -> Nat]]
      /\ \A u \in Tasks : u # t => queued'[u] = queued[u]
      /\ \A v \in Ways : queued'[t][v] = IF v = w THEN queued[t][v] + 1
                                                 ELSE queued[t][v]
  BY DEF Enqueue
<1>2. queued[t]["new"] \in Nat /\ queued[t]["continued"] \in Nat
  BY DEF Ways
<1>3. QED
  BY <1>1, <1>2 DEF Operations, Ways

LEMMA DequeueLemma ==
    ASSUME queued \in [Tasks -> [Ways -> Nat]],
           NEW t \in Tasks, NEW w \in Ways, queued[t][w] > 0,
           queued' = [queued EXCEPT ![t][w] = @ - 1]
    PROVE  /\ queued' \in [Tasks -> [Ways -> Nat]]
           /\ \A u \in Tasks : Operations(u)' =
                 IF u = t THEN Operations(u) - 1 ELSE Operations(u)
<1>1. /\ queued' \in [Tasks -> [Ways -> Nat]]
      /\ \A u \in Tasks : u # t => queued'[u] = queued[u]
      /\ \A v \in Ways : queued'[t][v] = IF v = w THEN queued[t][v] - 1
                                                 ELSE queued[t][v]
  OBVIOUS
<1>2. queued[t]["new"] \in Nat /\ queued[t]["continued"] \in Nat
  BY DEF Ways
<1>3. QED
  BY <1>1, <1>2 DEF Operations, Ways

LEMMA OperationsType ==
    ASSUME queued \in [Tasks -> [Ways -> Nat]], NEW t \in Tasks
    PROVE  /\ Operations(t) \in Nat
           /\ \A w \in Ways : queued[t][w] > 0 => Operations(t) > 0
<1>1. queued[t]["new"] \in Nat /\ queued[t]["continued"] \in Nat
  BY DEF Ways
<1>2. QED
  BY <1>1 DEF Operations, Ways

LEMMA RespondLemma ==
    ASSUME client \in [Clients -> Requests],
           \A d \in Clients : client[d].phase # "idle" => client[d].waits \in Tasks,
           NEW c \in Clients, NEW t \in Tasks, NEW b \in Blocks, Respond(c, t, b)
    PROVE  /\ client' \in [Clients -> Requests]
           /\ \A d \in Clients :
                 client'[d].phase # "idle" => client'[d].waits \in Tasks
           /\ client'[c].waits \in {t, NoTask}
           /\ \A d \in Clients : d # c => client'[d] = client[d]
<1> DEFINE sent == [phase |-> "sent", waits |-> t, answer |-> "none"]
<1>1. PICK v \in {sent, Idle("none")} : client' = [client EXCEPT ![c] = v]
  BY DEF Respond
<1>2. /\ v \in Requests /\ v.waits \in {t, NoTask}
      /\ v.phase # "idle" => v.waits \in Tasks
  BY DEF Idle, Answers, Requests
<1>3. QED
  BY <1>1, <1>2

LEMMA RaisesLemma ==
    ASSUME state \in [Tasks -> TaskStates], NEW t \in Tasks, Raises(t)
    PROVE  /\ state' \in [Tasks -> TaskStates]
           /\ \A u \in Tasks : state'[u] = state[u] \/ (u = t /\ state'[u] = "failed")
BY DEF Raises, TaskStates

-----------------------------------------------------------------------------
(* Type correctness.                                                       *)

LEMMA InitType == Init => TypeOK
<1> SUFFICES ASSUME Init PROVE TypeOK
  OBVIOUS
<1>1. Free \in Runs /\ Free.phase = "free"
  BY DEF Free, Runs, Phases
<1>2. Idle("none") \in Requests /\ Idle("none").phase = "idle"
  BY DEF Idle, Requests, Answers
<1>3. QED
  BY <1>1, <1>2, ServerAssumption DEF Init, TypeOK, TaskStates

LEMMA SendType == TypeOK /\ Send => TypeOK'
<1> SUFFICES ASSUME TypeOK, NEW c \in Clients, NEW t \in Tasks,
                    NEW b \in Blocks,
                    \/ SendToTask(c, t, b)
                    \/ \E x \in Contexts : SendNewTask(c, t, x, b)
             PROVE  TypeOK'
  BY DEF Send
<1>1. CASE SendToTask(c, t, b)
  <2>1. queued' \in [Tasks -> [Ways -> Nat]]
    BY <1>1, EnqueueLemma DEF SendToTask, TypeOK, Ways
  <2>2. /\ client' \in [Clients -> Requests]
        /\ \A d \in Clients :
              client'[d].phase # "idle" => client'[d].waits \in Tasks
    BY <1>1, RespondLemma DEF SendToTask, TypeOK
  <2>3. turns' \in [Tasks -> 0..MaxTurns]
    <3>1. turns[t] + 1 \in 0..MaxTurns
      BY <1>1, ServerAssumption DEF SendToTask, TypeOK
    <3>2. QED
      BY <1>1, <3>1 DEF SendToTask, TypeOK
  <2>4. state' \in [Tasks -> TaskStates]
    BY <1>1 DEF SendToTask, TypeOK, TaskStates
  <2>5. /\ context' = context /\ saved' = saved /\ isLast' = isLast
        /\ cancels' = cancels /\ run' = run /\ event' = event
    BY <1>1 DEF SendToTask
  <2>6. QED
    BY <2>1, <2>2, <2>3, <2>4, <2>5 DEF TypeOK
<1>2. ASSUME NEW x \in Contexts, SendNewTask(c, t, x, b) PROVE TypeOK'
  <2>1. queued' \in [Tasks -> [Ways -> Nat]]
    BY <1>2, EnqueueLemma DEF SendNewTask, TypeOK, Ways
  <2>2. /\ client' \in [Clients -> Requests]
        /\ \A d \in Clients :
              client'[d].phase # "idle" => client'[d].waits \in Tasks
    BY <1>2, RespondLemma DEF SendNewTask, TypeOK
  <2>3. turns' \in [Tasks -> 0..MaxTurns]
    BY <1>2, ServerAssumption DEF SendNewTask, TypeOK
  <2>4. /\ state' \in [Tasks -> TaskStates]
        /\ context' \in [Tasks -> Contexts \cup {NoContext}]
    BY <1>2 DEF SendNewTask, TypeOK, TaskStates
  <2>5. /\ saved' = saved /\ isLast' = isLast
        /\ cancels' = cancels /\ run' = run /\ event' = event
    BY <1>2 DEF SendNewTask
  <2>6. QED
    BY <2>1, <2>2, <2>3, <2>4, <2>5 DEF TypeOK
<1>3. QED
  BY <1>1, <1>2

\* A step that changes the run of a slot to a well-typed one.
LEMMA RunLemma ==
    ASSUME run \in [Slots -> Runs],
           \A r \in Slots : run[r].phase # "free" => run[r].task \in Tasks,
           NEW s \in Slots, NEW v \in Runs, run' = [run EXCEPT ![s] = v],
           v.phase # "free" => v.task \in Tasks
    PROVE  /\ run' \in [Slots -> Runs]
           /\ \A r \in Slots : run'[r].phase # "free" => run'[r].task \in Tasks
OBVIOUS

LEMMA WorkerType == TypeOK /\ (\E s \in Slots : Worker(s)) => TypeOK'
<1> SUFFICES ASSUME TypeOK, NEW s \in Slots, Worker(s) PROVE TypeOK'
  OBVIOUS
<1>1. run[s] \in Runs /\ (run[s].phase # "free" => run[s].task \in Tasks)
  BY DEF TypeOK
<1>2. Free \in Runs /\ Free.phase = "free"
  BY DEF Free, Runs, Phases
<1>3. ASSUME NEW t \in Tasks, CancelRaises(s, t) PROVE TypeOK'
  BY <1>3, RaisesLemma DEF CancelRaises, TypeOK
<1>4. ASSUME NEW t \in Tasks, NEW w \in Ways, StartRun(s, t, w)
      PROVE  TypeOK'
  <2>1. queued' \in [Tasks -> [Ways -> Nat]]
    BY <1>4, DequeueLemma DEF StartRun, TypeOK
  <2>2. CASE state[t] = "submitted"
    <3>1. PICK ph \in {"starting", "executing"} :
             run' = [run EXCEPT ![s] =
                       [phase |-> ph, task |-> t, result |-> "none"]]
      BY <1>4, <2>2 DEF StartRun
    <3>2. [phase |-> ph, task |-> t, result |-> "none"] \in Runs
      BY DEF Phases, Runs
    <3>3. /\ run' \in [Slots -> Runs]
          /\ \A r \in Slots : run'[r].phase # "free" => run'[r].task \in Tasks
      BY <3>1, <3>2, RunLemma DEF TypeOK
    <3>4. state' \in [Tasks -> TaskStates]
      BY <1>4, <2>2 DEF StartRun, TaskStates, TypeOK
    <3>5. QED
      BY <1>4, <2>1, <3>3, <3>4 DEF StartRun, TypeOK
  <2>3. CASE state[t] # "submitted"
    BY <1>4, <2>1, <2>3, RaisesLemma DEF StartRun, TypeOK
  <2>4. QED
    BY <2>2, <2>3
<1>5. CASE FlowStarts(s)
  <2>1. run' = [run EXCEPT ![s] = [run[s] EXCEPT !.phase = "executing"]]
    BY <1>5 DEF FlowStarts
  <2>2. [run[s] EXCEPT !.phase = "executing"] \in Runs
    BY <1>1 DEF Runs, Phases
  <2>3. QED
    BY <1>1, <1>5, <2>1, <2>2 DEF FlowStarts, TypeOK, taskVars, brokerVars, Runs
<1>6. CASE RunBreaks(s)
  BY <1>1, <1>2, <1>6, RaisesLemma DEF RunBreaks, TypeOK, brokerVars
<1>7. CASE ExecutionFails(s)
  <2>1. [run[s] EXCEPT !.phase = "notifying"] \in Runs
    BY <1>1 DEF Runs, Phases
  <2>2. QED
    BY <1>1, <1>7, <2>1 DEF ExecutionFails, TypeOK, brokerVars, Runs, TaskStates
<1>8. ASSUME NEW status \in KnownStatuses, ExecutionEnds(s, status)
      PROVE  TypeOK'
  <2>1. [run[s] EXCEPT !.phase = "saving", !.result = status] \in Runs
    BY <1>1 DEF Runs, Phases
  <2>2. QED
    BY <1>1, <1>8, <2>1 DEF ExecutionEnds, TypeOK, brokerVars, Runs, TaskStates
<1>9. CASE SaveConversation(s)
  <2>1. [run[s] EXCEPT !.phase = "notifying"] \in Runs
    BY <1>1 DEF Runs, Phases
  <2>2. run[s].result \in KnownStatuses \cup {"none"}
    BY <1>1 DEF Runs
  <2>3. QED
    BY <1>1, <1>9, <2>1, <2>2 DEF SaveConversation, TypeOK, brokerVars, Runs
<1>10. CASE Notify(s)
  BY <1>2, <1>10 DEF Notify, TypeOK, taskVars, brokerVars
<1>11. QED
  BY <1>3, <1>4, <1>5, <1>6, <1>7, <1>8, <1>9, <1>10 DEF Worker

LEMMA StepType == TypeOK /\ [Next]_vars => TypeOK'
<1> SUFFICES ASSUME TypeOK, [Next]_vars PROVE TypeOK'
  OBVIOUS
<1>1. ASSUME NEW c \in Clients,
             StartWaiting(c) \/ AnswerBlocked(c) \/ TimeOutBlocked(c)
      PROVE  TypeOK'
  <2>1. /\ client[c].waits \in Tasks /\ client[c] \in Requests
        /\ \E a \in Answers :
             \/ client' = [client EXCEPT ![c] = Idle(a)]
             \/ client' = [client EXCEPT ![c] =
                             [client[c] EXCEPT !.phase = "waiting"]]
    BY <1>1 DEF StartWaiting, AnswerBlocked, TimeOutBlocked, Answers, TypeOK
  <2>2. PICK v \in Requests : /\ client' = [client EXCEPT ![c] = v]
                              /\ v.phase # "idle" => v.waits \in Tasks
    <3>1. \A a \in Answers : Idle(a) \in Requests /\ Idle(a).phase = "idle"
      BY DEF Idle, Requests
    <3>2. /\ [client[c] EXCEPT !.phase = "waiting"] \in Requests
          /\ [client[c] EXCEPT !.phase = "waiting"].waits \in Tasks
      BY <2>1 DEF Requests
    <3>3. QED
      BY <2>1, <3>1, <3>2
  <2>3. UNCHANGED <<taskVars, brokerVars, run, event>>
    BY <1>1 DEF StartWaiting, AnswerBlocked, TimeOutBlocked
  <2>4. QED
    BY <2>2, <2>3 DEF TypeOK, taskVars, brokerVars
<1>2. CASE \E t \in Tasks : CancelTask(t)
  BY <1>2 DEF CancelTask, TypeOK, taskVars
<1>3. CASE Restart
  <2>1. Free \in Runs /\ Free.phase = "free"
    BY DEF Free, Runs, Phases
  <2>2. Idle("none") \in Requests /\ Idle("none").phase = "idle"
    BY DEF Idle, Requests, Answers
  <2>3. QED
    BY <1>3, <2>1, <2>2 DEF Restart, TypeOK, taskVars
<1>4. CASE UNCHANGED vars
  BY <1>4 DEF vars, TypeOK, taskVars, brokerVars
<1>5. QED
  BY <1>1, <1>2, <1>3, <1>4, SendType, WorkerType DEF Next

\* Every reachable state of the server is well typed.
THEOREM TypeCorrect == Spec => []TypeOK
BY InitType, StepType, PTL DEF Spec

-----------------------------------------------------------------------------
(* One operation per task.  A message is accepted only for a task that is  *)
(* new or waits for input, and no such task has an operation: the check of *)
(* the state and the enqueueing are one step, and a run leaves the state   *)
(* that accepts messages only while it holds the event loop.               *)

Accepting == {"absent", "input-required"}

OperationInv ==
    /\ OneOperationPerTask
    /\ \A t \in Tasks : Operations(t) > 0 => state[t] \notin Accepting
    /\ \A s \in Slots : run[s].phase \in {"starting", "executing"}
                          => state[run[s].task] \notin Accepting

\* What accepting a message changes.
LEMMA SendEffect ==
    ASSUME TypeOK, Send
    PROVE  \E t \in Tasks, c \in Clients :
              /\ LoopIsFree /\ state[t] \in Accepting
              /\ state' = [state EXCEPT ![t] = "submitted"]
              /\ \A u \in Tasks : Operations(u)' =
                    IF u = t THEN Operations(u) + 1 ELSE Operations(u)
              /\ client'[c].waits \in {t, NoTask}
              /\ \A d \in Clients : d # c => client'[d] = client[d]
              /\ \A u \in Tasks : context'[u] = context[u]
                                   \/ (u = t /\ state[u] = "absent")
              /\ run' = run /\ isLast' = isLast /\ saved' = saved
              /\ event' = event /\ cancels' = cancels
<1>1. PICK c \in Clients, t \in Tasks, b \in Blocks :
         \/ SendToTask(c, t, b)
         \/ \E x \in Contexts : SendNewTask(c, t, x, b)
  BY DEF Send
<1>2. \/ Enqueue(t, "new")
      \/ Enqueue(t, "continued")
  BY <1>1 DEF SendToTask, SendNewTask
<1>3. \A u \in Tasks : Operations(u)' =
         IF u = t THEN Operations(u) + 1 ELSE Operations(u)
  BY <1>2, EnqueueLemma DEF TypeOK, Ways
<1>4. /\ client'[c].waits \in {t, NoTask}
      /\ \A d \in Clients : d # c => client'[d] = client[d]
  BY <1>1, RespondLemma DEF SendToTask, SendNewTask, TypeOK
<1>5. /\ LoopIsFree /\ state[t] \in Accepting
      /\ state' = [state EXCEPT ![t] = "submitted"]
      /\ \A u \in Tasks : context'[u] = context[u]
                           \/ (u = t /\ state[u] = "absent")
      /\ run' = run /\ isLast' = isLast /\ saved' = saved
      /\ event' = event /\ cancels' = cancels
  <2>1. CASE SendToTask(c, t, b)
    <3>1. LoopIsFree /\ state[t] \in Accepting
      BY <2>1 DEF SendToTask, Accepting
    <3>2. state' = [state EXCEPT ![t] = "submitted"]
      BY <2>1 DEF SendToTask
    <3>3. /\ context' = context
          /\ run' = run /\ isLast' = isLast /\ saved' = saved
          /\ event' = event /\ cancels' = cancels
      BY <2>1 DEF SendToTask
    <3>4. QED
      BY <3>1, <3>2, <3>3
  <2>2. ASSUME NEW x \in Contexts, SendNewTask(c, t, x, b)
        PROVE  /\ LoopIsFree /\ state[t] \in Accepting
               /\ state' = [state EXCEPT ![t] = "submitted"]
               /\ \A u \in Tasks : context'[u] = context[u]
                                    \/ (u = t /\ state[u] = "absent")
               /\ run' = run /\ isLast' = isLast /\ saved' = saved
               /\ event' = event /\ cancels' = cancels
    <3>1. LoopIsFree /\ state[t] \in Accepting
      BY <2>2 DEF SendNewTask, Accepting
    <3>2. state' = [state EXCEPT ![t] = "submitted"]
      BY <2>2 DEF SendNewTask
    <3>3. \A u \in Tasks : context'[u] = context[u] \/ (u = t /\ state[u] = "absent")
      BY <2>2 DEF SendNewTask, TypeOK
    <3>4. /\ run' = run /\ isLast' = isLast /\ saved' = saved
          /\ event' = event /\ cancels' = cancels
      BY <2>2 DEF SendNewTask
    <3>5. QED
      BY <3>1, <3>2, <3>3, <3>4
  <2>3. QED
    BY <1>1, <2>1, <2>2
<1>6. QED
  BY <1>3, <1>4, <1>5

LEMMA InitOperations == Init => OperationInv
<1> SUFFICES ASSUME Init PROVE OperationInv
  OBVIOUS
<1>1. \A t \in Tasks : Operations(t) = 0
  BY DEF Init, Operations, Ways
<1>2. \A s \in Slots : run[s].phase = "free"
  BY DEF Init, Free
<1>3. QED
  BY <1>1, <1>2 DEF OperationInv, OneOperationPerTask, Working

LEMMA StepOperations ==
    TypeOK /\ OperationInv /\ [Next]_vars => OperationInv'
<1> SUFFICES ASSUME TypeOK, OperationInv, [Next]_vars PROVE OperationInv'
  OBVIOUS
<1>a. \A t \in Tasks : Operations(t) \in Nat
  BY OperationsType DEF TypeOK
<1>1. CASE Send
  <2>1. PICK t \in Tasks :
           /\ LoopIsFree /\ state[t] \in Accepting
           /\ state' = [state EXCEPT ![t] = "submitted"]
           /\ \A u \in Tasks : Operations(u)' =
                 IF u = t THEN Operations(u) + 1 ELSE Operations(u)
           /\ run' = run
    BY <1>1, SendEffect
  <2>2. Operations(t) = 0
    BY <1>a, <2>1 DEF OperationInv
  <2>3. \A s \in Slots : ~Working(s, t)
    BY <2>1 DEF OperationInv, Working, LoopIsFree
  <2>4. OneOperationPerTask'
    BY <1>a, <2>1, <2>2, <2>3 DEF OperationInv, OneOperationPerTask, Working
  <2>5. \A u \in Tasks : state'[u] \in Accepting => u # t /\ state'[u] = state[u]
    BY <2>1 DEF TypeOK, Accepting
  <2>6. QED
    BY <2>1, <2>4, <2>5 DEF OperationInv, TypeOK
<1>2. ASSUME NEW s \in Slots, Worker(s) PROVE OperationInv'
  <2>a. run[s] \in Runs /\ (run[s].phase # "free" => run[s].task \in Tasks)
    BY DEF TypeOK
  <2>b. ASSUME queued' = queued, NEW r \in Slots,
               \A q \in Slots : q # r => run'[q] = run[q],
               \A t \in Tasks : Working(r, t)' => Working(r, t),
               run'[r].phase \in {"starting", "executing"}
                  => run'[r].task = run[r].task
                     /\ run[r].phase \in {"starting", "executing"},
               \A t \in Tasks : state'[t] \in Accepting =>
                  \/ state[t] \in Accepting
                  \/ /\ Working(r, t)
                     /\ run'[r].phase \notin {"starting", "executing"}
        PROVE  OperationInv'
    <3>1. \A t \in Tasks : Operations(t)' = Operations(t)
      BY <2>b DEF Operations
    <3>2. \A q \in Slots, t \in Tasks : Working(q, t)' => Working(q, t)
      BY <2>b DEF Working
    <3>3. OneOperationPerTask'
      BY <3>1, <3>2 DEF OperationInv, OneOperationPerTask
    <3>4. \A t \in Tasks : Operations(t)' > 0 => state'[t] \notin Accepting
      BY <2>b, <3>1 DEF OperationInv, OneOperationPerTask
    <3>5. ASSUME NEW q \in Slots, run'[q].phase \in {"starting", "executing"}
          PROVE  state'[run'[q].task] \notin Accepting
      <4>1. /\ run'[q].task = run[q].task
            /\ run[q].phase \in {"starting", "executing"}
            /\ run[q].task \in Tasks
        BY <2>b, <3>5 DEF TypeOK
      <4>2. Working(q, run[q].task)
        BY <4>1 DEF Working
      <4>3. QED
        BY <2>b, <3>5, <4>1, <4>2 DEF OperationInv, OneOperationPerTask
    <3>6. QED
      BY <3>3, <3>4, <3>5 DEF OperationInv
  <2>1. ASSUME NEW t \in Tasks, CancelRaises(s, t) PROVE OperationInv'
    <3>1. \A u \in Tasks : state'[u] \in Accepting => state[u] \in Accepting
      BY <2>1, RaisesLemma DEF CancelRaises, Accepting, TypeOK
    <3>2. QED
      BY <2>1, <2>b, <3>1 DEF CancelRaises, Working
  <2>2. ASSUME NEW t \in Tasks, NEW w \in Ways, StartRun(s, t, w)
        PROVE  OperationInv'
    <3>1. /\ \A u \in Tasks : Operations(u)' =
                IF u = t THEN Operations(u) - 1 ELSE Operations(u)
          /\ Operations(t) > 0
      BY <2>2, DequeueLemma, OperationsType DEF StartRun, TypeOK
    <3>2. Operations(t) = 1 /\ \A q \in Slots : ~Working(q, t)
      BY <1>a, <3>1 DEF OperationInv, OneOperationPerTask
    <3>3. \A u \in Tasks : state'[u] \in Accepting => state[u] \in Accepting
      <4>1. CASE state[t] = "submitted"
        BY <2>2, <4>1 DEF StartRun, TypeOK, Accepting
      <4>2. CASE state[t] # "submitted"
        BY <2>2, <4>2, RaisesLemma DEF StartRun, TypeOK, Accepting
      <4>3. QED
        BY <4>1, <4>2
    <3>4. \A q \in Slots : \/ run'[q] = run[q]
                           \/ q = s /\ run'[q].task = t
      BY <2>2 DEF StartRun, TypeOK
    <3>5. state[t] \notin Accepting
      BY <3>1 DEF OperationInv
    <3>6. OneOperationPerTask'
      <4>1. ASSUME NEW u \in Tasks, u # t
            PROVE  \A q \in Slots : Working(q, u)' => Working(q, u)
        BY <3>4, <4>1 DEF Working
      <4>2. \A q \in Slots : Working(q, t)' => q = s
        BY <3>2, <3>4 DEF Working
      <4>3. QED
        BY <1>a, <3>1, <3>2, <4>1, <4>2 DEF OperationInv, OneOperationPerTask
    <3>7. \A u \in Tasks : Operations(u)' > 0 => state'[u] \notin Accepting
      BY <1>a, <3>1, <3>2, <3>3 DEF OperationInv
    <3>8. \A q \in Slots : run'[q].phase \in {"starting", "executing"}
                             => state'[run'[q].task] \notin Accepting
      BY <3>3, <3>4, <3>5 DEF OperationInv, TypeOK
    <3>9. QED
      BY <3>6, <3>7, <3>8 DEF OperationInv
  <2>3. CASE FlowStarts(s)
    BY <2>3, <2>a, <2>b DEF FlowStarts, TypeOK, Working, Runs, taskVars, brokerVars
  <2>4. CASE RunBreaks(s)
    <3>1. \A u \in Tasks : state'[u] \in Accepting => state[u] \in Accepting
      BY <2>a, <2>4, RaisesLemma DEF RunBreaks, Accepting, TypeOK
    <3>2. run'[s].phase = "free" /\ \A q \in Slots : q # s => run'[q] = run[q]
      BY <2>4 DEF RunBreaks, Free, TypeOK
    <3>3. QED
      BY <2>4, <2>b, <3>1, <3>2 DEF RunBreaks, Working, brokerVars
  <2>5. CASE ExecutionFails(s)
    <3>1. \A u \in Tasks : state'[u] \in Accepting => state[u] \in Accepting
      BY <2>a, <2>5 DEF ExecutionFails, Accepting, TypeOK
    <3>2. run'[s].phase = "notifying" /\ \A q \in Slots : q # s => run'[q] = run[q]
      BY <2>5, <2>a DEF ExecutionFails, TypeOK, Runs
    <3>3. QED
      BY <2>5, <2>b, <3>1, <3>2 DEF ExecutionFails, Working, brokerVars
  <2>6. ASSUME NEW status \in KnownStatuses, ExecutionEnds(s, status)
        PROVE  OperationInv'
    <3>1. \A u \in Tasks : state'[u] = state[u] \/ Working(s, u)
      BY <2>a, <2>6 DEF ExecutionEnds, Working, TypeOK
    <3>2. /\ run'[s].phase = "saving" /\ run'[s].task = run[s].task
          /\ \A q \in Slots : q # s => run'[q] = run[q]
      BY <2>6, <2>a DEF ExecutionEnds, TypeOK, Runs
    <3>3. QED
      BY <2>6, <2>b, <3>1, <3>2 DEF ExecutionEnds, Working, brokerVars
  <2>7. CASE SaveConversation(s)
    <3>1. run'[s].phase = "notifying" /\ \A q \in Slots : q # s => run'[q] = run[q]
      BY <2>7, <2>a DEF SaveConversation, TypeOK, Runs
    <3>2. QED
      BY <2>7, <2>b, <3>1 DEF SaveConversation, Working, brokerVars
  <2>8. CASE Notify(s)
    <3>1. run'[s].phase = "free" /\ \A q \in Slots : q # s => run'[q] = run[q]
      BY <2>8 DEF Notify, Free, TypeOK
    <3>2. QED
      BY <2>8, <2>b, <3>1 DEF Notify, Working, taskVars, brokerVars
  <2>9. QED
    BY <1>2, <2>1, <2>2, <2>3, <2>4, <2>5, <2>6, <2>7, <2>8 DEF Worker
<1>3. CASE Restart
  <2>1. \A t \in Tasks : Operations(t)' = 0
    BY <1>3 DEF Restart, Operations, Ways
  <2>2. \A s \in Slots : run'[s].phase = "free"
    BY <1>3 DEF Restart, Free
  <2>3. QED
    BY <2>1, <2>2 DEF OperationInv, OneOperationPerTask, Working
<1>4. CASE UNCHANGED <<state, queued, run>>
  BY <1>4 DEF OperationInv, OneOperationPerTask, Working, Operations
<1>5. QED
  BY <1>1, <1>2, <1>3, <1>4
     DEF Next, vars, taskVars, brokerVars, StartWaiting, AnswerBlocked, TimeOutBlocked,
         CancelTask

\* A message is worked on once, whatever clients send concurrently, whichever
\* operations raise and whenever the server restarts.
THEOREM OperationsAreUnique == Spec => []OneOperationPerTask
<1>1. OperationInv => OneOperationPerTask
  BY DEF OperationInv
<1>2. QED
  BY InitType, StepType, InitOperations, StepOperations, <1>1, PTL DEF Spec

-----------------------------------------------------------------------------
(* One last turn per context.  The flag is only ever set together with the *)
(* reset of the other tasks of the context, and a task joins a context     *)
(* only when it is created, before it was last.                            *)

LastTurnInv ==
    /\ OneLastTurn
    /\ \A t \in Tasks : isLast[t] => state[t] # "absent"
    /\ \A s \in Slots : run[s].phase # "free" => state[run[s].task] # "absent"

\* A task never becomes absent again.
LEMMA StatesAreKept ==
    ASSUME TypeOK, [Next]_vars
    PROVE  \A t \in Tasks : state'[t] = "absent" => state[t] = "absent"
<1>1. CASE Send
  <2>1. PICK t \in Tasks : state' = [state EXCEPT ![t] = "submitted"]
    BY <1>1, SendEffect
  <2>2. QED
    BY <2>1 DEF TypeOK
<1>2. ASSUME NEW s \in Slots, Worker(s)
      PROVE  \A t \in Tasks : state'[t] = "absent" => state[t] = "absent"
  <2>1. run[s].phase # "free" => run[s].task \in Tasks
    BY DEF TypeOK
  <2>2. ASSUME NEW t \in Tasks, Raises(t)
        PROVE  \A u \in Tasks : state'[u] = "absent" => state[u] = "absent"
    BY <2>2, RaisesLemma DEF TypeOK
  <2>3. ASSUME NEW t \in Tasks, NEW w \in Ways, StartRun(s, t, w)
        PROVE  \A u \in Tasks : state'[u] = "absent" => state[u] = "absent"
    BY <2>2, <2>3 DEF StartRun, TypeOK
  <2>4. CASE \/ FlowStarts(s) \/ SaveConversation(s) \/ Notify(s)
    BY <2>4 DEF FlowStarts, SaveConversation, Notify, taskVars
  <2>5. CASE ExecutionFails(s) \/ \E status \in KnownStatuses : ExecutionEnds(s, status)
    BY <2>5 DEF ExecutionFails, ExecutionEnds, TypeOK
  <2>6. QED
    BY <1>2, <2>1, <2>2, <2>3, <2>4, <2>5 DEF Worker, CancelRaises, RunBreaks
<1>3. CASE UNCHANGED state
  BY <1>3
<1>4. QED
  BY <1>1, <1>2, <1>3
     DEF Next, vars, taskVars, StartWaiting, AnswerBlocked, TimeOutBlocked, CancelTask, Restart

LEMMA InitLastTurn == Init => LastTurnInv
BY DEF Init, LastTurnInv, OneLastTurn, Free

LEMMA StepLastTurn ==
    TypeOK /\ OperationInv /\ LastTurnInv /\ [Next]_vars => LastTurnInv'
<1> SUFFICES ASSUME TypeOK, OperationInv, LastTurnInv, [Next]_vars
             PROVE  LastTurnInv'
  OBVIOUS
<1>a. \A t \in Tasks : state[t] # "absent" => state'[t] # "absent"
  BY StatesAreKept
<1>b. ASSUME context' = context, isLast' = isLast,
             \A s \in Slots : run'[s].phase # "free"
                => run[s].phase # "free" /\ run'[s].task = run[s].task
      PROVE  LastTurnInv'
  BY <1>a, <1>b DEF LastTurnInv, OneLastTurn, TypeOK
<1>1. CASE Send
  <2>1. PICK t \in Tasks :
           /\ \A u \in Tasks : context'[u] = context[u]
                                \/ (u = t /\ state[u] = "absent")
           /\ run' = run /\ isLast' = isLast
    BY <1>1, SendEffect
  <2>2. \A u \in Tasks : isLast[u] => context'[u] = context[u]
    BY <2>1 DEF LastTurnInv
  <2>3. QED
    BY <1>a, <2>1, <2>2 DEF LastTurnInv, OneLastTurn, TypeOK
<1>2. ASSUME NEW s \in Slots, Worker(s) PROVE LastTurnInv'
  <2>a. run[s] \in Runs /\ (run[s].phase # "free" => run[s].task \in Tasks)
    BY DEF TypeOK
  <2>1. ASSUME NEW t \in Tasks, CancelRaises(s, t) PROVE LastTurnInv'
    BY <1>b, <2>1 DEF CancelRaises
  <2>2. ASSUME NEW t \in Tasks, NEW w \in Ways, StartRun(s, t, w)
        PROVE  LastTurnInv'
    <3>1. state[t] # "absent"
      BY <2>2, OperationsType DEF StartRun, TypeOK, OperationInv, Accepting
    <3>2. \A r \in Slots : run'[r] = run[r] \/ run'[r].task = t
      BY <2>2 DEF StartRun, TypeOK
    <3>3. context' = context /\ isLast' = isLast
      BY <2>2 DEF StartRun
    <3>4. QED
      BY <1>a, <3>1, <3>2, <3>3 DEF LastTurnInv, OneLastTurn, TypeOK
  <2>3. CASE FlowStarts(s)
    BY <1>b, <2>3, <2>a DEF FlowStarts, TypeOK, Runs, taskVars
  <2>4. CASE RunBreaks(s)
    BY <1>b, <2>4, <2>a DEF RunBreaks, TypeOK, Free
  <2>5. CASE ExecutionFails(s)
    BY <1>b, <2>5, <2>a DEF ExecutionFails, TypeOK, Runs
  <2>6. ASSUME NEW status \in KnownStatuses, ExecutionEnds(s, status)
        PROVE  LastTurnInv'
    BY <1>b, <2>6, <2>a DEF ExecutionEnds, TypeOK, Runs
  <2>7. CASE SaveConversation(s)
    <3> DEFINE t == run[s].task
    <3>1. /\ t \in Tasks /\ state[t] # "absent"
          /\ \A u \in Tasks : isLast'[u] = IF context[u] = context[t]
                                            THEN u = t ELSE isLast[u]
          /\ context' = context
      BY <2>7, <2>a DEF SaveConversation, LastTurnInv
    <3>2. \A r \in Slots : run'[r].phase # "free"
             => run[r].phase # "free" /\ run'[r].task = run[r].task
      BY <2>7, <2>a DEF SaveConversation, TypeOK, Runs
    <3>3. \A u \in Tasks : isLast'[u] => state'[u] # "absent"
      BY <1>a, <3>1 DEF LastTurnInv
    <3>4. OneLastTurn'
      BY <3>1 DEF LastTurnInv, OneLastTurn
    <3>5. QED
      BY <1>a, <3>2, <3>3, <3>4 DEF LastTurnInv, TypeOK
  <2>8. CASE Notify(s)
    BY <1>b, <2>8, <2>a DEF Notify, TypeOK, Free, taskVars
  <2>9. QED
    BY <1>2, <2>1, <2>2, <2>3, <2>4, <2>5, <2>6, <2>7, <2>8 DEF Worker
<1>3. CASE Restart
  BY <1>b, <1>3 DEF Restart, Free, taskVars
<1>4. CASE UNCHANGED <<context, isLast, run>>
  BY <1>b, <1>4
<1>5. QED
  BY <1>1, <1>2, <1>3, <1>4
     DEF Next, vars, taskVars, StartWaiting, AnswerBlocked, TimeOutBlocked, CancelTask

\* A context has at most one last turn, whatever runs concurrently and whenever
\* the server restarts: load_latest_task does not raise its internal error.
THEOREM LastTurnIsUnique == Spec => []OneLastTurn
<1>1. LastTurnInv => OneLastTurn
  BY DEF LastTurnInv
<1>2. QED
  BY InitType, StepType, InitOperations, StepOperations, InitLastTurn,
     StepLastTurn, <1>1, PTL DEF Spec

-----------------------------------------------------------------------------
(* Without cancellation, an operation in the broker is one of a submitted  *)
(* task, and a task is working exactly while it is worked on.              *)

SubmittedInv ==
    /\ cancels = {}
    /\ \A t \in Tasks : Operations(t) > 0 => state[t] = "submitted"
    /\ \A s \in Slots : run[s].phase \in {"starting", "executing"}
                          => state[run[s].task] = "working"
    /\ \A s \in Slots : run[s].phase = "saving" =>
          /\ state[run[s].task] \in {"input-required", "completed"}
          /\ \A q \in Slots : run[q].phase = "saving" => q = s
    /\ \A t \in Tasks : state[t] = "absent" => turns[t] = 0

LEMMA InitSubmitted == Init => SubmittedInv
<1> SUFFICES ASSUME Init PROVE SubmittedInv
  OBVIOUS
<1>1. \A t \in Tasks : Operations(t) = 0
  BY DEF Init, Operations, Ways
<1>2. QED
  BY <1>1 DEF Init, SubmittedInv, Free

LEMMA StepSubmitted ==
    ASSUME Cancels = FALSE
    PROVE  TypeOK /\ OperationInv /\ SubmittedInv /\ [Next]_vars
              => SubmittedInv'
<1> SUFFICES ASSUME TypeOK, OperationInv, SubmittedInv, [Next]_vars
             PROVE  SubmittedInv'
  OBVIOUS
<1>a. \A t \in Tasks : Operations(t) \in Nat
  BY OperationsType DEF TypeOK
<1>b. \A t \in Tasks : state'[t] = "absent" => state[t] = "absent"
  BY StatesAreKept
<1>1. CASE Send
  <2>1. PICK t \in Tasks :
           /\ LoopIsFree /\ state[t] \in Accepting
           /\ state' = [state EXCEPT ![t] = "submitted"]
           /\ \A u \in Tasks : Operations(u)' =
                 IF u = t THEN Operations(u) + 1 ELSE Operations(u)
           /\ run' = run /\ cancels' = cancels
    BY <1>1, SendEffect
  <2>2. \A u \in Tasks : state'[u] = IF u = t THEN "submitted" ELSE state[u]
    BY <2>1 DEF TypeOK
  <2>3. \A s \in Slots : run'[s].phase \in {"starting", "executing"}
                          => state'[run'[s].task] = "working"
    BY <2>1, <2>2 DEF SubmittedInv, TypeOK, Accepting
  <2>6. \A s \in Slots : run'[s].phase # "saving"
    BY <2>1 DEF LoopIsFree
  <2>4. \A u \in Tasks : state'[u] = "absent" => turns'[u] = 0
    <3>1. ASSUME NEW c \in Clients, NEW v \in Tasks, NEW b \in Blocks,
                 SendToTask(c, v, b)
          PROVE  \A u \in Tasks : state'[u] = "absent" => turns'[u] = 0
      BY <3>1 DEF SendToTask, SubmittedInv, TypeOK
    <3>2. ASSUME NEW c \in Clients, NEW v \in Tasks, NEW b \in Blocks,
                 NEW x \in Contexts, SendNewTask(c, v, x, b)
          PROVE  \A u \in Tasks : state'[u] = "absent" => turns'[u] = 0
      BY <3>2 DEF SendNewTask, SubmittedInv, TypeOK
    <3>3. QED
      BY <1>1, <3>1, <3>2 DEF Send
  <2>5. QED
    BY <2>1, <2>2, <2>3, <2>4, <2>6 DEF SubmittedInv
<1>2. ASSUME NEW s \in Slots, Worker(s) PROVE SubmittedInv'
  <2>a. run[s] \in Runs /\ (run[s].phase # "free" => run[s].task \in Tasks)
    BY DEF TypeOK
  <2>b. ASSUME queued' = queued, cancels' = cancels, turns' = turns,
               \A q \in Slots : q # s => run'[q] = run[q],
               run'[s].phase \notin {"starting", "executing"},
               \A t \in Tasks : \/ state'[t] = state[t]
                               \/ Working(s, t),
               run'[s].phase = "saving" =>
                  /\ LoopIsFree
                  /\ state'[run'[s].task] \in {"input-required", "completed"}
        PROVE  SubmittedInv'
    <3>1. \A t \in Tasks : Operations(t)' = Operations(t)
      BY <2>b DEF Operations
    <3>2. \A t \in Tasks : Operations(t) > 0 => ~Working(s, t)
      BY DEF OperationInv, OneOperationPerTask
    <3>3. ASSUME NEW q \in Slots, run'[q].phase \in {"starting", "executing"}
          PROVE  state'[run'[q].task] = "working"
      <4>1. q # s /\ run'[q] = run[q] /\ run[q].task \in Tasks
        BY <2>b, <3>3 DEF TypeOK
      <4>2. Working(q, run[q].task)
        BY <3>3, <4>1 DEF Working
      <4>3. QED
        BY <2>b, <3>3, <4>1, <4>2
           DEF SubmittedInv, OperationInv, OneOperationPerTask
    <3>5. ASSUME NEW q \in Slots, run'[q].phase = "saving"
          PROVE  /\ state'[run'[q].task] \in {"input-required", "completed"}
                 /\ \A p \in Slots : run'[p].phase = "saving" => p = q
      <4>1. CASE q = s
        BY <2>b, <3>5, <4>1 DEF LoopIsFree
      <4>2. CASE q # s
        <5>1. run'[q] = run[q] /\ run[q].task \in Tasks /\ Working(q, run[q].task)
          BY <2>b, <3>5, <4>2 DEF TypeOK, Working
        <5>2. ~Working(s, run[q].task)
          BY <4>2, <5>1 DEF OperationInv, OneOperationPerTask
        <5>3. run'[s].phase # "saving"
          BY <2>b, <3>5, <5>1 DEF LoopIsFree
        <5>4. QED
          BY <2>b, <3>5, <4>2, <5>1, <5>2, <5>3 DEF SubmittedInv
      <4>3. QED
        BY <4>1, <4>2
    <3>4. QED
      BY <1>b, <2>b, <3>1, <3>2, <3>3, <3>5 DEF SubmittedInv
  <2>1. ASSUME NEW t \in Tasks, CancelRaises(s, t) PROVE SubmittedInv'
    BY <2>1 DEF CancelRaises, SubmittedInv
  <2>2. ASSUME NEW t \in Tasks, NEW w \in Ways, StartRun(s, t, w)
        PROVE  SubmittedInv'
    <3>1. /\ \A u \in Tasks : Operations(u)' =
                IF u = t THEN Operations(u) - 1 ELSE Operations(u)
          /\ Operations(t) > 0
      BY <2>2, DequeueLemma, OperationsType DEF StartRun, TypeOK
    <3>2. Operations(t) = 1 /\ \A q \in Slots : ~Working(q, t)
      BY <1>a, <3>1 DEF OperationInv, OneOperationPerTask
    <3>3. state[t] = "submitted"
      BY <3>1 DEF SubmittedInv
    <3>4. \A u \in Tasks : state'[u] = IF u = t THEN "working" ELSE state[u]
      BY <2>2, <3>3 DEF StartRun, TypeOK
    <3>5. \A q \in Slots : \/ run'[q] = run[q]
                           \/ run'[q].task = t
      BY <2>2 DEF StartRun, TypeOK
    <3>6. \A q \in Slots : run'[q].phase \in {"starting", "executing"}
                             => state'[run'[q].task] = "working"
      BY <3>4, <3>5 DEF SubmittedInv, TypeOK
    <3>7. cancels' = cancels /\ turns' = turns
      BY <2>2 DEF StartRun
    <3>9. ASSUME NEW q \in Slots PROVE run'[q].phase # "saving"
      <4>1. run[q].phase # "saving"
        BY <2>2 DEF StartRun, LoopIsFree
      <4>2. q # s => run'[q] = run[q]
        BY <2>2 DEF StartRun, TypeOK
      <4>3. run'[s].phase # "saving"
        BY <2>2, <2>a DEF StartRun, TypeOK
      <4>4. QED
        BY <4>1, <4>2, <4>3
    <3>8. QED
      BY <1>a, <3>1, <3>2, <3>4, <3>6, <3>7, <3>9 DEF SubmittedInv
  <2>3. CASE FlowStarts(s)
    <3>1. /\ queued' = queued /\ cancels' = cancels /\ turns' = turns
          /\ state' = state
      BY <2>3 DEF FlowStarts, taskVars, brokerVars
    <3>2. \A q \in Slots : run'[q].phase \in {"starting", "executing"}
             => /\ run[q].phase \in {"starting", "executing"}
                /\ run'[q].task = run[q].task
      BY <2>3, <2>a DEF FlowStarts, TypeOK, Runs
    <3>4. ASSUME NEW q \in Slots PROVE run'[q].phase # "saving"
      <4>1. run[q].phase # "saving"
        BY <2>3 DEF FlowStarts, LoopIsFree
      <4>2. q # s => run'[q] = run[q]
        BY <2>3 DEF FlowStarts, TypeOK
      <4>3. run'[s].phase = "executing"
        BY <2>3, <2>a DEF FlowStarts, TypeOK, Runs
      <4>4. QED
        BY <4>1, <4>2, <4>3
    <3>3. QED
      BY <3>1, <3>2, <3>4 DEF SubmittedInv, Operations
  <2>4. CASE RunBreaks(s)
    <3>1. Working(s, run[s].task)
      BY <2>4 DEF RunBreaks, Working
    <3>2. \A u \in Tasks : state'[u] = state[u] \/ Working(s, u)
      BY <2>a, <2>4, <3>1, RaisesLemma DEF RunBreaks, TypeOK
    <3>3. QED
      BY <2>4, <2>b, <3>2 DEF RunBreaks, Free, TypeOK, brokerVars
  <2>5. CASE ExecutionFails(s)
    <3>1. Working(s, run[s].task)
      BY <2>5 DEF ExecutionFails, Working
    <3>2. \A u \in Tasks : state'[u] = state[u] \/ Working(s, u)
      BY <2>a, <2>5, <3>1 DEF ExecutionFails, TypeOK
    <3>3. QED
      BY <2>a, <2>5, <2>b, <3>2 DEF ExecutionFails, TypeOK, Runs, brokerVars
  <2>6. ASSUME NEW status \in KnownStatuses, ExecutionEnds(s, status)
        PROVE  SubmittedInv'
    <3>1. Working(s, run[s].task)
      BY <2>6 DEF ExecutionEnds, Working
    <3>2. \A u \in Tasks : state'[u] = state[u] \/ Working(s, u)
      BY <2>a, <2>6, <3>1 DEF ExecutionEnds, TypeOK
    <3>4. run'[s].task = run[s].task
      BY <2>a, <2>6 DEF ExecutionEnds, TypeOK, Runs
    <3>5. state'[run'[s].task] \in {"input-required", "completed"}
      BY <2>a, <2>6, <3>4 DEF ExecutionEnds, TypeOK
    <3>3. QED
      BY <2>a, <2>6, <2>b, <3>2, <3>5 DEF ExecutionEnds, TypeOK, Runs, brokerVars
  <2>7. CASE SaveConversation(s)
    BY <2>a, <2>7, <2>b DEF SaveConversation, TypeOK, Runs, brokerVars
  <2>8. CASE Notify(s)
    BY <2>8, <2>b DEF Notify, TypeOK, Free, taskVars, brokerVars
  <2>9. QED
    BY <1>2, <2>1, <2>2, <2>3, <2>4, <2>5, <2>6, <2>7, <2>8 DEF Worker
<1>3. CASE Restart
  <2>1. \A t \in Tasks : Operations(t)' = 0
    BY <1>3 DEF Restart, Operations, Ways
  <2>2. QED
    BY <1>3, <2>1 DEF Restart, Free, SubmittedInv, taskVars
<1>4. CASE UNCHANGED <<state, turns, queued, cancels, run>>
  BY <1>4 DEF SubmittedInv, Operations
<1>5. QED
  BY <1>1, <1>2, <1>3, <1>4
     DEF Next, vars, taskVars, brokerVars, StartWaiting, AnswerBlocked, TimeOutBlocked,
         CancelTask

-----------------------------------------------------------------------------
(* The server implements A2ATasks.                                         *)

\* While no run is being saved, an assignment to the state of a task is one to its
\* phase.
LEMMA PhaseFollows ==
    ASSUME NEW t \in Tasks, NEW s \in TaskStates, TypeOK, LoopIsFree, LoopIsFree',
           state' = [state EXCEPT ![t] = s]
    PROVE  /\ Phase[t] = PhaseOf(state[t])
           /\ Phase' = [Phase EXCEPT ![t] = PhaseOf(s)]
  BY DEF Phase, BeingSaved, LoopIsFree, TypeOK

LEMMA StepRefines ==
    ASSUME Cancels = FALSE
    PROVE  TypeOK /\ SubmittedInv /\ [Next]_vars
              => [Abstract!TasksNext]_<<Phase, turns>>
<1> SUFFICES ASSUME TypeOK, SubmittedInv, [Next]_vars
             PROVE  [Abstract!TasksNext]_<<Phase, turns>>
  OBVIOUS
<1>a. ASSUME NEW t \in Tasks, state[t] \in {"absent", "input-required"},
             turns[t] < MaxTurns, LoopIsFree, LoopIsFree',
             state' = [state EXCEPT ![t] = "submitted"],
             turns' = [turns EXCEPT ![t] = @ + 1]
      PROVE  Abstract!Accept(t)
  <2>1. /\ Phase[t] = PhaseOf(state[t])
        /\ Phase' = [Phase EXCEPT ![t] = PhaseOf("submitted")]
    BY <1>a, PhaseFollows DEF TaskStates
  <2>2. QED
    BY <1>a, <2>1 DEF Abstract!Accept, PhaseOf
<1>b. ASSUME NEW t \in Tasks, state[t] = "submitted", LoopIsFree, LoopIsFree',
             state' = [state EXCEPT ![t] = "working"], UNCHANGED turns
      PROVE  Abstract!Work(t)
  <2>1. /\ Phase[t] = PhaseOf(state[t])
        /\ Phase' = [Phase EXCEPT ![t] = PhaseOf("working")]
    BY <1>b, PhaseFollows DEF TaskStates
  <2>2. QED
    BY <1>b, <2>1 DEF Abstract!Work, PhaseOf
<1>c. ASSUME NEW t \in Tasks, NEW s \in {"input-required", "completed", "failed"},
             state[t] = "working", state' = [state EXCEPT ![t] = s],
             LoopIsFree, LoopIsFree', UNCHANGED turns
      PROVE  Abstract!Settle(t)
  <2>1. /\ Phase[t] = PhaseOf(state[t])
        /\ Phase' = [Phase EXCEPT ![t] = PhaseOf(s)]
    BY <1>c, PhaseFollows DEF TaskStates
  <2>2. PhaseOf(s) \in {"input-required", "closed"}
    BY DEF PhaseOf
  <2>3. QED
    BY <1>c, <2>1, <2>2 DEF Abstract!Settle, PhaseOf
<1>d. ASSUME UNCHANGED <<state, turns>>, \A t \in Tasks : BeingSaved(t)' = BeingSaved(t)
      PROVE  UNCHANGED <<Phase, turns>>
  BY <1>d DEF Phase
<1>e. ASSUME UNCHANGED <<state, turns>>, LoopIsFree, LoopIsFree'
      PROVE  UNCHANGED <<Phase, turns>>
  BY <1>d, <1>e DEF BeingSaved, LoopIsFree
<1>f. ASSUME NEW s \in Slots, run[s].phase = "saving", UNCHANGED turns, LoopIsFree',
             Raises(run[s].task)
      PROVE  Abstract!Settle(run[s].task)
  <2> DEFINE t == run[s].task
  <2>1. t \in Tasks /\ state[t] \in {"input-required", "completed"}
    BY <1>f DEF TypeOK, SubmittedInv
  <2>2. \A u \in Tasks : BeingSaved(u) <=> u = t
    BY <1>f, <2>1 DEF BeingSaved, SubmittedInv
  <2>3. \A u \in Tasks : ~BeingSaved(u)'
    BY <1>f DEF BeingSaved, LoopIsFree
  <2>4. /\ \A u \in Tasks \ {t} : state'[u] = state[u]
        /\ state'[t] \in {"input-required", "completed", "failed"}
    BY <1>f, <2>1 DEF Raises, TypeOK
  <2>5. Phase[t] = "working"
    BY <2>1, <2>2 DEF Phase
  <2>6. Phase' = [Phase EXCEPT ![t] = PhaseOf(state'[t])]
    BY <2>1, <2>2, <2>3, <2>4 DEF Phase
  <2>7. PhaseOf(state'[t]) \in {"input-required", "closed"}
    BY <2>4 DEF PhaseOf
  <2>8. QED
    BY <1>f, <2>5, <2>6, <2>7 DEF Abstract!Settle
<1>1. CASE Send
  <2>1. PICK c \in Clients, t \in Tasks, b \in Blocks :
           \/ SendToTask(c, t, b)
           \/ \E x \in Contexts : SendNewTask(c, t, x, b)
    BY <1>1 DEF Send
  <2>a. LoopIsFree /\ LoopIsFree'
    BY <2>1 DEF SendToTask, SendNewTask, LoopIsFree
  <2>2. CASE SendToTask(c, t, b)
    <3>1. Abstract!Accept(t)
      BY <1>a, <2>2, <2>a DEF SendToTask
    <3>2. QED
      BY <3>1 DEF Abstract!TasksNext
  <2>3. CASE \E x \in Contexts : SendNewTask(c, t, x, b)
    <3>1. /\ state[t] = "absent" /\ turns[t] = 0 /\ turns[t] < MaxTurns
          /\ state' = [state EXCEPT ![t] = "submitted"]
          /\ turns' = [turns EXCEPT ![t] = 1]
      BY <2>3 DEF SendNewTask, SubmittedInv
    <3>2. turns' = [turns EXCEPT ![t] = @ + 1]
      BY <3>1
    <3>3. Abstract!Accept(t)
      BY <1>a, <2>a, <3>1, <3>2
    <3>4. QED
      BY <3>3 DEF Abstract!TasksNext
  <2>4. QED
    BY <2>1, <2>2, <2>3
<1>2. ASSUME NEW s \in Slots, Worker(s)
      PROVE  [Abstract!TasksNext]_<<Phase, turns>>
  <2>a. run[s].phase # "free" => run[s].task \in Tasks
    BY DEF TypeOK
  <2>e. run[s] \in Runs
    BY DEF TypeOK
  <2>c. ASSUME LoopIsFree, run'[s].phase # "saving",
               \A q \in Slots \ {s} : run'[q] = run[q]
        PROVE  LoopIsFree'
    BY <2>c DEF LoopIsFree
  <2>d. ASSUME run[s].phase = "saving", run'[s].phase # "saving",
               \A q \in Slots \ {s} : run'[q] = run[q]
        PROVE  LoopIsFree'
    BY <2>d DEF LoopIsFree, SubmittedInv
  <2>b. ASSUME NEW t \in Tasks,
               Abstract!Work(t) \/ Abstract!Settle(t)
        PROVE  [Abstract!TasksNext]_<<Phase, turns>>
    BY <2>b DEF Abstract!TasksNext
  <2>1. ASSUME NEW t \in Tasks, CancelRaises(s, t)
        PROVE  [Abstract!TasksNext]_<<Phase, turns>>
    BY <2>1 DEF CancelRaises, SubmittedInv
  <2>2. ASSUME NEW t \in Tasks, NEW w \in Ways, StartRun(s, t, w)
        PROVE  [Abstract!TasksNext]_<<Phase, turns>>
    <3>1. state[t] = "submitted"
      BY <2>2, OperationsType DEF StartRun, TypeOK, SubmittedInv
    <3>4. LoopIsFree /\ \A q \in Slots \ {s} : run'[q] = run[q]
      BY <2>2 DEF StartRun, TypeOK
    <3>5. run'[s].phase # "saving"
      BY <2>2 DEF StartRun, TypeOK
    <3>2. LoopIsFree /\ LoopIsFree'
      BY <2>c, <3>4, <3>5
    <3>3. QED
      BY <1>b, <2>b, <2>2, <3>1, <3>2 DEF StartRun
  <2>3. CASE FlowStarts(s) \/ Notify(s)
    <3>1. LoopIsFree /\ \A q \in Slots \ {s} : run'[q] = run[q]
      BY <2>3 DEF FlowStarts, Notify, TypeOK
    <3>3. ASSUME FlowStarts(s) PROVE LoopIsFree'
      BY <2>c, <2>e, <3>1, <3>3 DEF FlowStarts, TypeOK, Runs
    <3>4. ASSUME Notify(s) PROVE LoopIsFree'
      BY <2>c, <3>1, <3>4 DEF Notify, Free, TypeOK
    <3>5. LoopIsFree'
      BY <2>3, <3>3, <3>4
    <3>2. QED
      BY <1>e, <2>3, <3>1, <3>5 DEF FlowStarts, Notify, taskVars
  <2>8. CASE SaveConversation(s)
    <3>1. LoopIsFree'
      BY <2>8, <2>d, <2>e DEF SaveConversation, TypeOK, Runs
    <3>2. QED
      BY <1>f, <2>a, <2>b, <2>8, <3>1 DEF SaveConversation, Raises
  <2>4. CASE RunBreaks(s)
    <3>1. CASE run[s].phase = "saving"
      <4>1. LoopIsFree'
        BY <2>4, <2>d, <3>1 DEF RunBreaks, Free, TypeOK
      <4>2. QED
        BY <1>f, <2>a, <2>b, <2>4, <3>1, <4>1 DEF RunBreaks
    <3>2. CASE run[s].phase # "saving"
      <4>1. LoopIsFree /\ LoopIsFree'
        BY <2>4, <2>c, <3>2 DEF RunBreaks, Free, TypeOK
      <4>2. QED
        BY <1>c, <1>e, <2>a, <2>b, <2>4, <3>2, <4>1 DEF RunBreaks, Raises, SubmittedInv
    <3>3. QED
      BY <3>1, <3>2
  <2>5. CASE ExecutionFails(s)
    <3>1. LoopIsFree /\ LoopIsFree'
      BY <2>5, <2>c DEF ExecutionFails
    <3>2. QED
      BY <1>c, <2>a, <2>b, <2>5, <3>1 DEF ExecutionFails, SubmittedInv
  <2>6. ASSUME NEW status \in KnownStatuses, ExecutionEnds(s, status)
        PROVE  [Abstract!TasksNext]_<<Phase, turns>>
    <3> DEFINE t == run[s].task
    <3>1. /\ LoopIsFree /\ state[t] = "working" /\ turns' = turns
          /\ \A u \in Tasks \ {t} : state'[u] = state[u]
          /\ t \in Tasks
      BY <2>a, <2>6 DEF ExecutionEnds, SubmittedInv, TypeOK
    <3>2. /\ run'[s].phase = "saving" /\ run'[s].task = t
          /\ \A q \in Slots \ {s} : run'[q] = run[q]
      BY <2>6 DEF ExecutionEnds, TypeOK, Runs
    <3>3. \A u \in Tasks : BeingSaved(u)' <=> u = t
      BY <3>1, <3>2 DEF BeingSaved, LoopIsFree
    <3>4. \A u \in Tasks : ~BeingSaved(u)
      BY <3>1 DEF BeingSaved, LoopIsFree
    <3>5. Phase' = Phase
      BY <3>1, <3>3, <3>4 DEF Phase, PhaseOf
    <3>6. QED
      BY <3>1, <3>5
  <2>7. QED
    BY <1>2, <2>1, <2>2, <2>3, <2>4, <2>5, <2>6, <2>8 DEF Worker
<1>3. CASE UNCHANGED <<state, turns, run>>
  <2>1. \A t \in Tasks : BeingSaved(t)' = BeingSaved(t)
    BY <1>3 DEF BeingSaved
  <2>2. QED
    BY <1>d, <1>3, <2>1
<1>4. CASE Restart
  <2>1. LoopIsFree' /\ UNCHANGED <<state, turns>>
    BY <1>4 DEF Restart, LoopIsFree, Free, taskVars
  <2>2. CASE LoopIsFree
    BY <1>e, <2>1, <2>2
  <2>3. ASSUME NEW s \in Slots, run[s].phase = "saving"
        PROVE  Abstract!TasksNext
    <3>1. run[s].task \in Tasks
      BY <2>3 DEF TypeOK
    <3>2. QED
      BY <1>f, <2>1, <2>3, <3>1 DEF Raises, Abstract!TasksNext
  <2>4. QED
    BY <2>2, <2>3 DEF LoopIsFree
<1>5. QED
  BY <1>1, <1>2, <1>3, <1>4
     DEF Next, vars, taskVars, StartWaiting, AnswerBlocked, TimeOutBlocked, CancelTask

\* Without tasks/cancel requests, and with exceptions and restarts anywhere, the
\* server implements A2ATasks.
THEOREM ServerImplementsTasks ==
    ASSUME Cancels = FALSE
    PROVE  Spec => ImplementsTasks
<1>1. Init => Abstract!TasksInit
  BY DEF Init, Abstract!TasksInit, Phase, PhaseOf, BeingSaved, Free
<1>2. QED
  BY InitType, StepType, InitOperations, StepOperations, InitSubmitted,
     StepSubmitted, StepRefines, <1>1, PTL
     DEF Spec, ImplementsTasks, Abstract!TasksSpec

-----------------------------------------------------------------------------
(* No lost wakeup.                                                         *)

LEMMA StepWakeup ==
    ASSUME Unguarded = FALSE, Cancels = FALSE
    PROVE  TypeOK /\ SubmittedInv /\ NoLostWakeup /\ [Next]_vars
              => NoLostWakeup'
<1> SUFFICES ASSUME TypeOK, SubmittedInv, NoLostWakeup, [Next]_vars
             PROVE  NoLostWakeup'
  OBVIOUS
<1> DEFINE Served(t) == \/ event[t]
                        \/ Operations(t) > 0
                        \/ \E s \in Slots : run[s].phase # "free"
                                             /\ run[s].task = t
<1>a. \A t \in Tasks : Operations(t) \in Nat
  BY OperationsType DEF TypeOK
<1>b. \A c \in Clients : client[c].waits # NoTask => Served(client[c].waits)
  BY DEF NoLostWakeup
<1>c. \A c \in Clients : client[c].waits \in Tasks \cup {NoTask}
  BY DEF TypeOK, Requests
<1>d. ASSUME \A t \in Tasks : Served(t) => Served(t)',
             \A c \in Clients : client'[c].waits # NoTask
                => client'[c].waits = client[c].waits
      PROVE  NoLostWakeup'
  BY <1>b, <1>c, <1>d DEF NoLostWakeup
<1>1. CASE Send
  <2>1. PICK t \in Tasks, c \in Clients :
           /\ \A u \in Tasks : Operations(u)' =
                 IF u = t THEN Operations(u) + 1 ELSE Operations(u)
           /\ client'[c].waits \in {t, NoTask}
           /\ \A d \in Clients : d # c => client'[d] = client[d]
           /\ run' = run /\ event' = event
    BY <1>1, SendEffect
  <2>2. \A u \in Tasks : Served(u) => Served(u)'
    BY <1>a, <2>1
  <2>3. Served(t)'
    BY <1>a, <2>1
  <2>4. QED
    BY <1>b, <1>c, <2>1, <2>2, <2>3 DEF NoLostWakeup
<1>2. ASSUME NEW s \in Slots, Worker(s) PROVE NoLostWakeup'
  <2>a. run[s] \in Runs /\ (run[s].phase # "free" => run[s].task \in Tasks)
    BY DEF TypeOK
  <2>b. ASSUME queued' = queued, client' = client, event' = event,
               \A q \in Slots : run[q].phase # "free"
                  => run'[q].phase # "free" /\ run'[q].task = run[q].task
        PROVE  NoLostWakeup'
    BY <1>d, <2>b DEF Operations
  <2>1. ASSUME NEW t \in Tasks, CancelRaises(s, t) PROVE NoLostWakeup'
    BY <2>1, <2>b DEF CancelRaises
  <2>2. ASSUME NEW t \in Tasks, NEW w \in Ways, StartRun(s, t, w)
        PROVE  NoLostWakeup'
    <3>1. /\ \A u \in Tasks : Operations(u)' =
                IF u = t THEN Operations(u) - 1 ELSE Operations(u)
          /\ Operations(t) > 0
      BY <2>2, DequeueLemma, OperationsType DEF StartRun, TypeOK
    <3>2. state[t] = "submitted"
      BY <3>1 DEF SubmittedInv
    <3>3. /\ run'[s].phase # "free" /\ run'[s].task = t
          /\ run[s].phase = "free"
          /\ \A q \in Slots : q # s => run'[q] = run[q]
      BY <2>2, <3>2 DEF StartRun, TypeOK
    <3>4. event' = event /\ client' = client
      BY <2>2 DEF StartRun
    <3>5. \A u \in Tasks : Served(u) => Served(u)'
      BY <3>1, <3>3, <3>4
    <3>6. QED
      BY <1>d, <3>4, <3>5
  <2>3. CASE FlowStarts(s)
    BY <2>3, <2>a, <2>b DEF FlowStarts, TypeOK, Runs, brokerVars
  <2>4. CASE RunBreaks(s)
    BY <2>4 DEF RunBreaks
  <2>5. CASE ExecutionFails(s)
    BY <2>5, <2>a, <2>b DEF ExecutionFails, TypeOK, Runs, brokerVars
  <2>6. ASSUME NEW status \in KnownStatuses, ExecutionEnds(s, status)
        PROVE  NoLostWakeup'
    BY <2>6, <2>a, <2>b DEF ExecutionEnds, TypeOK, Runs, brokerVars
  <2>7. CASE SaveConversation(s)
    BY <2>7, <2>a, <2>b DEF SaveConversation, TypeOK, Runs, brokerVars
  <2>8. CASE Notify(s)
    <3>1. /\ run[s].task \in Tasks /\ queued' = queued /\ client' = client
          /\ \A u \in Tasks : event'[u] = (u = run[s].task \/ event[u])
          /\ \A q \in Slots : q # s => run'[q] = run[q]
      BY <2>8, <2>a DEF Notify, TypeOK, brokerVars
    <3>2. \A u \in Tasks : Operations(u)' = Operations(u)
      BY <3>1 DEF Operations
    <3>3. \A u \in Tasks : Served(u) => Served(u)'
      BY <3>1, <3>2
    <3>4. QED
      BY <1>d, <3>1, <3>3
  <2>9. QED
    BY <1>2, <2>1, <2>2, <2>3, <2>4, <2>5, <2>6, <2>7, <2>8 DEF Worker
<1>3. CASE Restart
  BY <1>3 DEF Restart, Idle, NoLostWakeup
<1>4. CASE \E c \in Clients : StartWaiting(c) \/ AnswerBlocked(c)
                               \/ TimeOutBlocked(c)
  <2>1. queued' = queued /\ run' = run /\ event' = event
    BY <1>4 DEF StartWaiting, AnswerBlocked, TimeOutBlocked, brokerVars
  <2>2. \A c \in Clients : client'[c].waits # NoTask
           => client'[c].waits = client[c].waits
    BY <1>4 DEF StartWaiting, AnswerBlocked, TimeOutBlocked, Idle, TypeOK, Requests
  <2>3. QED
    BY <1>d, <2>1, <2>2 DEF Operations
<1>5. CASE UNCHANGED <<queued, run, event, client>>
  BY <1>5 DEF NoLostWakeup, Operations
<1>6. QED
  BY <1>1, <1>2, <1>3, <1>4, <1>5 DEF Next, vars, brokerVars, CancelTask

\* Where runs raise only inside their try statement and nobody cancels, a
\* blocking request is never left waiting for a notification that was already
\* given or that will not come.
THEOREM WakeupsAreKept ==
    ASSUME Unguarded = FALSE, Cancels = FALSE
    PROVE  Spec => []NoLostWakeup
<1>1. Init => NoLostWakeup
  BY DEF Init, Idle, NoLostWakeup
<1>2. QED
  BY InitType, StepType, InitOperations, StepOperations, InitSubmitted,
     StepSubmitted, StepWakeup, <1>1, PTL DEF Spec

=============================================================================

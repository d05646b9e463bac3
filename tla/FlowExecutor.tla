---------------------------- MODULE FlowExecutor ----------------------------
(***************************************************************************)
(* FlowConversationExecutor and the steps that keep state of their own or  *)
(* run a sub-flow: nested flow conversations that yield, are interrupted,  *)
(* raise and are resumed.                                                  *)
(*                                                                         *)
(* Every sub-flow belongs to one step, so its conversation is named by the *)
(* flow.  All of them share one message list, of which the module keeps    *)
(* the type of the last message and the number of the last message of the  *)
(* user.  Values passed along data-flow edges are left out: a step that    *)
(* only computes them takes any of its branches.                           *)
(***************************************************************************)
EXTENDS Naturals, Sequences, FiniteSets

CONSTANTS
    Flows, Top,   \* the flows; the one the caller executes
    Steps, None,
    FlowOf,       \* the flow of each step
    Begin,        \* begin_step of each flow
    Kind,         \* what each step does
    Inner,        \* sub-flow of a step, or None
    Above,        \* the flows around each flow, itself included
    Edges,        \* control-flow edges <<source, branch, destination>>
    Branch,       \* branch_name of a complete step, or the step itself
    Silent,       \* input steps without a message_template
    Catches,      \* exceptions each catch step handles
    MaxTrials,    \* max_num_trials
    Interrupts,   \* execution interrupts are passed to execute
    Late,         \* they also fire when a flow has no step left
    MaxMessages   \* bound: messages the user writes

YieldingKinds == {"input", "client", "guarded"}
CompositeKinds == {"flow", "retry", "catch"}
Kinds == YieldingKinds \cup CompositeKinds \cup {"tool", "branching", "complete"}
\* "value": a ValueError about what the caller did or did not do; "internal":
\* one about the executor's own expectations.
Exceptions == {"tool", "value", "internal", "interrupt"}

\* RetryStep permits max_num_trials = 0, which it treats as 1: the first failure is
\* then the last in both cases (retrystep.py:308).
ASSUME FlowAssumption ==
    /\ Top \in Flows /\ None \notin Flows /\ None \notin Steps
    /\ FlowOf \in [Steps -> Flows]
    /\ Begin \in [Flows -> Steps] /\ \A f \in Flows : FlowOf[Begin[f]] = f
    /\ Kind \in [Steps -> Kinds]
    /\ Inner \in [Steps -> Flows \cup {None}]
    /\ \A s \in Steps : Inner[s] # None <=> Kind[s] \in CompositeKinds
    /\ \A s, t \in Steps : Inner[s] # None /\ Inner[s] = Inner[t] => s = t
    /\ Above \in [Flows -> SUBSET Flows] /\ Above[Top] = {Top}
    /\ \A s \in Steps : Inner[s] # None =>
          /\ Above[Inner[s]] = {Inner[s]} \cup Above[FlowOf[s]]
          /\ Inner[s] \notin Above[FlowOf[s]]
    /\ \A e \in Edges : /\ e[1] \in Steps /\ e[3] \in Steps \cup {None}
                        /\ e[3] # None => FlowOf[e[3]] = FlowOf[e[1]]
    /\ Catches \in [Steps -> SUBSET Exceptions]
    /\ MaxTrials \in Nat \ {0} /\ MaxMessages \in Nat \ {0}
    /\ Interrupts \in BOOLEAN /\ Late \in BOOLEAN

VARIABLES
    pc,        \* idle; enter; loop; return: a status; raise: an exception
    path,      \* the flows being executed, the innermost one last
    conv,      \* the conversation of each flow
    note,      \* what each step keeps: asked_user, TOOL_REQUEST
    trials,    \* retry_counter
    landed,    \* last_complete_step_name_executed of each execution
    ret, exc,  \* the status being returned, the exception being raised
    error,     \* how the last execute ended
    last,      \* type of the last message
    asker,     \* step whose request is the last message
    lastUser,  \* number of the last message of the user in the list
    written,   \* messages the user wrote
    since,     \* history: written when a step was reached or asked
    started,   \* history: sub-conversations since a step was reached
    reached    \* history: complete step each conversation came to

listVars == <<last, asker, lastUser>>
history == <<since, started, reached>>
vars == <<pc, path, conv, note, trials, landed, ret, exc, error, listVars,
          written, history>>

Deepest == path[Len(path)]
Here == conv[Deepest].step
Below(f) == {g \in Flows : f \in Above[g]}
MightYield(f) == \E s \in Steps :
                    FlowOf[s] \in Below(f) /\ Kind[s] \in YieldingKinds

\* The status object of a flow's conversation may be the one of a conversation
\* below it, its owner; None if no conversation holds that object as its own.
NoStatus == [type |-> "none", owner |-> None, req |-> None]
Status(t, f, s) == [type |-> t, owner |-> f, req |-> s]
NewConversation(f) == [step |-> Begin[f], alive |-> FALSE, status |-> NoStatus,
                       handled |-> FALSE, response |-> 0]

Init ==
    /\ pc = "idle" /\ path = <<>>
    /\ conv = [f \in Flows |-> [NewConversation(f) EXCEPT !.alive = (f = Top)]]
    /\ note = [s \in Steps |-> "none"] /\ trials = [s \in Steps |-> 0]
    /\ landed = [f \in Flows |-> None]
    /\ ret = NoStatus /\ exc = "none" /\ error = "none"
    /\ last = "none" /\ asker = None /\ lastUser = 0 /\ written = 0
    /\ since = [s \in Steps |-> 0] /\ started = [s \in Steps |-> 0]
    /\ reached = [f \in Flows |-> None]

-----------------------------------------------------------------------------
(* The caller, with the conversation of Top.                               *)

\* append_user_message.  The response to the question of a sub-flow stays in
\* the status object until that sub-flow is executed.
UserMessage ==
    /\ pc = "idle" /\ written < MaxMessages
    /\ written' = written + 1
    /\ LET status == conv[Top].status
           elsewhere == status.type = "user" /\ status.owner # Top IN
       /\ status.type \in {"none", "user", "interrupted", "finished"}
       /\ conv' = [f \in Flows |->
             IF elsewhere /\ f = status.owner
             THEN [conv[f] EXCEPT !.response = written']
             ELSE IF f = Top /\ status.type = "user"
             THEN [conv[f] EXCEPT !.handled = TRUE] ELSE conv[f]]
       /\ IF elsewhere THEN UNCHANGED listVars
          ELSE last' = "user" /\ lastUser' = written' /\ asker' = None
    /\ UNCHANGED <<pc, path, note, trials, landed, ret, exc, error, history>>

\* status.submit_tool_result
SubmitToolResult ==
    /\ pc = "idle" /\ conv[Top].status.type = "tool"
    /\ LET f == conv[Top].status.owner IN
       /\ f # None /\ conv[f].response = 0
       /\ conv' = [conv EXCEPT ![f].response = 1]
    /\ UNCHANGED <<pc, path, note, trials, landed, ret, exc, error, listVars,
                   written, history>>

\* confirm_tool_execution and reject_tool_execution
DecideConfirmation ==
    /\ pc = "idle" /\ conv[Top].status.type = "confirm"
    /\ LET s == conv[Top].status.req IN
       /\ note[s] # "none"
       /\ \E d \in {"confirmed", "rejected"} : note' = [note EXCEPT ![s] = d]
    /\ UNCHANGED <<pc, path, conv, trials, landed, ret, exc, error, listVars,
                   written, history>>

Execute ==
    /\ pc = "idle"
    /\ pc' = "enter" /\ path' = <<Top>> /\ error' = "none"
    /\ UNCHANGED <<conv, note, trials, landed, ret, exc, listVars, written,
                   history>>

-----------------------------------------------------------------------------
(* Execution of a conversation.                                            *)

ReturnWith(s) == pc' = "return" /\ ret' = s /\ exc' = exc
Raise(e) == pc' = "raise" /\ exc' = e /\ ret' = ret

\* Conversation.execute_async up to the loop of the executor: a status of this
\* conversation that was not handled is turned into messages.
Enter ==
    /\ pc = "enter"
    /\ LET f == Deepest
           own == conv[f].status.owner = f /\ ~conv[f].handled
           type == IF own THEN conv[f].status.type ELSE "none"
           given == conv[f].response IN
       IF type = "tool" /\ given = 0
       THEN Raise("value") /\ UNCHANGED <<conv, note, landed, listVars>>
       ELSE /\ pc' = "loop" /\ UNCHANGED <<ret, exc>>
            /\ landed' = [landed EXCEPT ![f] = None]
            /\ conv' = [conv EXCEPT ![f].handled = @ \/ own,
                          ![f].response = IF type = "tool" THEN 0 ELSE @]
            /\ CASE type = "user" /\ given # 0 ->
                    /\ last' = "user" /\ lastUser' = given /\ asker' = None
                    /\ UNCHANGED note
                 [] type = "tool" ->
                    /\ last' = "result" /\ asker' = None /\ UNCHANGED lastUser
                    /\ note' = [s \in Steps |->
                          IF s = conv[f].status.req /\ note[s] = "open"
                          THEN "answered" ELSE note[s]]
                 [] OTHER -> UNCHANGED <<note, listVars>>
    /\ UNCHANGED <<path, trials, error, written, history>>

\* The flow has no step left.
Finish ==
    /\ pc = "loop" /\ Here = None
    /\ ReturnWith(Status("finished", Deepest, None))
    /\ UNCHANGED <<path, conv, note, trials, landed, error, listVars, written,
                   history>>

\* An interrupt raised from the event that starts the execution, an iteration
\* or a step, or ends an iteration; when no step is left, from the last iteration
\* or the event that ends the execution.
Interrupt ==
    /\ Interrupts /\ pc = "loop" /\ (Here # None \/ Late)
    /\ ReturnWith(Status("interrupted", Deepest, None))
    /\ UNCHANGED <<path, conv, note, trials, landed, error, listVars, written,
                   history>>

-----------------------------------------------------------------------------
(* Leaving a step and dropping a sub-conversation.                         *)

\* get_next_step_name_from_branch
Connected(s, b) == \/ \A e \in Edges : e[1] # s
                   \/ \E e \in Edges : e[1] = s /\ e[2] = b
\* Mutant: the source of the edge is not compared.
DestinationBug(s, b) ==
    IF \A e \in Edges : e[1] # s THEN None
    ELSE (CHOOSE e \in Edges : e[2] = b)[3]
Destination(s, b) ==
    IF \A e \in Edges : e[1] # s THEN None
    ELSE (CHOOSE e \in Edges : e[1] = s /\ e[2] = b)[3]

\* Step s is left by branch b; c are the conversations then, without those of
\* the flows in dropped.
Leave(s, b, c, dropped) ==
    LET arrived == {t \in Steps : \/ FlowOf[t] \in dropped
                                  \/ Connected(s, b) /\ t = Destination(s, b)}
    IN  /\ IF Connected(s, b)
           THEN /\ conv' = [c EXCEPT ![FlowOf[s]].step = Destination(s, b)]
                /\ pc' = "loop" /\ ret' = ret /\ exc' = "none"
           ELSE conv' = c /\ Raise("internal")
        /\ since' = [t \in Steps |-> IF t \in arrived THEN written ELSE since[t]]
        /\ started' = [t \in Steps |-> IF t \in arrived THEN 0 ELSE started[t]]

\* What is left of the other conversations' status objects when those of the
\* flows in F are dropped or replaced.
Detached(g, F) == IF conv[g].status.owner \in F
                  THEN [conv[g] EXCEPT !.status.owner = None] ELSE conv[g]
\* cleanup_sub_conversation
Without(f) == [g \in Flows |-> IF g \in Below(f) THEN NewConversation(g)
                                                ELSE Detached(g, Below(f))]
Forget(f) ==
    /\ note' = [s \in Steps |-> IF FlowOf[s] \in Below(f) THEN "none"
                                                         ELSE note[s]]
    /\ asker' = IF asker # None /\ FlowOf[asker] \in Below(f) THEN None
                                                             ELSE asker
    /\ reached' = [g \in Flows |-> IF g \in Below(f) THEN None ELSE reached[g]]
TrialsWithout(f) == [s \in Steps |-> IF FlowOf[s] \in Below(f) THEN 0
                                                              ELSE trials[s]]

-----------------------------------------------------------------------------
(* Steps.                                                                  *)

At(kinds) == pc = "loop" /\ Here # None /\ Kind[Here] \in kinds
\* Mutant: a step keeps its note when it is left.
PassBug(b) == Leave(Here, b, conv, {}) /\ UNCHANGED note
Pass(b) == /\ Leave(Here, b, conv, {})
           /\ note' = [note EXCEPT ![Here] = "none"]
Unasked == UNCHANGED <<conv, since, started>>

\* The status of a yield that does not bring its own: a tool request if the
\* last message is one, else a request to the user.
YieldStatus == IF last' = "request" THEN Status("tool", Deepest, asker')
                                    ELSE Status("user", Deepest, None)

\* InputMessageStep, first time
AskUser ==
    /\ At({"input"}) /\ note[Here] = "none"
    /\ note' = [note EXCEPT ![Here] = "asked"]
    /\ since' = [since EXCEPT ![Here] = written]
    /\ IF Here \in Silent THEN UNCHANGED listVars
       ELSE last' = "agent" /\ asker' = None /\ UNCHANGED lastUser
    /\ ReturnWith(YieldStatus)
    /\ UNCHANGED <<path, conv, trials, landed, error, written, started, reached>>

\* Mutant: whatever the last message is, it is the answer.
TakeAnswerBug ==
    /\ At({"input"}) /\ note[Here] = "asked" /\ Pass("next")
    /\ UNCHANGED <<path, trials, landed, error, listVars, written, reached>>

\* InputMessageStep, second time
TakeAnswer ==
    /\ At({"input"}) /\ note[Here] = "asked"
    /\ IF last = "user" THEN Pass("next")
       ELSE Raise("value") /\ Unasked /\ UNCHANGED note
    /\ UNCHANGED <<path, trials, landed, error, listVars, written, reached>>

\* ToolExecutionStep with a client tool.  A request without a result raises;
\* Enter already does when the result was not submitted.
RunClientTool ==
    /\ At({"client"})
    /\ CASE note[Here] = "none" ->
            /\ note' = [note EXCEPT ![Here] = "open"]
            /\ last' = "request" /\ asker' = Here /\ UNCHANGED lastUser
            /\ ReturnWith(YieldStatus) /\ Unasked
         [] note[Here] = "open" ->
            Raise("value") /\ Unasked /\ UNCHANGED <<note, listVars>>
         [] OTHER -> Pass("next") /\ UNCHANGED listVars
    /\ UNCHANGED <<path, trials, landed, error, written, reached>>

\* ToolExecutionStep with a server tool.  With raise_exceptions the exception
\* of the tool, or a rejection, is raised; it is the output otherwise.
RunTool ==
    /\ At({"tool", "guarded"})
    /\ Kind[Here] = "guarded" => note[Here] \in {"confirmed", "rejected"}
    /\ \/ Pass("next")
       \/ Raise(IF note[Here] = "rejected" THEN "value" ELSE "tool")
          /\ Unasked /\ UNCHANGED note
    /\ UNCHANGED <<path, trials, landed, error, listVars, written, reached>>

\* ToolExecutionStep with a tool that requires confirmation.
AskConfirmation ==
    /\ At({"guarded"}) /\ note[Here] \in {"none", "asked"}
    /\ IF note[Here] = "none"
       THEN /\ note' = [note EXCEPT ![Here] = "asked"]
            /\ ReturnWith(Status("confirm", Deepest, Here))
       ELSE Raise("value") /\ UNCHANGED note
    /\ Unasked
    /\ UNCHANGED <<path, trials, landed, error, listVars, written, reached>>

ChooseBranch ==
    /\ At({"branching"})
    /\ \E e \in Edges : e[1] = Here /\ Pass(e[2])
    /\ UNCHANGED <<path, trials, landed, error, listVars, written, reached>>

Complete ==
    /\ At({"complete"})
    /\ landed' = [landed EXCEPT ![Deepest] = Here]
    /\ reached' = [reached EXCEPT ![Deepest] = Here]
    /\ Pass("next")
    /\ UNCHANGED <<path, trials, error, listVars, written>>

\* A composite step gets or creates its sub-conversation and executes it.
EnterSub ==
    /\ At(CompositeKinds)
    /\ LET f == Inner[Here] IN
       /\ path' = Append(path, f) /\ pc' = "enter"
       /\ conv' = [conv EXCEPT ![f].alive = TRUE]
       /\ started' = [started EXCEPT ![Here] =
                         IF conv[f].alive \/ @ > MaxTrials THEN @ ELSE @ + 1]
    /\ UNCHANGED <<note, trials, landed, ret, exc, error, listVars, written,
                   since, reached>>

-----------------------------------------------------------------------------
(* What a composite step does with the end of its sub-flow.                *)

Caller == path[Len(path) - 1]
Outer == SubSeq(path, 1, Len(path) - 1)
Composite == conv[Caller].step

\* Mutant: status_handled is not reset.
SettledBug(f, s) ==
    [g \in Flows |-> IF g = f THEN [conv[f] EXCEPT !.status = s, !.response = 0]
                     ELSE Detached(g, {f})]

\* The new status of a conversation.
Settled(f, s) ==
    [g \in Flows |-> IF g = f THEN [conv[f] EXCEPT !.status = s,
                                       !.handled = FALSE, !.response = 0]
                     ELSE Detached(g, {f})]

ReturnToCaller ==
    /\ pc = "return" /\ Len(path) = 1
    /\ conv' = Settled(Top, ret)
    /\ pc' = "idle" /\ path' = <<>>
    /\ UNCHANGED <<note, trials, landed, ret, exc, error, listVars, written,
                   history>>

\* It yields or was interrupted: the status object is passed on, a request for
\* confirmation with the caller's id in it.  RetryStep takes an interrupt for a
\* yield, which the executor refuses if the step cannot yield.
StepYields ==
    /\ pc = "return" /\ Len(path) > 1 /\ ret.type # "finished"
    /\ LET passed == [ret EXCEPT !.owner = IF ret.type = "confirm" THEN Caller
                                                                  ELSE @] IN
       /\ conv' = Settled(Deepest, passed) /\ path' = Outer
       /\ IF /\ ret.type = "interrupted" /\ Kind[Composite] = "retry"
             /\ ~MightYield(Deepest)
          THEN Raise("internal") ELSE ReturnWith(passed)
    /\ UNCHANGED <<note, trials, landed, error, listVars, written, since,
                   started, reached>>

Ended(kinds) == /\ pc = "return" /\ Len(path) > 1 /\ ret.type = "finished"
                /\ Kind[Composite] \in kinds

\* Mutant: the branch is the name of the complete step.
SubFlowEndsBug ==
    /\ Ended({"flow", "catch"})
    /\ LET f == Deepest
           b == IF landed[f] = None THEN "next" ELSE landed[f] IN
       Leave(Composite, b, Without(f), Below(f)) /\ Forget(f)
       /\ trials' = TrialsWithout(f)
    /\ path' = Outer
    /\ UNCHANGED <<landed, error, last, lastUser, written>>

\* FlowExecutionStep and, around it, CatchExceptionStep
SubFlowEnds ==
    /\ Ended({"flow", "catch"})
    /\ LET f == Deepest
           b == IF landed[f] = None THEN "next" ELSE Branch[landed[f]] IN
       Leave(Composite, b, Without(f), Below(f)) /\ Forget(f)
       /\ trials' = TrialsWithout(f)
    /\ path' = Outer
    /\ UNCHANGED <<landed, error, last, lastUser, written>>

\* RetryStep: the branch is the name of the complete step.
TrialSucceeds ==
    /\ Ended({"retry"})
    /\ LET f == Deepest
           b == IF landed[f] = None THEN "next" ELSE landed[f] IN
       Leave(Composite, b, Without(f), Below(f)) /\ Forget(f)
       /\ trials' = [TrialsWithout(f) EXCEPT ![Composite] = 0]
    /\ path' = Outer
    /\ UNCHANGED <<landed, error, last, lastUser, written>>

\* The sub-flow is started again; the step is left by its failure branch.
TryAgain(f, p, count) ==
    /\ conv' = Without(f) /\ pc' = "loop"
    /\ trials' = [TrialsWithout(f) EXCEPT ![p] = count]
    /\ UNCHANGED <<ret, exc>>
    /\ since' = [s \in Steps |-> IF FlowOf[s] \in Below(f) THEN written
                                                           ELSE since[s]]
    /\ started' = [s \in Steps |-> IF FlowOf[s] \in Below(f) THEN 0
                                                             ELSE started[s]]
GiveUp(f, p) == /\ Leave(p, "failure", Without(f), Below(f))
                /\ trials' = [TrialsWithout(f) EXCEPT ![p] = 0]

\* Mutant: one trial more.
TrialFailsBug ==
    /\ Ended({"retry"})
    /\ LET f == Deepest  p == Composite IN
       /\ Forget(f)
       /\ IF trials[p] + 1 <= MaxTrials THEN TryAgain(f, p, trials[p] + 1)
                                        ELSE GiveUp(f, p)
    /\ path' = Outer
    /\ UNCHANGED <<landed, error, last, lastUser, written>>
\* Mutant: the trial is not counted.
TrialFailsUncounted ==
    /\ Ended({"retry"})
    /\ LET f == Deepest  p == Composite IN
       /\ Forget(f)
       /\ IF trials[p] + 1 < MaxTrials THEN TryAgain(f, p, trials[p])
                                       ELSE GiveUp(f, p)
    /\ path' = Outer
    /\ UNCHANGED <<landed, error, last, lastUser, written>>

TrialFails ==
    /\ Ended({"retry"})
    /\ LET f == Deepest  p == Composite IN
       /\ Forget(f)
       /\ IF trials[p] + 1 < MaxTrials THEN TryAgain(f, p, trials[p] + 1)
                                       ELSE GiveUp(f, p)
    /\ path' = Outer
    /\ UNCHANGED <<landed, error, last, lastUser, written>>

\* An exception leaves the flow: a catch step around it goes on with another
\* branch, every other step raises it, too.
Propagate ==
    /\ pc = "raise" /\ Len(path) > 1
    /\ LET f == Deepest  p == Composite IN
       IF Kind[p] = "catch" /\ exc \in Catches[p]
       THEN /\ Leave(p, "error", Without(f), Below(f)) /\ Forget(f)
            /\ trials' = TrialsWithout(f)
       ELSE UNCHANGED <<pc, conv, note, trials, ret, exc, asker, history>>
    /\ path' = Outer
    /\ UNCHANGED <<landed, error, last, lastUser, written>>

RaiseToCaller ==
    /\ pc = "raise" /\ Len(path) = 1
    /\ pc' = "idle" /\ path' = <<>> /\ error' = exc /\ exc' = "none"
    /\ UNCHANGED <<conv, note, trials, landed, ret, listVars, written, history>>

\* The event that starts the step inside of a CatchExceptionStep is recorded
\* within its try statement: the interrupt is caught like an exception.
CatchInterrupt ==
    /\ Interrupts /\ At({"catch"}) /\ "interrupt" \in Catches[Here]
    /\ LET f == Inner[Here] IN
       /\ Leave(Here, "error", Without(f), Below(f)) /\ Forget(f)
       /\ trials' = TrialsWithout(f)
    /\ UNCHANGED <<path, landed, error, last, lastUser, written>>

-----------------------------------------------------------------------------
Outside == UserMessage \/ SubmitToolResult \/ DecideConfirmation \/ Execute
Run == \/ Enter \/ Finish \/ Interrupt
       \/ AskUser \/ TakeAnswer \/ RunClientTool \/ RunTool \/ AskConfirmation
       \/ ChooseBranch \/ Complete \/ EnterSub
       \/ ReturnToCaller \/ StepYields \/ SubFlowEnds \/ TrialSucceeds
       \/ TrialFails \/ Propagate \/ RaiseToCaller \/ CatchInterrupt

Next == Outside \/ Run
Spec == Init /\ [][Next]_vars
\* An execution that was started is carried on by the event loop.
FairSpec == Spec /\ WF_vars(Run)

-----------------------------------------------------------------------------
(* Properties.                                                             *)

StatusTypes == {"none", "user", "tool", "confirm", "interrupted", "finished"}
Statuses == [type : StatusTypes, owner : Flows \cup {None},
             req : Steps \cup {None}]
Notes == {"none", "asked", "open", "answered", "confirmed", "rejected"}
Conversations == [step : Steps \cup {None}, alive : BOOLEAN, status : Statuses,
                  handled : BOOLEAN, response : 0..MaxMessages]

\* Every variable has its type; a conversation is at a step of its own flow.
TypeOK ==
    /\ pc \in {"idle", "enter", "loop", "return", "raise"}
    /\ path \in Seq(Flows)
    /\ conv \in [Flows -> Conversations]
    /\ \A f \in Flows : conv[f].step # None => FlowOf[conv[f].step] = f
    /\ note \in [Steps -> Notes] /\ trials \in [Steps -> 0..MaxTrials]
    /\ landed \in [Flows -> Steps \cup {None}] /\ ret \in Statuses
    /\ exc \in Exceptions \cup {"none"} /\ error \in Exceptions \cup {"none"}
    /\ last \in {"none", "user", "agent", "request", "result"}
    /\ asker \in Steps \cup {None}
    /\ lastUser \in 0..MaxMessages /\ written \in 0..MaxMessages
    /\ since \in [Steps -> 0..MaxMessages]
    /\ started \in [Steps -> 0..(MaxTrials + 1)]
    /\ reached \in [Flows -> Steps \cup {None}]

\* What a step keeps between two invocations (a question, a request and its
\* result or decision) exists only while its flow stands at that step: nothing
\* is left for the next visit, however the step was left.
NotesAreCurrent ==
    \A s \in Steps : note[s] # "none" => conv[FlowOf[s]].step = s

\* The conversation of g stands where the execution comes to step s.
LeadsTo(g, s) == LET t == conv[g].step IN
    IF g = FlowOf[s] THEN t = s
    ELSE t # None /\ Inner[t] \in Above[FlowOf[s]]

\* What the caller is asked for is asked by the step at which the execution
\* goes on, through every flow around it; and the answer reaches that step, since
\* its conversation has not handled the status yet.
AskedStepIsCurrent ==
    LET status == conv[Top].status IN
    pc = "idle" /\ error = "none" /\ status.type \in {"user", "tool", "confirm"}
    => \E s \in Steps :
          /\ note[s] # "none"
          /\ Kind[s] = CASE status.type = "user" -> "input"
                         [] status.type = "tool" -> "client"
                         [] OTHER -> "guarded"
          /\ \A g \in Above[FlowOf[s]] : /\ conv[g].alive /\ LeadsTo(g, s)
                                         /\ conv[g].status.type = status.type
          /\ status.type # "confirm" =>
                /\ \A g \in Above[FlowOf[s]] : conv[g].status.owner = FlowOf[s]
                /\ FlowOf[s] # Top => ~conv[FlowOf[s]].handled

\* A step starts its sub-flow once, and RetryStep at most max_num_trials times,
\* for each time it is reached: interrupts, yields and exceptions in the sub-flow
\* neither restart it nor count as a trial.
StartsAreBounded ==
    \A s \in Steps : started[s] <= IF Kind[s] = "retry" THEN MaxTrials ELSE 1

\* The executor never meets what it takes for a wrong implementation of a step
\* or for a branch that is not connected.
NoInternalError == error # "internal"

\* The output of an InputMessageStep is a message the user wrote after the
\* step was reached and its question asked, not one that answered before.
AnswersAreNew ==
    [][\A s \in Steps :
          /\ Kind[s] = "input" /\ At({"input"}) /\ Here = s
          /\ conv'[FlowOf[s]].step # s
          => lastUser > since[s]]_vars

\* Every execution returns or raises.
ExecutionEnds == pc # "idle" ~> pc = "idle"

-----------------------------------------------------------------------------
(* Claims of the sources that the code does not keep.                      *)

\* flowexecutionstep.py:284: "If the subflow ends by landing on a CompleteStep,
\* the next step depends on the complete step we landed on".
BranchIsTaken ==
    [][\A f \in Flows \ {Top} :
          Ended({"flow", "catch"}) /\ f = Deepest /\ reached[f] # None
          => conv'[Caller].step = Destination(Composite, Branch[reached[f]])]_vars
=============================================================================

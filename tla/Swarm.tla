------------------------------- MODULE Swarm -------------------------------
(***************************************************************************)
(* SwarmRunner and SwarmConversation: agents that send messages to each    *)
(* other through threads and hand the conversation over to each other.     *)
(*                                                                         *)
(* A thread is a pair <<caller, recipient>> of agents; the main thread is  *)
(* the user's.  The runner executes the recipient of the current thread    *)
(* and keeps the threads that wait for an answer on a stack.               *)
(*                                                                         *)
(* Of a message list the module keeps its last request message, which of   *)
(* its requests are answered, whether only results follow it, and the type *)
(* of the last message.  The executor of the agents is AgentExecutor; here *)
(* it is reduced to what the runner sees of it.                            *)
(***************************************************************************)
EXTENDS Naturals, Sequences, FiniteSets

CONSTANTS
    Agents, User,
    Relationships,  \* pairs <<sender, recipient>>
    FirstAgent,
    Handoff,        \* the HandoffMode
    Events,         \* what may happen to an agent besides its messages;
                    \* toolbox: its tool boxes hold client tools
    Careless,       \* the caller may execute without the result asked for
    Interjects,     \* the user may write while a request is open
    MaxBatch,       \* bound: tool requests in a message
    MaxRounds       \* bound: messages with tool requests

AllEvents == {"interrupt", "fail", "exhaust", "finish", "confirm", "toolbox"}

ASSUME SwarmAssumption ==
    /\ User \notin Agents /\ FirstAgent \in Agents
    /\ Relationships \subseteq Agents \X Agents
    /\ Handoff \in {"NEVER", "OPTIONAL", "ALWAYS"}
    /\ Events \subseteq AllEvents
    /\ Careless \in BOOLEAN /\ Interjects \in BOOLEAN
    /\ MaxBatch \in Nat \ {0} /\ MaxRounds \in Nat

VARIABLES
    pc,         \* idle; loop; agent: not prompted yet; prompted
    mainAgent,  \* recipient_agent of the main thread
    current,    \* current_thread
    stack,      \* thread_stack
    thread,     \* message list and sub-conversation of each thread
    asked,      \* index of the client request returned to the caller, or 0
    submitted,  \* its result was submitted
    ret,        \* status returned by the last execute
    error,      \* why the last execute raised
    rounds

callVars == <<asked, submitted>>
endVars == <<ret, error>>
vars == <<pc, mainAgent, current, stack, thread, callVars, endVars, rounds>>

Main == <<User, User>>
Threads == {Main} \cup Relationships
CallerOf(t) == t[1]
Recipient(t) == IF t = Main THEN mainAgent ELSE t[2]
Recipients(a) == {b \in Agents : <<a, b>> \in Relationships}

\* User stands for every name that is no recipient of the agent.
\* The kind boxed is a client tool that the agent has from a tool box.
Request == [kind : {"server", "client", "boxed", "send", "handoff"},
            to : Agents \cup {User}]
Batches(R) == UNION {[1..n -> R] : n \in 1..MaxBatch}

Open(th) == DOMAIN th.batch \ th.answered
Oldest(th) == CHOOSE i \in Open(th) : \A j \in Open(th) : i <= j
NothingQueued(th) == th.cur = 0 /\ th.next > Len(th.batch)

NewThread == [batch |-> <<>>, answered |-> {}, plain |-> FALSE,
              last |-> "none", cur |-> 0, next |-> 1, status |-> "none"]

Init ==
    /\ pc = "idle" /\ mainAgent = FirstAgent
    /\ current = Main /\ stack = <<>>
    /\ thread = [t \in Threads |-> NewThread]
    /\ asked = 0 /\ submitted = FALSE
    /\ ret = "none" /\ error = "none" /\ rounds = 0

-----------------------------------------------------------------------------
(* Messages and ends of an execution.                                      *)

Extended(th, type) == [th EXCEPT !.last = type, !.plain = FALSE]
AnsweredWith(th, S) == [th EXCEPT !.answered = @ \cup S, !.last = "result"]
Put(t, th) == thread' = [thread EXCEPT ![t] = th]

\* The next round of the runner's loop: pending requests first.
Round(t) == IF thread[t].status = "tool" THEN "loop" ELSE "agent"
Return(s) == pc' = "idle" /\ ret' = s /\ error' = "none"
Raise(e) == pc' = "idle" /\ ret' = "raised" /\ error' = e

-----------------------------------------------------------------------------
(* The caller.                                                             *)

UserMessage ==
    /\ pc = "idle"
    /\ thread[Main].status \in {"none", "user", "interrupted", "finished"}
    /\ Interjects \/ Open(thread[Main]) = {}
    /\ Put(Main, Extended(thread[Main], "user"))
    /\ UNCHANGED <<pc, mainAgent, current, stack, callVars, endVars, rounds>>

SubmitToolResult ==
    /\ pc = "idle" /\ asked # 0 /\ ~submitted
    /\ submitted' = TRUE
    /\ UNCHANGED <<pc, mainAgent, current, stack, thread, asked, endVars,
                   rounds>>

\* The status of a swarm names the conversation of an agent, so a result that
\* was not submitted is not noticed before the runner starts.
Execute ==
    /\ pc = "idle"
    /\ Careless \/ asked = 0 \/ submitted
    /\ pc' = Round(current)
    /\ ret' = "none" /\ error' = "none"
    /\ UNCHANGED <<mainAgent, current, stack, thread, callVars, rounds>>

-----------------------------------------------------------------------------
(* Pending tool requests of the current agent.                             *)

\* The thread once the submitted result is in its list and its next request
\* is the current one.
Pending ==
    LET th == thread[current]
        shown == IF submitted THEN AnsweredWith(th, {asked}) ELSE th
    IN  IF shown.cur = 0 /\ shown.next <= Len(shown.batch)
        THEN [shown EXCEPT !.cur = shown.next, !.next = @ + 1]
        ELSE shown

Handling(kinds) ==
    /\ pc = "loop" /\ Pending.cur # 0
    /\ Pending.batch[Pending.cur].kind \in kinds

Submitted == asked' = 0 /\ submitted' = FALSE

\* Nothing left, or a tool that is not a client tool of the agent's own list:
\* the agent runs it itself, or requests it again when a tool box has it.
ResumeAgent ==
    /\ pc = "loop"
    /\ Pending.cur # 0 => Pending.batch[Pending.cur].kind \in {"server", "boxed"}
    /\ pc' = "agent"
    /\ Put(current, [Pending EXCEPT !.status = "none"])
    /\ Submitted
    /\ UNCHANGED <<mainAgent, current, stack, endVars, rounds>>

\* A client tool of the agent's own list: one request at a time is returned.
AskCaller ==
    /\ Handling({"client"})
    /\ asked' = Pending.cur /\ submitted' = FALSE
    /\ Put(current, [Pending EXCEPT !.cur = 0])
    /\ Return("tool")
    /\ UNCHANGED <<mainAgent, current, stack, rounds>>

\* The requests of a communication tool are looked up in the message list, as
\* the oldest one without a result.  The list must end with a request message
\* and results.
Unusable(th) == ~th.plain \/ Open(th) = {}
LookupRaises(th) == Raise(IF th.plain THEN "none open" ELSE "list")

LookupFails ==
    /\ Put(current, Pending) /\ LookupRaises(Pending)
    /\ UNCHANGED <<mainAgent, current, stack>>

Looked == Pending.batch[Oldest(Pending)]
Known(a) == a \in Recipients(Recipient(current))

\* Mutant: a refused request stays the current one, without a result.
RefuseBug ==
    /\ Put(current, Pending)
    /\ UNCHANGED <<pc, mainAgent, current, stack, endVars>>

Refuse ==
    /\ Put(current, [AnsweredWith(Pending, {Oldest(Pending)})
                       EXCEPT !.cur = 0])
    /\ UNCHANGED <<pc, mainAgent, current, stack, endVars>>

\* The current thread waits on the stack for the thread of the recipient.
Deliver ==
    /\ LET t == <<Recipient(current), Looked.to>> IN
       /\ thread' = [thread EXCEPT ![current] = [Pending EXCEPT !.cur = 0],
                                   ![t] = Extended(@, "user")]
       /\ current' = t /\ pc' = Round(t)
    /\ stack' = Append(stack, current)
    /\ UNCHANGED <<mainAgent, endVars>>

\* Mutant: a message to the direct caller is delivered.
AcceptedBug == Looked.kind = "send" /\ Known(Looked.to)

\* A recipient other than the caller of the current thread.
Accepted == Looked.kind = "send" /\ Known(Looked.to)
                /\ Looked.to # CallerOf(current)

SendMessage ==
    /\ Handling({"send"}) /\ Submitted
    /\ IF Unusable(Pending) THEN LookupFails
       ELSE IF Accepted THEN Deliver ELSE Refuse
    /\ UNCHANGED rounds

\* Later requests are cancelled and the queue is emptied.
AfterHandoff ==
    LET j == Oldest(Pending)
        th == AnsweredWith(Pending, {i \in DOMAIN Pending.batch : i >= j})
    IN  IF Open(Pending) = {j} THEN th
        ELSE [th EXCEPT !.next = Len(th.batch) + 1]

Transferable == Looked.kind \in {"send", "handoff"} /\ Known(Looked.to)

Transfer ==
    /\ Put(current, [AfterHandoff EXCEPT !.cur = 0])
    /\ mainAgent' = IF Transferable THEN Looked.to ELSE mainAgent
    /\ UNCHANGED <<pc, current, stack, endVars>>

TransferFails ==
    /\ Put(current, AfterHandoff) /\ Raise("handoff")
    /\ UNCHANGED <<mainAgent, current, stack>>

HandoffConversation ==
    /\ Handling({"handoff"}) /\ Submitted
    /\ IF Unusable(Pending) THEN LookupFails
       ELSE IF Transferable /\ current # Main THEN TransferFails
       ELSE Transfer
    /\ UNCHANGED rounds

-----------------------------------------------------------------------------
(* The agent of the current thread.                                        *)

Running == pc \in {"agent", "prompted"}
Self == thread[current]
Kept == UNCHANGED <<mainAgent, callVars>>

\* Mutant: a request is taken from the queue and left in it, out of step.
TakeRequestBug ==
    /\ Running /\ Self.cur = 0 /\ Self.next <= Len(Self.batch) + 1
    /\ Put(current, [Self EXCEPT !.cur = Self.next, !.next = @ + 1])
    /\ Kept /\ UNCHANGED <<pc, current, stack, endVars, rounds>>

TakeRequest ==
    /\ Running /\ Self.cur = 0 /\ Self.next <= Len(Self.batch)
    /\ Put(current, [Self EXCEPT !.cur = Self.next, !.next = @ + 1])
    /\ Kept /\ UNCHANGED <<pc, current, stack, endVars, rounds>>

Processing(kinds) ==
    /\ Running /\ Self.cur # 0 /\ Self.batch[Self.cur].kind \in kinds
    /\ Kept

RunServerTool ==
    /\ Processing({"server"})
    /\ Put(current, [AnsweredWith(Self, {Self.cur}) EXCEPT !.cur = 0])
    /\ UNCHANGED <<pc, current, stack, endVars, rounds>>

\* Mutant: only the request that failed is answered.
ServerToolRaisesBug ==
    /\ Processing({"server"}) /\ "fail" \in Events
    /\ Put(current, [AnsweredWith(Self, {Self.cur})
                       EXCEPT !.cur = 0, !.next = Len(Self.batch) + 1])
    /\ Raise("tool")
    /\ UNCHANGED <<current, stack, rounds>>

\* The requests that are still queued are answered before the exception.
ServerToolRaises ==
    /\ Processing({"server"}) /\ "fail" \in Events
    /\ Put(current, [AnsweredWith(Self, Self.cur .. Len(Self.batch))
                       EXCEPT !.cur = 0, !.next = Len(Self.batch) + 1])
    /\ Raise("tool")
    /\ UNCHANGED <<current, stack, rounds>>

\* The tool needs a confirmation or a sign-in.
ServerToolYields ==
    /\ Processing({"server"}) /\ "confirm" \in Events
    /\ Put(current, [Self EXCEPT !.status = "confirm"])
    /\ Return("confirm")
    /\ UNCHANGED <<current, stack, rounds>>

\* The tools of the swarm are client tools of the agent.
RequestTools ==
    /\ Processing({"client", "boxed", "send", "handoff"})
    /\ Put(current, [Self EXCEPT !.status = "tool"])
    /\ pc' = "loop"
    /\ UNCHANGED <<current, stack, endVars, rounds>>

OwnTools == {"server", "client"}
                \cup (IF "toolbox" \in Events THEN {"boxed"} ELSE {})

\* Mutant: every agent is offered the handoff.
OfferedBug ==
    LET a == Recipient(current)
        names == Recipients(a) \cup {User}
        sends == Handoff # "ALWAYS" /\ Recipients(a) # {}
        hands == Recipients(a) # {} /\ Handoff # "NEVER"
    IN  [kind : OwnTools, to : {User}]
        \cup (IF sends THEN [kind : {"send"}, to : names] ELSE {})
        \cup (IF hands THEN [kind : {"handoff"}, to : names] ELSE {})

\* Only the main agent may hand over when both tools are offered.
Offered ==
    LET a == Recipient(current)
        names == Recipients(a) \cup {User}
        sends == Handoff # "ALWAYS" /\ Recipients(a) # {}
        hands == /\ Recipients(a) # {}
                 /\ \/ Handoff = "ALWAYS"
                    \/ Handoff = "OPTIONAL" /\ a = mainAgent
    IN  [kind : OwnTools, to : {User}]
        \cup (IF sends THEN [kind : {"send"}, to : names] ELSE {})
        \cup (IF hands THEN [kind : {"handoff"}, to : names] ELSE {})

Prompting == Running /\ NothingQueued(Self) /\ Kept

GenerateRequests ==
    /\ Prompting /\ rounds < MaxRounds
    /\ \E b \in Batches(Offered) :
          Put(current, [Self EXCEPT !.batch = b, !.answered = {},
                                    !.plain = TRUE, !.last = "request",
                                    !.next = 1])
    /\ pc' = "prompted" /\ rounds' = rounds + 1
    /\ UNCHANGED <<current, stack, endVars>>

\* The agent's answer, with which the requests of its list are forgotten.
Said == [Self EXCEPT !.batch = <<>>, !.answered = {}, !.plain = FALSE,
                     !.next = 1, !.last = "agent", !.status = "user"]

AnswerUser ==
    /\ Prompting /\ current = Main
    /\ Put(current, Said) /\ Return("user")
    /\ UNCHANGED <<current, stack, rounds>>

Waiting == stack[Len(stack)]
Told == [thread EXCEPT ![current] = Said]

\* The caller's thread is on top of the stack.
AnswerFails ==
    /\ Put(current, Said)
    /\ IF stack = <<>>
          THEN Raise("stack") /\ UNCHANGED stack
          ELSE /\ LookupRaises(Told[Waiting])
               /\ stack' = SubSeq(stack, 1, Len(stack) - 1)
    /\ UNCHANGED current

\* Mutant: the answer is given to the newest request.
AnswerRequestBug(i) ==
    /\ thread' = [Told EXCEPT ![Waiting] =
                     AnsweredWith(@, {Len(Told[Waiting].batch)})]
    /\ stack' = SubSeq(stack, 1, Len(stack) - 1)
    /\ current' = Waiting
    /\ pc' = Round(Waiting)
    /\ UNCHANGED endVars

AnswerRequest(i) ==
    /\ thread' = [Told EXCEPT ![Waiting] = AnsweredWith(@, {i})]
    /\ stack' = SubSeq(stack, 1, Len(stack) - 1)
    /\ current' = Waiting
    /\ pc' = Round(Waiting)
    /\ UNCHANGED endVars

AnswerCaller ==
    /\ Prompting /\ current # Main
    /\ IF stack = <<>> \/ Unusable(Told[Waiting])
          THEN AnswerFails
          ELSE AnswerRequest(Oldest(Told[Waiting]))
    /\ UNCHANGED rounds

\* After max_iterations prompts the agent asks for a user message whatever its
\* last message is.
Exhausts ==
    /\ Prompting /\ "exhaust" \in Events
    /\ pc = "prompted" /\ Self.last = "result"
    /\ Put(current, [Self EXCEPT !.status = "user"])
    /\ IF current = Main THEN Return("user") ELSE Raise("answer")
    /\ UNCHANGED <<current, stack, rounds>>

\* The agent submits its outputs or ends the conversation: the status of any
\* thread is the status of the swarm.
Finishes ==
    /\ Prompting /\ "finish" \in Events
    /\ Put(current, [Said EXCEPT !.last = "result", !.status = "finished"])
    /\ Return("finished")
    /\ UNCHANGED <<current, stack, rounds>>

\* The model, a template or a tool box raises.
GenerationFails ==
    /\ Prompting /\ "fail" \in Events
    /\ Raise("generation")
    /\ UNCHANGED <<current, stack, thread, rounds>>

\* An interrupt is returned unless the list is empty or ends with a request
\* message: the runner takes that for an internal error.
Interrupt ==
    /\ Running /\ "interrupt" \in Events
    /\ Put(current, [Self EXCEPT !.status = "interrupted"])
    /\ IF Self.last \in {"none", "request"} THEN Raise("interrupted")
       ELSE Return("interrupted")
    /\ Kept /\ UNCHANGED <<current, stack, rounds>>

-----------------------------------------------------------------------------
Caller == UserMessage \/ SubmitToolResult \/ Execute
Run == \/ ResumeAgent \/ AskCaller \/ SendMessage \/ HandoffConversation
       \/ TakeRequest \/ RunServerTool \/ ServerToolRaises \/ ServerToolYields
       \/ RequestTools \/ GenerateRequests \/ AnswerUser \/ AnswerCaller
       \/ Exhausts \/ Finishes \/ GenerationFails \/ Interrupt

Next == Caller \/ Run
Spec == Init /\ [][Next]_vars
FairSpec == Spec /\ WF_vars(Run)

-----------------------------------------------------------------------------
(* Properties.                                                             *)

Statuses == {"none", "user", "tool", "confirm", "finished", "interrupted"}
LookupErrors == {"list", "none open", "handoff", "stack"}
InternalErrors == LookupErrors \cup {"interrupted", "answer"}
Errors == InternalErrors \cup {"none", "tool", "generation"}
Thread == [batch : Seq(Request), answered : SUBSET (1..MaxBatch),
           plain : BOOLEAN,
           last : {"none", "user", "agent", "request", "result"},
           cur : 0..MaxBatch, next : 1..(MaxBatch + 1), status : Statuses]

WellFormed(th) == /\ Len(th.batch) <= MaxBatch
                  /\ th.answered \subseteq DOMAIN th.batch
                  /\ th.cur <= Len(th.batch)

\* Every variable has its type; an index into a request message is one of its
\* requests.
TypeOK ==
    /\ pc \in {"idle", "loop", "agent", "prompted"}
    /\ mainAgent \in Agents /\ current \in Threads /\ stack \in Seq(Threads)
    /\ thread \in [Threads -> Thread]
    /\ \A t \in Threads : WellFormed(thread[t])
    /\ asked \in 0..MaxBatch /\ submitted \in BOOLEAN
    /\ ret \in Statuses \cup {"raised"} /\ error \in Errors
    /\ rounds \in 0..MaxRounds

WaitsFor(t, u) ==
    LET th == thread[t] IN
    /\ th.plain /\ Open(th) # {}
    /\ th.batch[Oldest(th)] = [kind |-> "send", to |-> Recipient(u)]
    /\ CallerOf(u) = Recipient(t)

\* Every thread on the stack waits for the thread above it: its oldest request
\* without a result is a message to that thread's agent.  So an answer always
\* reaches the request that asked for it, through any nesting of messages,
\* handoffs and returns to the caller (_post_agent_answer_to_previous_thread).
CallChain ==
    /\ \A i \in DOMAIN stack :
          WaitsFor(stack[i], IF i = Len(stack) THEN current ELSE stack[i + 1])
    /\ stack = <<>> <=> current = Main

\* An agent is prompted only when every request of its last request message
\* has a result.
PromptsAreComplete == Running /\ NothingQueued(Self) => Open(Self) = {}

\* The request that the runner or the agent handles is the oldest one without
\* a result: what the look-up of communication requests in the message list
\* rests on (_post_agent_message_to_next_thread).
OldestIsCurrent ==
    LET th == IF pc = "loop" THEN Pending ELSE Self IN
    pc # "idle" /\ th.cur # 0 => Open(th) # {} /\ Oldest(th) = th.cur

\* Of the internal errors of the runner, an execution meets two, and only for
\* their known causes: an interrupt of an agent whose list is empty or ends with
\* a request message, and an agent that is no main agent and reaches its
\* iteration limit after a tool result.  It never meets a message list, a stack
\* or a handoff that it cannot handle, and without these two causes it raises
\* no internal error at all.
InternalErrorsAreKnown ==
    error \in InternalErrors =>
        \/ error = "interrupted" /\ "interrupt" \in Events
        \/ error = "answer" /\ "exhaust" \in Events

\* The agent is about to handle a client tool of a tool box, which the runner
\* does not find among the agent's tools.
AsksToolBox == Self.cur # 0 /\ Self.batch[Self.cur].kind = "boxed"

\* execute returns, raises or reaches a request for a client tool of a tool box,
\* from which it does not return: no sequence of messages, results and handoffs
\* keeps the loop of the runner busy without new requests of the agents.
ExecutionReturns == pc # "idle" ~> pc = "idle" \/ AsksToolBox
=============================================================================

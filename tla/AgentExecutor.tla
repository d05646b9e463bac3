--------------------------- MODULE AgentExecutor ---------------------------
(***************************************************************************)
(* One Agent conversation: the tool-calling loop of                        *)
(* AgentConversationExecutor together with the status protocol of          *)
(* Conversation (what the caller may append or submit between two          *)
(* executions, and when it reaches the message list).                      *)
(*                                                                         *)
(* A tool request is an element of Ids; its contents are abstracted to its *)
(* kind.  The message list is abstracted to the requests it shows, the     *)
(* number of result messages of each request and the kind of its last      *)
(* message.  A sub-agent and a sub-flow are environment components whose   *)
(* execution returns any status; what the model keeps of them is whether   *)
(* their conversation exists, the status it holds and whether the results  *)
(* that status asks for were submitted.                                    *)
(***************************************************************************)
EXTENDS Naturals, Sequences, FiniteSets

CONSTANTS
    Ids,             \* identifiers of tool requests
    NoId,            \* "None" for current_tool_request
    Mode,            \* caller_input_mode: "ALWAYS" or "NEVER"
    Kinds,           \* the kinds of tools this agent is configured with
    HasOutputs,      \* len(output_descriptors) > 0
    RaiseExceptions, \* raise_exceptions
    MaxIterations,   \* max_iterations
    MaxBatch,        \* bound: tool requests the LLM puts in one message
    Interrupts       \* whether execution interrupts are passed to execute

Subs == {"agent", "flow"}
\* Tools whose request _process_tool_call handles itself; all of them are
\* declared as ClientTool objects.
BuiltinKinds == {"submit", "badsubmit", "exit", "talk", "badtalk"}
TalkKinds == {"talk", "badtalk"}
ClientKinds == {"client"} \cup BuiltinKinds
ServerKinds == {"server", "guarded"}
AllKinds == ClientKinds \cup ServerKinds \cup Subs \cup {"unknown"}

ASSUME ConstantsAssumption ==
    /\ NoId \notin Ids
    /\ Mode \in {"ALWAYS", "NEVER"}
    /\ Kinds \subseteq AllKinds
    /\ HasOutputs \in BOOLEAN
    /\ RaiseExceptions \in BOOLEAN
    /\ Interrupts \in BOOLEAN
    /\ MaxIterations \in Nat \ {0}
    /\ MaxBatch \in Nat \ {0}

VARIABLES
    pc,          \* "idle" between executions, else where the executor is
    iter,        \* state.curr_iter
    kind,        \* kind of each request, "none" while the id is unused
    shown,       \* requests present in messages of the message list
    results,     \* number of tool-result messages per request, capped
    last,        \* kind of the last message of the list
    queue,       \* state.tool_call_queue
    current,     \* state.current_tool_request
    exitAsked,   \* state.has_confirmed_conversation_exit
    consent,     \* confirmation flags of each request
    status,      \* conversation.status
    handled,     \* conversation.status_handled
    submitted,   \* entries of status._tool_results per request, capped
    given,       \* history: results the caller gave per request, capped
    ret,         \* the status the executor is about to return
    subStatus,   \* status of the sub-conversations, "absent" if none exists
    subAnswered, \* _tool_results submitted to a sub-conversation's status
    error,       \* how the latest execution ended, when by an exception
    stray        \* history: requests whose answer did not reach the list

convVars == <<status, handled, submitted>>
listVars == <<shown, results, last>>
loopVars == <<queue, current, iter>>
subVars == <<subStatus, subAnswered>>
vars == <<pc, iter, kind, shown, results, last, queue, current, exitAsked,
          consent, status, handled, submitted, ret, subStatus, subAnswered,
          error, stray, given>>

StatusTypes == {"none", "user", "tool", "confirm", "auth", "finished",
                "interrupted"}
\* "self": a status of this conversation; a Subs element: the status object of
\* that sub-conversation, passed through; "gone": the status object of a
\* sub-conversation that has moved on to another status.
Owners == {"self", "gone"} \cup Subs
SubStatuses == {"absent"} \cup (StatusTypes \ {"none", "finished"})
\* Bound: result messages of one request are counted up to MaxResults.
MaxResults == 2

Statuses == [type : StatusTypes, owner : Owners, reqs : SUBSET Ids]
Plain(t) == [type |-> t, owner |-> "self", reqs |-> {}]
Asking(t, rs) == [type |-> t, owner |-> "self", reqs |-> rs]
PassedOn(t, k) == [type |-> t, owner |-> k, reqs |-> {}]

Range(s) == {s[i] : i \in DOMAIN s}
Bump(n) == IF n < MaxResults THEN n + 1 ELSE n
\* The result counters after one more result message for each request of S.
Answer(S) == [r \in Ids |-> IF r \in S THEN Bump(results[r]) ELSE results[r]]
\* The same after every entry of a status became a message, duplicates too.
Posted(entries) ==
    [r \in Ids |-> IF results[r] + entries[r] < MaxResults
                      THEN results[r] + entries[r] ELSE MaxResults]
NoEntries == [r \in Ids |-> 0]
Unused == {r \in Ids : kind[r] = "none"}
\* Mutant: requests that already have a result are listed again.
OpenClientRequestsBug == {r \in shown : kind[r] \in ClientKinds}

\* _get_all_open_client_tool_requests: unanswered requests for ClientTool
\* objects anywhere in the message list.
OpenClientRequests ==
    {r \in shown : results[r] = 0 /\ kind[r] \in ClientKinds}

Init ==
    /\ pc = "idle" /\ iter = 0
    /\ kind = [r \in Ids |-> "none"]
    /\ shown = {} /\ results = [r \in Ids |-> 0] /\ last = "none"
    /\ queue = <<>> /\ current = NoId
    /\ exitAsked = FALSE
    /\ consent = [r \in Ids |-> "none"]
    /\ status = Plain("none") /\ handled = FALSE
    /\ submitted = NoEntries /\ given = NoEntries
    /\ ret = Plain("none")
    /\ subStatus = [k \in Subs |-> "absent"]
    /\ subAnswered = [k \in Subs |-> FALSE]
    /\ error = "none" /\ stray = {}

-----------------------------------------------------------------------------
(* What the caller does between two executions.                            *)

\* append_user_message, or append_message with a user message: recorded as the
\* response of a pending UserMessageRequestStatus, appended otherwise.  The
\* response to a sub-conversation's status goes to that status object.
UserMessage ==
    /\ pc = "idle"
    /\ IF status.type = "user" /\ status.owner # "self" /\ ~handled
          THEN /\ handled' = TRUE
               /\ last' = last
               /\ subAnswered' = [k \in Subs |-> subAnswered[k]
                                                 \/ status.owner = k]
          ELSE /\ handled' = (handled \/ status.type = "user")
               /\ last' = "user"
               /\ UNCHANGED subAnswered
    /\ UNCHANGED <<pc, loopVars, kind, shown, results, exitAsked, consent,
                   status, submitted, ret, subStatus, error, stray, given>>

\* The caller answers requests that its status lists, each as often as it likes.
Give(r) == given' = [given EXCEPT ![r] = Bump(@)]

\* status.submit_tool_result: appended without a check, also when the request
\* has a result or the status was handled.
SubmitToolResult ==
    /\ pc = "idle" /\ status.type = "tool"
    /\ \/ /\ status.owner = "self"
          /\ \E r \in status.reqs :
                submitted' = [submitted EXCEPT ![r] = Bump(@)] /\ Give(r)
          /\ UNCHANGED subAnswered
       \/ /\ status.owner \in Subs
          /\ subAnswered' = [subAnswered EXCEPT ![status.owner] = TRUE]
          /\ UNCHANGED <<submitted, given>>
    /\ UNCHANGED <<pc, loopVars, kind, listVars, exitAsked, consent, status,
                   handled, ret, subStatus, error, stray>>

\* conversation.append_message with a tool result for a pending tool request:
\* it joins the submitted results, and all become messages at once.
AppendToolResult ==
    /\ pc = "idle" /\ status.type = "tool" /\ ~handled
    /\ \/ /\ status.owner = "self"
          /\ \E r \in status.reqs :
                /\ results' = Posted([submitted EXCEPT ![r] = Bump(@)])
                /\ Give(r)
          /\ last' = "result" /\ submitted' = NoEntries
          /\ UNCHANGED subAnswered
       \/ /\ status.owner # "self"
          /\ subAnswered' = [k \in Subs |-> subAnswered[k] \/ status.owner = k]
          /\ UNCHANGED <<results, last, submitted, given>>
    /\ handled' = TRUE
    /\ UNCHANGED <<pc, loopVars, kind, shown, exitAsked, consent, status, ret,
                   subStatus, error, stray>>

\* The same once the status was handled: an ordinary message.
AppendLateResult ==
    /\ pc = "idle" /\ status.type = "tool" /\ handled
    /\ \/ /\ status.owner = "self"
          /\ \E r \in status.reqs : results' = Answer({r}) /\ Give(r)
       \/ status.owner # "self" /\ UNCHANGED <<results, given>>
    /\ last' = "result"
    /\ UNCHANGED <<pc, loopVars, kind, shown, exitAsked, consent, convVars, ret,
                   subVars, error, stray>>

\* confirm_tool_execution and reject_tool_execution.
DecideConfirmation ==
    /\ pc = "idle" /\ status.type = "confirm" /\ status.owner = "self"
    /\ \E r \in status.reqs, c \in {"confirmed", "rejected"} :
          consent' = [consent EXCEPT ![r] = c]
    /\ UNCHANGED <<pc, loopVars, kind, listVars, exitAsked, convVars, ret,
                   subVars, error, stray, given>>

\* Mutant: results of a handled status are replayed.
ExecuteBug ==
    /\ pc = "idle"
    /\ LET tool == status.owner = "self" /\ status.type = "tool"
       IN  /\ tool => submitted # NoEntries
           /\ results' = IF tool THEN Posted(submitted) ELSE results
           /\ last' = IF tool THEN "result" ELSE last
           /\ handled' = (handled \/ tool)
    /\ pc' = "loop" /\ iter' = 0 /\ error' = "none"
    /\ UNCHANGED <<kind, shown, queue, current, exitAsked, consent, status,
                   submitted, ret, subVars, stray, given>>

\* Conversation.execute_async up to the executor's loop.  A pending status of
\* this conversation is turned into messages first; execution is refused while
\* a ToolRequestStatus has no submitted result.
Execute ==
    /\ pc = "idle"
    /\ LET own == status.owner = "self" /\ status.type # "none"
           tool == own /\ status.type = "tool" /\ ~handled
       IN  /\ tool => submitted # NoEntries
           /\ results' = IF tool THEN Posted(submitted) ELSE results
           /\ last' = IF tool THEN "result" ELSE last
           /\ submitted' = IF tool THEN NoEntries ELSE submitted
           /\ handled' = (handled \/ own)
    /\ pc' = "loop" /\ iter' = 0 /\ error' = "none"
    /\ UNCHANGED <<kind, shown, queue, current, exitAsked, consent, status, ret,
                   subVars, stray, given>>

-----------------------------------------------------------------------------
(* How an execution ends.                                                  *)

ReturnWith(s) == /\ pc' = "return" /\ ret' = s

SetStatus(s) == /\ pc' = "idle" /\ status' = s
                /\ handled' = FALSE /\ submitted' = NoEntries

\* The status reaches the caller.
Return ==
    /\ pc = "return"
    /\ SetStatus(ret)
    /\ UNCHANGED <<loopVars, kind, listVars, exitAsked, consent, ret, subVars,
                   error, stray, given>>

\* An interrupt raised from the event that ends the execution span replaces
\* the status the agent had computed.
InterruptReturn ==
    /\ Interrupts /\ pc = "return"
    /\ SetStatus(Plain("interrupted"))
    /\ UNCHANGED <<loopVars, kind, listVars, exitAsked, consent, ret, subVars,
                   error, stray, given>>

\* An interrupt raised from an event of the loop (iteration start and end,
\* generation start and end, tool call start and end).
Interrupt ==
    /\ Interrupts /\ pc \in {"loop", "prompt", "decided"}
    /\ SetStatus(Plain("interrupted"))
    /\ UNCHANGED <<loopVars, kind, listVars, exitAsked, consent, ret, subVars,
                   error, stray, given>>

\* An exception leaves the executor: the conversation keeps its old status.
Raise(e) == /\ pc' = "idle" /\ error' = e

-----------------------------------------------------------------------------
(* The loop of _execute_agent.                                             *)

TakeNextRequest ==
    /\ pc = "loop" /\ current = NoId /\ queue # <<>>
    /\ current' = Head(queue) /\ queue' = Tail(queue)
    /\ UNCHANGED <<pc, iter, kind, listVars, exitAsked, consent, convVars, ret,
                   subVars, error, stray, given>>

EndOfTurn == IF Mode = "ALWAYS" THEN Plain("user") ELSE Plain("finished")

IterationLimit ==
    /\ pc = "loop" /\ current = NoId /\ queue = <<>> /\ iter >= MaxIterations
    /\ ReturnWith(IF HasOutputs THEN Plain("finished") ELSE EndOfTurn)
    /\ UNCHANGED <<loopVars, kind, listVars, exitAsked, consent, convVars,
                   subVars, error, stray, given>>

\* Mutant: the limit is off by one.
StartGenerationBug ==
    /\ pc = "loop" /\ current = NoId /\ queue = <<>> /\ iter <= MaxIterations
    /\ pc' = "prompt" /\ iter' = iter + 1
    /\ UNCHANGED <<kind, listVars, queue, current, exitAsked, consent, convVars,
                   ret, subVars, error, stray, given>>

\* Mutant: the iteration is not counted.
StartGenerationUncounted ==
    /\ pc = "loop" /\ current = NoId /\ queue = <<>> /\ iter < MaxIterations
    /\ pc' = "prompt"
    /\ UNCHANGED <<iter, kind, listVars, queue, current, exitAsked, consent,
                   convVars, ret, subVars, error, stray, given>>

\* Tools are collected (a toolbox may ask for authentication), the iteration is
\* counted and the LLM is prompted with the message list.
StartGeneration ==
    /\ pc = "loop" /\ current = NoId /\ queue = <<>> /\ iter < MaxIterations
    /\ \/ pc' = "prompt" /\ iter' = iter + 1 /\ ret' = ret
       \/ ReturnWith(Plain("auth")) /\ iter' = iter
    /\ UNCHANGED <<kind, listVars, queue, current, exitAsked, consent, convVars,
                   subVars, error, stray, given>>

\* The LLM answers with text, or the agent posts its initial message.
GenerateText ==
    /\ pc = "prompt"
    /\ pc' = "decided" /\ last' = "agent"
    /\ UNCHANGED <<loopVars, kind, shown, results, exitAsked, consent, convVars,
                   ret, subVars, error, stray, given>>

\* What may be requested in an iteration: in the last one only the built-in
\* tools are offered, a request for another tool is unknown; sub-agents and
\* sub-flows are still found by name.
Offered == IF iter = MaxIterations
              THEN Kinds \ ({"client"} \cup ServerKinds)
              ELSE Kinds

\* The requests _decide_next_action keeps of the LLM's message: a request to
\* talk to the user only when it is alone.
Batches ==
    {b \in UNION {[1..n -> Unused] : n \in 1..MaxBatch} :
        \A i, j \in DOMAIN b : b[i] = b[j] => i = j}

GenerateRequests ==
    /\ pc = "prompt"
    /\ \E b \in Batches : \E ks \in [Range(b) -> Offered] :
          /\ Len(b) > 1 => \A r \in Range(b) : ks[r] \notin TalkKinds
          /\ kind' = [r \in Ids |-> IF r \in Range(b) THEN ks[r] ELSE kind[r]]
          /\ shown' = shown \cup Range(b)
          /\ queue' = b
    /\ pc' = "decided" /\ last' = "request"
    /\ UNCHANGED <<iter, results, current, exitAsked, consent, convVars, ret,
                   subVars, error, stray, given>>

GenerationFails ==
    /\ pc = "prompt"
    /\ Raise("llm")
    /\ UNCHANGED <<loopVars, kind, listVars, exitAsked, consent, convVars, ret,
                   subVars, stray, given>>

\* After the decision: tool requests are processed, text ends the turn unless
\* nobody is there to answer (NEVER), in which case a reminder is posted as a
\* user message with conversation.append_message.
Decided ==
    /\ pc = "decided"
    /\ IF queue # <<>>
          THEN pc' = "loop" /\ UNCHANGED <<ret, last, handled>>
          ELSE IF Mode = "ALWAYS"
          THEN ReturnWith(EndOfTurn) /\ UNCHANGED <<last, handled>>
          ELSE /\ pc' = "loop" /\ ret' = ret
               /\ last' = IF status.type = "user" /\ ~handled
                             THEN last ELSE "user"
               /\ handled' = (handled \/ status.type = "user")
    /\ UNCHANGED <<loopVars, kind, shown, results, exitAsked, consent, status,
                   submitted, subVars, error, stray, given>>

-----------------------------------------------------------------------------
(* _process_tool_call on the current request.                              *)

Processing(ks) == pc = "loop" /\ current # NoId /\ kind[current] \in ks

\* A result message appended to the message list; the request is done.
Answered(S) ==
    /\ results' = Answer(S) /\ last' = "result" /\ shown' = shown
    /\ current' = NoId

\* Mutant: the request stays current after its result.
RunServerToolBug ==
    /\ Processing(ServerKinds)
    /\ kind[current] = "guarded" => consent[current] = "confirmed"
    /\ results' = Answer({current}) /\ last' = "result"
    /\ UNCHANGED <<pc, iter, kind, shown, queue, current, exitAsked, consent,
                   convVars, ret, subVars, error, stray, given>>

\* A server tool runs (a guarded one after its confirmation): it returns or
\* fails with a result message, or asks for authentication.
RunServerTool ==
    /\ Processing(ServerKinds)
    /\ kind[current] = "guarded" => consent[current] = "confirmed"
    /\ \/ Answered({current}) /\ UNCHANGED <<pc, ret>>
       \/ ReturnWith(Plain("auth")) /\ UNCHANGED <<listVars, current>>
    /\ UNCHANGED <<iter, kind, queue, exitAsked, consent, convVars, subVars,
                   error, stray, given>>

\* Mutant: the queue is cleared without posting results.
ServerToolRaisesBug ==
    /\ Processing(ServerKinds) /\ RaiseExceptions
    /\ kind[current] = "guarded" => consent[current] = "confirmed"
    /\ Answered({current}) /\ queue' = <<>>
    /\ Raise("tool")
    /\ UNCHANGED <<iter, kind, exitAsked, consent, convVars, ret, subVars,
                   stray, given>>

\* With raise_exceptions a failing server tool stops the run: its result and an
\* error result for every queued request are posted first.
ServerToolRaises ==
    /\ Processing(ServerKinds) /\ RaiseExceptions
    /\ kind[current] = "guarded" => consent[current] = "confirmed"
    /\ Answered({current} \cup Range(queue)) /\ queue' = <<>>
    /\ Raise("tool")
    /\ UNCHANGED <<iter, kind, exitAsked, consent, convVars, ret, subVars,
                   stray, given>>

\* Mutant: the current request is cleared before the exception.
OutputNotCopyableBug ==
    /\ Processing(ServerKinds) /\ RaiseExceptions
    /\ Raise("copy") /\ current' = NoId
    /\ UNCHANGED <<iter, queue, kind, listVars, exitAsked, consent, convVars,
                   ret, subVars, stray, given>>

\* With raise_exceptions an output that cannot be copied is raised before any
\* result is posted; the request stays current.
OutputNotCopyable ==
    /\ Processing(ServerKinds) /\ RaiseExceptions
    /\ kind[current] = "guarded" => consent[current] = "confirmed"
    /\ Raise("copy")
    /\ UNCHANGED <<loopVars, kind, listVars, exitAsked, consent, convVars, ret,
                   subVars, stray, given>>

AskConfirmation ==
    /\ Processing({"guarded"}) /\ consent[current] = "none"
    /\ consent' = [consent EXCEPT ![current] = "asked"]
    /\ ReturnWith(Asking("confirm", {current}))
    /\ UNCHANGED <<loopVars, kind, listVars, exitAsked, convVars, subVars,
                   error, stray, given>>

ConfirmationMissing ==
    /\ Processing({"guarded"}) /\ consent[current] = "asked"
    /\ Raise("confirm")
    /\ UNCHANGED <<loopVars, kind, listVars, exitAsked, consent, convVars, ret,
                   subVars, stray, given>>

\* A rejected tool, and a request for a tool that does not exist.
AnswerWithoutRunning ==
    /\ Processing({"guarded", "unknown"})
    /\ kind[current] = "guarded" => consent[current] = "rejected"
    /\ Answered({current})
    /\ UNCHANGED <<pc, iter, kind, queue, exitAsked, consent, convVars, ret,
                   subVars, error, stray, given>>

\* A client tool: its result is in the message list, or the caller is asked for
\* the results of every open client request.
RunClientTool ==
    /\ Processing({"client"})
    /\ IF results[current] > 0
          THEN current' = NoId /\ UNCHANGED <<pc, ret>>
          ELSE /\ ReturnWith(Asking("tool", OpenClientRequests))
               /\ UNCHANGED current
    /\ UNCHANGED <<iter, kind, listVars, queue, exitAsked, consent, convVars,
                   subVars, error, stray, given>>

-----------------------------------------------------------------------------
(* Sub-agents and sub-flows.  Executing the sub-conversation replaces its  *)
(* status object, so a copy the caller still holds is no longer shared.    *)

Detach(k) == status' = IF status.owner = k
                          THEN [status EXCEPT !.owner = "gone"] ELSE status

\* A pending ToolRequestStatus without results makes the sub-conversation
\* raise, as in Execute; the exception is caught by the calling agent.
SubMustFail(k) == subStatus[k] = "tool" /\ ~subAnswered[k]

SubBecomes(k, s) == /\ subStatus' = [subStatus EXCEPT ![k] = s]
                    /\ subAnswered' = [subAnswered EXCEPT ![k] = FALSE]
                    /\ Detach(k)

\* It finishes, fails, or (a sub-agent) talks back: that is the result.
SubAnswers ==
    /\ Processing(Subs)
    /\ LET k == kind[current] IN
       \/ ~RaiseExceptions /\ SubBecomes(k, "absent")
       \/ ~SubMustFail(k) /\ SubBecomes(k, "absent")
       \/ k = "agent" /\ ~SubMustFail(k) /\ SubBecomes(k, "user")
    /\ Answered({current})
    /\ UNCHANGED <<pc, iter, kind, queue, exitAsked, consent, handled,
                   submitted, ret, error, stray, given>>

\* Mutant: the queue is cleared without posting results.
SubRaisesBug ==
    /\ Processing(Subs) /\ RaiseExceptions
    /\ SubBecomes(kind[current], "absent")
    /\ Answered({current}) /\ queue' = <<>>
    /\ Raise("sub")
    /\ UNCHANGED <<iter, kind, exitAsked, consent, handled, submitted, ret,
                   stray, given>>

SubRaises ==
    /\ Processing(Subs) /\ RaiseExceptions
    /\ SubBecomes(kind[current], "absent")
    /\ Answered({current} \cup Range(queue)) /\ queue' = <<>>
    /\ Raise("sub")
    /\ UNCHANGED <<iter, kind, exitAsked, consent, handled, submitted, ret,
                   stray, given>>

\* Mutant: the request is no longer current after the yield.
SubYieldsBug ==
    /\ Processing(Subs)
    /\ LET k == kind[current] IN
       /\ ~SubMustFail(k)
       /\ \E s \in {"tool", "confirm", "auth"} :
             SubBecomes(k, s) /\ ReturnWith(PassedOn(s, k))
    /\ current' = NoId
    /\ UNCHANGED <<iter, queue, kind, listVars, exitAsked, consent, handled,
                   submitted, error, stray, given>>

\* Mutant: the agent returns a status of its own instead of the sub's.
SubYieldsHidden ==
    /\ Processing(Subs)
    /\ LET k == kind[current] IN
       /\ ~SubMustFail(k)
       /\ \E s \in {"tool", "confirm", "auth"} :
             SubBecomes(k, s) /\ ReturnWith(Plain("user"))
    /\ UNCHANGED <<loopVars, kind, listVars, exitAsked, consent, handled,
                   submitted, error, stray, given>>

\* It yields: its status object becomes the agent's.
SubYields ==
    /\ Processing(Subs)
    /\ LET k == kind[current] IN
       /\ ~SubMustFail(k)
       /\ \E s \in {"tool", "confirm", "auth"}
                   \cup (IF k = "flow" THEN {"user"} ELSE {})
                   \cup (IF Interrupts THEN {"interrupted"} ELSE {}) :
             SubBecomes(k, s) /\ ReturnWith(PassedOn(s, k))
       /\ last' = IF k = "flow" THEN "agent" ELSE last
    /\ UNCHANGED <<loopVars, kind, shown, results, exitAsked, consent, handled,
                   submitted, error, stray, given>>

-----------------------------------------------------------------------------
(* The built-in tools post through conversation.append_message, which      *)
(* still applies the status protocol: while the status of a sub-           *)
(* conversation is unhandled, the message goes to that status object.      *)

Absorbs(role) == /\ ~handled
                 /\ \/ status.type = "tool"
                    \/ status.type = "user" /\ role = "user"
Refuses(role) == ~handled /\ status.type = "user" /\ role # "user"

Post(r, role) ==
    IF Absorbs(role)
       THEN /\ handled' = TRUE /\ stray' = stray \cup {r}
            /\ UNCHANGED listVars
       ELSE /\ results' = Answer({r}) /\ last' = "result"
            /\ UNCHANGED <<shown, handled, stray>>

\* submit_result with every required output ends the run; the request stays
\* current.  Without, the loop goes on.
SubmitOutputs ==
    /\ Processing({"submit", "badsubmit"})
    /\ Post(current, "user")
    /\ IF kind[current] = "submit"
          THEN ReturnWith(Plain("finished")) /\ current' = current
          ELSE current' = NoId /\ UNCHANGED <<pc, ret>>
    /\ UNCHANGED <<iter, kind, queue, exitAsked, consent, status, submitted,
                   subVars, error, given>>

\* end_conversation ends the run the second time it is called.
EndConversation ==
    /\ Processing({"exit"})
    /\ ~Refuses("assistant") /\ Post(current, "assistant")
    /\ exitAsked' = TRUE
    /\ IF exitAsked
          THEN ReturnWith(Plain("finished")) /\ current' = current
          ELSE current' = NoId /\ UNCHANGED <<pc, ret>>
    /\ UNCHANGED <<iter, kind, queue, consent, status, submitted, subVars,
                   error, given>>

EndConversationRefused ==
    /\ Processing({"exit"}) /\ Refuses("assistant")
    /\ exitAsked' = TRUE
    /\ Raise("role")
    /\ UNCHANGED <<loopVars, kind, listVars, consent, convVars, ret, subVars,
                   stray, given>>

\* talk_to_user: the last message of the list is rewritten into an agent
\* message without tool requests.
RewriteLastMessage ==
    IF last = "request"
       THEN shown' = shown \ {current} /\ stray' = stray
       ELSE shown' = shown /\ stray' = stray \cup ({current} \cap shown)

TalkToUser ==
    /\ Processing({"talk"}) /\ last # "result"
    /\ RewriteLastMessage
    /\ last' = "agent" /\ current' = NoId
    /\ ReturnWith(EndOfTurn)
    /\ UNCHANGED <<iter, kind, results, queue, exitAsked, consent, convVars,
                   subVars, error, given>>

\* Without its parameter the LLM is reminded with append_user_message, which a
\* status that waits for a tool, a confirmation or a login refuses.
TalkToUserMisused ==
    /\ Processing({"badtalk"}) /\ last # "result"
    /\ RewriteLastMessage
    /\ IF status.type \in {"tool", "confirm", "auth"}
          THEN /\ Raise("refused") /\ last' = "agent"
               /\ UNCHANGED <<current, handled>>
          ELSE /\ current' = NoId
               /\ last' = IF status.type = "user" /\ status.owner # "self"
                             THEN "agent" ELSE "user"
               /\ handled' = (handled \/ status.type = "user")
               /\ UNCHANGED <<pc, error>>
    /\ UNCHANGED <<iter, kind, results, queue, exitAsked, consent, status,
                   submitted, ret, subVars, given>>

\* A tool result in its place is an internal error.
TalkToUserFails ==
    /\ Processing(TalkKinds) /\ last = "result"
    /\ Raise("talk")
    /\ UNCHANGED <<loopVars, kind, listVars, exitAsked, consent, convVars, ret,
                   subVars, stray, given>>

-----------------------------------------------------------------------------
Caller == \/ UserMessage \/ SubmitToolResult \/ AppendToolResult
          \/ AppendLateResult \/ DecideConfirmation \/ Execute

Generation == StartGeneration \/ GenerateText \/ GenerateRequests
              \/ GenerationFails \/ Decided

ToolCall == \/ RunServerTool \/ ServerToolRaises \/ OutputNotCopyable
            \/ AskConfirmation \/ ConfirmationMissing \/ AnswerWithoutRunning
            \/ RunClientTool
            \/ SubAnswers \/ SubRaises \/ SubYields
            \/ SubmitOutputs \/ EndConversation \/ EndConversationRefused
            \/ TalkToUser \/ TalkToUserMisused \/ TalkToUserFails

Run == \/ TakeNextRequest \/ IterationLimit \/ Generation \/ ToolCall
       \/ Return \/ InterruptReturn \/ Interrupt

Next == Caller \/ Run

Spec == Init /\ [][Next]_vars
\* An execution that was started is carried on by the event loop; nothing
\* obliges the caller to act.
FairSpec == Spec /\ WF_vars(Run)

-----------------------------------------------------------------------------
(* Properties.                                                             *)

TypeOK ==
    /\ pc \in {"idle", "loop", "prompt", "decided", "return"}
    /\ iter \in 0..MaxIterations
    /\ kind \in [Ids -> AllKinds \cup {"none"}]
    /\ shown \subseteq Ids
    /\ results \in [Ids -> 0..MaxResults]
    /\ last \in {"none", "user", "agent", "request", "result"}
    /\ queue \in Seq(Ids)
    /\ current \in Ids \cup {NoId}
    /\ exitAsked \in BOOLEAN
    /\ consent \in [Ids -> {"none", "asked", "confirmed", "rejected"}]
    /\ status \in Statuses /\ handled \in BOOLEAN
    /\ submitted \in [Ids -> 0..MaxResults] /\ given \in [Ids -> 0..MaxResults]
    /\ ret \in Statuses
    /\ subStatus \in [Subs -> SubStatuses]
    /\ subAnswered \in [Subs -> BOOLEAN]
    /\ error \in {"none", "llm", "tool", "copy", "confirm", "sub", "role",
                  "refused", "talk"}
    /\ stray \subseteq Ids

Settled(r) == results[r] > 0 \/ r \in stray

\* Every request of the message list has been answered when the LLM is
\* prompted, apart from requests whose answer went to another status object or
\* over another message: no yield, resumption, interrupt or exception leaves a
\* request behind (the "missing tool_call_id" error of the LLM providers).
PromptComplete == pc = "prompt" => \A r \in shown : Settled(r)

\* A ToolRequestStatus lists, until it is handled, requests that have no result
\* yet, among them the one the agent is stopped at: answering all of them lets
\* the agent move on and answers nothing twice.
AskedAreOpen ==
    pc = "idle" /\ status.type = "tool" /\ status.owner = "self" /\ ~handled
        => /\ current \in status.reqs
           /\ \A r \in status.reqs : r \in shown /\ results[r] = 0

\* However often runs are interrupted, resumed or fail: no request for a server
\* tool, a sub-agent or a sub-flow gets two results, and a client request gets
\* no result but those the caller gave, each posted once; with raise_exceptions
\* one more, because it may be skipped (SkippedWereOpen).  The built-in tools
\* stay current when they end a run and are answered again by the next one.
Skips == IF RaiseExceptions THEN 1 ELSE 0
AnsweredOnce ==
    \A r \in Ids :
        /\ kind[r] \in ServerKinds \cup Subs \cup {"unknown"}
              => results[r] <= 1
        /\ kind[r] = "client" => results[r] <= given[r] + Skips

\* After the exception of a tool or of a sub-component was raised to the
\* caller, no request of the list is left without a result.
RaiseLeavesNothingOpen ==
    pc = "idle" /\ error \in {"tool", "sub"} => \A r \in shown : Settled(r)

\* Every execution returns or raises: the iteration limit bounds the prompts
\* and every request of a batch is processed or yields.
ExecutionEnds == pc # "idle" ~> pc = "idle"

\* A sub-conversation that waits for client results is one the caller was told
\* about (unless the run was interrupted on its way out): its request cannot
\* be forgotten while the caller sees some other status.
SubRequestVisible ==
    \A k \in Subs :
        pc = "idle" /\ subStatus[k] = "tool" /\ ~subAnswered[k]
            => \/ status.type = "tool" /\ status.owner = k
               \/ status.type = "interrupted"

-----------------------------------------------------------------------------
(* Claims of the sources that the code does not keep.                      *)

\* _agentexecutor.py:933: "Before raising, add error responses for any remaining
\* tools in queue", each one saying "Tool execution skipped": a request that is
\* skipped has no result yet.
SkippedWereOpen ==
    [][error' \in {"tool", "sub"} /\ error # error'
        => \A r \in Range(queue) : results[r] = 0]_vars

=============================================================================

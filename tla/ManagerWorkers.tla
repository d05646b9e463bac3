--------------------------- MODULE ManagerWorkers ---------------------------
(***************************************************************************)
(* ManagerWorkersRunner and ManagerWorkersConversation: a manager talks to *)
(* the user and sends messages to its workers, one at a time; a worker     *)
(* talks to the manager only.                                              *)
(*                                                                         *)
(* The manager's message list is kept as its last request message, which   *)
(* of its requests have a result, whether only results follow it, and the  *)
(* type of the last message.  A worker is an agent or a team of its own:   *)
(* the runner sees the status it returns and the type of its last message. *)
(* The executor of the agents is AgentExecutor, reduced to what the runner *)
(* sees of it.                                                             *)
(***************************************************************************)
EXTENDS Naturals, Sequences, FiniteSets

CONSTANTS
    Workers, Manager,
    MwMaxBatch,   \* bound: tool requests in a message
    MwMaxRounds   \* bound: messages with tool requests

ASSUME MwAssumption ==
    /\ Manager \notin Workers
    /\ MwMaxBatch \in Nat \ {0} /\ MwMaxRounds \in Nat

VARIABLES
    mwPc,         \* idle; loop; agent, prompted: the manager; worker
    mwCurrent,    \* current_agent_name
    mwBatch,      \* requests of the manager's last request message
    mwAnswered,   \* those with a result
    mwPlain,      \* only results follow the request message
    mwLast,       \* type of the manager's last message
    mwCur,        \* index of current_tool_request, or 0
    mwNext,       \* index of the head of tool_call_queue
    mwStatus,     \* status of the manager's sub-conversation
    mwWorker,     \* status of each worker's sub-conversation
    mwAsked,      \* index of the client request returned to the caller, or 0
    mwSubmitted,  \* the result the caller was asked for was submitted
    mwIrregular,  \* the caller executed without a result, or interjected
    mwError,      \* why the last execute raised
    mwRounds

mwListVars == <<mwBatch, mwAnswered, mwPlain, mwLast>>
mwQueueVars == <<mwCur, mwNext>>
mwManagerVars == <<mwListVars, mwQueueVars, mwStatus>>
mwCallVars == <<mwAsked, mwSubmitted, mwIrregular>>
mwVars == <<mwPc, mwCurrent, mwManagerVars, mwWorker, mwCallVars, mwError,
            mwRounds>>

\* A request for a name that is no worker is one for the Manager, and only
\* messages have a recipient.  Boxed: a client tool of a tool box.
MwRequest == [kind : {"server", "client", "boxed"}, to : {Manager}]
                \cup [kind : {"send"}, to : Workers \cup {Manager}]
MwStatuses == {"none", "user", "tool", "confirm", "finished", "interrupted"}
MwErrors == {"none", "list", "none open", "answer", "interrupted", "not submitted",
             "tool", "generation"}

MwInit ==
    /\ mwPc = "idle" /\ mwCurrent = Manager
    /\ mwBatch = <<>> /\ mwAnswered = {} /\ mwPlain = FALSE /\ mwLast = "none"
    /\ mwCur = 0 /\ mwNext = 1 /\ mwStatus = "none"
    /\ mwWorker = [w \in Workers |-> "none"]
    /\ mwAsked = 0 /\ mwSubmitted = FALSE /\ mwIrregular = FALSE
    /\ mwError = "none" /\ mwRounds = 0

MwOpen == DOMAIN mwBatch \ mwAnswered
IsOldest(i, S) == i \in S /\ \A j \in S : i <= j
MwRaise(e) == mwPc' = "idle" /\ mwError' = e
MwReturn == mwPc' = "idle" /\ mwError' = "none"

-----------------------------------------------------------------------------
(* The caller.                                                             *)

\* append_user_message goes to the manager's conversation, which refuses it
\* while its status is a request.
MwUserMessage ==
    /\ mwPc = "idle"
    /\ mwStatus \in {"none", "user", "interrupted", "finished"}
    /\ mwLast' = "user" /\ mwPlain' = FALSE
    /\ mwIrregular' = (mwIrregular \/ MwOpen # {})
    /\ UNCHANGED <<mwPc, mwCurrent, mwBatch, mwAnswered, mwQueueVars, mwStatus,
                   mwWorker, mwAsked, mwSubmitted, mwError, mwRounds>>

\* Whether the status of the current agent asks for a result.
AsksForResult == IF mwCurrent = Manager THEN mwAsked # 0
                                        ELSE mwWorker[mwCurrent] = "tool"

MwSubmit ==
    /\ mwPc = "idle" /\ AsksForResult /\ ~mwSubmitted
    /\ mwSubmitted' = TRUE
    /\ UNCHANGED <<mwPc, mwCurrent, mwManagerVars, mwWorker, mwAsked,
                   mwIrregular, mwError, mwRounds>>

\* A missing result is noticed by the conversation of a worker, and by nobody
\* when it is the manager's.
MwExecute ==
    /\ mwPc = "idle"
    /\ IF mwCurrent # Manager /\ AsksForResult /\ ~mwSubmitted
          THEN MwRaise("not submitted") /\ UNCHANGED <<mwSubmitted, mwIrregular>>
          ELSE /\ mwError' = "none"
               /\ mwPc' = IF mwCurrent # Manager THEN "worker"
                          ELSE IF mwStatus = "tool" THEN "loop" ELSE "agent"
               /\ mwSubmitted' = (mwCurrent = Manager /\ mwSubmitted)
               /\ mwIrregular' = (mwIrregular \/ (AsksForResult /\ ~mwSubmitted))
    /\ UNCHANGED <<mwCurrent, mwManagerVars, mwWorker, mwAsked, mwRounds>>

-----------------------------------------------------------------------------
(* _handle_pending_tool_requests_of_manager                                *)

\* First, a submitted result goes to the list and the next request becomes the
\* current one.
Shown == IF mwSubmitted THEN mwAnswered \cup {mwAsked} ELSE mwAnswered
Taken == IF mwCur = 0 /\ mwNext <= Len(mwBatch) THEN mwNext ELSE mwCur
TakeNext == mwNext' = IF Taken = mwCur THEN mwNext ELSE mwNext + 1
MwOldest(i) == IsOldest(i, DOMAIN mwBatch \ Shown)

Handles(kind) == /\ mwPc = "loop" /\ Taken # 0
                 /\ mwBatch[Taken].kind = kind
                 /\ UNCHANGED <<mwBatch, mwIrregular, mwRounds>>
Settle(answered) ==
    /\ mwAnswered' = answered
    /\ mwLast' = IF answered = mwAnswered THEN mwLast ELSE "result"
    /\ mwSubmitted' = FALSE
    /\ TakeNext

\* No request is left, or it is one the agent handles itself; a client tool of a
\* tool box, which is looked for among the manager's own tools only, is taken
\* for one.
MwResumeManager ==
    /\ mwPc = "loop"
    /\ Taken # 0 => mwBatch[Taken].kind \in {"server", "boxed"}
    /\ Settle(Shown) /\ mwCur' = Taken /\ mwAsked' = 0
    /\ mwStatus' = "none" /\ mwPc' = "agent"
    /\ UNCHANGED <<mwCurrent, mwBatch, mwPlain, mwWorker, mwIrregular, mwError,
                   mwRounds>>

\* One client request at a time is returned.
MwAskCaller ==
    /\ Handles("client")
    /\ Settle(Shown) /\ mwCur' = 0 /\ mwAsked' = Taken
    /\ MwReturn
    /\ UNCHANGED <<mwCurrent, mwPlain, mwStatus, mwWorker>>

\* The request of a message is looked up in the list: the oldest one without
\* a result.  The list must end with a request message and results to it.
Unfound == ~mwPlain \/ DOMAIN mwBatch \subseteq Shown

MwLookupFails ==
    /\ Handles("send") /\ Unfound
    /\ Settle(Shown) /\ mwCur' = Taken /\ mwAsked' = 0
    /\ MwRaise(IF mwPlain THEN "none open" ELSE "list")
    /\ UNCHANGED <<mwCurrent, mwPlain, mwStatus, mwWorker>>

\* Mutant: the request gets no result.
MwRefuseBug(i) ==
    /\ Handles("send") /\ ~Unfound /\ MwOldest(i)
    /\ ~(mwBatch[i].kind = "send" /\ mwBatch[i].to \in Workers)
    /\ Settle(Shown) /\ mwCur' = 0 /\ mwAsked' = 0
    /\ UNCHANGED <<mwPc, mwCurrent, mwPlain, mwStatus, mwWorker, mwError>>

\* No recipient of that name: the request gets an error result.
MwRefuse(i) ==
    /\ Handles("send") /\ ~Unfound /\ MwOldest(i)
    /\ ~(mwBatch[i].kind = "send" /\ mwBatch[i].to \in Workers)
    /\ Settle(Shown \cup {i}) /\ mwCur' = 0 /\ mwAsked' = 0
    /\ UNCHANGED <<mwPc, mwCurrent, mwPlain, mwStatus, mwWorker, mwError>>

\* Mutant: the newest request is delivered.
MwDeliverBug(i) ==
    /\ Handles("send") /\ ~Unfound /\ i = Len(mwBatch) /\ i \notin Shown
    /\ mwBatch[i].kind = "send" /\ mwBatch[i].to \in Workers
    /\ Settle(Shown) /\ mwCur' = 0 /\ mwAsked' = 0
    /\ mwCurrent' = mwBatch[i].to /\ mwPc' = "worker"
    /\ UNCHANGED <<mwPlain, mwStatus, mwWorker, mwError>>

\* The message is appended to the worker's conversation, and the worker runs.
MwDeliver(i) ==
    /\ Handles("send") /\ ~Unfound /\ MwOldest(i)
    /\ mwBatch[i].kind = "send" /\ mwBatch[i].to \in Workers
    /\ Settle(Shown) /\ mwCur' = 0 /\ mwAsked' = 0
    /\ mwCurrent' = mwBatch[i].to /\ mwPc' = "worker"
    /\ UNCHANGED <<mwPlain, mwStatus, mwWorker, mwError>>

-----------------------------------------------------------------------------
(* _run_manager_round                                                      *)

ManagerRuns == /\ mwPc \in {"agent", "prompted"}
               /\ UNCHANGED <<mwCurrent, mwWorker, mwCallVars>>

MwTakeRequest ==
    /\ ManagerRuns /\ mwCur = 0 /\ mwNext <= Len(mwBatch)
    /\ mwCur' = mwNext /\ mwNext' = mwNext + 1
    /\ UNCHANGED <<mwPc, mwListVars, mwStatus, mwError, mwRounds>>

Processes(kinds) == /\ ManagerRuns /\ mwCur # 0
                    /\ mwBatch[mwCur].kind \in kinds
                    /\ UNCHANGED <<mwBatch, mwPlain, mwRounds>>

MwRunServerTool ==
    /\ Processes({"server"})
    /\ mwAnswered' = mwAnswered \cup {mwCur} /\ mwLast' = "result" /\ mwCur' = 0
    /\ UNCHANGED <<mwPc, mwNext, mwStatus, mwError>>

\* The requests that are still queued are answered before the exception.
MwServerToolRaises ==
    /\ Processes({"server"})
    /\ mwAnswered' = mwAnswered \cup mwCur .. Len(mwBatch)
    /\ mwLast' = "result" /\ mwCur' = 0 /\ mwNext' = Len(mwBatch) + 1
    /\ MwRaise("tool")
    /\ UNCHANGED mwStatus

\* The tool needs a confirmation or a sign-in.
MwServerToolYields ==
    /\ Processes({"server"})
    /\ mwStatus' = "confirm" /\ MwReturn
    /\ UNCHANGED <<mwAnswered, mwLast, mwQueueVars>>

\* The manager submits its outputs or ends the conversation: the request that
\* did it stays the current one, and is processed again if the team is executed
\* again.
MwFinishes ==
    /\ Processes({"server"})
    /\ mwAnswered' = mwAnswered \cup {mwCur} /\ mwLast' = "result"
    /\ mwStatus' = "finished" /\ MwReturn
    /\ UNCHANGED mwQueueVars

\* send_message is a client tool of the manager.  A boxed one comes back here
\* again and again.
MwRequestTools ==
    /\ Processes({"client", "boxed", "send"})
    /\ mwStatus' = "tool" /\ mwPc' = "loop"
    /\ UNCHANGED <<mwAnswered, mwLast, mwQueueVars, mwError>>

Prompts == ManagerRuns /\ mwCur = 0 /\ mwNext > Len(mwBatch)

MwGenerateRequests ==
    /\ Prompts /\ mwRounds < MwMaxRounds
    /\ \E n \in 1..MwMaxBatch : mwBatch' \in [1..n -> MwRequest]
    /\ mwAnswered' = {} /\ mwPlain' = TRUE /\ mwLast' = "request"
    /\ mwNext' = 1 /\ mwPc' = "prompted" /\ mwRounds' = mwRounds + 1
    /\ UNCHANGED <<mwCur, mwStatus, mwError>>

\* The manager's answer, with which the requests of its list are forgotten.
MwAnswerUser ==
    /\ Prompts
    /\ mwBatch' = <<>> /\ mwAnswered' = {} /\ mwPlain' = FALSE
    /\ mwLast' = "agent" /\ mwNext' = 1 /\ mwStatus' = "user"
    /\ MwReturn
    /\ UNCHANGED <<mwCur, mwRounds>>

\* After max_iterations prompts the manager asks for a user message whatever
\* its last message is, or finishes if there is no user to ask.
MwEnds(status) ==
    /\ Prompts
    /\ mwPc = "prompted" /\ mwLast = "result"
    /\ mwStatus' = status /\ MwReturn
    /\ UNCHANGED <<mwListVars, mwQueueVars, mwRounds>>

MwGenerationFails ==
    /\ Prompts /\ MwRaise("generation")
    /\ UNCHANGED <<mwManagerVars, mwRounds>>

\* An interrupt is returned unless the list is empty or ends with a request
\* message.
MwInterrupt ==
    /\ ManagerRuns
    /\ mwStatus' = "interrupted"
    /\ IF mwLast \in {"none", "request"} THEN MwRaise("interrupted") ELSE MwReturn
    /\ UNCHANGED <<mwListVars, mwQueueVars, mwRounds>>

-----------------------------------------------------------------------------
(* _run_worker_round, for the current worker                               *)

WorkerRuns(status) ==
    /\ mwPc = "worker"
    /\ mwWorker' = [mwWorker EXCEPT ![mwCurrent] = status]
    /\ UNCHANGED <<mwBatch, mwPlain, mwQueueVars, mwStatus, mwCallVars, mwRounds>>
ManagerWaits == UNCHANGED <<mwCurrent, mwAnswered, mwLast>>

\* _send_message_to_manager: the answer is the result of the manager's oldest
\* request without one.  There is one, and the list is as the look-up wants it
\* (OneWorkerAtWork), so it cannot fail here.
MwWorkerAnswers(i) ==
    /\ WorkerRuns("user") /\ mwPlain /\ IsOldest(i, MwOpen)
    /\ mwAnswered' = mwAnswered \cup {i} /\ mwLast' = "result"
    /\ mwCurrent' = Manager
    /\ mwPc' = IF mwStatus = "tool" THEN "loop" ELSE "agent"
    /\ UNCHANGED mwError

\* After max_iterations prompts its last message need not be an answer.
MwWorkerExhausts ==
    /\ WorkerRuns("user") /\ MwRaise("answer") /\ ManagerWaits

\* The status of a worker is the status of the team; the manager's request
\* stays open.
MwWorkerYields(status) ==
    /\ WorkerRuns(status) /\ MwReturn /\ ManagerWaits

\* The runner refuses a status whose conversation ends with a request message:
\* the worker was interrupted, or it is a team whose own worker finished.
MwWorkerRefused(status) ==
    /\ WorkerRuns(status) /\ MwRaise("interrupted") /\ ManagerWaits

MwWorkerRaises ==
    /\ WorkerRuns(mwWorker[mwCurrent]) /\ MwRaise("generation") /\ ManagerWaits

-----------------------------------------------------------------------------
MwCaller == MwUserMessage \/ MwSubmit \/ MwExecute
MwLoop == \/ MwResumeManager \/ MwAskCaller \/ MwLookupFails
          \/ \E i \in DOMAIN mwBatch : MwRefuse(i) \/ MwDeliver(i)
MwRound == \/ MwTakeRequest \/ MwRunServerTool \/ MwServerToolRaises
           \/ MwServerToolYields \/ MwFinishes \/ MwRequestTools
           \/ MwGenerateRequests
           \/ MwAnswerUser \/ (\E s \in {"user", "finished"} : MwEnds(s))
           \/ MwGenerationFails \/ MwInterrupt
MwWork == \/ \E i \in DOMAIN mwBatch : MwWorkerAnswers(i)
          \/ MwWorkerExhausts \/ MwWorkerRaises
          \/ \E s \in {"tool", "confirm", "finished", "interrupted"} : MwWorkerYields(s)
          \/ \E s \in {"finished", "interrupted"} : MwWorkerRefused(s)

MwNext == MwCaller \/ MwLoop \/ MwRound \/ MwWork
MwSpec == MwInit /\ [][MwNext]_mwVars

-----------------------------------------------------------------------------
(* Properties.                                                             *)

MwTypeOK ==
    /\ mwPc \in {"idle", "loop", "agent", "prompted", "worker"}
    /\ mwCurrent \in Workers \cup {Manager}
    /\ mwBatch \in Seq(MwRequest) /\ Len(mwBatch) <= MwMaxBatch
    /\ mwAnswered \subseteq DOMAIN mwBatch
    /\ mwPlain \in BOOLEAN
    /\ mwLast \in {"none", "user", "agent", "request", "result"}
    /\ mwCur \in 0..Len(mwBatch) /\ mwNext \in 1..(Len(mwBatch) + 1)
    /\ mwStatus \in MwStatuses
    /\ mwWorker \in [Workers -> MwStatuses]
    /\ mwAsked \in 0..Len(mwBatch) /\ mwSubmitted \in BOOLEAN
    /\ mwIrregular \in BOOLEAN
    /\ mwError \in MwErrors /\ mwRounds \in 0..MwMaxRounds

\* While a worker is the current agent, whatever it returned to the caller and
\* however often it was resumed, the manager's oldest request without a result
\* is the message to that worker: its answer goes to the right request.  No
\* other worker is left with a question to the caller, so that a message to it
\* is accepted (_send_message_to_worker, _send_message_to_manager).
OneWorkerAtWork ==
    /\ mwCurrent # Manager =>
          /\ mwStatus = "tool" /\ mwPlain
          /\ \E i \in MwOpen : IsOldest(i, MwOpen)
                /\ mwBatch[i] = [kind |-> "send", to |-> mwCurrent]
    /\ \A w \in Workers \ {mwCurrent} : mwWorker[w] \in {"none", "user"}

\* Unless the caller leaves out a result or writes between a request and its
\* result, the manager is prompted only when every request of its last request
\* message has a result, and the runner finds every request it looks for.
ManagerIsPrompted ==
    ~mwIrregular =>
        /\ mwPc \in {"agent", "prompted"} /\ mwCur = 0 /\ mwNext > Len(mwBatch)
              => MwOpen = {}
        /\ mwError \notin {"list", "none open"}
=============================================================================

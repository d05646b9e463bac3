----------------------------- MODULE McpRuntime -----------------------------
(***************************************************************************)
(* The sessions AsyncRuntime keeps for one MCP transport, and the OAuth    *)
(* hand-over of OAuthFlowHandler.                                          *)
(*                                                                         *)
(* Threads call get_or_create_session for their conversation and submit    *)
(* the answers of authorization challenges; the session runners and the    *)
(* event handlers run on the loop of the portal.  What a thread does       *)
(* between two portal calls is one step, and so is what a runner does      *)
(* between two awaits.  Creating a session starts a flow: one memory       *)
(* stream, one runner and, when the transport has an OAuthConfig, one      *)
(* OAuthFlowHandler.  The MCP server is external: a connection may         *)
(* succeed, fail, or ask for authorization.                                *)
(***************************************************************************)
EXTENDS Naturals, FiniteSets

CONSTANTS
    Callers,   \* threads that use the transport
    Convs,     \* conversation ids
    ConvOf,    \* the conversation each thread runs
    NoCaller, NoConv,
    MaxFlows,  \* bound: sessions created, over all lives of the runtime
    MaxLives   \* bound: initializations of the runtime

ASSUME McpAssumption ==
    /\ ConvOf \in [Callers -> Convs]
    /\ NoCaller \notin Callers /\ NoConv \notin Convs
    /\ IsFiniteSet(Callers)
    /\ MaxFlows \in Nat /\ MaxLives \in Nat \ {0}

\* Flows are numbered in the order they are created in.
Flows == 1..MaxFlows
NoFlow == 0

VARIABLES
    mcpAuth,      \* the transport has an OAuthConfig
    mcpPhase,     \* live; closed: _close has run; closing: the portal is being
                  \* left; down
    mcpLife,      \* how many times the runtime was initialized
    mcpClosed,    \* _closed
    mcpLock,      \* holder of the transport's lock
    mcpTable,     \* _client_sessions of the transport: flow of the session
    mcpHandler,   \* _oauth_handlers of the transport: flow of the handler
    mcpPc,        \* what each thread does
    mcpFlow,      \* the flow it creates, cancels or answers, in a call
    mcpOwner,     \* conversation of each flow
    mcpRunner,    \* state of its session_runner
    mcpResult,    \* _callback_result of its handler
    mcpSubmitted, \* flows whose callbackresult_submitted_event is set
    mcpEvents,    \* _memory_streams and _cancel_events, by their flows
    mcpStopped    \* flows whose stream is closed and cancel event set

mcpRuntimeVars == <<mcpPhase, mcpLife, mcpClosed>>
mcpTableVars == <<mcpLock, mcpTable, mcpHandler>>
mcpCallerVars == <<mcpPc, mcpFlow>>
mcpEventVars == <<mcpResult, mcpSubmitted, mcpEvents, mcpStopped>>
mcpVars == <<mcpAuth, mcpRuntimeVars, mcpTableVars, mcpCallerVars, mcpOwner,
             mcpRunner, mcpEventVars>>

Runners == {"new", "bound", "connecting", "completed", "challenging", "waiting",
            "exchanging", "failing", "serving", "dead"}
\* Inside of get_or_create_session, after the look-up without the lock.
Creating == {"missed", "cancelling", "binding", "starting", "receiving"}
Results == {"none", "code", "error", "cancelled"}

McpInit ==
    /\ mcpAuth \in BOOLEAN
    /\ mcpPhase = "live" /\ mcpLife = 1 /\ mcpClosed = FALSE
    /\ mcpLock = NoCaller
    /\ mcpTable = [v \in Convs |-> NoFlow]
    /\ mcpHandler = [v \in Convs |-> NoFlow]
    /\ mcpPc = [c \in Callers |-> "idle"]
    /\ mcpFlow = [c \in Callers |-> NoFlow]
    /\ mcpOwner = [f \in Flows |-> NoConv]
    /\ mcpRunner = [f \in Flows |-> "new"]
    /\ mcpResult = [f \in Flows |-> "none"]
    /\ mcpSubmitted = {} /\ mcpEvents = {} /\ mcpStopped = {}

-----------------------------------------------------------------------------
(* get_or_create_session, in a thread                                      *)

\* A thread that is in the middle of a call can always create its flow.
FlowsLeft == Cardinality({f \in Flows : mcpRunner[f] = "new"})
                > Cardinality({c \in Callers : mcpPc[c] \in Creating})

\* _portal is set: until shutdown has closed the sessions and beyond.
PortalThere == mcpPhase \in {"live", "closed"}

Return(c, pc) ==
    /\ mcpPc' = [mcpPc EXCEPT ![c] = pc]
    /\ mcpFlow' = [mcpFlow EXCEPT ![c] = NoFlow]

\* The first look-up, without the lock.  A thread whose user was asked for
\* authorization may also come back without an answer.
LookUp(c) ==
    /\ PortalThere /\ mcpPc[c] \in {"idle", "challenged"} /\ FlowsLeft
    /\ Return(c, IF mcpTable[ConvOf[c]] # NoFlow THEN "idle" ELSE "missed")
    /\ UNCHANGED <<mcpAuth, mcpRuntimeVars, mcpTableVars, mcpOwner, mcpRunner,
                   mcpEventVars>>

\* With the lock, the session is there by now ...
FindLocked(c) ==
    /\ mcpPc[c] = "missed" /\ mcpLock = NoCaller
    /\ mcpTable[ConvOf[c]] # NoFlow
    /\ Return(c, "idle")
    /\ UNCHANGED <<mcpAuth, mcpRuntimeVars, mcpTableVars, mcpOwner, mcpRunner,
                   mcpEventVars>>

\* Mutant: the table is not read again.
LockToCreateBug(c) ==
    /\ mcpPc[c] = "missed" /\ mcpLock = NoCaller
    /\ mcpLock' = c
    /\ LET h == mcpHandler[ConvOf[c]]
       IN  /\ mcpFlow' = [mcpFlow EXCEPT ![c] = h]
           /\ mcpPc' = [mcpPc EXCEPT ![c] =
                            IF h # NoFlow THEN "cancelling" ELSE "binding"]
           /\ mcpResult' = [f \in Flows |->
                            IF f = h THEN "cancelled" ELSE mcpResult[f]]
    /\ UNCHANGED <<mcpAuth, mcpRuntimeVars, mcpTable, mcpHandler,
                   mcpOwner, mcpRunner, mcpSubmitted, mcpEvents, mcpStopped>>

\* Mutant: a handler that exists is replaced without being cancelled.
LockToReplaceBug(c) ==
    /\ mcpPc[c] = "missed" /\ mcpLock = NoCaller
    /\ mcpTable[ConvOf[c]] = NoFlow
    /\ mcpLock' = c
    /\ mcpPc' = [mcpPc EXCEPT ![c] = "binding"]
    /\ UNCHANGED <<mcpAuth, mcpRuntimeVars, mcpTable, mcpHandler, mcpFlow,
                   mcpOwner, mcpRunner, mcpEventVars>>

\* ... or it is created.  With OAuth, the result of a handler that exists is
\* replaced first, and its event is set by the portal after that.
LockToCreate(c) ==
    /\ mcpPc[c] = "missed" /\ mcpLock = NoCaller
    /\ mcpTable[ConvOf[c]] = NoFlow
    /\ mcpLock' = c
    /\ LET h == mcpHandler[ConvOf[c]]
       IN  /\ mcpFlow' = [mcpFlow EXCEPT ![c] = h]
           /\ mcpPc' = [mcpPc EXCEPT ![c] =
                            IF h # NoFlow THEN "cancelling" ELSE "binding"]
           /\ mcpResult' = [f \in Flows |->
                            IF f = h THEN "cancelled" ELSE mcpResult[f]]
    /\ UNCHANGED <<mcpAuth, mcpRuntimeVars, mcpTable, mcpHandler,
                   mcpOwner, mcpRunner, mcpSubmitted, mcpEvents, mcpStopped>>

\* _cancel_oauth_flow sets the event.
CancelPrevious(c) ==
    /\ mcpPc[c] = "cancelling" /\ PortalThere
    /\ mcpSubmitted' = mcpSubmitted \cup {mcpFlow[c]}
    /\ mcpPc' = [mcpPc EXCEPT ![c] = "binding"]
    /\ UNCHANGED <<mcpAuth, mcpRuntimeVars, mcpTableVars, mcpFlow,
                   mcpOwner, mcpRunner, mcpResult, mcpEvents, mcpStopped>>

\* The handler is bound and registered, and the stream and the cancel event are
\* there for _close to find.
BindFlow(c, f) ==
    /\ mcpPc[c] = "binding" /\ PortalThere
    /\ \A g \in Flows : mcpRunner[g] = "new" <=> g >= f
    /\ mcpOwner' = [mcpOwner EXCEPT ![f] = ConvOf[c]]
    /\ mcpRunner' = [mcpRunner EXCEPT ![f] = "bound"]
    /\ mcpHandler' = IF mcpAuth THEN [mcpHandler EXCEPT ![ConvOf[c]] = f]
                                ELSE mcpHandler
    /\ mcpEvents' = mcpEvents \cup {f}
    /\ mcpFlow' = [mcpFlow EXCEPT ![c] = f]
    /\ mcpPc' = [mcpPc EXCEPT ![c] = "starting"]
    /\ UNCHANGED <<mcpAuth, mcpRuntimeVars, mcpLock, mcpTable, mcpResult,
                   mcpSubmitted, mcpStopped>>

\* The runner is started, whether its stream is still open or not, and the
\* thread waits for what comes out of the stream.
StartRunner(c) ==
    /\ mcpPc[c] = "starting" /\ PortalThere
    /\ mcpRunner' = [mcpRunner EXCEPT ![mcpFlow[c]] = "connecting"]
    /\ mcpPc' = [mcpPc EXCEPT ![c] = "receiving"]
    /\ UNCHANGED <<mcpAuth, mcpRuntimeVars, mcpTableVars, mcpFlow, mcpOwner,
                   mcpEventVars>>

\* Without a portal, a thread that needs it gets a RuntimeError.
PortalGone(c) ==
    /\ mcpPc[c] \in {"cancelling", "binding", "starting", "submitting", "completing"}
    /\ ~PortalThere
    /\ mcpRunner' = [f \in Flows |-> IF mcpPc[c] = "starting" /\ f = mcpFlow[c]
                                        THEN "dead" ELSE mcpRunner[f]]
    /\ mcpLock' = IF mcpPc[c] \in Creating THEN NoCaller ELSE mcpLock
    /\ Return(c, "idle")
    /\ UNCHANGED <<mcpAuth, mcpRuntimeVars, mcpTable, mcpHandler, mcpOwner,
                   mcpEventVars>>

\* The stream is closed: the thread that waits for it gets an error.
ReceiveClosed(c) ==
    /\ mcpPc[c] = "receiving" /\ mcpFlow[c] \in mcpStopped
    /\ mcpLock' = NoCaller /\ Return(c, "idle")
    /\ UNCHANGED <<mcpAuth, mcpRuntimeVars, mcpTable, mcpHandler, mcpOwner,
                   mcpRunner, mcpEventVars>>

\* The stream has no buffer: the runner goes on when the thread receives.
Hear(c, said, heard) ==
    /\ mcpPc[c] = "receiving" /\ mcpFlow[c] \notin mcpStopped
    /\ mcpRunner[mcpFlow[c]] = said
    /\ mcpRunner' = [mcpRunner EXCEPT ![mcpFlow[c]] = heard]
    /\ mcpLock' = NoCaller
    /\ UNCHANGED <<mcpAuth, mcpRuntimeVars, mcpTable, mcpHandler, mcpOwner,
                   mcpEventVars>>

\* The session is read from the table, where the runner has put it: a KeyError
\* if it was cleared since.
ReceiveSession(c) ==
    Hear(c, "completed", "serving") /\ Return(c, "idle")

\* AuthInterrupt, with the challenge in its status.
ReceiveChallenge(c) ==
    Hear(c, "challenging", "waiting") /\ Return(c, "challenged")

ReceiveError(c) ==
    Hear(c, "failing", "dead") /\ Return(c, "idle")

-----------------------------------------------------------------------------
(* AuthChallengeRequestStatus.submit_result, in a thread                   *)

\* The handler is found by transport and conversation: it may be a newer one
\* than the handler whose challenge was answered.
Submit(c, answer) ==
    /\ PortalThere /\ mcpPc[c] = "challenged"
    /\ mcpFlow' = [mcpFlow EXCEPT ![c] = mcpHandler[ConvOf[c]]]
    /\ mcpResult' = [mcpResult EXCEPT ![mcpHandler[ConvOf[c]]] = answer]
    /\ mcpPc' = [mcpPc EXCEPT ![c] = "submitting"]
    /\ UNCHANGED <<mcpAuth, mcpRuntimeVars, mcpTableVars, mcpOwner,
                   mcpRunner, mcpSubmitted, mcpEvents, mcpStopped>>

SubmitWakes(c) ==
    /\ mcpPc[c] = "submitting" /\ PortalThere
    /\ mcpSubmitted' = mcpSubmitted \cup {mcpFlow[c]}
    /\ mcpPc' = [mcpPc EXCEPT ![c] = "completing"]
    /\ UNCHANGED <<mcpAuth, mcpRuntimeVars, mcpTableVars, mcpFlow,
                   mcpOwner, mcpRunner, mcpResult, mcpEvents, mcpStopped>>

\* It waits for oauth_flow_completed_event, for oauth_completion_timeout at
\* most, and does the same in both cases: the event itself is left out.
SubmitReturns(c) ==
    /\ mcpPc[c] = "completing" /\ Return(c, "idle")
    /\ UNCHANGED <<mcpAuth, mcpRuntimeVars, mcpTableVars, mcpOwner, mcpRunner,
                   mcpEventVars>>

-----------------------------------------------------------------------------
(* session_runner and OAuthFlowHandler, on the portal's loop               *)

Become(f, s) == mcpRunner' = [mcpRunner EXCEPT ![f] = s]
Register(f) == mcpTable' = [mcpTable EXCEPT ![mcpOwner[f]] = f]

Connect(f) ==
    /\ mcpRunner[f] = "connecting" /\ ~mcpAuth
    /\ Register(f) /\ Become(f, "completed")
    /\ UNCHANGED <<mcpAuth, mcpRuntimeVars, mcpLock, mcpHandler,
                   mcpCallerVars, mcpOwner, mcpEventVars>>

\* The server does not ask for the authorization it was configured for: nothing
\* is sent to the thread that waits.
ConnectUnasked(f) ==
    /\ mcpRunner[f] = "connecting" /\ mcpAuth
    /\ Register(f) /\ Become(f, "serving")
    /\ UNCHANGED <<mcpAuth, mcpRuntimeVars, mcpLock, mcpHandler,
                   mcpCallerVars, mcpOwner, mcpEventVars>>

\* redirect_handler
Challenge(f) ==
    /\ mcpRunner[f] = "connecting" /\ mcpAuth
    /\ Become(f, "challenging")
    /\ UNCHANGED <<mcpAuth, mcpRuntimeVars, mcpTableVars, mcpCallerVars,
                   mcpOwner, mcpEventVars>>

\* Mutant: the error ends the runner and is not sent.
FailBug(f) ==
    /\ mcpRunner[f] \in {"connecting", "exchanging"}
    /\ Become(f, "dead")
    /\ UNCHANGED <<mcpAuth, mcpRuntimeVars, mcpTableVars, mcpCallerVars,
                   mcpOwner, mcpEventVars>>

\* An error before the session is initialized.
Fail(f) ==
    /\ mcpRunner[f] \in {"connecting", "exchanging"}
    /\ Become(f, "failing")
    /\ UNCHANGED <<mcpAuth, mcpRuntimeVars, mcpTableVars, mcpCallerVars,
                   mcpOwner, mcpEventVars>>

\* callback_handler: no result in time, or one that says error.
CallbackFails(f) ==
    /\ mcpRunner[f] = "waiting"
    /\ f \in mcpSubmitted => mcpResult[f] = "error"
    /\ Become(f, "failing")
    /\ UNCHANGED <<mcpAuth, mcpRuntimeVars, mcpTableVars, mcpCallerVars,
                   mcpOwner, mcpEventVars>>

\* It reads the result that is there when it wakes up.
CallbackResumes(f) ==
    /\ mcpRunner[f] = "waiting" /\ f \in mcpSubmitted
    /\ \/ mcpResult[f] = "code" /\ Become(f, "exchanging")
       \/ mcpResult[f] = "cancelled" /\ Become(f, "dead")
    /\ UNCHANGED <<mcpAuth, mcpRuntimeVars, mcpTableVars, mcpCallerVars,
                   mcpOwner, mcpEventVars>>

\* The token exchange and the initialization of the session succeed.
Authorized(f) ==
    /\ mcpRunner[f] = "exchanging"
    /\ Register(f) /\ Become(f, "serving")
    /\ UNCHANGED <<mcpAuth, mcpRuntimeVars, mcpLock, mcpHandler,
                   mcpCallerVars, mcpOwner, mcpEventVars>>

\* Its cancel event is set, or its stream is closed when it sends.
RunnerStops(f) ==
    /\ mcpRunner[f] \in {"serving", "completed", "challenging", "failing"}
    /\ f \in mcpStopped
    /\ Become(f, "dead")
    /\ UNCHANGED <<mcpAuth, mcpRuntimeVars, mcpTableVars, mcpCallerVars,
                   mcpOwner, mcpEventVars>>

\* The connection breaks: the session of a runner that died stays registered.
ConnectionLost(f) ==
    /\ mcpRunner[f] = "serving"
    /\ Become(f, "dead")
    /\ UNCHANGED <<mcpAuth, mcpRuntimeVars, mcpTableVars, mcpCallerVars,
                   mcpOwner, mcpEventVars>>

-----------------------------------------------------------------------------
(* shutdown and initialize                                                 *)

\* Mutant: the cancel events are cleared and not set.
CloseBug ==
    /\ mcpPhase = "live"
    /\ mcpPhase' = "closed" /\ mcpClosed' = TRUE
    /\ mcpEvents' = {}
    /\ UNCHANGED <<mcpAuth, mcpLife, mcpTableVars, mcpCallerVars, mcpOwner,
                   mcpRunner, mcpResult, mcpSubmitted, mcpStopped>>

\* _close: the streams are closed, the handlers cancelled, which stay registered,
\* and the cancel events set.  It does nothing the second time.  Threads may be
\* anywhere in a call.
Close ==
    /\ mcpPhase = "live"
    /\ mcpPhase' = "closed" /\ mcpClosed' = TRUE
    /\ IF mcpClosed
          THEN UNCHANGED mcpEventVars
          ELSE LET handlers == {mcpHandler[v] : v \in Convs} \ {NoFlow}
               IN  /\ mcpResult' = [f \in Flows |-> IF f \in handlers
                                       THEN "cancelled" ELSE mcpResult[f]]
                   /\ mcpSubmitted' = mcpSubmitted \cup handlers
                   /\ mcpStopped' = mcpStopped \cup mcpEvents
                   /\ mcpEvents' = {}
    /\ UNCHANGED <<mcpAuth, mcpLife, mcpTableVars, mcpCallerVars, mcpOwner,
                   mcpRunner>>

\* The sessions are forgotten, and no thread finds the portal any more.
Shutdown ==
    /\ mcpPhase = "closed"
    /\ mcpPhase' = "closing"
    /\ mcpTable' = [v \in Convs |-> NoFlow]
    /\ UNCHANGED <<mcpAuth, mcpLife, mcpClosed, mcpLock, mcpHandler,
                   mcpCallerVars, mcpOwner, mcpRunner, mcpEventVars>>

\* The portal is left once its tasks have ended: the runners, and what the
\* threads wait for.
LeavePortal ==
    /\ mcpPhase = "closing"
    /\ \A f \in Flows : mcpRunner[f] \in {"new", "bound", "dead"}
    /\ \A c \in Callers : mcpPc[c] \notin {"receiving", "completing"}
    /\ mcpPhase' = "down"
    /\ UNCHANGED <<mcpAuth, mcpLife, mcpClosed, mcpTableVars, mcpCallerVars,
                   mcpOwner, mcpRunner, mcpEventVars>>

Initialize ==
    /\ mcpPhase = "down" /\ mcpLife < MaxLives
    /\ mcpPhase' = "live" /\ mcpLife' = mcpLife + 1
    /\ UNCHANGED <<mcpAuth, mcpClosed, mcpTableVars, mcpCallerVars, mcpOwner,
                   mcpRunner, mcpEventVars>>

-----------------------------------------------------------------------------
Call(c) ==
    \/ CancelPrevious(c) \/ (\E f \in Flows : BindFlow(c, f)) \/ StartRunner(c)
    \/ PortalGone(c) \/ ReceiveClosed(c)
    \/ ReceiveSession(c) \/ ReceiveChallenge(c) \/ ReceiveError(c)
    \/ SubmitWakes(c) \/ SubmitReturns(c)

Locked(c) == FindLocked(c) \/ LockToCreate(c)

Runner(f) ==
    \/ Connect(f) \/ ConnectUnasked(f) \/ Challenge(f) \/ Fail(f)
    \/ CallbackFails(f) \/ CallbackResumes(f) \/ Authorized(f) \/ RunnerStops(f)

McpNext ==
    \/ \E c \in Callers : \/ LookUp(c) \/ Locked(c) \/ Call(c)
                          \/ \E a \in {"code", "error"} : Submit(c, a)
    \/ \E f \in Flows : Runner(f) \/ ConnectionLost(f)
    \/ Close \/ Shutdown \/ LeavePortal \/ Initialize

McpSpec == McpInit /\ [][McpNext]_mcpVars

\* Threads go on, the lock is handed to a thread that waits for it again and
\* again, and the awaits of a runner end: answers of the server, or timeouts.
McpFairness ==
    /\ \A c \in Callers : WF_mcpVars(Call(c)) /\ SF_mcpVars(Locked(c))
    /\ \A f \in Flows : WF_mcpVars(Runner(f))
    /\ WF_mcpVars(Shutdown) /\ WF_mcpVars(LeavePortal)

McpFairSpec == McpSpec /\ McpFairness

-----------------------------------------------------------------------------
(* Properties.                                                             *)

McpTypeOK ==
    /\ mcpAuth \in BOOLEAN
    /\ mcpPhase \in {"live", "closed", "closing", "down"}
    /\ mcpLife \in 1..MaxLives /\ mcpClosed \in BOOLEAN
    /\ mcpLock \in Callers \cup {NoCaller}
    /\ mcpTable \in [Convs -> Flows \cup {NoFlow}]
    /\ mcpHandler \in [Convs -> Flows \cup {NoFlow}]
    /\ mcpPc \in [Callers -> Creating \cup
                  {"idle", "challenged", "submitting", "completing"}]
    /\ mcpFlow \in [Callers -> Flows \cup {NoFlow}]
    /\ mcpOwner \in [Flows -> Convs \cup {NoConv}]
    /\ mcpRunner \in [Flows -> Runners]
    /\ mcpResult \in [Flows -> Results]
    /\ mcpSubmitted \subseteq Flows
    /\ mcpEvents \subseteq Flows /\ mcpStopped \subseteq Flows

\* Without OAuth a conversation has one session at a time besides those that are
\* told to stop, whichever threads ask for it at the same time, over failures, a
\* shutdown in the middle of their calls and a restart of the runtime.
Alive(f) == mcpRunner[f] \notin {"new", "dead"} /\ f \notin mcpStopped
OneSession ==
    ~mcpAuth => \A f, g \in Flows :
        Alive(f) /\ Alive(g) /\ mcpOwner[f] = mcpOwner[g] => f = g

\* A flow that waits for an answer and was replaced by a newer one has been
\* woken, with a result to read: it cannot take an answer any more, and
\* shutdown, which reaches only registered handlers, need not cancel it.
ReplacedFlowsAreWoken ==
    \A f \in Flows :
        /\ mcpAuth /\ mcpRunner[f] \in {"connecting", "challenging", "waiting"}
        /\ mcpHandler[mcpOwner[f]] # f
        => f \in mcpSubmitted /\ mcpResult[f] # "none"

\* A server that is not protected though an OAuthConfig was given: its runner
\* tells nobody, and the thread keeps the lock of the transport.
Unasked == \E c \in Callers : /\ mcpPc[c] = "receiving" /\ mcpFlow[c] \in Flows
                              /\ mcpRunner[mcpFlow[c]] = "serving"

\* Every call gets a session, a challenge or an error, and the lock goes on to
\* the next thread, if the server is never Unasked (get_or_create_session).
CallsReturn ==
    []~Unasked => \A c \in Callers :
        mcpPc[c] \in Creating ~> mcpPc[c] \notin Creating

\* The first shutdown ends every runner, also those that wait for an answer or
\* for somebody to hear of their error, and every call it overlaps with: the
\* exit of the program does not hang, unless a thread registered its cancel
\* event after _close had set them all.
FirstShutdownEnds ==
    mcpPhase \in {"closed", "closing"} /\ mcpLife = 1
        ~> mcpPhase = "down" \/ mcpEvents # {}
=============================================================================

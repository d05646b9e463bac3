----------------------------- MODULE RemoteAgent -----------------------------
(***************************************************************************)
(* Conversations with a remote agent: A2AAgentExecutor, which sends each   *)
(* new message to an A2A server and polls the tasks that come of them, and *)
(* OciAgentExecutor, which sends all new messages as one prompt.           *)
(*                                                                         *)
(* The remote side is external: a call may be received and answered,       *)
(* received without an answer that arrives, or not received; a task may    *)
(* take any time.  Retries end in an answer or an exception.               *)
(***************************************************************************)
EXTENDS Integers, Sequences

CONSTANTS
    RaMaxMessages  \* bound: length of the message list

ASSUME RaAssumption == RaMaxMessages \in Nat \ {0, 1}

VARIABLES
    raKind,      \* "a2a" or "oci"
    raList,      \* who wrote each message
    raMark,      \* last_message_idx + 1, or last_sent_message
    raPc,        \* idle, sending, polling; posting to OCI
    raTasks,     \* tasks to poll, by the index of their message
    raReplies,   \* answers that arrived in this execution
    raReceived   \* messages the remote side has received

raVars == <<raKind, raList, raMark, raPc, raTasks, raReplies, raReceived>>
raCallVars == <<raTasks, raReplies>>

RaIndices == 1..RaMaxMessages
RaNew == raMark + 1 .. Len(raList)

\* A conversation may be started with messages.
RaInit ==
    /\ raKind \in {"a2a", "oci"}
    /\ raList \in {<<>>, <<"agent">>} /\ raMark = 0 /\ raPc = "idle"
    /\ raTasks = {} /\ raReplies = 0
    /\ raReceived = {}

RaStops == raPc' = "idle" /\ raTasks' = {} /\ raReplies' = 0
RaReceives(S) == raReceived' = raReceived \cup S

\* The conversation always has room for the answer to what was sent.  Nobody writes
\* while an execution awaits the agent: last_message_idx would count that message
\* in the place of an answer.
RaUserWrites ==
    /\ raPc = "idle" /\ 2 * (Len(raList) + 1) - raMark <= RaMaxMessages
    /\ raList' = Append(raList, "user")
    /\ UNCHANGED <<raKind, raMark, raPc, raCallVars, raReceived>>

\* Without a new message the a2a agent returns the last message again, and the
\* OCI agent raises; nothing changes.
RaExecute ==
    /\ raPc = "idle" /\ RaNew # {}
    /\ raPc' = IF raKind = "a2a" THEN "sending" ELSE "posting"
    /\ UNCHANGED <<raKind, raList, raMark, raCallVars, raReceived>>

-----------------------------------------------------------------------------
(* A2AAgentExecutor                                                        *)

\* The reply names a task, or is an answer.
RaSend ==
    /\ raPc = "sending" /\ RaNew # {}
    /\ raMark' = raMark + 1 /\ RaReceives({raMark + 1})
    /\ \/ raTasks' = raTasks \cup {raMark + 1} /\ UNCHANGED raReplies
       \/ raReplies' \in raReplies .. raReplies + 1 /\ UNCHANGED raTasks
    /\ UNCHANGED <<raKind, raList, raPc>>

\* No reply: the tasks of this execution are forgotten.
RaSendFails ==
    /\ raPc = "sending" /\ RaNew # {}
    /\ \E S \in {{}, {raMark + 1}} : RaReceives(S)
    /\ RaStops
    /\ UNCHANGED <<raKind, raList, raMark>>

RaAllSent ==
    /\ raPc = "sending" /\ RaNew = {}
    /\ raPc' = "polling"
    /\ UNCHANGED <<raKind, raList, raMark, raCallVars, raReceived>>

\* poll_task, for the tasks in the order they were started in: the task is
\* completed or needs input.  Its history may have an answer.
RaPoll(m) ==
    /\ raPc = "polling" /\ m \in raTasks /\ \A n \in raTasks : m <= n
    /\ raTasks' = raTasks \ {m} /\ raReplies' \in raReplies .. raReplies + 1
    /\ UNCHANGED <<raKind, raList, raMark, raPc, raReceived>>

\* The task failed, the retries are used up, or the time; or, at the end, a
\* reply is none of a task.  No answer of this execution is kept.
RaPollFails ==
    /\ raPc = "polling"
    /\ RaStops
    /\ UNCHANGED <<raKind, raList, raMark, raReceived>>

\* Mutant: the answers are not counted as known.
RaAppendRepliesBug ==
    /\ raPc = "polling" /\ raTasks = {}
    /\ raList' = raList \o [i \in 1..raReplies |-> "agent"]
    /\ RaStops
    /\ UNCHANGED <<raKind, raMark, raReceived>>

\* All answers are converted before the first is appended.
RaAppendReplies ==
    /\ raPc = "polling" /\ raTasks = {}
    /\ raList' = raList \o [i \in 1..raReplies |-> "agent"]
    /\ raMark' = raMark + raReplies
    /\ RaStops
    /\ UNCHANGED <<raKind, raReceived>>

-----------------------------------------------------------------------------
(* OciAgentExecutor                                                        *)

\* An empty conversation gets the initial message, which counts as new.
RaGreet ==
    /\ raKind = "oci" /\ raPc = "idle" /\ raList = <<>>
    /\ raList' = <<"agent">>
    /\ UNCHANGED <<raKind, raMark, raPc, raCallVars, raReceived>>

\* One request with all new messages, of which the prompt that combines them keeps
\* the last 100 and the current one; longer backlogs are not told apart.
RaPost ==
    /\ raPc = "posting"
    /\ RaReceives(RaNew)
    /\ raList' = Append(raList, "agent") /\ raMark' = Len(raList) + 1
    /\ RaStops
    /\ UNCHANGED raKind

RaPostFails ==
    /\ raPc = "posting"
    /\ \E S \in {{}, RaNew} : RaReceives(S)
    /\ RaStops
    /\ UNCHANGED <<raKind, raList, raMark>>

-----------------------------------------------------------------------------
RaNext ==
    \/ RaUserWrites \/ RaExecute
    \/ RaSend \/ RaSendFails \/ RaAllSent \/ RaPollFails \/ RaAppendReplies
    \/ (\E m \in RaIndices : RaPoll(m))
    \/ RaGreet \/ RaPost \/ RaPostFails

RaSpec == RaInit /\ [][RaNext]_raVars

-----------------------------------------------------------------------------
(* Properties.                                                             *)

RaTypeOK ==
    /\ raKind \in {"a2a", "oci"}
    /\ raList \in Seq({"user", "agent"}) /\ Len(raList) <= RaMaxMessages
    /\ raMark \in 0..Len(raList)
    /\ raPc \in {"idle", "sending", "polling", "posting"}
    /\ raTasks \subseteq RaIndices /\ raReplies \in 0..RaMaxMessages
    /\ raReceived \subseteq RaIndices

\* Whatever was lost, timed out or failed between the sending of messages and
\* the answers: what counts as known was received if the user wrote it, so no
\* message is skipped; and what counts as new was written by the user, so no
\* answer is sent back to the agent it came from; only a greeting with which the
\* conversation began is (last_message_idx, last_sent_message).
MarkIsInStep ==
    /\ \A m \in 1..raMark : raList[m] = "user" => m \in raReceived
    /\ \A m \in RaNew : raList[m] = "agent" => m = 1
=============================================================================

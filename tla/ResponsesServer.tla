--------------------------- MODULE ResponsesServer ---------------------------
(***************************************************************************)
(* The OpenAI Responses server: the requests WayFlowOpenAIResponsesService *)
(* has in progress and the table of turns it stores them in.               *)
(*                                                                         *)
(* A request loads a turn, executes the conversation in it, and stores the *)
(* result as a new turn; only the execution is awaited, so loading is one  *)
(* step and storing is another.  Requests for the same conversation may be *)
(* in progress at the same time: each works on a copy of its own.  The     *)
(* messages of a turn are represented by the turns they were added in.     *)
(***************************************************************************)
EXTENDS Naturals, FiniteSets

CONSTANTS
    RsRequests,   \* requests in progress at the same time
    RsMaxTurns,   \* bound: turns stored
    RsMaxConvs    \* bound: conversations started

ASSUME RsAssumption == RsMaxTurns \in Nat /\ RsMaxConvs \in Nat

RsTurns == 1..RsMaxTurns
RsConvs == 1..RsMaxConvs
\* A request with no conversation is not in progress.
NoRequest == [conv |-> 0, seen |-> {}]

VARIABLES
    rsDurable,  \* the datastore is a database and not in memory
    rsStarted,  \* conversations started
    rsStored,   \* turns stored so far, numbered in this order
    rsConv,     \* conversation_id of each turn
    rsHistory,  \* the turns whose messages a turn includes
    rsRows,     \* turns in the table
    rsLast,     \* those with is_last_turn
    rsRequest,  \* the copy of a conversation each request works on
    rsForked    \* conversations continued from a turn that is not their last,
                \* or by two requests at the same time

rsTurnVars == <<rsStored, rsConv, rsHistory>>
rsTableVars == <<rsRows, rsLast>>
rsVars == <<rsDurable, rsStarted, rsTurnVars, rsTableVars, rsRequest, rsForked>>

RsInit ==
    /\ rsDurable \in BOOLEAN /\ rsStarted = 0 /\ rsStored = 0
    /\ rsConv = [t \in RsTurns |-> 0] /\ rsHistory = [t \in RsTurns |-> {}]
    /\ rsRows = {} /\ rsLast = {}
    /\ rsRequest = [r \in RsRequests |-> NoRequest] /\ rsForked = {}

RsOf(v) == {t \in RsTurns : rsConv[t] = v}

-----------------------------------------------------------------------------
(* create_response                                                         *)

RsStart(r) ==
    /\ rsRequest[r] = NoRequest /\ rsStarted < RsMaxConvs
    /\ rsStarted' = rsStarted + 1
    /\ rsRequest' = [rsRequest EXCEPT ![r].conv = rsStarted + 1]
    /\ UNCHANGED <<rsDurable, rsTurnVars, rsTableVars, rsForked>>

\* By previous_response_id; or by the id of a conversation, which must have
\* exactly one row that is its last turn.
RsContinue(r, t) ==
    /\ rsRequest[r] = NoRequest /\ t \in rsRows
    /\ rsRequest' = [rsRequest EXCEPT ![r] =
                        [conv |-> rsConv[t], seen |-> rsHistory[t]]]
    /\ rsForked' = IF \/ t \notin rsLast
                      \/ \E q \in RsRequests : rsRequest[q].conv = rsConv[t]
                      THEN rsForked \cup {rsConv[t]} ELSE rsForked
    /\ UNCHANGED <<rsDurable, rsStarted, rsTurnVars, rsTableVars>>

\* Mutant: the rows of the conversation keep their mark.
RsStoreBug(r, t) ==
    /\ rsRequest[r] # NoRequest /\ t = rsStored + 1 /\ rsStored' = t
    /\ rsConv' = [rsConv EXCEPT ![t] = rsRequest[r].conv]
    /\ rsHistory' = [rsHistory EXCEPT ![t] = rsRequest[r].seen \cup {t}]
    /\ rsRows' = rsRows \cup {t} /\ rsLast' = rsLast \cup {t}
    /\ rsRequest' = [rsRequest EXCEPT ![r] = NoRequest]
    /\ UNCHANGED <<rsDurable, rsStarted, rsForked>>

\* _save_state: the mark moves from the last turn of the conversation to the
\* new one, in one transaction or without an await.
RsStore(r, t) ==
    /\ rsRequest[r] # NoRequest /\ t = rsStored + 1 /\ rsStored' = t
    /\ rsConv' = [rsConv EXCEPT ![t] = rsRequest[r].conv]
    /\ rsHistory' = [rsHistory EXCEPT ![t] = rsRequest[r].seen \cup {t}]
    /\ rsRows' = rsRows \cup {t}
    /\ rsLast' = (rsLast \ RsOf(rsRequest[r].conv)) \cup {t}
    /\ rsRequest' = [rsRequest EXCEPT ![r] = NoRequest]
    /\ UNCHANGED <<rsDurable, rsStarted, rsForked>>

\* The request does not want to be stored, raises, or its client has gone.
RsDrop(r) ==
    /\ rsRequest[r] # NoRequest
    /\ rsRequest' = [rsRequest EXCEPT ![r] = NoRequest]
    /\ UNCHANGED <<rsDurable, rsStarted, rsTurnVars, rsTableVars, rsForked>>

-----------------------------------------------------------------------------
\* Mutant: only the row is forgotten.
RsDeleteBug(t) ==
    /\ t \in rsRows
    /\ rsRows' = rsRows \ {t}
    /\ UNCHANGED <<rsDurable, rsStarted, rsTurnVars, rsLast, rsRequest,
                   rsForked>>

\* delete_response: when it was the last turn, the conversation has none.
RsDelete(t) ==
    /\ t \in rsRows
    /\ rsRows' = rsRows \ {t} /\ rsLast' = rsLast \ {t}
    /\ UNCHANGED <<rsDurable, rsStarted, rsTurnVars, rsRequest, rsForked>>

\* The server stops and starts again.
RsRestart ==
    /\ rsRequest' = [r \in RsRequests |-> NoRequest]
    /\ IF rsDurable THEN UNCHANGED rsTableVars
                    ELSE rsRows' = {} /\ rsLast' = {}
    /\ UNCHANGED <<rsDurable, rsStarted, rsTurnVars, rsForked>>

-----------------------------------------------------------------------------
RsNext ==
    \/ \E r \in RsRequests :
          \/ RsStart(r) \/ RsDrop(r)
          \/ \E t \in RsTurns : RsContinue(r, t) \/ RsStore(r, t)
    \/ (\E t \in RsTurns : RsDelete(t)) \/ RsRestart

RsSpec == RsInit /\ [][RsNext]_rsVars

-----------------------------------------------------------------------------
(* Properties.                                                             *)

RsTypeOK ==
    /\ rsDurable \in BOOLEAN
    /\ rsStarted \in 0..RsMaxConvs /\ rsStored \in 0..RsMaxTurns
    /\ rsConv \in [RsTurns -> 0..RsMaxConvs]
    /\ rsHistory \in [RsTurns -> SUBSET RsTurns]
    /\ rsRows \subseteq RsTurns /\ rsLast \subseteq rsRows
    /\ rsRequest \in [RsRequests ->
                        [conv : 0..RsMaxConvs, seen : SUBSET RsTurns]]
    /\ rsForked \subseteq RsConvs

\* The turn a conversation is continued from is the one stored last: there are
\* never two, whichever requests overlapped, and it has the messages of all
\* turns stored before it, also of those that were deleted, unless the client
\* itself went back to an older turn or did not wait (_load_state, _save_state).
LastTurnIsLatest ==
    \A t \in rsLast : \A u \in RsOf(rsConv[t]) :
        /\ u <= t
        /\ rsConv[t] \notin rsForked => u \in rsHistory[t]
=============================================================================

----------------------------- MODULE StoresProofs -----------------------------
(***************************************************************************)
(* What is kept between two executions: the turns of a server, the place   *)
(* up to which a remote agent was told, the summaries of conversations,    *)
(* the document of a component.                                            *)
(*                                                                         *)
(* The server of responses: the turn that continues a conversation is its  *)
(* latest one.  Beyond the table, the invariant follows the requests in    *)
(* progress: one that belongs to a conversation nobody has forked is alone,*)
(* and the copy it works on has every turn of the conversation.            *)
(*                                                                         *)
(* The client of a remote agent: no message is skipped and no answer is    *)
(* sent back, whatever the remote side does.  That the list keeps within   *)
(* its bound rests on a count: every message that was not sent leaves room *)
(* for an answer, every task that is polled and every answer that has      *)
(* arrived takes one.                                                      *)
(*                                                                         *)
(* The summaries: a prompt has every message once and the cache is bounded.*)
(* A summary that is cached or awaited covers the first messages of its    *)
(* list, up to a place where no result is separated from its request, and  *)
(* stays so while the list grows.                                          *)
(*                                                                         *)
(* Serialization: what is read is what was written.  The objects whose     *)
(* dictionaries are finished contain only such objects and none contains   *)
(* itself; a dictionary refers to earlier ones, so that reading descends.  *)
(***************************************************************************)
EXTENDS ResponsesServer, RemoteAgent, Summarization, Serialization,
        FiniteSetTheorems, SequenceTheorems, WellFoundedInduction, TLAPS

(* The server of responses.                                                *)

\* Turns are numbered as they are stored, conversations as they are started.
RsNumbered ==
    /\ \A t \in RsTurns : rsConv[t] # 0 => t <= rsStored /\ rsConv[t] <= rsStarted
    /\ \A r \in RsRequests : rsRequest[r].conv <= rsStarted
    /\ \A r \in RsRequests : rsRequest[r] # NoRequest => rsRequest[r].conv # 0
    /\ \A t \in rsRows : rsConv[t] # 0

RsTypeInv == RsTypeOK /\ RsNumbered

RsCopies ==
    \A r \in RsRequests :
        rsRequest[r].conv \notin rsForked \cup {0} =>
            /\ \A u \in RsTurns :
                  rsConv[u] = rsRequest[r].conv => u \in rsRequest[r].seen
            /\ \A q \in RsRequests : rsRequest[q].conv = rsRequest[r].conv => q = r

TurnInv == LastTurnIsLatest /\ RsCopies

RequestRecord == [conv : 0..RsMaxConvs, seen : SUBSET RsTurns]

-----------------------------------------------------------------------------
(* Type correctness.                                                       *)

LEMMA RsTypeInit == RsInit => RsTypeInv
BY RsAssumption DEF RsInit, RsTypeInv, RsTypeOK, RsNumbered, NoRequest, RsTurns

\* A request in progress has a conversation.
LEMMA InProgress ==
    ASSUME RsTypeInv, NEW r \in RsRequests, rsRequest[r] # NoRequest
    PROVE  rsRequest[r].conv \in RsConvs /\ rsRequest[r] \in RequestRecord
<1>1. rsRequest[r] \in RequestRecord /\ rsRequest[r].conv # 0
  BY DEF RsTypeInv, RsTypeOK, RsNumbered, RequestRecord
<1> QED BY <1>1, RsAssumption DEF RequestRecord, RsConvs

\* A new conversation begins without turns.
LEMMA Started ==
    ASSUME NEW r \in RsRequests, RsStart(r)
    PROVE  rsRequest' = [rsRequest EXCEPT ![r] = [conv |-> rsStarted + 1, seen |-> {}]]
<1>1. rsRequest' = [rsRequest EXCEPT ![r] = [rsRequest[r] EXCEPT !.conv = rsStarted + 1]]
      /\ rsRequest[r] = NoRequest
  BY DEF RsStart
<1>2. [NoRequest EXCEPT !.conv = rsStarted + 1] = [conv |-> rsStarted + 1, seen |-> {}]
  BY DEF NoRequest
<1> QED BY <1>1, <1>2

LEMMA TypeStart ==
    ASSUME RsTypeInv, NEW r \in RsRequests, RsStart(r)
    PROVE  RsTypeInv'
<1>1. rsRequest[r] = NoRequest /\ rsStarted < RsMaxConvs /\ rsStarted' = rsStarted + 1
  BY DEF RsStart
<1>2. rsRequest' = [rsRequest EXCEPT ![r] = [conv |-> rsStarted + 1, seen |-> {}]]
  BY Started
<1>3. rsStarted' \in 1..RsMaxConvs
  BY <1>1, RsAssumption DEF RsTypeInv, RsTypeOK
<1>4. rsRequest' \in [RsRequests -> RequestRecord]
  BY <1>1, <1>2, <1>3, RsAssumption DEF RsTypeInv, RsTypeOK, RequestRecord
<1>5. RsTypeOK'
  BY <1>3, <1>4 DEF RsStart, RsTypeInv, RsTypeOK, RequestRecord, rsTurnVars, rsTableVars
<1>6. \A q \in RsRequests : rsRequest'[q].conv <= rsStarted'
  BY <1>1, <1>2, <1>3, RsAssumption DEF RsTypeInv, RsTypeOK, RsNumbered, RequestRecord
<1>7. \A q \in RsRequests : rsRequest'[q] # NoRequest => rsRequest'[q].conv # 0
  BY <1>1, <1>2, <1>3, RsAssumption DEF RsTypeInv, RsTypeOK, RsNumbered
<1>8. \A t \in RsTurns : rsConv[t] # 0 => t <= rsStored /\ rsConv[t] <= rsStarted'
  BY <1>1, <1>3, RsAssumption DEF RsTypeInv, RsTypeOK, RsNumbered
<1> QED BY <1>5, <1>6, <1>7, <1>8 DEF RsStart, RsTypeInv, RsNumbered, rsTurnVars, rsTableVars

LEMMA TypeContinue ==
    ASSUME RsTypeInv, NEW r \in RsRequests, NEW t \in RsTurns, RsContinue(r, t)
    PROVE  RsTypeInv'
<1>1. rsConv[t] \in 1..RsMaxConvs /\ rsHistory[t] \in SUBSET RsTurns
      /\ rsConv[t] <= rsStarted
  BY RsAssumption DEF RsContinue, RsTypeInv, RsTypeOK, RsNumbered
<1>2. rsRequest' = [rsRequest EXCEPT ![r] = [conv |-> rsConv[t], seen |-> rsHistory[t]]]
  BY DEF RsContinue
<1>3. rsRequest' \in [RsRequests -> RequestRecord]
  BY <1>1, <1>2 DEF RsTypeInv, RsTypeOK, RequestRecord
<1>4. rsForked' \subseteq RsConvs
  BY <1>1 DEF RsContinue, RsTypeInv, RsTypeOK, RsConvs
<1>5. RsTypeOK'
  BY <1>3, <1>4 DEF RsContinue, RsTypeInv, RsTypeOK, RequestRecord, rsTurnVars, rsTableVars
<1>6. \A q \in RsRequests : rsRequest'[q].conv <= rsStarted
  BY <1>1, <1>2 DEF RsTypeInv, RsTypeOK, RsNumbered
<1>7. \A q \in RsRequests : rsRequest'[q] # NoRequest => rsRequest'[q].conv # 0
  BY <1>1, <1>2 DEF RsTypeInv, RsTypeOK, RsNumbered
<1> QED
  BY <1>5, <1>6, <1>7 DEF RsContinue, RsTypeInv, RsNumbered, rsTurnVars, rsTableVars

LEMMA TypeStore ==
    ASSUME RsTypeInv, NEW r \in RsRequests, NEW t \in RsTurns, RsStore(r, t)
    PROVE  RsTypeInv'
<1>1. rsRequest[r].conv \in RsConvs /\ rsRequest[r] \in RequestRecord
  BY InProgress DEF RsStore
<1>2. rsConv' = [rsConv EXCEPT ![t] = rsRequest[r].conv]
      /\ rsHistory' = [rsHistory EXCEPT ![t] = rsRequest[r].seen \cup {t}]
      /\ rsRequest' = [rsRequest EXCEPT ![r] = NoRequest]
      /\ rsStored' = t /\ t = rsStored + 1
  BY DEF RsStore
<1>3. rsConv' \in [RsTurns -> 0..RsMaxConvs] /\ rsHistory' \in [RsTurns -> SUBSET RsTurns]
  BY <1>1, <1>2 DEF RsTypeInv, RsTypeOK, RsConvs, RequestRecord
<1>4. rsRequest' \in [RsRequests -> RequestRecord]
  BY <1>2, RsAssumption DEF RsTypeInv, RsTypeOK, RequestRecord, NoRequest
<1>5. rsLast' \subseteq rsRows' /\ rsRows' \subseteq RsTurns
  BY DEF RsStore, RsTypeInv, RsTypeOK
<1>6. rsStored' \in 0..RsMaxTurns
  BY <1>2, RsAssumption DEF RsTurns
<1>7. RsTypeOK'
  BY <1>3, <1>4, <1>5, <1>6 DEF RsStore, RsTypeInv, RsTypeOK, RequestRecord
<1>8. \A u \in RsTurns : rsConv'[u] # 0 => u <= rsStored' /\ rsConv'[u] <= rsStarted
  <2> SUFFICES ASSUME NEW u \in RsTurns, rsConv'[u] # 0
               PROVE  u <= rsStored' /\ rsConv'[u] <= rsStarted
    OBVIOUS
  <2>1. CASE u = t
    BY <2>1, <1>1, <1>2, RsAssumption DEF RsTypeInv, RsTypeOK, RsNumbered, RsTurns
  <2>2. CASE u # t
    BY <2>2, <1>2, <1>6, RsAssumption DEF RsTypeInv, RsTypeOK, RsNumbered, RsTurns
  <2> QED BY <2>1, <2>2
<1>9. \A q \in RsRequests : rsRequest'[q].conv <= rsStarted
  BY <1>2, RsAssumption DEF RsTypeInv, RsTypeOK, RsNumbered, NoRequest
<1>10. \A q \in RsRequests : rsRequest'[q] # NoRequest => rsRequest'[q].conv # 0
  BY <1>2 DEF RsTypeInv, RsTypeOK, RsNumbered
<1>11. \A u \in rsRows' : rsConv'[u] # 0
  BY <1>1, <1>2 DEF RsStore, RsTypeInv, RsTypeOK, RsNumbered, RsConvs
<1> QED
  BY <1>7, <1>8, <1>9, <1>10, <1>11 DEF RsStore, RsTypeInv, RsNumbered

LEMMA TypeOthers ==
    ASSUME RsTypeInv,
           \/ UNCHANGED rsVars \/ RsRestart
           \/ \E r \in RsRequests : RsDrop(r)
           \/ \E t \in RsTurns : RsDelete(t)
    PROVE  RsTypeInv'
<1> USE DEF rsTurnVars, rsTableVars
<1>1. CASE UNCHANGED rsVars
  BY <1>1 DEF rsVars, RsTypeInv, RsTypeOK, RsNumbered
<1>2. CASE RsRestart
  <2>1. rsRequest' \in [RsRequests -> RequestRecord]
        /\ \A r \in RsRequests : rsRequest'[r] = NoRequest
    BY <1>2, RsAssumption DEF RsRestart, RequestRecord, NoRequest
  <2>2. rsRows' \subseteq rsRows /\ rsLast' \subseteq rsRows'
    BY <1>2 DEF RsRestart, RsTypeInv, RsTypeOK
  <2> QED
    BY <1>2, <2>1, <2>2, RsAssumption
       DEF RsRestart, RsTypeInv, RsTypeOK, RsNumbered, RequestRecord, NoRequest
<1>3. ASSUME NEW r \in RsRequests, RsDrop(r) PROVE RsTypeInv'
  <2>1. rsRequest' = [rsRequest EXCEPT ![r] = NoRequest]
    BY <1>3 DEF RsDrop
  <2>2. rsRequest' \in [RsRequests -> RequestRecord]
    BY <2>1, RsAssumption DEF RsTypeInv, RsTypeOK, RequestRecord, NoRequest
  <2>3. \A q \in RsRequests : /\ rsRequest'[q].conv <= rsStarted
                              /\ rsRequest'[q] # NoRequest => rsRequest'[q].conv # 0
    BY <2>1, RsAssumption DEF RsTypeInv, RsTypeOK, RsNumbered, NoRequest
  <2> QED
    BY <1>3, <2>2, <2>3 DEF RsDrop, RsTypeInv, RsTypeOK, RsNumbered, RequestRecord
<1>4. ASSUME NEW t \in RsTurns, RsDelete(t) PROVE RsTypeInv'
  BY <1>4 DEF RsDelete, RsTypeInv, RsTypeOK, RsNumbered
<1> QED BY <1>1, <1>2, <1>3, <1>4

LEMMA RsTypeStep == RsTypeInv /\ [RsNext]_rsVars => RsTypeInv'
BY TypeStart, TypeContinue, TypeStore, TypeOthers DEF RsNext

\* The table, the numbering of turns and the requests in progress are always
\* well formed, for any number of requests, turns and conversations.
THEOREM RsTypeCorrect == RsSpec => []RsTypeOK
<1>1. RsTypeInv => RsTypeOK
  BY DEF RsTypeInv
<1> QED BY <1>1, RsTypeInit, RsTypeStep, PTL DEF RsSpec

-----------------------------------------------------------------------------
(* The last turn.                                                          *)

LEMMA TurnStart ==
    ASSUME RsTypeInv, TurnInv, NEW r \in RsRequests, RsStart(r)
    PROVE  TurnInv'
<1>1. rsRequest' = [rsRequest EXCEPT ![r] = [conv |-> rsStarted + 1, seen |-> {}]]
  BY Started
<1>2. UNCHANGED <<rsStored, rsConv, rsHistory, rsRows, rsLast, rsForked>>
  BY DEF RsStart, rsTurnVars, rsTableVars
<1>3. \A u \in RsTurns : rsConv[u] # rsStarted + 1
  BY RsAssumption DEF RsTypeInv, RsTypeOK, RsNumbered
<1>4. \A q \in RsRequests : rsRequest[q].conv # rsStarted + 1
  BY RsAssumption DEF RsTypeInv, RsTypeOK, RsNumbered
<1>5. LastTurnIsLatest'
  BY <1>2 DEF TurnInv, LastTurnIsLatest, RsOf
<1>6. \A q \in RsRequests : q # r => rsRequest'[q] = rsRequest[q]
  BY <1>1 DEF RsTypeInv, RsTypeOK
<1>7. rsRequest'[r].conv = rsStarted + 1 /\ rsRequest'[r].seen = {}
  BY <1>1 DEF RsTypeInv, RsTypeOK
<1>9. ASSUME NEW q \in RsRequests, rsRequest'[q].conv \notin rsForked' \cup {0}
      PROVE  /\ \A u \in RsTurns :
                   rsConv'[u] = rsRequest'[q].conv => u \in rsRequest'[q].seen
             /\ \A p \in RsRequests : rsRequest'[p].conv = rsRequest'[q].conv => p = q
  <2>1. CASE q = r
    BY <2>1, <1>3, <1>4, <1>2, <1>6, <1>7, <1>9
  <2>2. CASE q # r
    BY <2>2, <1>2, <1>4, <1>6, <1>7, <1>9 DEF TurnInv, RsCopies
  <2> QED BY <2>1, <2>2
<1>10. RsCopies'
  BY <1>9 DEF RsCopies
<1> QED BY <1>5, <1>10 DEF TurnInv

LEMMA TurnContinue ==
    ASSUME RsTypeInv, TurnInv, NEW r \in RsRequests, NEW t \in RsTurns, RsContinue(r, t)
    PROVE  TurnInv'
<1> DEFINE v == rsConv[t]
<1>1. rsRequest' = [rsRequest EXCEPT ![r] = [conv |-> v, seen |-> rsHistory[t]]]
      /\ rsRequest[r] = NoRequest
  BY DEF RsContinue
<1>2. UNCHANGED <<rsStored, rsConv, rsHistory, rsRows, rsLast>> /\ rsForked \subseteq rsForked'
  BY DEF RsContinue, rsTurnVars, rsTableVars
<1>3. v \notin rsForked' => t \in rsLast /\ \A q \in RsRequests : rsRequest[q].conv # v
  BY DEF RsContinue
<1>4. LastTurnIsLatest'
  BY <1>2 DEF TurnInv, LastTurnIsLatest, RsOf
<1>5. v \notin rsForked' => \A u \in RsTurns : rsConv[u] = v => u \in rsHistory[t]
  BY <1>2, <1>3 DEF TurnInv, LastTurnIsLatest, RsOf
<1>6. \A q \in RsRequests : q # r => rsRequest'[q] = rsRequest[q]
  BY <1>1 DEF RsTypeInv, RsTypeOK
<1>7. rsRequest'[r].conv = v /\ rsRequest'[r].seen = rsHistory[t]
  BY <1>1 DEF RsTypeInv, RsTypeOK
<1> HIDE DEF v
<1>9. ASSUME NEW q \in RsRequests, rsRequest'[q].conv \notin rsForked' \cup {0}
      PROVE  /\ \A u \in RsTurns :
                   rsConv'[u] = rsRequest'[q].conv => u \in rsRequest'[q].seen
             /\ \A p \in RsRequests : rsRequest'[p].conv = rsRequest'[q].conv => p = q
  <2>1. CASE q = r
    BY <2>1, <1>3, <1>2, <1>5, <1>6, <1>7, <1>9
  <2>2. CASE q # r
    BY <2>2, <1>2, <1>3, <1>6, <1>7, <1>9 DEF TurnInv, RsCopies
  <2> QED BY <2>1, <2>2
<1>10. RsCopies'
  BY <1>9 DEF RsCopies
<1> QED BY <1>4, <1>10 DEF TurnInv

LEMMA TurnStore ==
    ASSUME RsTypeInv, TurnInv, NEW r \in RsRequests, NEW t \in RsTurns, RsStore(r, t)
    PROVE  TurnInv'
<1> DEFINE v == rsRequest[r].conv
<1>1. v \in RsConvs /\ rsRequest[r] \in RequestRecord
  BY InProgress DEF RsStore
<1>2. /\ rsConv' = [rsConv EXCEPT ![t] = v]
      /\ rsHistory' = [rsHistory EXCEPT ![t] = rsRequest[r].seen \cup {t}]
      /\ rsLast' = (rsLast \ RsOf(v)) \cup {t}
      /\ rsRequest' = [rsRequest EXCEPT ![r] = NoRequest]
      /\ t = rsStored + 1 /\ rsForked' = rsForked
  BY DEF RsStore
<1>3. \A u \in RsTurns : rsConv[u] # 0 => u < t
  BY <1>2, RsAssumption DEF RsTypeInv, RsTypeOK, RsNumbered, RsTurns
<1>4. v # 0 /\ rsConv[t] = 0
  BY <1>1, <1>2, <1>3, RsAssumption DEF RsConvs, RsTurns
<1>5. /\ \A u \in RsTurns : u # t => rsConv'[u] = rsConv[u] /\ rsHistory'[u] = rsHistory[u]
      /\ rsConv'[t] = v /\ rsHistory'[t] = rsRequest[r].seen \cup {t}
      /\ \A q \in RsRequests : q # r => rsRequest'[q] = rsRequest[q]
      /\ rsRequest'[r].conv = 0
  BY <1>2 DEF RsTypeInv, RsTypeOK, NoRequest
<1>6. v \notin rsForked =>
         \A u \in RsTurns : rsConv[u] = v => u \in rsRequest[r].seen
  BY <1>4 DEF TurnInv, RsCopies
<1> HIDE DEF v
<1>8. ASSUME NEW l \in rsLast', NEW u \in RsTurns, rsConv'[u] = rsConv'[l]
      PROVE  u <= l /\ (rsConv'[l] \notin rsForked' => u \in rsHistory'[l])
  <2>1. CASE l = t
    <3>1. u = t \/ rsConv[u] = v
      BY <2>1, <1>5, <1>8
    <3>2. u <= t
      BY <3>1, <1>3, <1>4, RsAssumption DEF RsTurns
    <3> QED BY <2>1, <3>1, <3>2, <1>2, <1>5, <1>6
  <2>2. CASE l # t
    <3>1. l \in rsLast /\ l \in RsTurns /\ l \notin RsOf(v)
      BY <2>2, <1>2 DEF RsTypeInv, RsTypeOK
    <3>2. rsConv[l] # v /\ rsConv[l] # 0 /\ rsConv'[l] = rsConv[l]
          /\ rsHistory'[l] = rsHistory[l]
      BY <2>2, <3>1, <1>5 DEF RsOf, RsTypeInv, RsNumbered, RsTypeOK
    <3>3. u # t /\ rsConv[u] = rsConv[l]
      BY <3>2, <1>5, <1>8
    <3> QED BY <3>1, <3>2, <3>3, <1>2, <1>5 DEF TurnInv, LastTurnIsLatest, RsOf
  <2> QED BY <2>1, <2>2
<1>9. LastTurnIsLatest'
  BY <1>8 DEF LastTurnIsLatest, RsOf
<1>10. ASSUME NEW q \in RsRequests, rsRequest'[q].conv \notin rsForked' \cup {0}
       PROVE  /\ \A u \in RsTurns :
                   rsConv'[u] = rsRequest'[q].conv => u \in rsRequest'[q].seen
              /\ \A p \in RsRequests : rsRequest'[p].conv = rsRequest'[q].conv => p = q
  <2>1. q # r /\ rsRequest'[q] = rsRequest[q]
    BY <1>5, <1>10
  <2>2. rsRequest[q].conv # v
    BY <2>1, <1>2, <1>10 DEF TurnInv, RsCopies, v
  <2>3. \A u \in RsTurns : rsConv[u] = rsRequest[q].conv => u \in rsRequest[q].seen
    BY <2>1, <1>2, <1>10 DEF TurnInv, RsCopies
  <2>4. \A p \in RsRequests : rsRequest'[p].conv = rsRequest'[q].conv => p = q
    BY <2>1, <1>2, <1>5, <1>10 DEF TurnInv, RsCopies
  <2> QED BY <2>1, <2>2, <2>3, <2>4, <1>5
<1>11. RsCopies'
  BY <1>10 DEF RsCopies
<1> QED BY <1>9, <1>11 DEF TurnInv

LEMMA TurnOthers ==
    ASSUME RsTypeInv, TurnInv,
           \/ UNCHANGED rsVars \/ RsRestart
           \/ \E r \in RsRequests : RsDrop(r)
           \/ \E t \in RsTurns : RsDelete(t)
    PROVE  TurnInv'
<1>1. /\ UNCHANGED <<rsConv, rsHistory, rsForked>>
      /\ rsLast' \subseteq rsLast
      /\ \A q \in RsRequests : rsRequest'[q] = rsRequest[q] \/ rsRequest'[q] = NoRequest
  <2> USE DEF rsTurnVars, rsTableVars
  <2>1. CASE UNCHANGED rsVars
    BY <2>1 DEF rsVars
  <2>2. CASE RsRestart
    BY <2>2 DEF RsRestart
  <2>3. CASE \E r \in RsRequests : RsDrop(r)
    BY <2>3 DEF RsDrop, RsTypeInv, RsTypeOK
  <2>4. CASE \E t \in RsTurns : RsDelete(t)
    BY <2>4 DEF RsDelete
  <2> QED BY <2>1, <2>2, <2>3, <2>4
<1>2. LastTurnIsLatest'
  BY <1>1 DEF TurnInv, LastTurnIsLatest, RsOf
<1>3. \A q \in RsRequests :
         rsRequest'[q].conv # 0 => rsRequest'[q] = rsRequest[q]
  BY <1>1 DEF NoRequest
<1>4. RsCopies'
  BY <1>1, <1>3 DEF TurnInv, RsCopies
<1> QED BY <1>2, <1>4 DEF TurnInv

LEMMA TurnInit == RsInit => TurnInv
BY DEF RsInit, TurnInv, LastTurnIsLatest, RsCopies, NoRequest

LEMMA TurnStep == RsTypeInv /\ TurnInv /\ [RsNext]_rsVars => TurnInv'
BY TurnStart, TurnContinue, TurnStore, TurnOthers DEF RsNext

\* The turn a conversation is continued from is the one stored last and tells of
\* all the others unless the client forked the conversation (_load_state and
\* _save_state), for any number of overlapping requests, over deletions and
\* restarts.
THEOREM LastTurnIsFound == RsSpec => []LastTurnIsLatest
<1>1. TurnInv => LastTurnIsLatest
  BY DEF TurnInv
<1> QED
  BY <1>1, RsTypeInit, RsTypeStep, TurnInit, TurnStep, PTL DEF RsSpec

-----------------------------------------------------------------------------
(* The client of a remote agent.                                           *)

Author == {"user", "agent"}

\* Room for the answers: two places for each new message, one for the known.
Room ==
    /\ IsFiniteSet(raTasks)
    /\ 2 * Len(raList) - raMark + Cardinality(raTasks) + raReplies <= RaMaxMessages

RaPcInv ==
    /\ raPc \in {"idle", "posting"} => raTasks = {} /\ raReplies = 0
    /\ raPc = "polling" => raMark = Len(raList)
    /\ raPc = "posting" => raMark < Len(raList)

RaDataInv ==
    /\ raKind \in {"a2a", "oci"}
    /\ raList \in Seq(Author)
    /\ raMark \in 0..Len(raList)
    /\ raPc \in {"idle", "sending", "polling", "posting"}
    /\ raTasks \subseteq RaIndices /\ raReplies \in Nat
    /\ raReceived \subseteq RaIndices

RaTypeInv == RaDataInv /\ RaPcInv /\ Room

RaInv == RaTypeInv /\ MarkIsInStep

LEMMA Bounded ==
    ASSUME RaTypeInv
    PROVE  /\ Cardinality(raTasks) \in Nat /\ Len(raList) \in Nat /\ raMark \in Nat
           /\ 2 * Len(raList) - raMark <= RaMaxMessages
           /\ Len(raList) <= RaMaxMessages /\ raReplies <= RaMaxMessages
<1>1. Cardinality(raTasks) \in Nat
  BY FS_CardinalityType DEF RaTypeInv, Room
<1>2. Len(raList) \in Nat /\ raMark \in Nat /\ raMark <= Len(raList) /\ raReplies \in Nat
  BY DEF RaTypeInv, RaDataInv
<1> QED BY <1>1, <1>2, RaAssumption DEF RaTypeInv, Room

LEMMA TypeImplied == RaTypeInv => RaTypeOK
BY Bounded DEF RaTypeInv, RaDataInv, RaTypeOK, Author

LEMMA RaStart == RaInit => RaInv
<1> SUFFICES ASSUME RaInit PROVE RaInv
  OBVIOUS
<1>1. raList = <<>> \/ raList = <<"agent">>
  BY DEF RaInit
<1>2. raList \in Seq(Author) /\ Len(raList) \in 0..1
      /\ \A m \in 1..Len(raList) : m = 1
  <2>1. CASE raList = <<>>
    BY <2>1
  <2>2. CASE raList = <<"agent">>
    <3>1. raList \in Seq(Author)
      BY <2>2 DEF Author
    <3>2. Len(raList) = 1
      BY <2>2
    <3> QED BY <3>1, <3>2
  <2> QED BY <1>1, <2>1, <2>2
<1>3. IsFiniteSet(raTasks) /\ Cardinality(raTasks) = 0
  BY FS_EmptySet DEF RaInit
<1>4. Room
  BY <1>2, <1>3, RaAssumption DEF RaInit, Room
<1>5. RaDataInv /\ RaPcInv
  BY <1>2 DEF RaInit, RaDataInv, RaPcInv
<1>6. MarkIsInStep
  BY <1>2 DEF RaInit, MarkIsInStep, RaNew
<1> QED BY <1>4, <1>5, <1>6 DEF RaInv, RaTypeInv

-----------------------------------------------------------------------------
(* The execution stops: what it had counted is forgotten.                  *)

LEMMA Stopped ==
    ASSUME RaInv, RaStops, UNCHANGED <<raKind, raList, raMark>>,
           NEW S \in SUBSET RaIndices, RaReceives(S)
    PROVE  RaInv'
<1>1. raTasks' = {} /\ raReplies' = 0 /\ raPc' = "idle" /\ raReceived' = raReceived \cup S
  BY DEF RaStops, RaReceives
<1>2. IsFiniteSet(raTasks') /\ Cardinality(raTasks') = 0
  BY <1>1, FS_EmptySet
<1>3. Room'
  BY <1>1, <1>2, Bounded DEF RaInv, Room
<1>4. RaDataInv' /\ RaPcInv'
  BY <1>1 DEF RaInv, RaTypeInv, RaDataInv, RaPcInv
<1>5. MarkIsInStep'
  BY <1>1 DEF RaInv, MarkIsInStep, RaNew
<1> QED BY <1>3, <1>4, <1>5 DEF RaInv, RaTypeInv

\* Messages are appended of which only those of the user count as new.
LEMMA Appended ==
    ASSUME RaInv, NEW n \in Nat, NEW new \in [1..n -> Author],
           raList' = raList \o new
    PROVE  /\ raList' \in Seq(Author) /\ Len(raList') = Len(raList) + n
           /\ \A m \in 1..Len(raList) : raList'[m] = raList[m]
           /\ \A m \in Len(raList) + 1 .. Len(raList) + n :
                 raList'[m] = new[m - Len(raList)]
<1>1. new \in Seq(Author) /\ Len(new) = n /\ raList \in Seq(Author)
  BY DEF RaInv, RaTypeInv, RaDataInv
<1> QED BY <1>1

LEMMA UserWrites == RaInv /\ RaUserWrites => RaInv'
<1> SUFFICES ASSUME RaInv, RaUserWrites PROVE RaInv'
  OBVIOUS
<1>1. raList \in Seq(Author) /\ raList' = Append(raList, "user") /\ raMark \in 0..Len(raList)
      /\ UNCHANGED <<raMark, raPc, raKind, raTasks, raReplies, raReceived>>
  BY DEF RaUserWrites, RaInv, RaTypeInv, RaDataInv, raCallVars
<1>2. /\ raList' \in Seq(Author) /\ Len(raList') = Len(raList) + 1
      /\ \A m \in 1..Len(raList) : raList'[m] = raList[m]
      /\ raList'[Len(raList) + 1] = "user"
  BY <1>1 DEF Author
<1>3. raTasks = {} /\ raReplies = 0 /\ raPc = "idle" /\ Cardinality(raTasks) = 0
  BY FS_EmptySet DEF RaUserWrites, RaInv, RaTypeInv, RaPcInv
<1>4. Room'
  BY <1>1, <1>2, <1>3, RaAssumption DEF RaUserWrites, RaInv, RaTypeInv, Room
<1>5. RaDataInv' /\ RaPcInv'
  BY <1>1, <1>2, <1>3 DEF RaInv, RaTypeInv, RaDataInv, RaPcInv
<1>6. MarkIsInStep'
  BY <1>1, <1>2 DEF RaInv, MarkIsInStep, RaNew
<1> QED BY <1>4, <1>5, <1>6 DEF RaInv, RaTypeInv

LEMMA Execute == RaInv /\ RaExecute => RaInv'
<1> SUFFICES ASSUME RaInv, RaExecute PROVE RaInv'
  OBVIOUS
<1>1. raMark < Len(raList)
  BY DEF RaExecute, RaNew, RaInv, RaTypeInv, RaDataInv
<1>2. Room'
  BY DEF RaExecute, RaInv, RaTypeInv, Room, raCallVars
<1>3. RaDataInv' /\ RaPcInv'
  BY <1>1 DEF RaExecute, RaInv, RaTypeInv, RaDataInv, RaPcInv, raCallVars
<1>4. MarkIsInStep'
  BY DEF RaExecute, RaInv, MarkIsInStep, RaNew
<1> QED BY <1>2, <1>3, <1>4 DEF RaInv, RaTypeInv

-----------------------------------------------------------------------------
(* A2AAgentExecutor                                                        *)

LEMMA Send == RaInv /\ RaSend => RaInv'
<1> SUFFICES ASSUME RaInv, RaSend PROVE RaInv'
  OBVIOUS
<1> DEFINE m == raMark + 1
<1>1. m \in 1..Len(raList) /\ m \in RaIndices
  BY Bounded, RaAssumption DEF RaSend, RaNew, RaInv, RaTypeInv, RaDataInv, RaIndices
<1>2. UNCHANGED <<raKind, raList, raPc>> /\ raPc = "sending" /\ raMark' = m
      /\ raReceived' = raReceived \cup {m}
  BY DEF RaSend, RaReceives
<1>3. \/ raTasks' = raTasks \cup {m} /\ raReplies' = raReplies
      \/ raTasks' = raTasks /\ raReplies' \in raReplies .. raReplies + 1
  BY DEF RaSend
<1>4. /\ IsFiniteSet(raTasks') /\ Cardinality(raTasks') \in Nat /\ raReplies' \in Nat
      /\ Cardinality(raTasks') + raReplies' <= Cardinality(raTasks) + raReplies + 1
  <2>1. IsFiniteSet(raTasks) /\ Cardinality(raTasks) \in Nat /\ raReplies \in Nat
    BY Bounded DEF RaInv, RaTypeInv, Room, RaDataInv
  <2>2. IsFiniteSet(raTasks \cup {m})
        /\ Cardinality(raTasks \cup {m}) \in {Cardinality(raTasks), Cardinality(raTasks) + 1}
    BY <2>1, FS_AddElement
  <2>3. CASE raTasks' = raTasks \cup {m} /\ raReplies' = raReplies
    BY <2>1, <2>2, <2>3
  <2>4. CASE raTasks' = raTasks /\ raReplies' \in raReplies .. raReplies + 1
    BY <2>1, <2>4
  <2> QED BY <1>3, <2>3, <2>4
<1>5. Room'
  <2>1. /\ Len(raList) \in Nat /\ raMark \in Nat /\ raReplies \in Nat
        /\ Cardinality(raTasks) \in Nat /\ RaMaxMessages \in Nat
        /\ 2 * Len(raList) - raMark + Cardinality(raTasks) + raReplies <= RaMaxMessages
    BY Bounded, RaAssumption DEF RaInv, RaTypeInv, RaDataInv, Room
  <2>2. raList' = raList /\ raMark' = raMark + 1
    BY <1>2
  <2> QED BY <1>4, <2>1, <2>2 DEF Room
<1>6. RaDataInv'
  <2>1. raTasks' \subseteq RaIndices
    BY <1>1, <1>3 DEF RaInv, RaTypeInv, RaDataInv
  <2>2. raReceived' \subseteq RaIndices
    BY <1>1, <1>2 DEF RaInv, RaTypeInv, RaDataInv
  <2> QED BY <1>1, <1>2, <1>4, <2>1, <2>2 DEF RaInv, RaTypeInv, RaDataInv
<1>7. RaPcInv'
  BY <1>2 DEF RaPcInv
<1>8. MarkIsInStep'
  BY <1>1, <1>2 DEF RaInv, RaTypeInv, RaDataInv, MarkIsInStep, RaNew
<1> QED BY <1>5, <1>6, <1>7, <1>8 DEF RaInv, RaTypeInv

LEMMA AllSent == RaInv /\ RaAllSent => RaInv'
<1> SUFFICES ASSUME RaInv, RaAllSent PROVE RaInv'
  OBVIOUS
<1>1. raMark = Len(raList)
  <2>1. ASSUME raMark < Len(raList) PROVE FALSE
    <3>1. raMark + 1 \in RaNew
      BY <2>1, Bounded DEF RaNew, RaInv
    <3> QED BY <3>1 DEF RaAllSent
  <2> QED BY <2>1, Bounded DEF RaInv, RaTypeInv, RaDataInv
<1>2. Room'
  BY DEF RaAllSent, RaInv, RaTypeInv, Room, raCallVars
<1>3. RaDataInv' /\ RaPcInv'
  BY <1>1 DEF RaAllSent, RaInv, RaTypeInv, RaDataInv, RaPcInv, raCallVars
<1>4. MarkIsInStep'
  BY DEF RaAllSent, RaInv, MarkIsInStep, RaNew
<1> QED BY <1>2, <1>3, <1>4 DEF RaInv, RaTypeInv

LEMMA Poll == ASSUME RaInv, NEW m \in RaIndices, RaPoll(m) PROVE RaInv'
<1>1. /\ m \in raTasks /\ raTasks' = raTasks \ {m} /\ raPc = "polling"
      /\ raReplies' \in raReplies .. raReplies + 1
      /\ UNCHANGED <<raKind, raList, raMark, raPc, raReceived>>
  BY DEF RaPoll
<1>2. IsFiniteSet(raTasks') /\ Cardinality(raTasks') = Cardinality(raTasks) - 1
  BY <1>1, FS_RemoveElement DEF RaInv, RaTypeInv, Room
<1>3. raReplies' \in Nat /\ raReplies' <= raReplies + 1
  BY <1>1 DEF RaInv, RaTypeInv, RaDataInv
<1>4. Room'
  BY <1>1, <1>2, <1>3, Bounded, RaAssumption DEF RaInv, RaTypeInv, RaDataInv, Room
<1>5. RaDataInv' /\ RaPcInv'
  BY <1>1, <1>3 DEF RaInv, RaTypeInv, RaDataInv, RaPcInv
<1>6. MarkIsInStep'
  BY <1>1 DEF RaInv, MarkIsInStep, RaNew
<1> QED BY <1>4, <1>5, <1>6 DEF RaInv, RaTypeInv

LEMMA AppendReplies == RaInv /\ RaAppendReplies => RaInv'
<1> SUFFICES ASSUME RaInv, RaAppendReplies PROVE RaInv'
  OBVIOUS
<1> DEFINE new == [i \in 1..raReplies |-> "agent"]
<1>1. /\ raList' = raList \o new /\ raMark' = raMark + raReplies
      /\ raTasks' = {} /\ raReplies' = 0 /\ raPc' = "idle" /\ raPc = "polling"
      /\ UNCHANGED <<raKind, raReceived>>
  BY DEF RaAppendReplies, RaStops
<1>2. raMark = Len(raList) /\ raReplies \in Nat /\ new \in [1..raReplies -> Author]
  BY <1>1 DEF RaInv, RaTypeInv, RaPcInv, RaDataInv, Author
<1>3. /\ raList' \in Seq(Author) /\ Len(raList') = Len(raList) + raReplies
      /\ \A m \in 1..Len(raList) : raList'[m] = raList[m]
      /\ \A m \in Len(raList) + 1 .. Len(raList) + raReplies :
            raList'[m] = new[m - Len(raList)]
  <2> HIDE DEF new
  <2> QED BY <1>1, <1>2, Appended
<1>4. \A m \in 1..Len(raList') : raList'[m] = "user" => m \in 1..Len(raList)
                                                       /\ raList[m] = "user"
  <2> SUFFICES ASSUME NEW m \in 1..Len(raList'), raList'[m] = "user"
               PROVE  m \in 1..Len(raList) /\ raList[m] = "user"
    OBVIOUS
  <2>1. CASE m <= Len(raList)
    BY <2>1, <1>2, <1>3, Bounded DEF RaInv
  <2>2. CASE m > Len(raList)
    <3>1. m - Len(raList) \in 1..raReplies /\ m \in Len(raList) + 1 .. Len(raList) + raReplies
      BY <2>2, <1>2, <1>3, Bounded DEF RaInv
    <3> QED BY <3>1, <1>3
  <2> QED BY <2>1, <2>2, <1>2, <1>3, Bounded DEF RaInv
<1> HIDE DEF new
<1>5. IsFiniteSet(raTasks') /\ Cardinality(raTasks') = 0
  BY <1>1, FS_EmptySet
<1>6. Room'
  BY <1>1, <1>2, <1>3, <1>5, Bounded, RaAssumption DEF RaInv, RaTypeInv, Room
<1>7. RaDataInv' /\ RaPcInv'
  BY <1>1, <1>2, <1>3, Bounded DEF RaInv, RaTypeInv, RaDataInv, RaPcInv
<1>8. MarkIsInStep'
  BY <1>1, <1>2, <1>3, <1>4, Bounded DEF RaInv, MarkIsInStep, RaNew
<1> QED BY <1>6, <1>7, <1>8 DEF RaInv, RaTypeInv

-----------------------------------------------------------------------------
(* OciAgentExecutor                                                        *)

LEMMA Greet == RaInv /\ RaGreet => RaInv'
<1> SUFFICES ASSUME RaInv, RaGreet PROVE RaInv'
  OBVIOUS
<1>1. /\ raList' = <<"agent">> /\ raList = <<>> /\ raPc = "idle"
      /\ UNCHANGED <<raKind, raMark, raPc, raTasks, raReplies, raReceived>>
  BY DEF RaGreet, raCallVars
<1>2. raMark = 0 /\ raTasks = {} /\ raReplies = 0 /\ Cardinality(raTasks) = 0
  BY <1>1, FS_EmptySet DEF RaInv, RaTypeInv, RaDataInv, RaPcInv
<1>3. raList' \in Seq(Author) /\ Len(raList') = 1
  BY <1>1 DEF Author
<1>4. Room'
  BY <1>1, <1>2, <1>3, RaAssumption DEF RaInv, RaTypeInv, Room
<1>5. RaDataInv' /\ RaPcInv'
  BY <1>1, <1>2, <1>3 DEF RaInv, RaTypeInv, RaDataInv, RaPcInv
<1>6. MarkIsInStep'
  BY <1>1, <1>2, <1>3 DEF MarkIsInStep, RaNew
<1> QED BY <1>4, <1>5, <1>6 DEF RaInv, RaTypeInv

LEMMA Post == RaInv /\ RaPost => RaInv'
<1> SUFFICES ASSUME RaInv, RaPost PROVE RaInv'
  OBVIOUS
<1>1. /\ raList' = Append(raList, "agent") /\ raMark' = Len(raList) + 1
      /\ raTasks' = {} /\ raReplies' = 0 /\ raPc' = "idle" /\ raPc = "posting"
      /\ raReceived' = raReceived \cup (raMark + 1 .. Len(raList))
      /\ UNCHANGED raKind
  BY DEF RaPost, RaStops, RaReceives, RaNew
<1>2. raList \in Seq(Author) /\ raMark < Len(raList)
  BY <1>1 DEF RaInv, RaTypeInv, RaDataInv, RaPcInv
<1>3. /\ raList' \in Seq(Author) /\ Len(raList') = Len(raList) + 1
      /\ \A m \in 1..Len(raList) : raList'[m] = raList[m]
      /\ raList'[Len(raList) + 1] = "agent"
  BY <1>1, <1>2 DEF Author
<1>4. IsFiniteSet(raTasks') /\ Cardinality(raTasks') = 0
  BY <1>1, FS_EmptySet
<1>5. Room'
  BY <1>1, <1>2, <1>3, <1>4, Bounded, RaAssumption DEF RaInv, Room
<1>6. raReceived' \subseteq RaIndices
  <2>1. raMark + 1 .. Len(raList) \subseteq RaIndices
    BY Bounded, RaAssumption DEF RaInv, RaIndices
  <2>2. raReceived \subseteq RaIndices
    BY DEF RaInv, RaTypeInv, RaDataInv
  <2> QED BY <1>1, <2>1, <2>2
<1>7. RaDataInv' /\ RaPcInv'
  BY <1>1, <1>3, <1>6, Bounded DEF RaInv, RaTypeInv, RaDataInv, RaPcInv
<1>8. MarkIsInStep'
  BY <1>1, <1>2, <1>3, Bounded DEF RaInv, MarkIsInStep, RaNew
<1> QED BY <1>5, <1>7, <1>8 DEF RaInv, RaTypeInv

LEMMA Failures == RaInv /\ (RaSendFails \/ RaPollFails \/ RaPostFails) => RaInv'
<1> SUFFICES ASSUME RaInv, RaSendFails \/ RaPollFails \/ RaPostFails PROVE RaInv'
  OBVIOUS
<1>1. RaNew \subseteq RaIndices
  BY Bounded, RaAssumption DEF RaInv, RaNew, RaIndices
<1>2. raMark + 1 \in RaNew \/ RaNew = {}
  BY Bounded DEF RaInv, RaNew
<1>3. CASE RaSendFails
  BY <1>1, <1>2, <1>3, Stopped DEF RaSendFails
<1>4. CASE RaPollFails
  <2>1. RaReceives({})
    BY <1>4 DEF RaPollFails, RaReceives
  <2> QED BY <2>1, <1>4, Stopped DEF RaPollFails
<1>5. CASE RaPostFails
  BY <1>1, <1>5, Stopped DEF RaPostFails
<1> QED BY <1>3, <1>4, <1>5

LEMMA RaStep == RaInv /\ [RaNext]_raVars => RaInv'
<1> SUFFICES ASSUME RaInv, [RaNext]_raVars PROVE RaInv'
  OBVIOUS
<1>1. CASE UNCHANGED raVars
  BY <1>1 DEF raVars, RaInv, RaTypeInv, RaDataInv, RaPcInv, Room, MarkIsInStep, RaNew
<1> QED
  BY <1>1, UserWrites, Execute, Send, AllSent, Poll, AppendReplies, Greet, Post,
     Failures DEF RaNext

\* The list, the mark and what is being polled are always well formed, and the
\* list never outgrows its bound.
THEOREM RaTypeCorrect == RaSpec => []RaTypeOK
<1>1. RaInv => RaTypeOK
  BY TypeImplied DEF RaInv
<1> QED BY <1>1, RaStart, RaStep, PTL DEF RaSpec

\* No message of the user is skipped and no answer is sent back, however many
\* messages were written, lost or timed out (last_message_idx of
\* A2AAgentExecutor, last_sent_message of OciAgentExecutor).
THEOREM MarkStaysInStep == RaSpec => []MarkIsInStep
<1>1. RaInv => MarkIsInStep
  BY DEF RaInv
<1> QED BY <1>1, RaStart, RaStep, PTL DEF RaSpec

-----------------------------------------------------------------------------
(* Least and greatest elements.                                            *)

\* A set of naturals has a least element.
LEMMA Least ==
    ASSUME NEW N, N \subseteq Nat, N # {}
    PROVE  \E n \in N : \A m \in N : n <= m
<1>1. IsWellFoundedOn(OpToRel(<, Nat), Nat)
  BY NatLessThanWellFounded
<1>2. PICK n \in N : \A m \in N : ~(<<m, n>> \in OpToRel(<, Nat))
  BY <1>1, WFMin
<1>3. \A m \in N : ~(m < n)
  BY <1>2 DEF OpToRel
<1> QED BY <1>3

LEMMA MinIsLeast ==
    ASSUME NEW N, N \subseteq Nat, N # {}
    PROVE  Min(N) \in N /\ \A m \in N : Min(N) <= m
<1>1. PICK n \in N : \A m \in N : n <= m
  BY Least
<1> QED BY <1>1 DEF Min

LEMMA MaxIsGreatest ==
    ASSUME NEW N, N \subseteq Nat, N # {}, NEW b \in Nat, \A m \in N : m <= b
    PROVE  Max(N) \in N /\ \A m \in N : m <= Max(N)
<1> DEFINE D == {b - m : m \in N}
<1>1. D \subseteq Nat /\ D # {}
  <2>1. \A m \in N : b - m \in Nat
    OBVIOUS
  <2>2. PICK m \in N : TRUE
    OBVIOUS
  <2>3. b - m \in D
    BY <2>2
  <2> QED BY <2>1, <2>3, Zenon
<1>2. PICK d \in D : \A e \in D : d <= e
  BY <1>1, Least
<1>3. PICK n \in N : d = b - n
  BY <1>2
<1>4. \A m \in N : n >= m
  <2>1. ASSUME NEW m \in N PROVE n >= m
    <3>1. b - n <= b - m
      BY <1>2, <1>3
    <3> QED BY <3>1
  <2> QED BY <2>1
<1> QED BY <1>4 DEF Max

-----------------------------------------------------------------------------
(* Selecting from a sequence.  The library's theorems on recursion and     *)
(* induction take an operator, which the provers cannot instantiate: what  *)
(* holds for every length is shown by the least one for which it does not. *)

\* The equation of the recursive function in Among.
AmongDef(s, S, f, n) ==
    f = [i \in 0..n |->
            IF i = 0 THEN <<>>
            ELSE IF s[i] \in S THEN Append(f[i - 1], s[i]) ELSE f[i - 1]]

AmongSteps(s, S, f, n) ==
    /\ f[0] = <<>>
    /\ \A i \in 1..n : f[i] = IF s[i] \in S THEN Append(f[i - 1], s[i]) ELSE f[i - 1]

LEMMA AmongStep ==
    ASSUME NEW s, NEW S, NEW n \in Nat, NEW f, AmongDef(s, S, f, n)
    PROVE  AmongSteps(s, S, f, n)
<1> DEFINE h == [i \in 0..n |->
                    IF i = 0 THEN <<>>
                    ELSE IF s[i] \in S THEN Append(f[i - 1], s[i]) ELSE f[i - 1]]
<1>1. f = h
  BY DEF AmongDef
<1>2. h[0] = <<>>
  OBVIOUS
<1>3. ASSUME NEW i \in 1..n
      PROVE  h[i] = IF s[i] \in S THEN Append(f[i - 1], s[i]) ELSE f[i - 1]
  OBVIOUS
<1> HIDE DEF h
<1> QED BY <1>1, <1>2, <1>3 DEF AmongSteps

\* The function exists: a least length without one could be reached by one more
\* step.
LEMMA AmongExists ==
    ASSUME NEW s, NEW S, NEW n \in Nat
    PROVE  \E f : AmongDef(s, S, f, n)
<1> DEFINE N == {k \in Nat : ~\E f : AmongDef(s, S, f, k)}
<1>1. CASE N = {}
  BY <1>1
<1>2. CASE N # {}
  <2>1. PICK k \in N : \A m \in N : k <= m
    BY <1>2, Least
  <2>2. k # 0
    <3> DEFINE g == [i \in 0..0 |-> <<>>]
    <3>1. AmongDef(s, S, g, 0)
      BY DEF AmongDef
    <3> QED BY <3>1, <2>1
  <2>3. k - 1 \in Nat /\ k - 1 \notin N
    BY <2>1, <2>2
  <2>4. PICK f : AmongDef(s, S, f, k - 1)
    BY <2>3
  <2> DEFINE v == IF s[k] \in S THEN Append(f[k - 1], s[k]) ELSE f[k - 1]
             g == [i \in 0..k |-> IF i < k THEN f[i] ELSE v]
             h == [i \in 0..k |->
                      IF i = 0 THEN <<>>
                      ELSE IF s[i] \in S THEN Append(g[i - 1], s[i]) ELSE g[i - 1]]
  <2>5. k \in Nat /\ k > 0 /\ \A i \in 0..k : i # 0 => i - 1 \in 0..k /\ i - 1 < k
    BY <2>1, <2>2
  <2>6. \A i \in 0..k : g[i] = h[i]
    <3>1. ASSUME NEW i \in 0..k, i < k PROVE g[i] = h[i]
      <4>1. f[i] = IF i = 0 THEN <<>>
                   ELSE IF s[i] \in S THEN Append(f[i - 1], s[i]) ELSE f[i - 1]
        <5>1. AmongSteps(s, S, f, k - 1)
          BY <2>3, <2>4, AmongStep, Zenon
        <5>2. i = 0 \/ i \in 1..(k - 1)
          BY <2>5, <3>1
        <5> QED BY <5>1, <5>2 DEF AmongSteps
      <4>2. i # 0 => g[i - 1] = f[i - 1]
        BY <2>5, <3>1
      <4>3. g[i] = f[i]
        BY <3>1
      <4> HIDE DEF g
      <4> QED BY <4>1, <4>2, <4>3
    <3>2. g[k] = h[k]
      <4>1. g[k] = v /\ g[k - 1] = f[k - 1] /\ k # 0 /\ k \in 0..k
        BY <2>2, <2>5
      <4> HIDE DEF g
      <4> QED BY <4>1
    <3> HIDE DEF g, h
    <3> QED BY <2>5, <3>1, <3>2
  <2>7. g = h
    <3>1. g = [i \in 0..k |-> g[i]] /\ h = [i \in 0..k |-> h[i]]
      OBVIOUS
    <3> HIDE DEF g, h
    <3> QED BY <2>6, <3>1
  <2>8. AmongDef(s, S, g, k)
    <3> HIDE DEF g
    <3> QED BY <2>7 DEF AmongDef
  <2> QED BY <2>1, <2>8
<1> QED BY <1>1, <1>2

LEMMA AmongUnfolds ==
    ASSUME NEW s, NEW S, Len(s) \in Nat
    PROVE  \E f : AmongDef(s, S, f, Len(s)) /\ Among(s, S) = f[Len(s)]
<1> DEFINE f == CHOOSE g : AmongDef(s, S, g, Len(s))
<1>1. AmongDef(s, S, f, Len(s))
  BY AmongExists
<1>2. Among(s, S) = f[Len(s)]
  BY DEF Among, AmongDef
<1> QED BY <1>1, <1>2

\* What is selected, and that something else makes the sequence shorter.
LEMMA AmongFacts ==
    ASSUME NEW T, NEW s \in Seq(T), NEW S
    PROVE  /\ Among(s, S) \in Seq(T)
           /\ ToSet(Among(s, S)) = ToSet(s) \cap S
           /\ Len(Among(s, S)) <= Len(s)
           /\ ~(ToSet(s) \subseteq S) => Len(Among(s, S)) < Len(s)
<1>1. Len(s) \in Nat /\ DOMAIN s = 1..Len(s) /\ \A i \in 1..Len(s) : s[i] \in T
  OBVIOUS
<1>2. PICK f : AmongDef(s, S, f, Len(s)) /\ Among(s, S) = f[Len(s)]
  BY <1>1, AmongUnfolds
<1>3. AmongSteps(s, S, f, Len(s))
  BY <1>1, <1>2, AmongStep, Zenon
<1>4. /\ f[0] = <<>>
      /\ \A i \in 1..Len(s) : f[i] = IF s[i] \in S THEN Append(f[i - 1], s[i])
                                                   ELSE f[i - 1]
  BY <1>3 DEF AmongSteps
<1> DEFINE Selects(q, k) ==
             /\ q \in Seq(T) /\ Len(q) <= k
             /\ \A x : x \in ToSet(q) <=> x \in S /\ \E i \in 1..k : s[i] = x
             /\ \A i \in 1..k : s[i] \notin S => Len(q) < k
           N == {k \in 0..Len(s) : ~Selects(f[k], k)}
<1>5. Selects(f[0], 0)
  BY <1>4 DEF ToSet
<1>6. ASSUME NEW k \in 1..Len(s), Selects(f[k - 1], k - 1)
      PROVE  Selects(f[k], k)
  <2> DEFINE q == f[k - 1]
  <2>1. /\ q \in Seq(T) /\ Len(q) \in Nat /\ Len(q) <= k - 1
        /\ \A i \in 1..(k - 1) : s[i] \notin S => Len(q) < k - 1
        /\ s[k] \in T /\ k \in Nat /\ k > 0
        /\ f[k] = IF s[k] \in S THEN Append(q, s[k]) ELSE q
    BY <1>1, <1>4, <1>6
  <2>2. f[k] \in Seq(T) /\ Len(f[k]) <= k
    <3> HIDE DEF q
    <3> QED BY <2>1
  <2>3. ASSUME NEW x
        PROVE  x \in ToSet(f[k]) <=> x \in S /\ \E i \in 1..k : s[i] = x
    <3>1. x \in ToSet(f[k - 1])
          <=> x \in S /\ \E i \in 1..(k - 1) : s[i] = x
      BY <1>6
    <3>2. x \in ToSet(f[k]) <=> x \in ToSet(f[k - 1]) \/ (s[k] \in S /\ x = s[k])
      <4>1. CASE s[k] \in S
        <5>1. f[k] = Append(f[k - 1], s[k]) /\ f[k - 1] \in Seq(T) /\ s[k] \in T
          BY <1>1, <1>4, <1>6, <4>1
        <5>2. /\ DOMAIN f[k] = 1..(Len(f[k - 1]) + 1)
              /\ DOMAIN f[k - 1] = 1..Len(f[k - 1]) /\ Len(f[k - 1]) \in Nat
              /\ f[k][Len(f[k - 1]) + 1] = s[k]
              /\ \A i \in 1..Len(f[k - 1]) : f[k][i] = f[k - 1][i]
          BY <5>1
        <5>3. \A i : i \in 1..(Len(f[k - 1]) + 1)
                     <=> i \in 1..Len(f[k - 1]) \/ i = Len(f[k - 1]) + 1
          BY <5>2
        <5> QED BY <4>1, <5>2, <5>3, Zenon DEF ToSet
      <4>2. CASE s[k] \notin S
        BY <1>4, <4>2
      <4> QED BY <4>1, <4>2
    <3>3. \A i : i \in 1..k <=> i \in 1..(k - 1) \/ i = k
      BY <1>1
    <3> QED BY <3>1, <3>2, <3>3, Zenon
  <2>4. ASSUME NEW i \in 1..k, s[i] \notin S PROVE Len(f[k]) < k
    <3>1. CASE i = k
      BY <2>1, <2>4, <3>1
    <3>2. CASE i # k
      <4>1. i \in 1..(k - 1)
        BY <2>1, <3>2
      <4>2. Len(q) < k - 1
        BY <2>1, <2>4, <4>1
      <4> HIDE DEF q
      <4> QED BY <2>1, <4>2
    <3> QED BY <3>1, <3>2
  <2> QED BY <2>2, <2>3, <2>4
<1> HIDE DEF Selects
<1>7. N = {}
  <2>1. SUFFICES ASSUME N # {} PROVE FALSE
    OBVIOUS
  <2>2. PICK k \in N : \A m \in N : k <= m
    <3>1. N \subseteq Nat
      BY <1>1
    <3> HIDE DEF N
    <3> QED BY <2>1, <3>1, Least
  <2>3. k # 0 /\ k \in 1..Len(s) /\ k - 1 \in 0..Len(s) /\ k - 1 \notin N
    BY <1>1, <1>5, <2>2
  <2> QED BY <1>6, <2>2, <2>3
<1>8. Selects(Among(s, S), Len(s))
  BY <1>1, <1>2, <1>7
<1>9. \A x : x \in ToSet(s) <=> \E i \in 1..Len(s) : s[i] = x
  BY <1>1 DEF ToSet
<1> QED BY <1>8, <1>9 DEF Selects

LEMMA UnexpiredFacts ==
    ASSUME NEW T, NEW rows \in Seq(T), NEW e \in 0..Len(rows)
    PROVE  /\ Unexpired(rows, e) \in Seq(T)
           /\ ToSet(Unexpired(rows, e)) \subseteq ToSet(rows)
           /\ Len(Unexpired(rows, e)) = Len(rows) - e
BY DEF Unexpired, ToSet

LEMMA ToSetAppend ==
    ASSUME NEW T, NEW s \in Seq(T), NEW x \in T
    PROVE  /\ Append(s, x) \in Seq(T) /\ Len(Append(s, x)) = Len(s) + 1
           /\ ToSet(Append(s, x)) = ToSet(s) \cup {x}
<1> DEFINE q == Append(s, x)
<1>1. /\ q \in Seq(T) /\ Len(q) = Len(s) + 1 /\ Len(s) \in Nat
      /\ DOMAIN q = 1..(Len(s) + 1) /\ DOMAIN s = 1..Len(s)
      /\ q[Len(s) + 1] = x /\ \A i \in 1..Len(s) : q[i] = s[i]
  OBVIOUS
<1>2. \A i : i \in 1..(Len(s) + 1) <=> i \in 1..Len(s) \/ i = Len(s) + 1
  BY <1>1
<1> HIDE DEF q
<1>3. ToSet(q) = ToSet(s) \cup {x}
  BY <1>1, <1>2, Zenon DEF ToSet
<1> QED BY <1>1, <1>3 DEF q

LEMMA ToSetConcat ==
    ASSUME NEW T, NEW s \in Seq(T), NEW t \in Seq(T)
    PROVE  /\ s \o t \in Seq(T)
           /\ ToSet(s \o t) = ToSet(s) \cup ToSet(t)
<1> DEFINE q == s \o t
<1>1. /\ q \in Seq(T) /\ Len(s) \in Nat /\ Len(t) \in Nat
      /\ DOMAIN q = 1..(Len(s) + Len(t))
      /\ DOMAIN s = 1..Len(s) /\ DOMAIN t = 1..Len(t)
      /\ \A i \in 1..Len(s) : q[i] = s[i]
      /\ \A i \in 1..Len(t) : q[Len(s) + i] = t[i]
  OBVIOUS
<1> HIDE DEF q
<1>2. ASSUME NEW i \in DOMAIN q PROVE q[i] \in ToSet(s) \cup ToSet(t)
  <2>1. CASE i \in 1..Len(s)
    BY <1>1, <2>1 DEF ToSet
  <2>2. CASE i \notin 1..Len(s)
    <3>1. i - Len(s) \in 1..Len(t) /\ Len(s) + (i - Len(s)) = i
      BY <1>1, <2>2
    <3>2. q[i] = t[i - Len(s)]
      BY <1>1, <3>1
    <3> QED BY <1>1, <3>1, <3>2 DEF ToSet
  <2> QED BY <2>1, <2>2
<1>3. ASSUME NEW i \in DOMAIN s PROVE s[i] \in ToSet(q)
  <2>1. i \in DOMAIN q /\ q[i] = s[i]
    BY <1>1
  <2> QED BY <2>1 DEF ToSet
<1>4. ASSUME NEW i \in DOMAIN t PROVE t[i] \in ToSet(q)
  <2>1. Len(s) + i \in DOMAIN q /\ q[Len(s) + i] = t[i]
    BY <1>1
  <2> QED BY <2>1 DEF ToSet
<1>5. ToSet(q) = ToSet(s) \cup ToSet(t)
  BY <1>2, <1>3, <1>4 DEF ToSet
<1> QED BY <1>1, <1>5 DEF q

-----------------------------------------------------------------------------
(* Summaries of conversations.                                             *)

\* Of every result the request is among the messages before, with nothing but
\* results of the same message in between.
SumPaired(list) ==
    \A i \in DOMAIN list : list[i] = "result" =>
        \E j \in 1..(i - 1) : /\ list[j] = "request"
                              /\ \A k \in (j + 1)..i : list[k] = "result"

\* A summary of the first messages, which does not separate a result from its
\* request nor cover one of the latest messages.
Cut(list, prefix, covers) ==
    /\ covers = 1..prefix
    /\ prefix + SumMin <= Len(list)
    /\ \A i \in (prefix + 1)..Len(list) :
          list[i] = "result" => RequestOf(list, i) \in (prefix + 1)..(i - 1)

ListsInv == \A c \in SumConvs : /\ Len(sumList[c]) <= SumMaxMessages
                                /\ SumPaired(sumList[c])

RowsInv == \A r \in ToSet(sumRows) : Cut(sumList[r.conv], r.prefix, r.covers)

CallsInv == \A c \in SumConvs : sumCall[c] # NotAsked
               => Cut(sumList[c], sumCall[c].prefix, sumCall[c].covers)

SumInv == SumTypeOK /\ ListsInv /\ RowsInv /\ CallsInv /\ PromptIsWhole

LEMMA RequestFacts ==
    ASSUME NEW list \in Seq(SumMessage), SumPaired(list),
           NEW i \in DOMAIN list, list[i] = "result"
    PROVE  /\ RequestOf(list, i) \in 1..(i - 1)
           /\ list[RequestOf(list, i)] = "request"
           /\ \A j \in 1..(i - 1) : list[j] = "request" => j <= RequestOf(list, i)
<1> DEFINE N == {j \in 1..(i - 1) : list[j] = "request"}
<1>1. i \in Nat /\ N \subseteq Nat /\ \A m \in N : m <= i
  OBVIOUS
<1>2. N # {}
  BY DEF SumPaired
<1>3. Max(N) \in N /\ \A m \in N : m <= Max(N)
  <2> HIDE DEF N
  <2> QED BY <1>1, <1>2, MaxIsGreatest
<1> QED BY <1>3 DEF RequestOf

\* What is kept begins after the cached summary, keeps the latest messages, and
\* separates no result from its request.
LEMMA FirstKeptCut ==
    ASSUME NEW list \in Seq(SumMessage), SumPaired(list), SumMin \in Nat \ {0},
           NEW prefix \in Nat, NEW covers, Cut(list, prefix, covers)
    PROVE  LET first == FirstKept(list, prefix) IN
           /\ first - 1 \in Nat /\ prefix <= first - 1 /\ first - 1 <= Len(list)
           /\ Cut(list, first - 1, covers \cup ((prefix + 1)..(first - 1)))
<1> DEFINE latest == Len(list) - SumMin + 1
           results == {j \in latest..Len(list) : list[j] = "result"}
           needed == {RequestOf(list, i) : i \in results}
           missing == needed \cap ((prefix + 1)..(latest - 1))
           first == FirstKept(list, prefix)
<1>1. /\ Len(list) \in Nat /\ DOMAIN list = 1..Len(list)
      /\ latest \in Nat /\ prefix + 1 <= latest /\ latest <= Len(list)
      /\ covers = 1..prefix
  BY DEF Cut
<1>2. ASSUME NEW i \in (prefix + 1)..Len(list), list[i] = "result"
      PROVE  /\ RequestOf(list, i) \in (prefix + 1)..(i - 1)
             /\ list[RequestOf(list, i)] = "request"
             /\ \A j \in 1..(i - 1) : list[j] = "request" => j <= RequestOf(list, i)
  <2>1. i \in DOMAIN list
    BY <1>1
  <2>2. RequestOf(list, i) \in (prefix + 1)..(i - 1)
    BY <1>2 DEF Cut
  <2> QED BY <1>2, <2>1, <2>2, RequestFacts
<1>3. first = IF missing = {} THEN latest ELSE Min(missing)
  BY DEF FirstKept
<1>4. ASSUME NEW i \in latest..Len(list), list[i] = "result"
      PROVE  /\ RequestOf(list, i) \in needed /\ RequestOf(list, i) \in Nat
             /\ RequestOf(list, i) \in missing \/ RequestOf(list, i) >= latest
  <2>1. i \in results
    BY <1>4
  <2>2. RequestOf(list, i) \in needed
    BY <2>1
  <2>3. RequestOf(list, i) \in (prefix + 1)..(i - 1)
    <3>1. i \in (prefix + 1)..Len(list)
      BY <1>1, <1>4
    <3> QED BY <1>2, <1>4, <3>1
  <2> HIDE DEF needed, latest
  <2> QED BY <1>1, <2>2, <2>3
<1>5. /\ first \in Nat /\ prefix + 1 <= first /\ first <= latest
      /\ \A i \in first..Len(list) : list[i] = "result" => RequestOf(list, i) >= first
  <2>1. CASE missing = {}
    <3>1. first = latest
      BY <1>3, <2>1
    <3>2. ASSUME NEW i \in latest..Len(list), list[i] = "result"
          PROVE  RequestOf(list, i) >= latest
      BY <1>4, <2>1, <3>2
    <3> HIDE DEF first, latest, missing
    <3> QED BY <1>1, <3>1, <3>2
  <2>2. CASE missing # {}
    <3>1. first = Min(missing)
      BY <1>3, <2>2
    <3>2. missing \subseteq Nat
      BY <1>1
    <3>3. first \in missing /\ \A m \in missing : first <= m
      <4> HIDE DEF missing, first
      <4> QED BY <2>2, <3>1, <3>2, MinIsLeast
    <3>4. first \in (prefix + 1)..(latest - 1) /\ list[first] = "request"
      <4>1. PICK i \in results : first = RequestOf(list, i)
        BY <3>3
      <4>2. i \in (prefix + 1)..Len(list) /\ list[i] = "result"
        BY <1>1
      <4>3. list[RequestOf(list, i)] = "request"
        BY <1>2, <4>2
      <4> HIDE DEF first
      <4> QED BY <3>3, <4>1, <4>3
    <3>5. ASSUME NEW i \in first..Len(list), list[i] = "result"
          PROVE  RequestOf(list, i) >= first
      <4>1. CASE i >= latest
        <5>1. i \in latest..Len(list)
          BY <1>1, <3>4, <4>1
        <5>2. /\ RequestOf(list, i) \in Nat
              /\ RequestOf(list, i) \in missing \/ RequestOf(list, i) >= latest
          BY <1>4, <3>5, <5>1
        <5> HIDE DEF first, latest, missing
        <5> QED BY <1>1, <3>3, <3>4, <5>2
      <4>2. CASE ~(i >= latest)
        <5>1. i # first /\ i \in (prefix + 1)..Len(list) /\ first \in 1..(i - 1)
          <6> HIDE DEF first, latest
          <6> QED BY <1>1, <3>4, <3>5
        <5>2. first <= RequestOf(list, i) /\ RequestOf(list, i) \in (prefix + 1)..(i - 1)
          <6> HIDE DEF first
          <6> QED BY <1>2, <3>4, <3>5, <5>1
        <5> HIDE DEF first
        <5> QED BY <1>1, <3>4, <5>2
      <4> QED BY <4>1, <4>2
    <3> HIDE DEF first, latest
    <3> QED BY <1>1, <3>4, <3>5
  <2> QED BY <2>1, <2>2
<1>6. covers \cup ((prefix + 1)..(first - 1)) = 1..(first - 1)
  <2> HIDE DEF first, latest
  <2> QED BY <1>1, <1>5
<1>7. first - 1 + SumMin <= Len(list)
  <2>1. latest - 1 + SumMin = Len(list)
    BY <1>1
  <2> HIDE DEF first, latest
  <2> QED BY <1>1, <1>5, <2>1
<1>8. ASSUME NEW i \in first..Len(list), list[i] = "result"
      PROVE  RequestOf(list, i) \in first..(i - 1)
  <2>1. i \in (prefix + 1)..Len(list)
    <3> HIDE DEF first, latest
    <3> QED BY <1>1, <1>5
  <2>2. RequestOf(list, i) \in (prefix + 1)..(i - 1) /\ RequestOf(list, i) >= first
    <3> HIDE DEF first
    <3> QED BY <1>2, <1>5, <1>8, <2>1
  <2> HIDE DEF first, latest
  <2> QED BY <1>1, <1>5, <2>2
<1>9. first - 1 + 1 = first /\ first - 1 \in Nat /\ prefix <= first - 1
      /\ first - 1 <= Len(list)
  <2> HIDE DEF first, latest
  <2> QED BY <1>1, <1>5
<1>10. Cut(list, first - 1, covers \cup ((prefix + 1)..(first - 1)))
  <2> HIDE DEF first
  <2> QED BY <1>6, <1>7, <1>8, <1>9 DEF Cut
<1> QED BY <1>9, <1>10

\* New messages leave the cuts of a conversation as good as they were.
LEMMA TurnKeepsCuts ==
    ASSUME NEW list \in Seq(SumMessage), SumPaired(list), NEW turn \in Turns
    PROVE  /\ list \o turn \in Seq(SumMessage)
           /\ Len(list \o turn) = Len(list) + Len(turn)
           /\ SumPaired(list \o turn)
           /\ \A prefix \in Nat : \A covers :
                 Cut(list, prefix, covers) => Cut(list \o turn, prefix, covers)
<1> DEFINE n == Len(list)
           both == list \o turn
<1>1. /\ turn \in Seq(SumMessage) /\ Len(turn) \in 1..3
      /\ \A i \in 1..Len(turn) : turn[i] = "result"
            => /\ i > 1 /\ turn[1] = "request"
               /\ \A k \in 2..i : turn[k] = "result"
  <2>1. CASE turn = <<"plain">>
    BY <2>1 DEF SumMessage
  <2>2. CASE turn = <<"request", "result">>
    BY <2>2 DEF SumMessage
  <2>3. CASE turn = <<"request", "result", "result">>
    BY <2>3 DEF SumMessage
  <2> QED BY <2>1, <2>2, <2>3 DEF Turns
<1>2. /\ n \in Nat /\ both \in Seq(SumMessage) /\ Len(both) = n + Len(turn)
      /\ DOMAIN both = 1..(n + Len(turn)) /\ DOMAIN list = 1..n
      /\ \A i \in 1..n : both[i] = list[i]
      /\ \A i \in 1..Len(turn) : both[n + i] = turn[i]
  BY <1>1
<1>3. \A i \in (n + 1)..(n + Len(turn)) : i - n \in 1..Len(turn) /\ both[i] = turn[i - n]
  <2>1. ASSUME NEW i \in (n + 1)..(n + Len(turn))
        PROVE  i - n \in 1..Len(turn) /\ both[i] = turn[i - n]
    <3>1. i - n \in 1..Len(turn) /\ n + (i - n) = i
      BY <1>1, <1>2
    <3> HIDE DEF both, n
    <3> QED BY <1>2, <3>1
  <2> QED BY <2>1
<1>4. ASSUME NEW i \in 1..n, list[i] = "result"
      PROVE  \E j \in 1..(i - 1) : /\ both[j] = "request"
                                   /\ \A k \in (j + 1)..i : both[k] = "result"
  <2>1. PICK j \in 1..(i - 1) : /\ list[j] = "request"
                                /\ \A k \in (j + 1)..i : list[k] = "result"
    BY <1>2, <1>4 DEF SumPaired
  <2>2. both[j] = "request" /\ \A k \in (j + 1)..i : both[k] = "result"
    <3> HIDE DEF both
    <3> QED BY <1>2, <2>1
  <2> QED BY <2>2
<1>5. ASSUME NEW i \in (n + 1)..(n + Len(turn)), both[i] = "result"
      PROVE  /\ n + 1 \in 1..(i - 1) /\ both[n + 1] = "request"
             /\ \A k \in (n + 2)..i : both[k] = "result"
  <2>1. i - n \in 1..Len(turn) /\ turn[i - n] = "result"
    BY <1>3, <1>5
  <2>2. /\ i - n > 1 /\ turn[1] = "request"
        /\ \A k \in 2..(i - n) : turn[k] = "result"
    BY <1>1, <2>1
  <2>3. both[n + 1] = "request"
    <3> HIDE DEF both
    <3> QED BY <1>1, <1>2, <2>2
  <2>4. ASSUME NEW k \in (n + 2)..i PROVE both[k] = "result"
    <3>1. k \in (n + 1)..(n + Len(turn)) /\ k - n \in 2..(i - n)
      BY <1>1, <1>2
    <3>2. turn[k - n] = "result"
      BY <2>2, <3>1
    <3> HIDE DEF both, n
    <3> QED BY <1>3, <3>1, <3>2
  <2> QED BY <1>2, <2>2, <2>3, <2>4
<1>6. SumPaired(both)
  <2>1. SUFFICES ASSUME NEW i \in DOMAIN both, both[i] = "result"
                 PROVE  \E j \in 1..(i - 1) :
                            /\ both[j] = "request"
                            /\ \A k \in (j + 1)..i : both[k] = "result"
    BY Zenon DEF SumPaired
  <2>2. CASE i \in 1..n
    BY <1>2, <1>4, <2>1, <2>2
  <2>3. CASE i \notin 1..n
    <3>1. i \in (n + 1)..(n + Len(turn)) /\ (n + 1) + 1 = n + 2
      <4> HIDE DEF both
      <4> QED BY <1>1, <1>2, <2>3
    <3>2. /\ n + 1 \in 1..(i - 1) /\ both[n + 1] = "request"
          /\ \A k \in ((n + 1) + 1)..i : both[k] = "result"
      BY <1>5, <2>1, <3>1
    <3> QED BY <3>2, Zenon
  <2> QED BY <2>2, <2>3
<1>7. ASSUME NEW prefix \in Nat, NEW covers, Cut(list, prefix, covers)
      PROVE  Cut(both, prefix, covers)
  <2>1. prefix + SumMin <= Len(both)
    <3> HIDE DEF both
    <3> QED BY <1>1, <1>2, <1>7, SumAssumption DEF Cut
  <2>2. ASSUME NEW i \in (prefix + 1)..Len(both), both[i] = "result"
        PROVE  RequestOf(both, i) \in (prefix + 1)..(i - 1)
    <3>1. CASE i \in 1..n
      <4>1. \A j \in 1..(i - 1) : both[j] = list[j]
        <5> HIDE DEF both
        <5> QED BY <1>2, <3>1
      <4>2. RequestOf(both, i) = RequestOf(list, i)
        <5>1. {j \in 1..(i - 1) : both[j] = "request"}
              = {j \in 1..(i - 1) : list[j] = "request"}
          <6> HIDE DEF both
          <6> QED BY <4>1
        <5> HIDE DEF both
        <5> QED BY <5>1 DEF RequestOf
      <4>3. list[i] = "result" /\ i \in (prefix + 1)..Len(list)
        <5> HIDE DEF both
        <5> QED BY <1>2, <2>2, <3>1
      <4> QED BY <1>7, <4>2, <4>3 DEF Cut
    <3>2. CASE i \notin 1..n
      <4>1. i \in (n + 1)..(n + Len(turn)) /\ i \in DOMAIN both /\ prefix <= n
        <5> HIDE DEF both
        <5> QED BY <1>1, <1>2, <1>7, <3>2, SumAssumption DEF Cut
      <4>2. n + 1 \in 1..(i - 1) /\ both[n + 1] = "request"
        BY <1>5, <2>2, <4>1
      <4>3. RequestOf(both, i) \in 1..(i - 1) /\ n + 1 <= RequestOf(both, i)
        <5> HIDE DEF both
        <5> QED BY <1>2, <1>6, <2>2, <4>1, <4>2, RequestFacts
      <4> HIDE DEF both
      <4> QED BY <1>2, <4>1, <4>3
    <3> QED BY <3>1, <3>2
  <2> HIDE DEF both
  <2> QED BY <1>7, <2>1, <2>2 DEF Cut
<1> QED BY <1>2, <1>6, <1>7

\* The cached summary of a conversation, or none.
LEMMA CachedCut ==
    ASSUME SumInv, NEW c \in SumConvs, NEW e \in 0..Len(sumRows),
           TooMany(Len(sumList[c]))
    PROVE  LET cached == RowsOf(Unexpired(sumRows, e), c) IN
           /\ CachedPrefix(cached) \in Nat
           /\ Cut(sumList[c], CachedPrefix(cached), CachedCovers(cached))
<1> DEFINE rows == Unexpired(sumRows, e)
           cached == RowsOf(rows, c)
<1>1. sumRows \in Seq(Row) /\ sumList[c] \in Seq(SumMessage)
  BY DEF SumInv, SumTypeOK
<1>2. rows \in Seq(Row) /\ ToSet(rows) \subseteq ToSet(sumRows)
  BY <1>1, UnexpiredFacts
<1>3. /\ cached \in Seq(Row)
      /\ ToSet(cached) \subseteq {r \in ToSet(sumRows) : r.conv = c}
  <2> HIDE DEF rows
  <2> QED BY <1>2, AmongFacts DEF RowsOf
<1>4. CASE cached = <<>>
  <2>1. CachedPrefix(cached) = 0 /\ CachedCovers(cached) = {}
    BY <1>4 DEF CachedPrefix, CachedCovers
  <2>2. SumPaired(sumList[c]) /\ 0 + SumMin <= Len(sumList[c]) /\ {} = 1..0
    BY <1>1, SumAssumption DEF SumInv, ListsInv, TooMany
  <2>3. \A i \in (0 + 1)..Len(sumList[c]) : sumList[c][i] = "result"
           => RequestOf(sumList[c], i) \in (0 + 1)..(i - 1)
    BY <1>1, <2>2, RequestFacts
  <2>4. Cut(sumList[c], 0, {})
    BY <2>2, <2>3 DEF Cut
  <2>5. CachedPrefix(cached) \in Nat
        /\ Cut(sumList[c], CachedPrefix(cached), CachedCovers(cached))
    <3> HIDE DEF cached
    <3> QED BY <2>1, <2>4
  <2> QED BY <2>5
<1>5. CASE cached # <<>>
  <2>1. Head(cached) \in ToSet(cached)
    <3> HIDE DEF cached
    <3> QED BY <1>3, <1>5 DEF ToSet
  <2>2. Head(cached) \in ToSet(sumRows) /\ Head(cached).conv = c
    <3> HIDE DEF cached
    <3> QED BY <1>3, <2>1
  <2>3. Cut(sumList[c], Head(cached).prefix, Head(cached).covers)
    <3> HIDE DEF cached
    <3> QED BY <2>2 DEF SumInv, RowsInv
  <2>4. Head(cached).prefix \in Nat
    <3>1. Head(cached) \in Row
      <4> HIDE DEF cached
      <4> QED BY <1>3, <1>5
    <3> HIDE DEF cached
    <3> QED BY <3>1, SumAssumption DEF Row
  <2>5. CachedPrefix(cached) \in Nat
        /\ Cut(sumList[c], CachedPrefix(cached), CachedCovers(cached))
    <3> HIDE DEF cached
    <3> QED BY <1>5, <2>3, <2>4 DEF CachedPrefix, CachedCovers
  <2> QED BY <2>5
<1> QED BY <1>4, <1>5

\* Reading the cache removes rows and reorders the uses.
LEMMA RetrieveKeeps ==
    ASSUME SumTypeOK, NEW c \in SumConvs, NEW e \in 0..Len(sumRows),
           Retrieve(c, e)
    PROVE  /\ sumRows' \in Seq(Row) /\ sumUsed' \in Seq(SumConvs)
           /\ ToSet(sumUsed') = {r.conv : r \in ToSet(sumRows')}
           /\ ToSet(sumRows') \subseteq ToSet(sumRows)
<1> DEFINE convs == {r.conv : r \in ToSet(sumRows')}
           used == InUse(sumUsed, sumRows')
<1>1. /\ sumRows \in Seq(Row) /\ sumUsed \in Seq(SumConvs)
      /\ ToSet(sumUsed) = {r.conv : r \in ToSet(sumRows)}
  BY DEF SumTypeOK
<1>2. /\ sumRows' = Unexpired(sumRows, e)
      /\ sumUsed' = Among(used, SumConvs \ {c}) \o Among(used, {c})
  BY DEF Retrieve
<1>3. /\ sumRows' \in Seq(Row) /\ ToSet(sumRows') \subseteq ToSet(sumRows)
      /\ Len(sumRows') = Len(sumRows) - e
  BY <1>1, <1>2, UnexpiredFacts
<1>4. used \in Seq(SumConvs) /\ ToSet(used) = convs
  <2>1. used \in Seq(SumConvs) /\ ToSet(used) = ToSet(sumUsed) \cap convs
    BY <1>1, AmongFacts DEF InUse
  <2>2. convs \subseteq ToSet(sumUsed)
    BY <1>1, <1>3
  <2> HIDE DEF convs, used
  <2> QED BY <2>1, <2>2
<1>5. /\ Among(used, SumConvs \ {c}) \in Seq(SumConvs)
      /\ ToSet(Among(used, SumConvs \ {c})) = convs \cap (SumConvs \ {c})
      /\ Among(used, {c}) \in Seq(SumConvs)
      /\ ToSet(Among(used, {c})) = convs \cap {c}
  <2> HIDE DEF used, convs
  <2> QED BY <1>4, AmongFacts
<1>6. convs \subseteq SumConvs
  <2>1. \A r \in ToSet(sumRows') : r \in Row
    BY <1>3 DEF ToSet
  <2> QED BY <2>1 DEF Row
<1>7. sumUsed' \in Seq(SumConvs) /\ ToSet(sumUsed') = convs
  <2> DEFINE others == Among(used, SumConvs \ {c})
             own == Among(used, {c})
  <2>1. /\ others \o own \in Seq(SumConvs)
        /\ ToSet(others \o own) = ToSet(others) \cup ToSet(own)
    <3> HIDE DEF others, own
    <3>1. others \in Seq(SumConvs) /\ own \in Seq(SumConvs)
      BY <1>5 DEF others, own
    <3> QED BY <3>1, ToSetConcat
  <2>2. ToSet(others) \cup ToSet(own) = convs
    <3> HIDE DEF used, convs
    <3> QED BY <1>5, <1>6
  <2> HIDE DEF used, convs
  <2> QED BY <1>2, <2>1, <2>2
<1> QED BY <1>3, <1>7

\* Removing the row that was not used for longest makes room for the new one.
LEMMA StoreKeeps ==
    ASSUME SumTypeOK, NEW row \in Row, NEW e \in 0..Len(sumRows),
           StoreRow(row, e)
    PROVE  /\ sumRows' \in Seq(Row) /\ sumUsed' \in Seq(SumConvs)
           /\ ToSet(sumUsed') = {r.conv : r \in ToSet(sumRows')}
           /\ ToSet(sumRows') \subseteq ToSet(sumRows) \cup {row}
<1> DEFINE kept == WithoutLru(sumRows)
           rows == Unexpired(kept, e)
           convs == {r.conv : r \in ToSet(rows)}
           used == InUse(sumUsed, rows)
<1>1. /\ sumRows \in Seq(Row) /\ sumUsed \in Seq(SumConvs)
      /\ ToSet(sumUsed) = {r.conv : r \in ToSet(sumRows)}
      /\ Len(sumRows) \in Nat /\ SumCacheSize \in Nat
  BY SumAssumption DEF SumTypeOK
<1>2. /\ e \in 0..Len(kept) /\ sumRows' = Append(rows, row)
      /\ sumUsed' = IF row.conv \in ToSet(used) THEN used ELSE Append(used, row.conv)
  BY DEF StoreRow
<1>3. kept \in Seq(Row) /\ ToSet(kept) \subseteq ToSet(sumRows)
  BY <1>1, AmongFacts DEF WithoutLru
<1>4. rows \in Seq(Row) /\ ToSet(rows) \subseteq ToSet(kept) /\ Len(rows) = Len(kept) - e
  <2> HIDE DEF kept
  <2> QED BY <1>2, <1>3, UnexpiredFacts
<1>5. /\ sumRows' \in Seq(Row) /\ Len(sumRows') = Len(rows) + 1
      /\ ToSet(sumRows') = ToSet(rows) \cup {row}
  <2> HIDE DEF rows
  <2> QED BY <1>2, <1>4, ToSetAppend
<1>6. used \in Seq(SumConvs) /\ ToSet(used) = convs
  <2>1. used \in Seq(SumConvs) /\ ToSet(used) = ToSet(sumUsed) \cap convs
    BY <1>1, AmongFacts DEF InUse
  <2>2. convs \subseteq ToSet(sumUsed)
    <3> HIDE DEF kept, rows
    <3> QED BY <1>1, <1>3, <1>4
  <2> HIDE DEF convs, used
  <2> QED BY <2>1, <2>2
<1>7. {r.conv : r \in ToSet(sumRows')} = convs \cup {row.conv}
  <2> HIDE DEF rows
  <2> QED BY <1>5
<1>8. row.conv \in SumConvs
  BY DEF Row
<1>9. sumUsed' \in Seq(SumConvs) /\ ToSet(sumUsed') = convs \cup {row.conv}
  <2> HIDE DEF used, convs
  <2>1. CASE row.conv \in ToSet(used)
    BY <1>2, <1>6, <2>1
  <2>2. CASE row.conv \notin ToSet(used)
    BY <1>2, <1>6, <1>8, <2>2, ToSetAppend
  <2> QED BY <2>1, <2>2
<1>10. ToSet(sumRows') \subseteq ToSet(sumRows) \cup {row}
  <2> HIDE DEF rows, kept
  <2> QED BY <1>3, <1>4, <1>5
<1> HIDE DEF convs
<1> QED BY <1>5, <1>7, <1>9, <1>10

\* A prompt of a summary and the messages after it.
LEMMA PromptWhole ==
    ASSUME SumInv, NEW c \in SumConvs, NEW prefix \in Nat, NEW covers,
           covers = 1..prefix, prefix <= Len(sumList[c]),
           \A i \in (prefix + 1)..Len(sumList[c]) : sumList[c][i] = "result"
              => RequestOf(sumList[c], i) \in (prefix + 1)..(i - 1),
           \A i \in 1..Len(sumList[c]) : i + SumMin > Len(sumList[c]) => i > prefix,
           Prompt(c, covers, prefix + 1), UNCHANGED sumList
    PROVE  /\ sumPrompt' \in Seq([conv : SumConvs, covers : SUBSET SumIds,
                                  kept : SUBSET SumIds])
           /\ PromptIsWhole'
<1> DEFINE list == sumList[c]
           kept == (prefix + 1)..Len(list)
           p == [conv |-> c, covers |-> covers, kept |-> kept]
<1>1. sumPrompt' = <<p>>
  BY DEF Prompt
<1>2. /\ list \in Seq(SumMessage) /\ Len(list) \in Nat /\ Len(list) <= SumMaxMessages
      /\ DOMAIN list = 1..Len(list) /\ prefix <= Len(list)
  BY DEF SumInv, SumTypeOK, ListsInv
<1>3. covers \subseteq SumIds /\ kept \subseteq SumIds
  <2> HIDE DEF list
  <2> QED BY <1>2, SumAssumption DEF SumIds
<1>4. p \in [conv : SumConvs, covers : SUBSET SumIds, kept : SUBSET SumIds]
  <2> HIDE DEF kept
  <2> QED BY <1>3
<1>5. covers \cap kept = {} /\ covers \cup kept = DOMAIN list
  <2> HIDE DEF list
  <2> QED BY <1>2
<1>6. \A i \in kept : list[i] = "result" => RequestOf(list, i) \in kept
  BY <1>2
<1>7. \A i \in DOMAIN list : i + SumMin > Len(list) => i \in kept
  BY <1>2
<1>8. ToSet(sumPrompt') = {p}
  <2> HIDE DEF p
  <2> QED BY <1>1 DEF ToSet
<1>9. PromptIsWhole'
  <2>1. p.conv = c /\ p.covers = covers /\ p.kept = kept /\ sumList' = sumList
    OBVIOUS
  <2> HIDE DEF p, kept
  <2> QED BY <1>5, <1>6, <1>7, <1>8, <2>1 DEF PromptIsWhole
<1> HIDE DEF p
<1> QED BY <1>1, <1>4, <1>9

LEMMA CutPrompt ==
    ASSUME SumInv, NEW c \in SumConvs, NEW prefix \in Nat, NEW covers,
           Cut(sumList[c], prefix, covers),
           Prompt(c, covers, prefix + 1), UNCHANGED sumList
    PROVE  /\ sumPrompt' \in Seq([conv : SumConvs, covers : SUBSET SumIds,
                                  kept : SUBSET SumIds])
           /\ PromptIsWhole'
<1>1. Len(sumList[c]) \in Nat
  BY DEF SumInv, SumTypeOK
<1>2. /\ covers = 1..prefix /\ prefix <= Len(sumList[c])
      /\ \A i \in (prefix + 1)..Len(sumList[c]) : sumList[c][i] = "result"
            => RequestOf(sumList[c], i) \in (prefix + 1)..(i - 1)
      /\ \A i \in 1..Len(sumList[c]) : i + SumMin > Len(sumList[c]) => i > prefix
  BY <1>1, SumAssumption DEF Cut
<1> QED BY <1>2, PromptWhole

LEMMA NoPromptIsWhole ==
    ASSUME sumPrompt' = NoSumPrompt
    PROVE  /\ sumPrompt' \in Seq([conv : SumConvs, covers : SUBSET SumIds,
                                  kept : SUBSET SumIds])
           /\ PromptIsWhole'
BY DEF NoSumPrompt, PromptIsWhole, ToSet

\* Nothing is changed but calls, rows and uses of the cache, and the prompt.
LEMMA CacheStep ==
    ASSUME SumInv, UNCHANGED sumList,
           sumRows' \in Seq(Row), sumUsed' \in Seq(SumConvs),
           ToSet(sumUsed') = {r.conv : r \in ToSet(sumRows')},
           sumCall' \in [SumConvs -> SumCall],
           \A r \in ToSet(sumRows') : Cut(sumList[r.conv], r.prefix, r.covers),
           \A c \in SumConvs : sumCall'[c] # NotAsked
              => Cut(sumList[c], sumCall'[c].prefix, sumCall'[c].covers),
           sumPrompt' \in Seq([conv : SumConvs, covers : SUBSET SumIds,
                               kept : SUBSET SumIds]),
           PromptIsWhole'
    PROVE  SumInv'
<1>1. SumTypeOK' /\ ListsInv'
  BY DEF SumInv, SumTypeOK, ListsInv
<1>2. RowsInv' /\ CallsInv'
  <2>1. sumList' = sumList
    OBVIOUS
  <2> QED BY <2>1 DEF RowsInv, CallsInv
<1> QED BY <1>1, <1>2 DEF SumInv

LEMMA WritesKeeps ==
    ASSUME SumInv, NEW c \in SumConvs, NEW turn \in Turns, SumWrites(c, turn)
    PROVE  SumInv'
<1>1. /\ sumList \in [SumConvs -> Seq(SumMessage)]
      /\ sumList' = [sumList EXCEPT ![c] = sumList[c] \o turn]
      /\ Len(sumList[c]) + Len(turn) <= SumMaxMessages /\ sumCall[c] = NotAsked
      /\ UNCHANGED <<sumRows, sumUsed, sumCall>> /\ sumPrompt' = NoSumPrompt
  BY DEF SumWrites, SumInv, SumTypeOK
<1>2. /\ sumList[c] \o turn \in Seq(SumMessage)
      /\ Len(sumList[c] \o turn) = Len(sumList[c]) + Len(turn)
      /\ SumPaired(sumList[c] \o turn)
      /\ \A prefix \in Nat : \A covers :
            Cut(sumList[c], prefix, covers) => Cut(sumList[c] \o turn, prefix, covers)
  BY <1>1, TurnKeepsCuts DEF SumInv, ListsInv
<1>3. /\ sumList' \in [SumConvs -> Seq(SumMessage)]
      /\ sumList'[c] = sumList[c] \o turn
      /\ \A d \in SumConvs \ {c} : sumList'[d] = sumList[d]
  BY <1>1, <1>2
<1>4. SumTypeOK'
  <2>1. /\ sumRows' \in Seq(Row) /\ sumUsed' \in Seq(SumConvs)
        /\ ToSet(sumUsed') = {r.conv : r \in ToSet(sumRows')}
        /\ sumCall' \in [SumConvs -> SumCall]
    BY <1>1 DEF SumInv, SumTypeOK
  <2> QED BY <1>1, <1>3, <2>1, NoPromptIsWhole DEF SumTypeOK
<1>5. ListsInv'
  <2>1. Len(sumList[c] \o turn) <= SumMaxMessages
    BY <1>1, <1>2
  <2>2. ASSUME NEW d \in SumConvs
        PROVE  Len(sumList'[d]) <= SumMaxMessages /\ SumPaired(sumList'[d])
    BY <1>2, <1>3, <2>1 DEF SumInv, ListsInv
  <2> QED BY <2>2 DEF ListsInv
<1>6. \A d \in SumConvs : \A prefix \in Nat : \A covers :
         Cut(sumList[d], prefix, covers) => Cut(sumList'[d], prefix, covers)
  BY <1>2, <1>3
<1>7. RowsInv'
  <2>1. ASSUME NEW r \in ToSet(sumRows) PROVE Cut(sumList'[r.conv], r.prefix, r.covers)
    <3>1. r \in Row
      BY DEF SumInv, SumTypeOK, ToSet
    <3>2. r.conv \in SumConvs /\ r.prefix \in Nat
      BY <3>1, SumAssumption DEF Row
    <3> QED BY <1>6, <3>2 DEF SumInv, RowsInv
  <2> QED BY <1>1, <2>1 DEF RowsInv
<1>8. CallsInv'
  <2>1. ASSUME NEW d \in SumConvs, sumCall[d] # NotAsked
        PROVE  Cut(sumList'[d], sumCall[d].prefix, sumCall[d].covers)
    <3>1. d # c
      BY <1>1, <2>1
    <3> QED BY <1>3, <2>1, <3>1 DEF SumInv, CallsInv
  <2> QED BY <1>1, <2>1 DEF CallsInv
<1> QED BY <1>1, <1>4, <1>5, <1>7, <1>8, NoPromptIsWhole DEF SumInv

LEMMA ShortKeeps ==
    ASSUME SumInv, NEW c \in SumConvs, SumShort(c)
    PROVE  SumInv'
<1>1. /\ UNCHANGED <<sumList, sumRows, sumUsed, sumCall>> /\ Prompt(c, {}, 0 + 1)
      /\ sumList[c] \in Seq(SumMessage) /\ SumPaired(sumList[c])
  BY DEF SumShort, SumInv, SumTypeOK, ListsInv
<1>2. {} = 1..0 /\ 0 <= Len(sumList[c])
  BY <1>1
<1>3. \A i \in (0 + 1)..Len(sumList[c]) : sumList[c][i] = "result"
         => RequestOf(sumList[c], i) \in (0 + 1)..(i - 1)
  BY <1>1, RequestFacts
<1>4. \A i \in 1..Len(sumList[c]) : i + SumMin > Len(sumList[c]) => i > 0
  OBVIOUS
<1>5. /\ sumPrompt' \in Seq([conv : SumConvs, covers : SUBSET SumIds,
                             kept : SUBSET SumIds])
      /\ PromptIsWhole'
  BY <1>1, <1>2, <1>3, <1>4, PromptWhole
<1>6. /\ sumRows' \in Seq(Row) /\ sumUsed' \in Seq(SumConvs)
      /\ ToSet(sumUsed') = {r.conv : r \in ToSet(sumRows')}
      /\ sumCall' \in [SumConvs -> SumCall]
  BY <1>1 DEF SumInv, SumTypeOK
<1>7. /\ \A r \in ToSet(sumRows') : Cut(sumList[r.conv], r.prefix, r.covers)
      /\ \A d \in SumConvs : sumCall'[d] # NotAsked
            => Cut(sumList[d], sumCall'[d].prefix, sumCall'[d].covers)
  BY <1>1 DEF SumInv, RowsInv, CallsInv
<1> QED BY <1>1, <1>5, <1>6, <1>7, CacheStep

LEMMA CachedKeeps ==
    ASSUME SumInv, NEW c \in SumConvs, NEW e \in 0..Len(sumRows), SumCached(c, e)
    PROVE  SumInv'
<1> DEFINE cached == RowsOf(Unexpired(sumRows, e), c)
<1>1. /\ UNCHANGED <<sumList, sumCall>> /\ Retrieve(c, e) /\ TooMany(Len(sumList[c]))
      /\ Prompt(c, CachedCovers(cached), CachedPrefix(cached) + 1)
  BY DEF SumCached
<1>2. /\ CachedPrefix(cached) \in Nat
      /\ Cut(sumList[c], CachedPrefix(cached), CachedCovers(cached))
  BY <1>1, CachedCut
<1>3. /\ sumPrompt' \in Seq([conv : SumConvs, covers : SUBSET SumIds,
                             kept : SUBSET SumIds])
      /\ PromptIsWhole'
  <2> HIDE DEF cached
  <2> QED BY <1>1, <1>2, CutPrompt
<1>4. /\ sumRows' \in Seq(Row) /\ sumUsed' \in Seq(SumConvs)
      /\ ToSet(sumUsed') = {r.conv : r \in ToSet(sumRows')}
      /\ ToSet(sumRows') \subseteq ToSet(sumRows)
  BY <1>1, RetrieveKeeps DEF SumInv
<1>5. sumCall' \in [SumConvs -> SumCall]
  BY <1>1 DEF SumInv, SumTypeOK
<1>6. /\ \A r \in ToSet(sumRows') : Cut(sumList[r.conv], r.prefix, r.covers)
      /\ \A d \in SumConvs : sumCall'[d] # NotAsked
            => Cut(sumList[d], sumCall'[d].prefix, sumCall'[d].covers)
  BY <1>1, <1>4 DEF SumInv, RowsInv, CallsInv
<1> QED BY <1>1, <1>3, <1>4, <1>5, <1>6, CacheStep

LEMMA AsksKeeps ==
    ASSUME SumInv, NEW c \in SumConvs, NEW e \in 0..Len(sumRows), SumAsks(c, e)
    PROVE  SumInv'
<1> DEFINE list == sumList[c]
           cached == RowsOf(Unexpired(sumRows, e), c)
           prefix == CachedPrefix(cached)
           first == FirstKept(list, prefix)
           covers == CachedCovers(cached) \cup ((prefix + 1)..(first - 1))
           call == [n |-> Len(list), prefix |-> first - 1, covers |-> covers]
<1>1. /\ UNCHANGED sumList /\ Retrieve(c, e) /\ TooMany(Len(list))
      /\ sumCall' = [sumCall EXCEPT ![c] = call] /\ sumPrompt' = NoSumPrompt
  BY DEF SumAsks
<1>2. /\ list \in Seq(SumMessage) /\ SumPaired(list)
      /\ Len(list) \in Nat /\ Len(list) <= SumMaxMessages
      /\ sumCall \in [SumConvs -> SumCall]
  BY DEF SumInv, SumTypeOK, ListsInv
<1>3. prefix \in Nat /\ Cut(list, prefix, CachedCovers(cached))
  BY <1>1, CachedCut
<1>4. first - 1 \in Nat /\ first - 1 <= Len(list) /\ Cut(list, first - 1, covers)
  <2> DEFINE before == CachedCovers(cached)
  <2>1. Cut(list, prefix, before)
    BY <1>3
  <2> HIDE DEF list, prefix, before
  <2> QED BY <1>2, <1>3, <2>1, FirstKeptCut, SumAssumption DEF before
<1>5. call \in SumCall
  <2>1. covers = 1..(first - 1)
    <3> HIDE DEF list, covers, first
    <3> QED BY <1>4 DEF Cut
  <2>2. covers \subseteq SumIds
    <3> HIDE DEF list, covers, first
    <3> QED BY <1>2, <1>4, <2>1, SumAssumption DEF SumIds
  <2> HIDE DEF list, covers, first
  <2> QED BY <1>2, <1>4, <2>2, SumAssumption DEF SumCall
<1>6. call.prefix = first - 1 /\ call.covers = covers
  OBVIOUS
<1>7. /\ sumRows' \in Seq(Row) /\ sumUsed' \in Seq(SumConvs)
      /\ ToSet(sumUsed') = {r.conv : r \in ToSet(sumRows')}
      /\ ToSet(sumRows') \subseteq ToSet(sumRows)
  BY <1>1, RetrieveKeeps DEF SumInv
<1>8. \A r \in ToSet(sumRows') : Cut(sumList[r.conv], r.prefix, r.covers)
  BY <1>7 DEF SumInv, RowsInv
<1>9. sumCall' \in [SumConvs -> SumCall]
  <2> HIDE DEF call
  <2> QED BY <1>1, <1>2, <1>5
<1>10. ASSUME NEW d \in SumConvs, sumCall'[d] # NotAsked
       PROVE  Cut(sumList[d], sumCall'[d].prefix, sumCall'[d].covers)
  <2>1. CASE d = c
    <3>1. sumCall'[d] = call
      <4> HIDE DEF call
      <4> QED BY <1>1, <1>2, <2>1
    <3>2. Cut(sumList[d], first - 1, covers)
      <4> HIDE DEF first, covers
      <4> QED BY <1>4, <2>1
    <3> HIDE DEF call, first, covers
    <3> QED BY <1>6, <3>1, <3>2
  <2>2. CASE d # c
    <3>1. sumCall'[d] = sumCall[d]
      <4> HIDE DEF call
      <4> QED BY <1>1, <1>2, <2>2
    <3> QED BY <1>10, <3>1 DEF SumInv, CallsInv
  <2> QED BY <2>1, <2>2
<1>11. /\ sumPrompt' \in Seq([conv : SumConvs, covers : SUBSET SumIds,
                              kept : SUBSET SumIds])
       /\ PromptIsWhole'
  BY <1>1, NoPromptIsWhole
<1> HIDE DEF call
<1> QED BY <1>1, <1>7, <1>8, <1>9, <1>10, <1>11, CacheStep

LEMMA StoresKeeps ==
    ASSUME SumInv, NEW c \in SumConvs, NEW e \in 0..Len(sumRows), SumStores(c, e)
    PROVE  SumInv'
<1> DEFINE call == sumCall[c]
           row == [conv |-> c, prefix |-> call.prefix, covers |-> call.covers]
<1>1. /\ UNCHANGED sumList /\ StoreRow(row, e) /\ call # NotAsked
      /\ Prompt(c, call.covers, call.prefix + 1)
      /\ sumCall' = [sumCall EXCEPT ![c] = NotAsked]
  BY DEF SumStores
<1>2. sumCall \in [SumConvs -> SumCall] /\ NotAsked \in SumCall
  BY SumAssumption DEF SumInv, SumTypeOK, SumCall, NotAsked
<1>3. row \in Row /\ call.prefix \in Nat
  <2>1. call \in SumCall
    BY <1>2
  <2> HIDE DEF call
  <2> QED BY <2>1, SumAssumption DEF SumCall, Row
<1>4. Cut(sumList[c], call.prefix, call.covers)
  BY <1>1 DEF SumInv, CallsInv
<1>5. /\ sumRows' \in Seq(Row) /\ sumUsed' \in Seq(SumConvs)
      /\ ToSet(sumUsed') = {r.conv : r \in ToSet(sumRows')}
      /\ ToSet(sumRows') \subseteq ToSet(sumRows) \cup {row}
  <2> HIDE DEF row
  <2> QED BY <1>1, <1>3, StoreKeeps DEF SumInv
<1>6. \A r \in ToSet(sumRows') : Cut(sumList[r.conv], r.prefix, r.covers)
  <2>1. Cut(sumList[row.conv], row.prefix, row.covers)
    BY <1>4
  <2> HIDE DEF row
  <2> QED BY <1>5, <2>1 DEF SumInv, RowsInv
<1>7. /\ sumCall' \in [SumConvs -> SumCall] /\ sumCall'[c] = NotAsked
      /\ \A d \in SumConvs \ {c} : sumCall'[d] = sumCall[d]
  BY <1>1, <1>2
<1>8. \A d \in SumConvs : sumCall'[d] # NotAsked
         => Cut(sumList[d], sumCall'[d].prefix, sumCall'[d].covers)
  BY <1>7 DEF SumInv, CallsInv
<1>9. /\ sumPrompt' \in Seq([conv : SumConvs, covers : SUBSET SumIds,
                             kept : SUBSET SumIds])
      /\ PromptIsWhole'
  <2> DEFINE p == call.prefix
             v == call.covers
  <2>1. p \in Nat /\ Cut(sumList[c], p, v) /\ Prompt(c, v, p + 1)
    BY <1>1, <1>3, <1>4
  <2> HIDE DEF p, v
  <2> QED BY <1>1, <2>1, CutPrompt
<1> QED BY <1>1, <1>5, <1>6, <1>7, <1>8, <1>9, CacheStep

LEMMA FailsKeeps ==
    ASSUME SumInv, NEW c \in SumConvs, SumFails(c)
    PROVE  SumInv'
<1>1. /\ UNCHANGED <<sumList, sumRows, sumUsed>> /\ sumPrompt' = NoSumPrompt
      /\ sumCall' = [sumCall EXCEPT ![c] = NotAsked]
  BY DEF SumFails
<1>2. sumCall \in [SumConvs -> SumCall] /\ NotAsked \in SumCall
  BY SumAssumption DEF SumInv, SumTypeOK, SumCall, NotAsked
<1>3. /\ sumCall' \in [SumConvs -> SumCall] /\ sumCall'[c] = NotAsked
      /\ \A d \in SumConvs \ {c} : sumCall'[d] = sumCall[d]
  BY <1>1, <1>2
<1>4. /\ sumRows' \in Seq(Row) /\ sumUsed' \in Seq(SumConvs)
      /\ ToSet(sumUsed') = {r.conv : r \in ToSet(sumRows')}
  BY <1>1 DEF SumInv, SumTypeOK
<1>5. /\ \A r \in ToSet(sumRows') : Cut(sumList[r.conv], r.prefix, r.covers)
      /\ \A d \in SumConvs : sumCall'[d] # NotAsked
            => Cut(sumList[d], sumCall'[d].prefix, sumCall'[d].covers)
  BY <1>1, <1>3 DEF SumInv, RowsInv, CallsInv
<1> QED BY <1>1, <1>3, <1>4, <1>5, NoPromptIsWhole, CacheStep

LEMMA SumInitInv == SumInit => SumInv
<1> SUFFICES ASSUME SumInit PROVE SumInv
  OBVIOUS
<1>1. /\ sumList = [c \in SumConvs |-> <<>>] /\ sumRows = <<>> /\ sumUsed = <<>>
      /\ sumCall = [c \in SumConvs |-> NotAsked] /\ sumPrompt = <<>>
  BY DEF SumInit, NoSumPrompt
<1>2. ToSet(<<>>) = {}
  BY DEF ToSet
<1>3. NotAsked \in SumCall
  BY SumAssumption DEF SumCall, NotAsked
<1>4. SumTypeOK
  BY <1>1, <1>2, <1>3 DEF SumTypeOK
<1>5. ListsInv
  BY <1>1, SumAssumption DEF ListsInv, SumPaired
<1>6. RowsInv /\ CallsInv /\ PromptIsWhole
  BY <1>1, <1>2, SumAssumption DEF RowsInv, CallsInv, PromptIsWhole
<1> QED BY <1>4, <1>5, <1>6 DEF SumInv

LEMMA SumStutters == SumInv /\ UNCHANGED sumVars => SumInv'
BY DEF sumVars, SumInv, SumTypeOK, ListsInv, RowsInv, CallsInv, PromptIsWhole

LEMMA SumInvariant == SumSpec => []SumInv
<1>1. SumInv /\ [SumNext]_sumVars => SumInv'
  <2> SUFFICES ASSUME SumInv, [SumNext]_sumVars PROVE SumInv'
    OBVIOUS
  <2>1. CASE SumNext
    <3>1. PICK c \in SumConvs :
            \/ \E turn \in Turns : SumWrites(c, turn)
            \/ SumShort(c) \/ SumFails(c)
            \/ \E e \in 0..Len(sumRows) :
                  SumCached(c, e) \/ SumAsks(c, e) \/ SumStores(c, e)
      BY <2>1 DEF SumNext
    <3> QED BY <3>1, WritesKeeps, ShortKeeps, FailsKeeps, CachedKeeps, AsksKeeps,
               StoresKeeps
  <2>2. CASE UNCHANGED sumVars
    BY <2>2, SumStutters
  <2> QED BY <2>1, <2>2
<1> QED BY <1>1, SumInitInv, PTL DEF SumSpec

\* The lists, the cache, the waiting calls and the prompt have their types in
\* every reachable state; a conversation has a last use exactly if it has a row.
THEOREM SumTypeCorrect == SumSpec => []SumTypeOK
<1>1. SumInv => SumTypeOK
  BY DEF SumInv
<1> QED BY <1>1, SumInvariant, PTL

\* For lists in which a request message is followed by its results, and with
\* min_num_messages of at least 1 (with 0, which the code permits, it does
\* not hold), whatever the cache lost or holds twice, and whichever conversations
\* wait for the model meanwhile: the prompt has every message once, in the summary or as
\* it is, the latest as they are, and no result without its request.
THEOREM PromptsAreWhole == SumSpec => []PromptIsWhole
<1>1. SumInv => PromptIsWhole
  BY DEF SumInv
<1> QED BY <1>1, SumInvariant, PTL

-----------------------------------------------------------------------------
(* Serialization.                                                          *)

\* A field of the i-th dictionary that stands for o.
PlaceFits(p, o, i) ==
    /\ p.of = o
    /\ p.at = 0 => o \in szRefs /\ szRecorded[o] \in 1..(i - 1)
    /\ p.at # 0 => /\ o \notin szRefs /\ p.at \in 1..(i - 1)
                   /\ szDicts[p.at].of = o

\* The first fields of o, written and built.
WrittenAs(uses, o, i) ==
    /\ Len(uses) <= Len(szUses[o])
    /\ \A k \in 1..Len(uses) : PlaceFits(uses[k], szUses[o][k], i)

BuiltFrom(uses, o) ==
    /\ Len(uses) <= Len(szUses[o])
    /\ \A k \in 1..Len(uses) : /\ uses[k] \in 1..Len(szBuilt)
                               /\ szBuilt[uses[k]].of = szUses[o][k]

\* What is written is written completely, before what uses it, and contains
\* no cycle; each reference has one dictionary, and the root's is the last.
DictsInv ==
    /\ \A i \in 1..Len(szDicts) : \E d \in {szDicts[i]} :
          /\ Len(d.uses) = Len(szUses[d.of]) /\ WrittenAs(d.uses, d.of, i)
          /\ d.of \notin Contents(d.of, SzObjects)
          /\ d.of \in szRefs \ {SzRoot} => szRecorded[d.of] = i
          /\ i < Len(szDicts) => d.of # SzRoot
    /\ \A o \in SzObjects : szRecorded[o] # 0 =>
          /\ o \in szRefs \ {SzRoot} /\ szRecorded[o] \in 1..Len(szDicts)
          /\ szDicts[szRecorded[o]].of = o

ObjectsInv ==
    /\ \A i \in 1..Len(szBuilt) : \E b \in {szBuilt[i]} :
          /\ Len(b.uses) = Len(szUses[b.of]) /\ BuiltFrom(b.uses, b.of)
          /\ b.of \in szRefs \ {SzRoot} => szDone[b.of] = i
    /\ \A o \in SzObjects : szDone[o] # 0 =>
          /\ o \in szRefs \ {SzRoot} /\ szDone[o] \in 1..Len(szBuilt)
          /\ szBuilt[szDone[o]].of = o

\* What there is at which time.
StageInv ==
    /\ szPc \in {"new", "writing", "written"} =>
          szBuilt = <<>> /\ szDone = [o \in SzObjects |-> 0]
    /\ szPc = "new" => szDicts = <<>>
    /\ szPc = "writing" => \A i \in 1..Len(szDicts) : szDicts[i].of # SzRoot
    /\ szPc \in {"written", "reading", "read"} =>
          szDicts # <<>> /\ szDicts[Len(szDicts)].of = SzRoot
    /\ szPc = "reading" => \A i \in 1..Len(szBuilt) : szBuilt[i].of # SzRoot
    /\ szPc = "read" => szBuilt # <<>> /\ szBuilt[Len(szBuilt)].of = SzRoot
    /\ szPc = "refused" => Cyclic
    /\ szPc # "failed"

\* Each call is for an object that all calls around it contain, and for the next
\* field of the one around it.
WriteOrder ==
    \A i, j \in 1..Len(szCalls) : i < j =>
        /\ szCalls[j].of \in Contents(szCalls[i].of, SzObjects)
        /\ szCalls[i].of = szCalls[j].of => szCalls[i].of \notin szRefs

WriteCalls ==
    \A i \in 1..Len(szCalls) : \E c \in {szCalls[i]} :
        /\ WrittenAs(c.uses, c.of, Len(szDicts) + 1) /\ szRecorded[c.of] = 0
        /\ i < Len(szCalls) => /\ Len(c.uses) < Len(szUses[c.of])
                               /\ szCalls[i + 1].of = szUses[c.of][Len(c.uses) + 1]

WriteStarted ==
    szStarted = {o \in szRefs : \/ szRecorded[o] # 0
                                \/ \E i \in 1..Len(szCalls) : szCalls[i].of = o}

WritingInv ==
    /\ szCalls # <<>> /\ szCalls[1].of = SzRoot
    /\ WriteOrder /\ WriteCalls /\ WriteStarted

\* Each call is for a dictionary that was finished before the one around it.
ReadOrder ==
    \A i, j \in 1..Len(szCalls) : i < j => szCalls[j].dict < szCalls[i].dict

ReadsAs(i, c, o) ==
    /\ c.dict \in 1..Len(szDicts)
    /\ BuiltFrom(c.uses, o)
    /\ i # 1 => (c.from = "reference" <=> o \in szRefs)
    /\ c.from = "reference" => szRecorded[o] = c.dict /\ szDone[o] = 0
    /\ i < Len(szCalls) =>
          /\ Len(c.uses) < Len(szUses[o])
          /\ szDicts[szCalls[i + 1].dict].of = szUses[o][Len(c.uses) + 1]

ReadCalls ==
    \A i \in 1..Len(szCalls) : ReadsAs(i, szCalls[i], szDicts[szCalls[i].dict].of)

ReadStarted ==
    \A o \in szStarted :
        \/ szDone[o] # 0
        \/ \E i \in 1..Len(szCalls) :
              szCalls[i].from = "reference" /\ szDicts[szCalls[i].dict].of = o

ReadingInv ==
    /\ szCalls # <<>> /\ szCalls[1].dict = Len(szDicts) /\ szCalls[1].from = "place"
    /\ ReadOrder /\ ReadCalls /\ ReadStarted

SzInv ==
    /\ SzTypeOK /\ DictsInv /\ ObjectsInv /\ StageInv
    /\ szPc = "writing" => WritingInv
    /\ szPc = "reading" => ReadingInv

-----------------------------------------------------------------------------
(* What an object contains.                                                *)

LEMMA ContentsClosed ==
    ASSUME szUses \in [SzObjects -> Seq(SzObjects)], NEW o \in SzObjects
    PROVE  /\ Contents(o, SzObjects) \subseteq SzObjects
           /\ \A q \in Contents(o, SzObjects) \cup {o} :
                 \A k \in 1..Len(szUses[q]) : szUses[q][k] \in Contents(o, SzObjects)
<1>1. Contents(o, SzObjects) \subseteq SzObjects
  BY DEF Contents
<1>2. ASSUME NEW q \in Contents(o, SzObjects) \cup {o}, NEW k \in 1..Len(szUses[q])
      PROVE  szUses[q][k] \in Contents(o, SzObjects)
  <2>1. q \in SzObjects /\ szUses[q] \in Seq(SzObjects)
    BY <1>1
  <2>2. szUses[q][k] \in SzObjects /\ szUses[q][k] \in ToSet(szUses[q])
    BY <2>1, <1>2 DEF ToSet
  <2>3. ASSUME NEW S \in SUBSET SzObjects,
               \A r \in S \cup {o} : ToSet(szUses[r]) \cap SzObjects \subseteq S
        PROVE  szUses[q][k] \in S
    <3>1. q \in S \cup {o}
      BY <1>2, <2>3 DEF Contents
    <3> QED BY <3>1, <2>2, <2>3
  <2> QED BY <2>2, <2>3 DEF Contents
<1> QED BY <1>1, <1>2

LEMMA ContentsLeast ==
    ASSUME szUses \in [SzObjects -> Seq(SzObjects)], NEW o \in SzObjects,
           NEW S \in SUBSET SzObjects,
           \A q \in S \cup {o} : \A k \in 1..Len(szUses[q]) : szUses[q][k] \in S
    PROVE  Contents(o, SzObjects) \subseteq S
<1>1. ASSUME NEW q \in S \cup {o}
      PROVE  ToSet(szUses[q]) \cap SzObjects \subseteq S
  <2>1. q \in SzObjects /\ DOMAIN szUses[q] = 1..Len(szUses[q])
    BY <1>1
  <2> QED BY <2>1, <1>1 DEF ToSet
<1> QED BY <1>1 DEF Contents

-----------------------------------------------------------------------------
(* The stack of calls.                                                     *)

WriteCall == [of : SzObjects, uses : Seq(SzPlace)]
ReadCall == [dict : Nat, from : SzOrigins, uses : Seq(Nat)]
SzBuiltObject == [of : SzObjects, uses : Seq(Nat)]

Continued(s, u) == [s EXCEPT ![Len(s)].uses = Append(@, u)]
Returned(s, n, u) ==
    [i \in 1..n |-> IF i = n THEN [s[i] EXCEPT !.uses = Append(@, u)] ELSE s[i]]

LEMMA WriteContinues ==
    ASSUME NEW s \in Seq(WriteCall), s # <<>>, NEW u \in SzPlace, NEW t,
           t = Continued(s, u)
    PROVE  /\ t \in Seq(WriteCall) /\ Len(t) = Len(s) /\ t # <<>>
           /\ \A i \in 1..Len(s) : t[i].of = s[i].of
           /\ \A i \in 1..Len(s) : i # Len(s) => t[i] = s[i]
           /\ t[Len(s)].uses = Append(s[Len(s)].uses, u)
<1>1. PICK n \in 1..Len(s) : n = Len(s)
  OBVIOUS
<1>2. s[n] \in WriteCall /\ s[n].uses \in Seq(SzPlace)
  <2>1. s[n] \in WriteCall
    BY ElementOfSeq
  <2> QED BY <2>1 DEF WriteCall
<1>3. PICK v : v = Append(s[n].uses, u)
  OBVIOUS
<1>4. v \in Seq(SzPlace)
  BY <1>2, <1>3
<1>5. PICK r : r = [s[n] EXCEPT !.uses = v]
  OBVIOUS
<1>6. r \in WriteCall /\ r.uses = v /\ r.of = s[n].of
  BY <1>2, <1>4, <1>5 DEF WriteCall
<1>7. t = [s EXCEPT ![n] = r]
  BY <1>1, <1>3, <1>5 DEF Continued
<1>8. t \in Seq(WriteCall) /\ Len(t) = Len(s) /\ t[n] = r
      /\ \A i \in 1..Len(s) : i # n => t[i] = s[i]
  <2>1. DOMAIN s = 1..Len(s) /\ Len(s) \in Nat
    BY LenProperties
  <2>2. t[n] = r /\ \A i \in 1..Len(s) : i # n => t[i] = s[i]
    BY <1>7, <2>1
  <2>3. /\ [s EXCEPT ![n] = r] \in Seq(WriteCall) /\ Len([s EXCEPT ![n] = r]) = Len(s)
    BY <1>6, ExceptSeq
  <2> QED BY <1>7, <2>2, <2>3
<1>9. t # <<>>
  BY <1>1, <1>8
<1> QED BY <1>1, <1>3, <1>6, <1>8, <1>9

LEMMA ReadContinues ==
    ASSUME NEW s \in Seq(ReadCall), s # <<>>, NEW u, u \in Nat, NEW t,
           t = Continued(s, u)
    PROVE  /\ t \in Seq(ReadCall) /\ Len(t) = Len(s) /\ t # <<>>
           /\ \A i \in 1..Len(s) : t[i].dict = s[i].dict /\ t[i].from = s[i].from
           /\ \A i \in 1..Len(s) : i # Len(s) => t[i] = s[i]
           /\ t[Len(s)].uses = Append(s[Len(s)].uses, u)
<1>1. PICK n \in 1..Len(s) : n = Len(s)
  OBVIOUS
<1>2. s[n] \in ReadCall /\ s[n].uses \in Seq(Nat)
  <2>1. s[n] \in ReadCall
    BY ElementOfSeq
  <2> QED BY <2>1 DEF ReadCall
<1>3. PICK v : v = Append(s[n].uses, u)
  OBVIOUS
<1>4. v \in Seq(Nat)
  BY <1>2, <1>3
<1>5. PICK r : r = [s[n] EXCEPT !.uses = v]
  OBVIOUS
<1>6. r \in ReadCall /\ r.uses = v /\ r.dict = s[n].dict /\ r.from = s[n].from
  BY <1>2, <1>4, <1>5 DEF ReadCall
<1>7. t = [s EXCEPT ![n] = r]
  BY <1>1, <1>3, <1>5 DEF Continued
<1>8. t \in Seq(ReadCall) /\ Len(t) = Len(s) /\ t[n] = r
      /\ \A i \in 1..Len(s) : i # n => t[i] = s[i]
  <2>1. DOMAIN s = 1..Len(s) /\ Len(s) \in Nat
    BY LenProperties
  <2>2. t[n] = r /\ \A i \in 1..Len(s) : i # n => t[i] = s[i]
    BY <1>7, <2>1
  <2>3. /\ [s EXCEPT ![n] = r] \in Seq(ReadCall) /\ Len([s EXCEPT ![n] = r]) = Len(s)
    BY <1>6, ExceptSeq
  <2> QED BY <1>7, <2>2, <2>3
<1>9. t # <<>>
  BY <1>1, <1>8
<1> QED BY <1>1, <1>3, <1>6, <1>8, <1>9

\* Returning to a call that is not the outermost: it goes on with what is
\* returned.
LEMMA WriteReturns ==
    ASSUME NEW s \in Seq(WriteCall), NEW n \in 1..Len(s), NEW u \in SzPlace, NEW t,
           t = Returned(s, n, u)
    PROVE  /\ t \in Seq(WriteCall) /\ Len(t) = n /\ t # <<>>
           /\ \A i \in 1..n : t[i].of = s[i].of
           /\ \A i \in 1..n : i # n => t[i] = s[i]
           /\ t[n].uses = Append(s[n].uses, u)
<1>1. n \in Nat /\ n \in 1..n /\ Len(s) \in Nat
  OBVIOUS
<1>2. s[n] \in WriteCall /\ s[n].uses \in Seq(SzPlace)
  <2>1. s[n] \in WriteCall
    BY ElementOfSeq
  <2> QED BY <2>1 DEF WriteCall
<1>3. PICK v : v = Append(s[n].uses, u)
  OBVIOUS
<1>4. v \in Seq(SzPlace)
  BY <1>2, <1>3
<1>5. PICK r : r = [s[n] EXCEPT !.uses = v]
  OBVIOUS
<1>6. r \in WriteCall /\ r.uses = v /\ r.of = s[n].of
  BY <1>2, <1>4, <1>5 DEF WriteCall
<1>7. t = [i \in 1..n |-> IF i = n THEN r ELSE s[i]]
  BY <1>3, <1>5 DEF Returned
<1>8. t[n] = r /\ \A i \in 1..n : i # n => t[i] = s[i]
  BY <1>1, <1>7
<1>9. \A i \in 1..n : (IF i = n THEN r ELSE s[i]) \in WriteCall
  BY <1>1, <1>6
<1>10. t \in Seq(WriteCall) /\ Len(t) = n
  <2>1. t \in [1..n -> WriteCall] /\ DOMAIN t = 1..n
    BY <1>7, <1>9
  <2>2. t \in Seq(WriteCall)
    BY <1>1, <2>1, SeqDef
  <2> QED BY <1>1, <2>1, <2>2, LenProperties
<1>11. t # <<>>
  BY <1>1, <1>10
<1> QED BY <1>3, <1>6, <1>8, <1>10, <1>11

LEMMA ReadReturns ==
    ASSUME NEW s \in Seq(ReadCall), NEW n \in 1..Len(s), NEW u, u \in Nat, NEW t,
           t = Returned(s, n, u)
    PROVE  /\ t \in Seq(ReadCall) /\ Len(t) = n /\ t # <<>>
           /\ \A i \in 1..n : t[i].dict = s[i].dict /\ t[i].from = s[i].from
           /\ \A i \in 1..n : i # n => t[i] = s[i]
           /\ t[n].uses = Append(s[n].uses, u)
<1>1. n \in Nat /\ n \in 1..n /\ Len(s) \in Nat
  OBVIOUS
<1>2. s[n] \in ReadCall /\ s[n].uses \in Seq(Nat)
  <2>1. s[n] \in ReadCall
    BY ElementOfSeq
  <2> QED BY <2>1 DEF ReadCall
<1>3. PICK v : v = Append(s[n].uses, u)
  OBVIOUS
<1>4. v \in Seq(Nat)
  BY <1>2, <1>3
<1>5. PICK r : r = [s[n] EXCEPT !.uses = v]
  OBVIOUS
<1>6. r \in ReadCall /\ r.uses = v /\ r.dict = s[n].dict /\ r.from = s[n].from
  BY <1>2, <1>4, <1>5 DEF ReadCall
<1>7. t = [i \in 1..n |-> IF i = n THEN r ELSE s[i]]
  BY <1>3, <1>5 DEF Returned
<1>8. t[n] = r /\ \A i \in 1..n : i # n => t[i] = s[i]
  BY <1>1, <1>7
<1>9. \A i \in 1..n : (IF i = n THEN r ELSE s[i]) \in ReadCall
  BY <1>1, <1>6
<1>10. t \in Seq(ReadCall) /\ Len(t) = n
  <2>1. t \in [1..n -> ReadCall] /\ DOMAIN t = 1..n
    BY <1>7, <1>9
  <2>2. t \in Seq(ReadCall)
    BY <1>1, <2>1, SeqDef
  <2> QED BY <1>1, <2>1, <2>2, LenProperties
<1>11. t # <<>>
  BY <1>1, <1>10
<1> QED BY <1>3, <1>6, <1>8, <1>10, <1>11

\* One more field.
LEMMA WritesMore ==
    ASSUME NEW o \in SzObjects, NEW i \in Nat, NEW uses \in Seq(SzPlace),
           szUses \in [SzObjects -> Seq(SzObjects)],
           WrittenAs(uses, o, i), Len(uses) < Len(szUses[o]), NEW p \in SzPlace,
           PlaceFits(p, szUses[o][Len(uses) + 1], i)
    PROVE  WrittenAs(Append(uses, p), o, i)
<1>1. Len(Append(uses, p)) = Len(uses) + 1 /\ Len(szUses[o]) \in Nat /\ Len(uses) \in Nat
  OBVIOUS
<1>2. ASSUME NEW k \in 1..(Len(uses) + 1)
      PROVE  PlaceFits(Append(uses, p)[k], szUses[o][k], i)
  <2>1. CASE k = Len(uses) + 1
    <3>1. Append(uses, p)[k] = p
      BY <2>1
    <3> QED BY <2>1, <3>1
  <2>2. CASE k # Len(uses) + 1
    <3>1. k \in 1..Len(uses) /\ Append(uses, p)[k] = uses[k]
      BY <2>2, <1>1
    <3>2. PlaceFits(uses[k], szUses[o][k], i)
      BY <3>1 DEF WrittenAs
    <3> QED BY <3>1, <3>2
  <2> QED BY <2>1, <2>2
<1> QED BY <1>1, <1>2 DEF WrittenAs

LEMMA BuildsMore ==
    ASSUME NEW o \in SzObjects, NEW uses \in Seq(Nat),
           szUses \in [SzObjects -> Seq(SzObjects)],
           BuiltFrom(uses, o), Len(uses) < Len(szUses[o]), NEW u \in 1..Len(szBuilt),
           szBuilt \in Seq(SzBuiltObject), szBuilt[u].of = szUses[o][Len(uses) + 1]
    PROVE  BuiltFrom(Append(uses, u), o)
<1>1. Len(Append(uses, u)) = Len(uses) + 1 /\ Len(szUses[o]) \in Nat /\ Len(uses) \in Nat
  OBVIOUS
<1>2. ASSUME NEW k \in 1..(Len(uses) + 1)
      PROVE  /\ Append(uses, u)[k] \in 1..Len(szBuilt)
             /\ szBuilt[Append(uses, u)[k]].of = szUses[o][k]
  <2>1. CASE k = Len(uses) + 1
    <3>1. Append(uses, u)[k] = u
      BY <2>1
    <3> QED BY <2>1, <3>1
  <2>2. CASE k # Len(uses) + 1
    <3>1. k \in 1..Len(uses) /\ Append(uses, u)[k] = uses[k]
      BY <2>2, <1>1
    <3> QED BY <3>1 DEF BuiltFrom
  <2> QED BY <2>1, <2>2
<1>3. Len(Append(uses, u)) <= Len(szUses[o])
  BY <1>1
<1> QED BY <1>1, <1>2, <1>3 DEF BuiltFrom

-----------------------------------------------------------------------------
(* What is finished.                                                       *)

Finished == {szDicts[i].of : i \in 1..Len(szDicts)}

LEMMA FieldsAreFinished ==
    ASSUME SzTypeOK, DictsInv, NEW uses \in Seq(SzPlace), NEW o \in SzObjects,
           NEW i \in 1..(Len(szDicts) + 1), WrittenAs(uses, o, i),
           Len(uses) = Len(szUses[o]), NEW k \in 1..Len(szUses[o])
    PROVE  szUses[o][k] \in Finished
<1>1. /\ szDicts \in Seq([of : SzObjects, uses : Seq(SzPlace)])
      /\ szUses \in [SzObjects -> Seq(SzObjects)]
  BY DEF SzTypeOK
<1>2. PICK u \in SzObjects : u = szUses[o][k]
  BY <1>1
<1>3. PICK p : p = uses[k]
  OBVIOUS
<1>4. p \in SzPlace /\ PlaceFits(p, u, i)
  BY <1>2, <1>3, ElementOfSeq DEF WrittenAs
<1>5. Len(szDicts) \in Nat
  BY <1>1
<1>6. \E j \in 1..Len(szDicts) : szDicts[j].of = u
  <2>1. CASE p.at = 0
    <3>1. szRecorded[u] \in 1..(i - 1) /\ szRecorded[u] # 0
      BY <1>4, <2>1 DEF PlaceFits
    <3>2. szDicts[szRecorded[u]].of = u /\ szRecorded[u] \in 1..Len(szDicts)
      BY <3>1 DEF DictsInv
    <3> QED BY <3>2
  <2>2. CASE p.at # 0
    <3>1. p.at \in 1..(i - 1) /\ szDicts[p.at].of = u
      BY <1>4, <2>2 DEF PlaceFits
    <3>2. p.at \in 1..Len(szDicts)
      BY <3>1, <1>5
    <3> QED BY <3>1, <3>2
  <2> QED BY <2>1, <2>2
<1> QED BY <1>2, <1>6 DEF Finished

LEMMA ContentsAreFinished ==
    ASSUME SzTypeOK, DictsInv, NEW uses \in Seq(SzPlace), NEW o \in SzObjects,
           NEW i \in 1..(Len(szDicts) + 1), WrittenAs(uses, o, i),
           Len(uses) = Len(szUses[o])
    PROVE  Contents(o, SzObjects) \subseteq Finished
<1>1. /\ szDicts \in Seq([of : SzObjects, uses : Seq(SzPlace)])
      /\ szUses \in [SzObjects -> Seq(SzObjects)]
  BY DEF SzTypeOK
<1>2. Finished \subseteq SzObjects
  <2>1. \A j \in 1..Len(szDicts) : szDicts[j] \in [of : SzObjects, uses : Seq(SzPlace)]
    BY <1>1, ElementOfSeq
  <2> QED BY <2>1 DEF Finished
<1>3. ASSUME NEW q \in Finished \cup {o}, NEW k \in 1..Len(szUses[q])
      PROVE  szUses[q][k] \in Finished
  <2>1. CASE q = o
    BY <2>1, <1>3, FieldsAreFinished
  <2>2. CASE q # o
    <3>1. PICK j \in 1..Len(szDicts) : szDicts[j].of = q
      BY <1>3, <2>2 DEF Finished
    <3>2. PICK d : d = szDicts[j]
      OBVIOUS
    <3>3. d \in [of : SzObjects, uses : Seq(SzPlace)]
      BY <1>1, <3>2, ElementOfSeq
    <3>4. d.of = q /\ q \in SzObjects /\ d.uses \in Seq(SzPlace)
      BY <3>1, <3>2, <3>3
    <3>5. Len(d.uses) = Len(szUses[d.of]) /\ WrittenAs(d.uses, d.of, j)
      BY <3>2 DEF DictsInv
    <3>6. j \in 1..(Len(szDicts) + 1)
      BY <1>1
    <3> QED BY <1>3, <3>4, <3>5, <3>6, FieldsAreFinished
  <2> QED BY <2>1, <2>2
<1> QED BY <1>1, <1>2, <1>3, ContentsLeast

\* So an object whose fields are written does not contain itself.
LEMMA NotInItself ==
    ASSUME SzTypeOK, DictsInv, NEW uses \in Seq(SzPlace), NEW o \in SzObjects,
           NEW i \in 1..(Len(szDicts) + 1), WrittenAs(uses, o, i),
           Len(uses) = Len(szUses[o])
    PROVE  o \notin Contents(o, SzObjects)
<1>1. CASE o \in Finished
  <2>1. PICK j \in 1..Len(szDicts) : szDicts[j].of = o
    BY <1>1 DEF Finished
  <2> QED BY <2>1 DEF DictsInv
<1>2. CASE o \notin Finished
  BY <1>2, ContentsAreFinished
<1> QED BY <1>1, <1>2

LEMMA WrittenHasNoCycle ==
    ASSUME SzTypeOK, DictsInv, szDicts # <<>>, szDicts[Len(szDicts)].of = SzRoot
    PROVE  ~Cyclic
<1>1. szDicts \in Seq([of : SzObjects, uses : Seq(SzPlace)])
  BY DEF SzTypeOK
<1>2. PICK i \in 1..Len(szDicts) : i = Len(szDicts)
  BY <1>1
<1>3. PICK d : d = szDicts[i]
  OBVIOUS
<1>4. d \in [of : SzObjects, uses : Seq(SzPlace)]
  BY <1>1, <1>3, ElementOfSeq
<1>5. d.of = SzRoot /\ d.uses \in Seq(SzPlace) /\ SzRoot \in SzObjects
  BY <1>2, <1>3, <1>4, SzAssumption
<1>6. Len(d.uses) = Len(szUses[d.of]) /\ WrittenAs(d.uses, d.of, i)
  BY <1>3 DEF DictsInv
<1>7. i \in 1..(Len(szDicts) + 1)
  BY <1>1
<1>8. Contents(SzRoot, SzObjects) \subseteq Finished
  BY <1>5, <1>6, <1>7, ContentsAreFinished
<1>9. SzRoot \in Finished
  BY <1>3, <1>5 DEF Finished
<1>10. \A o \in Finished : o \notin Contents(o, SzObjects)
  BY DEF Finished, DictsInv
<1> QED BY <1>8, <1>9, <1>10 DEF Cyclic

\* One more dictionary leaves what is written as it is.
DocumentGrows(d) ==
    /\ szDicts' = Append(szDicts, d) /\ UNCHANGED szGraph
    /\ \/ szRecorded' = szRecorded
       \/ /\ szRecorded[d.of] = 0
          /\ szRecorded' = [szRecorded EXCEPT ![d.of] = Len(szDicts) + 1]

LEMMA PlacesStay ==
    ASSUME SzTypeOK, NEW d \in [of : SzObjects, uses : Seq(SzPlace)], DocumentGrows(d),
           NEW p \in SzPlace, NEW o \in SzObjects, NEW i \in 1..(Len(szDicts) + 1),
           PlaceFits(p, o, i), NEW j \in Nat, i <= j
    PROVE  PlaceFits(p, o, j)'
<1>1. /\ szDicts \in Seq([of : SzObjects, uses : Seq(SzPlace)])
      /\ szRecorded \in [SzObjects -> Nat] /\ szRefs' = szRefs /\ Len(szDicts) \in Nat
  BY DEF SzTypeOK, DocumentGrows, szGraph
<1>2. \A k \in 1..Len(szDicts) : szDicts'[k] = szDicts[k]
  BY <1>1, AppendProperties DEF DocumentGrows
<1>3. szRecorded[o] # 0 => szRecorded'[o] = szRecorded[o]
  BY <1>1 DEF DocumentGrows
<1>4. CASE p.at = 0
  <2>1. p.of = o /\ o \in szRefs /\ szRecorded[o] \in 1..(i - 1)
    BY <1>4 DEF PlaceFits
  <2>2. szRecorded'[o] = szRecorded[o] /\ szRecorded[o] \in 1..(j - 1)
    BY <1>3, <2>1
  <2> QED BY <1>1, <1>4, <2>1, <2>2 DEF PlaceFits
<1>5. CASE p.at # 0
  <2>1. p.of = o /\ o \notin szRefs /\ p.at \in 1..(i - 1) /\ szDicts[p.at].of = o
    BY <1>5 DEF PlaceFits
  <2>2. p.at \in 1..Len(szDicts) /\ p.at \in 1..(j - 1)
    <3>1. PICK q \in 1..(i - 1) : q = p.at
      BY <2>1
    <3>2. PICK n \in Nat : n = Len(szDicts)
      BY <1>1
    <3>3. i \in 1..(n + 1)
      BY <3>2
    <3>4. q \in 1..n /\ q \in 1..(j - 1)
      BY <3>3
    <3> QED BY <3>1, <3>2, <3>4
  <2>3. szDicts'[p.at].of = o
    BY <1>2, <2>1, <2>2
  <2> QED BY <1>1, <1>5, <2>1, <2>2, <2>3 DEF PlaceFits
<1> QED BY <1>4, <1>5

LEMMA FieldsStay ==
    ASSUME SzTypeOK, NEW d \in [of : SzObjects, uses : Seq(SzPlace)], DocumentGrows(d),
           NEW uses \in Seq(SzPlace), NEW o \in SzObjects, NEW i \in 1..(Len(szDicts) + 1),
           WrittenAs(uses, o, i), NEW j \in Nat, i <= j
    PROVE  WrittenAs(uses, o, j)'
<1>1. szUses' = szUses /\ szUses \in [SzObjects -> Seq(SzObjects)]
  BY DEF SzTypeOK, DocumentGrows, szGraph
<1>2. Len(uses) <= Len(szUses[o]) /\ Len(uses) \in Nat /\ Len(szUses[o]) \in Nat
  BY <1>1 DEF WrittenAs
<1>3. ASSUME NEW k \in 1..Len(uses)
      PROVE  PlaceFits(uses[k], szUses[o][k], j)'
  <2>1. PICK p \in SzPlace : p = uses[k]
    BY ElementOfSeq
  <2>2. PICK u \in SzObjects : u = szUses[o][k]
    BY <1>1, <1>2
  <2>3. PlaceFits(p, u, i)
    BY <2>1, <2>2 DEF WrittenAs
  <2>4. PlaceFits(p, u, j)'
    BY <2>3, PlacesStay
  <2> QED BY <1>1, <2>1, <2>2, <2>4
<1> QED BY <1>1, <1>2, <1>3 DEF WrittenAs

-----------------------------------------------------------------------------
(* Writing.                                                                *)

SzDict == [of : SzObjects, uses : Seq(SzPlace)]

\* What does not change keeps what holds of it.
LEMMA GraphStays ==
    UNCHANGED szGraph => /\ szUses' = szUses /\ szRefs' = szRefs
                         /\ \A o : Contents(o, SzObjects)' = Contents(o, SzObjects)
BY DEF szGraph, Contents

LEMMA DocumentStays ==
    ASSUME UNCHANGED szGraph, UNCHANGED szDocument
    PROVE  /\ \A uses, o, i : WrittenAs(uses, o, i) => WrittenAs(uses, o, i)'
           /\ DictsInv => DictsInv'
<1>1. /\ szUses' = szUses /\ szRefs' = szRefs /\ szDicts' = szDicts
      /\ szRecorded' = szRecorded
  BY DEF szGraph, szDocument
<1>2. ASSUME NEW uses, NEW o, NEW i, WrittenAs(uses, o, i)
      PROVE  WrittenAs(uses, o, i)'
  BY <1>1, <1>2 DEF WrittenAs, PlaceFits
<1>3. ASSUME DictsInv PROVE DictsInv'
  <2>1. ASSUME NEW i \in 1..Len(szDicts), NEW d, d = szDicts[i]
        PROVE  /\ Len(d.uses) = Len(szUses[d.of]) /\ WrittenAs(d.uses, d.of, i)'
               /\ d.of \notin Contents(d.of, SzObjects)'
               /\ d.of \in szRefs \ {SzRoot} => szRecorded[d.of] = i
               /\ i < Len(szDicts) => d.of # SzRoot
    BY <1>2, <1>3, <2>1, GraphStays DEF DictsInv
  <2> QED BY <1>1, <1>3, <2>1 DEF DictsInv
<1> QED BY <1>2, <1>3

LEMMA ObjectsStay ==
    ASSUME UNCHANGED szGraph, UNCHANGED szObjects
    PROVE  /\ \A uses, o : BuiltFrom(uses, o) => BuiltFrom(uses, o)'
           /\ ObjectsInv => ObjectsInv'
<1>1. /\ szUses' = szUses /\ szRefs' = szRefs /\ szBuilt' = szBuilt
      /\ szDone' = szDone
  BY DEF szGraph, szObjects
<1>2. ASSUME NEW uses, NEW o, BuiltFrom(uses, o)
      PROVE  BuiltFrom(uses, o)'
  BY <1>1, <1>2 DEF BuiltFrom
<1>3. ASSUME ObjectsInv PROVE ObjectsInv'
  BY <1>1, <1>2, <1>3 DEF ObjectsInv
<1> QED BY <1>2, <1>3

LEMMA SzInitInv == SzInit => SzInv
<1> SUFFICES ASSUME SzInit PROVE SzInv
  OBVIOUS
<1>1. szUses \in [SzObjects -> Seq(SzObjects)]
  BY SzAssumption DEF SzInit, BoundedSeq, SeqOf
<1>2. SzTypeOK
  BY <1>1 DEF SzInit, SzTypeOK
<1>3. DictsInv /\ ObjectsInv /\ StageInv
  BY DEF SzInit, DictsInv, ObjectsInv, StageInv
<1> QED BY <1>2, <1>3 DEF SzInit, SzInv

LEMMA SerializeKeeps == SzInv /\ SzSerialize => SzInv'
<1> SUFFICES ASSUME SzInv, SzSerialize PROVE SzInv'
  OBVIOUS
<1>1. /\ szUses' = szUses /\ szRefs' = szRefs /\ szDicts' = szDicts
      /\ szRecorded' = szRecorded /\ szBuilt' = szBuilt /\ szDone' = szDone
      /\ szPc = "new" /\ szPc' = "writing" /\ szStarted' = {SzRoot} \cap szRefs
  BY DEF SzSerialize, szGraph, szDocument, szObjects
<1>2. PICK c : c = SerializeCall(SzRoot)
  OBVIOUS
<1>3. c \in WriteCall /\ c.of = SzRoot /\ c.uses = <<>>
  BY <1>2, SzAssumption DEF SerializeCall, WriteCall
<1>4. szCalls' = <<c>>
  BY <1>2 DEF SzSerialize
<1>5. szCalls' \in Seq(WriteCall) /\ Len(szCalls') = 1 /\ szCalls'[1] = c
  BY <1>3, <1>4
<1>6. SzTypeOK /\ DictsInv /\ ObjectsInv /\ StageInv
  BY DEF SzInv
<1>7. SzTypeOK'
  BY <1>1, <1>5, <1>6, SzAssumption DEF SzTypeOK, WriteCall, SzPlace
<1>8. DictsInv' /\ ObjectsInv'
  BY <1>6, GraphStays, DocumentStays, ObjectsStay DEF SzSerialize
<1>9. StageInv'
  BY <1>1, <1>6 DEF StageInv
<1>10. szDicts = <<>> /\ \A o \in SzObjects : szRecorded[o] = 0
  BY <1>1, <1>6 DEF StageInv, DictsInv
<1>11. WritingInv'
  <2>1. szCalls' # <<>> /\ szCalls'[1].of = SzRoot
    <3>1. szCalls'[1].of = SzRoot
      BY <1>3, <1>5
    <3> QED BY <1>4, <3>1
  <2>2. WriteOrder'
    BY <1>5 DEF WriteOrder
  <2>3. WriteCalls'
    <3>1. WrittenAs(c.uses, c.of, Len(szDicts) + 1)'
      <4>1. szUses'[SzRoot] \in Seq(SzObjects)
        BY <1>1, <1>6, SzAssumption DEF SzTypeOK
      <4> QED BY <1>3, <4>1 DEF WrittenAs
    <3> QED BY <1>1, <1>3, <1>5, <1>10, <3>1, SzAssumption DEF WriteCalls
  <2>4. WriteStarted'
    BY <1>1, <1>3, <1>5, <1>6, <1>10 DEF WriteStarted, SzTypeOK
  <2> QED BY <2>1, <2>2, <2>3, <2>4 DEF WritingInv
<1> QED BY <1>1, <1>7, <1>8, <1>9, <1>11 DEF SzInv

\* While calls are in progress: the innermost one.
LEMMA TopWrites ==
    ASSUME SzInv, szPc = "writing"
    PROVE  /\ szCalls \in Seq(WriteCall) /\ szCalls # <<>>
           /\ Len(szCalls) \in Nat \ {0} /\ SzTop = szCalls[Len(szCalls)]
           /\ SzTop \in WriteCall /\ SzTop.of \in SzObjects /\ SzTop.uses \in Seq(SzPlace)
           /\ WrittenAs(SzTop.uses, SzTop.of, Len(szDicts) + 1)
           /\ szRecorded[SzTop.of] = 0
           /\ szDicts \in Seq(SzDict) /\ Len(szDicts) \in Nat
           /\ szUses \in [SzObjects -> Seq(SzObjects)] /\ szRefs \subseteq SzObjects
           /\ szRecorded \in [SzObjects -> Nat]
<1>1. SzTypeOK /\ WritingInv
  BY DEF SzInv
<1>2. szCalls \in Seq(WriteCall) /\ szCalls # <<>>
  BY <1>1 DEF SzTypeOK, WritingInv, WriteCall
<1>3. Len(szCalls) \in 1..Len(szCalls)
  BY <1>2
<1>4. SzTop \in WriteCall
  BY <1>2, <1>3, ElementOfSeq DEF SzTop
<1>5. SzTop.of \in SzObjects /\ SzTop.uses \in Seq(SzPlace)
  BY <1>4 DEF WriteCall
<1>6. /\ WrittenAs(SzTop.uses, SzTop.of, Len(szDicts) + 1)
      /\ szRecorded[SzTop.of] = 0
  BY <1>1, <1>3 DEF WritingInv, WriteCalls, SzTop
<1>7. /\ szDicts \in Seq(SzDict) /\ szUses \in [SzObjects -> Seq(SzObjects)]
      /\ szRecorded \in [SzObjects -> Nat] /\ szRefs \subseteq SzObjects
  BY <1>1 DEF SzTypeOK, SzDict
<1>8. Len(szDicts) \in Nat
  BY <1>7
<1> QED BY <1>2, <1>3, <1>4, <1>5, <1>6, <1>7, <1>8 DEF SzTop

\* The object of each call is typed; the innermost object is contained in itself
\* or in all others.
LEMMA CallsContain ==
    ASSUME SzInv, szPc = "writing", Len(SzTop.uses) < Len(szUses[SzTop.of]),
           NEW o, o = szUses[SzTop.of][Len(SzTop.uses) + 1]
    PROVE  /\ o \in SzObjects
           /\ \A i \in 1..Len(szCalls) : /\ szCalls[i].of \in SzObjects
                                         /\ o \in Contents(szCalls[i].of, SzObjects)
<1>1. WritingInv
  BY DEF SzInv
<1>2. PICK u \in SzObjects : u = SzTop.of
  BY TopWrites
<1>3. szUses[u] \in Seq(SzObjects) /\ Len(SzTop.uses) \in Nat
  BY TopWrites
<1>4. PICK k \in 1..Len(szUses[u]) : k = Len(SzTop.uses) + 1
  BY <1>2, <1>3
<1>5. o \in SzObjects
  BY <1>2, <1>3, <1>4
<1>6. ASSUME NEW i \in 1..Len(szCalls)
      PROVE  szCalls[i].of \in SzObjects /\ o \in Contents(szCalls[i].of, SzObjects)
  <2>1. szCalls[i] \in WriteCall
    BY TopWrites, ElementOfSeq
  <2>2. PICK q \in SzObjects : q = szCalls[i].of
    BY <2>1 DEF WriteCall
  <2>3. u = q \/ u \in Contents(q, SzObjects)
    <3>1. CASE i = Len(szCalls)
      BY <1>2, <2>2, <3>1, TopWrites
    <3>2. CASE i # Len(szCalls)
      <4>1. i < Len(szCalls) /\ Len(szCalls) \in 1..Len(szCalls)
        <5>1. PICK n \in Nat \ {0} : n = Len(szCalls)
          BY TopWrites
        <5>2. i \in 1..n /\ i # n
          BY <3>2, <5>1
        <5> QED BY <5>1, <5>2
      <4>2. szCalls[Len(szCalls)].of \in Contents(szCalls[i].of, SzObjects)
        BY <1>1, <4>1 DEF WritingInv, WriteOrder
      <4> QED BY <4>2, <1>2, <2>2, TopWrites
    <3> QED BY <3>1, <3>2
  <2>4. szUses[u][k] \in Contents(q, SzObjects)
    BY <2>2, <2>3, TopWrites, ContentsClosed
  <2> QED BY <1>2, <1>4, <2>2, <2>4
<1> QED BY <1>5, <1>6

\* An object that has its dictionary: a reference.
LEMMA WritesReference ==
    ASSUME SzInv, SzWrites, NEW o, o = szUses[SzTop.of][Len(SzTop.uses) + 1],
           szRecorded[o] # 0, SzContinue(Reference(o)), UNCHANGED <<szPc, szStarted>>
    PROVE  SzInv'
<1>1. /\ szPc = "writing" /\ szPc' = "writing" /\ szStarted' = szStarted
      /\ UNCHANGED szGraph /\ UNCHANGED szDocument /\ UNCHANGED szObjects
      /\ Len(SzTop.uses) < Len(szUses[SzTop.of])
  BY DEF SzWrites
<1>2. /\ szUses' = szUses /\ szRefs' = szRefs /\ szDicts' = szDicts
      /\ szRecorded' = szRecorded /\ szBuilt' = szBuilt /\ szDone' = szDone
  BY <1>1 DEF szGraph, szDocument, szObjects
<1>3. SzTypeOK /\ DictsInv /\ ObjectsInv /\ StageInv /\ WritingInv
  BY <1>1 DEF SzInv
<1>4. o \in SzObjects
  BY <1>1, CallsContain
<1>5. PICK p : p = Reference(o)
  OBVIOUS
<1>6. p \in SzPlace /\ p.of = o /\ p.at = 0
  BY <1>4, <1>5 DEF Reference, SzPlace
<1>7. szCalls \in Seq(WriteCall) /\ szCalls # <<>>
  BY <1>1, TopWrites
<1>8. szCalls' = Continued(szCalls, p)
  BY <1>5 DEF SzContinue, Continued
<1>9. /\ szCalls' \in Seq(WriteCall) /\ Len(szCalls') = Len(szCalls) /\ szCalls' # <<>>
      /\ \A i \in 1..Len(szCalls) : szCalls'[i].of = szCalls[i].of
      /\ \A i \in 1..Len(szCalls) : i # Len(szCalls) => szCalls'[i] = szCalls[i]
      /\ szCalls'[Len(szCalls)].uses = Append(szCalls[Len(szCalls)].uses, p)
  <2>1. PICK s : s = szCalls
    OBVIOUS
  <2>2. PICK t : t = szCalls'
    OBVIOUS
  <2>3. s \in Seq(WriteCall) /\ s # <<>> /\ t = Continued(s, p)
    BY <1>7, <1>8, <2>1, <2>2
  <2>4. /\ t \in Seq(WriteCall) /\ Len(t) = Len(s) /\ t # <<>>
        /\ \A i \in 1..Len(s) : t[i].of = s[i].of
        /\ \A i \in 1..Len(s) : i # Len(s) => t[i] = s[i]
        /\ t[Len(s)].uses = Append(s[Len(s)].uses, p)
    BY <1>6, <2>3, WriteContinues
  <2> QED BY <2>1, <2>2, <2>4
<1>10. SzTypeOK'
  BY <1>1, <1>2, <1>3, <1>9 DEF SzTypeOK, WriteCall
<1>11. DictsInv' /\ ObjectsInv'
  BY <1>1, <1>3, DocumentStays, ObjectsStay
<1>12. StageInv'
  BY <1>1, <1>2, <1>3 DEF StageInv
<1>13. WriteOrder'
  BY <1>1, <1>2, <1>3, <1>9, GraphStays DEF WritingInv, WriteOrder
<1>14. WriteCalls'
  <2>1. PlaceFits(p, o, Len(szDicts) + 1)
    <3>1. o \in szRefs /\ szRecorded[o] \in 1..Len(szDicts)
      BY <1>3, <1>4 DEF DictsInv
    <3>2. Len(szDicts) + 1 - 1 = Len(szDicts)
      BY <1>1, TopWrites
    <3> QED BY <1>6, <3>1, <3>2 DEF PlaceFits
  <2>2. WrittenAs(Append(SzTop.uses, p), SzTop.of, Len(szDicts) + 1)
    <3>1. Len(szDicts) + 1 \in Nat
      BY <1>1, TopWrites
    <3> QED BY <1>1, <1>6, <2>1, <3>1, TopWrites, WritesMore
  <2>3. ASSUME NEW i \in 1..Len(szCalls), NEW c, c = szCalls'[i]
        PROVE  /\ WrittenAs(c.uses, c.of, Len(szDicts) + 1)'
               /\ szRecorded[c.of] = 0
               /\ i < Len(szCalls) =>
                     /\ Len(c.uses) < Len(szUses[c.of])
                     /\ szCalls'[i + 1].of = szUses[c.of][Len(c.uses) + 1]
    <3>1. CASE i = Len(szCalls)
      <4>1. c.uses = Append(SzTop.uses, p) /\ c.of = SzTop.of
        BY <1>9, <2>3, <3>1 DEF SzTop
      <4>2. ~(i < Len(szCalls))
        BY <3>1
      <4>3. WrittenAs(c.uses, c.of, Len(szDicts) + 1)
        BY <2>2, <4>1
      <4>4. szRecorded[c.of] = 0
        BY <1>1, <4>1, TopWrites
      <4> QED BY <1>1, <1>2, <4>2, <4>3, <4>4, DocumentStays
    <3>2. CASE i # Len(szCalls)
      <4>1. c = szCalls[i]
        BY <1>9, <2>3, <3>2
      <4>2. i < Len(szCalls) => i + 1 \in 1..Len(szCalls)
        BY <1>7
      <4>3. i < Len(szCalls) => szCalls'[i + 1].of = szCalls[i + 1].of
        BY <1>9, <4>2
      <4>4. WrittenAs(c.uses, c.of, Len(szDicts) + 1)
        BY <1>3, <4>1 DEF WritingInv, WriteCalls
      <4>5. /\ szRecorded[c.of] = 0
            /\ i < Len(szCalls) => /\ Len(c.uses) < Len(szUses[c.of])
                                   /\ szCalls[i + 1].of = szUses[c.of][Len(c.uses) + 1]
        BY <1>3, <4>1 DEF WritingInv, WriteCalls
      <4> QED BY <1>1, <1>2, <4>3, <4>4, <4>5, DocumentStays
    <3> QED BY <3>1, <3>2
  <2> QED BY <1>2, <1>9, <2>3 DEF WriteCalls
<1>15. WriteStarted'
  BY <1>1, <1>2, <1>3, <1>9 DEF WritingInv, WriteStarted
<1>16. szCalls'[1].of = SzRoot
  <2>1. 1 \in 1..Len(szCalls)
    BY <1>7
  <2> QED BY <1>3, <1>9, <2>1 DEF WritingInv
<1> QED BY <1>1, <1>9, <1>10, <1>11, <1>12, <1>13, <1>14, <1>15, <1>16 DEF SzInv, WritingInv

\* An object that is in progress: the calls in between lead from it to itself.
LEMMA WritesRefusal ==
    ASSUME SzInv, SzWrites, NEW o, o = szUses[SzTop.of][Len(SzTop.uses) + 1],
           szRecorded[o] = 0, o \in szRefs \cap szStarted, SzRaise("refused"),
           UNCHANGED szStarted
    PROVE  SzInv'
<1>1. /\ szPc = "writing" /\ szPc' = "refused" /\ szStarted' = szStarted /\ szCalls' = <<>>
      /\ UNCHANGED szGraph /\ UNCHANGED szDocument /\ UNCHANGED szObjects
      /\ Len(SzTop.uses) < Len(szUses[SzTop.of])
  BY DEF SzWrites, SzRaise
<1>2. /\ szUses' = szUses /\ szRefs' = szRefs /\ szDicts' = szDicts
      /\ szRecorded' = szRecorded /\ szBuilt' = szBuilt /\ szDone' = szDone
  BY <1>1 DEF szGraph, szDocument, szObjects
<1>3. SzTypeOK /\ DictsInv /\ ObjectsInv /\ StageInv /\ WritingInv
  BY <1>1 DEF SzInv
<1>4. Cyclic
  <2>1. PICK i \in 1..Len(szCalls) : szCalls[i].of = o
    BY <1>3 DEF WritingInv, WriteStarted
  <2>2. o \in Contents(o, SzObjects)
    BY <1>1, <2>1, CallsContain
  <2>3. 1 \in 1..Len(szCalls)
    BY <1>1, TopWrites
  <2>4. o \in Contents(szCalls[1].of, SzObjects)
    BY <1>1, <2>3, CallsContain
  <2>5. o \in Contents(SzRoot, SzObjects)
    BY <1>3, <2>4 DEF WritingInv
  <2> QED BY <2>2, <2>5 DEF Cyclic
<1>5. Cyclic'
  BY <1>1, <1>4, GraphStays DEF Cyclic
<1>6. SzTypeOK'
  <2>1. szCalls' \in Seq([dict : Nat, from : SzOrigins, uses : Seq(Nat)])
    BY <1>1, EmptySeq
  <2> QED BY <1>1, <1>2, <1>3, <2>1 DEF SzTypeOK
<1>7. DictsInv' /\ ObjectsInv'
  BY <1>1, <1>3, DocumentStays, ObjectsStay
<1>8. StageInv'
  BY <1>1, <1>2, <1>3, <1>5 DEF StageInv
<1> QED BY <1>1, <1>6, <1>7, <1>8 DEF SzInv

\* Another object: a call.
LEMMA WritesCall ==
    ASSUME SzInv, SzWrites, NEW o, o = szUses[SzTop.of][Len(SzTop.uses) + 1],
           szRecorded[o] = 0, o \notin szRefs \cap szStarted,
           szCalls' = Append(szCalls, SerializeCall(o)),
           szStarted' = szStarted \cup ({o} \cap szRefs), UNCHANGED szPc
    PROVE  SzInv'
<1>1. /\ szPc = "writing" /\ szPc' = "writing"
      /\ UNCHANGED szGraph /\ UNCHANGED szDocument /\ UNCHANGED szObjects
      /\ Len(SzTop.uses) < Len(szUses[SzTop.of])
  BY DEF SzWrites
<1>2. /\ szUses' = szUses /\ szRefs' = szRefs /\ szDicts' = szDicts
      /\ szRecorded' = szRecorded /\ szBuilt' = szBuilt /\ szDone' = szDone
  BY <1>1 DEF szGraph, szDocument, szObjects
<1>3. SzTypeOK /\ DictsInv /\ ObjectsInv /\ StageInv /\ WritingInv
  BY <1>1 DEF SzInv
<1>4. o \in SzObjects
  BY <1>1, CallsContain
<1>5. PICK c : c = SerializeCall(o)
  OBVIOUS
<1>6. c \in WriteCall /\ c.of = o /\ c.uses = <<>>
  BY <1>4, <1>5 DEF SerializeCall, WriteCall
<1>7. PICK n \in Nat \ {0} : n = Len(szCalls)
  BY <1>1, TopWrites
<1>8. /\ szCalls' \in Seq(WriteCall) /\ Len(szCalls') = n + 1 /\ szCalls' # <<>>
      /\ \A i \in 1..n : szCalls'[i] = szCalls[i]
      /\ szCalls'[n + 1] = c
  <2>1. PICK s : s = szCalls
    OBVIOUS
  <2>2. szCalls' = Append(s, c) /\ s \in Seq(WriteCall) /\ n = Len(s)
    BY <1>1, <1>5, <1>7, <2>1, TopWrites
  <2>3. /\ Append(s, c) \in Seq(WriteCall) /\ Len(Append(s, c)) = n + 1
        /\ Append(s, c) # <<>> /\ \A i \in 1..n : Append(s, c)[i] = s[i]
        /\ Append(s, c)[n + 1] = c
    BY <1>6, <2>2, AppendProperties
  <2> QED BY <2>1, <2>2, <2>3
<1>9. SzTypeOK'
  <2>1. szStarted' \subseteq SzObjects
    BY <1>3 DEF SzTypeOK
  <2> QED BY <1>1, <1>2, <1>3, <1>8, <2>1 DEF SzTypeOK, WriteCall
<1>10. DictsInv' /\ ObjectsInv'
  BY <1>1, <1>3, DocumentStays, ObjectsStay
<1>11. StageInv'
  BY <1>1, <1>2, <1>3 DEF StageInv
<1>12. WriteOrder'
  <2>1. ASSUME NEW i \in 1..(n + 1), NEW j \in 1..(n + 1), i < j
        PROVE  /\ szCalls'[j].of \in Contents(szCalls'[i].of, SzObjects)
               /\ szCalls'[i].of = szCalls'[j].of => szCalls'[i].of \notin szRefs
    <3>1. i \in 1..n /\ szCalls'[i] = szCalls[i] /\ i \in 1..Len(szCalls)
      BY <1>7, <1>8, <2>1
    <3>2. CASE j = n + 1
      <4>1. szCalls'[j].of = o
        BY <1>6, <1>8, <3>2
      <4>2. szCalls[i].of = o => o \notin szRefs
        BY <1>3, <3>1 DEF WritingInv, WriteStarted
      <4>3. o \in Contents(szCalls[i].of, SzObjects)
        BY <1>1, <3>1, CallsContain
      <4> QED BY <3>1, <4>1, <4>2, <4>3
    <3>3. CASE j # n + 1
      <4>1. j \in 1..n /\ szCalls'[j] = szCalls[j]
        BY <1>8, <3>3
      <4> QED BY <1>3, <1>7, <2>1, <3>1, <4>1 DEF WritingInv, WriteOrder
    <3> QED BY <3>2, <3>3
  <2> QED BY <1>1, <1>2, <1>8, <2>1, GraphStays DEF WriteOrder
<1>13. WriteCalls'
  <2>1. ASSUME NEW i \in 1..(n + 1), NEW d, d = szCalls'[i]
        PROVE  /\ WrittenAs(d.uses, d.of, Len(szDicts) + 1)
               /\ szRecorded[d.of] = 0
               /\ i < n + 1 => /\ Len(d.uses) < Len(szUses[d.of])
                               /\ szCalls'[i + 1].of = szUses[d.of][Len(d.uses) + 1]
    <3>1. CASE i = n + 1
      <4>1. d.of = o /\ d.uses = <<>> /\ ~(i < n + 1)
        BY <1>6, <1>8, <2>1, <3>1
      <4>2. WrittenAs(d.uses, d.of, Len(szDicts) + 1)
        <5>1. szUses[o] \in Seq(SzObjects)
          BY <1>3, <1>4 DEF SzTypeOK
        <5> QED BY <4>1, <5>1 DEF WrittenAs
      <4> QED BY <4>1, <4>2
    <3>2. CASE i = n
      <4>1. d = SzTop /\ i \in 1..n
        BY <1>7, <1>8, <2>1, <3>2, TopWrites, <1>1
      <4>2. szCalls'[i + 1].of = o
        BY <1>6, <1>8, <3>2
      <4> QED BY <1>1, <4>1, <4>2, TopWrites
    <3>3. CASE i # n + 1 /\ i # n
      <4>1. i \in 1..n /\ i + 1 \in 1..n /\ i < n
        BY <3>3
      <4>2. d = szCalls[i] /\ szCalls'[i + 1] = szCalls[i + 1]
        BY <1>8, <2>1, <4>1
      <4> QED BY <1>3, <1>7, <4>1, <4>2 DEF WritingInv, WriteCalls
    <3> QED BY <3>1, <3>2, <3>3
  <2>2. Len(szCalls') = n + 1
    BY <1>8
  <2>3. ASSUME NEW i \in 1..Len(szCalls'), NEW d, d = szCalls'[i]
        PROVE  /\ WrittenAs(d.uses, d.of, Len(szDicts) + 1)'
               /\ szRecorded[d.of] = 0
               /\ i < Len(szCalls') => /\ Len(d.uses) < Len(szUses[d.of])
                                      /\ szCalls'[i + 1].of = szUses[d.of][Len(d.uses) + 1]
    <3>1. i \in 1..(n + 1)
      BY <2>2
    <3>2. WrittenAs(d.uses, d.of, Len(szDicts) + 1)
      BY <2>1, <2>3, <3>1
    <3>3. WrittenAs(d.uses, d.of, Len(szDicts) + 1)'
      BY <1>1, <1>2, <3>2, DocumentStays
    <3> QED BY <2>1, <2>2, <2>3, <3>1, <3>3
  <2> QED BY <1>2, <2>3 DEF WriteCalls
<1>14. WriteStarted'
  <2>1. \A q : (\E i \in 1..(n + 1) : szCalls'[i].of = q)
               <=> (q = o \/ \E i \in 1..n : szCalls[i].of = q)
    <3>1. n + 1 \in 1..(n + 1) /\ \A i \in 1..(n + 1) : i = n + 1 \/ i \in 1..n
      OBVIOUS
    <3>2. szCalls'[n + 1].of = o
      BY <1>6, <1>8
    <3> QED BY <1>8, <3>1, <3>2
  <2>2. szStarted = {q \in szRefs : \/ szRecorded[q] # 0
                                    \/ \E i \in 1..n : szCalls[i].of = q}
    BY <1>3, <1>7 DEF WritingInv, WriteStarted
  <2>3. szStarted' = {q \in szRefs : \/ szRecorded[q] # 0
                                     \/ \E i \in 1..(n + 1) : szCalls'[i].of = q}
    BY <2>1, <2>2
  <2> QED BY <1>2, <1>8, <2>3 DEF WriteStarted
<1>15. szCalls'[1].of = SzRoot
  <2>1. 1 \in 1..n
    OBVIOUS
  <2> QED BY <1>3, <1>8, <2>1 DEF WritingInv
<1> QED BY <1>1, <1>8, <1>9, <1>10, <1>11, <1>12, <1>13, <1>14, <1>15 DEF SzInv, WritingInv

LEMMA WritesKeep == SzInv /\ SzWrites => SzInv'
<1> SUFFICES ASSUME SzInv, SzWrites PROVE SzInv'
  OBVIOUS
<1> QED BY WritesReference, WritesRefusal, WritesCall DEF SzWrites

\* The call around the one that returns: one more of its fields is written.
LEMMA FieldFollows ==
    ASSUME SzTypeOK, NEW d \in [of : SzObjects, uses : Seq(SzPlace)], DocumentGrows(d),
           NEW uses \in Seq(SzPlace), NEW o \in SzObjects,
           WrittenAs(uses, o, Len(szDicts) + 1), Len(uses) < Len(szUses[o]),
           NEW u, u = szUses[o][Len(uses) + 1], NEW j \in Nat, Len(szDicts) + 1 <= j,
           NEW p \in SzPlace, PlaceFits(p, u, j)'
    PROVE  WrittenAs(Append(uses, p), o, j)'
<1>1. szUses' = szUses /\ szUses \in [SzObjects -> Seq(SzObjects)]
  BY DEF SzTypeOK, DocumentGrows, szGraph
<1>2. Len(szDicts) + 1 \in 1..(Len(szDicts) + 1)
  <2>1. Len(szDicts) \in Nat
    BY DEF SzTypeOK
  <2> QED BY <2>1
<1>3. WrittenAs(uses, o, j)'
  <2>1. PICK i \in 1..(Len(szDicts) + 1) : i = Len(szDicts) + 1
    BY <1>2
  <2> QED BY <2>1, FieldsStay
<1>4. Len(Append(uses, p)) = Len(uses) + 1 /\ Len(szUses[o]) \in Nat /\ Len(uses) \in Nat
  BY <1>1
<1>5. ASSUME NEW k \in 1..(Len(uses) + 1)
      PROVE  PlaceFits(Append(uses, p)[k], szUses[o][k], j)'
  <2>1. CASE k = Len(uses) + 1
    <3>1. Append(uses, p)[k] = p /\ szUses[o][k] = u /\ szUses'[o][k] = u
      BY <1>1, <2>1
    <3> QED BY <3>1
  <2>2. CASE k # Len(uses) + 1
    <3>1. k \in 1..Len(uses) /\ Append(uses, p)[k] = uses[k]
      BY <2>2, <1>4
    <3>2. PlaceFits(uses[k], szUses[o][k], j)'
      BY <1>3, <3>1 DEF WrittenAs
    <3> QED BY <3>1, <3>2
  <2> QED BY <2>1, <2>2
<1> QED BY <1>1, <1>4, <1>5 DEF WrittenAs

\* What a finished dictionary means for the document.
LEMMA WrittenDocument ==
    ASSUME SzInv, SzWritten
    PROVE  \E d \in SzDict, p \in SzPlace :
              /\ d.of = SzTop.of /\ p.of = SzTop.of /\ DocumentGrows(d)
              /\ d.of \notin Contents(d.of, SzObjects)
              /\ szDicts' \in Seq(SzDict) /\ Len(szDicts') = Len(szDicts) + 1
              /\ szDicts'[Len(szDicts) + 1] = d
              /\ \A i \in 1..Len(szDicts) : szDicts'[i] = szDicts[i]
              /\ szRecorded' \in [SzObjects -> Nat]
              /\ \A q \in SzObjects : q # d.of => szRecorded'[q] = szRecorded[q]
              /\ IF d.of \in szRefs \ {SzRoot}
                 THEN p.at = 0 /\ szRecorded'[d.of] = Len(szDicts) + 1
                 ELSE p.at = Len(szDicts) + 1 /\ szRecorded' = szRecorded
              /\ SzReturn(p, "written")
              /\ DictsInv'
<1>1. /\ szPc = "writing" /\ UNCHANGED szGraph
      /\ Len(SzTop.uses) = Len(szUses[SzTop.of])
  BY DEF SzWritten
<1>2. SzTypeOK /\ DictsInv /\ StageInv
  BY DEF SzInv
<1>3. PICK o \in SzObjects : o = SzTop.of
  BY <1>1, TopWrites
<1>4. PICK d : d = [of |-> SzTop.of, uses |-> SzTop.uses]
  OBVIOUS
<1>5. d \in SzDict /\ d.of = o /\ d.uses = SzTop.uses /\ d.uses \in Seq(SzPlace)
  BY <1>1, <1>3, <1>4, TopWrites DEF SzDict
<1>6. PICK m \in Nat : m = Len(szDicts)
  BY <1>1, TopWrites
<1>7. szDicts \in Seq(SzDict) /\ szRecorded \in [SzObjects -> Nat] /\ szRecorded[o] = 0
  BY <1>1, <1>3, TopWrites
<1>8. \E p \in SzPlace :
         /\ p.of = o /\ SzReturn(p, "written")
         /\ IF o \in szRefs \ {SzRoot}
            THEN p.at = 0 /\ szRecorded' = [szRecorded EXCEPT ![o] = m + 1]
            ELSE p.at = m + 1 /\ szRecorded' = szRecorded
  <2>1. CASE o \in szRefs \ {SzRoot}
    <3>1. PICK p : p = Reference(o)
      OBVIOUS
    <3>2. p \in SzPlace /\ p.of = o /\ p.at = 0
      BY <3>1 DEF Reference, SzPlace
    <3>3. SzReturn(p, "written") /\ szRecorded' = [szRecorded EXCEPT ![o] = m + 1]
      BY <1>3, <1>6, <2>1, <3>1 DEF SzWritten
    <3> QED BY <2>1, <3>2, <3>3
  <2>2. CASE o \notin szRefs \ {SzRoot}
    <3>1. PICK p : p = InPlace(o, m + 1)
      OBVIOUS
    <3>2. p \in SzPlace /\ p.of = o /\ p.at = m + 1
      BY <3>1 DEF InPlace, SzPlace
    <3>3. SzReturn(p, "written") /\ szRecorded' = szRecorded
      BY <1>3, <1>6, <2>2, <3>1 DEF SzWritten
    <3> QED BY <2>2, <3>2, <3>3
  <2> QED BY <2>1, <2>2
<1>9. PICK p \in SzPlace :
         /\ p.of = o /\ SzReturn(p, "written")
         /\ IF o \in szRefs \ {SzRoot}
            THEN p.at = 0 /\ szRecorded' = [szRecorded EXCEPT ![o] = m + 1]
            ELSE p.at = m + 1 /\ szRecorded' = szRecorded
  BY <1>8
<1>10. /\ szRecorded' \in [SzObjects -> Nat]
       /\ \A q \in SzObjects : q # o => szRecorded'[q] = szRecorded[q]
       /\ IF o \in szRefs \ {SzRoot} THEN p.at = 0 /\ szRecorded'[o] = m + 1
          ELSE p.at = m + 1 /\ szRecorded' = szRecorded
  BY <1>7, <1>9
<1>11. /\ szDicts' \in Seq(SzDict) /\ Len(szDicts') = m + 1 /\ szDicts'[m + 1] = d
       /\ \A i \in 1..m : szDicts'[i] = szDicts[i]
  <2>1. szDicts' = Append(szDicts, d)
    BY <1>4 DEF SzWritten
  <2> QED BY <1>5, <1>6, <1>7, <2>1, AppendProperties
<1>12. DocumentGrows(d)
  BY <1>1, <1>4, <1>5, <1>6, <1>7, <1>9 DEF DocumentGrows, SzWritten
<1>13. m + 1 \in 1..(m + 1)
  OBVIOUS
<1>14. WrittenAs(d.uses, o, m + 1) /\ Len(d.uses) = Len(szUses[o])
  BY <1>1, <1>3, <1>5, <1>6, TopWrites
<1>15. o \notin Contents(o, SzObjects)
  BY <1>2, <1>5, <1>6, <1>13, <1>14, NotInItself
<1>16. /\ szUses' = szUses /\ szRefs' = szRefs
       /\ \A q : Contents(q, SzObjects)' = Contents(q, SzObjects)
  BY <1>1, GraphStays
<1>17. ASSUME NEW i \in 1..(m + 1), NEW e, e = szDicts'[i]
       PROVE  /\ Len(e.uses) = Len(szUses[e.of]) /\ WrittenAs(e.uses, e.of, i)'
              /\ e.of \notin Contents(e.of, SzObjects)
              /\ e.of \in szRefs \ {SzRoot} => szRecorded'[e.of] = i
              /\ i < m + 1 => e.of # SzRoot
  <2>1. CASE i = m + 1
    <3>1. e = d
      BY <1>11, <1>17, <2>1
    <3>2. WrittenAs(d.uses, o, i)'
      BY <1>2, <1>5, <1>6, <1>12, <1>14, <2>1, FieldsStay DEF SzDict
    <3>3. WrittenAs(e.uses, e.of, i)'
      BY <1>5, <3>1, <3>2
    <3> QED BY <1>5, <1>10, <1>14, <1>15, <2>1, <3>1, <3>3
  <2>2. CASE i # m + 1
    <3>1. i \in 1..m /\ e = szDicts[i] /\ i \in 1..(m + 1) /\ i <= i
      BY <1>11, <1>17, <2>2
    <3>2. e \in SzDict
      BY <1>6, <1>7, <3>1, ElementOfSeq
    <3>3. e.of \in SzObjects /\ e.uses \in Seq(SzPlace)
      BY <3>2 DEF SzDict
    <3>4. /\ Len(e.uses) = Len(szUses[e.of]) /\ WrittenAs(e.uses, e.of, i)
          /\ e.of \notin Contents(e.of, SzObjects)
          /\ e.of \in szRefs \ {SzRoot} => szRecorded[e.of] = i
      BY <1>2, <1>6, <3>1 DEF DictsInv
    <3>5. WrittenAs(e.uses, e.of, i)'
      BY <1>2, <1>5, <1>6, <1>12, <3>1, <3>3, <3>4, FieldsStay DEF SzDict
    <3>6. e.of # SzRoot
      BY <1>1, <1>2, <1>6, <3>1 DEF StageInv
    <3>7. e.of \in szRefs \ {SzRoot} => szRecorded'[e.of] = i
      <4>1. e.of \in szRefs \ {SzRoot} => e.of # o
        BY <1>7, <3>1, <3>4
      <4> QED BY <1>10, <3>3, <3>4, <4>1
    <3> QED BY <3>4, <3>5, <3>6, <3>7
  <2> QED BY <2>1, <2>2
<1>18. ASSUME NEW q \in SzObjects, szRecorded'[q] # 0
       PROVE  /\ q \in szRefs \ {SzRoot} /\ szRecorded'[q] \in 1..(m + 1)
              /\ szDicts'[szRecorded'[q]].of = q
  <2>1. CASE q = o
    <3>1. o \in szRefs \ {SzRoot} /\ szRecorded'[o] = m + 1
      BY <1>7, <1>10, <1>18, <2>1
    <3> QED BY <1>5, <1>11, <1>13, <2>1, <3>1
  <2>2. CASE q # o
    <3>1. szRecorded'[q] = szRecorded[q]
      BY <1>10, <2>2
    <3>2. /\ q \in szRefs \ {SzRoot} /\ szRecorded[q] \in 1..m
          /\ szDicts[szRecorded[q]].of = q
      BY <1>2, <1>6, <1>18, <3>1 DEF DictsInv
    <3> QED BY <1>11, <3>1, <3>2
  <2> QED BY <2>1, <2>2
<1>19. DictsInv'
  <2>1. ASSUME NEW i \in 1..Len(szDicts'), NEW e, e = szDicts'[i]
        PROVE  /\ Len(e.uses) = Len(szUses'[e.of]) /\ WrittenAs(e.uses, e.of, i)'
               /\ e.of \notin Contents(e.of, SzObjects)'
               /\ e.of \in szRefs' \ {SzRoot} => szRecorded'[e.of] = i
               /\ i < Len(szDicts') => e.of # SzRoot
    BY <1>11, <1>16, <1>17, <2>1
  <2> QED BY <1>11, <1>16, <1>18, <2>1 DEF DictsInv
<1> QED BY <1>3, <1>5, <1>6, <1>9, <1>10, <1>11, <1>12, <1>15, <1>19

LEMMA WrittenKeeps == SzInv /\ SzWritten => SzInv'
<1> SUFFICES ASSUME SzInv, SzWritten PROVE SzInv'
  OBVIOUS
<1>1. /\ szPc = "writing" /\ szStarted' = szStarted
      /\ UNCHANGED szGraph /\ UNCHANGED szObjects
  BY DEF SzWritten
<1>2. /\ szUses' = szUses /\ szRefs' = szRefs /\ szBuilt' = szBuilt /\ szDone' = szDone
      /\ \A q : Contents(q, SzObjects)' = Contents(q, SzObjects)
  BY <1>1, GraphStays DEF szGraph, szObjects
<1>3. SzTypeOK /\ DictsInv /\ ObjectsInv /\ StageInv /\ WritingInv
  BY <1>1 DEF SzInv
<1>4. PICK m \in Nat : m = Len(szDicts)
  BY <1>1, TopWrites
<1>5. PICK n \in Nat \ {0} : n = Len(szCalls)
  BY <1>1, TopWrites
<1>6. PICK d \in SzDict, p \in SzPlace :
         /\ d.of = SzTop.of /\ p.of = SzTop.of /\ DocumentGrows(d)
         /\ d.of \notin Contents(d.of, SzObjects)
         /\ szDicts' \in Seq(SzDict) /\ Len(szDicts') = m + 1
         /\ szDicts'[m + 1] = d
         /\ \A i \in 1..m : szDicts'[i] = szDicts[i]
         /\ szRecorded' \in [SzObjects -> Nat]
         /\ \A q \in SzObjects : q # d.of => szRecorded'[q] = szRecorded[q]
         /\ IF d.of \in szRefs \ {SzRoot}
            THEN p.at = 0 /\ szRecorded'[d.of] = m + 1
            ELSE p.at = m + 1 /\ szRecorded' = szRecorded
         /\ SzReturn(p, "written")
         /\ DictsInv'
  BY <1>4, WrittenDocument
<1>7. PICK o \in SzObjects : o = SzTop.of
  BY <1>1, TopWrites
<1>8. d.of = o /\ p.of = o /\ o = szCalls[n].of /\ szRecorded[o] = 0
  BY <1>1, <1>5, <1>6, <1>7, TopWrites
<1>9. ObjectsInv'
  BY <1>1, <1>3, ObjectsStay
<1>10. szDicts' # <<>> /\ Len(szDicts') # 0
  BY <1>4, <1>6
<1>11. szUses' \in [SzObjects -> Seq(SzObjects)] /\ szRefs' \subseteq SzObjects
       /\ szStarted' \subseteq SzObjects /\ szDone' \in [SzObjects -> Nat]
       /\ szBuilt' \in Seq([of : SzObjects, uses : Seq(Nat)])
       /\ szDicts' \in Seq([of : SzObjects, uses : Seq(SzPlace)])
       /\ szRecorded' \in [SzObjects -> Nat]
  BY <1>1, <1>2, <1>3, <1>6 DEF SzTypeOK, SzDict
<1>12. CASE n = 1
  <2>1. szCalls' = <<>> /\ szPc' = "written"
    BY <1>5, <1>6, <1>12 DEF SzReturn
  <2>2. szCalls' \in Seq([dict : Nat, from : SzOrigins, uses : Seq(Nat)])
    BY <2>1, EmptySeq
  <2>3. SzTypeOK'
    BY <1>11, <2>1, <2>2 DEF SzTypeOK
  <2>4. o = SzRoot
    BY <1>3, <1>8, <1>12 DEF WritingInv
  <2>5. szDicts'[Len(szDicts')].of = SzRoot
    BY <1>6, <1>8, <2>4
  <2>6. StageInv'
    BY <1>1, <1>2, <1>3, <1>10, <2>1, <2>5 DEF StageInv
  <2> QED BY <1>6, <1>9, <2>1, <2>3, <2>6 DEF SzInv
<1>13. CASE n # 1
  <2>1. PICK k \in Nat \ {0} : k + 1 = n
    BY <1>13
  <2>2. PICK s : s = szCalls
    OBVIOUS
  <2>3. s \in Seq(WriteCall) /\ Len(s) = k + 1 /\ k \in 1..Len(s)
    BY <1>1, <1>5, <2>1, <2>2, TopWrites
  <2>4. PICK t : t = szCalls'
    OBVIOUS
  <2>5. t = Returned(s, k, p) /\ szPc' = "writing"
    <3>1. Len(szCalls) - 1 = k /\ k # 0
      BY <2>2, <2>3
    <3> QED BY <1>1, <1>6, <2>2, <2>4, <3>1 DEF SzReturn, Returned
  <2>6. /\ t \in Seq(WriteCall) /\ Len(t) = k /\ t # <<>>
        /\ \A i \in 1..k : t[i].of = s[i].of
        /\ \A i \in 1..k : i # k => t[i] = s[i]
        /\ t[k].uses = Append(s[k].uses, p)
    BY <2>3, <2>5, WriteReturns
  <2>7. SzTypeOK'
    BY <1>11, <2>4, <2>5, <2>6 DEF SzTypeOK, WriteCall
  <2>8. \A i \in 1..k : /\ s[i].of \in SzObjects /\ o \in Contents(s[i].of, SzObjects)
                        /\ s[i].of = o => o \notin szRefs
    <3>1. ASSUME NEW i \in 1..k
          PROVE  /\ s[i].of \in SzObjects /\ o \in Contents(s[i].of, SzObjects)
                 /\ s[i].of = o => o \notin szRefs
      <4>1. i \in 1..Len(s) /\ k + 1 \in 1..Len(s) /\ i < k + 1
        BY <2>1, <2>3
      <4>2. s[i] \in WriteCall
        BY <2>3, <4>1, ElementOfSeq
      <4>3. s[i].of \in SzObjects
        BY <4>2 DEF WriteCall
      <4>4. s[k + 1].of = o
        BY <1>8, <2>1, <2>2
      <4> QED BY <1>3, <2>2, <4>1, <4>3, <4>4 DEF WritingInv, WriteOrder
    <3> QED BY <3>1
  <2>9. o # SzRoot
    <3>1. 1 \in 1..k /\ s[1].of = SzRoot
      BY <1>3, <2>2 DEF WritingInv
    <3> QED BY <1>6, <1>8, <2>8, <3>1
  <2>10. \A i \in 1..(m + 1) : szDicts'[i].of # SzRoot
    <3>1. \A i \in 1..(m + 1) : i \in 1..m \/ i = m + 1
      OBVIOUS
    <3> QED BY <1>1, <1>3, <1>4, <1>6, <1>8, <2>9, <3>1 DEF StageInv
  <2>11. StageInv'
    BY <1>1, <1>2, <1>3, <1>6, <2>5, <2>10 DEF StageInv
  <2>12. WriteOrder'
    <3>1. ASSUME NEW i \in 1..k, NEW j \in 1..k, i < j
          PROVE  /\ t[j].of \in Contents(t[i].of, SzObjects)
                 /\ t[i].of = t[j].of => t[i].of \notin szRefs
      <4>1. i \in 1..(k + 1) /\ j \in 1..(k + 1)
        BY <2>1
      <4> QED BY <1>3, <2>2, <2>3, <2>6, <3>1, <4>1 DEF WritingInv, WriteOrder
    <3> QED BY <1>2, <2>4, <2>6, <3>1 DEF WriteOrder
  <2>13. PlaceFits(p, o, m + 2)'
    <3>1. m + 1 \in 1..(m + 2 - 1) /\ m + 1 # 0
      OBVIOUS
    <3>2. CASE o \in szRefs
      BY <1>2, <1>6, <1>8, <2>9, <3>1, <3>2 DEF PlaceFits
    <3>3. CASE o \notin szRefs
      BY <1>2, <1>6, <1>8, <3>1, <3>3 DEF PlaceFits
    <3> QED BY <3>2, <3>3
  <2>14. ASSUME NEW i \in 1..k
         PROVE  /\ WrittenAs(t[i].uses, t[i].of, m + 2)'
                /\ szRecorded'[t[i].of] = 0
                /\ i < k => /\ Len(t[i].uses) < Len(szUses[t[i].of])
                            /\ t[i + 1].of = szUses[t[i].of][Len(t[i].uses) + 1]
    <3>1. i \in 1..(k + 1) /\ i < k + 1
      BY <2>1
    <3>2. PICK q \in SzObjects : q = s[i].of
      BY <2>8
    <3>3. PICK v : v = s[i].uses
      OBVIOUS
    <3>4. v \in Seq(SzPlace)
      <4>1. s[i] \in WriteCall
        BY <2>3, <3>1, ElementOfSeq
      <4> QED BY <3>3, <4>1 DEF WriteCall
    <3>5. /\ WrittenAs(v, q, m + 1) /\ szRecorded[q] = 0 /\ Len(v) < Len(szUses[q])
          /\ s[i + 1].of = szUses[q][Len(v) + 1]
      BY <1>3, <1>4, <2>2, <2>3, <3>1, <3>2, <3>3 DEF WritingInv, WriteCalls
    <3>6. szRecorded'[q] = 0
      BY <1>6, <1>8, <2>8, <3>2, <3>5
    <3>7. m + 2 \in Nat /\ m + 1 <= m + 2 /\ m + 1 \in 1..(m + 1)
      OBVIOUS
    <3>8. CASE i = k
      <4>1. t[i].of = q /\ t[i].uses = Append(v, p)
        BY <2>6, <3>2, <3>3, <3>8
      <4>2. o = szUses[q][Len(v) + 1]
        BY <1>8, <2>1, <2>2, <3>5, <3>8
      <4>3. WrittenAs(Append(v, p), q, m + 2)'
        BY <1>3, <1>4, <1>6, <2>13, <3>4, <3>5, <3>7, <4>2, FieldFollows DEF SzDict
      <4>4. WrittenAs(t[i].uses, t[i].of, m + 2)'
        BY <4>1, <4>3
      <4> QED BY <3>6, <3>8, <4>1, <4>4
    <3>9. CASE i # k
      <4>1. t[i] = s[i] /\ i + 1 \in 1..k
        BY <2>6, <3>9
      <4>2. WrittenAs(v, q, m + 2)'
        BY <1>3, <1>4, <1>6, <3>4, <3>5, <3>7, FieldsStay DEF SzDict
      <4>3. WrittenAs(t[i].uses, t[i].of, m + 2)'
        BY <3>2, <3>3, <4>1, <4>2
      <4> QED BY <2>6, <3>2, <3>3, <3>5, <3>6, <4>1, <4>3
    <3> QED BY <3>8, <3>9
  <2>15. WriteCalls'
    <3>1. Len(szDicts') + 1 = m + 2
      BY <1>6
    <3>2. ASSUME NEW i \in 1..Len(szCalls'), NEW c, c = szCalls'[i]
          PROVE  /\ WrittenAs(c.uses, c.of, Len(szDicts) + 1)'
                 /\ szRecorded'[c.of] = 0
                 /\ i < Len(szCalls') => /\ Len(c.uses) < Len(szUses'[c.of])
                                         /\ szCalls'[i + 1].of = szUses'[c.of][Len(c.uses) + 1]
      BY <1>2, <2>4, <2>6, <2>14, <3>1, <3>2
    <3> QED BY <3>2 DEF WriteCalls
  <2>16. WriteStarted'
    <3>1. \A q : (\E i \in 1..(k + 1) : s[i].of = q)
                 <=> (q = o \/ \E i \in 1..k : t[i].of = q)
      <4>1. k + 1 \in 1..(k + 1) /\ \A i \in 1..(k + 1) : i = k + 1 \/ i \in 1..k
        OBVIOUS
      <4>2. \A i \in 1..k : i \in 1..(k + 1)
        OBVIOUS
      <4> QED BY <1>8, <2>1, <2>2, <2>6, <4>1, <4>2
    <3>2. szStarted = {q \in szRefs : \/ szRecorded[q] # 0
                                      \/ \E i \in 1..(k + 1) : s[i].of = q}
      BY <1>3, <2>2, <2>3 DEF WritingInv, WriteStarted
    <3>3. \A q \in szRefs : szRecorded'[q] # 0 <=> (szRecorded[q] # 0 \/ q = o)
      <4>1. szRefs \subseteq SzObjects /\ m + 1 # 0
        BY <1>3 DEF SzTypeOK
      <4> QED BY <1>6, <1>8, <2>9, <4>1
    <3>4. szStarted = {q \in szRefs : \/ szRecorded'[q] # 0
                                      \/ \E i \in 1..k : t[i].of = q}
      BY <3>1, <3>2, <3>3
    <3> QED BY <1>1, <1>2, <2>4, <2>6, <3>4 DEF WriteStarted
  <2>17. szCalls' # <<>> /\ szCalls'[1].of = SzRoot
    <3>1. 1 \in 1..k /\ s[1].of = SzRoot
      BY <1>3, <2>2 DEF WritingInv
    <3> QED BY <2>4, <2>6, <3>1
  <2> QED BY <1>6, <1>9, <2>5, <2>7, <2>11, <2>12, <2>15, <2>16, <2>17 DEF SzInv, WritingInv
<1> QED BY <1>12, <1>13

-----------------------------------------------------------------------------
(* Reading.                                                                *)

LEMMA DeserializeKeeps == SzInv /\ SzDeserialize => SzInv'
<1> SUFFICES ASSUME SzInv, SzDeserialize PROVE SzInv'
  OBVIOUS
<1>1. /\ szUses' = szUses /\ szRefs' = szRefs /\ szDicts' = szDicts
      /\ szRecorded' = szRecorded /\ szBuilt' = szBuilt /\ szDone' = szDone
      /\ szPc = "written" /\ szPc' = "reading" /\ szStarted' = {}
  BY DEF SzDeserialize, szGraph, szDocument, szObjects
<1>2. SzTypeOK /\ DictsInv /\ ObjectsInv /\ StageInv
  BY DEF SzInv
<1>3. PICK m \in Nat \ {0} : m = Len(szDicts) /\ szDicts[m].of = SzRoot
  BY <1>1, <1>2 DEF StageInv, SzTypeOK
<1>4. PICK c : c = DeserializeCall(Len(szDicts), "place")
  OBVIOUS
<1>5. c \in ReadCall /\ c.dict = m /\ c.from = "place" /\ c.uses = <<>>
  BY <1>3, <1>4 DEF DeserializeCall, ReadCall, SzOrigins
<1>6. szCalls' = <<c>>
  BY <1>4 DEF SzDeserialize
<1>7. szCalls' \in Seq(ReadCall) /\ Len(szCalls') = 1 /\ szCalls'[1] = c
  BY <1>5, <1>6
<1>8. SzTypeOK'
  BY <1>1, <1>2, <1>7 DEF SzTypeOK, ReadCall
<1>9. DictsInv' /\ ObjectsInv'
  BY <1>2, GraphStays, DocumentStays, ObjectsStay DEF SzDeserialize
<1>10. StageInv'
  BY <1>1, <1>2 DEF StageInv
<1>11. ReadingInv'
  <2>1. szCalls' # <<>>
    BY <1>6
  <2>2. BuiltFrom(c.uses, SzRoot)'
    <3>1. szUses'[SzRoot] \in Seq(SzObjects)
      BY <1>1, <1>2, SzAssumption DEF SzTypeOK
    <3> QED BY <1>5, <3>1 DEF BuiltFrom
  <2>3. ReadCalls'
    BY <1>1, <1>3, <1>5, <1>7, <2>2 DEF ReadCalls, ReadsAs
  <2>4. ReadOrder'
    BY <1>7 DEF ReadOrder
  <2>5. ReadStarted'
    BY <1>1 DEF ReadStarted
  <2>6. szCalls'[1].dict = Len(szDicts') /\ szCalls'[1].from = "place"
    BY <1>1, <1>3, <1>5, <1>7
  <2> QED BY <2>1, <2>3, <2>4, <2>5, <2>6 DEF ReadingInv
<1> QED BY <1>1, <1>8, <1>9, <1>10, <1>11 DEF SzInv

\* While calls are in progress: the innermost one, and the dictionary it reads.
LEMMA TopReads ==
    ASSUME SzInv, szPc = "reading"
    PROVE  /\ szCalls \in Seq(ReadCall) /\ szCalls # <<>>
           /\ Len(szCalls) \in Nat \ {0} /\ SzTop = szCalls[Len(szCalls)]
           /\ SzTop \in ReadCall /\ SzTop.uses \in Seq(Nat) /\ SzTop.from \in SzOrigins
           /\ szDicts \in Seq(SzDict) /\ Len(szDicts) \in Nat
           /\ szUses \in [SzObjects -> Seq(SzObjects)] /\ szRefs \subseteq SzObjects
           /\ SzTop.dict \in 1..Len(szDicts)
           /\ \E d \in SzDict :
                 /\ d = szDicts[SzTop.dict] /\ d.of \in SzObjects /\ d.uses \in Seq(SzPlace)
                 /\ BuiltFrom(SzTop.uses, d.of)
                 /\ Len(d.uses) = Len(szUses[d.of]) /\ WrittenAs(d.uses, d.of, SzTop.dict)
<1>1. SzTypeOK /\ DictsInv /\ ReadingInv
  BY DEF SzInv
<1>2. szCalls \in Seq(ReadCall) /\ szCalls # <<>>
  BY <1>1 DEF SzTypeOK, ReadingInv, ReadCall
<1>3. Len(szCalls) \in 1..Len(szCalls)
  BY <1>2
<1>4. SzTop \in ReadCall
  BY <1>2, <1>3, ElementOfSeq DEF SzTop
<1>5. SzTop.uses \in Seq(Nat) /\ SzTop.from \in SzOrigins
  BY <1>4 DEF ReadCall
<1>6. /\ szDicts \in Seq(SzDict) /\ szUses \in [SzObjects -> Seq(SzObjects)]
      /\ szRefs \subseteq SzObjects
  BY <1>1 DEF SzTypeOK, SzDict
<1>7. /\ SzTop.dict \in 1..Len(szDicts)
      /\ BuiltFrom(SzTop.uses, szDicts[SzTop.dict].of)
  BY <1>1, <1>3 DEF ReadingInv, ReadCalls, ReadsAs, SzTop
<1>8. PICK d : d = szDicts[SzTop.dict]
  OBVIOUS
<1>9. d \in SzDict
  BY <1>6, <1>7, <1>8, ElementOfSeq
<1>10. d.of \in SzObjects /\ d.uses \in Seq(SzPlace)
  BY <1>9 DEF SzDict
<1>11. Len(d.uses) = Len(szUses[d.of]) /\ WrittenAs(d.uses, d.of, SzTop.dict)
  BY <1>1, <1>7, <1>8 DEF DictsInv
<1>12. Len(szDicts) \in Nat
  BY <1>6
<1> QED BY <1>2, <1>3, <1>4, <1>5, <1>6, <1>7, <1>8, <1>9, <1>10, <1>11, <1>12 DEF SzTop

LEMMA EachCallReads ==
    ASSUME ReadCalls, NEW i \in 1..Len(szCalls), NEW c, c = szCalls[i],
           NEW o, o = szDicts[c.dict].of
    PROVE  ReadsAs(i, c, o)
BY DEF ReadCalls

\* The next field: what it stands for is used by the object that is read, and has a
\* dictionary that was finished before.
LEMMA NextField ==
    ASSUME SzInv, szPc = "reading", Len(SzTop.uses) < Len(szDicts[SzTop.dict].uses),
           NEW use, use = szDicts[SzTop.dict].uses[Len(SzTop.uses) + 1]
    PROVE  /\ use \in SzPlace /\ use.of \in SzObjects /\ use.at \in Nat
           /\ PlaceFits(use, use.of, SzTop.dict)
           /\ use.of = szUses[szDicts[SzTop.dict].of][Len(SzTop.uses) + 1]
           /\ Len(SzTop.uses) < Len(szUses[szDicts[SzTop.dict].of])
<1>1. PICK d \in SzDict :
         /\ d = szDicts[SzTop.dict] /\ d.of \in SzObjects /\ d.uses \in Seq(SzPlace)
         /\ Len(d.uses) = Len(szUses[d.of]) /\ WrittenAs(d.uses, d.of, SzTop.dict)
  BY TopReads
<1>2. Len(SzTop.uses) \in Nat
  BY TopReads
<1>3. PICK k \in 1..Len(d.uses) : k = Len(SzTop.uses) + 1
  BY <1>1, <1>2
<1>4. use \in SzPlace
  BY <1>1, <1>3, ElementOfSeq
<1>5. use.of \in SzObjects /\ use.at \in Nat
  BY <1>4 DEF SzPlace
<1>6. PlaceFits(use, szUses[d.of][k], SzTop.dict)
  BY <1>1, <1>3 DEF WrittenAs
<1>7. use.of = szUses[d.of][k]
  BY <1>6 DEF PlaceFits
<1> QED BY <1>1, <1>3, <1>4, <1>5, <1>6, <1>7

LEMMA ReadGoesOn ==
    ASSUME NEW u, u \in Nat, SzContinue(u), NEW s, s = szCalls, NEW t, t = szCalls',
           s \in Seq(ReadCall), s # <<>>
    PROVE  /\ t \in Seq(ReadCall) /\ Len(t) = Len(s) /\ t # <<>>
           /\ \A i \in 1..Len(s) : t[i].dict = s[i].dict /\ t[i].from = s[i].from
           /\ \A i \in 1..Len(s) : i # Len(s) => t[i] = s[i]
           /\ t[Len(s)].uses = Append(s[Len(s)].uses, u)
<1>1. t = Continued(s, u)
  BY DEF SzContinue, Continued
<1> QED BY <1>1, ReadContinues

\* A reference that was built: it is used.
LEMMA ReadsBuilt ==
    ASSUME SzInv, SzReads, NEW u, u \in Nat, u \in 1..Len(szBuilt),
           szBuilt[u].of = szUses[szDicts[SzTop.dict].of][Len(SzTop.uses) + 1],
           SzContinue(u), UNCHANGED <<szPc, szStarted>>
    PROVE  SzInv'
<1>1. /\ szPc = "reading" /\ szPc' = "reading" /\ szStarted' = szStarted
      /\ UNCHANGED szGraph /\ UNCHANGED szDocument /\ UNCHANGED szObjects
      /\ Len(SzTop.uses) < Len(szDicts[SzTop.dict].uses)
  BY DEF SzReads
<1>2. /\ szUses' = szUses /\ szRefs' = szRefs /\ szDicts' = szDicts
      /\ szRecorded' = szRecorded /\ szBuilt' = szBuilt /\ szDone' = szDone
  BY <1>1 DEF szGraph, szDocument, szObjects
<1>3. SzTypeOK /\ DictsInv /\ ObjectsInv /\ StageInv /\ ReadingInv
  BY <1>1 DEF SzInv
<1>4. Len(SzTop.uses) < Len(szUses[szDicts[SzTop.dict].of])
  <2>1. PICK use : use = szDicts[SzTop.dict].uses[Len(SzTop.uses) + 1]
    OBVIOUS
  <2> QED BY <1>1, <2>1, NextField
<1>6. PICK s : s = szCalls
  OBVIOUS
<1>7. PICK t : t = szCalls'
  OBVIOUS
<1>8. s \in Seq(ReadCall) /\ s # <<>>
  BY <1>1, <1>6, TopReads
<1>9. /\ t \in Seq(ReadCall) /\ Len(t) = Len(s) /\ t # <<>>
      /\ \A i \in 1..Len(s) : t[i].dict = s[i].dict /\ t[i].from = s[i].from
      /\ \A i \in 1..Len(s) : i # Len(s) => t[i] = s[i]
      /\ t[Len(s)].uses = Append(s[Len(s)].uses, u)
  BY <1>6, <1>7, <1>8, ReadGoesOn
<1>10. SzTypeOK'
  BY <1>1, <1>2, <1>3, <1>7, <1>9 DEF SzTypeOK, ReadCall
<1>11. DictsInv' /\ ObjectsInv'
  BY <1>1, <1>3, DocumentStays, ObjectsStay
<1>12. StageInv'
  BY <1>1, <1>2, <1>3 DEF StageInv
<1>13. ReadOrder'
  BY <1>3, <1>6, <1>7, <1>9 DEF ReadingInv, ReadOrder
<1>14. BuiltFrom(Append(SzTop.uses, u), szDicts[SzTop.dict].of)
  <2>1. PICK o \in SzObjects : o = szDicts[SzTop.dict].of /\ BuiltFrom(SzTop.uses, o)
    BY <1>1, TopReads
  <2>2. szBuilt \in Seq(SzBuiltObject)
    BY <1>3 DEF SzTypeOK, SzBuiltObject
  <2> QED BY <1>1, <1>4, <2>1, <2>2, TopReads, BuildsMore
<1>15. ASSUME NEW i \in 1..Len(s), NEW c, c = t[i], NEW o, o = szDicts[t[i].dict].of
       PROVE  /\ c.dict \in 1..Len(szDicts)
              /\ BuiltFrom(c.uses, o)
              /\ i # 1 => (c.from = "reference" <=> o \in szRefs)
              /\ c.from = "reference" => szRecorded[o] = c.dict /\ szDone[o] = 0
              /\ i < Len(s) =>
                    /\ Len(c.uses) < Len(szUses[o])
                    /\ szDicts[t[i + 1].dict].of = szUses[o][Len(c.uses) + 1]
  <2>1. c.dict = s[i].dict /\ c.from = s[i].from /\ o = szDicts[s[i].dict].of
    BY <1>9, <1>15
  <2>2. c.dict \in 1..Len(szDicts)
    BY <1>3, <1>6, <2>1 DEF ReadingInv, ReadCalls, ReadsAs
  <2>3. i # 1 => (s[i].from = "reference" <=> o \in szRefs)
    BY <1>3, <1>6, <2>1 DEF ReadingInv, ReadCalls, ReadsAs
  <2>4. c.from = "reference" => szRecorded[o] = c.dict /\ szDone[o] = 0
    BY <1>3, <1>6, <2>1 DEF ReadingInv, ReadCalls, ReadsAs
  <2>5. i # 1 => (c.from = "reference" <=> o \in szRefs)
    BY <2>1, <2>3, Zenon
  <2>6. CASE i = Len(s)
    <3>1. c.uses = Append(SzTop.uses, u) /\ o = szDicts[SzTop.dict].of /\ ~(i < Len(s))
      BY <1>6, <1>9, <1>15, <2>1, <2>6 DEF SzTop
    <3> QED BY <1>14, <2>2, <2>4, <2>5, <3>1
  <2>7. CASE i # Len(s)
    <3>1. c = s[i]
      BY <1>9, <1>15, <2>7
    <3>2. i < Len(s) => i + 1 \in 1..Len(s)
      BY <1>8
    <3>3. i < Len(s) => t[i + 1].dict = s[i + 1].dict
      BY <1>9, <3>2
    <3>4. c = szCalls[i] /\ i \in 1..Len(szCalls) /\ o = szDicts[c.dict].of
      BY <1>6, <2>1, <3>1
    <3>5. /\ BuiltFrom(c.uses, o)
          /\ i < Len(szCalls) =>
                /\ Len(c.uses) < Len(szUses[o])
                /\ szDicts[szCalls[i + 1].dict].of = szUses[o][Len(c.uses) + 1]
      <4>1. ReadCalls
        BY <1>3 DEF ReadingInv
      <4> HIDE <1>15
      <4> QED BY <3>4, <4>1, EachCallReads, Zenon DEF ReadsAs
    <3> QED BY <1>6, <2>2, <2>4, <2>5, <3>3, <3>5
  <2> QED BY <2>6, <2>7
<1>16. ReadCalls'
  <2>1. ASSUME NEW i \in 1..Len(szCalls'), NEW c, c = szCalls'[i],
               NEW o, o = szDicts'[szCalls'[i].dict].of
        PROVE  /\ c.dict \in 1..Len(szDicts')
               /\ BuiltFrom(c.uses, o)'
               /\ i # 1 => (c.from = "reference" <=> o \in szRefs')
               /\ c.from = "reference" => szRecorded'[o] = c.dict /\ szDone'[o] = 0
               /\ i < Len(szCalls') =>
                     /\ Len(c.uses) < Len(szUses'[o])
                     /\ szDicts'[szCalls'[i + 1].dict].of = szUses'[o][Len(c.uses) + 1]
    <3>1. i \in 1..Len(s) /\ c = t[i] /\ o = szDicts[t[i].dict].of
      BY <1>2, <1>7, <1>9, <2>1
    <3>2. BuiltFrom(c.uses, o)'
      BY <1>1, <1>15, <3>1, ObjectsStay
    <3>3. /\ c.dict \in 1..Len(szDicts)
          /\ c.from = "reference" => szRecorded[o] = c.dict /\ szDone[o] = 0
      BY <1>15, <3>1
    <3>5. i < Len(s) => /\ Len(c.uses) < Len(szUses[o])
                        /\ szDicts[t[i + 1].dict].of = szUses[o][Len(c.uses) + 1]
      BY <1>15, <3>1
    <3>4. i # 1 => (c.from = "reference" <=> o \in szRefs)
      BY <1>15, <3>1
    <3> QED BY <1>2, <1>7, <1>9, <3>2, <3>3, <3>4, <3>5
  <2> QED BY <2>1 DEF ReadCalls, ReadsAs
<1>17. ReadStarted'
  BY <1>1, <1>2, <1>3, <1>6, <1>7, <1>9 DEF ReadingInv, ReadStarted
<1>18. szCalls'[1].dict = Len(szDicts') /\ szCalls'[1].from = "place"
  <2>1. 1 \in 1..Len(s)
    BY <1>8
  <2>2. s[1].dict = Len(szDicts) /\ s[1].from = "place"
    BY <1>3, <1>6 DEF ReadingInv
  <2>3. t[1].dict = s[1].dict /\ t[1].from = s[1].from
    BY <1>9, <2>1
  <2> QED BY <1>2, <1>7, <2>2, <2>3, Zenon
<1> QED BY <1>1, <1>7, <1>9, <1>10, <1>11, <1>12, <1>13, <1>16, <1>17, <1>18
        DEF SzInv, ReadingInv

\* A dictionary that was finished before the one that is read: a call.
LEMMA ReadsCall ==
    ASSUME SzInv, SzReads, NEW i \in 1..(SzTop.dict - 1), NEW from \in SzOrigins,
           NEW u \in SzObjects, szDicts[i].of = u,
           u = szUses[szDicts[SzTop.dict].of][Len(SzTop.uses) + 1],
           from = "reference" <=> u \in szRefs,
           u \in szRefs => szRecorded[u] = i /\ szDone[u] = 0,
           szCalls' = Append(szCalls, DeserializeCall(i, from)),
           szStarted' = szStarted \cup ({u} \cap szRefs), UNCHANGED szPc
    PROVE  SzInv'
<1>1. /\ szPc = "reading" /\ szPc' = "reading"
      /\ UNCHANGED szGraph /\ UNCHANGED szDocument /\ UNCHANGED szObjects
      /\ Len(SzTop.uses) < Len(szDicts[SzTop.dict].uses)
  BY DEF SzReads
<1>2. /\ szUses' = szUses /\ szRefs' = szRefs /\ szDicts' = szDicts
      /\ szRecorded' = szRecorded /\ szBuilt' = szBuilt /\ szDone' = szDone
  BY <1>1 DEF szGraph, szDocument, szObjects
<1>3. SzTypeOK /\ DictsInv /\ ObjectsInv /\ StageInv /\ ReadingInv
  BY <1>1 DEF SzInv
<1>4. Len(SzTop.uses) < Len(szUses[szDicts[SzTop.dict].of])
  <2>1. PICK use : use = szDicts[SzTop.dict].uses[Len(SzTop.uses) + 1]
    OBVIOUS
  <2> QED BY <1>1, <2>1, NextField
<1>5. PICK m \in Nat : m = Len(szDicts) /\ SzTop.dict \in 1..m
  BY <1>1, TopReads
<1>6. i \in Nat /\ i \in 1..m /\ i < SzTop.dict
  BY <1>5
<1>7. PICK c : c = DeserializeCall(i, from)
  OBVIOUS
<1>8. c \in ReadCall /\ c.dict = i /\ c.from = from /\ c.uses = <<>>
  BY <1>6, <1>7 DEF DeserializeCall, ReadCall
<1>9. PICK n \in Nat \ {0} : n = Len(szCalls)
  BY <1>1, TopReads
<1>10. PICK s : s = szCalls
  OBVIOUS
<1>11. PICK t : t = szCalls'
  OBVIOUS
<1>12. s \in Seq(ReadCall) /\ Len(s) = n /\ t = Append(s, c)
  BY <1>1, <1>7, <1>9, <1>10, <1>11, TopReads
<1>13. /\ t \in Seq(ReadCall) /\ Len(t) = n + 1 /\ t # <<>>
       /\ \A j \in 1..n : t[j] = s[j]
       /\ t[n + 1] = c
  <2>1. /\ Append(s, c) \in Seq(ReadCall) /\ Len(Append(s, c)) = Len(s) + 1
        /\ \A j \in 1..Len(s) : Append(s, c)[j] = s[j] /\ Append(s, c)[Len(s) + 1] = c
    BY <1>8, <1>12, AppendProperties
  <2> QED BY <1>8, <1>9, <1>12, <2>1
<1>14. SzTypeOK'
  <2>1. szStarted' \subseteq SzObjects
    BY <1>3 DEF SzTypeOK
  <2> QED BY <1>1, <1>2, <1>3, <1>11, <1>13, <2>1 DEF SzTypeOK, ReadCall
<1>15. DictsInv' /\ ObjectsInv'
  BY <1>1, <1>3, DocumentStays, ObjectsStay
<1>16. StageInv'
  BY <1>1, <1>2, <1>3 DEF StageInv
<1>17. SzTop = s[n]
  BY <1>9, <1>10 DEF SzTop
<1>18. ReadOrder'
  <2>1. \A j \in 1..n : s[n].dict <= s[j].dict /\ s[j].dict \in Nat
    <3>1. ASSUME NEW j \in 1..n PROVE s[n].dict <= s[j].dict /\ s[j].dict \in Nat
      <4>1. s[j] \in ReadCall /\ s[n] \in ReadCall
        BY <1>12, ElementOfSeq
      <4>2. s[j].dict \in Nat /\ s[n].dict \in Nat
        BY <4>1 DEF ReadCall
      <4>3. j < n => s[n].dict < s[j].dict
        BY <1>3, <1>9, <1>10 DEF ReadingInv, ReadOrder
      <4> QED BY <4>2, <4>3
    <3> QED BY <3>1
  <2>2. ASSUME NEW j \in 1..(n + 1), NEW k \in 1..(n + 1), j < k
        PROVE  t[k].dict < t[j].dict
    <3>1. j \in 1..n /\ t[j] = s[j]
      BY <1>13, <2>2
    <3>2. CASE k = n + 1
      <4>1. t[k] = c /\ t[k].dict = i
        BY <1>8, <1>13, <3>2
      <4>2. n \in 1..n /\ i < s[n].dict /\ s[n].dict \in Nat
        <5>1. n \in 1..n
          OBVIOUS
        <5> QED BY <1>6, <1>17, <2>1, <5>1
      <4> QED BY <1>6, <2>1, <3>1, <4>1, <4>2
    <3>3. CASE k # n + 1
      <4>1. k \in 1..n /\ t[k] = s[k]
        BY <1>13, <3>3
      <4> QED BY <1>3, <1>9, <1>10, <2>2, <3>1, <4>1 DEF ReadingInv, ReadOrder
    <3> QED BY <3>2, <3>3
  <2> QED BY <1>11, <1>13, <2>2 DEF ReadOrder
<1>19. ASSUME NEW j \in 1..(n + 1), NEW e, e = t[j], NEW o, o = szDicts[e.dict].of
       PROVE  /\ e.dict \in 1..m
              /\ BuiltFrom(e.uses, o)
              /\ j # 1 => (e.from = "reference" <=> o \in szRefs)
              /\ e.from = "reference" => szRecorded[o] = e.dict /\ szDone[o] = 0
              /\ j < n + 1 =>
                    /\ Len(e.uses) < Len(szUses[o])
                    /\ szDicts[t[j + 1].dict].of = szUses[o][Len(e.uses) + 1]
  <2>1. CASE j = n + 1
    <3>1. e = c /\ o = u /\ ~(j < n + 1)
      BY <1>8, <1>13, <1>19, <2>1
    <3>2. BuiltFrom(e.uses, o)
      <4>1. szUses[u] \in Seq(SzObjects)
        BY <1>3 DEF SzTypeOK
      <4> QED BY <1>8, <3>1, <4>1 DEF BuiltFrom
    <3>3. e.from = "reference" <=> o \in szRefs
      BY <1>8, <3>1
    <3> QED BY <1>6, <1>8, <3>1, <3>2, <3>3
  <2>2. CASE j # n + 1
    <3>1. j \in 1..n /\ e = szCalls[j] /\ j \in 1..Len(szCalls)
      BY <1>9, <1>10, <1>13, <1>19, <2>2
    <3>2. ReadCalls
      BY <1>3 DEF ReadingInv
    <3>3. o = szDicts[e.dict].of
      BY <1>19
    <3>6. ReadsAs(j, e, o)
      BY <3>1, <3>2, <3>3, EachCallReads
    <3>7. /\ e.dict \in 1..Len(szDicts)
          /\ BuiltFrom(e.uses, o)
          /\ e.from = "reference" => szRecorded[o] = e.dict /\ szDone[o] = 0
          /\ j < Len(szCalls) =>
                /\ Len(e.uses) < Len(szUses[o])
                /\ szDicts[szCalls[j + 1].dict].of = szUses[o][Len(e.uses) + 1]
      BY <3>6 DEF ReadsAs
    <3>8. j # 1 => (e.from = "reference" <=> o \in szRefs)
      BY <3>6 DEF ReadsAs
    <3>4. CASE j = n
      <4>1. e = SzTop /\ t[j + 1] = c
        BY <1>9, <1>10, <1>13, <3>1, <3>4 DEF SzTop
      <4>2. /\ Len(e.uses) < Len(szUses[o])
            /\ szDicts[t[j + 1].dict].of = szUses[o][Len(e.uses) + 1]
        BY <1>4, <1>8, <1>19, <4>1
      <4> QED BY <1>5, <3>7, <3>8, <4>2
    <3>5. CASE j # n
      <4>1. j < n /\ j + 1 \in 1..n
        BY <3>1, <3>5
      <4>2. t[j + 1] = szCalls[j + 1]
        BY <1>10, <1>13, <4>1
      <4> QED BY <1>5, <1>9, <3>7, <3>8, <4>1, <4>2
    <3> QED BY <3>4, <3>5
  <2> QED BY <2>1, <2>2
<1>20. ReadCalls'
  <2>1. ASSUME NEW j \in 1..Len(szCalls')
        PROVE  ReadsAs(j, szCalls[j], szDicts[szCalls[j].dict].of)'
    <3>1. PICK e : e = szCalls'[j]
      OBVIOUS
    <3>2. PICK o : o = szDicts'[e.dict].of
      OBVIOUS
    <3>3. j \in 1..(n + 1) /\ e = t[j] /\ o = szDicts[e.dict].of
      BY <1>2, <1>11, <1>13, <3>1, <3>2
    <3>4. BuiltFrom(e.uses, o)'
      BY <1>1, <1>19, <3>3, ObjectsStay
    <3>5. /\ e.dict \in 1..m
          /\ e.from = "reference" => szRecorded[o] = e.dict /\ szDone[o] = 0
      BY <1>19, <3>3
    <3>6. j < n + 1 => /\ Len(e.uses) < Len(szUses[o])
                       /\ szDicts[t[j + 1].dict].of = szUses[o][Len(e.uses) + 1]
      BY <1>19, <3>3
    <3>7. j # 1 => (e.from = "reference" <=> o \in szRefs)
      BY <1>19, <3>3
    <3>8. ReadsAs(j, e, o)'
      BY <1>2, <1>5, <1>11, <1>13, <3>4, <3>5, <3>6, <3>7 DEF ReadsAs
    <3> QED BY <3>1, <3>2, <3>8 DEF ReadsAs
  <2> QED BY <2>1 DEF ReadCalls
<1>21. ReadStarted'
  <2>1. ASSUME NEW q \in szStarted'
        PROVE  \/ szDone[q] # 0
               \/ \E j \in 1..(n + 1) : /\ t[j].from = "reference"
                                        /\ szDicts[t[j].dict].of = q
    <3>1. CASE q \in szStarted
      <4>1. \/ szDone[q] # 0
            \/ \E j \in 1..n : s[j].from = "reference" /\ szDicts[s[j].dict].of = q
        BY <1>3, <1>9, <1>10, <3>1 DEF ReadingInv, ReadStarted
      <4>2. \A j \in 1..n : j \in 1..(n + 1)
        OBVIOUS
      <4> QED BY <1>13, <4>1, <4>2
    <3>2. CASE q = u /\ u \in szRefs
      <4>1. n + 1 \in 1..(n + 1)
        OBVIOUS
      <4>2. t[n + 1].from = "reference" /\ szDicts[t[n + 1].dict].of = q
        BY <1>8, <1>13, <3>2
      <4> QED BY <4>1, <4>2
    <3> QED BY <2>1, <3>1, <3>2
  <2> QED BY <1>2, <1>11, <1>13, <2>1 DEF ReadStarted
<1>22. szCalls'[1].dict = Len(szDicts') /\ szCalls'[1].from = "place"
  <2>1. 1 \in 1..n
    OBVIOUS
  <2> QED BY <1>2, <1>3, <1>10, <1>11, <1>13, <2>1 DEF ReadingInv
<1> QED BY <1>1, <1>11, <1>13, <1>14, <1>15, <1>16, <1>18, <1>20, <1>21, <1>22
        DEF SzInv, ReadingInv

\* The outcome that is refused does not occur: what is in progress uses what is
\* asked for, not the other way round, and references to nothing are not written.
LEMMA ReferencesResolve ==
    ASSUME SzInv, SzReads, NEW use,
           use = szDicts[SzTop.dict].uses[Len(SzTop.uses) + 1],
           use.at = 0, szDone[use.of] = 0
    PROVE  /\ szRecorded[use.of] \in 1..(SzTop.dict - 1)
           /\ szDicts[szRecorded[use.of]].of = use.of
           /\ use.of \in szRefs /\ use.of \notin szStarted
<1>1. szPc = "reading" /\ Len(SzTop.uses) < Len(szDicts[SzTop.dict].uses)
  BY DEF SzReads
<1>2. DictsInv /\ ReadingInv
  BY <1>1 DEF SzInv
<1>3. PICK u \in SzObjects : u = use.of /\ szDone[u] = 0
  BY <1>1, NextField
<1>4. u \in szRefs /\ szRecorded[u] \in 1..(SzTop.dict - 1)
  BY <1>1, <1>3, NextField DEF PlaceFits
<1>5. PICK k \in Nat : k = SzTop.dict
  BY <1>1, TopReads
<1>6. PICK r \in 1..(k - 1) : r = szRecorded[u]
  BY <1>4, <1>5
<1>7. szDicts[r].of = u
  BY <1>2, <1>6 DEF DictsInv
<1>8. ASSUME u \in szStarted
      PROVE  FALSE
  <2>1. PICK i \in 1..Len(szCalls) : /\ szCalls[i].from = "reference"
                                     /\ szDicts[szCalls[i].dict].of = u
    BY <1>2, <1>3, <1>8 DEF ReadingInv, ReadStarted
  <2>2. szCalls[i].dict = r
    <3>1. ReadCalls
      BY <1>2 DEF ReadingInv
    <3>2. szRecorded[u] = szCalls[i].dict
      BY <2>1, <3>1, EachCallReads DEF ReadsAs
    <3> QED BY <1>6, <3>2
  <2>3. PICK n \in Nat \ {0} : n = Len(szCalls) /\ SzTop = szCalls[n]
    BY <1>1, TopReads
  <2>4. i \in 1..n /\ n \in 1..n
    BY <2>3
  <2>5. i < n => k < r
    BY <1>2, <1>5, <2>2, <2>3, <2>4 DEF ReadingInv, ReadOrder
  <2>6. i = n => k = r
    BY <1>5, <2>2, <2>3
  <2> QED BY <1>5, <1>6, <2>4, <2>5, <2>6
<1> QED BY <1>3, <1>4, <1>6, <1>7, <1>8

LEMMA ReadsKeep == SzInv /\ SzReads => SzInv'
<1> SUFFICES ASSUME SzInv, SzReads PROVE SzInv'
  OBVIOUS
<1>1. szPc = "reading" /\ Len(SzTop.uses) < Len(szDicts[SzTop.dict].uses)
  BY DEF SzReads
<1>2. DictsInv /\ ObjectsInv
  BY DEF SzInv
<1>3. PICK use : use = szDicts[SzTop.dict].uses[Len(SzTop.uses) + 1]
  OBVIOUS
<1>4. /\ use \in SzPlace /\ use.of \in SzObjects /\ use.at \in Nat
      /\ PlaceFits(use, use.of, SzTop.dict)
      /\ use.of = szUses[szDicts[SzTop.dict].of][Len(SzTop.uses) + 1]
  BY <1>1, <1>3, NextField
<1>5. PICK u \in SzObjects : u = use.of
  BY <1>4
<1>6. CASE /\ use.at # 0
           /\ szCalls' = Append(szCalls, DeserializeCall(use.at, "place"))
           /\ UNCHANGED <<szPc, szStarted>>
  <2>1. u \notin szRefs /\ use.at \in 1..(SzTop.dict - 1) /\ szDicts[use.at].of = u
    BY <1>4, <1>5, <1>6 DEF PlaceFits
  <2>2. PICK i \in 1..(SzTop.dict - 1) : i = use.at
    BY <2>1
  <2>3. PICK from \in SzOrigins : from = "place"
    BY DEF SzOrigins
  <2>4. szStarted' = szStarted \cup ({u} \cap szRefs) /\ szPc' = szPc
    BY <1>6, <2>1
  <2>5. szCalls' = Append(szCalls, DeserializeCall(i, from))
    BY <1>6, <2>2, <2>3
  <2>6. from = "reference" <=> u \in szRefs
    BY <2>1, <2>3
  <2>7. szDicts[i].of = u /\ u = szUses[szDicts[SzTop.dict].of][Len(SzTop.uses) + 1]
    BY <1>4, <1>5, <2>1, <2>2
  <2> QED BY <2>1, <2>4, <2>5, <2>6, <2>7, ReadsCall
<1>7. CASE /\ szDone[use.of] # 0
           /\ SzContinue(szDone[use.of]) /\ UNCHANGED <<szPc, szStarted>>
  <2>1. szDone[u] \in 1..Len(szBuilt) /\ szBuilt[szDone[u]].of = u
    BY <1>2, <1>5, <1>7 DEF ObjectsInv
  <2>2. PICK k \in 1..Len(szBuilt) : k = szDone[u]
    BY <2>1
  <2>3. szBuilt[k].of = szUses[szDicts[SzTop.dict].of][Len(SzTop.uses) + 1]
    <3>1. szBuilt[k].of = u
      BY <2>1, <2>2
    <3> QED BY <1>4, <1>5, <3>1
  <2>4. SzContinue(k) /\ UNCHANGED <<szPc, szStarted>>
    BY <1>5, <1>7, <2>2
  <2> QED
    <3>1. k \in Nat
      OBVIOUS
    <3> QED BY <2>3, <2>4, <3>1, ReadsBuilt
<1>8. CASE /\ use.at = 0 /\ szDone[use.of] = 0
           /\ szStarted' = szStarted \cup {use.of}
           /\ IF use.of \in szStarted \/ szRecorded[use.of] = 0
              THEN SzRaise("failed")
              ELSE /\ szCalls' = Append(szCalls,
                                        DeserializeCall(szRecorded[use.of], "reference"))
                   /\ UNCHANGED szPc
  <2>1. /\ szRecorded[u] \in 1..(SzTop.dict - 1) /\ szDicts[szRecorded[u]].of = u
        /\ u \in szRefs /\ u \notin szStarted
    BY <1>3, <1>5, <1>8, ReferencesResolve
  <2>2. PICK i \in 1..(SzTop.dict - 1) : i = szRecorded[u]
    BY <2>1
  <2>3. PICK from \in SzOrigins : from = "reference"
    BY DEF SzOrigins
  <2>4. szRecorded[u] # 0
    BY <2>1
  <2>5. szCalls' = Append(szCalls, DeserializeCall(i, from)) /\ szPc' = szPc
    BY <1>5, <1>8, <2>1, <2>2, <2>3, <2>4
  <2>6. szStarted' = szStarted \cup ({u} \cap szRefs)
    BY <1>5, <1>8, <2>1
  <2>7. /\ szDicts[i].of = u /\ u = szUses[szDicts[SzTop.dict].of][Len(SzTop.uses) + 1]
        /\ szRecorded[u] = i /\ szDone[u] = 0
    BY <1>4, <1>5, <1>8, <2>1, <2>2
  <2>8. from = "reference" <=> u \in szRefs
    BY <2>1, <2>3
  <2> QED BY <2>5, <2>6, <2>7, <2>8, ReadsCall
<1> QED BY <1>3, <1>6, <1>7, <1>8 DEF SzReads

\* One more object leaves what is built as it is.
ObjectsGrow(b) == szBuilt' = Append(szBuilt, b) /\ UNCHANGED szGraph

LEMMA BuiltStays ==
    ASSUME SzTypeOK, NEW b \in SzBuiltObject, ObjectsGrow(b)
    PROVE  /\ szBuilt' \in Seq(SzBuiltObject) /\ Len(szBuilt') = Len(szBuilt) + 1
           /\ Len(szBuilt) \in Nat
           /\ szBuilt'[Len(szBuilt) + 1] = b
           /\ \A i \in 1..Len(szBuilt) : szBuilt'[i] = szBuilt[i]
           /\ \A uses, o : BuiltFrom(uses, o) => BuiltFrom(uses, o)'
<1>1. szBuilt \in Seq(SzBuiltObject) /\ szUses' = szUses
  BY DEF SzTypeOK, SzBuiltObject, ObjectsGrow, szGraph
<1>2. PICK m \in Nat : m = Len(szBuilt)
  BY <1>1
<1>3. /\ szBuilt' \in Seq(SzBuiltObject) /\ Len(szBuilt') = m + 1 /\ szBuilt'[m + 1] = b
      /\ \A i \in 1..m : szBuilt'[i] = szBuilt[i]
  BY <1>1, <1>2, AppendProperties DEF ObjectsGrow
<1>4. ASSUME NEW uses, NEW o, BuiltFrom(uses, o)
      PROVE  BuiltFrom(uses, o)'
  <2>1. \A k : k \in 1..m => k \in 1..(m + 1)
    OBVIOUS
  <2> QED BY <1>1, <1>2, <1>3, <1>4, <2>1 DEF BuiltFrom
<1> QED BY <1>1, <1>2, <1>3, <1>4

LEMMA BuiltFollows ==
    ASSUME SzTypeOK, NEW b \in SzBuiltObject, ObjectsGrow(b),
           NEW uses \in Seq(Nat), NEW o \in SzObjects, BuiltFrom(uses, o),
           Len(uses) < Len(szUses[o]), b.of = szUses[o][Len(uses) + 1],
           NEW u, u = Len(szBuilt) + 1
    PROVE  BuiltFrom(Append(uses, u), o)'
<1>1. szUses' = szUses /\ szUses[o] \in Seq(SzObjects)
  BY DEF SzTypeOK, ObjectsGrow, szGraph
<1>2. BuiltFrom(uses, o)' /\ szBuilt'[u] = b /\ u \in 1..Len(szBuilt') /\ u \in Nat
  BY BuiltStays
<1>3. /\ Len(Append(uses, u)) = Len(uses) + 1 /\ Len(szUses[o]) \in Nat
      /\ Len(uses) \in Nat
  BY <1>1, <1>2
<1>4. ASSUME NEW k \in 1..(Len(uses) + 1)
      PROVE  /\ Append(uses, u)[k] \in 1..Len(szBuilt')
             /\ szBuilt'[Append(uses, u)[k]].of = szUses[o][k]
  <2>1. CASE k = Len(uses) + 1
    <3>1. Append(uses, u)[k] = u
      BY <1>2, <2>1
    <3> QED BY <1>2, <2>1, <3>1
  <2>2. CASE k # Len(uses) + 1
    <3>1. k \in 1..Len(uses) /\ Append(uses, u)[k] = uses[k]
      BY <1>2, <1>3, <2>2
    <3> QED BY <1>1, <1>2, <3>1 DEF BuiltFrom
  <2> QED BY <2>1, <2>2
<1>5. Len(Append(uses, u)) <= Len(szUses[o])
  BY <1>3
<1> QED BY <1>1, <1>3, <1>4, <1>5 DEF BuiltFrom

\* What a built object means for the objects.
LEMMA BuildsObject ==
    ASSUME SzInv, SzBuilds
    PROVE  \E b \in SzBuiltObject :
              /\ b.of = szDicts[SzTop.dict].of /\ ObjectsGrow(b)
              /\ szDone' \in [SzObjects -> Nat]
              /\ \A q \in SzObjects : q # b.of => szDone'[q] = szDone[q]
              /\ IF SzTop.from = "reference"
                 THEN szDone'[b.of] = Len(szBuilt) + 1 /\ szDone[b.of] = 0
                      /\ b.of \in szRefs \ {SzRoot}
                 ELSE szDone' = szDone /\ b.of \notin szRefs \ {SzRoot}
              /\ SzReturn(Len(szBuilt) + 1, "read")
              /\ ObjectsInv'
<1>1. /\ szPc = "reading" /\ UNCHANGED szGraph /\ UNCHANGED szDocument
      /\ Len(SzTop.uses) = Len(szDicts[SzTop.dict].uses)
  BY DEF SzBuilds
<1>2. SzTypeOK /\ DictsInv /\ ObjectsInv /\ StageInv /\ ReadingInv
  BY <1>1 DEF SzInv
<1>3. PICK o \in SzObjects : /\ o = szDicts[SzTop.dict].of /\ BuiltFrom(SzTop.uses, o)
                             /\ Len(SzTop.uses) = Len(szUses[o])
  BY <1>1, TopReads
<1>4. PICK m : m = Len(szBuilt)
  OBVIOUS
<1>5. m \in Nat
  BY <1>2, <1>4 DEF SzTypeOK
<1>6. PICK b : b = [of |-> o, uses |-> SzTop.uses]
  OBVIOUS
<1>7. b \in SzBuiltObject /\ b.of = o /\ b.uses = SzTop.uses
  BY <1>1, <1>6, TopReads DEF SzBuiltObject
<1>8. ObjectsGrow(b)
  BY <1>1, <1>3, <1>6 DEF SzBuilds, ObjectsGrow
<1>9. /\ szBuilt' \in Seq(SzBuiltObject) /\ Len(szBuilt') = m + 1 /\ szBuilt'[m + 1] = b
      /\ \A i \in 1..m : szBuilt'[i] = szBuilt[i]
      /\ \A uses, q : BuiltFrom(uses, q) => BuiltFrom(uses, q)'
  BY <1>2, <1>4, <1>7, <1>8, BuiltStays
<1>10. szDone \in [SzObjects -> Nat]
  BY <1>2 DEF SzTypeOK
<1>11. szDone' = IF SzTop.from = "reference" THEN [szDone EXCEPT ![o] = m + 1] ELSE szDone
  BY <1>3, <1>4 DEF SzBuilds, Record
<1>12. PICK n \in Nat \ {0} : n = Len(szCalls) /\ SzTop = szCalls[n] /\ n \in 1..Len(szCalls)
  <2>1. PICK n \in Nat \ {0} : n = Len(szCalls) /\ SzTop = szCalls[n]
    BY <1>1, TopReads
  <2>2. n \in 1..n
    OBVIOUS
  <2> QED BY <2>1, <2>2
<1>13. ReadsAs(n, SzTop, o)
  <2>1. ReadCalls
    BY <1>2 DEF ReadingInv
  <2> QED BY <1>3, <1>12, <2>1, EachCallReads
<1>14. SzTop.from = "reference" => szDone[o] = 0 /\ o \in szRefs \ {SzRoot}
  <2>1. SUFFICES ASSUME SzTop.from = "reference"
                 PROVE  szDone[o] = 0 /\ o \in szRefs \ {SzRoot}
    OBVIOUS
  <2>2. szRecorded[o] = SzTop.dict /\ SzTop.dict \in 1..Len(szDicts) /\ szDone[o] = 0
    BY <1>13, <2>1 DEF ReadsAs
  <2>3. szRecorded[o] # 0
    BY <2>2
  <2> QED BY <1>2, <2>2, <2>3 DEF DictsInv
<1>15. SzTop.from # "reference" => o \notin szRefs \ {SzRoot}
  <2>1. CASE n = 1
    <3>1. SzTop.dict = Len(szDicts)
      BY <1>2, <1>12, <2>1 DEF ReadingInv
    <3> QED BY <1>1, <1>2, <1>3, <3>1 DEF StageInv
  <2>2. CASE n # 1
    <3>1. SzTop.from = "reference" <=> o \in szRefs
      BY <1>13, <2>2 DEF ReadsAs
    <3> QED BY <3>1
  <2> QED BY <2>1, <2>2
<1>16. /\ szDone' \in [SzObjects -> Nat]
       /\ \A q \in SzObjects : q # o => szDone'[q] = szDone[q]
       /\ SzTop.from = "reference" => szDone'[o] = m + 1
       /\ SzTop.from # "reference" => szDone' = szDone
  BY <1>5, <1>10, <1>11
<1>17. ASSUME NEW i \in 1..(m + 1), NEW e, e = szBuilt'[i]
       PROVE  /\ Len(e.uses) = Len(szUses[e.of]) /\ BuiltFrom(e.uses, e.of)'
              /\ e.of \in szRefs \ {SzRoot} => szDone'[e.of] = i
  <2>1. CASE i = m + 1
    <3>1. e = b
      BY <1>9, <1>17, <2>1
    <3>2. BuiltFrom(e.uses, e.of)'
      BY <1>3, <1>7, <1>9, <3>1
    <3>3. e.of \in szRefs \ {SzRoot} => szDone'[e.of] = i
      BY <1>7, <1>15, <1>16, <2>1, <3>1
    <3> QED BY <1>3, <1>7, <3>1, <3>2, <3>3
  <2>2. CASE i # m + 1
    <3>1. i \in 1..m /\ e = szBuilt[i] /\ i # 0
      BY <1>5, <1>9, <1>17, <2>2
    <3>2. szBuilt \in Seq(SzBuiltObject)
      BY <1>2 DEF SzTypeOK, SzBuiltObject
    <3>3. e \in SzBuiltObject
      BY <1>4, <3>1, <3>2, ElementOfSeq
    <3>4. e.of \in SzObjects
      BY <3>3 DEF SzBuiltObject
    <3>5. /\ Len(e.uses) = Len(szUses[e.of]) /\ BuiltFrom(e.uses, e.of)
          /\ e.of \in szRefs \ {SzRoot} => szDone[e.of] = i
      BY <1>2, <1>4, <3>1 DEF ObjectsInv
    <3>6. BuiltFrom(e.uses, e.of)'
      BY <1>9, <3>5
    <3>7. e.of \in szRefs \ {SzRoot} => szDone'[e.of] = i
      <4>1. CASE e.of = o /\ SzTop.from = "reference"
        BY <1>14, <3>1, <3>5, <4>1
      <4>2. CASE e.of # o \/ SzTop.from # "reference"
        BY <1>16, <3>4, <3>5, <4>2
      <4> QED BY <4>1, <4>2
    <3> QED BY <3>5, <3>6, <3>7
  <2> QED BY <2>1, <2>2
<1>18. ASSUME NEW q \in SzObjects, szDone'[q] # 0
       PROVE  /\ q \in szRefs \ {SzRoot} /\ szDone'[q] \in 1..(m + 1)
              /\ szBuilt'[szDone'[q]].of = q
  <2>1. CASE q = o /\ SzTop.from = "reference"
    <3>1. szDone'[q] = m + 1 /\ m + 1 \in 1..(m + 1)
      BY <1>5, <1>16, <2>1
    <3> QED BY <1>7, <1>9, <1>14, <2>1, <3>1
  <2>2. CASE q # o \/ SzTop.from # "reference"
    <3>1. szDone'[q] = szDone[q]
      BY <1>16, <2>2
    <3>2. /\ q \in szRefs \ {SzRoot} /\ szDone[q] \in 1..m
          /\ szBuilt[szDone[q]].of = q
      BY <1>2, <1>4, <1>18, <3>1 DEF ObjectsInv
    <3>3. szDone[q] \in 1..(m + 1)
      BY <1>5, <3>2
    <3> QED BY <1>9, <3>1, <3>2, <3>3
  <2> QED BY <2>1, <2>2
<1>19. ObjectsInv'
  <2>1. szUses' = szUses /\ szRefs' = szRefs
    BY <1>1 DEF szGraph
  <2>2. ASSUME NEW i \in 1..Len(szBuilt'), NEW e, e = szBuilt'[i]
        PROVE  /\ Len(e.uses) = Len(szUses'[e.of]) /\ BuiltFrom(e.uses, e.of)'
               /\ e.of \in szRefs' \ {SzRoot} => szDone'[e.of] = i
    BY <1>9, <1>17, <2>1, <2>2
  <2> QED BY <1>9, <1>18, <2>1, <2>2 DEF ObjectsInv
<1>20. SzReturn(Len(szBuilt) + 1, "read")
  BY DEF SzBuilds
<1> QED BY <1>3, <1>4, <1>7, <1>8, <1>14, <1>15, <1>16, <1>19, <1>20

\* The object of a call around it is built: it has one more of its fields.
LEMMA BuildsInside ==
    ASSUME SzInv, SzBuilds, Len(szCalls) # 1
    PROVE  SzInv'
<1>1. /\ szPc = "reading" /\ szStarted' = szStarted
      /\ UNCHANGED szGraph /\ UNCHANGED szDocument
  BY DEF SzBuilds
<1>2. /\ szUses' = szUses /\ szRefs' = szRefs /\ szDicts' = szDicts
      /\ szRecorded' = szRecorded
  BY <1>1 DEF szGraph, szDocument
<1>3. SzTypeOK /\ DictsInv /\ ObjectsInv /\ StageInv /\ ReadingInv
  BY <1>1 DEF SzInv
<1>4. PICK m : m = Len(szBuilt)
  OBVIOUS
<1>5. PICK b \in SzBuiltObject :
         /\ b.of = szDicts[SzTop.dict].of /\ ObjectsGrow(b)
         /\ szDone' \in [SzObjects -> Nat]
         /\ \A q \in SzObjects : q # b.of => szDone'[q] = szDone[q]
         /\ IF SzTop.from = "reference"
            THEN szDone'[b.of] = m + 1 /\ szDone[b.of] = 0
                 /\ b.of \in szRefs \ {SzRoot}
            ELSE szDone' = szDone /\ b.of \notin szRefs \ {SzRoot}
         /\ SzReturn(m + 1, "read")
         /\ ObjectsInv'
  BY <1>4, BuildsObject
<1>6. PICK o \in SzObjects : o = b.of
  BY DEF SzBuiltObject
<1>7. /\ szBuilt' \in Seq(SzBuiltObject) /\ Len(szBuilt') = m + 1 /\ szBuilt'[m + 1] = b
      /\ m \in Nat
      /\ \A i \in 1..m : szBuilt'[i] = szBuilt[i]
      /\ \A uses, q : BuiltFrom(uses, q) => BuiltFrom(uses, q)'
  BY <1>3, <1>4, <1>5, BuiltStays
<1>8. PICK k \in Nat \ {0} : k + 1 = Len(szCalls)
  <2>1. PICK n \in Nat \ {0} : n = Len(szCalls)
    BY <1>1, TopReads
  <2>2. n - 1 \in Nat \ {0} /\ n - 1 + 1 = n
    BY <2>1
  <2> QED BY <2>1, <2>2
<1>9. PICK s : s = szCalls
  OBVIOUS
<1>10. PICK t : t = szCalls'
  OBVIOUS
<1>11. s \in Seq(ReadCall) /\ Len(s) = k + 1 /\ SzTop = s[k + 1] /\ m + 1 \in Nat
  BY <1>1, <1>7, <1>8, <1>9, TopReads
<1>12. /\ szPc' = szPc
       /\ t \in Seq(ReadCall) /\ Len(t) = k /\ t # <<>>
       /\ \A i \in 1..k : t[i].dict = s[i].dict /\ t[i].from = s[i].from
       /\ \A i \in 1..k : i # k => t[i] = s[i]
       /\ t[k].uses = Append(s[k].uses, m + 1)
  <2>1. PICK u : u = m + 1
    OBVIOUS
  <2>2. Len(szCalls) - 1 = k /\ k # 0 /\ k \in 1..Len(s)
    BY <1>9, <1>11
  <2>3. t = Returned(s, k, u) /\ szPc' = szPc
    BY <1>5, <1>9, <1>10, <2>1, <2>2 DEF SzReturn, Returned
  <2>4. t = Returned(s, k, u) /\ u \in Nat /\ s \in Seq(ReadCall) /\ k \in 1..Len(s)
    BY <1>11, <2>1, <2>2, <2>3
  <2>5. /\ t \in Seq(ReadCall) /\ Len(t) = k /\ t # <<>>
        /\ \A i \in 1..k : t[i].dict = s[i].dict /\ t[i].from = s[i].from
        /\ \A i \in 1..k : i # k => t[i] = s[i]
        /\ t[k].uses = Append(s[k].uses, u)
    BY ONLY <2>4, ReadReturns
  <2> QED BY <2>1, <2>3, <2>5
<1>13. SzTypeOK'
  BY <1>1, <1>2, <1>3, <1>5, <1>7, <1>10, <1>12 DEF SzTypeOK, ReadCall, SzBuiltObject
<1>14. DictsInv'
  BY <1>1, <1>3, DocumentStays
<1>15. o # SzRoot
  <2>1. 1 \in 1..(k + 1) /\ k + 1 \in 1..(k + 1) /\ 1 < k + 1
    OBVIOUS
  <2>2. SzTop.dict < Len(szDicts)
    BY <1>3, <1>8, <1>9, <1>11, <2>1 DEF ReadingInv, ReadOrder
  <2>3. SzTop.dict \in 1..Len(szDicts)
    BY <1>1, TopReads
  <2> QED BY <1>3, <1>5, <1>6, <2>2, <2>3 DEF DictsInv
<1>16. StageInv'
  <2>1. \A i \in 1..(m + 1) : szBuilt'[i].of # SzRoot
    <3>1. \A i \in 1..(m + 1) : i \in 1..m \/ i = m + 1
      BY <1>7
    <3> QED BY <1>1, <1>3, <1>4, <1>6, <1>7, <1>15, <3>1 DEF StageInv
  <2> QED BY <1>1, <1>2, <1>3, <1>7, <1>12, <2>1 DEF StageInv
<1>17. ReadOrder'
  <2>1. ASSUME NEW i \in 1..k, NEW j \in 1..k, i < j
        PROVE  t[j].dict < t[i].dict
    <3>1. i \in 1..(k + 1) /\ j \in 1..(k + 1)
      OBVIOUS
    <3>2. s[j].dict < s[i].dict
      BY <1>3, <1>9, <1>11, <2>1, <3>1 DEF ReadingInv, ReadOrder
    <3> QED BY <1>12, <3>2
  <2> QED BY <1>10, <1>12, <2>1 DEF ReadOrder
<1>18. ASSUME NEW i \in 1..k
       PROVE  /\ s[i] \in ReadCall /\ s[i].dict \in Nat /\ s[i].uses \in Seq(Nat)
              /\ s[k + 1].dict < s[i].dict
              /\ ReadsAs(i, s[i], szDicts[s[i].dict].of)
  <2>1. i \in 1..(k + 1) /\ k + 1 \in 1..(k + 1) /\ i < k + 1
    OBVIOUS
  <2>2. s[i] \in ReadCall
    BY <1>11, <2>1, ElementOfSeq
  <2>3. s[k + 1].dict < s[i].dict
    BY <1>3, <1>9, <1>11, <2>1 DEF ReadingInv, ReadOrder
  <2>4. ReadsAs(i, s[i], szDicts[s[i].dict].of)
    BY <1>3, <1>8, <1>9, <2>1 DEF ReadingInv, ReadCalls
  <2> QED BY <2>2, <2>3, <2>4 DEF ReadCall
<1>19. ReadCalls'
  <2>1. ASSUME NEW i \in 1..Len(szCalls')
        PROVE  ReadsAs(i, szCalls[i], szDicts[szCalls[i].dict].of)'
    <3>1. i \in 1..k /\ i < k + 1 /\ i \in Nat
      BY <1>10, <1>12, <2>1
    <3>2. PICK e : e = t[i]
      OBVIOUS
    <3>3. PICK c \in ReadCall : c = s[i] /\ e.dict = c.dict /\ e.from = c.from
      BY <1>12, <1>18, <3>1, <3>2
    <3>4. PICK q : q = szDicts[c.dict].of
      OBVIOUS
    <3>5. ReadsAs(i, c, q) /\ c.uses \in Seq(Nat) /\ c.dict \in Nat
      BY <1>18, <3>1, <3>3, <3>4
    <3>6. /\ c.dict \in 1..Len(szDicts) /\ BuiltFrom(c.uses, q)
          /\ c.from = "reference" => szRecorded[q] = c.dict /\ szDone[q] = 0
          /\ Len(c.uses) < Len(szUses[q])
          /\ szDicts[s[i + 1].dict].of = szUses[q][Len(c.uses) + 1]
      BY <1>8, <1>9, <3>1, <3>5 DEF ReadsAs
    <3>7. i # 1 => (c.from = "reference" <=> q \in szRefs)
      BY <3>5 DEF ReadsAs
    <3>8. q \in SzObjects
      <4>1. szDicts \in Seq(SzDict)
        BY <1>1, TopReads
      <4>2. szDicts[c.dict] \in SzDict
        BY <3>6, <4>1, ElementOfSeq
      <4> QED BY <3>4, <4>2 DEF SzDict
    <3>9. e.from = "reference" => szDone'[q] = 0
      <4>1. SUFFICES ASSUME e.from = "reference" PROVE szDone'[q] = 0
        OBVIOUS
      <4>2. szRecorded[q] = c.dict /\ szDone[q] = 0
        BY <3>3, <3>6, <4>1
      <4>3. CASE SzTop.from = "reference" /\ q = o
        <5>1. PICK n : n = k + 1
          OBVIOUS
        <5>2. n \in 1..Len(szCalls) /\ SzTop = szCalls[n]
          BY <1>8, <1>9, <1>11, <5>1
        <5>3. ReadCalls
          BY <1>3 DEF ReadingInv
        <5>4. ReadsAs(n, SzTop, o)
          BY <1>5, <1>6, <5>2, <5>3, EachCallReads
        <5>5. szRecorded[o] = SzTop.dict
          BY <4>3, <5>4 DEF ReadsAs
        <5> QED BY <1>11, <1>18, <3>1, <3>3, <4>2, <4>3, <5>5
      <4>4. CASE SzTop.from # "reference" \/ q # o
        BY <1>5, <1>6, <3>8, <4>2, <4>4
      <4> QED BY <4>3, <4>4
    <3>10. ReadsAs(i, e, q)'
      <4>1. i # 1 => (e.from = "reference" <=> q \in szRefs')
        BY <1>2, <3>3, <3>7
      <4>2. CASE i = k
        <5>1. PICK u : u = m + 1
          OBVIOUS
        <5>2. e.uses = Append(c.uses, u) /\ ~(i < Len(szCalls'))
          BY <1>10, <1>12, <3>1, <3>2, <3>3, <4>2, <5>1
        <5>3. b.of = szUses[q][Len(c.uses) + 1]
          BY <1>5, <1>11, <3>6, <4>2
        <5>4. BuiltFrom(Append(c.uses, u), q)'
          BY <1>3, <1>4, <1>5, <3>5, <3>6, <3>8, <5>1, <5>3, BuiltFollows
        <5>5. BuiltFrom(e.uses, q)'
          BY <5>2, <5>4
        <5> QED BY <1>2, <3>3, <3>6, <3>9, <4>1, <5>2, <5>5 DEF ReadsAs
      <4>3. CASE i # k
        <5>1. e = c /\ i + 1 \in 1..k
          BY <1>12, <3>1, <3>2, <3>3, <4>3
        <5>2. szCalls'[i + 1].dict = s[i + 1].dict
          BY <1>10, <1>12, <5>1
        <5>3. BuiltFrom(e.uses, q)'
          BY <1>7, <3>6, <5>1
        <5> QED BY <1>2, <3>6, <3>9, <4>1, <5>1, <5>2, <5>3 DEF ReadsAs
      <4> QED BY <4>2, <4>3
    <3>11. e = szCalls'[i] /\ q = szDicts'[szCalls'[i].dict].of
      BY <1>2, <1>10, <3>2, <3>3, <3>4
    <3> QED BY <3>10, <3>11 DEF ReadsAs
  <2> QED BY <2>1 DEF ReadCalls
<1>20. ReadStarted'
  <2>1. ASSUME NEW q \in szStarted
        PROVE  \/ szDone'[q] # 0
               \/ \E i \in 1..k : t[i].from = "reference" /\ szDicts[t[i].dict].of = q
    <3>1. q \in SzObjects
      BY <1>3 DEF SzTypeOK
    <3>2. \/ szDone[q] # 0
          \/ \E i \in 1..(k + 1) : s[i].from = "reference" /\ szDicts[s[i].dict].of = q
      BY <1>3, <1>8, <1>9 DEF ReadingInv, ReadStarted
    <3>3. CASE szDone[q] # 0
      BY <1>5, <3>1, <3>3
    <3>4. CASE \E i \in 1..(k + 1) : s[i].from = "reference" /\ szDicts[s[i].dict].of = q
      <4>1. PICK i \in 1..(k + 1) : s[i].from = "reference" /\ szDicts[s[i].dict].of = q
        BY <3>4
      <4>2. CASE i = k + 1
        BY <1>5, <1>7, <1>11, <4>1, <4>2
      <4>3. CASE i # k + 1
        <5>1. i \in 1..k
          BY <4>3
        <5> QED BY <1>12, <4>1, <5>1
      <4> QED BY <4>2, <4>3
    <3> QED BY <3>2, <3>3, <3>4
  <2> QED BY <1>1, <1>2, <1>10, <1>12, <2>1 DEF ReadStarted
<1>21. szCalls'[1].dict = Len(szDicts') /\ szCalls'[1].from = "place" /\ szCalls' # <<>>
  <2>1. 1 \in 1..k
    OBVIOUS
  <2> QED BY <1>2, <1>3, <1>9, <1>10, <1>12, <2>1 DEF ReadingInv
<1> QED BY <1>1, <1>5, <1>12, <1>13, <1>14, <1>16, <1>17, <1>19, <1>20, <1>21
        DEF SzInv, ReadingInv

\* The root is built.
LEMMA BuildsRoot ==
    ASSUME SzInv, SzBuilds, Len(szCalls) = 1
    PROVE  SzInv'
<1>1. /\ szPc = "reading" /\ szStarted' = szStarted
      /\ UNCHANGED szGraph /\ UNCHANGED szDocument
  BY DEF SzBuilds
<1>2. /\ szUses' = szUses /\ szRefs' = szRefs /\ szDicts' = szDicts
      /\ szRecorded' = szRecorded
  BY <1>1 DEF szGraph, szDocument
<1>3. SzTypeOK /\ DictsInv /\ ObjectsInv /\ StageInv /\ ReadingInv
  BY <1>1 DEF SzInv
<1>4. PICK b \in SzBuiltObject :
         /\ b.of = szDicts[SzTop.dict].of /\ ObjectsGrow(b)
         /\ szDone' \in [SzObjects -> Nat]
         /\ SzReturn(Len(szBuilt) + 1, "read")
         /\ ObjectsInv'
  BY BuildsObject
<1>5. /\ szBuilt' \in Seq(SzBuiltObject) /\ Len(szBuilt') = Len(szBuilt) + 1
      /\ Len(szBuilt) \in Nat /\ szBuilt'[Len(szBuilt) + 1] = b
  BY <1>3, <1>4, BuiltStays
<1>6. szCalls' = <<>> /\ szPc' = "read"
  BY <1>4 DEF SzReturn
<1>7. b.of = SzRoot
  <2>1. SzTop.dict = Len(szDicts)
    BY <1>3 DEF ReadingInv, SzTop
  <2> QED BY <1>1, <1>3, <1>4, <2>1 DEF StageInv
<1>8. szBuilt' # <<>> /\ szBuilt'[Len(szBuilt')].of = SzRoot
  BY <1>5, <1>7
<1>9. SzTypeOK'
  <2>1. szCalls' \in Seq([dict : Nat, from : SzOrigins, uses : Seq(Nat)])
    BY <1>6, EmptySeq
  <2> QED BY <1>1, <1>2, <1>3, <1>4, <1>5, <1>6, <2>1 DEF SzTypeOK, SzBuiltObject
<1>10. DictsInv'
  BY <1>1, <1>3, DocumentStays
<1>11. StageInv'
  BY <1>1, <1>2, <1>3, <1>6, <1>8 DEF StageInv
<1> QED BY <1>4, <1>6, <1>9, <1>10, <1>11 DEF SzInv

LEMMA BuildsKeep == SzInv /\ SzBuilds => SzInv'
BY BuildsInside, BuildsRoot

-----------------------------------------------------------------------------
(* The theorems.                                                           *)

\* The invariant: what is written and built so far, and what each call in progress
\* is for.
LEMMA SzInvariant == SzSpec => []SzInv
<1>1. SzInv /\ [SzNext]_szVars => SzInv'
  <2> SUFFICES ASSUME SzInv, [SzNext]_szVars PROVE SzInv'
    OBVIOUS
  <2>1. CASE SzSerialize
    BY <2>1, SerializeKeeps
  <2>2. CASE SzWrites
    BY <2>2, WritesKeep
  <2>3. CASE SzWritten
    BY <2>3, WrittenKeeps
  <2>4. CASE SzDeserialize
    BY <2>4, DeserializeKeeps
  <2>5. CASE SzReads
    BY <2>5, ReadsKeep
  <2>6. CASE SzBuilds
    BY <2>6, BuildsKeep
  <2>7. CASE UNCHANGED szVars
    <3>1. /\ UNCHANGED szGraph /\ UNCHANGED szDocument /\ UNCHANGED szObjects
          /\ szPc' = szPc /\ szCalls' = szCalls /\ szStarted' = szStarted
      BY <2>7 DEF szVars
    <3>2. /\ szUses' = szUses /\ szRefs' = szRefs /\ szDicts' = szDicts
          /\ szRecorded' = szRecorded /\ szBuilt' = szBuilt /\ szDone' = szDone
          /\ \A o : Contents(o, SzObjects)' = Contents(o, SzObjects)
      BY <3>1, GraphStays DEF szGraph, szDocument, szObjects
    <3>3. SzTypeOK /\ DictsInv /\ ObjectsInv /\ StageInv
      BY DEF SzInv
    <3>4. SzTypeOK' /\ DictsInv' /\ ObjectsInv'
      BY <3>1, <3>2, <3>3, DocumentStays, ObjectsStay DEF SzTypeOK
    <3>5. StageInv'
      <4>1. Cyclic' <=> Cyclic
        BY <3>2 DEF Cyclic
      <4> QED BY <3>1, <3>2, <3>3, <4>1 DEF StageInv
    <3>6. szPc = "writing" => WritingInv'
      <4>1. SUFFICES ASSUME szPc = "writing" PROVE WritingInv'
        OBVIOUS
      <4>2. WritingInv
        BY <4>1 DEF SzInv
      <4>3. WriteOrder' /\ WriteStarted'
        BY <3>1, <3>2, <4>2 DEF WritingInv, WriteOrder, WriteStarted
      <4>4. WriteCalls'
        <5>1. ASSUME NEW i \in 1..Len(szCalls), NEW c, c = szCalls[i]
              PROVE  /\ WrittenAs(c.uses, c.of, Len(szDicts) + 1)'
                     /\ szRecorded[c.of] = 0
                     /\ i < Len(szCalls) =>
                           /\ Len(c.uses) < Len(szUses[c.of])
                           /\ szCalls[i + 1].of = szUses[c.of][Len(c.uses) + 1]
          BY <3>1, <3>2, <4>2, <5>1, DocumentStays DEF WritingInv, WriteCalls
        <5> QED BY <3>1, <3>2, <5>1 DEF WriteCalls
      <4> QED BY <3>1, <3>2, <4>2, <4>3, <4>4 DEF WritingInv
    <3>7. szPc = "reading" => ReadingInv'
      BY <3>1, <3>2 DEF SzInv, ReadingInv, ReadOrder, ReadCalls, ReadsAs, ReadStarted,
                        BuiltFrom
    <3> QED BY <3>1, <3>4, <3>5, <3>6, <3>7 DEF SzInv
  <2> QED BY <2>1, <2>2, <2>3, <2>4, <2>5, <2>6, <2>7 DEF SzNext
<1> QED BY <1>1, SzInitInv, PTL DEF SzSpec

\* The graph, the document and the objects that are built have their types, and so
\* do the calls, which are others in reading than in writing.
THEOREM SzTypeCorrect == SzSpec => []SzTypeOK
<1>1. SzInv => SzTypeOK
  BY DEF SzInv
<1> QED BY <1>1, SzInvariant, PTL

\* What is built contains what the root contains.
LEMMA AllIsBuilt ==
    ASSUME SzInv, szPc = "read"
    PROVE  \A o \in Contents(SzRoot, SzObjects) :
              \E i \in 1..Len(szBuilt) : szBuilt[i].of = o
<1>1. SzTypeOK /\ ObjectsInv /\ StageInv
  BY DEF SzInv
<1>2. szBuilt \in Seq(SzBuiltObject) /\ szUses \in [SzObjects -> Seq(SzObjects)]
  BY <1>1 DEF SzTypeOK, SzBuiltObject
<1>3. PICK built : built = {szBuilt[i].of : i \in 1..Len(szBuilt)}
  OBVIOUS
<1>4. built \subseteq SzObjects
  <2>1. \A i \in 1..Len(szBuilt) : szBuilt[i] \in SzBuiltObject
    BY <1>2, ElementOfSeq
  <2> QED BY <1>3, <2>1 DEF SzBuiltObject
<1>5. SzRoot \in built
  <2>1. Len(szBuilt) \in 1..Len(szBuilt)
    BY <1>1, <1>2 DEF StageInv
  <2> QED BY <1>1, <1>3, <2>1 DEF StageInv
<1>6. ASSUME NEW q \in built, NEW k \in 1..Len(szUses[q])
      PROVE  szUses[q][k] \in built
  <2>1. PICK i \in 1..Len(szBuilt) : szBuilt[i].of = q
    BY <1>3
  <2>2. Len(szBuilt[i].uses) = Len(szUses[q]) /\ BuiltFrom(szBuilt[i].uses, q)
    BY <1>1, <2>1 DEF ObjectsInv
  <2>3. PICK j \in 1..Len(szBuilt) : szBuilt[j].of = szUses[q][k]
    BY <2>2 DEF BuiltFrom
  <2> QED BY <1>3, <2>3
<1>7. SzRoot \in SzObjects /\ \A q \in built \cup {SzRoot} : q \in built
  BY <1>5, SzAssumption
<1>8. Contents(SzRoot, SzObjects) \subseteq built
  BY <1>2, <1>4, <1>6, <1>7, ContentsLeast
<1> QED BY <1>3, <1>8

\* An object is refused exactly if it contains one that contains itself; otherwise
\* what is read has the shape of what was written, with one object for each that
\* can be referenced (serialize_to_dict and autodeserialize_from_dict).
THEOREM RoundTripHolds == SzSpec => []RoundTrip
<1>1. SzInv => RoundTrip
  <2> SUFFICES ASSUME SzInv PROVE RoundTrip
    OBVIOUS
  <2>1. SzTypeOK /\ DictsInv /\ ObjectsInv /\ StageInv
    BY DEF SzInv
  <2>2. szPc = "refused" => Cyclic
    BY <2>1 DEF StageInv
  <2>3. szPc \in {"written", "reading", "read"} => ~Cyclic
    BY <2>1, WrittenHasNoCycle DEF StageInv
  <2>4. szPc # "failed"
    BY <2>1 DEF StageInv
  <2>5. ASSUME szPc = "read"
        PROVE  /\ szBuilt # <<>> /\ szBuilt[Len(szBuilt)].of = SzRoot
               /\ \A i \in DOMAIN szBuilt :
                     [k \in DOMAIN szBuilt[i].uses |-> szBuilt[szBuilt[i].uses[k]].of]
                        = szUses[szBuilt[i].of]
               /\ \A o \in szRefs \cap Contents(SzRoot, SzObjects) :
                     \E i \in DOMAIN szBuilt : BuiltAs(o) = {i}
    <3>1. szBuilt # <<>> /\ szBuilt[Len(szBuilt)].of = SzRoot
      BY <2>1, <2>5 DEF StageInv
    <3>2. szBuilt \in Seq(SzBuiltObject) /\ DOMAIN szBuilt = 1..Len(szBuilt)
      BY <2>1 DEF SzTypeOK, SzBuiltObject
    <3>3. ASSUME NEW i \in DOMAIN szBuilt
          PROVE  [k \in DOMAIN szBuilt[i].uses |-> szBuilt[szBuilt[i].uses[k]].of]
                    = szUses[szBuilt[i].of]
      <4>1. PICK b \in SzBuiltObject : b = szBuilt[i]
        BY <3>2, ElementOfSeq
      <4>2. PICK o \in SzObjects : o = b.of
        BY DEF SzBuiltObject
      <4>3. PICK v : v = b.uses
        OBVIOUS
      <4>4. v \in Seq(Nat)
        BY <4>3 DEF SzBuiltObject
      <4>5. PICK w : w = szUses[o]
        OBVIOUS
      <4>6. w \in Seq(SzObjects)
        BY <2>1, <4>5 DEF SzTypeOK
      <4>7. Len(v) = Len(w) /\ \A k \in 1..Len(v) : szBuilt[v[k]].of = w[k]
        BY <2>1, <3>2, <4>1, <4>2, <4>3, <4>5 DEF ObjectsInv, BuiltFrom
      <4>8. DOMAIN v = 1..Len(v) /\ DOMAIN w = 1..Len(w) /\ w = [k \in DOMAIN w |-> w[k]]
        BY <4>4, <4>6
      <4>9. [k \in DOMAIN v |-> szBuilt[v[k]].of] = w
        BY <4>7, <4>8
      <4> QED BY <4>1, <4>2, <4>3, <4>5, <4>9
    <3>4. ASSUME NEW o \in szRefs \cap Contents(SzRoot, SzObjects)
          PROVE  \E i \in DOMAIN szBuilt : BuiltAs(o) = {i}
      <4>1. o # SzRoot
        BY <2>3, <2>5, <3>4 DEF Cyclic
      <4>2. PICK i \in 1..Len(szBuilt) : szBuilt[i].of = o
        BY <2>5, <3>4, AllIsBuilt
      <4>3. \A j \in 1..Len(szBuilt) : szBuilt[j].of = o => j = szDone[o]
        BY <2>1, <3>4, <4>1 DEF ObjectsInv
      <4>4. BuiltAs(o) = {i}
        BY <3>2, <4>2, <4>3 DEF BuiltAs
      <4> QED BY <3>2, <4>2, <4>4
    <3> QED BY <3>1, <3>3, <3>4
  <2> QED BY <2>2, <2>3, <2>4, <2>5 DEF RoundTrip
<1> QED BY <1>1, SzInvariant, PTL
=============================================================================

-------------------------- MODULE RuntimePartsProofs --------------------------
(***************************************************************************)
(* The components around the executors share no state: side by side, each  *)
(* of them still does only what its own specification allows, so what is   *)
(* proved of the components one by one holds of them together.             *)
(***************************************************************************)
EXTENDS MCRuntimeParts, ManagerMcpProofs, StepsProofs, StoresProofs, TLAPS

LEMMA PartsStart ==
    PartsInit => /\ McpInit /\ MwInit /\ SubInit /\ RsInit
                 /\ RaInit /\ ScInit /\ SumInit /\ SzInit
BY DEF PartsInit

\* A step of one part leaves the others alone.
LEMMA PartsStep ==
    [PartsNext]_partsVars =>
        /\ [McpNext]_mcpVars /\ [MwNext]_mwVars /\ [SubNext]_subVars
        /\ [RsNext]_rsVars /\ [RaNext]_raVars /\ [ScNext]_scVars
        /\ [SumNext]_sumVars /\ [SzNext]_szVars
<1> SUFFICES ASSUME [PartsNext]_partsVars
             PROVE  /\ [McpNext]_mcpVars /\ [MwNext]_mwVars /\ [SubNext]_subVars
                    /\ [RsNext]_rsVars /\ [RaNext]_raVars /\ [ScNext]_scVars
                    /\ [SumNext]_sumVars /\ [SzNext]_szVars
  OBVIOUS
<1>1. CASE UNCHANGED partsVars
  BY <1>1 DEF partsVars
<1>2. CASE Others("mcp") /\ McpNext
  BY <1>2 DEF Others
<1>3. CASE Others("mw") /\ MwNext
  BY <1>3 DEF Others
<1>4. CASE Others("sub") /\ SubNext
  BY <1>4 DEF Others
<1>5. CASE Others("rs") /\ RsNext
  BY <1>5 DEF Others
<1>6. CASE Others("ra") /\ RaNext
  BY <1>6 DEF Others
<1>7. CASE Others("sc") /\ ScNext
  BY <1>7 DEF Others
<1>8. CASE Others("sum") /\ SumNext
  BY <1>8 DEF Others
<1>9. CASE Others("sz") /\ SzNext
  BY <1>9 DEF Others
<1> QED BY <1>1, <1>2, <1>3, <1>4, <1>5, <1>6, <1>7, <1>8, <1>9 DEF PartsNext

\* Every behaviour of the whole is one of the MCP runtime, with the scheduling it
\* is given, of the manager and its workers, of a step with sub-flows, of the
\* server of responses, of a remote agent, of the scopes, of the summaries and of
\* the serialization of a component.
THEOREM PartsImplement ==
    PartsSpec => /\ McpFairSpec /\ MwSpec /\ SubSpec /\ RsSpec
                 /\ RaSpec /\ ScSpec /\ SumSpec /\ SzSpec
BY PartsStart, PartsStep, PTL
   DEF PartsSpec, McpFairSpec, McpSpec, MwSpec, SubSpec, RsSpec, RaSpec, ScSpec,
       SumSpec, SzSpec

\* The state of every component keeps its type while the others run.
THEOREM PartsTypeCorrect == PartsSpec => []PartsTypeOK
<1>1. /\ McpTypeOK /\ MwTypeOK /\ SubTypeOK /\ RsTypeOK
      /\ RaTypeOK /\ ScTypeOK /\ SumTypeOK /\ SzTypeOK
      => PartsTypeOK
  BY DEF PartsTypeOK
<1> QED BY <1>1, PartsImplement, McpTypeCorrect, MwTypeCorrect, SubTypeCorrect,
           RsTypeCorrect, RaTypeCorrect, ScTypeCorrect, SumTypeCorrect,
           SzTypeCorrect, PTL DEF McpFairSpec

\* So do the properties of the components: sessions and flows, requests of the
\* manager, items of a step, turns of a conversation, messages told to a remote
\* agent, spans and listeners, prompts, documents.
THEOREM PartsAreSafe ==
    PartsSpec => [](/\ OneSession /\ ReplacedFlowsAreWoken
                    /\ OneWorkerAtWork /\ ManagerIsPrompted
                    /\ MapOutputsAreNew /\ NoWorkTwice /\ LastTurnIsLatest /\ MarkIsInStep
                    /\ ScopesAreLeft /\ PromptIsWhole
                    /\ RoundTrip)
BY PartsImplement, SessionIsUnique, NoFlowIsForgotten, OneWorker, ManagerPrompted,
   MapsAreComplete, ItemsRunOnce, LastTurnIsFound, MarkStaysInStep, ScopesUnwind,
   PromptsAreWhole, RoundTripHolds, PTL DEF McpFairSpec

=============================================================================

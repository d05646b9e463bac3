--------------------------- MODULE MCRuntimeParts ---------------------------
(***************************************************************************)
(* Instances for TLC of the components around the executors.  They share   *)
(* no state, so what one of them does is seen best when it alone moves:    *)
(* the initial state says which.                                           *)
(***************************************************************************)
EXTENDS McpRuntime, ManagerWorkers, SubFlowSteps, ResponsesServer, RemoteAgent,
        ExecutionScopes, Summarization, Serialization, TLC

CONSTANTS a1, a2, a3, v1, v2

Conversation == (a1 :> v1) @@ (a2 :> v1) @@ (a3 :> v2)

VARIABLE part

partsVars == <<part, mcpVars, mwVars, subVars, rsVars, raVars, scVars, sumVars,
               szVars>>

\* A part that does not move starts in one way.
PartsInit ==
    /\ part \in {"mcp", "mw", "sub", "rs", "ra", "sc", "sum", "sz"}
    /\ McpInit /\ (part # "mcp" => ~mcpAuth)
    /\ MwInit
    /\ SubInit /\ (part # "sub" => subKind = "map")
    /\ RsInit /\ (part # "rs" => ~rsDurable)
    /\ RaInit /\ (part # "ra" => raKind = "oci" /\ raList = <<>>)
    /\ ScInit
    /\ SumInit
    /\ \/ part = "sz"
       \/ part # "sz" /\ szUses = [o \in SzObjects |-> <<>>] /\ szRefs = {}
    /\ SzInit

\* All parts but one stay as they are.
Others(p) ==
    /\ part = p /\ UNCHANGED part
    /\ p # "mcp" => UNCHANGED mcpVars
    /\ p # "mw" => UNCHANGED mwVars
    /\ p # "sub" => UNCHANGED subVars
    /\ p # "rs" => UNCHANGED rsVars
    /\ p # "ra" => UNCHANGED raVars
    /\ p # "sc" => UNCHANGED scVars
    /\ p # "sum" => UNCHANGED sumVars
    /\ p # "sz" => UNCHANGED szVars

PartsNext ==
    \/ Others("mcp") /\ McpNext
    \/ Others("mw") /\ MwNext
    \/ Others("sub") /\ SubNext
    \/ Others("rs") /\ RsNext
    \/ Others("ra") /\ RaNext
    \/ Others("sc") /\ ScNext
    \/ Others("sum") /\ SumNext
    \/ Others("sz") /\ SzNext

PartsSpec == PartsInit /\ [][PartsNext]_partsVars /\ McpFairness

\* The type invariants of all parts.
PartsTypeOK ==
    /\ McpTypeOK /\ MwTypeOK /\ SubTypeOK /\ RsTypeOK /\ RaTypeOK
    /\ ScTypeOK /\ SumTypeOK /\ SzTypeOK
=============================================================================

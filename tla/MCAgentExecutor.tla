-------------------------- MODULE MCAgentExecutor --------------------------
(* Instances of AgentExecutor for TLC. *)
EXTENDS AgentExecutor, TLC

CONSTANTS r1, r2, r3

Ids3 == {r1, r2, r3}

AssistantKinds == {"server", "guarded", "client", "agent", "exit", "talk",
                   "badtalk", "unknown", "submit",
                   "badsubmit"}
TaskKinds == {"server", "client", "agent", "flow", "exit"}
ClientAndServerKinds == {"client", "server"}
Symmetry == Permutations(Ids3)
=============================================================================

--------------------------- MODULE MCFlowExecutor ---------------------------
(* Instances of FlowExecutor for TLC. *)
EXTENDS FlowExecutor, TLC

CONSTANTS main, guard, ask, work,
          k, r, e,
          h, g1, b1, p1, p2,
          i2, p3,
          c, q, v, d

\* main:  k catches guard, r retries work, e completes
\* guard: h runs ask, g1 is confirmed, b1 goes back to h or on to p1 or p2
\* ask:   i2 asks the user, p3 completes
\* work:  c goes to q, a client tool, or to v, a server tool; d completes
FourFlows == {main, guard, ask, work}
AllSteps == {k, r, e, h, g1, b1, p1, p2, i2, p3, c, q, v, d}
TheFlowOf == [s \in AllSteps |->
    CASE s \in {k, r, e} -> main
      [] s \in {h, g1, b1, p1, p2} -> guard
      [] s \in {i2, p3} -> ask
      [] OTHER -> work]
TheBegin == main :> k @@ guard :> h @@ ask :> i2 @@ work :> c
TheKind ==
    k :> "catch" @@ r :> "retry" @@ e :> "complete" @@ h :> "flow"
    @@ g1 :> "guarded" @@ b1 :> "branching" @@ p1 :> "complete"
    @@ p2 :> "complete" @@ i2 :> "input" @@ p3 :> "complete"
    @@ c :> "branching" @@ q :> "client" @@ v :> "tool" @@ d :> "complete"
TheInner == [s \in AllSteps |-> CASE s = k -> guard [] s = r -> work
                                  [] s = h -> ask [] OTHER -> None]
TheAbove == main :> {main} @@ guard :> {guard, main}
            @@ ask :> {ask, guard, main} @@ work :> {work, main}
TheBranch == [s \in AllSteps |-> IF s = p1 THEN "other" ELSE s]
TheEdges ==
    {<<k, "other", r>>, <<k, p2, e>>, <<k, "error", r>>,
     <<r, d, e>>, <<r, "failure", e>>,
     <<h, p3, g1>>, <<g1, "next", b1>>,
     <<b1, "again", h>>, <<b1, "one", p1>>, <<b1, "two", p2>>,
     <<i2, "next", p3>>, <<c, "ask", q>>, <<c, "skip", v>>, <<q, "next", v>>, <<v, "next", d>>}
CatchAll == [s \in AllSteps |-> Exceptions]
=============================================================================

---------------------------- MODULE MCA2AServer ----------------------------
(* Instances of A2AServer for TLC. *)
EXTENDS A2AServer, TLC

CONSTANTS t1, t2, x1, c1, c2, s1, s2

TwoTasks == {t1, t2}
OneTask == {t1}
OneContext == {x1}
TwoClients == {c1, c2}
OneClient == {c1}
TwoSlots == {s1, s2}
OneSlot == {s1}
Symmetry == Permutations(TwoTasks) \cup Permutations(TwoClients)
            \cup Permutations(TwoSlots)
=============================================================================

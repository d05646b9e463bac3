------------------------------ MODULE MCSwarm ------------------------------
(* Instances of Swarm for TLC. *)
EXTENDS Swarm

CONSTANTS a1, a2, a3

Three == {a1, a2, a3}
\* a1 and a2 may address each other, both may address a3.
Layered == {<<a1, a2>>, <<a2, a1>>, <<a1, a3>>, <<a2, a3>>}
Cycle == {<<a1, a2>>, <<a2, a3>>, <<a3, a1>>}
Star == {<<a1, a2>>, <<a1, a3>>}
NoEvents == {}
=============================================================================

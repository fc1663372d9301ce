------------------------------ MODULE MCPruner ------------------------------
(* Instances of Pruner for TLC: the sizes of the sessions.                 *)
EXTENDS Pruner

\* One session of two bytes, the others of one.
Sizes == [s \in Sessions |-> IF s = CHOOSE u \in Sessions : TRUE THEN 2 ELSE 1]

=============================================================================

------------------------------ MODULE MCTargets ------------------------------
(* Targets for two operators, who are alike, as are the ids of the backend. *)
EXTENDS Targets, TLC

Alike == Permutations(Operators) \cup Permutations(Ids)
=============================================================================

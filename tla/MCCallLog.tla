----------------------------- MODULE MCCallLog ------------------------------
(* Retention policies for TLC: by age and by number of rows, and no limit. *)
EXTENDS CallLog, TLC

MCPolicies == {[age |-> 1, rows |-> 1], [age |-> 0, rows |-> 0]}

Symmetry == Permutations(Params) \cup Permutations(Pruners)
=============================================================================

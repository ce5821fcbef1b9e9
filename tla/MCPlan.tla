------------------------------- MODULE MCPlan -------------------------------
(* Real plan generation for TLC: workers and clients are interchangeable.  *)
EXTENDS PlanGeneration, TLC

Symmetry == Permutations(Workers) \union Permutations(Clients)
=============================================================================

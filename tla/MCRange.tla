-------------------------------- MODULE MCRange --------------------------------
(* RangeLifecycle for TLC: threads and clients are interchangeable.          *)
EXTENDS RangeLifecycle, TLC

Symmetry == Permutations(Execs) \cup Permutations(Clients)
================================================================================

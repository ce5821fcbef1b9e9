---------------------------- MODULE MCCompetition ----------------------------
\* Competition for TLC: teams and clients are interchangeable.
EXTENDS Competition, TLC

Symmetry == Permutations(Teams) \cup Permutations(Clients)
===============================================================================

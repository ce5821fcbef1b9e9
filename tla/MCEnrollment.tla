----------------------------- MODULE MCEnrollment -----------------------------
\* Model checking of Enrollment: the workers are interchangeable, and so are
\* the request slots.
EXTENDS Enrollment, TLC

Symmetry == Permutations(Workers) \cup Permutations(Requests)
===============================================================================

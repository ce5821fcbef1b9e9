-------------------------- MODULE EnrollmentAgreement --------------------------
(***************************************************************************)
(* What a worker enrollment promises: it is claimed by at most one of the  *)
(* workers that hold the invitation, only that worker is enrolled, and an  *)
(* enrollment that was closed stays closed.  Module Enrollment implements  *)
(* it.                                                                     *)
(***************************************************************************)
CONSTANTS Workers, Nobody

VARIABLES phase,   \* how far the enrollment is
          party    \* the worker it belongs to

Init == phase = "open" /\ party = Nobody

Claim(w) == phase = "open" /\ phase' = "claimed" /\ party' = w

Enrol == phase = "claimed" /\ phase' = "enrolled" /\ party' = party

Close == phase \in {"open", "claimed", "enrolled"} /\ phase' = "closed" /\ party' = party

Next == (\E w \in Workers : Claim(w)) \/ Enrol \/ Close

Spec == Init /\ [][Next]_<<phase, party>>
================================================================================

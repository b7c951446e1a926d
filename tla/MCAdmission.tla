----------------------------- MODULE MCAdmission -----------------------------
(* Small instances of Admission for TLC. *)
EXTENDS Admission, TLC

CONSTANTS o1, t1, d1, d2, f1, q1, q2, p1, p2, p3, r1

OneOrder == [t \in Tickets |-> o1]

\* Panels and requests are told apart by nothing but their names.
Symmetry == Permutations(Panels) \cup Permutations(Requests)
=============================================================================

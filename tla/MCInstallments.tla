--------------------------- MODULE MCInstallments ---------------------------
(* Small instances of Installments for TLC. *)
EXTENDS Installments, TLC

CONSTANTS o1, r1, r2, r3

\* One order with up to three references.
OneOrder == [r \in Refs |-> o1]

\* The references of one order are interchangeable; used with invariants only.
RefSymmetry == Permutations(Refs)
=============================================================================

------------------------------ MODULE MCPayouts ------------------------------
(* Small instances of Payouts for TLC. *)
EXTENDS Payouts

CONSTANTS b1, b2, p1, p2 \* batches, organizers
=============================================================================

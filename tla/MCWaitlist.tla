----------------------------- MODULE MCWaitlist -----------------------------
(* Small instances of Waitlist for TLC. *)
EXTENDS Waitlist

CONSTANTS m1, m2, s1, s2
=============================================================================

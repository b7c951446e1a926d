------------------------------ MODULE MCEvents ------------------------------
(* Small instances of Events for TLC. *)
EXTENDS Events, TLC

CONSTANTS e1, e2, w1, w2, a1, b1, b2, c1, c2

\* One event in any stage, and an id for a new one.
OneListed ==
  /\ EInit
  /\ event[e1] \in [status : EventStatus, content : {c1}, banner : {FALSE}]
  /\ event[e2] = [status |-> "NONE", content |-> c1, banner |-> FALSE]
  /\ \A e \in EventIds : tier[e].price = 1 /\ tier[e].total = 1

MCESpec == OneListed /\ [][ENext]_evars

\* Tabs of the organizer, and payments, are told apart by nothing but their names.
Symmetry == Permutations(Owners) \cup Permutations(Buyers)
=============================================================================

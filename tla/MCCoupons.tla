------------------------------ MODULE MCCoupons ------------------------------
(* Small instances of Coupons for TLC. *)
EXTENDS Coupons, TLC

CONSTANTS o1, o2, o3, u1, m1, m2, a1, a2

\* One buyer signed in with two addresses, and a guest with the first of them.
MCUserOf == (o1 :> u1 @@ o2 :> u1 @@ o3 :> NoUser)
MCEmailOf == (o1 :> m1 @@ o2 :> m2 @@ o3 :> m1)
=============================================================================

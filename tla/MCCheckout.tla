----------------------------- MODULE MCCheckout -----------------------------
(* Small instances of Checkout for TLC. *)
EXTENDS Checkout, TLC

CONSTANTS o1, o2, o3, t1, t2, a1, a2

\* Two card orders compete for the last of three seats in t1; the third asks for one.
RaceLines ==
  [o \in Orders |-> CASE o = o1 -> t1 :> 2 @@ t2 :> 1
                      [] o = o2 -> t1 :> 2 @@ t2 :> 0
                      [] OTHER -> t1 :> 1 @@ t2 :> 0]
RaceCapacity == t1 :> 3 @@ t2 :> 1
\* A refunded order may take its seats twice, at the others' expense.
RefundCapacity == t1 :> 4 @@ t2 :> 2

CardKind == [o \in Orders |-> "paystack"]
MixKind ==
  [o \in Orders |-> CASE o = o1 -> "paystack" [] o = o2 -> "comp" [] OTHER -> "demo"]

MixPrice == [o \in Orders |-> IF Kind[o] = "comp" THEN 0 ELSE 2]
SmallPrice == [o \in Orders |-> 2]
\* The coupon of o3 leaves nothing to pay.
FreePrice == [o \in Orders |-> IF o = o3 THEN 0 ELSE 3]
\* Administrators are interchangeable; used with invariants only.
AdminSymmetry == Permutations(Admins)
Commission == [o \in Orders |-> IF Amount[o] = 0 THEN 0 ELSE 1]
=============================================================================

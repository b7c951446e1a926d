-------------------------- MODULE MCRefundRequests --------------------------
(* Small instances of RefundRequests for TLC: the orders of MCCheckout. *)
EXTENDS RefundRequests, MCCheckout

CONSTANT w1 \* a browser tab
=============================================================================

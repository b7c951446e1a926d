-------------------------------- MODULE Money --------------------------------
(***************************************************************************)
(* The amounts of one order in whole cents, from the quote to the transfer   *)
(* to the organizer.  Discount, fee, instalments, reversal and transfer each *)
(* round in a way of their own; no party may lose by what another rounds.    *)
(***************************************************************************)
EXTENDS Integers, Sequences

CONSTANTS
  Subtotals, \* bound: subtotals of an order
  Deals,     \* bound: terms of a coupon, [kind, n]
  Rules,     \* bound: platform fees, [bps, fixed, cap]; a negative cap is none
  Splits,    \* bound: percentages of the instalments of a plan, in fractions
  Fine,      \* bound: how many fractions are a hundredth of a percent
  Asked      \* bound: amounts an administrator asks back

\* The sum of the first n amounts.
SumTo(amounts, n) ==
  LET sum[i \in 0..Len(amounts)] == IF i = 0 THEN 0 ELSE sum[i - 1] + amounts[i]
  IN  sum[n]

\* 100 percent.
Whole == 10000 * Fine

\* a and b differ by at most d.
Near(a, b, d) == a - b <= d /\ b - a <= d

\* Percentages are any decimals, and need only add up to 100 within 0.01.
ASSUME MoneyAssumption ==
  /\ Subtotals \subseteq Nat
  /\ Deals \subseteq [kind : {"NONE", "FIXED", "PERCENT"}, n : Nat]
  /\ \A t \in Deals : t.kind = "PERCENT" => t.n <= 100
  /\ Rules \subseteq [bps : Nat, fixed : Nat, cap : Int]
  /\ \A r \in Rules : r.bps <= 10000
  /\ Fine \in Nat \ {0}
  /\ Asked \subseteq Nat
  /\ \A pct \in Splits : /\ pct \in Seq(0..Whole) /\ Len(pct) >= 2
                         /\ Near(SumTo(pct, Len(pct)), Whole, Fine)

VARIABLES
  stage,     \* "quote", "ordered", "planned", "paid", "refunded" or "settled"
  subtotal,  \* Subtotals
  deal,      \* Deals
  rule,      \* Rules
  discount,  \* 0..subtotal, Order.discountCents
  amount,    \* 0..subtotal, Order.amountCents
  fee,       \* 0..amount, Order.feesCents
  split,     \* Splits, the percentages of the plan; <<>>: none
  plan,      \* Seq(Int), the amounts of its instalments
  net,       \* 0..amount, ORDER_EARNINGS entry; 0: none
  back,      \* 0..amount, what the refund gives back
  reversed,  \* 0..net, minus the ORDER_REFUND_REVERSAL entry
  sent       \* Nat, shillings transferred to the organizer

given == <<subtotal, deal, rule>>
priced == <<discount, amount, fee>>
mvars == <<stage, given, priced, split, plan, net, back, reversed, sent>>

Least(a, b) == IF a <= b THEN a ELSE b
NotNegative(a) == IF a >= 0 THEN a ELSE 0
\* Math.round(a / b) for a >= 0 and b > 0: halves go up.
Rounded(a, b) == (2 * a + b) \div (2 * b)

MInit ==
  /\ stage = "quote"
  /\ subtotal \in Subtotals
  /\ deal \in Deals
  /\ rule \in Rules
  /\ discount = 0 /\ amount = 0 /\ fee = 0
  /\ split = <<>> /\ plan = <<>>
  /\ net = 0 /\ back = 0 /\ reversed = 0 /\ sent = 0

-----------------------------------------------------------------------------
(* The price of an order *)

Discount(t, s) ==
  IF t.kind = "NONE" THEN 0
  ELSE IF t.kind = "PERCENT" THEN (s * t.n) \div 100
  ELSE t.n

\* Mutant: a discount is rounded down to ten cents.
ComputeDiscountTens(t, s) == Least(s, 10 * (Discount(t, s) \div 10))

ComputeDiscount(t, s) == Least(s, Discount(t, s))

Chargeable(t, s) == NotNegative(s - ComputeDiscount(t, s))

PlatformFee(r, s) ==
  IF s <= 0 THEN 0
  ELSE LET total == r.fixed + (s * r.bps) \div 10000 IN
       Least(s, IF r.cap >= 0 THEN Least(total, r.cap) ELSE total)

OrganizerNet(price, f) == NotNegative(price - f)

\* A coupon without effect is refused.
Order ==
  /\ stage = "quote"
  /\ deal.kind = "NONE" \/ ComputeDiscount(deal, subtotal) > 0
  /\ stage' = "ordered"
  /\ discount' = ComputeDiscount(deal, subtotal)
  /\ amount' = Chargeable(deal, subtotal)
  /\ fee' = PlatformFee(rule, amount')
  /\ UNCHANGED <<given, split, plan, net, back, reversed, sent>>

-----------------------------------------------------------------------------
(* Instalments *)

\* Mutant: the last instalment is rounded as the others are.
InstalmentsRounded(total, pct) == [i \in 1..Len(pct) |-> Rounded(total * pct[i], Whole)]

\* The last of the splits gets the remainder, whatever its percentage says.
Instalments(total, pct) ==
  LET rounded == [i \in 1..Len(pct) |-> Rounded(total * pct[i], Whole)] IN
  [rounded EXCEPT ![Len(pct)] = total - SumTo(rounded, Len(pct) - 1)]

CreatePaymentPlan ==
  /\ stage = "ordered"
  /\ stage' = "planned"
  /\ split' \in Splits
  /\ plan' = Instalments(amount, split')
  /\ UNCHANGED <<given, priced, net, back, reversed, sent>>

-----------------------------------------------------------------------------
(* The ledger *)

EnsureOrderEarnings ==
  /\ stage \in {"ordered", "planned"}
  /\ stage' = "paid"
  /\ net' = OrganizerNet(amount, fee)
  /\ UNCHANGED <<given, priced, split, plan, back, reversed, sent>>

\* What resolveRefundAmountCents accepts: the policy's share, all of it, or an
\* amount of the administrator's.
Refunds == {(amount * 75) \div 100, amount} \cup (Asked \cap 1..amount)

\* Mutant: what is taken back is rounded down.
ReversalFloor(earned, paid, r) ==
  IF r >= paid THEN earned ELSE (earned * r) \div paid

Reversal(earned, paid, r) ==
  IF r >= paid THEN earned ELSE Rounded(earned * r, paid)

RefundPaidOrder ==
  /\ stage = "paid"
  /\ stage' = "refunded"
  /\ back' \in Refunds \ {0}
  /\ reversed' = Reversal(net, amount, back')
  /\ UNCHANGED <<given, priced, split, plan, net, sent>>

-----------------------------------------------------------------------------
(* The transfer *)

\* Mutant: the shillings are cut off.
WholeShillingsCut(cents) == cents \div 100

\* Mobile money comes in whole shillings, and one at least.
WholeShillings(cents) == Rounded(cents, 100)

InitiateB2cPayment ==
  /\ stage \in {"paid", "refunded"}
  /\ stage' = "settled"
  /\ net > reversed
  /\ WholeShillings(net - reversed) >= 1
  /\ sent' = WholeShillings(net - reversed)
  /\ UNCHANGED <<given, priced, split, plan, net, back, reversed>>

-----------------------------------------------------------------------------
MNext ==
  \/ Order \/ CreatePaymentPlan \/ EnsureOrderEarnings \/ RefundPaidOrder
  \/ InitiateB2cPayment

MSpec == MInit /\ [][MNext]_mvars

-----------------------------------------------------------------------------
(* What every party may expect *)

\* Who orders more does not pay less, and the organizer does not earn less.
MoreIsNotLess ==
  LET more == Chargeable(deal, subtotal + 1) IN
  stage # "quote" =>
    /\ amount <= more
    /\ amount - fee <= OrganizerNet(more, PlatformFee(rule, more))

\* Nobody pays for a refund: organizer and platform keep no less than nothing,
\* the organizer its share of what is retained but for half a cent.
RefundIsShared ==
  LET kept == net - reversed IN
  stage = "refunded" =>
    /\ kept >= 0
    /\ amount - back - kept >= 0
    /\ Near(2 * kept * amount, 2 * net * (amount - back), amount)

\* The instalments are the price; each is its percentage but for half a cent.
\* The last makes up for the halves before it and for what the percentages
\* miss, a ten-thousandth of the price at most: it is not below nothing by more.
InstalmentsArePrice ==
  LET n == Len(split) IN
  n > 0 =>
    /\ SumTo(plan, n) = amount
    /\ \A i \in 1..(n - 1) : Near(2 * Whole * plan[i], 2 * amount * split[i], Whole)
    /\ Near(2 * Whole * plan[n], 2 * amount * split[n], Whole * (n - 1) + 2 * Fine * amount)

\* A transfer differs from the balance by at most half a shilling.
TransferIsNear == stage = "settled" => Near(100 * sent, net - reversed, 50)

=============================================================================

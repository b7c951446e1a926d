------------------------------ MODULE Checkout ------------------------------
(***************************************************************************)
(* The order of a one-time purchase: CheckoutService (demo, Paystack, guest *)
(* and complimentary checkout, finalisation by webhook, return page or      *)
(* in-band), the receipt and ticket mails that follow it, and the refund    *)
(* of OrderRefundService.  One action per database transaction or per call  *)
(* across an await; every entity read before an await and saved after it    *)
(* is kept as the stale copy it is, because TypeORM's save writes back      *)
(* every column in which the copy differs from the row.                     *)
(*                                                                         *)
(* Orders paid in instalments are the subject of Installments.              *)
(***************************************************************************)
EXTENDS Integers, FiniteSets

CONSTANTS
  Orders,        \* the purchases, one reference each
  Tiers,         \* ticket types
  Admins,        \* back-office requests that may refund concurrently
  Lines,         \* [Orders -> [Tiers -> Nat]], seats of each tier bought
  Capacity,      \* [Tiers -> Nat], quantityTotal
  Kind,          \* [Orders -> {"paystack", "demo", "comp"}]
  Amount,        \* [Orders -> Nat], amountCents after the coupon's discount
  Fee,           \* [Orders -> Nat], feesCents
  CouponOrders,  \* the orders that redeem the coupon
  CouponLimit,   \* its usageLimit
  Mailed,        \* bound: the orders whose mails and resends are looked at
  JoinedLockRejected \* does the database reject FOR UPDATE on LEFT JOINs?

Net(o) == IF Amount[o] > Fee[o] THEN Amount[o] - Fee[o] ELSE 0

ASSUME CheckoutAssumption ==
  /\ IsFiniteSet(Orders)
  /\ Lines \in [Orders -> [Tiers -> Nat]]
  /\ \A o \in Orders : \E t \in Tiers : Lines[o][t] > 0
  /\ Capacity \in [Tiers -> Nat]
  /\ Kind \in [Orders -> {"paystack", "demo", "comp"}]
  /\ Amount \in [Orders -> Nat]
  /\ \A o \in Orders : Kind[o] = "comp" => Amount[o] = 0
  /\ Fee \in [Orders -> Nat]
  /\ CouponOrders \subseteq Orders
  /\ CouponLimit \in Nat
  /\ Mailed \subseteq Orders
  /\ JoinedLockRejected \in BOOLEAN

OrderStatus == {"NONE", "PENDING", "PAID", "FAILED", "REFUNDED"}
PaymentStatus ==
  {"NONE", "INITIATED", "AUTH_REQUIRED", "SUCCESS", "FAILED", "REFUNDED"}
Payment == [status : PaymentStatus, receipt : BOOLEAN, ticket : BOOLEAN]
TicketStatus == {"NONE", "ISSUED", "CHECKED_IN", "VOID"}

InitPc   == {"idle", "finalize", "gateway", "returned"}
MailPc   == {"idle", "start", "receipt", "ticket", "mark"}
RefundPc == {"idle", "checked", "called"}

NoPayment == [status |-> "NONE", receipt |-> FALSE, ticket |-> FALSE]

VARIABLES
  order,    \* [Orders -> OrderStatus], "NONE": no row yet
  payment,  \* [Orders -> Payment], the row of the order's reference
  sold,     \* [Tiers -> Nat], quantitySold
  issued,   \* [Orders -> [Tiers -> Nat]], ticket rows
  ticket,   \* [Orders -> TicketStatus]; CHECKED_IN: some ticket is checked in
  earned,   \* [Orders -> Nat], the entry earn:order:<id>, 0 if absent
  reversed, \* [Orders -> Nat], minus the entry refund:order:<id>
  refunded, \* [Orders -> Nat], refundedAmountCents
  again,    \* history: orders refunded more than once
  rebooked, \* history: orders finalised while they were PAID
  redeemed, \* orders with a coupon_redemptions row
  used,     \* the coupon's usedCount
  charge,   \* [Orders -> {"none", "open", "paid"}], the gateway's transaction
  returned, \* [Orders -> Nat], cents the gateway has given back
  init,     \* [Orders -> InitPc], the buyer's initialise request
  confirm,  \* orders whose return page got "success" from verify
  mail,     \* [Orders -> [pc, copy]], deliverPaidOrderEmails
  resend,   \* [Orders -> [busy, copy]], resendReceipt / resendTickets
  refund    \* [Admins -> [Orders -> [pc, amount]]], refundPaidOrder

vars == <<order, payment, sold, issued, ticket, earned, reversed, refunded,
          again, rebooked, redeemed, used, charge, returned, init, confirm, mail, resend, refund>>

books   == <<earned, reversed, refunded, again, rebooked>>
coupon  == <<redeemed, used>>
gateway == <<charge, returned>>
mails   == <<mail, resend>>

NoMail   == [pc |-> "idle", copy |-> NoPayment]
NoResend == [busy |-> FALSE, copy |-> NoPayment]
NoRefund == [pc |-> "idle", amount |-> 0]

Init ==
  /\ order = [o \in Orders |-> "NONE"]
  /\ payment = [o \in Orders |-> NoPayment]
  /\ sold = [t \in Tiers |-> 0]
  /\ issued = [o \in Orders |-> [t \in Tiers |-> 0]]
  /\ ticket = [o \in Orders |-> "NONE"]
  /\ earned = [o \in Orders |-> 0]
  /\ reversed = [o \in Orders |-> 0]
  /\ refunded = [o \in Orders |-> 0]
  /\ again = {}
  /\ rebooked = {}
  /\ redeemed = {}
  /\ used = 0
  /\ charge = [o \in Orders |-> "none"]
  /\ returned = [o \in Orders |-> 0]
  /\ init = [o \in Orders |-> "idle"]
  /\ confirm = {}
  /\ mail = [o \in Orders |-> NoMail]
  /\ resend = [o \in Orders |-> NoResend]
  /\ refund = [a \in Admins |-> [o \in Orders |-> NoRefund]]

-----------------------------------------------------------------------------
(* Helpers of the transactions *)

ItemTiers(o) == {t \in Tiers : Lines[o][t] > 0}

\* Mutant: some seat is left, whatever the quantity asked for.
InventoryForAnySeat(o) == \A t \in ItemTiers(o) : sold[t] < Capacity[t]

\* remaining >= qty for every line, under the tiers' row locks.
InventoryFor(o) ==
  \A t \in ItemTiers(o) : Lines[o][t] <= Capacity[t] - sold[t]

\* Mutant: one seat per line, whatever its quantity.
TakeOnePerLine(o) ==
  [t \in Tiers |-> sold[t] + IF Lines[o][t] > 0 THEN 1 ELSE 0]

Take(o) == [t \in Tiers |-> sold[t] + Lines[o][t]]

\* Math.max(0, quantitySold - qty)
Restock(o) ==
  [t \in Tiers |-> IF sold[t] >= Lines[o][t] THEN sold[t] - Lines[o][t] ELSE 0]

\* Mutant: tickets are issued without counting those that exist.
NoTicketsCounted(o) == TRUE

NoTickets(o) == \A t \in Tiers : issued[o][t] = 0
AddLines(o) == [t \in Tiers |-> issued[o][t] + Lines[o][t]]

\* CouponsService.redeem, under the coupon's row lock.
Redeem(o) ==
  IF o \in CouponOrders
  THEN /\ used < CouponLimit
       /\ used' = used + 1
       /\ redeemed' = redeemed \cup {o}
  ELSE UNCHANGED coupon

\* CouponsService.rollbackRedemption: no row, nothing to give back.
RollbackRedemption(o) ==
  IF o \in redeemed
  THEN /\ used' = IF used > 0 THEN used - 1 ELSE 0
       /\ redeemed' = redeemed \ {o}
  ELSE UNCHANGED coupon

\* Mutant: the gross amount is credited.
EnsureGrossEarnings(o) ==
  earned' = [earned EXCEPT ![o] = IF @ = 0 THEN Amount[o] ELSE @]

\* insert ... orIgnore on the key earn:order:<id>; no entry for net <= 0.
EnsureOrderEarnings(o) ==
  earned' = [earned EXCEPT ![o] = IF @ = 0 THEN Net(o) ELSE @]

\* round(earn * refundTotal / paidTotal), all of it for a full refund.
Reversal(o, r) ==
  IF r >= Amount[o] THEN Net(o)
  ELSE (2 * Net(o) * r + Amount[o]) \div (2 * Amount[o])

\* Mutant: what the buyer gets back is debited, not the organizer's share.
ReverseGross(o, r) ==
  reversed' = [reversed EXCEPT ![o] = IF earned[o] > 0 /\ @ = 0 THEN r ELSE @]

\* Mutant: no idempotency key.
ReverseEveryTime(o, r) ==
  reversed' = [reversed EXCEPT ![o] = IF earned[o] > 0 THEN @ + Reversal(o, r) ELSE @]

\* insert ... orIgnore on refund:order:<id>; needs the earnings entry.
EnsureOrderRefundReversal(o, r) ==
  reversed' = [reversed EXCEPT
                 ![o] = IF earned[o] > 0 /\ @ = 0 THEN Reversal(o, r) ELSE @]

-----------------------------------------------------------------------------
(* finalizeSuccessfulPayment: one transaction under the locks of payment,   *)
(* order and tiers.  It has no effect when the order is PAID and its        *)
(* payment SUCCESS, and rolls back when a tier lacks the seats.             *)

AlreadyFinal(o) == order[o] = "PAID" /\ payment[o].status = "SUCCESS"

Finalize(o) ==
  /\ ~AlreadyFinal(o)
  /\ InventoryFor(o)
  /\ sold' = Take(o)
  /\ order' = [order EXCEPT ![o] = "PAID"]
  /\ payment' = [payment EXCEPT ![o].status = "SUCCESS"]
  /\ EnsureOrderEarnings(o)
  /\ IF NoTickets(o)
     THEN /\ issued' = [issued EXCEPT ![o] = AddLines(o)]
          /\ ticket' = [ticket EXCEPT ![o] = "ISSUED"]
          /\ mail' = [mail EXCEPT ![o] = [@ EXCEPT !.pc = "start"]]
     ELSE UNCHANGED <<issued, ticket, mail>>
  /\ rebooked' = IF order[o] = "PAID" THEN rebooked \cup {o} ELSE rebooked
  /\ UNCHANGED <<reversed, refunded, again>>

-----------------------------------------------------------------------------
(* Starting a purchase *)

\* The order is inserted PENDING with its payment; seats are only looked at.
Insert(o) ==
  /\ order[o] = "NONE"
  /\ InventoryFor(o)
  /\ order' = [order EXCEPT ![o] = "PENDING"]
  /\ payment' = [payment EXCEPT ![o].status = "INITIATED"]
  /\ UNCHANGED <<sold, issued, ticket, books, gateway, confirm, mails, refund>>

InitializePaystackCheckout(o) ==
  /\ Kind[o] = "paystack"
  /\ Insert(o)
  /\ Redeem(o)
  /\ init' = [init EXCEPT ![o] = IF Amount[o] = 0 THEN "finalize" ELSE "gateway"]

InitializeCompCheckout(o) ==
  /\ Kind[o] = "comp"
  /\ Insert(o)
  /\ init' = [init EXCEPT ![o] = "finalize"]
  /\ UNCHANGED coupon

\* The in-band "free_order" finalisation, a transaction of its own.
FinalizeFreeOrder(o) ==
  /\ init[o] = "finalize"
  /\ init' = [init EXCEPT ![o] = "returned"]
  /\ \/ Finalize(o)
     \/ /\ ~InventoryFor(o)
        /\ UNCHANGED <<order, payment, sold, issued, ticket, books, mail>>
  /\ UNCHANGED <<coupon, gateway, confirm, resend, refund>>

\* The gateway opens the transaction; the buyer gets its URL after the save.
GatewayAccepts(o) ==
  /\ init[o] = "gateway"
  /\ init' = [init EXCEPT ![o] = "returned"]
  /\ payment' = [payment EXCEPT ![o].status = "AUTH_REQUIRED"]
  /\ charge' = [charge EXCEPT ![o] = "open"]
  /\ UNCHANGED <<order, sold, issued, ticket, books, coupon, returned, confirm,
                 mails, refund>>

\* markOrderPaymentFailed.  The coupon redemption stays.
GatewayRefuses(o) ==
  /\ init[o] = "gateway"
  /\ init' = [init EXCEPT ![o] = "returned"]
  /\ order' = [order EXCEPT ![o] = "FAILED"]
  /\ payment' = [payment EXCEPT ![o] = [NoPayment EXCEPT !.status = "FAILED"]]
  /\ UNCHANGED <<sold, issued, ticket, books, coupon, gateway, confirm, mails,
                 refund>>

\* fetch throws: nothing is written, the order stays PENDING.
GatewayUnreachable(o) ==
  /\ init[o] = "gateway"
  /\ init' = [init EXCEPT ![o] = "returned"]
  /\ UNCHANGED <<order, payment, sold, issued, ticket, books, coupon, gateway,
                 confirm, mails, refund>>

\* completeDemoCheckout sells in the one transaction and mails nothing.
CompleteDemoCheckout(o) ==
  /\ Kind[o] = "demo"
  /\ order[o] = "NONE"
  /\ InventoryFor(o)
  /\ Redeem(o)
  /\ sold' = Take(o)
  /\ order' = [order EXCEPT ![o] = "PAID"]
  /\ payment' = [payment EXCEPT ![o].status = "SUCCESS"]
  /\ EnsureOrderEarnings(o)
  /\ issued' = [issued EXCEPT ![o] = AddLines(o)]
  /\ ticket' = [ticket EXCEPT ![o] = "ISSUED"]
  /\ UNCHANGED <<reversed, refunded, again, rebooked, gateway, init, confirm,
                 mails, refund>>

-----------------------------------------------------------------------------
(* The charge, and the two ways its success reaches the backend *)

BuyerPays(o) ==
  /\ charge[o] = "open"
  /\ charge' = [charge EXCEPT ![o] = "paid"]
  /\ UNCHANGED <<order, payment, sold, issued, ticket, books, coupon, returned,
                 init, confirm, mails, refund>>

\* Mutant: the webhook leaves the order to a return page that has verified it.
WebhookDefers(o) ==
  /\ charge[o] = "paid"
  /\ o \notin confirm
  /\ Finalize(o)
  /\ UNCHANGED <<coupon, gateway, init, confirm, resend, refund>>

\* processPaystackWebhook for charge.success: retried and duplicated at will,
\* also after a refund.
Webhook(o) ==
  /\ charge[o] = "paid"
  /\ Finalize(o)
  /\ UNCHANGED <<coupon, gateway, init, confirm, resend, refund>>

\* The return page: verify answers "success" until all of it is given back.
ConfirmVerify(o) ==
  /\ charge[o] = "paid"
  /\ returned[o] < Amount[o]
  /\ o \notin confirm
  /\ confirm' = confirm \cup {o}
  /\ UNCHANGED <<order, payment, sold, issued, ticket, books, coupon, gateway,
                 init, mails, refund>>

ConfirmFinalize(o) ==
  /\ o \in confirm
  /\ confirm' = confirm \ {o}
  /\ \/ Finalize(o)
     \/ /\ AlreadyFinal(o) \/ ~InventoryFor(o)
        /\ UNCHANGED <<order, payment, sold, issued, ticket, books, mail>>
  /\ UNCHANGED <<coupon, gateway, init, resend, refund>>

-----------------------------------------------------------------------------
(* Mails.  "receipt" stands for rawPayload.receiptEmailSentAt; the status    *)
(* column travels with every save of the copy.                              *)

MailRead(o) ==
  /\ o \in Mailed
  /\ mail[o].pc = "start"
  /\ mail' = [mail EXCEPT ![o] =
       [pc   |-> IF payment[o].receipt THEN "ticket" ELSE "receipt",
        copy |-> payment[o]]]
  /\ UNCHANGED <<order, payment, sold, issued, ticket, books, coupon, gateway,
                 init, confirm, resend, refund>>

MailReceipt(o) ==
  /\ mail[o].pc = "receipt"
  /\ \E sent \in BOOLEAN :
       payment' = IF sent
                  THEN [payment EXCEPT ![o] = [mail[o].copy EXCEPT !.receipt = TRUE]]
                  ELSE payment
  /\ mail' = [mail EXCEPT ![o] = [pc |-> "ticket", copy |-> NoPayment]]
  /\ UNCHANGED <<order, sold, issued, ticket, books, coupon, gateway, init,
                 confirm, resend, refund>>

\* The ticket mail has gone; the payment is read afresh to mark it.
MailTicket(o) ==
  /\ mail[o].pc = "ticket"
  /\ mail' = [mail EXCEPT ![o] = [pc |-> "mark", copy |-> payment[o]]]
  /\ UNCHANGED <<order, payment, sold, issued, ticket, books, coupon, gateway,
                 init, confirm, resend, refund>>

MailMark(o) ==
  /\ mail[o].pc = "mark"
  /\ payment' = [payment EXCEPT ![o] = [mail[o].copy EXCEPT !.ticket = TRUE]]
  /\ mail' = [mail EXCEPT ![o] = NoMail]
  /\ UNCHANGED <<order, sold, issued, ticket, books, coupon, gateway, init,
                 confirm, resend, refund>>

MailTicketFails(o) ==
  /\ mail[o].pc = "ticket"
  /\ mail' = [mail EXCEPT ![o] = NoMail]
  /\ UNCHANGED <<order, payment, sold, issued, ticket, books, coupon, gateway,
                 init, confirm, resend, refund>>

\* resendReceipt (paid or refunded) and the receipt part of resendTickets
\* (paid, no receipt yet): both look for a payment that is SUCCESS.
ResendRead(o) ==
  /\ o \in Mailed
  /\ ~resend[o].busy
  /\ payment[o].status = "SUCCESS"
  /\ \/ order[o] \in {"PAID", "REFUNDED"}
     \/ order[o] = "PAID" /\ ~payment[o].receipt /\ ~NoTickets(o)
  /\ resend' = [resend EXCEPT ![o] = [busy |-> TRUE, copy |-> payment[o]]]
  /\ UNCHANGED <<order, payment, sold, issued, ticket, books, coupon, gateway,
                 init, confirm, mail, refund>>

ResendSave(o) ==
  /\ resend[o].busy
  /\ payment' = [payment EXCEPT ![o] = [resend[o].copy EXCEPT !.receipt = TRUE]]
  /\ resend' = [resend EXCEPT ![o] = NoResend]
  /\ UNCHANGED <<order, sold, issued, ticket, books, coupon, gateway, init,
                 confirm, mail, refund>>

-----------------------------------------------------------------------------
(* Admission, and the refund *)

\* A scanner's conditional UPDATE ... WHERE status = 'ISSUED'.
CheckIn(o) ==
  /\ ticket[o] = "ISSUED"
  /\ ticket' = [ticket EXCEPT ![o] = "CHECKED_IN"]
  /\ UNCHANGED <<order, payment, sold, issued, books, coupon, gateway, init,
                 confirm, mails, refund>>

\* Mutant: no order is given back by the gateway.
SkipsGatewayAlways(o) == TRUE

\* Demo orders were never charged.
SkipsGateway(o) == Kind[o] = "demo"

\* The unlocked read and its checks.
RefundCheck(a, o) ==
  /\ refund[a][o].pc = "idle"
  /\ order[o] = "PAID"
  /\ ticket[o] # "CHECKED_IN"
  /\ SkipsGateway(o) \/ payment[o].status = "SUCCESS"
  /\ \E r \in 1..Amount[o] :
       refund' = [refund EXCEPT ![a][o] =
         [pc |-> IF SkipsGateway(o) THEN "called" ELSE "checked", amount |-> r]]
  /\ UNCHANGED <<order, payment, sold, issued, ticket, books, coupon, gateway,
                 init, confirm, mails>>

\* callPaystackRefund: the gateway gives back no more than was charged.
RefundGateway(a, o) ==
  /\ refund[a][o].pc = "checked"
  /\ IF returned[o] + refund[a][o].amount <= Amount[o]
     THEN /\ returned' = [returned EXCEPT ![o] = @ + refund[a][o].amount]
          /\ refund' = [refund EXCEPT ![a][o].pc = "called"]
     ELSE /\ refund' = [refund EXCEPT ![a][o] = NoRefund]
          /\ UNCHANGED returned
  /\ UNCHANGED <<order, payment, sold, issued, ticket, books, coupon, charge,
                 init, confirm, mails>>

\* The locked transaction; it rechecks the order's status and nothing else.
RefundCommit(a, o) ==
  /\ refund[a][o].pc = "called"
  /\ order[o] = "PAID"
  /\ ~JoinedLockRejected
  /\ sold' = Restock(o)
  /\ ticket' = [ticket EXCEPT ![o] = IF @ = "NONE" THEN @ ELSE "VOID"]
  /\ order' = [order EXCEPT ![o] = "REFUNDED"]
  /\ refunded' = [refunded EXCEPT ![o] = refund[a][o].amount]
  /\ again' = IF refunded[o] > 0 THEN again \cup {o} ELSE again
  /\ payment' = [payment EXCEPT ![o].status = IF @ = "SUCCESS" THEN "REFUNDED" ELSE @]
  /\ EnsureOrderRefundReversal(o, refund[a][o].amount)
  /\ RollbackRedemption(o)
  /\ refund' = [refund EXCEPT ![a][o] = NoRefund]
  /\ UNCHANGED <<issued, earned, rebooked, gateway, init, confirm, mails>>

\* The transaction throws and rolls back; the money is already on its way.
RefundThrows(a, o) ==
  /\ refund[a][o].pc = "called"
  /\ order[o] # "PAID" \/ JoinedLockRejected
  /\ refund' = [refund EXCEPT ![a][o] = NoRefund]
  /\ UNCHANGED <<order, payment, sold, issued, ticket, books, coupon, gateway,
                 init, confirm, mails>>

\* The process stops during a refund; what the gateway was asked for stays.
RefundStops(a, o) ==
  /\ refund[a][o].pc # "idle"
  /\ refund' = [refund EXCEPT ![a][o] = NoRefund]
  /\ UNCHANGED <<order, payment, sold, issued, ticket, books, coupon, gateway,
                 init, confirm, mails>>

-----------------------------------------------------------------------------
Buy(o) ==
  \/ InitializePaystackCheckout(o) \/ InitializeCompCheckout(o)
  \/ CompleteDemoCheckout(o)
  \/ FinalizeFreeOrder(o)
  \/ GatewayAccepts(o) \/ GatewayRefuses(o) \/ GatewayUnreachable(o)
  \/ BuyerPays(o) \/ Webhook(o) \/ ConfirmVerify(o) \/ ConfirmFinalize(o)

Deliver(o) ==
  \/ MailRead(o) \/ MailReceipt(o) \/ MailTicket(o) \/ MailMark(o)
  \/ MailTicketFails(o)
  \/ ResendRead(o) \/ ResendSave(o)

Refund(a, o) ==
  \/ RefundCheck(a, o) \/ RefundGateway(a, o) \/ RefundCommit(a, o)
  \/ RefundThrows(a, o) \/ RefundStops(a, o)

Next ==
  \/ \E o \in Orders : Buy(o) \/ Deliver(o) \/ CheckIn(o)
  \/ \E a \in Admins, o \in Orders : Refund(a, o)

Spec == Init /\ [][Next]_vars

-----------------------------------------------------------------------------
(* What the purchase promises *)

\* Types of the rows and of the requests in flight.
TypeOK ==
  /\ order \in [Orders -> OrderStatus]
  /\ payment \in [Orders -> Payment]
  /\ sold \in [Tiers -> Nat]
  /\ issued \in [Orders -> [Tiers -> Nat]]
  /\ ticket \in [Orders -> TicketStatus]
  /\ earned \in [Orders -> Nat]
  /\ reversed \in [Orders -> Nat]
  /\ refunded \in [Orders -> Nat]
  /\ again \subseteq Orders
  /\ rebooked \subseteq Orders
  /\ redeemed \subseteq CouponOrders
  /\ used \in Nat
  /\ charge \in [Orders -> {"none", "open", "paid"}]
  /\ returned \in [Orders -> Nat]
  /\ init \in [Orders -> InitPc]
  /\ confirm \subseteq Orders
  /\ mail \in [Orders -> [pc : MailPc, copy : Payment]]
  /\ resend \in [Orders -> [busy : BOOLEAN, copy : Payment]]
  /\ refund \in [Admins -> [Orders -> [pc : RefundPc, amount : Nat]]]

\* Buyers who race for the last seats of a tier never get more than it has,
\* although initialising a purchase reserves nothing.
NoOversell == \A t \in Tiers : sold[t] <= Capacity[t]

\* The seats of the PAID orders in a tier, each order's numbered from 1.
PaidSeats(t) ==
  UNION {{o} \X (1..Lines[o][t]) : o \in {p \in Orders : order[p] = "PAID"}}

\* quantitySold never falls below the seats of the orders that are PAID, and
\* is exactly those seats unless an order of the tier was finalised while it
\* was PAID.  Only a mail's stale copy of a refunded payment lets that happen.
SoldMatchesPaid ==
  \A t \in Tiers :
    /\ sold[t] >= Cardinality(PaidSeats(t))
    /\ (\A o \in rebooked : Lines[o][t] = 0) => sold[t] = Cardinality(PaidSeats(t))

\* Webhook and return page may both finalise an order: its tickets are there
\* once, and they are there as soon as it is PAID.
TicketsIssuedOnce ==
  \A o \in Orders :
    IF order[o] \in {"PAID", "REFUNDED"}
    THEN issued[o] = Lines[o]
    ELSE NoTickets(o)

\* The door admits exactly the tickets of PAID orders of which nothing has been
\* given back: the success of a charge that is reported again after a refund
\* makes the order PAID, and revives no ticket.
AdmitsUnrefunded ==
  \A o \in Orders :
    /\ ticket[o] \in {"ISSUED", "CHECKED_IN"} <=> order[o] = "PAID" /\ refunded[o] = 0
    /\ ticket[o] = "VOID" <=> refunded[o] > 0

\* The organizer is credited once for an order that was ever paid, and debited
\* by the share of what the order row says was given back.  Finalising the
\* order again credits nothing; the row of a second refund is not followed.
LedgerFollowsOrder ==
  \A o \in Orders :
    /\ earned[o] = IF order[o] \in {"PAID", "REFUNDED"} THEN Net(o) ELSE 0
    /\ refunded[o] = 0 => reversed[o] = 0
    /\ refunded[o] > 0 /\ o \notin again => reversed[o] = Reversal(o, refunded[o])

\* However often an order is paid and refunded, no more is taken back from
\* the organizer than the one credit.
NeverDebitedMoreThanEarned ==
  \A o \in Orders : reversed[o] <= earned[o] /\ earned[o] <= Net(o)

\* Whatever refunds of a charged order fail, repeat or are cut off, its row
\* records no more than the gateway has given back, and it is not REFUNDED
\* before some of it is.
MoneyBackBeforeRefunded ==
  \A o \in Orders :
    /\ Kind[o] # "demo" => refunded[o] <= returned[o]
    /\ order[o] = "REFUNDED" => refunded[o] > 0

\* usedCount is the number of redemptions and stays within usageLimit.
CouponBudget ==
  /\ used = Cardinality(redeemed)
  /\ used <= CouponLimit

\* The status of an order moves forward; the one way back is that a refunded
\* order is finalised again, since finalising looks for PAID only.
OrderMovesForward ==
  [][\A o \in Orders : order'[o] # order[o] =>
       \/ <<order[o], order'[o]>> \in
            {<<"NONE", "PENDING">>, <<"NONE", "PAID">>, <<"PENDING", "PAID">>,
             <<"PENDING", "FAILED">>, <<"PAID", "REFUNDED">>}
       \/ /\ <<order[o], order'[o]>> = <<"REFUNDED", "PAID">>
          /\ charge[o] = "paid" /\ refunded[o] > 0]_vars

-----------------------------------------------------------------------------
(* The abstract purchase: what is left of an order when its rows, mails and *)
(* requests are forgotten.                                                  *)

PhaseOf(status) ==
  CASE status = "NONE"     -> "none"
    [] status = "PENDING"  -> "open"
    [] status = "FAILED"   -> "closed"
    [] status = "PAID"     -> "sold"
    [] status = "REFUNDED" -> "refunded"

SalePromise == INSTANCE Sale WITH
  Price   <- Amount,
  Credit  <- [o \in Orders |-> Net(o)],
  phase   <- [o \in Orders |-> PhaseOf(order[o])],
  seats   <- sold,
  balance <- [o \in Orders |-> earned[o] - reversed[o]],
  back    <- {o \in Orders : refunded[o] > 0}

\* Checkout implements Sale: duplicate finalisations of an order that was never
\* refunded, failed refunds and gateway calls, and mails are stutters, and every
\* other step moves order, seats and ledger together.
ImplementsSale == SalePromise!Spec

-----------------------------------------------------------------------------
(* Liveness.  The gateway retries a webhook until it is answered 2xx, and    *)
(* the process runs the requests it has accepted; buyers owe nothing.        *)

Fairness ==
  \A o \in Orders :
    /\ WF_vars(Webhook(o))
    /\ WF_vars(FinalizeFreeOrder(o))
    /\ WF_vars(GatewayAccepts(o) \/ GatewayRefuses(o) \/ GatewayUnreachable(o))

FairSpec == Spec /\ Fairness

\* Whoever is charged gets the order, unless other orders have taken the seats.
ChargedIsServed ==
  \A o \in Orders :
    charge[o] = "paid" ~> order[o] \in {"PAID", "REFUNDED"} \/ ~InventoryFor(o)

=============================================================================

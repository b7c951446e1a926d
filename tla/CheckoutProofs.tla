--------------------------- MODULE CheckoutProofs ---------------------------
(* Theorems about Checkout and RefundRequests, for every set of orders, tiers, *)
(* administrators and tabs. *)
EXTENDS RefundRequests, FiniteSetTheorems, TLAPS

\* What the proofs need to know of the constants.
LEMMA ConstantTypes ==
  /\ Lines \in [Orders -> [Tiers -> Nat]]
  /\ Capacity \in [Tiers -> Nat]
  /\ Amount \in [Orders -> Nat]
  /\ Fee \in [Orders -> Nat]
  /\ CouponOrders \subseteq Orders
  BY CheckoutAssumption

LEMMA NetType == \A o \in Orders : Net(o) \in Nat
  BY ConstantTypes DEF Net

-----------------------------------------------------------------------------
(* Type correctness *)

LEMMA InitType == Init => TypeOK
  BY DEF Init, TypeOK, OrderStatus, PaymentStatus, Payment, TicketStatus, InitPc,
         MailPc, RefundPc, NoPayment, NoMail, NoResend, NoRefund

\* Setting one field of a payment row, or of a copy of it, keeps its type.
LEMMA PaymentType ==
  ASSUME NEW p \in [Orders -> Payment], NEW o \in Orders, NEW s \in PaymentStatus
  PROVE  [p EXCEPT ![o].status = s] \in [Orders -> Payment]
<1>1. [p[o] EXCEPT !.status = s] \in Payment
  BY DEF Payment
<1> QED BY <1>1

LEMMA CopyType ==
  ASSUME NEW copy \in Payment
  PROVE  /\ [copy EXCEPT !.receipt = TRUE] \in Payment
         /\ [copy EXCEPT !.ticket = TRUE] \in Payment
  BY DEF Payment

\* What finalizeSuccessfulPayment writes is well typed.
LEMMA FinalizeType ==
  ASSUME TypeOK, NEW o \in Orders, Finalize(o)
  PROVE  /\ order' \in [Orders -> OrderStatus]
         /\ payment' \in [Orders -> Payment]
         /\ sold' \in [Tiers -> Nat]
         /\ issued' \in [Orders -> [Tiers -> Nat]]
         /\ ticket' \in [Orders -> TicketStatus]
         /\ earned' \in [Orders -> Nat]
         /\ mail' \in [Orders -> [pc : MailPc, copy : Payment]]
         /\ rebooked' \subseteq Orders
         /\ UNCHANGED <<reversed, refunded, again>>
<1>1. order' \in [Orders -> OrderStatus]
  BY DEF TypeOK, Finalize, OrderStatus
<1>2. payment' \in [Orders -> Payment]
  BY PaymentType DEF TypeOK, Finalize, PaymentStatus
<1>3. sold' \in [Tiers -> Nat]
  <2>1. sold' = [t \in Tiers |-> sold[t] + Lines[o][t]]
    BY DEF Finalize, Take
  <2>2. \A t \in Tiers : sold[t] + Lines[o][t] \in Nat
    BY ConstantTypes DEF TypeOK
  <2> QED BY <2>1, <2>2
<1>4. issued' \in [Orders -> [Tiers -> Nat]]
  <2>1. \A t \in Tiers : issued[o][t] + Lines[o][t] \in Nat
    BY ConstantTypes DEF TypeOK
  <2>2. AddLines(o) \in [Tiers -> Nat] BY <2>1 DEF AddLines
  <2>3. issued' = [issued EXCEPT ![o] = AddLines(o)] \/ issued' = issued
    BY DEF Finalize
  <2>4. issued \in [Orders -> [Tiers -> Nat]] BY DEF TypeOK
  <2> QED BY <2>2, <2>3, <2>4
<1>5. ticket' \in [Orders -> TicketStatus]
  BY DEF TypeOK, Finalize, TicketStatus
<1>6. earned' \in [Orders -> Nat]
  <2>1. earned' = [earned EXCEPT ![o] = IF @ = 0 THEN Net(o) ELSE @]
    BY DEF Finalize, EnsureOrderEarnings
  <2> QED BY <2>1, NetType DEF TypeOK
<1>7. mail' \in [Orders -> [pc : MailPc, copy : Payment]]
  <2>1. CASE ~NoTickets(o)
    BY <2>1 DEF TypeOK, Finalize
  <2>2. CASE NoTickets(o)
    <3>1. mail' = [mail EXCEPT ![o] = [mail[o] EXCEPT !.pc = "start"]]
      BY <2>2 DEF Finalize
    <3> QED BY <3>1 DEF TypeOK, MailPc
  <2> QED BY <2>1, <2>2
<1>8. rebooked' \subseteq Orders
  BY DEF TypeOK, Finalize
<1> QED BY <1>1, <1>2, <1>3, <1>4, <1>5, <1>6, <1>7, <1>8 DEF Finalize

LEMMA RedeemType ==
  ASSUME TypeOK, NEW o \in Orders, Redeem(o)
  PROVE  redeemed' \subseteq CouponOrders /\ used' \in Nat
  BY DEF TypeOK, Redeem, coupon

LEMMA ReversalType ==
  ASSUME NEW o \in Orders, NEW r \in Nat
  PROVE  Reversal(o, r) \in Nat
<1>1. CASE r >= Amount[o]
  BY <1>1, NetType DEF Reversal
<1>2. CASE ~(r >= Amount[o])
  <2>1. Amount[o] \in Nat /\ Net(o) \in Nat /\ Amount[o] > 0
    BY <1>2, ConstantTypes, NetType
  <2>2. PICK n \in Nat : n = Net(o) * r
    BY <2>1
  <2>3. 2 * Net(o) * r = 2 * n
    BY <2>1, <2>2
  <2>4. (2 * n + Amount[o]) \div (2 * Amount[o]) \in Nat
    BY <2>1
  <2> QED BY <1>2, <2>3, <2>4 DEF Reversal
<1> QED BY <1>1, <1>2

\* Every action keeps the types of the rows and requests it writes.
LEMMA BuyType ==
  ASSUME TypeOK, NEW o \in Orders, Buy(o)
  PROVE  TypeOK'
<1>1. CASE InitializePaystackCheckout(o)
  <2> USE <1>1 DEF InitializePaystackCheckout, Insert
  <2>1. order' \in [Orders -> OrderStatus]
    BY DEF TypeOK, OrderStatus
  <2>2. payment' \in [Orders -> Payment]
    BY PaymentType DEF TypeOK, PaymentStatus
  <2>3. init' \in [Orders -> InitPc]
    BY DEF TypeOK, InitPc
  <2> QED BY <2>1, <2>2, <2>3, RedeemType DEF TypeOK, books, gateway, mails
<1>2. CASE InitializeCompCheckout(o)
  <2> USE <1>2 DEF InitializeCompCheckout, Insert
  <2>1. order' \in [Orders -> OrderStatus]
    BY DEF TypeOK, OrderStatus
  <2>2. payment' \in [Orders -> Payment]
    BY PaymentType DEF TypeOK, PaymentStatus
  <2>3. init' \in [Orders -> InitPc]
    BY DEF TypeOK, InitPc
  <2> QED BY <2>1, <2>2, <2>3 DEF TypeOK, books, coupon, gateway, mails
<1>3. CASE FinalizeFreeOrder(o)
  <2>1. init' \in [Orders -> InitPc]
    BY <1>3 DEF TypeOK, FinalizeFreeOrder, InitPc
  <2>2. CASE Finalize(o)
    BY <1>3, <2>1, <2>2, FinalizeType DEF TypeOK, FinalizeFreeOrder, coupon, gateway
  <2>3. CASE ~Finalize(o)
    BY <1>3, <2>1, <2>3 DEF TypeOK, FinalizeFreeOrder, books, coupon, gateway
  <2> QED BY <2>2, <2>3
<1>4. CASE GatewayAccepts(o)
  <2> USE <1>4 DEF GatewayAccepts
  <2>1. init' \in [Orders -> InitPc]
    BY DEF TypeOK, InitPc
  <2>2. payment' \in [Orders -> Payment]
    BY PaymentType DEF TypeOK, PaymentStatus
  <2>3. charge' \in [Orders -> {"none", "open", "paid"}]
    BY DEF TypeOK
  <2> QED BY <2>1, <2>2, <2>3 DEF TypeOK, books, coupon, mails
<1>5. CASE GatewayRefuses(o)
  <2> USE <1>5 DEF GatewayRefuses
  <2>1. init' \in [Orders -> InitPc]
    BY DEF TypeOK, InitPc
  <2>2. order' \in [Orders -> OrderStatus]
    BY DEF TypeOK, OrderStatus
  <2>3. payment' \in [Orders -> Payment]
    BY DEF TypeOK, Payment, PaymentStatus, NoPayment
  <2> QED BY <2>1, <2>2, <2>3 DEF TypeOK, books, coupon, gateway, mails
<1>6. CASE GatewayUnreachable(o)
  <2>1. init' \in [Orders -> InitPc]
    BY <1>6 DEF TypeOK, GatewayUnreachable, InitPc
  <2> QED BY <1>6, <2>1 DEF TypeOK, GatewayUnreachable, books, coupon, gateway, mails
<1>7. CASE CompleteDemoCheckout(o)
  <2>1. \A t \in Tiers : sold[t] + Lines[o][t] \in Nat
    BY ConstantTypes DEF TypeOK
  <2>2. AddLines(o) \in [Tiers -> Nat]
    BY ConstantTypes DEF TypeOK, AddLines
  <2>3. order' \in [Orders -> OrderStatus]
    BY <1>7 DEF CompleteDemoCheckout, TypeOK, OrderStatus
  <2>4. payment' \in [Orders -> Payment]
    BY <1>7, PaymentType DEF CompleteDemoCheckout, TypeOK, PaymentStatus
  <2>5. sold' \in [Tiers -> Nat]
    BY <1>7, <2>1 DEF CompleteDemoCheckout, Take
  <2>6. earned' = [earned EXCEPT ![o] = IF @ = 0 THEN Net(o) ELSE @]
    BY <1>7 DEF CompleteDemoCheckout, EnsureOrderEarnings
  <2>7. earned' \in [Orders -> Nat]
    BY <2>6, NetType DEF TypeOK
  <2>8. issued' \in [Orders -> [Tiers -> Nat]]
    BY <1>7, <2>2 DEF CompleteDemoCheckout, TypeOK
  <2>9. ticket' \in [Orders -> TicketStatus]
    BY <1>7 DEF CompleteDemoCheckout, TypeOK, TicketStatus
  <2>10. redeemed' \subseteq CouponOrders /\ used' \in Nat
    BY <1>7, RedeemType DEF CompleteDemoCheckout
  <2> QED
    BY <1>7, <2>3, <2>4, <2>5, <2>7, <2>8, <2>9, <2>10
       DEF CompleteDemoCheckout, TypeOK, gateway, mails
<1>8. CASE BuyerPays(o)
  <2>1. charge' \in [Orders -> {"none", "open", "paid"}]
    BY <1>8 DEF TypeOK, BuyerPays
  <2> QED BY <1>8, <2>1 DEF TypeOK, BuyerPays, books, coupon, mails
<1>9. CASE Webhook(o)
  BY <1>9, FinalizeType DEF TypeOK, Webhook, coupon, gateway
<1>10. CASE ConfirmVerify(o)
  <2>1. confirm' \subseteq Orders
    BY <1>10 DEF TypeOK, ConfirmVerify
  <2> QED BY <1>10, <2>1 DEF TypeOK, ConfirmVerify, books, coupon, gateway, mails
<1>11. CASE ConfirmFinalize(o)
  <2>1. CASE Finalize(o)
    BY <1>11, <2>1, FinalizeType DEF TypeOK, ConfirmFinalize, coupon, gateway
  <2>2. CASE ~Finalize(o)
    BY <1>11, <2>2 DEF TypeOK, ConfirmFinalize, books, coupon, gateway
  <2> QED BY <2>1, <2>2
<1> QED
  BY <1>1, <1>2, <1>3, <1>4, <1>5, <1>6, <1>7, <1>8, <1>9, <1>10, <1>11 DEF Buy

LEMMA DeliverType ==
  ASSUME TypeOK, NEW o \in Orders, Deliver(o)
  PROVE  TypeOK'
<1>1. CASE MailRead(o)
  <2>1. mail' \in [Orders -> [pc : MailPc, copy : Payment]]
    BY <1>1 DEF TypeOK, MailRead, MailPc
  <2> QED BY <1>1, <2>1 DEF TypeOK, MailRead, books, coupon, gateway
<1>2. CASE MailReceipt(o)
  <2>1. payment' \in [Orders -> Payment]
    <3>1. [mail[o].copy EXCEPT !.receipt = TRUE] \in Payment
      BY CopyType DEF TypeOK
    <3>2. \/ payment' = [payment EXCEPT ![o] = [mail[o].copy EXCEPT !.receipt = TRUE]]
          \/ payment' = payment
      BY <1>2 DEF MailReceipt
    <3> QED BY <3>1, <3>2 DEF TypeOK
  <2>2. mail' \in [Orders -> [pc : MailPc, copy : Payment]]
    BY <1>2 DEF TypeOK, MailReceipt, MailPc, NoPayment, Payment, PaymentStatus
  <2> QED BY <1>2, <2>1, <2>2 DEF TypeOK, MailReceipt, books, coupon, gateway
<1>3. CASE MailTicket(o)
  <2>1. mail' \in [Orders -> [pc : MailPc, copy : Payment]]
    BY <1>3 DEF TypeOK, MailTicket, MailPc
  <2> QED BY <1>3, <2>1 DEF TypeOK, MailTicket, books, coupon, gateway
<1>4. CASE MailMark(o)
  <2>1. payment' \in [Orders -> Payment]
    BY <1>4, CopyType DEF TypeOK, MailMark
  <2>2. mail' \in [Orders -> [pc : MailPc, copy : Payment]]
    BY <1>4 DEF TypeOK, MailMark, MailPc, NoMail, NoPayment, Payment, PaymentStatus
  <2> QED BY <1>4, <2>1, <2>2 DEF TypeOK, MailMark, books, coupon, gateway
<1>5. CASE MailTicketFails(o)
  <2>1. mail' \in [Orders -> [pc : MailPc, copy : Payment]]
    BY <1>5 DEF TypeOK, MailTicketFails, MailPc, NoMail, NoPayment, Payment,
                PaymentStatus
  <2> QED BY <1>5, <2>1 DEF TypeOK, MailTicketFails, books, coupon, gateway
<1>6. CASE ResendRead(o)
  <2>1. resend' \in [Orders -> [busy : BOOLEAN, copy : Payment]]
    BY <1>6 DEF TypeOK, ResendRead
  <2> QED BY <1>6, <2>1 DEF TypeOK, ResendRead, books, coupon, gateway
<1>7. CASE ResendSave(o)
  <2>1. payment' \in [Orders -> Payment]
    BY <1>7, CopyType DEF TypeOK, ResendSave
  <2>2. resend' \in [Orders -> [busy : BOOLEAN, copy : Payment]]
    BY <1>7 DEF TypeOK, ResendSave, NoResend, NoPayment, Payment, PaymentStatus
  <2> QED BY <1>7, <2>1, <2>2 DEF TypeOK, ResendSave, books, coupon, gateway
<1> QED
  BY <1>1, <1>2, <1>3, <1>4, <1>5, <1>6, <1>7 DEF Deliver

LEMMA RefundType ==
  ASSUME TypeOK, NEW a \in Admins, NEW o \in Orders, Refund(a, o)
  PROVE  TypeOK'
<1>1. ASSUME NEW x \in [pc : RefundPc, amount : Nat],
             refund' = [refund EXCEPT ![a][o] = x]
      PROVE  refund' \in [Admins -> [Orders -> [pc : RefundPc, amount : Nat]]]
  BY <1>1 DEF TypeOK
<1>2. NoRefund \in [pc : RefundPc, amount : Nat]
  BY DEF NoRefund, RefundPc
<1>3. CASE RefundCheck(a, o)
  <2>1. PICK r \in 1..Amount[o] :
          refund' = [refund EXCEPT ![a][o] =
            [pc |-> IF SkipsGateway(o) THEN "called" ELSE "checked", amount |-> r]]
    BY <1>3 DEF RefundCheck
  <2>2. r \in Nat
    BY ConstantTypes
  <2>3. refund' \in [Admins -> [Orders -> [pc : RefundPc, amount : Nat]]]
    BY <2>1, <2>2, <1>1 DEF RefundPc
  <2> QED BY <1>3, <2>3 DEF TypeOK, RefundCheck, books, coupon, gateway, mails
<1>4. CASE RefundGateway(a, o)
  <2>1. refund[a][o].amount \in Nat
    BY DEF TypeOK
  <2>2. refund' \in [Admins -> [Orders -> [pc : RefundPc, amount : Nat]]]
    <3>1. CASE refund' = [refund EXCEPT ![a][o] = NoRefund]
      BY <3>1, <1>1, <1>2
    <3>2. CASE refund' = [refund EXCEPT ![a][o].pc = "called"]
      <4>1. [refund[a][o] EXCEPT !.pc = "called"] \in [pc : RefundPc, amount : Nat]
        <5>1. refund[a][o] \in [pc : RefundPc, amount : Nat]
          BY DEF TypeOK
        <5> QED BY <5>1 DEF RefundPc
      <4>2. refund' = [refund EXCEPT ![a][o] = [refund[a][o] EXCEPT !.pc = "called"]]
        BY <3>2 DEF TypeOK
      <4> QED BY <4>1, <4>2, <1>1
    <3> QED BY <1>4, <3>1, <3>2 DEF RefundGateway
  <2>3. returned' \in [Orders -> Nat]
    <3>1. \/ returned' = returned
          \/ returned' = [returned EXCEPT ![o] = returned[o] + refund[a][o].amount]
      BY <1>4 DEF RefundGateway
    <3>2. returned \in [Orders -> Nat]
      BY DEF TypeOK
    <3>3. returned[o] + refund[a][o].amount \in Nat
      BY <2>1, <3>2
    <3> QED BY <3>1, <3>2, <3>3
  <2> QED BY <1>4, <2>2, <2>3 DEF TypeOK, RefundGateway, books, coupon, mails
<1>5. CASE RefundCommit(a, o)
  <2>1. refund[a][o].amount \in Nat
    BY DEF TypeOK
  <2>2. refund' \in [Admins -> [Orders -> [pc : RefundPc, amount : Nat]]]
    BY <1>5, <1>1, <1>2 DEF RefundCommit
  <2>3. sold' \in [Tiers -> Nat]
    <3>1. \A t \in Tiers :
            (IF sold[t] >= Lines[o][t] THEN sold[t] - Lines[o][t] ELSE 0) \in Nat
      BY ConstantTypes DEF TypeOK
    <3> QED BY <1>5, <3>1 DEF RefundCommit, Restock
  <2>4. ticket' \in [Orders -> TicketStatus]
    BY <1>5 DEF TypeOK, RefundCommit, TicketStatus
  <2>5. order' \in [Orders -> OrderStatus]
    BY <1>5 DEF TypeOK, RefundCommit, OrderStatus
  <2>6. refunded' \in [Orders -> Nat]
    BY <1>5, <2>1 DEF TypeOK, RefundCommit
  <2>7. payment' \in [Orders -> Payment]
    <3>1. payment' = [payment EXCEPT ![o].status =
                        IF payment[o].status = "SUCCESS" THEN "REFUNDED"
                        ELSE payment[o].status]
      BY <1>5 DEF RefundCommit
    <3>2. payment[o].status \in PaymentStatus
      BY DEF TypeOK, Payment
    <3> QED BY <3>1, <3>2, PaymentType DEF TypeOK, PaymentStatus
  <2>8. reversed' \in [Orders -> Nat]
    <3>1. reversed' = [reversed EXCEPT ![o] =
                         IF earned[o] > 0 /\ reversed[o] = 0
                         THEN Reversal(o, refund[a][o].amount) ELSE reversed[o]]
      BY <1>5 DEF RefundCommit, EnsureOrderRefundReversal
    <3> QED BY <3>1, <2>1, ReversalType DEF TypeOK
  <2>9. redeemed' \subseteq CouponOrders /\ used' \in Nat
    BY <1>5 DEF TypeOK, RefundCommit, RollbackRedemption, coupon
  <2>10. again' \subseteq Orders
    BY <1>5 DEF TypeOK, RefundCommit
  <2> QED
    BY <1>5, <2>2, <2>3, <2>4, <2>5, <2>6, <2>7, <2>8, <2>9, <2>10
       DEF TypeOK, RefundCommit, gateway, mails
<1>6. CASE RefundThrows(a, o) \/ RefundStops(a, o)
  <2>1. refund' \in [Admins -> [Orders -> [pc : RefundPc, amount : Nat]]]
    BY <1>6, <1>1, <1>2 DEF RefundThrows, RefundStops
  <2> QED BY <1>6, <2>1 DEF TypeOK, RefundThrows, RefundStops, books, coupon, gateway, mails
<1> QED BY <1>3, <1>4, <1>5, <1>6 DEF Refund

LEMMA TypeStep == TypeOK /\ [Next]_vars => TypeOK'
<1> SUFFICES ASSUME TypeOK, [Next]_vars PROVE TypeOK'
  OBVIOUS
<1>1. ASSUME NEW o \in Orders, CheckIn(o) PROVE TypeOK'
  <2>1. ticket' \in [Orders -> TicketStatus]
    BY <1>1 DEF TypeOK, CheckIn, TicketStatus
  <2> QED BY <1>1, <2>1 DEF TypeOK, CheckIn, books, coupon, gateway, mails
<1>2. CASE UNCHANGED vars
  BY <1>2 DEF TypeOK, vars
<1> QED BY <1>1, <1>2, BuyType, DeliverType, RefundType DEF Next

\* The rows and the requests in flight always have their types.
THEOREM TypeCorrect == Spec => []TypeOK
  BY InitType, TypeStep, PTL DEF Spec

-----------------------------------------------------------------------------
(* No tier is oversold *)

\* Seats are taken after a look at what is left, given back, or untouched.
LEMMA SoldSteps ==
  ASSUME Next
  PROVE  \/ sold' = sold
         \/ \E o \in Orders : InventoryFor(o) /\ sold' = Take(o)
         \/ \E o \in Orders : sold' = Restock(o)
<1>1. ASSUME NEW o \in Orders, Buy(o)
      PROVE  sold' = sold \/ (InventoryFor(o) /\ sold' = Take(o))
  BY <1>1 DEF Buy, InitializePaystackCheckout, InitializeCompCheckout, Insert,
     FinalizeFreeOrder, GatewayAccepts, GatewayRefuses, GatewayUnreachable,
     CompleteDemoCheckout, BuyerPays, Webhook, ConfirmVerify, ConfirmFinalize,
     Finalize
<1>2. ASSUME NEW o \in Orders, Deliver(o) PROVE sold' = sold
  BY <1>2 DEF Deliver, MailRead, MailReceipt, MailTicket, MailMark,
     MailTicketFails, ResendRead, ResendSave
<1>3. ASSUME NEW o \in Orders, CheckIn(o) PROVE sold' = sold
  BY <1>3 DEF CheckIn
<1>4. ASSUME NEW a \in Admins, NEW o \in Orders, Refund(a, o)
      PROVE  sold' = sold \/ sold' = Restock(o)
  BY <1>4 DEF Refund, RefundCheck, RefundGateway, RefundCommit, RefundThrows,
     RefundStops
<1> QED BY <1>1, <1>2, <1>3, <1>4 DEF Next

LEMMA NoOversellStep ==
  TypeOK /\ NoOversell /\ [Next]_vars => NoOversell'
<1> SUFFICES ASSUME TypeOK, NoOversell, [Next]_vars, NEW t \in Tiers
             PROVE  sold'[t] <= Capacity[t]
  BY DEF NoOversell
<1>1. sold[t] \in Nat /\ Capacity[t] \in Nat /\ sold[t] <= Capacity[t]
  BY ConstantTypes DEF TypeOK, NoOversell
<1>2. CASE sold' = sold
  BY <1>1, <1>2
<1>3. ASSUME NEW o \in Orders, InventoryFor(o), sold' = Take(o)
      PROVE  sold'[t] <= Capacity[t]
  <2>1. sold'[t] = sold[t] + Lines[o][t] /\ Lines[o][t] \in Nat
    BY <1>3, ConstantTypes DEF Take
  <2>2. CASE Lines[o][t] > 0
    BY <1>1, <1>3, <2>1, <2>2 DEF InventoryFor, ItemTiers
  <2>3. CASE Lines[o][t] = 0
    BY <1>1, <2>1, <2>3
  <2> QED BY <2>1, <2>2, <2>3
<1>4. ASSUME NEW o \in Orders, sold' = Restock(o)
      PROVE  sold'[t] <= Capacity[t]
  <2>1. Lines[o][t] \in Nat
    BY ConstantTypes
  <2>2. sold'[t] = IF sold[t] >= Lines[o][t] THEN sold[t] - Lines[o][t] ELSE 0
    BY <1>4 DEF Restock
  <2> QED BY <1>1, <2>1, <2>2
<1>5. CASE UNCHANGED vars
  BY <1>1, <1>5 DEF vars
<1> QED BY <1>2, <1>3, <1>4, <1>5, SoldSteps

\* However many buyers, webhooks, return pages and refunds interleave, no tier
\* sells more seats than it has.
THEOREM NeverOversold == Spec => []NoOversell
<1>1. Init => NoOversell
  BY ConstantTypes DEF Init, NoOversell
<1> QED BY <1>1, TypeCorrect, NoOversellStep, PTL DEF Spec

-----------------------------------------------------------------------------
(* Control: which requests and charges go with which status of the order *)

Progress ==
  \A o \in Orders :
    /\ order[o] = "NONE" => init[o] = "idle" /\ charge[o] = "none"
    /\ order[o] = "FAILED" => charge[o] = "none"
    /\ init[o] \in {"finalize", "gateway"} =>
         order[o] = "PENDING" /\ charge[o] = "none"
    /\ o \in confirm => charge[o] = "paid"

LEMMA ProgressStep == TypeOK /\ Progress /\ [Next]_vars => Progress'
<1> SUFFICES ASSUME TypeOK, Progress, [Next]_vars PROVE Progress'
  OBVIOUS
<1> DEFINE Same == UNCHANGED <<order, init, charge, confirm>>
<1>1. ASSUME NEW o \in Orders, Buy(o) PROVE Progress'
  <2>1. CASE InitializePaystackCheckout(o)
    BY <1>1, <2>1 DEF TypeOK, Progress, InitializePaystackCheckout, Insert, gateway
  <2>2. CASE InitializeCompCheckout(o)
    BY <1>1, <2>2 DEF TypeOK, Progress, InitializeCompCheckout, Insert, gateway
  <2>3. CASE FinalizeFreeOrder(o)
    BY <1>1, <2>3 DEF TypeOK, Progress, FinalizeFreeOrder, Finalize, gateway
  <2>4. CASE GatewayAccepts(o)
    BY <1>1, <2>4 DEF TypeOK, Progress, GatewayAccepts
  <2>5. CASE GatewayRefuses(o)
    BY <1>1, <2>5 DEF TypeOK, Progress, GatewayRefuses, gateway
  <2>6. CASE GatewayUnreachable(o)
    BY <1>1, <2>6 DEF TypeOK, Progress, GatewayUnreachable, gateway
  <2>7. CASE CompleteDemoCheckout(o)
    BY <1>1, <2>7 DEF TypeOK, Progress, CompleteDemoCheckout, gateway
  <2>8. CASE BuyerPays(o)
    BY <1>1, <2>8 DEF TypeOK, Progress, BuyerPays
  <2>9. CASE Webhook(o)
    BY <1>1, <2>9 DEF TypeOK, Progress, Webhook, Finalize, gateway
  <2>10. CASE ConfirmVerify(o)
    BY <1>1, <2>10 DEF TypeOK, Progress, ConfirmVerify, gateway
  <2>11. CASE ConfirmFinalize(o)
    BY <1>1, <2>11 DEF TypeOK, Progress, ConfirmFinalize, Finalize, gateway
  <2> QED BY <1>1, <2>1, <2>2, <2>3, <2>4, <2>5, <2>6, <2>7, <2>8, <2>9, <2>10,
             <2>11 DEF Buy
<1>2. ASSUME NEW o \in Orders, Deliver(o) PROVE Same
  BY <1>2 DEF Deliver, MailRead, MailReceipt, MailTicket, MailMark,
     MailTicketFails, ResendRead, ResendSave, gateway
<1>3. ASSUME NEW o \in Orders, CheckIn(o) PROVE Same
  BY <1>3 DEF CheckIn, gateway
<1>4. ASSUME NEW a \in Admins, NEW o \in Orders, Refund(a, o) PROVE Progress'
  <2>1. CASE RefundCommit(a, o)
    BY <2>1 DEF TypeOK, Progress, RefundCommit, gateway
  <2>2. CASE ~RefundCommit(a, o)
    <3>1. Same
      BY <1>4, <2>2 DEF Refund, RefundCheck, RefundGateway, RefundThrows,
            RefundStops, gateway
    <3> QED BY <3>1 DEF Progress
  <2> QED BY <2>1, <2>2
<1>5. Same => Progress'
  BY DEF Progress
<1>6. CASE UNCHANGED vars
  BY <1>5, <1>6 DEF vars
<1> QED BY <1>1, <1>2, <1>3, <1>4, <1>5, <1>6 DEF Next

LEMMA ProgressInvariant == Spec => []Progress
<1>1. Init => Progress
  BY DEF Init, Progress
<1> QED BY <1>1, TypeCorrect, ProgressStep, PTL DEF Spec

-----------------------------------------------------------------------------
(* The organizer's ledger *)

\* Products of naturals are monotonic.
LEMMA ProductMonotonic ==
  ASSUME NEW a \in Nat, NEW b \in Nat, NEW c \in Nat, b <= c
  PROVE  a * b \in Nat /\ a * c \in Nat /\ a * b <= a * c
<1>1. PICK d \in Nat : c = b + d
  <2>1. c - b \in Nat /\ c = b + (c - b)
    OBVIOUS
  <2> QED BY <2>1
<1>2. a * c = a * b + a * d /\ a * b \in Nat /\ a * d \in Nat
  BY <1>1
<1> QED BY <1>2

\* The share of the credit that is taken back is no more than the credit.
LEMMA ReversalBound ==
  ASSUME NEW o \in Orders, NEW r \in Nat
  PROVE  Reversal(o, r) <= Net(o)
<1>1. CASE r >= Amount[o]
  BY <1>1, NetType DEF Reversal
<1>2. CASE ~(r >= Amount[o])
  <2>1. Amount[o] \in Nat /\ Net(o) \in Nat /\ r < Amount[o]
    BY <1>2, ConstantTypes, NetType
  <2> DEFINE A == Amount[o]
             N == Net(o)
             q == (2 * N * r + A) \div (2 * A)
  <2>2. N * r \in Nat /\ N * A \in Nat /\ N * r <= N * A
    BY <2>1, ProductMonotonic
  <2>3. 2 * N * r + A \in Nat /\ 2 * N * r + A = 2 * (N * r) + A
    BY <2>1, <2>2
  <2>4. q \in Nat /\ (2 * A) * q <= 2 * (N * r) + A
    BY <2>1, <2>3
  <2>5. ASSUME q >= N + 1 PROVE FALSE
    <3>1. (2 * A) * (N + 1) <= (2 * A) * q
      BY <2>1, <2>4, <2>5, ProductMonotonic
    <3>2. (2 * A) * (N + 1) = 2 * (N * A) + 2 * A
      BY <2>1
    <3> QED BY <2>1, <2>2, <2>4, <3>1, <3>2
  <2>6. q <= N
    BY <2>1, <2>4, <2>5
  <2> QED BY <1>2, <2>6 DEF Reversal
<1> QED BY <1>1, <1>2

\* The credit is all of the net or nothing: what makes the bound inductive.
Books ==
  \A o \in Orders :
    /\ earned[o] \in {0, Net(o)}
    /\ reversed[o] <= earned[o]

LEMMA BooksStep == TypeOK /\ Books /\ [Next]_vars => Books'
<1> SUFFICES ASSUME TypeOK, Books, [Next]_vars PROVE Books'
  OBVIOUS
<1> DEFINE Same == UNCHANGED <<earned, reversed>>
<1>1. ASSUME NEW o \in Orders, EnsureOrderEarnings(o), reversed' = reversed
      PROVE  Books'
  <2> SUFFICES ASSUME NEW p \in Orders
               PROVE  earned'[p] \in {0, Net(p)} /\ reversed'[p] <= earned'[p]
    BY DEF Books, Net
  <2>1. earned' = [earned EXCEPT ![o] = IF @ = 0 THEN Net(o) ELSE @]
    BY <1>1 DEF EnsureOrderEarnings
  <2>2. earned[p] \in Nat /\ reversed[p] \in Nat /\ Net(p) \in Nat
    BY NetType DEF TypeOK
  <2>3. earned'[p] = IF p = o /\ earned[p] = 0 THEN Net(p) ELSE earned[p]
    BY <2>1 DEF TypeOK
  <2> QED BY <1>1, <2>2, <2>3 DEF Books
<1>2. ASSUME NEW o \in Orders, NEW r \in Nat, EnsureOrderRefundReversal(o, r),
             earned' = earned
      PROVE  Books'
  <2> SUFFICES ASSUME NEW p \in Orders
               PROVE  earned'[p] \in {0, Net(p)} /\ reversed'[p] <= earned'[p]
    BY DEF Books, Net
  <2>1. reversed' = [reversed EXCEPT ![o] =
                       IF earned[o] > 0 /\ @ = 0 THEN Reversal(o, r) ELSE @]
    BY <1>2 DEF EnsureOrderRefundReversal
  <2>2. earned[p] \in {0, Net(p)} /\ reversed[p] <= earned[p]
    BY DEF Books
  <2>3. reversed'[p] = IF p = o /\ earned[p] > 0 /\ reversed[p] = 0
                       THEN Reversal(p, r) ELSE reversed[p]
    BY <2>1 DEF TypeOK
  <2>4. Reversal(p, r) <= Net(p)
    BY ReversalBound
  <2> QED BY <1>2, <2>2, <2>3, <2>4
<1>3. Same => Books'
  BY DEF Books, Net
<1>4. ASSUME NEW o \in Orders, Buy(o)
      PROVE  Same \/ (EnsureOrderEarnings(o) /\ reversed' = reversed)
  BY <1>4 DEF Buy, InitializePaystackCheckout, InitializeCompCheckout, Insert,
     FinalizeFreeOrder, GatewayAccepts, GatewayRefuses, GatewayUnreachable,
     CompleteDemoCheckout, BuyerPays, Webhook, ConfirmVerify, ConfirmFinalize,
     Finalize, books
<1>5. ASSUME NEW o \in Orders, Deliver(o) PROVE Same
  BY <1>5 DEF Deliver, MailRead, MailReceipt, MailTicket, MailMark,
     MailTicketFails, ResendRead, ResendSave, books
<1>6. ASSUME NEW o \in Orders, CheckIn(o) PROVE Same
  BY <1>6 DEF CheckIn, books
<1>7. ASSUME NEW a \in Admins, NEW o \in Orders, Refund(a, o) PROVE Books'
  <2>1. CASE RefundCommit(a, o)
    <3>1. refund[a][o].amount \in Nat
      BY DEF TypeOK
    <3> QED BY <1>2, <2>1, <3>1 DEF RefundCommit
  <2>2. CASE ~RefundCommit(a, o)
    BY <1>3, <1>7, <2>2 DEF Refund, RefundCheck, RefundGateway, RefundThrows,
       RefundStops, books
  <2> QED BY <2>1, <2>2
<1>8. CASE UNCHANGED vars
  BY <1>3, <1>8 DEF vars
<1> QED BY <1>1, <1>3, <1>4, <1>5, <1>6, <1>7, <1>8 DEF Next

\* However often an order is finalised and refunded, with whatever partial
\* amounts, the organizer is debited no more than the one credit.
THEOREM DebitsCovered == Spec => []NeverDebitedMoreThanEarned
<1>1. Init => Books
  BY DEF Init, Books
<1>2. TypeOK /\ Books => NeverDebitedMoreThanEarned
  BY NetType DEF TypeOK, Books, NeverDebitedMoreThanEarned
<1> QED BY <1>1, <1>2, TypeCorrect, BooksStep, PTL DEF Spec

-----------------------------------------------------------------------------
(* Tickets *)

\* Finalising issues the tickets of an order that has none, and of no other.
LEMMA FinalizeTickets ==
  ASSUME TypeOK, TicketsIssuedOnce, NEW o \in Orders, Finalize(o)
  PROVE  TicketsIssuedOnce'
<1> SUFFICES ASSUME NEW p \in Orders
             PROVE  IF order'[p] \in {"PAID", "REFUNDED"}
                    THEN issued'[p] = Lines[p]
                    ELSE \A t \in Tiers : issued'[p][t] = 0
  BY DEF TicketsIssuedOnce, NoTickets
<1>1. order' = [order EXCEPT ![o] = "PAID"]
  BY DEF Finalize
<1>2. CASE p # o
  <2>1. order'[p] = order[p] /\ issued'[p] = issued[p]
    BY <1>1, <1>2 DEF Finalize, TypeOK
  <2> QED BY <2>1 DEF TicketsIssuedOnce, NoTickets
<1>3. CASE p = o /\ NoTickets(o)
  <2>1. issued'[o] = [t \in Tiers |-> issued[o][t] + Lines[o][t]]
    BY <1>3 DEF Finalize, AddLines, TypeOK
  <2>2. \A t \in Tiers : issued[o][t] + Lines[o][t] = Lines[o][t]
    BY <1>3, ConstantTypes DEF NoTickets
  <2>3. Lines[o] \in [Tiers -> Nat]
    BY ConstantTypes
  <2>4. issued'[o] = Lines[o]
    BY <2>1, <2>2, <2>3
  <2> QED BY <1>1, <1>3, <2>4 DEF TypeOK
<1>4. CASE p = o /\ ~NoTickets(o)
  <2>1. issued' = issued
    BY <1>4 DEF Finalize
  <2>2. issued[o] = Lines[o]
    BY <1>4 DEF TicketsIssuedOnce
  <2> QED BY <1>1, <1>4, <2>1, <2>2 DEF TypeOK
<1> QED BY <1>2, <1>3, <1>4

LEMMA TicketsStep ==
  TypeOK /\ Progress /\ TicketsIssuedOnce /\ [Next]_vars => TicketsIssuedOnce'
<1> SUFFICES ASSUME TypeOK, Progress, TicketsIssuedOnce, [Next]_vars
             PROVE  TicketsIssuedOnce'
  OBVIOUS
<1> DEFINE Same == UNCHANGED <<order, issued>>
<1>1. Same => TicketsIssuedOnce'
  BY DEF TicketsIssuedOnce, NoTickets
<1>2. ASSUME NEW o \in Orders, NEW s \in {"PENDING", "FAILED"},
             order[o] \in {"NONE", "PENDING"},
             order' = [order EXCEPT ![o] = s], issued' = issued
      PROVE  TicketsIssuedOnce'
  BY <1>2 DEF TypeOK, TicketsIssuedOnce, NoTickets
<1>3. ASSUME NEW o \in Orders, Buy(o) PROVE TicketsIssuedOnce'
  <2>1. CASE Finalize(o)
    BY <2>1, FinalizeTickets
  <2>2. CASE CompleteDemoCheckout(o)
    <3>1. order[o] = "NONE" /\ order' = [order EXCEPT ![o] = "PAID"]
          /\ issued' = [issued EXCEPT ![o] = AddLines(o)]
      BY <2>2 DEF CompleteDemoCheckout
    <3>2. \A t \in Tiers : issued[o][t] = 0
      BY <3>1 DEF TicketsIssuedOnce, NoTickets
    <3>3. Lines[o] \in [Tiers -> Nat] /\ \A t \in Tiers : 0 + Lines[o][t] = Lines[o][t]
      BY ConstantTypes
    <3>4. AddLines(o) = Lines[o]
      BY <3>2, <3>3 DEF AddLines
    <3> QED BY <3>1, <3>4 DEF TypeOK, TicketsIssuedOnce, NoTickets
  <2>3. CASE InitializePaystackCheckout(o) \/ InitializeCompCheckout(o)
    BY <1>2, <2>3 DEF InitializePaystackCheckout, InitializeCompCheckout, Insert
  <2>4. CASE GatewayRefuses(o)
    <3>1. order[o] = "PENDING"
      BY <2>4 DEF GatewayRefuses, Progress
    <3> QED BY <1>2, <2>4, <3>1 DEF GatewayRefuses
  <2>5. CASE \/ GatewayAccepts(o) \/ GatewayUnreachable(o) \/ BuyerPays(o)
             \/ ConfirmVerify(o)
    BY <1>1, <2>5 DEF GatewayAccepts, GatewayUnreachable, BuyerPays, ConfirmVerify
  <2>6. CASE /\ ~Finalize(o)
             /\ FinalizeFreeOrder(o) \/ Webhook(o) \/ ConfirmFinalize(o)
    BY <1>1, <2>6 DEF FinalizeFreeOrder, Webhook, ConfirmFinalize
  <2> QED BY <1>3, <2>1, <2>2, <2>3, <2>4, <2>5, <2>6 DEF Buy
<1>4. ASSUME NEW o \in Orders, Deliver(o) PROVE Same
  BY <1>4 DEF Deliver, MailRead, MailReceipt, MailTicket, MailMark,
     MailTicketFails, ResendRead, ResendSave
<1>5. ASSUME NEW o \in Orders, CheckIn(o) PROVE Same
  BY <1>5 DEF CheckIn
<1>6. ASSUME NEW a \in Admins, NEW o \in Orders, Refund(a, o)
      PROVE  TicketsIssuedOnce'
  <2>1. CASE RefundCommit(a, o)
    BY <2>1 DEF RefundCommit, TypeOK, TicketsIssuedOnce, NoTickets
  <2>2. CASE ~RefundCommit(a, o)
    BY <1>1, <1>6, <2>2 DEF Refund, RefundCheck, RefundGateway, RefundThrows,
       RefundStops
  <2> QED BY <2>1, <2>2
<1>7. CASE UNCHANGED vars
  BY <1>1, <1>7 DEF vars
<1> QED BY <1>1, <1>3, <1>4, <1>5, <1>6, <1>7 DEF Next

\* A paid order has its tickets and has them once, although webhook, return
\* page and free checkout may all finalise it, and again after a refund.
THEOREM TicketsOncePerOrder == Spec => []TicketsIssuedOnce
<1>1. Init => TicketsIssuedOnce
  BY DEF Init, TicketsIssuedOnce, NoTickets
<1> QED BY <1>1, TypeCorrect, ProgressInvariant, TicketsStep, PTL DEF Spec

-----------------------------------------------------------------------------
(* Money goes back first *)

\* A refund that has been through the gateway has given back its amount.
RequestsPaidOut ==
  \A a \in Admins, o \in Orders :
    /\ refund[a][o].pc # "idle" => refund[a][o].amount > 0
    /\ refund[a][o].pc = "called" /\ Kind[o] # "demo" =>
         refund[a][o].amount <= returned[o]

LEMMA MoneyStep ==
  /\ TypeOK /\ RequestsPaidOut /\ MoneyBackBeforeRefunded /\ [Next]_vars
  => RequestsPaidOut' /\ MoneyBackBeforeRefunded'
<1> SUFFICES ASSUME TypeOK, RequestsPaidOut, MoneyBackBeforeRefunded, [Next]_vars
             PROVE  RequestsPaidOut' /\ MoneyBackBeforeRefunded'
  OBVIOUS
<1> DEFINE Goal == RequestsPaidOut' /\ MoneyBackBeforeRefunded'
           Same == UNCHANGED <<order, refund, refunded, returned>>
<1>1. Same => Goal
  BY DEF RequestsPaidOut, MoneyBackBeforeRefunded
<1>2. ASSUME NEW o \in Orders, NEW s, s # "REFUNDED",
             order' = [order EXCEPT ![o] = s],
             UNCHANGED <<refund, refunded, returned>>
      PROVE  Goal
  <2>1. \A p \in Orders : order'[p] = "REFUNDED" => order[p] = "REFUNDED"
    BY <1>2 DEF TypeOK
  <2> QED BY <1>2, <2>1 DEF RequestsPaidOut, MoneyBackBeforeRefunded
<1>3. ASSUME NEW o \in Orders, Buy(o) PROVE Goal
  BY <1>1, <1>2, <1>3 DEF Buy, InitializePaystackCheckout, InitializeCompCheckout,
     Insert, FinalizeFreeOrder, GatewayAccepts, GatewayRefuses, GatewayUnreachable,
     CompleteDemoCheckout, BuyerPays, Webhook, ConfirmVerify, ConfirmFinalize,
     Finalize, books, gateway
<1>4. ASSUME NEW o \in Orders, Deliver(o) \/ CheckIn(o) PROVE Same
  BY <1>4 DEF Deliver, MailRead, MailReceipt, MailTicket, MailMark,
     MailTicketFails, ResendRead, ResendSave, CheckIn, books, gateway
<1>5. ASSUME NEW a \in Admins, NEW o \in Orders, Refund(a, o) PROVE Goal
  <2> DEFINE amount == refund[a][o].amount
  <2>0. amount \in Nat /\ returned[o] \in Nat
    BY DEF TypeOK
  <2>1. CASE RefundCheck(a, o)
    <3>1. PICK r \in 1..Amount[o] :
            refund' = [refund EXCEPT ![a][o] =
              [pc |-> IF SkipsGateway(o) THEN "called" ELSE "checked", amount |-> r]]
      BY <2>1 DEF RefundCheck
    <3>2. r > 0
      BY ConstantTypes
    <3>3. RequestsPaidOut'
      BY <2>1, <3>1, <3>2
         DEF TypeOK, RequestsPaidOut, RefundCheck, SkipsGateway, gateway
    <3>4. MoneyBackBeforeRefunded'
      BY <2>1 DEF MoneyBackBeforeRefunded, RefundCheck, books, gateway
    <3> QED BY <3>3, <3>4
  <2>2. CASE RefundGateway(a, o)
    <3>1. CASE returned[o] + amount <= Amount[o]
      <4>1. /\ returned' = [returned EXCEPT ![o] = returned[o] + amount]
            /\ refund' = [refund EXCEPT ![a][o].pc = "called"]
            /\ UNCHANGED <<order, refunded>>
        BY <2>2, <3>1 DEF RefundGateway, books
      <4>2. \A p \in Orders : returned[p] <= returned'[p] /\ returned[p] \in Nat
                              /\ returned'[p] \in Nat
        BY <2>0, <4>1 DEF TypeOK
      <4>3. returned'[o] >= amount
        BY <2>0, <4>1 DEF TypeOK
      <4>4. MoneyBackBeforeRefunded'
        BY <4>1, <4>2 DEF MoneyBackBeforeRefunded, TypeOK
      <4>5. ASSUME NEW b \in Admins, NEW p \in Orders
            PROVE  /\ refund'[b][p].pc # "idle" => refund'[b][p].amount > 0
                   /\ refund'[b][p].pc = "called" /\ Kind[p] # "demo" =>
                        refund'[b][p].amount <= returned'[p]
        <5>1. refund'[b][p].amount = refund[b][p].amount /\ refund[b][p].amount \in Nat
          BY <4>1 DEF TypeOK
        <5>2. CASE b = a /\ p = o
          BY <2>2, <4>3, <5>1, <5>2 DEF RequestsPaidOut, RefundGateway
        <5>3. CASE ~(b = a /\ p = o)
          <6>1. refund'[b][p] = refund[b][p]
            BY <4>1, <5>3 DEF TypeOK
          <6> QED BY <4>2, <5>1, <6>1 DEF RequestsPaidOut
        <5> QED BY <5>2, <5>3
      <4> QED BY <4>4, <4>5 DEF RequestsPaidOut
    <3>2. CASE ~(returned[o] + amount <= Amount[o])
      <4>1. /\ refund' = [refund EXCEPT ![a][o] = NoRefund]
            /\ UNCHANGED <<order, refunded, returned>>
        BY <2>2, <3>2 DEF RefundGateway, books
      <4> QED BY <4>1 DEF TypeOK, RequestsPaidOut, MoneyBackBeforeRefunded, NoRefund
    <3> QED BY <3>1, <3>2
  <2>3. CASE RefundCommit(a, o)
    <3>1. /\ refund' = [refund EXCEPT ![a][o] = NoRefund]
          /\ order' = [order EXCEPT ![o] = "REFUNDED"]
          /\ refunded' = [refunded EXCEPT ![o] = amount]
          /\ returned' = returned
          /\ refund[a][o].pc = "called"
      BY <2>3 DEF RefundCommit, gateway
    <3>2. 0 < amount /\ (Kind[o] # "demo" => amount <= returned[o])
      BY <2>0, <3>1 DEF RequestsPaidOut
    <3>3. MoneyBackBeforeRefunded'
      BY <3>1, <3>2 DEF TypeOK, MoneyBackBeforeRefunded
    <3>4. RequestsPaidOut'
      BY <3>1 DEF TypeOK, RequestsPaidOut, NoRefund
    <3> QED BY <3>3, <3>4
  <2>4. CASE RefundThrows(a, o) \/ RefundStops(a, o)
    <3>1. /\ refund' = [refund EXCEPT ![a][o] = NoRefund]
          /\ UNCHANGED <<order, refunded, returned>>
      BY <2>4 DEF RefundThrows, RefundStops, books, gateway
    <3> QED BY <3>1 DEF TypeOK, RequestsPaidOut, MoneyBackBeforeRefunded, NoRefund
  <2> QED BY <1>5, <2>1, <2>2, <2>3, <2>4 DEF Refund
<1>6. CASE UNCHANGED vars
  BY <1>1, <1>6 DEF vars
<1> QED BY <1>1, <1>3, <1>4, <1>5, <1>6 DEF Next

\* No card order is REFUNDED before the gateway has given back what its row
\* records, whatever other refunds of it fail or succeed meanwhile.
THEOREM RefundedAfterMoneyBack == Spec => []MoneyBackBeforeRefunded
<1>1. Init => RequestsPaidOut /\ MoneyBackBeforeRefunded
  BY DEF Init, RequestsPaidOut, MoneyBackBeforeRefunded, NoRefund
<1> QED BY <1>1, TypeCorrect, MoneyStep, PTL DEF Spec

-----------------------------------------------------------------------------
(* The coupon's budget *)

\* Only an order that exists has redeemed the coupon.
RedeemedOnce == \A o \in redeemed : order[o] # "NONE"

LEMMA LimitType == CouponLimit \in Nat
  BY CheckoutAssumption

LEMMA RedeemCounts ==
  ASSUME TypeOK, CouponBudget, NEW o \in Orders, o \notin redeemed, Redeem(o)
  PROVE  CouponBudget'
<1>1. IsFiniteSet(redeemed)
  BY CheckoutAssumption, FS_Subset DEF TypeOK
<1>2. CASE o \in CouponOrders
  <2>1. Cardinality(redeemed \cup {o}) = Cardinality(redeemed) + 1
    BY <1>1, FS_AddElement
  <2>2. used' = used + 1 /\ redeemed' = redeemed \cup {o} /\ used < CouponLimit
    BY <1>2 DEF Redeem
  <2>3. used \in Nat /\ used = Cardinality(redeemed)
    BY DEF TypeOK, CouponBudget
  <2> QED BY <2>1, <2>2, <2>3, LimitType DEF CouponBudget
<1>3. CASE o \notin CouponOrders
  BY <1>3 DEF CouponBudget, Redeem, coupon
<1> QED BY <1>2, <1>3

LEMMA RollbackCounts ==
  ASSUME TypeOK, CouponBudget, NEW o \in Orders, RollbackRedemption(o)
  PROVE  CouponBudget'
<1>1. IsFiniteSet(redeemed)
  BY CheckoutAssumption, FS_Subset DEF TypeOK
<1>2. CASE o \in redeemed
  <2>1. Cardinality(redeemed \ {o}) = Cardinality(redeemed) - 1
    BY <1>1, <1>2, FS_RemoveElement
  <2>2. used > 0
    BY <1>1, <1>2, FS_EmptySet, FS_CardinalityType DEF TypeOK, CouponBudget
  <2>3. used' = used - 1 /\ redeemed' = redeemed \ {o}
    BY <1>2, <2>2 DEF RollbackRedemption
  <2>4. used \in Nat /\ used = Cardinality(redeemed) /\ used <= CouponLimit
    BY DEF TypeOK, CouponBudget
  <2> QED BY <2>1, <2>3, <2>4, LimitType DEF CouponBudget
<1>3. CASE o \notin redeemed
  BY <1>3 DEF CouponBudget, RollbackRedemption, coupon
<1> QED BY <1>2, <1>3

LEMMA BudgetStep ==
  TypeOK /\ RedeemedOnce /\ CouponBudget /\ [Next]_vars
  => RedeemedOnce' /\ CouponBudget'
<1> SUFFICES ASSUME TypeOK, RedeemedOnce, CouponBudget, [Next]_vars
             PROVE  RedeemedOnce' /\ CouponBudget'
  OBVIOUS
<1> DEFINE Goal == RedeemedOnce' /\ CouponBudget'
<1>1. UNCHANGED <<order, coupon>> => Goal
  BY DEF RedeemedOnce, CouponBudget, coupon
<1>2. ASSUME NEW o \in Orders, NEW s, s # "NONE",
             order' = [order EXCEPT ![o] = s], UNCHANGED coupon
      PROVE  Goal
  BY <1>2, CheckoutAssumption DEF TypeOK, RedeemedOnce, CouponBudget, coupon
<1>3. ASSUME NEW o \in Orders, NEW s, s # "NONE", order[o] = "NONE",
             order' = [order EXCEPT ![o] = s], Redeem(o)
      PROVE  Goal
  <2>1. o \notin redeemed
    BY <1>3 DEF RedeemedOnce
  <2>2. CouponBudget'
    BY <1>3, <2>1, RedeemCounts
  <2>3. redeemed' \subseteq redeemed \cup {o}
    BY <1>3 DEF Redeem, coupon
  <2>4. RedeemedOnce'
    BY <1>3, <2>3, CheckoutAssumption DEF TypeOK, RedeemedOnce
  <2> QED BY <2>2, <2>4
<1>4. ASSUME NEW o \in Orders, Buy(o) PROVE Goal
  <2>1. CASE InitializePaystackCheckout(o)
    BY <1>3, <2>1 DEF InitializePaystackCheckout, Insert
  <2>2. CASE InitializeCompCheckout(o)
    BY <1>2, <2>2 DEF InitializeCompCheckout, Insert
  <2>3. CASE CompleteDemoCheckout(o)
    BY <1>3, <2>3 DEF CompleteDemoCheckout
  <2>4. CASE GatewayRefuses(o)
    BY <1>2, <2>4 DEF GatewayRefuses
  <2>5. CASE FinalizeFreeOrder(o) \/ Webhook(o) \/ ConfirmFinalize(o)
    BY <1>1, <1>2, <2>5 DEF FinalizeFreeOrder, Webhook, ConfirmFinalize, Finalize
  <2>6. CASE \/ GatewayAccepts(o) \/ GatewayUnreachable(o) \/ BuyerPays(o)
             \/ ConfirmVerify(o)
    BY <1>1, <2>6 DEF GatewayAccepts, GatewayUnreachable, BuyerPays, ConfirmVerify
  <2> QED BY <1>4, <2>1, <2>2, <2>3, <2>4, <2>5, <2>6 DEF Buy
<1>5. ASSUME NEW o \in Orders, Deliver(o) \/ CheckIn(o) PROVE Goal
  BY <1>1, <1>5 DEF Deliver, MailRead, MailReceipt, MailTicket, MailMark,
     MailTicketFails, ResendRead, ResendSave, CheckIn
<1>6. ASSUME NEW a \in Admins, NEW o \in Orders, Refund(a, o) PROVE Goal
  <2>1. CASE RefundCommit(a, o)
    <3>1. order' = [order EXCEPT ![o] = "REFUNDED"] /\ RollbackRedemption(o)
      BY <2>1 DEF RefundCommit
    <3>2. redeemed' \subseteq redeemed
      BY <3>1 DEF RollbackRedemption, coupon
    <3>3. RedeemedOnce'
      BY <3>1, <3>2, CheckoutAssumption DEF TypeOK, RedeemedOnce
    <3> QED BY <3>1, <3>3, RollbackCounts
  <2>2. CASE \/ RefundCheck(a, o) \/ RefundGateway(a, o) \/ RefundThrows(a, o)
             \/ RefundStops(a, o)
    BY <1>1, <2>2 DEF RefundCheck, RefundGateway, RefundThrows, RefundStops
  <2> QED BY <1>6, <2>1, <2>2 DEF Refund
<1>7. CASE UNCHANGED vars
  BY <1>1, <1>7 DEF vars, coupon
<1> QED BY <1>4, <1>5, <1>6, <1>7 DEF Next

\* However redemptions at checkout and rollbacks of refunds follow each other,
\* usedCount is the number of redemption rows and stays within usageLimit.
THEOREM CouponWithinBudget == Spec => []CouponBudget
<1>1. Init => RedeemedOnce /\ CouponBudget
  BY CheckoutAssumption, FS_EmptySet DEF Init, RedeemedOnce, CouponBudget
<1> QED BY <1>1, TypeCorrect, BudgetStep, PTL DEF Spec

-----------------------------------------------------------------------------
(* What a step books *)

\* As long as nothing of a PAID order has been given back its payment is SUCCESS,
\* and so is every copy of it that a mail or a resend may still save.  What was
\* given back belongs to an order that is REFUNDED, or PAID once more.
Settled ==
  \A o \in Orders :
    /\ order[o] = "REFUNDED" => refunded[o] > 0
    /\ refunded[o] > 0 => order[o] \in {"PAID", "REFUNDED"}
    /\ order[o] = "PAID" /\ refunded[o] = 0 => payment[o].status = "SUCCESS"
    /\ mail[o].pc # "idle" => order[o] \in {"PAID", "REFUNDED"}
    /\ refunded[o] = 0 /\ mail[o].pc \in {"receipt", "mark"} =>
         mail[o].copy.status = "SUCCESS"
    /\ resend[o].busy => resend[o].copy.status = "SUCCESS"

\* What a refund asks for is some of the price.
AmountsAsked ==
  \A a \in Admins, o \in Orders :
    refund[a][o].pc # "idle" => refund[a][o].amount \in 1..Amount[o]

Opens(o) ==
  /\ order[o] = "NONE"
  /\ order' = [order EXCEPT ![o] = "PENDING"]
  /\ UNCHANGED <<sold, ticket, books>>

Closes(o) ==
  /\ order[o] = "PENDING"
  /\ order' = [order EXCEPT ![o] = "FAILED"]
  /\ UNCHANGED <<sold, ticket, books>>

Sells(o) ==
  /\ order[o] \in {"NONE", "PENDING"}
  /\ refunded[o] = 0
  /\ InventoryFor(o)
  /\ sold' = Take(o)
  /\ order' = [order EXCEPT ![o] = "PAID"]
  /\ ticket' = [ticket EXCEPT ![o] = "ISSUED"]
  /\ EnsureOrderEarnings(o)
  /\ UNCHANGED <<reversed, refunded, again, rebooked>>

\* The success of a refunded order is reported again.
Resells(o) ==
  /\ order[o] \in {"PAID", "REFUNDED"}
  /\ refunded[o] > 0
  /\ charge[o] = "paid"
  /\ InventoryFor(o)
  /\ sold' = Take(o)
  /\ order' = [order EXCEPT ![o] = "PAID"]
  /\ EnsureOrderEarnings(o)
  /\ rebooked' = IF order[o] = "PAID" THEN rebooked \cup {o} ELSE rebooked
  /\ UNCHANGED <<ticket, reversed, refunded, again>>

Admits(o) ==
  /\ ticket[o] = "ISSUED"
  /\ ticket' = [ticket EXCEPT ![o] = "CHECKED_IN"]
  /\ UNCHANGED <<order, sold, books>>

TakesBack(o, r) ==
  /\ order[o] = "PAID"
  /\ sold' = Restock(o)
  /\ order' = [order EXCEPT ![o] = "REFUNDED"]
  /\ ticket' = [ticket EXCEPT ![o] = IF @ = "NONE" THEN @ ELSE "VOID"]
  /\ refunded' = [refunded EXCEPT ![o] = r]
  /\ again' = IF refunded[o] > 0 THEN again \cup {o} ELSE again
  /\ EnsureOrderRefundReversal(o, r)
  /\ UNCHANGED <<earned, rebooked>>

BooksNothing == UNCHANGED <<order, sold, ticket, books>>

\* An order that has tickets when it is finalised has been refunded.
LEMMA FinalizesOpen ==
  ASSUME TypeOK, Progress, Settled, NEW o \in Orders, Finalize(o),
         FinalizeFreeOrder(o) \/ Webhook(o) \/ ConfirmFinalize(o)
  PROVE  \/ order[o] = "PENDING" /\ refunded[o] = 0
         \/ order[o] \in {"PAID", "REFUNDED"} /\ refunded[o] > 0 /\ charge[o] = "paid"
<1>0. refunded[o] \in Nat
  BY DEF TypeOK
<1>1. CASE FinalizeFreeOrder(o)
  BY <1>0, <1>1 DEF FinalizeFreeOrder, Progress, Settled
<1>2. CASE Webhook(o) \/ ConfirmFinalize(o)
  <2>1. charge[o] = "paid"
    BY <1>2 DEF Webhook, ConfirmFinalize, Progress
  <2>2. order[o] \in {"PENDING", "PAID", "REFUNDED"}
    BY <2>1 DEF TypeOK, OrderStatus, Progress
  <2>3. order[o] = "PAID" => refunded[o] > 0
    BY <1>0 DEF Finalize, AlreadyFinal, Settled
  <2> QED BY <1>0, <2>1, <2>2, <2>3 DEF Settled
<1> QED BY <1>1, <1>2

LEMMA SomeTickets ==
  ASSUME TicketsIssuedOnce, NEW o \in Orders
  PROVE  NoTickets(o) <=> order[o] \notin {"PAID", "REFUNDED"}
<1>1. PICK t \in Tiers : Lines[o][t] > 0
  BY CheckoutAssumption
<1> QED BY <1>1 DEF TicketsIssuedOnce, NoTickets

LEMMA BuyBooks ==
  ASSUME TypeOK, Progress, Settled, TicketsIssuedOnce, NEW o \in Orders, Buy(o)
  PROVE  BooksNothing \/ Opens(o) \/ Closes(o) \/ Sells(o) \/ Resells(o)
<1>1. CASE InitializePaystackCheckout(o) \/ InitializeCompCheckout(o)
  BY <1>1 DEF InitializePaystackCheckout, InitializeCompCheckout, Insert, Opens
<1>2. CASE CompleteDemoCheckout(o)
  <2>1. order[o] = "NONE" /\ ~(refunded[o] > 0) /\ refunded[o] \in Nat
    BY <1>2 DEF CompleteDemoCheckout, Settled, TypeOK
  <2>2. refunded[o] = 0
    BY <2>1
  <2> QED BY <1>2, <2>1, <2>2 DEF CompleteDemoCheckout, Sells
<1>3. CASE FinalizeFreeOrder(o) \/ Webhook(o) \/ ConfirmFinalize(o)
  <2>1. CASE Finalize(o) /\ order[o] = "PENDING"
    <3>1. refunded[o] = 0 /\ NoTickets(o)
      BY <1>3, <2>1, FinalizesOpen, SomeTickets
    <3> QED BY <2>1, <3>1 DEF Finalize, Sells
  <2>2. CASE Finalize(o) /\ order[o] # "PENDING"
    <3>1. /\ order[o] \in {"PAID", "REFUNDED"} /\ refunded[o] > 0
          /\ charge[o] = "paid" /\ ~NoTickets(o)
      BY <1>3, <2>2, FinalizesOpen, SomeTickets
    <3> QED BY <2>2, <3>1 DEF Finalize, Resells
  <2>3. CASE ~Finalize(o)
    BY <1>3, <2>3 DEF FinalizeFreeOrder, Webhook, ConfirmFinalize, BooksNothing
  <2> QED BY <2>1, <2>2, <2>3
<1>4. CASE GatewayRefuses(o)
  BY <1>4 DEF GatewayRefuses, Progress, Closes
<1>5. CASE \/ GatewayAccepts(o) \/ GatewayUnreachable(o) \/ BuyerPays(o)
           \/ ConfirmVerify(o)
  BY <1>5 DEF GatewayAccepts, GatewayUnreachable, BuyerPays, ConfirmVerify,
     BooksNothing
<1> QED BY <1>1, <1>2, <1>3, <1>4, <1>5 DEF Buy

LEMMA RefundBooks ==
  ASSUME TypeOK, AmountsAsked, NEW a \in Admins, NEW o \in Orders, Refund(a, o)
  PROVE  BooksNothing \/ \E r \in 1..Amount[o] : TakesBack(o, r)
<1>1. CASE RefundCommit(a, o)
  <2>1. refund[a][o].amount \in 1..Amount[o]
    BY <1>1 DEF RefundCommit, AmountsAsked
  <2>2. TakesBack(o, refund[a][o].amount)
    BY <1>1 DEF RefundCommit, TakesBack
  <2> QED BY <2>1, <2>2
<1>2. CASE ~RefundCommit(a, o)
  BY <1>2 DEF Refund, RefundCheck, RefundGateway, RefundThrows, RefundStops,
     BooksNothing
<1> QED BY <1>1, <1>2

LEMMA StepBooks ==
  ASSUME TypeOK, Progress, Settled, AmountsAsked, TicketsIssuedOnce, [Next]_vars
  PROVE  \/ BooksNothing
         \/ \E o \in Orders :
              Opens(o) \/ Closes(o) \/ Sells(o) \/ Resells(o) \/ Admits(o)
         \/ \E o \in Orders : \E r \in 1..Amount[o] : TakesBack(o, r)
<1>1. ASSUME NEW o \in Orders, Deliver(o) PROVE BooksNothing
  BY <1>1 DEF Deliver, MailRead, MailReceipt, MailTicket, MailMark,
     MailTicketFails, ResendRead, ResendSave, BooksNothing
<1>2. ASSUME NEW o \in Orders, CheckIn(o) PROVE Admits(o)
  BY <1>2 DEF CheckIn, Admits
<1>3. CASE UNCHANGED vars
  BY <1>3 DEF vars, BooksNothing, books
<1> QED BY <1>1, <1>2, <1>3, BuyBooks, RefundBooks DEF Next

LEMMA AmountsStep == TypeOK /\ AmountsAsked /\ [Next]_vars => AmountsAsked'
<1> SUFFICES ASSUME TypeOK, AmountsAsked, [Next]_vars PROVE AmountsAsked'
  OBVIOUS
<1>1. ASSUME NEW a \in Admins, NEW o \in Orders, NEW x,
             x.pc # "idle" => x.amount \in 1..Amount[o],
             refund' = [refund EXCEPT ![a][o] = x]
      PROVE  AmountsAsked'
  BY <1>1 DEF TypeOK, AmountsAsked
<1>2. refund' = refund => AmountsAsked'
  BY DEF AmountsAsked
<1>3. ASSUME NEW a \in Admins, NEW o \in Orders, Refund(a, o) PROVE AmountsAsked'
  <2>1. CASE RefundCheck(a, o)
    <3>1. PICK r \in 1..Amount[o] :
            refund' = [refund EXCEPT ![a][o] =
              [pc |-> IF SkipsGateway(o) THEN "called" ELSE "checked", amount |-> r]]
      BY <2>1 DEF RefundCheck
    <3> DEFINE x == [pc |-> IF SkipsGateway(o) THEN "called" ELSE "checked", amount |-> r]
    <3>2. x.pc # "idle" => x.amount \in 1..Amount[o]
      OBVIOUS
    <3>3. refund' = [refund EXCEPT ![a][o] = x]
      BY <3>1
    <3> HIDE DEF x
    <3> QED BY <1>1, <3>2, <3>3
  <2>2. CASE refund' = [refund EXCEPT ![a][o] = NoRefund]
    BY <1>1, <2>2 DEF NoRefund
  <2>3. CASE RefundGateway(a, o) /\ refund' = [refund EXCEPT ![a][o].pc = "called"]
    <3>1. refund[a][o].amount \in 1..Amount[o]
      BY <2>3 DEF RefundGateway, AmountsAsked
    <3>2. refund' = [refund EXCEPT ![a][o] = [refund[a][o] EXCEPT !.pc = "called"]]
      BY <2>3 DEF TypeOK
    <3>3. [refund[a][o] EXCEPT !.pc = "called"].amount = refund[a][o].amount
      BY DEF TypeOK
    <3> QED BY <1>1, <3>1, <3>2, <3>3
  <2> QED BY <1>3, <2>1, <2>2, <2>3
          DEF Refund, RefundGateway, RefundCommit, RefundThrows, RefundStops
<1>4. ASSUME NEW o \in Orders, Buy(o) PROVE refund' = refund
  BY <1>4 DEF Buy, InitializePaystackCheckout, InitializeCompCheckout, Insert,
     FinalizeFreeOrder, GatewayAccepts, GatewayRefuses, GatewayUnreachable,
     CompleteDemoCheckout, BuyerPays, Webhook, ConfirmVerify, ConfirmFinalize
<1>5. ASSUME NEW o \in Orders, Deliver(o) \/ CheckIn(o) PROVE refund' = refund
  BY <1>5 DEF Deliver, MailRead, MailReceipt, MailTicket, MailMark,
     MailTicketFails, ResendRead, ResendSave, CheckIn
<1>6. CASE UNCHANGED vars
  BY <1>2, <1>6 DEF vars
<1> QED BY <1>2, <1>3, <1>4, <1>5, <1>6 DEF Next

\* Settled of one order, for steps that leave the rows of the others alone.
SettledFor(o) ==
  /\ order[o] = "REFUNDED" => refunded[o] > 0
  /\ refunded[o] > 0 => order[o] \in {"PAID", "REFUNDED"}
  /\ order[o] = "PAID" /\ refunded[o] = 0 => payment[o].status = "SUCCESS"
  /\ mail[o].pc # "idle" => order[o] \in {"PAID", "REFUNDED"}
  /\ refunded[o] = 0 /\ mail[o].pc \in {"receipt", "mark"} =>
       mail[o].copy.status = "SUCCESS"
  /\ resend[o].busy => resend[o].copy.status = "SUCCESS"

\* The rows of order o, and the copies of them.
RowsOf(o) == <<order[o], payment[o], refunded[o], mail[o], resend[o]>>

LEMMA SettledByOrder ==
  ASSUME Settled, NEW o \in Orders, SettledFor(o)',
         \A p \in Orders \ {o} : RowsOf(p)' = RowsOf(p)
  PROVE  Settled'
<1> SUFFICES ASSUME NEW p \in Orders PROVE SettledFor(p)'
  BY DEF Settled, SettledFor
<1>1. CASE p = o
  BY <1>1
<1>2. CASE p # o
  <2>1. SettledFor(p) /\ RowsOf(p)' = RowsOf(p)
    BY <1>2 DEF Settled, SettledFor
  <2> QED BY <2>1 DEF SettledFor, RowsOf
<1> QED BY <1>1, <1>2

LEMMA BuySettled ==
  ASSUME TypeOK, Progress, Settled, TicketsIssuedOnce, NEW o \in Orders, Buy(o)
  PROVE  Settled'
<1>0. SettledFor(o)
  BY DEF Settled, SettledFor
<1>1. CASE InitializePaystackCheckout(o) \/ InitializeCompCheckout(o)
  <2>1. /\ order[o] = "NONE"
        /\ order' = [order EXCEPT ![o] = "PENDING"]
        /\ payment' = [payment EXCEPT ![o].status = "INITIATED"]
        /\ UNCHANGED <<refunded, mails>>
    BY <1>1 DEF InitializePaystackCheckout, InitializeCompCheckout, Insert, books
  <2>2. \A p \in Orders \ {o} : RowsOf(p)' = RowsOf(p)
    BY <2>1 DEF TypeOK, RowsOf, mails
  <2>3. SettledFor(o)'
    BY <1>0, <2>1 DEF TypeOK, SettledFor, mails
  <2> QED BY <2>2, <2>3, SettledByOrder
<1>2. CASE CompleteDemoCheckout(o)
  <2>1. /\ order[o] = "NONE"
        /\ order' = [order EXCEPT ![o] = "PAID"]
        /\ payment' = [payment EXCEPT ![o].status = "SUCCESS"]
        /\ UNCHANGED <<refunded, mails>>
    BY <1>2 DEF CompleteDemoCheckout
  <2>2. \A p \in Orders \ {o} : RowsOf(p)' = RowsOf(p)
    BY <2>1 DEF TypeOK, RowsOf, mails
  <2>3. payment'[o].status = "SUCCESS"
    BY <2>1 DEF TypeOK, Payment
  <2>4. SettledFor(o)'
    BY <1>0, <2>1, <2>3 DEF TypeOK, SettledFor, mails
  <2> QED BY <2>2, <2>4, SettledByOrder
<1>3. CASE /\ FinalizeFreeOrder(o) \/ Webhook(o) \/ ConfirmFinalize(o)
           /\ Finalize(o)
  <2>1. /\ order' = [order EXCEPT ![o] = "PAID"]
        /\ payment' = [payment EXCEPT ![o].status = "SUCCESS"]
        /\ mail' = IF NoTickets(o) THEN [mail EXCEPT ![o] = [mail[o] EXCEPT !.pc = "start"]]
                   ELSE mail
        /\ UNCHANGED <<resend, refunded>>
    BY <1>3 DEF Finalize, FinalizeFreeOrder, Webhook, ConfirmFinalize
  <2>2. \A p \in Orders \ {o} : RowsOf(p)' = RowsOf(p)
    BY <2>1 DEF TypeOK, RowsOf
  <2>3. /\ order'[o] = "PAID" /\ payment'[o].status = "SUCCESS"
        /\ mail'[o].pc = "start" \/ mail'[o] = mail[o]
    BY <2>1 DEF TypeOK, Payment
  <2>4. SettledFor(o)'
    BY <1>0, <2>1, <2>3 DEF SettledFor
  <2> QED BY <2>2, <2>4, SettledByOrder
<1>4. CASE /\ FinalizeFreeOrder(o) \/ Webhook(o) \/ ConfirmFinalize(o)
           /\ ~Finalize(o)
  BY <1>4 DEF FinalizeFreeOrder, Webhook, ConfirmFinalize, Settled, books
<1>5. CASE GatewayAccepts(o)
  <2>1. /\ order[o] = "PENDING"
        /\ payment' = [payment EXCEPT ![o].status = "AUTH_REQUIRED"]
        /\ UNCHANGED <<order, refunded, mails>>
    BY <1>5 DEF GatewayAccepts, Progress, books
  <2>2. \A p \in Orders \ {o} : RowsOf(p)' = RowsOf(p)
    BY <2>1 DEF TypeOK, RowsOf, mails
  <2>3. SettledFor(o)'
    BY <1>0, <2>1 DEF SettledFor, mails
  <2> QED BY <2>2, <2>3, SettledByOrder
<1>6. CASE GatewayRefuses(o)
  <2>1. /\ order[o] = "PENDING"
        /\ order' = [order EXCEPT ![o] = "FAILED"]
        /\ payment' = [payment EXCEPT ![o] = [NoPayment EXCEPT !.status = "FAILED"]]
        /\ UNCHANGED <<refunded, mails>>
    BY <1>6 DEF GatewayRefuses, Progress, books
  <2>2. \A p \in Orders \ {o} : RowsOf(p)' = RowsOf(p)
    BY <2>1 DEF TypeOK, RowsOf, mails
  <2>3. SettledFor(o)'
    BY <1>0, <2>1 DEF TypeOK, SettledFor, mails
  <2> QED BY <2>2, <2>3, SettledByOrder
<1>7. CASE GatewayUnreachable(o) \/ BuyerPays(o) \/ ConfirmVerify(o)
  BY <1>7 DEF GatewayUnreachable, BuyerPays, ConfirmVerify, Settled, mails, books
<1> QED BY <1>1, <1>2, <1>3, <1>4, <1>5, <1>6, <1>7 DEF Buy

LEMMA DeliverSettled ==
  ASSUME TypeOK, Settled, NEW o \in Orders, Deliver(o)
  PROVE  Settled'
<1>0. SettledFor(o) /\ order' = order /\ refunded' = refunded
  BY DEF Settled, SettledFor, Deliver, MailRead, MailReceipt, MailTicket, MailMark,
     MailTicketFails, ResendRead, ResendSave, books
<1>1. \A p \in Orders \ {o} : RowsOf(p)' = RowsOf(p)
  <2>1. \A p \in Orders \ {o} :
          payment'[p] = payment[p] /\ mail'[p] = mail[p] /\ resend'[p] = resend[p]
    <3>1. CASE MailRead(o) \/ MailTicket(o) \/ MailTicketFails(o)
      BY <3>1 DEF TypeOK, MailRead, MailTicket, MailTicketFails
    <3>2. CASE MailReceipt(o)
      BY <3>2 DEF TypeOK, MailReceipt
    <3>3. CASE MailMark(o)
      BY <3>3 DEF TypeOK, MailMark
    <3>4. CASE ResendRead(o) \/ ResendSave(o)
      BY <3>4 DEF TypeOK, ResendRead, ResendSave
    <3> QED BY <3>1, <3>2, <3>3, <3>4 DEF Deliver
  <2> QED BY <1>0, <2>1 DEF RowsOf
<1>2. SettledFor(o)'
  <2>1. CASE MailRead(o) \/ MailTicket(o)
    BY <1>0, <2>1 DEF TypeOK, SettledFor, MailRead, MailTicket
  <2>2. CASE MailReceipt(o)
    <3>1. payment'[o] = payment[o] \/ payment'[o].status = mail[o].copy.status
      BY <2>2 DEF TypeOK, MailReceipt, Payment
    <3>2. mail[o].pc = "receipt" /\ mail'[o].pc = "ticket" /\ resend' = resend
      BY <2>2 DEF TypeOK, MailReceipt
    <3> QED BY <1>0, <3>1, <3>2 DEF SettledFor
  <2>3. CASE MailMark(o)
    <3>1. payment'[o].status = mail[o].copy.status
      BY <2>3 DEF TypeOK, MailMark, Payment
    <3>2. mail[o].pc = "mark" /\ mail'[o].pc = "idle" /\ resend' = resend
      BY <2>3 DEF TypeOK, MailMark, NoMail
    <3> QED BY <1>0, <3>1, <3>2 DEF SettledFor
  <2>4. CASE MailTicketFails(o)
    BY <1>0, <2>4 DEF TypeOK, SettledFor, MailTicketFails, NoMail
  <2>5. CASE ResendRead(o)
    BY <1>0, <2>5 DEF TypeOK, SettledFor, ResendRead
  <2>6. CASE ResendSave(o)
    <3>1. payment'[o].status = resend[o].copy.status /\ ~resend'[o].busy
      BY <2>6 DEF TypeOK, ResendSave, NoResend, Payment
    <3>2. resend[o].busy /\ mail' = mail
      BY <2>6 DEF ResendSave
    <3> QED BY <1>0, <3>1, <3>2 DEF SettledFor
  <2> QED BY <2>1, <2>2, <2>3, <2>4, <2>5, <2>6 DEF Deliver
<1> QED BY <1>1, <1>2, SettledByOrder

LEMMA SettledStep ==
  ASSUME TypeOK, Progress, TicketsIssuedOnce, Settled, AmountsAsked, [Next]_vars
  PROVE  Settled'
<1>1. ASSUME NEW o \in Orders, CheckIn(o) PROVE Settled'
  BY <1>1 DEF CheckIn, Settled, mails, books
<1>2. ASSUME NEW a \in Admins, NEW o \in Orders, Refund(a, o) PROVE Settled'
  <2>1. CASE RefundCommit(a, o)
    <3>1. /\ order[o] = "PAID"
          /\ order' = [order EXCEPT ![o] = "REFUNDED"]
          /\ refunded' = [refunded EXCEPT ![o] = refund[a][o].amount]
          /\ \A p \in Orders \ {o} : payment'[p] = payment[p]
          /\ UNCHANGED mails
      BY <2>1 DEF RefundCommit, TypeOK
    <3>2. \A p \in Orders \ {o} : RowsOf(p)' = RowsOf(p)
      BY <3>1 DEF TypeOK, RowsOf, mails
    <3>3. refunded'[o] > 0
      <4>1. refund[a][o].amount \in 1..Amount[o]
        BY <2>1 DEF RefundCommit, AmountsAsked
      <4>2. refunded'[o] = refund[a][o].amount
        BY <3>1 DEF TypeOK
      <4> QED BY <4>1, <4>2, ConstantTypes
    <3>4. SettledFor(o)'
      BY <3>1, <3>3 DEF TypeOK, Settled, SettledFor, mails
    <3> QED BY <3>2, <3>4, SettledByOrder
  <2>2. CASE ~RefundCommit(a, o)
    BY <1>2, <2>2 DEF Refund, RefundCheck, RefundGateway, RefundThrows, RefundStops,
       Settled, mails, books
  <2> QED BY <2>1, <2>2
<1>3. CASE UNCHANGED vars
  BY <1>3 DEF vars, Settled
<1> QED BY <1>1, <1>2, <1>3, BuySettled, DeliverSettled DEF Next

\* What every step below may rely on.
OnTrack == TypeOK /\ Progress /\ TicketsIssuedOnce /\ Settled /\ AmountsAsked

LEMMA OnTrackAlways == Spec => []OnTrack
<1>1. Init => Settled /\ AmountsAsked
  BY DEF Init, Settled, AmountsAsked, NoMail, NoResend, NoRefund
<1>2. /\ TypeOK /\ Progress /\ TicketsIssuedOnce /\ Settled /\ AmountsAsked
      /\ [Next]_vars
      => Settled'
  BY SettledStep
<1> QED BY <1>1, <1>2, TypeCorrect, ProgressInvariant, TicketsOncePerOrder,
           AmountsStep, PTL DEF Spec, OnTrack

-----------------------------------------------------------------------------
(* The status, the ledger and the door follow the order *)

\* Orders only move forward, but for a refunded order whose charge is reported
\* once more: finalising rechecks for PAID and for nothing else.
THEOREM StatusMovesForward == Spec => OrderMovesForward
<1> DEFINE Forward == \A o \in Orders : order'[o] # order[o] =>
      \/ <<order[o], order'[o]>> \in
           {<<"NONE", "PENDING">>, <<"NONE", "PAID">>, <<"PENDING", "PAID">>,
            <<"PENDING", "FAILED">>, <<"PAID", "REFUNDED">>}
      \/ /\ <<order[o], order'[o]>> = <<"REFUNDED", "PAID">>
         /\ charge[o] = "paid" /\ refunded[o] > 0
<1>1. OnTrack /\ [Next]_vars => [Forward]_vars
  <2> SUFFICES ASSUME OnTrack, [Next]_vars, NEW p \in Orders, order'[p] # order[p]
               PROVE  \/ <<order[p], order'[p]>> \in
                           {<<"NONE", "PENDING">>, <<"NONE", "PAID">>,
                            <<"PENDING", "PAID">>, <<"PENDING", "FAILED">>,
                            <<"PAID", "REFUNDED">>}
                      \/ /\ <<order[p], order'[p]>> = <<"REFUNDED", "PAID">>
                         /\ charge[p] = "paid" /\ refunded[p] > 0
    OBVIOUS
  <2>1. TypeOK /\ order \in [Orders -> OrderStatus]
    BY DEF OnTrack, TypeOK
  <2>2. ASSUME NEW o \in Orders, NEW s, order' = [order EXCEPT ![o] = s]
        PROVE  p = o /\ order'[p] = s
    BY <2>1, <2>2
  <2>3. ASSUME NEW o \in Orders, Opens(o) PROVE order[p] = "NONE" /\ order'[p] = "PENDING"
    BY <2>2, <2>3 DEF Opens
  <2>4. ASSUME NEW o \in Orders, Closes(o) PROVE order[p] = "PENDING" /\ order'[p] = "FAILED"
    BY <2>2, <2>4 DEF Closes
  <2>5. ASSUME NEW o \in Orders, Sells(o)
        PROVE  order[p] \in {"NONE", "PENDING"} /\ order'[p] = "PAID"
    BY <2>2, <2>5 DEF Sells
  <2>6. ASSUME NEW o \in Orders, Resells(o)
        PROVE  /\ order[p] = "REFUNDED" /\ order'[p] = "PAID"
               /\ charge[p] = "paid" /\ refunded[p] > 0
    <3>1. p = o /\ order'[p] = "PAID"
      BY <2>2, <2>6 DEF Resells
    <3> QED BY <2>6, <3>1 DEF Resells
  <2>7. ASSUME NEW o \in Orders, NEW r \in 1..Amount[o], TakesBack(o, r)
        PROVE  order[p] = "PAID" /\ order'[p] = "REFUNDED"
    BY <2>2, <2>7 DEF TakesBack
  <2>8. order' # order
    OBVIOUS
  <2> QED BY <2>3, <2>4, <2>5, <2>6, <2>7, <2>8, StepBooks
          DEF OnTrack, BooksNothing, Admits
<1> QED BY <1>1, OnTrackAlways, PTL DEF Spec, OrderMovesForward

\* No share of a credit of nothing.
LEMMA PartialShare ==
  ASSUME NEW o \in Orders, NEW r \in 1..Amount[o], Net(o) = 0
  PROVE  (2 * Net(o) * r + Amount[o]) \div (2 * Amount[o]) = 0
<1>1. Amount[o] \in Nat /\ Amount[o] > 0 /\ r \in Nat
  BY ConstantTypes
<1>2. 2 * Net(o) * r + Amount[o] = Amount[o]
  BY <1>1
<1>3. Amount[o] \div (2 * Amount[o]) = 0
  BY <1>1
<1> QED BY <1>2, <1>3

\* The entries of one order.
Entries(p) ==
  /\ earned[p] = IF order[p] \in {"PAID", "REFUNDED"} THEN Net(p) ELSE 0
  /\ refunded[p] = 0 => reversed[p] = 0
  /\ refunded[p] > 0 /\ p \notin again => reversed[p] = Reversal(p, refunded[p])

\* A paid order has its credit: finalising it again adds nothing.
LEMMA CreditedOnce ==
  ASSUME TypeOK, LedgerFollowsOrder, NEW o \in Orders,
         order[o] \in {"PAID", "REFUNDED"}, EnsureOrderEarnings(o)
  PROVE  earned' = earned /\ earned[o] = Net(o)
<1>1. earned[o] = Net(o)
  BY DEF LedgerFollowsOrder
<1>2. (IF earned[o] = 0 THEN Net(o) ELSE earned[o]) = earned[o]
  BY <1>1
<1>3. earned' = [earned EXCEPT ![o] = IF earned[o] = 0 THEN Net(o) ELSE earned[o]]
  BY DEF EnsureOrderEarnings
<1> QED BY <1>1, <1>2, <1>3 DEF TypeOK

LEMMA LedgerStep ==
  ASSUME OnTrack, LedgerFollowsOrder, [Next]_vars
  PROVE  LedgerFollowsOrder'
<1>1. SUFFICES ASSUME NEW p \in Orders PROVE Entries(p)'
  BY DEF LedgerFollowsOrder, Entries, Net, Reversal
<1>2. Entries(p)
  BY DEF LedgerFollowsOrder, Entries
<1>3. TypeOK /\ Net(p) \in Nat
  BY NetType DEF OnTrack
<1>4. ASSUME UNCHANGED books,
             order'[p] \in {"PAID", "REFUNDED"} <=> order[p] \in {"PAID", "REFUNDED"}
      PROVE  Entries(p)'
  BY <1>2, <1>4 DEF Entries, books, Net, Reversal
<1>5. CASE BooksNothing
  BY <1>4, <1>5 DEF BooksNothing
<1>6. ASSUME NEW o \in Orders, Opens(o) \/ Closes(o) \/ Admits(o) PROVE Entries(p)'
  BY <1>3, <1>4, <1>6 DEF Opens, Closes, Admits, TypeOK
<1>7. ASSUME NEW o \in Orders, Sells(o) PROVE Entries(p)'
  <2>1. earned' = [earned EXCEPT ![o] = IF @ = 0 THEN Net(o) ELSE @]
    BY <1>7 DEF Sells, EnsureOrderEarnings
  <2>2. UNCHANGED <<reversed, refunded, again>> /\ order' = [order EXCEPT ![o] = "PAID"]
    BY <1>7 DEF Sells
  <2>3. CASE p = o
    <3>1. earned[p] = 0
      BY <1>2, <1>7, <2>3 DEF Sells, Entries
    <3>2. earned'[p] = Net(p) /\ order'[p] = "PAID"
      BY <1>3, <2>1, <2>2, <2>3, <3>1 DEF TypeOK
    <3> QED BY <1>2, <2>2, <3>2 DEF Entries, Net, Reversal
  <2>4. CASE p # o
    <3>1. earned'[p] = earned[p] /\ order'[p] = order[p]
      BY <1>3, <2>1, <2>2, <2>4 DEF TypeOK
    <3> QED BY <1>2, <2>2, <3>1 DEF Entries, Net, Reversal
  <2> QED BY <2>3, <2>4
<1>8. ASSUME NEW o \in Orders, Resells(o) PROVE Entries(p)'
  <2>1. earned' = earned
    BY <1>3, <1>8, CreditedOnce DEF Resells
  <2>2. order'[p] \in {"PAID", "REFUNDED"} <=> order[p] \in {"PAID", "REFUNDED"}
    BY <1>3, <1>8 DEF Resells, TypeOK
  <2> QED BY <1>2, <1>8, <2>1, <2>2 DEF Resells, Entries, Net, Reversal
<1>9. ASSUME NEW o \in Orders, NEW r \in 1..Amount[o], TakesBack(o, r)
      PROVE  Entries(p)'
  <2>1. /\ order' = [order EXCEPT ![o] = "REFUNDED"]
        /\ refunded' = [refunded EXCEPT ![o] = r]
        /\ reversed' = [reversed EXCEPT ![o] =
                          IF earned[o] > 0 /\ @ = 0 THEN Reversal(o, r) ELSE @]
        /\ again' = IF refunded[o] > 0 THEN again \cup {o} ELSE again
        /\ earned' = earned
        /\ order[o] = "PAID"
    BY <1>9 DEF TakesBack, EnsureOrderRefundReversal
  <2>2. CASE p = o
    <3>1. /\ order'[p] = "REFUNDED" /\ refunded'[p] = r
          /\ earned[p] = Net(p) /\ earned'[p] = Net(p)
      BY <1>2, <1>3, <2>1, <2>2 DEF TypeOK, Entries
    <3>2. r > 0 /\ refunded[p] \in Nat
      BY <1>3, <2>2, ConstantTypes DEF TypeOK
    <3>3. ASSUME refunded[p] = 0 PROVE reversed'[p] = Reversal(p, r)
      <4>1. reversed[p] = 0
        BY <1>2, <3>3 DEF Entries
      <4>2. reversed'[p] = IF earned[p] > 0 THEN Reversal(p, r) ELSE 0
        BY <1>3, <2>1, <2>2, <4>1 DEF TypeOK
      <4>3. Net(p) = 0 => Reversal(p, r) = 0
        BY <2>2, PartialShare DEF Reversal
      <4> QED BY <1>3, <3>1, <4>2, <4>3
    <3>4. refunded[p] > 0 => p \in again'
      BY <2>1, <2>2
    <3> QED BY <3>1, <3>2, <3>3, <3>4 DEF Entries, Net, Reversal
  <2>3. CASE p # o
    <3>1. /\ order'[p] = order[p] /\ refunded'[p] = refunded[p]
          /\ reversed'[p] = reversed[p] /\ (p \in again' <=> p \in again)
      BY <1>3, <2>1, <2>3 DEF TypeOK
    <3> QED BY <1>2, <2>1, <3>1 DEF Entries, Net, Reversal
  <2> QED BY <2>2, <2>3
<1> QED BY <1>5, <1>6, <1>7, <1>8, <1>9, StepBooks DEF OnTrack

\* Whatever webhooks, refunds and stale mails do to an order, its organizer has
\* the one credit of a paid order, less the share of a recorded refund.
THEOREM LedgerFollows == Spec => []LedgerFollowsOrder
<1>1. Init => LedgerFollowsOrder
  BY DEF Init, LedgerFollowsOrder
<1>2. OnTrack /\ LedgerFollowsOrder /\ [Next]_vars => LedgerFollowsOrder'
  BY LedgerStep
<1> QED BY <1>1, <1>2, OnTrackAlways, PTL DEF Spec

LEMMA AdmitsStep ==
  ASSUME OnTrack, AdmitsUnrefunded, [Next]_vars
  PROVE  AdmitsUnrefunded'
<1> DEFINE Door(p) ==
      /\ ticket[p] \in {"ISSUED", "CHECKED_IN"} <=> order[p] = "PAID" /\ refunded[p] = 0
      /\ ticket[p] = "VOID" <=> refunded[p] > 0
<1>1. SUFFICES ASSUME NEW p \in Orders PROVE Door(p)'
  BY DEF AdmitsUnrefunded
<1>2. /\ Door(p)
      /\ order \in [Orders -> OrderStatus] /\ ticket \in [Orders -> TicketStatus]
      /\ refunded \in [Orders -> Nat]
  BY DEF AdmitsUnrefunded, OnTrack, TypeOK
<1>3. CASE BooksNothing
  BY <1>2, <1>3 DEF BooksNothing, books
<1>4. ASSUME NEW o \in Orders, Opens(o) \/ Closes(o) PROVE Door(p)'
  BY <1>2, <1>4 DEF Opens, Closes, books
<1>5. ASSUME NEW o \in Orders, Sells(o) PROVE Door(p)'
  BY <1>2, <1>5 DEF Sells
<1>6. ASSUME NEW o \in Orders, Resells(o) PROVE Door(p)'
  BY <1>2, <1>6 DEF Resells
<1>7. ASSUME NEW o \in Orders, Admits(o) PROVE Door(p)'
  BY <1>2, <1>7 DEF Admits, books
<1>8. ASSUME NEW o \in Orders, NEW r \in 1..Amount[o], TakesBack(o, r)
      PROVE  Door(p)'
  <2>1. /\ order[o] = "PAID"
        /\ order' = [order EXCEPT ![o] = "REFUNDED"]
        /\ ticket' = [ticket EXCEPT ![o] = IF @ = "NONE" THEN @ ELSE "VOID"]
        /\ refunded' = [refunded EXCEPT ![o] = r]
    BY <1>8 DEF TakesBack
  <2>2. CASE p = o
    <3>1. r > 0
      BY ConstantTypes
    <3>2. ticket[p] # "NONE"
      BY <1>2, <2>1, <2>2 DEF TicketStatus
    <3>3. order'[p] = "REFUNDED" /\ ticket'[p] = "VOID" /\ refunded'[p] = r
      BY <1>2, <2>1, <2>2, <3>2
    <3> QED BY <3>1, <3>3
  <2>3. CASE p # o
    BY <1>2, <2>1, <2>3
  <2> QED BY <2>2, <2>3
<1> HIDE DEF Door
<1> QED BY <1>3, <1>4, <1>5, <1>6, <1>7, <1>8, StepBooks DEF OnTrack

\* The door admits exactly the tickets of PAID orders of which nothing went back:
\* a refund voids them in the step in which it takes the order back, and no
\* webhook, return page or stale mail revives them.
THEOREM NoTicketRevived == Spec => []AdmitsUnrefunded
<1>1. Init => AdmitsUnrefunded
  BY DEF Init, AdmitsUnrefunded
<1>2. OnTrack /\ AdmitsUnrefunded /\ [Next]_vars => AdmitsUnrefunded'
  BY AdmitsStep
<1> QED BY <1>1, <1>2, OnTrackAlways, PTL DEF Spec

-----------------------------------------------------------------------------
(* The counter of a tier is the seats of its paid orders *)

\* The numbered seats of one order.
SeatsOf(o, t) == {o} \X (1..Lines[o][t])

LEMMA SeatsOfOrder ==
  ASSUME NEW o \in Orders, NEW t \in Tiers
  PROVE  IsFiniteSet(SeatsOf(o, t)) /\ Cardinality(SeatsOf(o, t)) = Lines[o][t]
<1> DEFINE n == Lines[o][t]
<1>1. n \in Nat
  BY ConstantTypes
<1> HIDE DEF n
<1>2. IsFiniteSet(1..n) /\ Cardinality(1..n) = IF 1 > n THEN 0 ELSE n - 1 + 1
  BY <1>1, FS_Interval
<1>3. Cardinality(1..n) = n
  BY <1>1, <1>2
<1>4. IsFiniteSet({o}) /\ Cardinality({o}) = 1
  BY FS_Singleton
<1>5. /\ IsFiniteSet({o} \X (1..n))
      /\ Cardinality({o} \X (1..n)) = Cardinality({o}) * Cardinality(1..n)
  BY <1>2, <1>4, FS_Product
<1>6. Cardinality({o} \X (1..n)) = n
  BY <1>1, <1>3, <1>4, <1>5
<1> QED BY <1>5, <1>6 DEF SeatsOf, n

\* Selling adds the seats of an order that had none.
LEMMA SeatsAdded ==
  ASSUME NEW t \in Tiers, NEW o \in Orders, TypeOK, order[o] # "PAID",
         order' = [order EXCEPT ![o] = "PAID"]
  PROVE  /\ PaidSeats(t)' = PaidSeats(t) \cup SeatsOf(o, t)
         /\ PaidSeats(t) \cap SeatsOf(o, t) = {}
<1>1. \A p \in Orders : order'[p] = "PAID" <=> order[p] = "PAID" \/ p = o
  BY DEF TypeOK
<1>2. PaidSeats(t)' = PaidSeats(t) \cup SeatsOf(o, t)
  BY <1>1 DEF PaidSeats, SeatsOf
<1>3. PaidSeats(t) \cap SeatsOf(o, t) = {}
  BY DEF PaidSeats, SeatsOf
<1> QED BY <1>2, <1>3

\* A refund takes the seats of its order away, and no others.
LEMMA SeatsRemoved ==
  ASSUME NEW t \in Tiers, NEW o \in Orders, TypeOK, order[o] = "PAID",
         order' = [order EXCEPT ![o] = "REFUNDED"]
  PROVE  /\ PaidSeats(t)' = PaidSeats(t) \ SeatsOf(o, t)
         /\ SeatsOf(o, t) \subseteq PaidSeats(t)
<1>1. \A p \in Orders : order'[p] = "PAID" <=> order[p] = "PAID" /\ p # o
  BY DEF TypeOK
<1>2. PaidSeats(t)' = PaidSeats(t) \ SeatsOf(o, t)
  BY <1>1 DEF PaidSeats, SeatsOf
<1>3. SeatsOf(o, t) \subseteq PaidSeats(t)
  BY DEF PaidSeats, SeatsOf
<1> QED BY <1>2, <1>3

\* No order of the tier was finalised while it was PAID.
Unrepeated(t) == \A o \in rebooked : Lines[o][t] = 0

SeatsCounted ==
  \A t \in Tiers :
    /\ IsFiniteSet(PaidSeats(t))
    /\ sold[t] >= Cardinality(PaidSeats(t))
    /\ Unrepeated(t) => sold[t] = Cardinality(PaidSeats(t))

\* The seats of a paid order are among those its tiers have counted.
LEMMA SeatsCovered ==
  ASSUME SeatsCounted, TypeOK, NEW o \in Orders, order[o] = "PAID", NEW t \in Tiers
  PROVE  Lines[o][t] <= sold[t]
<1>1. SeatsOf(o, t) \subseteq PaidSeats(t)
  BY DEF SeatsOf, PaidSeats
<1>2. /\ Cardinality(SeatsOf(o, t)) <= Cardinality(PaidSeats(t))
      /\ Cardinality(PaidSeats(t)) \in Nat
  BY <1>1, FS_Subset, FS_CardinalityType DEF SeatsCounted
<1>3. Lines[o][t] <= Cardinality(PaidSeats(t)) /\ Cardinality(PaidSeats(t)) <= sold[t]
  BY <1>2, SeatsOfOrder DEF SeatsCounted
<1> QED BY <1>2, <1>3, ConstantTypes DEF TypeOK

LEMMA SoldStep ==
  ASSUME OnTrack, SeatsCounted, [Next]_vars
  PROVE  SeatsCounted'
<1> DEFINE Counted(t) == /\ IsFiniteSet(PaidSeats(t))
                         /\ sold[t] >= Cardinality(PaidSeats(t))
                         /\ Unrepeated(t) => sold[t] = Cardinality(PaidSeats(t))
<1> SUFFICES ASSUME NEW t \in Tiers PROVE Counted(t)'
  BY DEF SeatsCounted
<1>1. TypeOK /\ Counted(t)
  BY DEF OnTrack, SeatsCounted
<1>2. sold[t] \in Nat /\ Cardinality(PaidSeats(t)) \in Nat
  BY <1>1, FS_CardinalityType DEF TypeOK
<1>3. ASSUME sold' = sold, rebooked' = rebooked,
             \A o \in Orders : order'[o] = "PAID" <=> order[o] = "PAID"
      PROVE  Counted(t)'
  <2>1. PaidSeats(t)' = PaidSeats(t)
    BY <1>3 DEF PaidSeats
  <2>2. Unrepeated(t)' <=> Unrepeated(t)
    BY <1>3 DEF Unrepeated
  <2> QED BY <1>1, <1>3, <2>1, <2>2
<1>4. CASE BooksNothing
  BY <1>3, <1>4 DEF BooksNothing, books
<1>5. ASSUME NEW o \in Orders, Opens(o) \/ Closes(o) PROVE Counted(t)'
  BY <1>1, <1>3, <1>5 DEF Opens, Closes, TypeOK, books
<1>6. ASSUME NEW o \in Orders, Admits(o) PROVE Counted(t)'
  BY <1>3, <1>6 DEF Admits, books
<1>7. ASSUME NEW o \in Orders, order[o] # "PAID", rebooked' = rebooked,
             order' = [order EXCEPT ![o] = "PAID"], sold' = Take(o)
      PROVE  Counted(t)'
  <2>1. sold'[t] = sold[t] + Lines[o][t]
    BY <1>7 DEF Take
  <2>2. /\ PaidSeats(t)' = PaidSeats(t) \cup SeatsOf(o, t)
        /\ PaidSeats(t) \cap SeatsOf(o, t) = {}
    BY <1>1, <1>7, SeatsAdded
  <2>3. /\ IsFiniteSet(PaidSeats(t) \cup SeatsOf(o, t))
        /\ Cardinality(PaidSeats(t) \cup SeatsOf(o, t)) =
             Cardinality(PaidSeats(t)) + Lines[o][t]
               - Cardinality(PaidSeats(t) \cap SeatsOf(o, t))
    BY <1>1, SeatsOfOrder, FS_Union
  <2>4. Cardinality(PaidSeats(t) \cap SeatsOf(o, t)) = 0
    BY <2>2, FS_EmptySet
  <2>5. Lines[o][t] \in Nat
    BY ConstantTypes
  <2>6. /\ IsFiniteSet(PaidSeats(t)')
        /\ Cardinality(PaidSeats(t)') = Cardinality(PaidSeats(t)) + Lines[o][t]
    BY <1>2, <2>2, <2>3, <2>4, <2>5
  <2>7. Unrepeated(t)' <=> Unrepeated(t)
    BY <1>7 DEF Unrepeated
  <2> QED BY <1>1, <1>2, <2>1, <2>5, <2>6, <2>7
<1>8. ASSUME NEW o \in Orders, Sells(o) PROVE Counted(t)'
  BY <1>7, <1>8 DEF Sells
<1>9. ASSUME NEW o \in Orders, Resells(o) PROVE Counted(t)'
  <2>1. CASE order[o] # "PAID"
    BY <1>7, <1>9, <2>1 DEF Resells
  <2>2. CASE order[o] = "PAID"
    <3>1. sold'[t] = sold[t] + Lines[o][t] /\ Lines[o][t] \in Nat
      BY <1>9, ConstantTypes DEF Resells, Take
    <3>2. \A p \in Orders : order'[p] = "PAID" <=> order[p] = "PAID"
      BY <1>1, <1>9, <2>2 DEF Resells, TypeOK
    <3>3. PaidSeats(t)' = PaidSeats(t)
      BY <3>2 DEF PaidSeats
    <3>4. Unrepeated(t)' => Unrepeated(t) /\ Lines[o][t] = 0
      BY <1>9, <2>2 DEF Resells, Unrepeated
    <3> QED BY <1>1, <1>2, <3>1, <3>3, <3>4
  <2> QED BY <2>1, <2>2
<1>10. ASSUME NEW o \in Orders, NEW r \in 1..Amount[o], TakesBack(o, r)
      PROVE  Counted(t)'
  <2>1. /\ PaidSeats(t)' = PaidSeats(t) \ SeatsOf(o, t)
        /\ SeatsOf(o, t) \subseteq PaidSeats(t)
    BY <1>1, <1>10, SeatsRemoved DEF TakesBack
  <2>2. PaidSeats(t) \cap SeatsOf(o, t) = SeatsOf(o, t)
    BY <2>1
  <2>3. /\ IsFiniteSet(PaidSeats(t)')
        /\ Cardinality(PaidSeats(t)') = Cardinality(PaidSeats(t)) - Lines[o][t]
    <3>1. /\ IsFiniteSet(PaidSeats(t) \ SeatsOf(o, t))
          /\ Cardinality(PaidSeats(t) \ SeatsOf(o, t)) =
               Cardinality(PaidSeats(t)) - Cardinality(PaidSeats(t) \cap SeatsOf(o, t))
      BY <1>1, FS_Difference
    <3> QED BY <1>1, <2>1, <2>2, <3>1, SeatsOfOrder
  <2>4. sold'[t] = IF sold[t] >= Lines[o][t] THEN sold[t] - Lines[o][t] ELSE 0
    BY <1>10 DEF TakesBack, Restock
  <2>5. Lines[o][t] <= sold[t] /\ Lines[o][t] \in Nat
    BY <1>1, <1>10, SeatsCovered, ConstantTypes DEF TakesBack
  <2>6. sold'[t] = sold[t] - Lines[o][t]
    BY <1>2, <2>4, <2>5
  <2>7. Unrepeated(t)' <=> Unrepeated(t)
    BY <1>10 DEF TakesBack, Unrepeated
  <2> QED BY <1>1, <1>2, <2>3, <2>5, <2>6, <2>7
<1> HIDE DEF Counted
<1> QED BY <1>4, <1>5, <1>6, <1>8, <1>9, <1>10, StepBooks DEF OnTrack

LEMMA SeatsCountedAlways == Spec => []SeatsCounted
<1>1. Init => SeatsCounted
  <2> SUFFICES ASSUME Init, NEW t \in Tiers
               PROVE  IsFiniteSet(PaidSeats(t)) /\ sold[t] = Cardinality(PaidSeats(t))
                      /\ sold[t] >= Cardinality(PaidSeats(t))
    BY DEF SeatsCounted
  <2>1. PaidSeats(t) = {} /\ sold[t] = 0
    BY DEF Init, PaidSeats
  <2> QED BY <2>1, FS_EmptySet
<1>2. OnTrack /\ SeatsCounted /\ [Next]_vars => SeatsCounted'
  BY SoldStep
<1> QED BY <1>1, <1>2, OnTrackAlways, PTL DEF Spec

\* quantitySold is at least what the paid orders of a tier add up to, and exactly
\* that while no order was finalised when it was PAID: three finalisers,
\* duplicates and concurrent refunds count every seat once, both ways.
THEOREM SoldIsPaid == Spec => []SoldMatchesPaid
<1>1. SeatsCounted => SoldMatchesPaid
  BY DEF SeatsCounted, SoldMatchesPaid, Unrepeated
<1> QED BY <1>1, SeatsCountedAlways, PTL

-----------------------------------------------------------------------------
(* Checkout implements Sale *)

Phase == [o \in Orders |-> PhaseOf(order[o])]
Balance == [o \in Orders |-> earned[o] - reversed[o]]
Back == {o \in Orders : refunded[o] > 0}

LEMMA Phases ==
  /\ PhaseOf("NONE") = "none" /\ PhaseOf("PENDING") = "open"
  /\ PhaseOf("FAILED") = "closed" /\ PhaseOf("PAID") = "sold"
  /\ PhaseOf("REFUNDED") = "refunded"
  BY DEF PhaseOf

LEMMA PhaseStep ==
  ASSUME TypeOK, NEW o \in Orders, NEW s, order' = [order EXCEPT ![o] = s]
  PROVE  Phase' = [Phase EXCEPT ![o] = PhaseOf(s)]
<1>1. \A p \in Orders : order'[p] = IF p = o THEN s ELSE order[p]
  BY DEF TypeOK
<1>2. ASSUME NEW p \in Orders PROVE PhaseOf(order'[p]) = IF p = o THEN PhaseOf(s) ELSE PhaseOf(order[p])
  <2>1. CASE p = o
    BY <1>1, <2>1
  <2>2. CASE p # o
    <3>1. order'[p] = order[p]
      BY <1>1, <2>2
    <3> QED BY <2>2, <3>1
  <2> QED BY <2>1, <2>2
<1>3. Phase' = [p \in Orders |-> PhaseOf(order'[p])]
  BY DEF Phase
<1>4. [Phase EXCEPT ![o] = PhaseOf(s)]
        = [p \in Orders |-> IF p = o THEN PhaseOf(s) ELSE PhaseOf(order[p])]
  BY DEF Phase
<1> QED BY <1>2, <1>3, <1>4, Zenon

LEMMA BalanceStep ==
  ASSUME NEW o \in Orders, NEW b, earned'[o] - reversed'[o] = b,
         \A p \in Orders \ {o} : earned'[p] = earned[p] /\ reversed'[p] = reversed[p]
  PROVE  Balance' = [Balance EXCEPT ![o] = b]
  BY DEF Balance

LEMMA SeatsAsked ==
  ASSUME TypeOK, NEW o \in Orders, InventoryFor(o), sold' = Take(o)
  PROVE  /\ SalePromise!HasSeats(o)
         /\ sold' = [t \in Tiers |-> sold[t] + Lines[o][t]]
<1>1. ASSUME NEW t \in Tiers, Lines[o][t] > 0 PROVE sold[t] + Lines[o][t] <= Capacity[t]
  <2>1. sold[t] \in Nat /\ Lines[o][t] \in Nat /\ Capacity[t] \in Nat
    BY ConstantTypes DEF TypeOK
  <2> QED BY <1>1, <2>1 DEF InventoryFor, ItemTiers
<1> QED BY <1>1 DEF SalePromise!HasSeats, Take

LEMMA SellsIsSell ==
  ASSUME TypeOK, LedgerFollowsOrder, NEW o \in Orders, Sells(o)
  PROVE  SalePromise!Sell(o)
<1>1. Phase[o] \in {"none", "open"}
  BY Phases DEF Sells, Phase
<1>2. Phase' = [Phase EXCEPT ![o] = "sold"]
  BY Phases, PhaseStep DEF Sells
<1>3. SalePromise!HasSeats(o) /\ sold' = [t \in Tiers |-> sold[t] + Lines[o][t]]
  BY SeatsAsked DEF Sells
<1>4. Balance' = [Balance EXCEPT ![o] = Net(o)]
  <2>1. earned[o] = 0 /\ reversed[o] = 0
    BY DEF Sells, LedgerFollowsOrder
  <2>2. earned' = [earned EXCEPT ![o] = IF @ = 0 THEN Net(o) ELSE @] /\ reversed' = reversed
    BY DEF Sells, EnsureOrderEarnings
  <2>3. earned'[o] - reversed'[o] = Net(o)
    BY <2>1, <2>2, NetType DEF TypeOK
  <2>4. \A p \in Orders \ {o} : earned'[p] = earned[p] /\ reversed'[p] = reversed[p]
    BY <2>2 DEF TypeOK
  <2> QED BY <2>3, <2>4, BalanceStep
<1>5. Back' = Back
  BY DEF Sells, Back
<1> QED BY <1>1, <1>2, <1>3, <1>4, <1>5 DEF SalePromise!Sell, Phase, Balance, Back

LEMMA ResellsIsResell ==
  ASSUME TypeOK, LedgerFollowsOrder, NEW o \in Orders, Resells(o)
  PROVE  SalePromise!Resell(o)
<1>1. Phase[o] \in {"sold", "refunded"}
  BY Phases DEF Resells, Phase
<1>2. Phase' = [Phase EXCEPT ![o] = "sold"]
  BY Phases, PhaseStep DEF Resells
<1>3. SalePromise!HasSeats(o) /\ sold' = [t \in Tiers |-> sold[t] + Lines[o][t]]
  BY SeatsAsked DEF Resells
<1>4. Balance' = Balance
  BY CreditedOnce DEF Resells, Balance
<1>5. Back' = Back /\ o \in Back
  BY DEF Resells, Back
<1> QED BY <1>1, <1>2, <1>3, <1>4, <1>5 DEF SalePromise!Resell, Phase, Balance, Back

LEMMA TakesBackIsTakeBack ==
  ASSUME TypeOK, LedgerFollowsOrder, SeatsCounted, NEW o \in Orders,
         NEW r \in 1..Amount[o], TakesBack(o, r)
  PROVE  SalePromise!TakeBack(o)
<1> DEFINE share == IF r = Amount[o] THEN Net(o)
                    ELSE (2 * Net(o) * r + Amount[o]) \div (2 * Amount[o])
<1>a. Amount[o] \in Nat /\ r \in Nat /\ r > 0 /\ r <= Amount[o]
  BY ConstantTypes
<1>b. Reversal(o, r) = share
  <2>1. r >= Amount[o] <=> r = Amount[o]
    BY <1>a
  <2> QED BY <2>1 DEF Reversal
<1> HIDE DEF share
<1>0. order[o] = "PAID" /\ order' = [order EXCEPT ![o] = "REFUNDED"] /\ sold' = Restock(o)
  BY DEF TakesBack
<1>1. Phase[o] = "sold"
  BY <1>0, Phases DEF Phase
<1>2. Phase' = [Phase EXCEPT ![o] = "refunded"]
  <2>1. PhaseOf("REFUNDED") = "refunded"
    BY Phases
  <2>2. Phase' = [Phase EXCEPT ![o] = PhaseOf("REFUNDED")]
    BY <1>0, PhaseStep
  <2> QED BY <2>1, <2>2
<1>3. sold' = [t \in Tiers |-> sold[t] - Lines[o][t]]
  <2>0. \A t \in Tiers : Lines[o][t] <= sold[t]
    BY <1>0, SeatsCovered
  <2>1. \A t \in Tiers : sold[t] \in Nat /\ Lines[o][t] \in Nat /\ Lines[o][t] <= sold[t]
    BY <2>0, ConstantTypes DEF TypeOK
  <2>2. sold' = [t \in Tiers |-> IF sold[t] >= Lines[o][t] THEN sold[t] - Lines[o][t] ELSE 0]
    BY <1>0 DEF Restock
  <2> QED BY <2>1, <2>2
<1>4. Back' = Back \cup {o}
  <2>1. \A p \in Orders : refunded'[p] = IF p = o THEN r ELSE refunded[p]
    BY DEF TakesBack, TypeOK
  <2> QED BY <1>a, <2>1 DEF Back
<1>5. Balance' = IF Balance[o] < Net(o) THEN Balance
                 ELSE [Balance EXCEPT ![o] = Net(o) - share]
  <2>1. earned[o] = Net(o) /\ Net(o) \in Nat /\ reversed[o] \in Nat
    BY <1>0, NetType DEF LedgerFollowsOrder, TypeOK
  <2>2. /\ reversed' = [reversed EXCEPT ![o] =
                          IF earned[o] > 0 /\ @ = 0 THEN Reversal(o, r) ELSE @]
        /\ earned' = earned
    BY DEF TakesBack, EnsureOrderRefundReversal
  <2>3. Balance[o] = Net(o) - reversed[o]
    BY <2>1 DEF Balance
  <2>4. CASE reversed[o] > 0
    <3>1. reversed' = reversed
      BY <2>1, <2>2, <2>4 DEF TypeOK
    <3>2. Balance' = Balance
      BY <2>2, <3>1 DEF Balance
    <3> QED BY <2>1, <2>3, <2>4, <3>2
  <2>5. CASE reversed[o] = 0
    <3>1. reversed'[o] = IF Net(o) > 0 THEN share ELSE 0
      BY <1>b, <2>1, <2>2, <2>5 DEF TypeOK
    <3>2. Net(o) = 0 => share = 0
      BY PartialShare DEF share
    <3>3. share \in Nat
      BY <1>a, <1>b, ReversalType
    <3>4. earned'[o] - reversed'[o] = Net(o) - share
      BY <2>1, <2>2, <3>1, <3>2, <3>3
    <3>5. \A p \in Orders \ {o} : earned'[p] = earned[p] /\ reversed'[p] = reversed[p]
      BY <2>2 DEF TypeOK
    <3>6. Balance' = [Balance EXCEPT ![o] = Net(o) - share]
      BY <3>4, <3>5, BalanceStep
    <3>7. ~(Balance[o] < Net(o))
      BY <2>1, <2>3, <2>5
    <3> QED BY <3>6, <3>7
  <2> QED BY <2>1, <2>4, <2>5
<1>6. [p \in Orders |-> Net(p)][o] = Net(o)
  OBVIOUS
<1>7. share = SalePromise!Share(o, r)
  BY <1>6 DEF share, SalePromise!Share
<1>8. Balance' = IF Balance[o] < [p \in Orders |-> Net(p)][o] THEN Balance
                 ELSE [Balance EXCEPT ![o] =
                         [p \in Orders |-> Net(p)][o] - SalePromise!Share(o, r)]
  BY <1>5, <1>6, <1>7
<1> QED BY <1>1, <1>2, <1>3, <1>4, <1>8, Zenon
        DEF SalePromise!TakeBack, Phase, Balance, Back

LEMMA SaleStep ==
  ASSUME OnTrack, LedgerFollowsOrder, SeatsCounted, [Next]_vars
  PROVE  [SalePromise!Next]_(SalePromise!svars)
<1>0. TypeOK
  BY DEF OnTrack
<1>1. CASE BooksNothing
  BY <1>1 DEF BooksNothing, books, SalePromise!svars
<1>2. ASSUME NEW o \in Orders, Opens(o) PROVE SalePromise!Open(o)
  <2>1. Phase[o] = "none"
    BY <1>2, Phases DEF Opens, Phase
  <2>2. Phase' = [Phase EXCEPT ![o] = "open"]
    BY <1>0, <1>2, Phases, PhaseStep DEF Opens
  <2>3. sold' = sold /\ Balance' = Balance /\ Back' = Back
    BY <1>2 DEF Opens, books, Balance, Back
  <2> QED BY <2>1, <2>2, <2>3 DEF SalePromise!Open, Phase, Balance, Back
<1>3. ASSUME NEW o \in Orders, Closes(o) PROVE SalePromise!Close(o)
  <2>1. Phase[o] = "open"
    BY <1>3, Phases DEF Closes, Phase
  <2>2. Phase' = [Phase EXCEPT ![o] = "closed"]
    BY <1>0, <1>3, Phases, PhaseStep DEF Closes
  <2>3. sold' = sold /\ Balance' = Balance /\ Back' = Back
    BY <1>3 DEF Closes, books, Balance, Back
  <2> QED BY <2>1, <2>2, <2>3 DEF SalePromise!Close, Phase, Balance, Back
<1>4. ASSUME NEW o \in Orders, Admits(o) PROVE UNCHANGED SalePromise!svars
  BY <1>4 DEF Admits, books, SalePromise!svars
<1> QED BY <1>0, <1>1, <1>2, <1>3, <1>4, SellsIsSell, ResellsIsResell,
           TakesBackIsTakeBack, StepBooks
        DEF OnTrack, SalePromise!Next

\* Every behaviour of the checkout is, to buyer, organizer and door, one of the
\* abstract sale: three finalisers, duplicates, failed gateway calls, mails and
\* concurrent refunds add nothing to it, and nothing is booked by halves.
THEOREM CheckoutIsSale == Spec => ImplementsSale
<1>1. Init => SalePromise!Init
  <2> SUFFICES ASSUME Init PROVE SalePromise!Init
    OBVIOUS
  <2>1. Phase = [o \in Orders |-> "none"]
    BY Phases DEF Init, Phase
  <2>2. Balance = [o \in Orders |-> 0]
    BY DEF Init, Balance
  <2>3. sold = [t \in Tiers |-> 0] /\ Back = {}
    BY DEF Init, Back
  <2> QED BY <2>1, <2>2, <2>3 DEF SalePromise!Init, Phase, Balance, Back
<1>2. OnTrack /\ LedgerFollowsOrder /\ SeatsCounted /\ [Next]_vars
      => [SalePromise!Next]_(SalePromise!svars)
  BY SaleStep
<1> QED BY <1>1, <1>2, OnTrackAlways, LedgerFollows, SeatsCountedAlways, PTL
        DEF Spec, ImplementsSale, SalePromise!Spec

-----------------------------------------------------------------------------
(* Refund requests: every step of theirs is a step of Checkout or none of it *)

LEMMA RequestStep == [RNext]_rvars => [Next]_vars
<1> SUFFICES ASSUME RNext PROVE [Next]_vars
  BY DEF rvars
<1>1. ASSUME NEW a \in Admins, NEW o \in Orders, Decide(a, o) PROVE [Next]_vars
  <2>1. CASE CallRefund(a, o) \/ RefundCalls(a, o) \/ RefundReturns(a, o) \/ RefundFails(a, o)
    BY <2>1 DEF CallRefund, RefundCalls, RefundReturns, RefundFails, Refund, Next
  <2>2. CASE Crash(a, o)
    BY <2>2 DEF Crash, Refund, Next
  <2>3. CASE \/ Begin(a, o) \/ Deny(a, o) \/ RefundRefused(a, o) \/ ApproveSave(a, o)
             \/ DirectDone(a, o) \/ InitiateLook(a, o) \/ InitiateFound(a, o)
             \/ InitiateMissing(a, o)
    BY <2>3 DEF Begin, Deny, RefundRefused, ApproveSave, DirectDone, InitiateLook,
       InitiateFound, InitiateMissing
  <2> QED BY <1>1, <2>1, <2>2, <2>3 DEF Decide
<1>2. ASSUME NEW b \in Tabs, NEW o \in Orders, CreateRead(b, o) \/ CreateInsert(b, o)
      PROVE  [Next]_vars
  BY <1>2 DEF CreateRead, CreateInsert
<1> QED BY <1>1, <1>2 DEF RNext, Next

\* A checkout with refund requests is a checkout: what is proved of every
\* behaviour of Checkout holds under reviews, crashes and buyers who ask.
THEOREM RequestsAreCheckout == RSpec => Spec
<1>1. RInit => Init
  BY DEF RInit
<1> QED BY <1>1, RequestStep, PTL DEF RSpec, Spec

\* Where a review is after its refund and before it has saved the request.
Saving == {"returned", "found", "missing"}

RequestTypes ==
  /\ request \in [Orders -> {"NONE", "PENDING", "APPROVED", "DENIED"}]
  /\ review \in [Admins -> [Orders ->
                   [kind : ReviewKind, step : {"read", "calling"} \cup Saving]]]
  /\ unsaved \subseteq Orders

\* Review a of order o comes to step s, and no other review moves.
Moves(a, o, s) ==
  /\ review' \in [Admins -> [Orders ->
                    [kind : ReviewKind, step : {"read", "calling"} \cup Saving]]]
  /\ review'[a][o].step = s
  /\ \A b \in Admins, p \in Orders : b # a \/ p # o => review'[b][p] = review[b][p]

LEMMA EnterMoves ==
  ASSUME RequestTypes, NEW a \in Admins, NEW o \in Orders, NEW kind \in ReviewKind,
         Enter(a, o, kind)
  PROVE  review[a][o].step = "read" /\ Moves(a, o, "read")
  BY DEF RequestTypes, Enter, NoReview, Moves

LEMMA GoToMoves ==
  ASSUME RequestTypes, NEW a \in Admins, NEW o \in Orders,
         NEW s \in {"read", "calling"} \cup Saving, GoTo(a, o, s)
  PROVE  Moves(a, o, s)
  BY DEF RequestTypes, GoTo, Moves

LEMMA LeaveMoves ==
  ASSUME RequestTypes, NEW a \in Admins, NEW o \in Orders, Leave(a, o)
  PROVE  Moves(a, o, "read")
  BY DEF RequestTypes, Leave, NoReview, ReviewKind, Moves

\* A refund is under way in Checkout only within a review that waits for it.
InCall ==
  \A a \in Admins, o \in Orders :
    refund[a][o].pc # "idle" => review[a][o].step = "calling"

(* What a step of a review does *)

\* It goes on, or ends, before the order is refunded.
GoesOn(a, o) ==
  /\ review[a][o].step \notin Saving
  /\ Moves(a, o, "read") \/ Moves(a, o, "calling")
  /\ UNCHANGED <<order, request, unsaved>>

Denies(a, o) ==
  /\ review[a][o].step = "read"
  /\ Moves(a, o, "read")
  /\ request' = [request EXCEPT ![o] = "DENIED"]
  /\ UNCHANGED <<order, unsaved>>

Refunds(a, o) ==
  /\ order' = [order EXCEPT ![o] = "REFUNDED"]
  /\ Moves(a, o, "returned")
  /\ UNCHANGED <<request, unsaved>>

Looks(a, o) ==
  /\ review[a][o].step \in Saving
  /\ Moves(a, o, "missing") \/ Moves(a, o, "found")
  /\ UNCHANGED <<order, request, unsaved>>

Saves(a, o) ==
  /\ review[a][o].step \in Saving
  /\ Moves(a, o, "read")
  /\ request' = [request EXCEPT ![o] = "APPROVED"]
  /\ UNCHANGED <<order, unsaved>>

Abandons(a, o) ==
  /\ review[a][o].step \in Saving
  /\ Moves(a, o, "read")
  /\ unsaved' = unsaved \cup {o}
  /\ UNCHANGED <<order, request>>

LEMMA DecideDoes ==
  ASSUME RequestTypes, InCall, NEW a \in Admins, NEW o \in Orders, Decide(a, o)
  PROVE  \/ GoesOn(a, o) \/ Denies(a, o) \/ Refunds(a, o) \/ Looks(a, o)
         \/ Saves(a, o) \/ Abandons(a, o)
<1>1. CASE Begin(a, o)
  <2>1. PICK kind \in ReviewKind : Enter(a, o, kind)
    BY <1>1 DEF Begin
  <2>2. review[a][o].step = "read" /\ Moves(a, o, "read")
    BY <2>1, EnterMoves
  <2> QED BY <1>1, <2>2 DEF Begin, vars, GoesOn, Saving
<1>2. CASE Deny(a, o)
  BY <1>2, LeaveMoves DEF Deny, At, Denies, vars
<1>3. CASE CallRefund(a, o)
  BY <1>3, GoToMoves DEF CallRefund, RefundCheck, At, GoesOn, Saving
<1>4. CASE RefundRefused(a, o)
  BY <1>4, LeaveMoves DEF RefundRefused, At, GoesOn, Saving, vars
<1>5. CASE RefundCalls(a, o)
  <2>1. review[a][o].step = "calling"
    BY <1>5 DEF RefundCalls, RefundGateway, InCall
  <2>2. review' = review => Moves(a, o, "calling")
    BY <2>1 DEF RequestTypes, Moves
  <2> QED BY <1>5, <2>1, <2>2, LeaveMoves DEF RefundCalls, RefundGateway, GoesOn, Saving
<1>6. CASE RefundReturns(a, o)
  BY <1>6, GoToMoves DEF RefundReturns, RefundCommit, Refunds, Saving
<1>7. CASE RefundFails(a, o)
  <2>1. review[a][o].step = "calling"
    BY <1>7 DEF RefundFails, RefundThrows, InCall
  <2> QED BY <1>7, <2>1, LeaveMoves DEF RefundFails, RefundThrows, GoesOn, Saving
<1>8. CASE ApproveSave(a, o) \/ InitiateFound(a, o)
  BY <1>8, LeaveMoves DEF ApproveSave, InitiateFound, At, Saves, Saving, vars
<1>9. CASE DirectDone(a, o)
  BY <1>9, LeaveMoves DEF DirectDone, At, Abandons, Saving, vars
<1>10. CASE InitiateLook(a, o)
  BY <1>10, GoToMoves DEF InitiateLook, At, Looks, Saving, vars
<1>11. CASE InitiateMissing(a, o)
  BY <1>11, LeaveMoves DEF InitiateMissing, At, Saves, Abandons, Saving, vars
<1>12. CASE Crash(a, o)
  <2>1. UNCHANGED <<order, request>> /\ Moves(a, o, "read")
    BY <1>12, LeaveMoves DEF Crash, RefundStops, vars
  <2> QED BY <1>12, <2>1 DEF Crash, GoesOn, Abandons, Saving
<1> QED BY <1>1, <1>2, <1>3, <1>4, <1>5, <1>6, <1>7, <1>8, <1>9, <1>10, <1>11,
        <1>12 DEF Decide

LEMMA DecideRows ==
  ASSUME RequestTypes, InCall, NEW a \in Admins, NEW o \in Orders, Decide(a, o)
  PROVE  RequestTypes'
<1>1. ASSUME NEW s, Moves(a, o, s),
             UNCHANGED request \/ request' = [request EXCEPT ![o] = "DENIED"]
               \/ request' = [request EXCEPT ![o] = "APPROVED"],
             UNCHANGED unsaved \/ unsaved' = unsaved \cup {o}
      PROVE  RequestTypes'
  BY <1>1 DEF RequestTypes, Moves
<1> QED BY <1>1, DecideDoes DEF GoesOn, Denies, Refunds, Looks, Saves, Abandons

\* Whoever leaves a review that is calling leaves the refund as well.
LEMMA DecideCalls ==
  ASSUME TypeOK, RequestTypes, InCall, NEW a \in Admins, NEW o \in Orders, Decide(a, o)
  PROVE  InCall'
<1> DEFINE Rest == \A b \in Admins, p \in Orders :
                     b # a \/ p # o => refund'[b][p] = refund[b][p]
<1>1. ASSUME NEW s, Moves(a, o, s), Rest, refund'[a][o].pc # "idle" => s = "calling"
      PROVE  InCall'
  BY <1>1 DEF InCall, Moves
<1>2. refund' = refund => Rest
  OBVIOUS
<1>3. ASSUME NEW x, refund' = [refund EXCEPT ![a][o] = x]
      PROVE  Rest
  BY <1>3 DEF TypeOK
<1>Idle. ASSUME refund' = [refund EXCEPT ![a][o] = NoRefund]
      PROVE  Rest /\ refund'[a][o].pc = "idle"
  BY <1>Idle DEF TypeOK, NoRefund
<1>Called. ASSUME refund' = [refund EXCEPT ![a][o].pc = "called"]
       PROVE  Rest
  BY <1>Called DEF TypeOK
<1>4. review[a][o].step # "calling" => refund[a][o].pc = "idle"
  BY DEF InCall
<1> HIDE DEF Rest
<1>5. CASE Begin(a, o)
  <2>1. PICK kind \in ReviewKind : Enter(a, o, kind)
    BY <1>5 DEF Begin
  <2>2. review[a][o].step = "read" /\ Moves(a, o, "read")
    BY <2>1, EnterMoves
  <2> QED BY <1>1, <1>2, <1>4, <1>5, <2>2 DEF Begin, vars
<1>6. CASE CallRefund(a, o)
  <2>1. PICK x : refund' = [refund EXCEPT ![a][o] = x]
    BY <1>6 DEF CallRefund, RefundCheck
  <2>2. Moves(a, o, "calling")
    BY <1>6, GoToMoves DEF CallRefund
  <2> QED BY <1>1, <1>3, <2>1, <2>2
<1>7. CASE RefundCalls(a, o)
  <2>1. review[a][o].step = "calling"
    BY <1>7 DEF RefundCalls, RefundGateway, InCall
  <2>2. CASE refund' = [refund EXCEPT ![a][o] = NoRefund]
    <3>1. Rest /\ refund'[a][o].pc = "idle"
      BY <1>Idle, <2>2
    <3>2. Moves(a, o, "read")
      BY <1>7, <3>1, LeaveMoves DEF RefundCalls
    <3> QED BY <1>1, <3>1, <3>2
  <2>3. CASE refund' = [refund EXCEPT ![a][o].pc = "called"]
    <3>1. refund'[a][o].pc = "called"
      BY <2>3 DEF TypeOK
    <3>2. Moves(a, o, "calling")
      BY <1>7, <2>1, <3>1 DEF RefundCalls, RequestTypes, Moves
    <3> QED BY <1>1, <1>Called, <2>3, <3>2
  <2> QED BY <1>7, <2>2, <2>3 DEF RefundCalls, RefundGateway
<1>8. ASSUME refund' = [refund EXCEPT ![a][o] = NoRefund], NEW s, Moves(a, o, s)
      PROVE  InCall'
  BY <1>Idle, <1>1, <1>8
<1>9. CASE RefundReturns(a, o)
  BY <1>8, <1>9, GoToMoves DEF RefundReturns, RefundCommit, Saving
<1>10. CASE RefundFails(a, o)
  BY <1>8, <1>10, LeaveMoves DEF RefundFails, RefundThrows
<1>11. CASE Crash(a, o)
  <2>1. CASE RefundStops(a, o)
    BY <1>8, <1>11, <2>1, LeaveMoves DEF Crash, RefundStops
  <2>2. CASE refund[a][o].pc = "idle" /\ UNCHANGED vars
    BY <1>1, <1>2, <1>11, <2>2, LeaveMoves DEF Crash, vars
  <2> QED BY <1>11, <2>1, <2>2 DEF Crash
<1>12. CASE \/ Deny(a, o) \/ RefundRefused(a, o) \/ ApproveSave(a, o)
            \/ DirectDone(a, o) \/ InitiateFound(a, o) \/ InitiateMissing(a, o)
  <2>1. /\ review[a][o].step # "calling" /\ refund' = refund
        /\ Moves(a, o, "read")
    BY <1>12, LeaveMoves DEF Deny, RefundRefused, ApproveSave, DirectDone,
       InitiateFound, InitiateMissing, At, vars
  <2> QED BY <1>1, <1>2, <1>4, <2>1
<1>13. CASE InitiateLook(a, o)
  <2>1. /\ review[a][o].step # "calling" /\ refund' = refund
        /\ Moves(a, o, "missing") \/ Moves(a, o, "found")
    BY <1>13, GoToMoves DEF InitiateLook, Saving, At, vars
  <2> QED BY <1>1, <1>2, <1>4, <2>1
<1> QED BY <1>5, <1>6, <1>7, <1>9, <1>10, <1>11, <1>12, <1>13 DEF Decide

LEMMA RequestsStep ==
  TypeOK /\ RequestTypes /\ InCall /\ [RNext]_rvars => RequestTypes' /\ InCall'
<1> SUFFICES ASSUME TypeOK, RequestTypes, InCall, [RNext]_rvars
             PROVE  RequestTypes' /\ InCall'
  OBVIOUS
<1>1. ASSUME NEW o \in Orders, Buy(o) \/ Deliver(o) \/ CheckIn(o)
      PROVE  refund' = refund
  BY <1>1 DEF Buy, InitializePaystackCheckout, InitializeCompCheckout,
     CompleteDemoCheckout, FinalizeFreeOrder, GatewayAccepts, GatewayRefuses,
     GatewayUnreachable, BuyerPays, Webhook, ConfirmVerify, ConfirmFinalize, Insert,
     Finalize, Deliver, MailRead, MailReceipt, MailTicket, MailMark,
     MailTicketFails, ResendRead, ResendSave, CheckIn
<1>2. UNCHANGED <<refund, requests>> => RequestTypes' /\ InCall'
  BY DEF requests, RequestTypes, InCall
<1>3. ASSUME NEW b \in Tabs, NEW o \in Orders, CreateRead(b, o) \/ CreateInsert(b, o)
      PROVE  RequestTypes' /\ InCall'
  BY <1>3 DEF CreateRead, CreateInsert, vars, RequestTypes, InCall
<1>4. UNCHANGED rvars => UNCHANGED <<refund, requests>>
  BY DEF rvars, vars
<1> QED BY <1>1, <1>2, <1>3, <1>4, DecideRows, DecideCalls DEF RNext

LEMMA RequestsAlways == RSpec => [](TypeOK /\ RequestTypes /\ InCall)
<1>1. RInit => RequestTypes /\ InCall
  BY DEF RInit, Init, NoRefund, NoReview, ReviewKind, RequestTypes, InCall
<1> QED BY <1>1, RequestsStep, RequestsAreCheckout, TypeCorrect, PTL DEF RSpec

-----------------------------------------------------------------------------
(* Decided requests and refunded orders *)

\* A refunded order's request is decided, or somebody is about to decide it,
\* or the refund has ended without a save.  More than PendingIsDecidable: it
\* holds from the refund on, before any buyer asks.
Reviewed ==
  \A o \in Orders : order[o] = "REFUNDED" =>
    \/ o \in unsaved
    \/ request[o] \in {"APPROVED", "DENIED"}
    \/ \E a \in Admins : review[a][o].step \in Saving

LEMMA ReviewedStep ==
  TypeOK /\ RequestTypes /\ InCall /\ Reviewed /\ [RNext]_rvars => Reviewed'
<1> SUFFICES ASSUME TypeOK, RequestTypes, InCall, Reviewed, [RNext]_rvars
             PROVE  Reviewed'
  OBVIOUS
<1> DEFINE Of(p) == \/ p \in unsaved
                    \/ request[p] \in {"APPROVED", "DENIED"}
                    \/ \E b \in Admins : review[b][p].step \in Saving
<1>1. ASSUME NEW o \in Orders, Buy(o) \/ Deliver(o) \/ CheckIn(o), UNCHANGED requests
      PROVE  Reviewed'
  <2>1. \A p \in Orders : order'[p] = "REFUNDED" => order[p] = "REFUNDED"
    BY <1>1 DEF Buy, InitializePaystackCheckout, InitializeCompCheckout,
       CompleteDemoCheckout, FinalizeFreeOrder, GatewayAccepts, GatewayRefuses,
       GatewayUnreachable, BuyerPays, Webhook, ConfirmVerify, ConfirmFinalize,
       Insert, Finalize, Deliver, MailRead, MailReceipt, MailTicket, MailMark,
       MailTicketFails, ResendRead, ResendSave, CheckIn, TypeOK
  <2> QED BY <1>1, <2>1 DEF requests, Reviewed
<1>2. ASSUME NEW b \in Tabs, NEW o \in Orders, CreateRead(b, o) \/ CreateInsert(b, o)
      PROVE  Reviewed'
  <2>1. UNCHANGED <<order, review, unsaved>>
    BY <1>2 DEF CreateRead, CreateInsert, vars
  <2>2. \A p \in Orders : request'[p] = request[p] \/ request[p] = "NONE"
    BY <1>2 DEF CreateRead, CreateInsert, Askable, RequestTypes
  <2> QED BY <2>1, <2>2 DEF Reviewed
<1>3. ASSUME NEW a \in Admins, NEW o \in Orders, Decide(a, o) PROVE Reviewed'
  <2>1. ASSUME NEW s, Moves(a, o, s), NEW p \in Orders, Of(p),
               UNCHANGED request \/ request' = [request EXCEPT ![o] = "DENIED"]
                 \/ request' = [request EXCEPT ![o] = "APPROVED"],
               unsaved \subseteq unsaved',
               p = o => s \in Saving \/ review[a][o].step \notin Saving
                        \/ request' # request \/ o \in unsaved'
        PROVE  Of(p)'
    <3>1. CASE p \in unsaved
      BY <2>1, <3>1
    <3>2. CASE request[p] \in {"APPROVED", "DENIED"}
      BY <2>1, <3>2 DEF RequestTypes
    <3>3. ASSUME NEW b \in Admins, review[b][p].step \in Saving PROVE Of(p)'
      <4>1. CASE b # a \/ p # o
        BY <2>1, <3>3, <4>1 DEF Moves
      <4>2. CASE b = a /\ p = o
        BY <2>1, <3>3, <4>2 DEF Moves, RequestTypes
      <4> QED BY <4>1, <4>2
    <3> QED BY <2>1, <3>1, <3>2, <3>3
  <2>2. (\A p \in Orders : Of(p) => Of(p)') /\ UNCHANGED order => Reviewed'
    BY DEF Reviewed
  <2> HIDE DEF Of
  <2>3. CASE GoesOn(a, o) \/ Looks(a, o)
    BY <2>1, <2>2, <2>3 DEF GoesOn, Looks, Saving
  <2>4. CASE Denies(a, o) \/ Saves(a, o)
    <3>1. Of(o)'
      BY <2>4 DEF Denies, Saves, RequestTypes, Of
    <3>2. ASSUME NEW p \in Orders \ {o}, Of(p) PROVE Of(p)'
      BY <2>1, <2>4, <3>2 DEF Denies, Saves
    <3> QED BY <2>2, <2>4, <3>1, <3>2 DEF Denies, Saves
  <2>5. CASE Abandons(a, o)
    BY <2>1, <2>2, <2>5 DEF Abandons
  <2>6. CASE Refunds(a, o)
    <3>1. Of(o)'
      BY <2>6 DEF Refunds, Moves, Saving, Of
    <3>2. ASSUME NEW p \in Orders \ {o}, order'[p] = "REFUNDED" PROVE Of(p)'
      <4>1. Of(p)
        BY <2>6, <3>2 DEF Refunds, TypeOK, Reviewed, Of
      <4> QED BY <2>1, <2>6, <4>1 DEF Refunds
    <3> QED BY <3>1, <3>2 DEF Reviewed, Of
  <2> QED BY <1>3, <2>3, <2>4, <2>5, <2>6, DecideDoes
<1>4. CASE UNCHANGED rvars
  BY <1>4 DEF rvars, vars, requests, Reviewed
<1> QED BY <1>1, <1>2, <1>3, <1>4 DEF RNext

\* However buyers, administrators and crashes follow each other, a request
\* that is left PENDING after the refund has a caller about to save it, unless
\* a refund ended with no save.
THEOREM DecidableUnlessUnsaved == RSpec => []PendingIsDecidable
<1>1. RInit => Reviewed
  BY DEF RInit, Init, Reviewed
<1>2. Reviewed => PendingIsDecidable
  BY DEF Reviewed, PendingIsDecidable, Saving
<1> QED BY <1>1, <1>2, ReviewedStep, RequestsAlways, PTL DEF RSpec

\* Whoever is about to save a request has refunded its order.
SavesRefunds ==
  \A a \in Admins, o \in Orders : review[a][o].step \in Saving => refunded[o] > 0

ApprovedRefunds == \A o \in Orders : request[o] = "APPROVED" => refunded[o] > 0

\* What was given back is not forgotten when the order is finalised again.
LEMMA StaysRefunded ==
  ASSUME OnTrack, [Next]_vars, NEW p \in Orders, refunded[p] > 0
  PROVE  refunded'[p] > 0
<1>1. ASSUME NEW o \in Orders, NEW r \in 1..Amount[o], TakesBack(o, r)
      PROVE  refunded'[p] > 0
  <2>1. r > 0
    BY ConstantTypes
  <2>2. refunded' = [refunded EXCEPT ![o] = r] /\ refunded \in [Orders -> Nat]
    BY <1>1 DEF TakesBack, OnTrack, TypeOK
  <2>3. refunded'[p] = r \/ refunded'[p] = refunded[p]
    BY <2>2
  <2> QED BY <2>1, <2>3
<1>2. ASSUME BooksNothing \/ \E o \in Orders :
               Opens(o) \/ Closes(o) \/ Sells(o) \/ Resells(o) \/ Admits(o)
      PROVE  refunded' = refunded
  BY <1>2 DEF BooksNothing, Opens, Closes, Sells, Resells, Admits, books
<1> QED BY <1>1, <1>2, StepBooks DEF OnTrack

LEMMA ApprovedStep ==
  ASSUME OnTrack, OnTrack', RequestTypes, InCall, SavesRefunds, ApprovedRefunds,
         [RNext]_rvars
  PROVE  SavesRefunds' /\ ApprovedRefunds'
<1>1. \A o \in Orders : refunded[o] > 0 => refunded'[o] > 0
  BY StaysRefunded, RequestStep
<1>2. UNCHANGED <<request, review>> => SavesRefunds' /\ ApprovedRefunds'
  BY <1>1 DEF SavesRefunds, ApprovedRefunds
<1>3. ASSUME NEW b \in Tabs, NEW o \in Orders, CreateInsert(b, o)
      PROVE  SavesRefunds' /\ ApprovedRefunds'
  <2>1. review' = review /\ \A p \in Orders : request'[p] = "APPROVED" => request[p] = "APPROVED"
    BY <1>3 DEF CreateInsert, RequestTypes
  <2> QED BY <1>1, <2>1 DEF SavesRefunds, ApprovedRefunds
<1>4. ASSUME NEW a \in Admins, NEW o \in Orders, Decide(a, o)
      PROVE  SavesRefunds' /\ ApprovedRefunds'
  <2>1. ASSUME NEW s, Moves(a, o, s), s \in Saving => refunded'[o] > 0
        PROVE  SavesRefunds'
    BY <1>1, <2>1 DEF SavesRefunds, Moves
  <2>2. ASSUME \A p \in Orders : request'[p] = "APPROVED" =>
                 request[p] = "APPROVED" \/ refunded[p] > 0
        PROVE  ApprovedRefunds'
    BY <1>1, <2>2 DEF ApprovedRefunds
  <2>3. request' = request => ApprovedRefunds'
    BY <2>2
  <2>4. review[a][o].step \in Saving => refunded'[o] > 0
    BY <1>1 DEF SavesRefunds
  <2>5. CASE GoesOn(a, o) \/ Abandons(a, o)
    BY <2>1, <2>3, <2>5 DEF GoesOn, Abandons, Saving
  <2>6. CASE Refunds(a, o)
    <3>1. order'[o] = "REFUNDED"
      BY <2>6 DEF Refunds, OnTrack, TypeOK
    <3>2. refunded'[o] > 0
      BY <3>1 DEF OnTrack, Settled
    <3> QED BY <2>1, <2>3, <2>6, <3>2 DEF Refunds
  <2>7. CASE Looks(a, o)
    BY <2>1, <2>3, <2>4, <2>7 DEF Looks
  <2>8. CASE Saves(a, o)
    <3>1. \A p \in Orders : request'[p] = "APPROVED" =>
            request[p] = "APPROVED" \/ refunded[p] > 0
      BY <2>8 DEF Saves, SavesRefunds, RequestTypes
    <3> QED BY <2>1, <2>2, <2>8, <3>1 DEF Saves, Saving
  <2>9. CASE Denies(a, o)
    <3>1. \A p \in Orders : request'[p] = "APPROVED" => request[p] = "APPROVED"
      BY <2>9 DEF Denies, RequestTypes
    <3> QED BY <2>1, <2>2, <2>9, <3>1 DEF Denies, Saving
  <2> QED BY <1>4, <2>5, <2>6, <2>7, <2>8, <2>9, DecideDoes
<1> QED BY <1>2, <1>3, <1>4 DEF RNext, rvars, requests, CreateRead

\* A request is shown as approved only once its order was refunded, and that
\* stays true: the amount recorded and returned, the tickets void, whoever
\* reviews, retries, crashes, asks or reports the charge again meanwhile.
THEOREM ApprovedIsRefunded == RSpec => []ApprovedMeansRefunded
<1>1. RInit => SavesRefunds /\ ApprovedRefunds
  BY DEF RInit, NoReview, SavesRefunds, ApprovedRefunds, Saving
<1>2. /\ OnTrack /\ OnTrack' /\ RequestTypes /\ InCall /\ SavesRefunds
      /\ ApprovedRefunds /\ [RNext]_rvars
      => SavesRefunds' /\ ApprovedRefunds'
  BY ApprovedStep
<1>3. OnTrack /\ MoneyBackBeforeRefunded /\ AdmitsUnrefunded /\ ApprovedRefunds
      => ApprovedMeansRefunded
  BY DEF OnTrack, Settled, MoneyBackBeforeRefunded, AdmitsUnrefunded,
     ApprovedRefunds, ApprovedMeansRefunded
<1> QED BY <1>1, <1>2, <1>3, OnTrackAlways, RefundedAfterMoneyBack, NoTicketRevived,
           RequestsAreCheckout, RequestsAlways, PTL DEF RSpec

\* Under reviews and crashes too, books, doors and seats follow the orders, and
\* every behaviour is one of the abstract sale.
COROLLARY RequestsKeepBooks ==
  RSpec => /\ [](LedgerFollowsOrder /\ AdmitsUnrefunded /\ SoldMatchesPaid)
           /\ ImplementsSale
  BY RequestsAreCheckout, LedgerFollows, NoTicketRevived, SoldIsPaid,
     CheckoutIsSale, PTL

=============================================================================

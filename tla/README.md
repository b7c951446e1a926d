# All AXS: TLA+ models of the ticketing backend

All AXS sells event tickets: a NestJS API over PostgreSQL (`All_AXS_Backend-main`),
a Next.js front end, a scanner app and Terraform. Nearly all state that matters -
orders, payments, seats, tickets, the organizers' ledger - lives in the API's
database, and is changed by request handlers, a Paystack webhook, timers and
back-office tools that run concurrently, in several processes. This directory
models those handlers, checks them with TLC and proves the most important
invariants with TLAPS.

Paths below are relative to `src/All_AXS_Backend-main/src/` unless they start with
`src/`.

## 1. Inventory

| component | state it keeps | operations | here |
|---|---|---|---|
| Checkout (`checkout/checkout.service.ts`) | orders, order items, payments (with receipt and ticket mail dates), tickets, `quantitySold` of tiers | demo, Paystack, guest, complimentary checkout; webhook; return page; receipt and ticket mails and their resends | `Checkout` |
| Order refunds (`admin/order-refund.service.ts`) | order, payment, tickets, tier, coupon, ledger | `refundPaidOrder` | `Checkout`, `RefundRequests` |
| Refund requests (`admin/refund-requests.service.ts`, `organizers/organizer-refunds.service.ts`) | one request per order with a status | ask, approve, deny, refund unasked | `RefundRequests` |
| Organizer ledger (`domain/organizer-ledger.service.ts`) | append-only entries with idempotency keys | earnings, reversals, payout debits, balances | `Checkout`, `Payouts`, `Money` |
| Coupons (`events/coupons.service.ts`) | coupon with `usedCount`, redemption rows | evaluate, redeem, roll back; create, edit, remove | `Coupons`, `Checkout` |
| Payment plans (`domain/payment-plans.service.ts`, reminders) | plan, instalments, references | first and later instalments, mark paid, reminders, default | `Installments` |
| Payout batches (`admin/payout-batches.service.ts`, `payments/daraja-b2c.service.ts`) | batches, lines, disbursal dates | draft, approve, export, disburse, mark paid, cancel | `Payouts` |
| Admission (`scan/`, `scanner/`) | ticket status, check-in rows, scanner sessions | scan, check in, revoke a session, set a status by hand | `Admission` |
| Ticket ownership (`checkout/tickets.service.ts`, `admin/admin-order-buyer.service.ts`) | owner, attendee | transfer, backfill, correct the buyer | `Admission` |
| Ticket types and events (`events/events.service.ts`, `events/ticket-types.service.ts`) | event status, tiers with price, quantity and seats sold | edit, review, publish, copy, remove, resync | `Events` |
| Notification queue (`notifications/`) | rows with status and retry count | enqueue, dispatch, drain, mark as read | `Outbox` |
| Waitlist (`events/waitlist.service.ts`) | entries with position, status and offer | join, offer, expire, cancel, purchase | `Waitlist` |
| Amounts (discount, fee, instalments, reversal, transfer) | | arithmetic in whole cents | `Money` |
| Withdrawal requests, accounts and sessions, organizer tools, administration, ticket documents, storage, front ends, infrastructure | | | not modelled, reasons in section 8 |

How they interact. A purchase is *initialised* in one transaction that writes
order, items and payment and takes no seats, then the gateway is called. It is
*finalised* by whichever of three callers comes first: the webhook, the return page,
or the initialising request itself when nothing is left to pay. Finalising locks
order, payment and tiers, books seats, tickets, coupon and ledger in one
transaction, and starts the mails, which read and save the payment row on their
own. A refund reads the order without a lock, calls the gateway, and then books
everything back under a lock; it frees a seat, which the waitlist offers to the
first in line. Who asks for a refund has a request, and the request is saved after
the refund. An order with a plan goes through the same finalisation, which settles
the payment and *afterwards*, in a second transaction, marks the instalment; the
last one issues tickets, and a third transaction credits the organizer. Payout
batches read the ledger these operations write. Organizers and administrators edit
events, tiers and coupons while orders count seats and uses in the same rows.

What is hard about it:

* **Three finalisers and duplicates.** The gateway repeats webhooks, and the return
  page verifies the same reference. Everything must be booked once.
* **Saves of stale entities.** TypeORM's `save(entity)` compares the entity with the row as it
  is *now* and writes back every column that differs, so saving an
  entity that was read before an await undoes what was committed in between. Wherever the code does this,
  the model keeps the copy as state and writes it back. Payments, instalments, tiers,
  events, coupons, tickets, waitlist entries, notifications and orders are all saved so.
* **Gateway calls between check and transaction** (refund), and **inside** a
  transaction (disburse): crashes and lost answers fall there.
* **Locks.** Some rows are locked (finalise, redeem), some not (markInstallmentPaid,
  createDraft), and some locks are asked for in a way that PostgreSQL refuses: a comment in
  `checkout.service.ts:1314` explains that `FOR UPDATE` cannot be combined with the
  LEFT JOINs of `relations`; the refund, the payout batches and the phones' scan combine them.
* **Queues**: rows that fail again and again at their head, seats that are freed
  while nobody looks, offers that lapse.
* **Rounding** of discounts, instalments, partial refunds and transfers, and
  **limits**: seats, coupon uses.

What makes each component correct: no tier is oversold by one-time purchases, and its counter is
never below the seats of paid orders; tickets exist once, for paid orders only, and a ticket
admits once and is held by the person it is made out to; the ledger follows the
order and never takes back more than it gave; a refund is recorded only after the
money has gone back, and a request says APPROVED only of a refunded order; a plan issues
tickets only when every instalment was charged, and then surely; a payout
promises no more than was earned, and sends it once; only what was approved is
on sale; a notification is delivered, once, or given up after its retries; the
waitlist serves in order and passes freed seats on. The full list of hazards,
each with its line and its properties, is under `hazards` in `PROJECT.json`.

## 2. Modules

| module | what it is |
|---|---|
| `Checkout` | one-time purchases, mails, check-in and refunds; 24 actions |
| `Sale` | the abstract purchase `Checkout` implements: open, close, sell, take back |
| `RefundRequests` | `Checkout` composed with requests, reviews and crashes between them |
| `Installments` | orders with a payment plan, reminders and default |
| `Payouts` | payout batches over the organizer ledger |
| `Admission` | tickets after the sale: scans, manual status, transfers, corrected buyers, voiding |
| `Events` | the review cycle of events, editing of tiers beside their sales |
| `Outbox` | the notification queue with its timers, requests and readers |
| `Waitlist` | the waitlist of one tier and its offers |
| `Coupons` | one coupon code, redeemed while it is edited and removed |
| `Money` | the amounts of one order, from the quote to the transfer |
| `MC*` | the constants of the small instances |
| `*Proofs` | theorems and their proofs: `CheckoutProofs` about `Checkout`, `Sale` and `RefundRequests`, `PriceProofs` about `Coupons` and `Money`, the others about the module they are named after |

Definitions that begin with the comment "Mutant:" are not part of a specification.
Each is a plausible bug in the definition that follows it (a dropped guard, a
missing reset); putting it in place of that definition makes the property named in
`PROJECT.json` fail, which is how the properties were tested.

### Checkout

One action is one database transaction, or one step between two awaits. `order`,
`payment`, `sold`, `issued`, `ticket`, `earned`, `reversed`, `refunded`, `redeemed`,
`used` are rows; `charge` and `returned` are what the gateway knows; `init`,
`confirm`, `mail`, `resend`, `refund` are requests in flight with what they have
read. `Finalize(o)` is `finalizeSuccessfulPayment`, all of it: the early return, the
inventory check, seats, tickets, payment, coupon and ledger. The actions that call
it are `Webhook`, `ConfirmFinalize` and `FinalizeFreeOrder`. The refund is five actions: `RefundCheck` (unlocked),
`RefundGateway`, and then `RefundCommit`, `RefundThrows` or `RefundStops`, the process that
stops: what the gateway was asked for stays. Tickets of an order share one status: the refund voids
all of them, and a check-in of one is what the refund must see.

Abstracted: prices are small numbers after discount, fees a second number;
several lines of one tier are one line; mail contents, notifications and audit rows
are left out. An order has one payment and one reference, as the code
creates them.

Nothing keeps a webhook or a return page from finalising an order that was refunded:
`finalizeSuccessfulPayment` (`AlreadyFinal`) looks for PAID only, and the webhook verifies nothing. So
every redelivered `charge.success` may turn a REFUNDED order PAID, and the properties are stated
of a system in which that happens. Two history variables tell what follows apart: `again` holds orders that were
refunded more than once, `rebooked` orders that were finalised while they were PAID, which needs a mail's stale copy
of the payment. The one switch left, `JoinedLockRejected`, is
whether the database refuses the refund's lock.

### RefundRequests

Extends `Checkout`: the refund actions are conjoined with the step of the review
that makes them (`Crash` with `RefundStops`), so every step of a review is a step of `Checkout`
or leaves it unchanged. `request` is the row (unique per order), `creating` the buyer's call between
lookup and insert, `review[a][o]` the call of a reviewer: approval, denial, an organizer's
own refund (`initiateForUser`), or a refund from the order page that touches no
request. `Deny` and `ApproveSave` save the request as it was read. `Crash` stops a
review anywhere, also between refund and save. `unsaved` is history: orders that were
refunded by a call that never saved a request.

### Installments

`thread[r][c]` is a call of `finalizeSuccessfulPayment` for reference `r` by channel
`c` (webhook or page). `FinalizeInstallment` settles the payment; `MarkRead` reads
order, plan and instalments outside a transaction; `MarkBegin` saves the
instalment and reads rows and tier again; `MarkCommitLast` or `MarkCommitMore`
saves the plan - with the *old* instalments, which cascade - and the tier, and issues tickets;
`RecordEarnings` credits. `Crash` stops a call between its transactions. `ReminderRead` and
`ReminderMark` are the job that sets OVERDUE by primary key from a list read earlier. One tier is
shared with one-time buyers (`SellOther`). `MarkDefaulted` is an endpoint that is
refused in production; it is an interference that can be switched off.
A plan's `markInstallmentPaid` is one action per await that another call can come between; the SELECT with which
the cascaded save of the plan begins is merged with its UPDATE. History: `overtaken` (orders whose
plan was saved over something written since the call read it), `parted` (a first payment saved the
tier over a sale it had not seen), `again` (seats taken once more by a second charge of a PAID order), `defaulted`.

### Payouts

The ledger is `gross`, `reversed` and the set of `debited` lines; a balance is
computed from them as the SQL does. `SUM(amountCents)` counts the cents of the lines (`CentsIn`, `LinesIn`), which the
proofs can reason about where a recursive sum is out of reach. `createDraft` is a sequence of `DraftSumLedger` and
`DraftSumReserved`, one organizer after the other, and `DraftCommit`: the
two sums are separate queries outside the draft's transaction, so drafts run beside each other and beside
`markPaid`. `overtaken` is history: lines drafted from a sum that another saved line, or a payout that moved between the
two sums, has put out of date. `approve`,
`markExported`, `markPaid` and `cancel` are one action each, under the lock of the batch row
that `disburse` keeps across its calls: `DisburseBegin`, then per line
`DisburseAccepted`, `DisburseRefused` or `DisburseAnswerLost`, then
`DisburseCommit` or `DisburseCrash`. Organizers in `Mpesa` have a phone number and
the M-Pesa method; the others are skipped. `EnsureOrderEarnings` and
`EnsureOrderRefundReversal` stand for `Checkout`; the latter relies on
`NeverDebitedMoreThanEarned`, which is proved there. `JoinedLock` is the lock
asked for with the batch's lines, `Locked` the plain one that `cancel` uses.

### Admission

A panel reads ticket and order (`ScanRead`), then claims the ticket with an `UPDATE ... WHERE
status = ISSUED` (`ScanCommit`). A phone passes `ScannerSessionGuard` (`PhoneGuard`), then
validates in one transaction (`PhoneValidate`). `green` holds answers on their way; `Answer`
is their arrival or loss. Manual status and transfer are calls (`Requests`) in three steps: `SetStatus`
and `TransferTo` read the ticket and change the entity; `SaveSelect` is the SELECT inside TypeORM's save, `SaveUpdate`
its UPDATE of the columns in which entity and row differed by then (`Differing`, `Written`). A corrected
buyer is the same, with the order's status read and saved beside owner and addressee of all its tickets
(`ReassignRead`, `ReassignSelect`, `ReassignCommit`). The refund is as in `Checkout`, on
single tickets. `round` is history: it counts how often a save made a ticket ISSUED again,
which is the only way to a second check-in. `issuedTo` remembers how the sale made
a ticket out, `mixed` are tickets of which a save wrote owner or addressee over a holder written since its
SELECT. Scans that admit nobody change nothing and are left out.

### Events

`event` and `tier` are rows, one tier per event. An editing call is a record with
its copy, the row it means to save and a phase: `EventLoad` is the read inside `save`,
which decides the columns to write; `EventWrite` writes those. Two calls can therefore
overwrite each other column by column, as `TierLoad` and `TierWrite` do with
`quantitySold`. `EventRemove` and `TierRemove` delete after a check that was made earlier.
`Duplicate` saves the event, then its tier. `Resync` sums the paid orders
(`ResyncSum`), then saves. `Order`, `Sell` and `GiveBack` stand for `Checkout`; plans take seats in ways
of their own: `FirstInstalment` adds to a copy of the tier that it saves as edits do, for an order that is not PAID
and that a resync therefore does not count; `LastInstalment` makes the order PAID; `SellAgain` is a second charge
of it. `markDefaulted`, which gives seats back, refuses to run in production and is left out. History:
`approved` (events an administrator approved), `raced` (tiers whose count changed while a copy of
them was in use; a resync that is not disturbed takes a tier out again, which `healing` follows), `uncounted`
(tiers whose last undisturbed resync dropped seats of plans).

### Outbox

`row` is the notification; `jobs` are rows a worker has read and is dispatching, with the
copy it will save. A worker is the timer of a process or a request of
`enqueueAndDispatch`. `Drain` takes the oldest PENDING rows, `ReadRow` reads one again,
`Dispatch` and `DispatchThrows` are the channel, `Save` saves the copy. The save of SENT is
inside the try block, so `SaveSentFails` enters the handler with a copy that says SENT; the save
in the handler can fail as well (`SaveCaughtFails`) and ends the batch. `MarkRead` and `MarkAllRead`
save whole rows for the addressee. History: `delivered`, `troubles` (errors per row), `excused` (rows of
which two copies were in use, or whose delivery went unrecorded).

### Waitlist

One tier. A call is a record with the point it has reached: joining looks for an
open entry, takes the highest position, and inserts; `Expire` walks over lapsed offers;
a refund that frees a seat (`Refund`, `FreedTier`, `FreedPick`) offers it to the first who waits; organizers notify and
cancel by hand; `VerifyPurchaseToken`, `Buy` and `MarkPurchased` are the checkout with an
offer's token. `Save` writes the copy; the partial unique index on open entries
(`Clashes`) is the only thing that refuses one. `Lapse` is time. History: `made`, `ahead`,
`closed`, `bought`, `raced`, `lost`.

### Coupons

`coupon` is the set of its row. `Redeem` and `RollbackRedemption` are parts of the order's
transactions, under the coupon's lock. `Begin` reads a copy without one; `Update` checks the
change against the copy and saves it, `Remove` deletes or switches off. A save whose row is gone
inserts it again; a delete takes the redemptions with it. `raced` is history: a copy was saved
although redemptions had changed since it was read.

### Money

One behaviour is one order: `Order` prices it, `CreatePaymentPlan` splits the price,
`EnsureOrderEarnings` credits, `RefundPaidOrder` takes back, `InitiateB2cPayment` transfers. Each action has
the rounding of its function: coupons and fees round down, instalments and reversals to the
nearest cent, transfers to the nearest shilling. `SumTo` is the loop that adds up the instalments. The percentages of a
plan are what the validator lets through: any decimals from 0 to 100 whose sum is within 0.01 of 100, in
fractions of which `Fine` make a hundredth of a percent. Integers are unbounded: JavaScript's are exact far beyond any
price. Percentages with decimals are binary fractions in JavaScript, so an exact half may there be rounded down;
`InstalmentsArePrice` holds either way.

### Sale

What buyer, door and organizer see: a phase per order, seats per tier, and a
balance per order. `Checkout` maps `order`, `sold` and `earned - reversed` to it
(`SalePromise`). Duplicate finalisations of an order that was never refunded, failed gateway calls and all mails are
stutters; what a finalisation or refund does to an order that has been refunded is a step of its own; a sale that books seats without credit, or a refund that does one of the two,
is not a step of `Sale`.

## 3. Runs

| run | instance | what it shows | distinct states |
|---|---|---|---|
| `CheckoutRace` | two card orders and one the coupon makes free, two tiers, too few seats, fairness | `NoOversell`, `ChargedIsServed` | 8,036 |
| `CheckoutRefunds` | card, complimentary and demo order, one coupon, two administrators, success reported again after refunds | `SoldMatchesPaid`, `TicketsIssuedOnce`, `NeverDebitedMoreThanEarned`, `ImplementsSale` | 735,186 |
| `RefundRequests` | one order, two reviewers, one tab, one crash, mails, resends and scans, success reported again | `AdmitsUnrefunded`, `LedgerFollowsOrder`, `MoneyBackBeforeRefunded`, `ApprovedMeansRefunded`, `PendingIsDecidable` | 2,485,676 |
| `InstallmentsStale` | three references for two instalments, one paid twice, reminders, default, two other buyers of three seats | `TicketsArePaidFor`, `SeatsFollowPlan`, `CompleteTogether` | 5,841,203 |
| `InstallmentsOneByOne` | one charge per instalment, one call at a time, crashes, fairness | `PaidUpGetsTickets`, `PaidIsCredited` | 2,488 |
| `Payouts` | two batches drafted side by side, two organizers of whom one is paid by M-Pesa, one fault | `NeverOverdrawn`, `SentOnce`, `SentOnlyWhileApproved` | 2,645,181 |
| `Admission` | one ticket, two panels, a phone, two calls that save, three people, a refund | `AdmittedOnce`, `HeldByAddressee`, `AdmitsOnlyPaid` | 2,883,756 |
| `Events` | an event in any stage, its tier, two tabs of the owner, an administrator, two payments of plans | `OnlineWasApproved`, `LeavesCycleOvertaken`, `SeatsCounted`, `SoldTierStays` | 2,565,523 |
| `Outbox` | two notifications, one without a configured channel, timer, request and reader, fairness | `SentWasDelivered`, `TwiceOnlyExcused`, `EveryRowSettles` | 216,085 |
| `Waitlist` | two addresses, three entries, two seats, two calls at a time, fairness | `QueueOrder`, `SecondOfferRaced`, `FirstComeFirstServed`, `SeatPassedOn` | 130,987 |
| `Money` | every combination of 47 subtotals, nine coupons, 16 fees, eleven plans, refunds of up to 160 cents and of all | `MoreIsNotLess`, `RefundIsShared`, `InstalmentsArePrice`, `TransferIsNear` | 2,221,560 |
| `Coupons` | three orders of two buyers who share an address, two editors | `UsesAreCounted`, `TermsAreKept`, `BuyersAreLimited` | 2,430,351 |

No run expects a violation. Types are proved (`TypeCorrect` in every proof module), so the runs
do not repeat them. Deadlock is not checked: orders, calls
and edits are bounded, and a system in which every order has been served rests.

**Bounds, and why they are enough.**

* `CheckoutRace`, `CheckoutRefunds`, `RefundRequests`: a race is between requests for
  one row, so three orders and two tiers give every pairing (same tier, two tiers
  in opposite order, sharing a coupon). The fee of an order differs from zero, so a
  partial refund leaves something of it to share. Each finaliser of
  an order runs beside the other two. Two reviewers are needed for approve against deny, and both gateway
  calls; one crash for the gap between refund and save. `Mailed` names the orders whose
  mail copies are followed.
* `JoinedLockRejected`, `PayTwice`, `Reminders`, `Defaulting` are
  switches; section 2 says what they stand for. All runs take the locks as granted, which allows more
  behaviours than refusing them. `InstallmentsStale` has the other three on, `InstallmentsOneByOne` off.
* Instalments: `Count = 2` has a first, a last and a concurrent pair of both; three references
  are one more than instalments, so two first payments, or two last ones, run at once. `MaxCrashes = 2` lets a retry crash as well.
  A plan takes two of three seats, and `MaxOthers = 2` buyers want the same: whoever comes second meets a full tier or a stale one.
* Payouts: two batches can be drafted at once and beside the payment of the other. `MaxGross = 2` with reversals makes balances sink below what a batch reserved;
  one fault makes one duplicate transfer, which `SentOnce` counts.
* Admission: one ticket per order - tickets meet only through the order. Two `Requests` are two saves in flight at once, beside a corrected
  buyer; `MaxSaves = 2` saves, so one can undo the effect of another. Two of three people are registered, which transfers and corrections tell apart.
* Events: two ids, one of an event in any stage and one free for `Duplicate`; `MaxEdits = 4` calls,
  first instalments among them, each of which may overlap the others: two to part a count, one to resync it, one to see it; quantities 0 and 1 put every sale at the limit.
* Outbox: `BatchSize = 1` makes the head of the queue block those behind it; `MaxRetries = 3`
  is the code's number; two faults are a failed save and a crash.
* Waitlist: three entries are a sign-up again after closing; two seats an offer for each address.
* Coupons: two of three orders share a user, all of them an address with another; limits 1 and 2;
  four edits including the creation are enough for edit, delete and re-creation.
* Money: subtotals from 0 to 40 cents and around 100 and 150, and one of 20,000 cents at which percentages that miss 100 show, meet every remainder of the rates, splits with and without a
  remainder, and the caps of fixed discounts.
* Symmetry is used over the administrators in `CheckoutRefunds`, the references in `InstallmentsStale`, panels and
  calls in `Admission`, and tabs and payments in `Events`. None of these runs has a liveness property.

**Fairness, and why the code justifies it.**

* `CheckoutRace`: weak fairness of `Webhook(o)` - Paystack repeats `charge.success` until it
  gets a 2xx - and of the initialising request's own next step, which the event loop runs.
  Nothing is assumed of the buyer's return to the page, of mails or refunds. Under it
  `ChargedIsServed`: whoever is charged gets the tickets unless the seats are gone.
* `InstallmentsOneByOne`: weak fairness of `FinalizeInstallment` (the same webhooks) and of the steps of a call
  that runs. Nothing repeats `RecordEarnings`, so `PaidIsCredited` excuses a crash.
* `Outbox`: weak fairness of `Drain` (an interval timer) and of each worker's next step.
* `Waitlist`: weak fairness of the next step of each call. A crash is not excluded; `SeatPassedOn` excuses
  the seat the stopped call was passing on (`lost`).

## 4. Proofs

Each proof module extends its component and holds for every number of orders, tiers,
people, processes and calls, with the assumptions named in the component. Every
invariant that a run checks, and every action property, is the conclusion of a theorem.

| module | theorems |
|---|---|
| `CheckoutProofs`, `Checkout` | `TypeCorrect`, `NeverOversold`, `TicketsOncePerOrder`, `DebitsCovered`, `RefundedAfterMoneyBack`, `CouponWithinBudget`, `StatusMovesForward`, `LedgerFollows`, `NoTicketRevived`, `SoldIsPaid`, `CheckoutIsSale` |
| `CheckoutProofs`, `RefundRequests` | `RequestsAreCheckout`, `DecidableUnlessUnsaved`, `ApprovedIsRefunded`, `RequestsKeepBooks` |
| `InstallmentsProofs` | `TypeCorrect`, `TicketsPaidFor`, `PlansCompleteTogether`, `PlanSeatsCounted` |
| `PayoutsProofs` | `TypeCorrect`, `NoSecondTransfer`, `LedgerShowsPaid`, `TransfersUnderLock`, `NothingOverdrawn` |
| `AdmissionProofs` | `TypeCorrect`, `OneCheckIn`, `GreenIsRecorded`, `HeldRight`, `PaidAdmits` |
| `EventsProofs` | `TypeCorrect`, `OnlineApproved`, `LeavesOnlyOvertaken`, `SeatsAreCounted`, `SoldTiersStay`, `SellsWithin` |
| `OutboxProofs` | `TypeCorrect`, `SentDelivered`, `GivenUpLate`, `TwiceNeedsExcuse` |
| `WaitlistProofs` | `TypeCorrect`, `OneOpenEntryHeld`, `QueueOrdered`, `PurchasedByOffer`, `ServedInOrder`, `SecondNeedsRace` |
| `PriceProofs`, `Coupons` | `TypeCorrect`, `BuyersLimited`, `UsesCounted`, `TermsKept` |
| `PriceProofs`, `Money` | `MoreNotLess`, `RefundShared`, `InstalmentsPrice`, `TransferNear` |

**No hypotheses.** No theorem assumes that a call stays away: redelivered webhooks, concurrent drafts, concurrent calls for one
plan, other buyers and column-wise saves are all in `Next`. Where the code keeps a property only in part, the
property names the exception, by a history variable that records one event and constrains nothing, and
says what holds all the same:

| history | event | what is excepted |
|---|---|---|
| `again` (Checkout) | an order is refunded a second time | that the reversal is the share of the last refund |
| `rebooked` | an order is finalised while PAID | that `quantitySold` is exactly the seats of PAID orders; it is never less |
| `unsaved` | a refund whose call saves no request | that a PENDING request can be decided |
| `overtaken` (Installments) | a plan is saved over what was written since its read | that order, plan and tickets are complete together; tickets are paid for all the same |
| `defaulted` | a plan is defaulted | for seats only: that the tier counts the seats taken, once one plan has defaulted |
| `parted` | a first payment saves the tier over a sale it had not seen | that the tier counts exactly the seats taken; it never counts more |
| `overtaken` (Payouts) | a line is drafted from a sum that is out of date | that line, from the sum that earnings bound |
| `mixed` | a save writes owner or addressee over a holder it had not seen | that they are the same person |
| `raced`, `uncounted` | a count changes beside a copy; a resync drops plans' seats | that a tier counts the seats taken; a resync is the cure of the one and the cause of the other |

Along which argument:

* **Checkout.** Seats change in two operators only, a finalisation under `InventoryFor` and a
  refund (`SoldSteps`). `TicketsOncePerOrder` needs that an order with tickets
  has left the states in which tickets are made (`Progress`); a finalisation after a refund does not break it,
  since it looks for tickets first. `DebitsCovered` is about one order's books (`Books`): what is
  reversed is at most what is earned, and a reversal is computed from the refund (`ReversalBound`).
  `RefundedAfterMoneyBack` carries the gateway's answer in the request (`RequestsPaidOut`) until the commit.
  `CouponWithinBudget` needs that an order not yet finalised has no redemption, so that a
  redemption adds exactly one element to the set that `used` counts (`RedeemedOnce`).
* **Books and order.** None of `LedgerFollowsOrder`, `AdmitsUnrefunded`, `SoldMatchesPaid` is
  inductive: a mail may hold a copy of the payment, a refund a check from before. `StepBooks` says that every step either
  leaves an order's rows alone, finalises it for the first time, finalises it again, or refunds it. Finalising again
  finds tickets and ledger entries, so it touches status and seats only. Seats are counted as a set (`PaidSeats`): a
  finalisation adds as many elements as it adds to `quantitySold`, unless the order is `rebooked`; a refund removes them.
* **Sale.** By the same classification a step of `Checkout` is a sale, a sale once more after a refund (`Resell`), a refund
  taken back, an opening or closing, or a stutter. The balance after a refund comes from `LedgerFollowsOrder`.
* **RefundRequests.** `RequestStep`: a step of the composition is a step of `Checkout` or leaves its
  variables alone; so the theorems about `Checkout` carry over (`RequestsKeepBooks`). `Reviewed` and
  `SavesRefunds` connect a review that stands between refund and save with the order: it was refunded by this
  call, and until the save the request is excused by `unsaved`.
* **Installments.** `TicketsPaidFor` is not inductive: instalments are marked from
  copies. `Safe` says that a PAID mark, in a row or in any copy a call holds, is backed by a charge
  (`AllRowsBacked`, `CallsBacked`); writing a stale copy back therefore loses marks and never invents one.
  For `PlansCompleteTogether` (`Whole`) a call marks only what its copy has as not PAID (`CallsUnpaid`): a plan that
  is not `overtaken` is saved from a copy that was the row, so its save marks one instalment and no less (`Marks`),
  and the call that marks the last saw all the others. `PlanSeatsCounted` (`Seated`) does the
  same with the copy of the tier: saved over an unseen sale it counts less, and `parted` says so.
* **Payouts.** `SentCounted`: the transfers of a line are its one recorded or unsaved transfer plus the
  repetitions the faults allow; while `disburse` runs it holds the batch (`LockHeld`) and its copy is the row (`CallsFresh`).
  `NothingOverdrawn` cannot talk about saved lines alone: a draft has subtracted balances it has not saved. `DraftCovered`
  counts its rows as if they stood, and a balance that was read but not yet reduced against what is paid; the sum
  of all lines but those `overtaken` is at most what was earned. Cancelling only takes away; a refund lowers a balance, not what was earned.
* **Admission.** `RoundOpen`: a ticket that is ISSUED has no check-in in its round.
  `HeldRight` needs that every entity that may still be saved names one holder, and that a write whose
  SELECT saw the row as it still is leaves one holder, whichever columns it sets (`CopiesHeld`, `UpdateHeld`). `Revived` is the clause of
  `AdmitsOnlyPaid`: whatever makes a refunded ticket admissible is a stale save.
* **Events.** Every copy a call holds is a former row: of a status it was approved in, and with a seat
  count that is right unless the tier is in `raced`, one more in a first instalment's (`EntityCounted`). While a resync
  heals a tier no other call holds a copy (`HealingAlone`), and what it saves is the sum of the paid orders, which
  is never more than the seats taken (`Counted`).
* **Outbox.** A copy that says SENT belongs to a delivered row; retries are bounded by `troubles`.
* **Waitlist.** `LineInv`: every entry (`EntryRight`) and every call (`CallRight`) is such that
  whoever is offered a seat had nobody waiting before (`InTurn`); `RaceInv` adds `OnceOffered`.
* **Coupons.** `RowInv`: there is one row, without it no redemptions, and no limit above the highest
  ever given. `CalmInv`: unless raced, every copy counted what its editor saw.
* **Money.** `Accounts` and `Planned`: every amount is what its function made of the ones before. The rest is
  arithmetic, all of it from two facts: a quotient is within one of the fraction (`DivBounds`), and
  `Rounded` within a half (`RoundedBounds`). What percentages miss of 100 the last instalment makes up (`MissedShare`). A rate below one makes a price grow by at least as much as its
  fee (`RateBounds`, `NetGrows`). Instalments are added up by a recursive function: that it exists (`SumsExist`)
  and what it computes (`SumUnfolds`, `RoundedSum`) is proved by the least counterexample
  (`LeastNumber`), since the induction theorems of the library cannot be instantiated here.

Only model-checked: liveness (`ChargedIsServed`, `PaidUpGetsTickets`, `PaidIsCredited`, `EveryRowSettles`,
`SeatPassedOn`), since TLAPS does not reason about `ENABLED`.

## 5. What was learned

* Stale saves of `markInstallmentPaid` do not give tickets away: they can only forget a
  mark. They can delay or lose a plan's completion, which is why `PaidUpGetsTickets` is checked one call at a time. Without
  such a save the plan is complete together with its order, however many calls ran (`CompleteTogether`).
* The order of the statements in a finalisation carries `ChargedIsServed`: everything that
  can throw comes before the first write that makes it a repetition.
* A finalisation after a refund breaks the status of the order, but neither the number of tickets, nor
  who is admitted, nor the ledger, nor the coupon's budget; an APPROVED request stays true of the money.
* A ticket can be checked in twice only if somebody made it ISSUED by hand or by a stale
  save. The conditional `UPDATE` is what this rests on; the reads before it carry nothing.
* Seat counters are right for as long as no tier is edited beside a sale; one edit of a
  price beside one sale parts them, and only a resync that nobody disturbs mends it. Where plans are paid in part
  the same resync does the harm: it drops their seats, and one-time buyers may take them again.
* A partial UPDATE is not a whole row: two transfers, or a transfer and a corrected buyer, can leave a ticket owned by one and
  made out to another, though each call on its own writes both. Nothing else parts them (`HeldByAddressee`).
* Two drafts promise too much only by the lines that the later of them drafted from an overtaken sum.
* An unapproved event gets online by no interleaving, though a decision can be undone.
* The waitlist is never served out of order, but two offers to one entry need a race, and one
  unlucky crash forgets a seat.

## 6. Where the code is surprising

None of these contradicts a property above; each is a behaviour the models have. They are
recorded because a reader of the code would want to know.

*Refunds.* The statuses of the tickets are read before the gateway is called
(`admin/order-refund.service.ts:101`): a ticket scanned in between is voided all the same. Two
administrators both call the gateway; two partial refunds then add up at the gateway while the row records one. The
receipt mail saves the payment as it was read (`checkout/checkout.service.ts:1637`) and makes it SUCCESS again
after a refund. Any `charge.success` delivered again after a refund, or a return page that verified before it, makes the REFUNDED order PAID
(`checkout/checkout.service.ts:1344`) and takes its seats once more; its tickets stay VOID, its credit stays reversed, and it can be refunded
again. If a mail's stale copy has hidden the payment's SUCCESS meanwhile, the next webhook takes the seats yet again. Correcting
a buyer (`admin/admin-order-buyer.service.ts:83`) can do the same from its copy, with
tickets that stay VOID, and the order can be refunded again. A denial that races a refund leaves DENIED on a refunded order
(`admin/refund-requests.service.ts:249`), and a refund from the order page
(`admin/admin.controller.ts:992`) leaves a request PENDING, which can then be neither approved nor denied. Partial
refunds are accepted although `docs/DEMO_ROLES_AND_CHECKOUT.md:104` (of the backend) says
they "are rejected until supported end-to-end".

*Locks with LEFT JOINs.* `checkout/checkout.service.ts:1314` explains that PostgreSQL refuses
`FOR UPDATE` with the joins of `relations`. The refund, approve, export, disburse and mark paid of
payout batches, and the phones' scan (`scanner/scan.service.ts:64`) ask for
just that. The switch `JoinedLockRejected` models a database that refuses; with
it these operations always throw, in the case of the refund after the gateway has paid.

*Plans.* Two concurrent calls for the last instalment issue the tickets twice
(`domain/payment-plans.service.ts:176`). An OVERDUE instalment cannot be
paid any more (`checkout/checkout.service.ts:2134`), though the reminder mail
(`auth/services/email.service.ts:1268`) asks for it. The first instalment takes seats without comparing them with the
capacity (`domain/payment-plans.service.ts:207`). The order is not PAID until the last one, so
`resync-sold-counts` drops these seats (`admin/admin.controller.ts:628`), and an organizer whose event is in an editable
status (`events/events.service.ts:1268`) may remove it although plans are running, because the check counts PAID
orders (`:1275`).

*Payouts.* Two drafts at once (`admin/payout-batches.service.ts:54`, `:107`) both take the whole balance. Cancelling a
batch does not look whether lines were sent.

*Events.* Editing the price of a published tier writes back the `quantitySold` read
before: the next buyers are sold seats that are gone. The comment at
`events/events.service.ts:470`, that organizers are limited to the draft, pending and rejected window,
does not hold for a save of a copy read in that window.

*Tickets.* `transfer` and a corrected buyer each save owner and addressee, but only those that differ from the row at the
SELECT of the save (`checkout/tickets.service.ts:136`): what commits between it and the UPDATE is overwritten by halves.

*Notifications.* When the save of SENT fails at the last retry the row ends FAILED though
it was delivered. Marking as read can turn SENT to PENDING, and the mail goes out again.

*Waitlist.* A stale save can make PURCHASED of an entry EXPIRED or CANCELLED, and NOTIFIED of
a cancelled one. An offer that lapses is passed on only at the next refund; a refund of several seats notifies
one entry; a purchase by card leaves its entry NOTIFIED; a plan's default or a raised capacity notifies nobody.

*Coupons.* A stale edit forgets uses; a delete that saw none used cascades to redemptions
made since; an edit saved after a delete inserts the coupon again.

*Amounts.* The last instalment of a tiny total can be negative (3 cents split
17, 17, 17, 17, 17, 15). Percentages may have decimals and miss 100 by 0.01 (`events/installment-config.validator.ts:53`):
33.335 and 66.66 of 1,000,000 cents end in an instalment that is 50 cents more than its percentage. A first split of 0% asks the gateway for nothing; a transfer
is up to half a shilling more than was debited; the validator's last check
(`installment-config.validator.ts`) can never fail.

Hazards like these for which the models have no property: two concurrent creations with one
idempotency key (`events/events.service.ts:364`), a crash that leaves a copied event without
tiers (`:817`), two withdrawal requests at once (`organizer-payout-requests`), a lost answer to the scanner app,
the redemption of an order that is never paid, which no job removes.

## 7. Composition

Modules meet where components share rows. `RefundRequests` extends `Checkout` and conjoins its
actions. `Sale` is implemented by `Checkout`. `Events`, `Admission`, `Coupons`,
`Waitlist` and `Payouts` each repeat the part of a sale or refund that touches their rows as
an action of its own (`Sell`, `GiveBack`, `RefundCommit`, `Redeem`, `EnsureOrderRefundReversal`), with the guards
that `Checkout` proves: seats only under `NoOversell`, tickets once, reversals within earnings.

## 8. Not modelled

* **Accounts and sessions** (`auth/`): tokens, password resets, roles. No seat, ticket or amount depends
  on their state; the models take the caller's right to act as given.
* **Withdrawal requests**: an organizer's wish with a status. It reserves nothing, and neither drafts nor the
  ledger read it.
* **Organizer tools**: reports are reads; teams, affiliates and exports are single rows saved by one
  person.
* **Administration lists and the audit log**: reads, and rows that are only ever appended.
* **Ticket documents**: PDFs, QR codes and wallet passes are computed from a ticket. A QR code's signature is
  checked before `ScanRead`; forged codes change nothing.
* **Storage, database and rate limits**: configuration; the database is modelled as atomic transactions with row
  locks and a partial unique index, which is what the code relies on.
* **Web front end and scanner app**: only the calls they make. They keep no state the server relies on. The
  front end is more than half of the repository's lines, which is why the share of mapped lines
  stays small.
* **Infrastructure**: Terraform, containers, continuous integration.

Partly modelled components say in `PROJECT.json` which of their operations are left out.

## 9. Plan

1. Compose `Waitlist` with `Events`, so that a freed seat and a raised capacity meet.
2. Give `Installments` two orders with plans in one tier in a run of its own.
3. Follow withdrawal requests, if drafts ever read them.

## 10. Running the checks

```
cd tla
tlc -workers 2 -config CheckoutRace.cfg MCCheckout
tlapm CheckoutProofs.tla
```

The module of a run is named in `PROJECT.json`, which also lists the components, a mutant
per property, the source lines of every definition, the hazards and the theorems.
The slow runs are `InstallmentsStale` (two minutes), `RefundRequests`, `Events` and `Admission` (about a minute each).

---------------------------- MODULE RefundRequests ----------------------------
(***************************************************************************)
(* Refund requests on top of Checkout: a buyer asks, an administrator or an *)
(* organizer approves or denies, or refunds without being asked.  The       *)
(* refund and the save of the request are two steps, and the saved request  *)
(* is the one that was read before the refund.                              *)
(***************************************************************************)
EXTENDS Checkout

CONSTANTS
  Tabs,      \* browser tabs in which a buyer may ask at the same time
  MaxCrashes \* bound: reviews whose process stops

ASSUME RequestsAssumption == MaxCrashes \in Nat

ReviewKind == {"none", "approve", "deny", "initiate", "direct"}
NoReview == [kind |-> "none", step |-> "read"]

VARIABLES
  request,  \* [Orders -> {"NONE", "PENDING", "APPROVED", "DENIED"}],
            \* refund_requests, unique by order
  creating, \* <<tab, order>>: createRequest has found nothing to object to
  review,   \* [Admins -> [Orders -> [kind : ReviewKind, step]]], calls under
            \* way; step is read, calling, returned, found or missing
  unsaved,  \* orders refunded by a call that ended without saving a request
  crashes   \* crashes so far

requests == <<request, creating, review, unsaved, crashes>>
rvars == <<vars, requests>>

RInit ==
  /\ Init
  /\ request = [o \in Orders |-> "NONE"]
  /\ creating = {}
  /\ review = [a \in Admins |-> [o \in Orders |-> NoReview]]
  /\ unsaved = {}
  /\ crashes = 0

Enter(a, o, kind) ==
  /\ review[a][o] = NoReview
  /\ review' = [review EXCEPT ![a][o].kind = kind]

GoTo(a, o, step) == review' = [review EXCEPT ![a][o].step = step]
Leave(a, o) == review' = [review EXCEPT ![a][o] = NoReview]
At(a, o, kinds, step) == review[a][o].kind \in kinds /\ review[a][o].step = step

-----------------------------------------------------------------------------
(* The buyer asks *)

\* No request yet: findOne before, the unique index at the insert.
Askable(o) == request[o] = "NONE"

CreateRead(b, o) ==
  /\ <<b, o>> \notin creating
  /\ order[o] = "PAID"
  /\ Askable(o)
  /\ creating' = creating \cup {<<b, o>>}
  /\ UNCHANGED <<vars, request, review, unsaved, crashes>>

CreateInsert(b, o) ==
  /\ <<b, o>> \in creating
  /\ creating' = creating \ {<<b, o>>}
  /\ request' = [request EXCEPT ![o] = IF Askable(o) THEN "PENDING" ELSE @]
  /\ UNCHANGED <<vars, review, unsaved, crashes>>

-----------------------------------------------------------------------------
(* A review begins with a read of request or order *)

Reviewable(o, kind) ==
  CASE kind = "approve" -> request[o] = "PENDING"
    [] kind = "deny" -> request[o] = "PENDING" /\ order[o] = "PAID"
    [] kind = "initiate" -> order[o] = "PAID"
    [] kind = "direct" -> TRUE

Begin(a, o) ==
  /\ \E kind \in ReviewKind \ {"none"} : Reviewable(o, kind) /\ Enter(a, o, kind)
  /\ UNCHANGED <<vars, request, creating, unsaved, crashes>>

\* Denial saves the request as it was read.
Deny(a, o) ==
  /\ At(a, o, {"deny"}, "read")
  /\ request' = [request EXCEPT ![o] = "DENIED"]
  /\ Leave(a, o)
  /\ UNCHANGED <<vars, creating, unsaved, crashes>>

\* refundPaidOrder within a review: it throws, calls the gateway, or returns.
CallRefund(a, o) ==
  /\ At(a, o, {"approve", "initiate", "direct"}, "read")
  /\ RefundCheck(a, o)
  /\ GoTo(a, o, "calling")
  /\ UNCHANGED <<request, creating, unsaved, crashes>>

RefundRefused(a, o) ==
  /\ At(a, o, {"approve", "initiate", "direct"}, "read")
  /\ \/ order[o] # "PAID"
     \/ ticket[o] = "CHECKED_IN"
     \/ ~SkipsGateway(o) /\ payment[o].status # "SUCCESS"
  /\ Leave(a, o)
  /\ UNCHANGED <<vars, request, creating, unsaved, crashes>>

RefundCalls(a, o) ==
  /\ RefundGateway(a, o)
  /\ IF refund'[a][o].pc = "idle" THEN Leave(a, o) ELSE UNCHANGED review
  /\ UNCHANGED <<request, creating, unsaved, crashes>>

RefundReturns(a, o) ==
  /\ RefundCommit(a, o)
  /\ GoTo(a, o, "returned")
  /\ UNCHANGED <<request, creating, unsaved, crashes>>

RefundFails(a, o) ==
  /\ RefundThrows(a, o)
  /\ Leave(a, o)
  /\ UNCHANGED <<request, creating, unsaved, crashes>>

\* Mutant: the request is approved when the refund begins.
ApproveSaveEarly(a, o) ==
  /\ At(a, o, {"approve"}, "calling")
  /\ request' = [request EXCEPT ![o] = "APPROVED"]
  /\ UNCHANGED <<vars, creating, review, unsaved, crashes>>

\* Approval saves the request it read before the refund.
ApproveSave(a, o) ==
  /\ At(a, o, {"approve"}, "returned")
  /\ request' = [request EXCEPT ![o] = "APPROVED"]
  /\ Leave(a, o)
  /\ UNCHANGED <<vars, creating, unsaved, crashes>>

\* The back office refunds an order from its page: no request is touched.
DirectDone(a, o) ==
  /\ At(a, o, {"direct"}, "returned")
  /\ Leave(a, o)
  /\ unsaved' = unsaved \cup {o}
  /\ UNCHANGED <<vars, request, creating, crashes>>

\* An organizer's own refund looks for a request after the refund ...
InitiateLook(a, o) ==
  /\ At(a, o, {"initiate"}, "returned")
  /\ GoTo(a, o, IF request[o] = "NONE" THEN "missing" ELSE "found")
  /\ UNCHANGED <<vars, request, creating, unsaved, crashes>>

\* Mutant: a request that exists is left as it is.
InitiateFoundKept(a, o) ==
  /\ At(a, o, {"initiate"}, "found")
  /\ Leave(a, o)
  /\ UNCHANGED <<vars, request, creating, unsaved, crashes>>

\* ... and approves the one it found, or inserts one that is approved,
\* unless a buyer has asked meanwhile.
InitiateFound(a, o) ==
  /\ At(a, o, {"initiate"}, "found")
  /\ request' = [request EXCEPT ![o] = "APPROVED"]
  /\ Leave(a, o)
  /\ UNCHANGED <<vars, creating, unsaved, crashes>>

InitiateMissing(a, o) ==
  /\ At(a, o, {"initiate"}, "missing")
  /\ IF Askable(o)
     THEN request' = [request EXCEPT ![o] = "APPROVED"] /\ UNCHANGED unsaved
     ELSE unsaved' = unsaved \cup {o} /\ UNCHANGED request
  /\ Leave(a, o)
  /\ UNCHANGED <<vars, creating, crashes>>

\* The process stops; what the gateway was asked for has happened.
Crash(a, o) ==
  /\ review[a][o] # NoReview
  /\ crashes < MaxCrashes
  /\ crashes' = crashes + 1
  /\ RefundStops(a, o) \/ (refund[a][o].pc = "idle" /\ UNCHANGED vars)
  /\ unsaved' = IF review[a][o].step \in {"returned", "found", "missing"}
                THEN unsaved \cup {o} ELSE unsaved
  /\ Leave(a, o)
  /\ UNCHANGED <<request, creating>>

-----------------------------------------------------------------------------
Decide(a, o) ==
  \/ Begin(a, o) \/ Deny(a, o)
  \/ CallRefund(a, o) \/ RefundRefused(a, o) \/ RefundCalls(a, o)
  \/ RefundReturns(a, o) \/ RefundFails(a, o)
  \/ ApproveSave(a, o) \/ DirectDone(a, o)
  \/ InitiateLook(a, o) \/ InitiateFound(a, o) \/ InitiateMissing(a, o)
  \/ Crash(a, o)

RNext ==
  \/ \E o \in Orders : (Buy(o) \/ Deliver(o) \/ CheckIn(o)) /\ UNCHANGED requests
  \/ \E b \in Tabs, o \in Orders : CreateRead(b, o) \/ CreateInsert(b, o)
  \/ \E a \in Admins, o \in Orders : Decide(a, o)

RSpec == RInit /\ [][RNext]_rvars

-----------------------------------------------------------------------------
(* What refund requests promise *)

\* A request is APPROVED only if the order was refunded: the row has the amount,
\* the gateway has returned it, and no ticket is left to admit.  That outlives
\* overlapping approvals, denials and refunds, and the order's turning PAID
\* again when the success of its charge is reported once more.
ApprovedMeansRefunded ==
  \A o \in Orders :
    request[o] = "APPROVED" =>
      /\ order[o] \in {"PAID", "REFUNDED"}
      /\ refunded[o] > 0 /\ (Kind[o] # "demo" => refunded[o] <= returned[o])
      /\ ticket[o] = "VOID"

\* A PENDING request of a refunded order can be neither approved nor denied.
\* That is so only while the refund's caller is about to save it, or if no
\* caller ever will: after a refund from the order page, a crash, or a
\* request inserted under an organizer's refund.
PendingIsDecidable ==
  \A o \in Orders :
    request[o] = "PENDING" /\ order[o] = "REFUNDED" =>
      \/ o \in unsaved
      \/ \E a \in Admins : review[a][o].step \in {"returned", "found", "missing"}

=============================================================================

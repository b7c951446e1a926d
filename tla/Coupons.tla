------------------------------- MODULE Coupons -------------------------------
(***************************************************************************)
(* One coupon code: created, edited and removed by its organizer while        *)
(* orders redeem it and refunds give redemptions back.  A redemption locks    *)
(* the coupon; an edit reads it without a lock and later saves its copy,      *)
(* with the number of uses it has read, over whatever the row is then.  What  *)
(* only turns an order away (dates, currency, event, minimum order) is an     *)
(* order that does not come.                                                 *)
(***************************************************************************)
EXTENDS Integers, FiniteSets

CONSTANTS
  Orders,
  Users,
  Emails,
  UserOf,   \* [Orders -> Users \cup {NoUser}], who is signed in
  EmailOf,  \* [Orders -> Emails]
  NoUser,
  Terms,    \* kinds and values of a discount
  Limits,   \* limits of a coupon; one beyond the number of orders is none
  Editors,  \* bound: edits at once
  MaxEdits  \* bound: edits

ASSUME CouponsAssumption ==
  /\ IsFiniteSet(Orders)
  /\ UserOf \in [Orders -> Users \cup {NoUser}] /\ NoUser \notin Users
  /\ EmailOf \in [Orders -> Emails]
  /\ Limits \subseteq Nat \ {0}
  /\ MaxEdits \in Nat

Coupon == [id : Nat, terms : Terms, limit : Limits, perUser : Limits, active : BOOLEAN, used : Nat]
\* An edit or a removal in flight, the copy it works on and, as history, the
\* redemptions when it read the copy.
Edit == [editor : Editors, removing : BOOLEAN, copy : Coupon, seen : SUBSET Orders]

VARIABLES
  coupon,   \* the set of its row: one, or none
  nextId,
  order,    \* [Orders -> {"NONE", "PLACED", "REFUNDED"}]
  redeemed, \* orders with a CouponRedemption row
  pricedAt, \* <<order, terms>>, the terms of every redemption there was
  edits,
  begun,    \* edits so far
  topPer,   \* the largest limit per buyer the coupon has had
  raced     \* was a copy saved though redemptions had changed since it was read?

cvars == <<coupon, nextId, order, redeemed, pricedAt, edits, begun, topPer, raced>>

CInit ==
  /\ coupon = {}
  /\ nextId = 0
  /\ order = [o \in Orders |-> "NONE"]
  /\ redeemed = {}
  /\ pricedAt = {}
  /\ edits = {}
  /\ begun = 0
  /\ topPer = 0
  /\ raced = FALSE

Larger(a, b) == IF a >= b THEN a ELSE b
OfUser(u) == {o \in redeemed : UserOf[o] = u}
OfEmail(m) == {o \in redeemed : EmailOf[o] = m}

-----------------------------------------------------------------------------
(* Orders *)

\* Mutant: redemptions are counted by address for guests only.
WithinPerUserSignedIn(o, limit) ==
  IF UserOf[o] = NoUser THEN Cardinality(OfEmail(EmailOf[o])) < limit
  ELSE Cardinality(OfUser(UserOf[o])) < limit

\* By account and by address.
WithinPerUser(o, limit) ==
  /\ UserOf[o] # NoUser => Cardinality(OfUser(UserOf[o])) < limit
  /\ Cardinality(OfEmail(EmailOf[o])) < limit

\* redeem, in the transaction that creates the order.
Redeem(o) ==
  /\ order[o] = "NONE"
  /\ order' = [order EXCEPT ![o] = "PLACED"]
  /\ \E c \in coupon :
       /\ c.active
       /\ c.used < c.limit
       /\ WithinPerUser(o, c.perUser)
       /\ coupon' = {[c EXCEPT !.used = @ + 1]}
       /\ pricedAt' = pricedAt \cup {<<o, c.terms>>}
  /\ redeemed' = redeemed \cup {o}
  /\ UNCHANGED <<nextId, edits, begun, topPer, raced>>

GivenBack(c) == [c EXCEPT !.used = IF @ > 0 THEN @ - 1 ELSE @]

\* rollbackRedemption, in the transaction of the refund.
RollbackRedemption(o) ==
  /\ order[o] = "PLACED"
  /\ order' = [order EXCEPT ![o] = "REFUNDED"]
  /\ coupon' = IF o \in redeemed THEN {GivenBack(c) : c \in coupon} ELSE coupon
  /\ redeemed' = redeemed \ {o}
  /\ UNCHANGED <<nextId, pricedAt, edits, begun, topPer, raced>>

-----------------------------------------------------------------------------
(* The organizer *)

\* The unique index over codes refuses a second row.
Create(terms, limit, perUser, active) ==
  /\ coupon = {}
  /\ begun < MaxEdits
  /\ begun' = begun + 1
  /\ nextId' = nextId + 1
  /\ coupon' = {[id |-> nextId, terms |-> terms, limit |-> limit, perUser |-> perUser,
                 active |-> active, used |-> 0]}
  /\ topPer' = Larger(topPer, perUser)
  /\ UNCHANGED <<order, redeemed, pricedAt, edits, raced>>

\* update and remove read the coupon, then ask who owns the event.
Begin(a, removing) ==
  /\ ~\E e \in edits : e.editor = a
  /\ begun < MaxEdits
  /\ begun' = begun + 1
  /\ \E c \in coupon :
       edits' = edits \cup
         {[editor |-> a, removing |-> removing, copy |-> c, seen |-> redeemed]}
  /\ UNCHANGED <<coupon, nextId, order, redeemed, pricedAt, topPer, raced>>

\* Mutant: the terms can be changed although the coupon is in use.
TermsAllowedAny(copy, terms) == TRUE

TermsAllowed(copy, terms) == copy.used > 0 => terms = copy.terms

\* Mutant: any limit.
LimitAllowedAny(copy, limit) == TRUE

LimitAllowed(copy, limit) == limit = copy.limit \/ limit >= copy.used

\* save updates the row, and inserts it if it is gone; with the code in another
\* row it fails.
SaveCoupon(c) == IF \E d \in coupon : d.id # c.id THEN coupon' = coupon ELSE coupon' = {c}

\* Does e save over redemptions or rollbacks it has not seen?
Races(e) == raced' = (raced \/ (coupon' # coupon /\ e.seen # redeemed))

\* Changes are checked against the copy and made to it.
Update(e) ==
  /\ ~e.removing
  /\ edits' = edits \ {e}
  /\ \E terms \in Terms, limit, perUser \in Limits, active \in BOOLEAN :
       /\ TermsAllowed(e.copy, terms)
       /\ LimitAllowed(e.copy, limit)
       /\ SaveCoupon([e.copy EXCEPT !.terms = terms, !.limit = limit,
                                    !.perUser = perUser, !.active = active])
       /\ topPer' = Larger(topPer, perUser)
  /\ Races(e)
  /\ UNCHANGED <<nextId, order, redeemed, pricedAt, begun>>

\* A coupon that was not used is deleted, its redemptions with it; one that was
\* is switched off.
Remove(e) ==
  /\ e.removing
  /\ edits' = edits \ {e}
  /\ IF e.copy.used > 0
     THEN SaveCoupon([e.copy EXCEPT !.active = FALSE]) /\ redeemed' = redeemed
     ELSE /\ coupon' = {c \in coupon : c.id # e.copy.id}
          /\ redeemed' = IF coupon' = coupon THEN redeemed ELSE {}
  /\ Races(e)
  /\ UNCHANGED <<nextId, order, pricedAt, begun, topPer>>

-----------------------------------------------------------------------------
CNext ==
  \/ \E o \in Orders : Redeem(o) \/ RollbackRedemption(o)
  \/ \E terms \in Terms, limit, perUser \in Limits, active \in BOOLEAN :
       Create(terms, limit, perUser, active)
  \/ \E a \in Editors, removing \in BOOLEAN : Begin(a, removing)
  \/ \E e \in edits : Update(e) \/ Remove(e)

CSpec == CInit /\ [][CNext]_cvars

-----------------------------------------------------------------------------
(* What the coupon promises *)

CTypeOK ==
  /\ coupon \subseteq Coupon
  /\ nextId \in Nat
  /\ order \in [Orders -> {"NONE", "PLACED", "REFUNDED"}]
  /\ redeemed \subseteq Orders
  /\ pricedAt \subseteq Orders \X Terms
  /\ edits \subseteq Edit
  /\ begun \in 0..MaxEdits
  /\ topPer \in Nat
  /\ raced \in BOOLEAN

\* The coupon's number of uses is the number of its redemptions, and within
\* the limit, unless an edit saved a copy from before a redemption or a refund.
UsesAreCounted ==
  ~raced => \A c \in coupon : c.used = Cardinality(redeemed) /\ c.used <= c.limit

\* Every order that still holds a redemption got it at the terms the coupon has.
TermsAreKept ==
  ~raced => \A c \in coupon, o \in redeemed : <<o, c.terms>> \in pricedAt

\* Whatever edits and redemptions overlap, no account and no address has more
\* redemptions than a limit per buyer the coupon has had.
BuyersAreLimited ==
  /\ \A u \in Users : Cardinality(OfUser(u)) <= topPer
  /\ \A m \in Emails : Cardinality(OfEmail(m)) <= topPer

=============================================================================

----------------------------- MODULE PriceProofs -----------------------------
(***************************************************************************)
(* Theorems about the price of an order: Coupons, for any orders, buyers,    *)
(* limits and edits at once, then Money, for any subtotals, coupons, fees,   *)
(* plans and refunds.                                                        *)
(***************************************************************************)
EXTENDS Coupons, Money, FiniteSetTheorems, SequenceTheorems, WellFoundedInduction, TLAPS

-----------------------------------------------------------------------------
(* Lemmas about the row                                                    *)

LEMMA UsedChanged ==
  ASSUME NEW c \in Coupon, NEW n \in Nat
  PROVE  /\ [c EXCEPT !.used = n] \in Coupon
         /\ [c EXCEPT !.used = n].used = n
         /\ [c EXCEPT !.used = n].terms = c.terms
         /\ [c EXCEPT !.used = n].limit = c.limit
         /\ [c EXCEPT !.used = n].perUser = c.perUser
BY DEF Coupon

LEMMA Edited ==
  ASSUME NEW c \in Coupon, NEW terms \in Terms, NEW limit \in Limits,
         NEW perUser \in Limits, NEW active \in BOOLEAN,
         NEW d, d = [c EXCEPT !.terms = terms, !.limit = limit,
                              !.perUser = perUser, !.active = active]
  PROVE  /\ d \in Coupon
         /\ d.used = c.used /\ d.terms = terms /\ d.limit = limit
         /\ d.perUser = perUser
BY DEF Coupon

LEMMA SwitchedOff ==
  ASSUME NEW c \in Coupon, NEW d, d = [c EXCEPT !.active = FALSE]
  PROVE  /\ d \in Coupon
         /\ d.used = c.used /\ d.terms = c.terms /\ d.limit = c.limit
         /\ d.perUser = c.perUser
BY DEF Coupon

LEMMA GivenBackRight ==
  ASSUME NEW c \in Coupon
  PROVE  /\ GivenBack(c) \in Coupon
         /\ c.used > 0 => GivenBack(c).used = c.used - 1
         /\ GivenBack(c).terms = c.terms /\ GivenBack(c).limit = c.limit
         /\ GivenBack(c).perUser = c.perUser
<1> DEFINE n == IF c.used > 0 THEN c.used - 1 ELSE c.used
<1>1. n \in Nat BY DEF Coupon
<1>2. GivenBack(c) = [c EXCEPT !.used = n] BY DEF GivenBack, Coupon
<1>3. c.used > 0 => n = c.used - 1 OBVIOUS
<1> HIDE DEF n
<1> QED BY <1>1, <1>2, <1>3, UsedChanged

LEMMA LimitsAreNumbers == Limits \subseteq Nat
BY CouponsAssumption

LEMMA LargerIs ==
  ASSUME NEW a \in Nat, NEW b \in Nat
  PROVE  Larger(a, b) \in Nat /\ Larger(a, b) >= a /\ Larger(a, b) >= b
BY DEF Larger

LEMMA RedeemedFinite ==
  ASSUME NEW S \in SUBSET Orders
  PROVE  IsFiniteSet(S) /\ Cardinality(S) \in Nat
BY CouponsAssumption, FS_Subset, FS_CardinalityType

LEMMA SaveEffect ==
  ASSUME NEW c, SaveCoupon(c)
  PROVE  coupon' = coupon \/ coupon' = {c}
BY DEF SaveCoupon

-----------------------------------------------------------------------------
(* One row, redemptions of placed orders, limits per buyer                 *)

RowInv ==
  /\ CTypeOK
  /\ \A c, d \in coupon : c = d
  /\ coupon = {} => redeemed = {}
  /\ \A o \in redeemed : order[o] = "PLACED"
  /\ \A c \in coupon : c.perUser <= topPer
  /\ \A e \in edits : e.copy.perUser <= topPer
  /\ BuyersAreLimited

LEMMA EditFields ==
  ASSUME NEW e \in Edit
  PROVE  e.copy \in Coupon /\ e.seen \in SUBSET Orders
BY DEF Edit

\* Fewer redemptions and higher limits disturb no limit.
LEMMA StillLimited ==
  ASSUME CTypeOK, BuyersAreLimited, redeemed' \subseteq redeemed,
         topPer' \in Nat, topPer' >= topPer
  PROVE  BuyersAreLimited'
<1>1. ASSUME NEW u \in Users PROVE Cardinality(OfUser(u)') <= topPer'
  <2>1. OfUser(u)' \subseteq OfUser(u) BY DEF OfUser
  <2>2. OfUser(u) \in SUBSET Orders BY DEF OfUser, CTypeOK
  <2> DEFINE R == OfUser(u)  S == OfUser(u)'
  <2> HIDE DEF R, S
  <2>3. IsFiniteSet(R) /\ Cardinality(R) \in Nat BY <2>2, RedeemedFinite DEF R
  <2>4. Cardinality(S) <= Cardinality(R) BY <2>1, <2>3, FS_Subset DEF R, S
  <2>5. Cardinality(S) \in Nat BY <2>1, <2>2, RedeemedFinite DEF R, S
  <2>6. Cardinality(R) <= topPer BY DEF R, BuyersAreLimited
  <2>7. topPer \in Nat BY DEF CTypeOK
  <2>8. Cardinality(S) <= topPer' BY <2>3, <2>4, <2>5, <2>6, <2>7
  <2> QED BY <2>8 DEF S
<1>2. ASSUME NEW m \in Emails PROVE Cardinality(OfEmail(m)') <= topPer'
  <2>1. OfEmail(m)' \subseteq OfEmail(m) BY DEF OfEmail
  <2>2. OfEmail(m) \in SUBSET Orders BY DEF OfEmail, CTypeOK
  <2> DEFINE R == OfEmail(m)  S == OfEmail(m)'
  <2> HIDE DEF R, S
  <2>3. IsFiniteSet(R) /\ Cardinality(R) \in Nat BY <2>2, RedeemedFinite DEF R
  <2>4. Cardinality(S) <= Cardinality(R) BY <2>1, <2>3, FS_Subset DEF R, S
  <2>5. Cardinality(S) \in Nat BY <2>1, <2>2, RedeemedFinite DEF R, S
  <2>6. Cardinality(R) <= topPer BY DEF R, BuyersAreLimited
  <2>7. topPer \in Nat BY DEF CTypeOK
  <2>8. Cardinality(S) <= topPer' BY <2>3, <2>4, <2>5, <2>6, <2>7
  <2> QED BY <2>8 DEF S
<1> QED BY <1>1, <1>2 DEF BuyersAreLimited

LEMMA RowInit == CInit => RowInv
<1> SUFFICES ASSUME CInit PROVE RowInv OBVIOUS
<1>1. CTypeOK
  <2>1. raced \in BOOLEAN BY DEF CInit
  <2> QED BY <2>1, CouponsAssumption DEF CInit, CTypeOK
<1>2. BuyersAreLimited
  <2>1. \A u \in Users : OfUser(u) = {} BY DEF OfUser, CInit
  <2>2. \A m \in Emails : OfEmail(m) = {} BY DEF OfEmail, CInit
  <2>3. Cardinality({}) = 0 BY FS_EmptySet
  <2> QED BY <2>1, <2>2, <2>3 DEF BuyersAreLimited, CInit
<1> QED BY <1>1, <1>2 DEF CInit, RowInv

LEMMA RedeemRow ==
  ASSUME RowInv, NEW o \in Orders, Redeem(o)
  PROVE  RowInv'
<1>1. PICK c \in coupon :
        /\ c.used < c.limit /\ WithinPerUser(o, c.perUser)
        /\ coupon' = {[c EXCEPT !.used = @ + 1]}
        /\ pricedAt' = pricedAt \cup {<<o, c.terms>>}
  BY DEF Redeem
<1>2. c \in Coupon BY DEF RowInv, CTypeOK
<1>3. c.used + 1 \in Nat /\ c.terms \in Terms /\ c.perUser \in Limits BY <1>2 DEF Coupon
<1> DEFINE d == [c EXCEPT !.used = c.used + 1]
<1>4. coupon' = {d} BY <1>1
<1>5. d \in Coupon /\ d.perUser = c.perUser BY <1>2, <1>3, UsedChanged
<1> HIDE DEF d
<1>6. /\ redeemed' = redeemed \cup {o} /\ order' = [order EXCEPT ![o] = "PLACED"]
      /\ UNCHANGED <<nextId, edits, begun, topPer, raced>>
  BY DEF Redeem
<1>7. CTypeOK'
  <2>1. raced' \in BOOLEAN BY <1>6 DEF RowInv, CTypeOK
  <2>2. pricedAt' \subseteq Orders \X Terms BY <1>1, <1>3 DEF RowInv, CTypeOK
  <2>3. /\ coupon' \subseteq Coupon /\ nextId' \in Nat /\ redeemed' \subseteq Orders
        /\ order' \in [Orders -> {"NONE", "PLACED", "REFUNDED"}]
        /\ edits' \subseteq Edit /\ begun' \in 0..MaxEdits /\ topPer' \in Nat
    BY <1>4, <1>5, <1>6 DEF RowInv, CTypeOK
  <2> QED BY <2>1, <2>2, <2>3 DEF CTypeOK
<1>8. \A x \in redeemed' : order'[x] = "PLACED" BY <1>6 DEF RowInv, CTypeOK
<1>9. topPer \in Nat /\ c.perUser \in Nat /\ c.perUser <= topPer
  BY <1>3, LimitsAreNumbers DEF RowInv, CTypeOK
<1>10. ASSUME NEW u \in Users PROVE Cardinality(OfUser(u)') <= topPer'
  <2> DEFINE R == OfUser(u)
  <2>1. R \in SUBSET Orders BY DEF OfUser, RowInv, CTypeOK
  <2>2. Cardinality(R) <= topPer BY DEF RowInv, BuyersAreLimited
  <2>3. CASE UserOf[o] = u
    <3>1. OfUser(u)' = R \cup {o} BY <1>6, <2>3 DEF OfUser
    <3>2. u # NoUser BY CouponsAssumption
    <3>3. Cardinality(R) < c.perUser BY <1>1, <2>3, <3>2 DEF WithinPerUser
    <3> HIDE DEF R
    <3>4. IsFiniteSet(R) /\ Cardinality(R) \in Nat BY <2>1, RedeemedFinite
    <3>5. Cardinality(R \cup {o}) <= Cardinality(R) + 1 BY <3>4, FS_AddElement
    <3>6. Cardinality(R \cup {o}) \in Nat BY <2>1, RedeemedFinite
    <3>7. Cardinality(R \cup {o}) <= topPer BY <1>9, <3>3, <3>4, <3>5, <3>6
    <3> QED BY <1>6, <3>1, <3>7
  <2>4. CASE UserOf[o] # u
    <3>1. OfUser(u)' = R BY <1>6, <2>4 DEF OfUser
    <3> QED BY <1>6, <2>2, <3>1
  <2> QED BY <2>3, <2>4
<1>11. ASSUME NEW m \in Emails PROVE Cardinality(OfEmail(m)') <= topPer'
  <2> DEFINE R == OfEmail(m)
  <2>1. R \in SUBSET Orders BY DEF OfEmail, RowInv, CTypeOK
  <2>2. Cardinality(R) <= topPer BY DEF RowInv, BuyersAreLimited
  <2>3. CASE EmailOf[o] = m
    <3>1. OfEmail(m)' = R \cup {o} BY <1>6, <2>3 DEF OfEmail
    <3>3. Cardinality(R) < c.perUser BY <1>1, <2>3 DEF WithinPerUser
    <3> HIDE DEF R
    <3>4. IsFiniteSet(R) /\ Cardinality(R) \in Nat BY <2>1, RedeemedFinite
    <3>5. Cardinality(R \cup {o}) <= Cardinality(R) + 1 BY <3>4, FS_AddElement
    <3>6. Cardinality(R \cup {o}) \in Nat BY <2>1, RedeemedFinite
    <3>7. Cardinality(R \cup {o}) <= topPer BY <1>9, <3>3, <3>4, <3>5, <3>6
    <3> QED BY <1>6, <3>1, <3>7
  <2>4. CASE EmailOf[o] # m
    <3>1. OfEmail(m)' = R BY <1>6, <2>4 DEF OfEmail
    <3> QED BY <1>6, <2>2, <3>1
  <2> QED BY <2>3, <2>4
<1>12. BuyersAreLimited' BY <1>10, <1>11 DEF BuyersAreLimited
<1>13. \A e \in edits' : e.copy.perUser <= topPer' BY <1>6 DEF RowInv
<1> QED BY <1>4, <1>5, <1>6, <1>7, <1>8, <1>9, <1>12, <1>13 DEF RowInv

LEMMA RollbackRow ==
  ASSUME RowInv, NEW o \in Orders, RollbackRedemption(o)
  PROVE  RowInv'
<1>1. /\ redeemed' = redeemed \ {o} /\ order' = [order EXCEPT ![o] = "REFUNDED"]
      /\ UNCHANGED <<nextId, pricedAt, edits, begun, topPer, raced>>
  BY DEF RollbackRedemption
<1>2. coupon' = coupon \/ coupon' = {GivenBack(c) : c \in coupon}
  BY DEF RollbackRedemption
<1>3. /\ coupon' \subseteq Coupon
      /\ \A c, d \in coupon' : c = d
      /\ coupon' = {} => coupon = {}
      /\ \A c \in coupon' : c.perUser <= topPer
  <2>1. CASE coupon' = coupon BY <2>1 DEF RowInv, CTypeOK
  <2>2. CASE coupon' = {GivenBack(c) : c \in coupon}
    <3>1. \A c \in coupon : /\ GivenBack(c) \in Coupon
                            /\ GivenBack(c).perUser = c.perUser
                            /\ c.perUser <= topPer
      BY GivenBackRight DEF RowInv, CTypeOK
    <3>2. \A c, d \in coupon : GivenBack(c) = GivenBack(d) BY DEF RowInv
    <3> QED BY <2>2, <3>1, <3>2, Zenon
  <2> QED BY <1>2, <2>1, <2>2
<1>4. CTypeOK'
  <2>1. raced' \in BOOLEAN BY <1>1 DEF RowInv, CTypeOK
  <2> QED BY <1>1, <1>3, <2>1 DEF RowInv, CTypeOK
<1>5. \A x \in redeemed' : order'[x] = "PLACED" BY <1>1 DEF RowInv, CTypeOK
<1>6. BuyersAreLimited'
  BY <1>1, <1>4, StillLimited DEF RowInv, CTypeOK
<1> QED BY <1>1, <1>3, <1>4, <1>5, <1>6 DEF RowInv

LEMMA CreateRow ==
  ASSUME RowInv, NEW terms \in Terms, NEW limit \in Limits, NEW perUser \in Limits,
         NEW active \in BOOLEAN, Create(terms, limit, perUser, active)
  PROVE  RowInv'
<1> DEFINE d == [id |-> nextId, terms |-> terms, limit |-> limit, perUser |-> perUser,
                 active |-> active, used |-> 0]
<1>1. /\ coupon = {} /\ coupon' = {d} /\ begun < MaxEdits /\ begun' = begun + 1
      /\ nextId' = nextId + 1 /\ topPer' = Larger(topPer, perUser)
      /\ UNCHANGED <<order, redeemed, pricedAt, edits, raced>>
  BY DEF Create
<1>2. d \in Coupon /\ d.perUser = perUser BY DEF Coupon, RowInv, CTypeOK
<1> HIDE DEF d
<1>3. topPer \in Nat /\ perUser \in Nat BY LimitsAreNumbers DEF RowInv, CTypeOK
<1>4. topPer' \in Nat /\ topPer' >= topPer /\ topPer' >= perUser BY <1>1, <1>3, LargerIs
<1>5. CTypeOK'
  <2>1. raced' \in BOOLEAN BY <1>1 DEF RowInv, CTypeOK
  <2>2. begun' \in 0..MaxEdits /\ nextId' \in Nat
    BY <1>1, CouponsAssumption DEF RowInv, CTypeOK
  <2> QED BY <1>1, <1>2, <1>4, <2>1, <2>2 DEF RowInv, CTypeOK
<1>6. BuyersAreLimited' BY <1>1, <1>4, StillLimited DEF RowInv
<1>7. \A e \in edits' : e.copy.perUser <= topPer'
  <2> TAKE e \in edits'
  <2>1. e \in Edit /\ e.copy.perUser <= topPer BY <1>1 DEF RowInv, CTypeOK
  <2>2. e.copy.perUser \in Nat BY <2>1, EditFields, LimitsAreNumbers DEF Coupon
  <2> QED BY <1>3, <1>4, <2>1, <2>2
<1> QED BY <1>1, <1>2, <1>3, <1>4, <1>5, <1>6, <1>7 DEF RowInv

LEMMA BeginRow ==
  ASSUME RowInv, NEW a \in Editors, NEW removing \in BOOLEAN, Begin(a, removing)
  PROVE  RowInv'
<1>1. PICK c \in coupon :
        edits' = edits \cup
          {[editor |-> a, removing |-> removing, copy |-> c, seen |-> redeemed]}
  BY DEF Begin
<1>2. /\ begun < MaxEdits /\ begun' = begun + 1
      /\ UNCHANGED <<coupon, nextId, order, redeemed, pricedAt, topPer, raced>>
  BY DEF Begin
<1> DEFINE n == [editor |-> a, removing |-> removing, copy |-> c, seen |-> redeemed]
<1>3. n \in Edit /\ n.copy = c BY DEF Edit, RowInv, CTypeOK
<1>4. edits' = edits \cup {n} BY <1>1
<1> HIDE DEF n
<1>5. CTypeOK'
  <2>1. raced' \in BOOLEAN BY <1>2 DEF RowInv, CTypeOK
  <2>2. begun' \in 0..MaxEdits BY <1>2, CouponsAssumption DEF RowInv, CTypeOK
  <2> QED BY <1>2, <1>3, <1>4, <2>1, <2>2 DEF RowInv, CTypeOK
<1>6. BuyersAreLimited'
  BY <1>2, <1>5, StillLimited DEF RowInv, CTypeOK
<1>7. \A e \in edits' : e.copy.perUser <= topPer' BY <1>2, <1>3, <1>4 DEF RowInv
<1> QED BY <1>2, <1>5, <1>6, <1>7 DEF RowInv

\* A save leaves one row, of a limit per buyer there has been.
LEMMA SavedRow ==
  ASSUME RowInv, NEW c \in Coupon, SaveCoupon(c), redeemed' = redeemed,
         topPer' \in Nat, topPer' >= topPer, c.perUser <= topPer'
  PROVE  /\ coupon' \subseteq Coupon
         /\ \A d, e \in coupon' : d = e
         /\ coupon' = {} => redeemed' = {}
         /\ \A d \in coupon' : d.perUser <= topPer'
<1>1. CASE coupon' = coupon
  <2>1. \A d \in coupon : d.perUser \in Nat /\ d.perUser <= topPer
    BY LimitsAreNumbers DEF RowInv, CTypeOK, Coupon
  <2>2. topPer \in Nat BY DEF RowInv, CTypeOK
  <2>3. \A d \in coupon : d.perUser <= topPer' BY <2>1, <2>2
  <2> QED BY <1>1, <2>3 DEF RowInv, CTypeOK
<1>2. CASE coupon' = {c} BY <1>2
<1> QED BY <1>1, <1>2, SaveEffect

LEMMA UpdateRow ==
  ASSUME RowInv, NEW e \in edits, Update(e)
  PROVE  RowInv'
<1>1. PICK terms \in Terms, limit \in Limits, perUser \in Limits, active \in BOOLEAN :
        /\ SaveCoupon([e.copy EXCEPT !.terms = terms, !.limit = limit,
                                     !.perUser = perUser, !.active = active])
        /\ topPer' = Larger(topPer, perUser)
  BY DEF Update
<1>2. /\ edits' = edits \ {e}
      /\ UNCHANGED <<nextId, order, redeemed, pricedAt, begun>>
  BY DEF Update
<1>3. PICK d : d = [e.copy EXCEPT !.terms = terms, !.limit = limit,
                                  !.perUser = perUser, !.active = active]
  OBVIOUS
<1>4. e.copy \in Coupon BY EditFields DEF RowInv, CTypeOK
<1>5. d \in Coupon /\ d.perUser = perUser BY <1>3, <1>4 DEF Coupon
<1>6. topPer \in Nat /\ perUser \in Nat BY LimitsAreNumbers DEF RowInv, CTypeOK
<1>7. topPer' \in Nat /\ topPer' >= topPer /\ topPer' >= perUser BY <1>1, <1>6, LargerIs
<1>8. SaveCoupon(d) BY <1>1, <1>3
<1>9. /\ coupon' \subseteq Coupon
      /\ \A x, y \in coupon' : x = y
      /\ coupon' = {} => redeemed' = {}
      /\ \A x \in coupon' : x.perUser <= topPer'
  BY <1>2, <1>5, <1>6, <1>7, <1>8, SavedRow
<1>10. raced' \in BOOLEAN
  <2>1. raced' = (raced \/ (coupon' # coupon /\ e.seen # redeemed)) BY DEF Update, Races
  <2> QED BY <2>1
<1>11. CTypeOK' BY <1>2, <1>7, <1>9, <1>10 DEF RowInv, CTypeOK
<1>12. BuyersAreLimited' BY <1>2, <1>7, StillLimited DEF RowInv
<1>13. \A x \in edits' : x.copy.perUser <= topPer'
  <2> TAKE x \in edits'
  <2>1. x \in Edit /\ x.copy.perUser <= topPer BY <1>2 DEF RowInv, CTypeOK
  <2>2. x.copy.perUser \in Nat BY <2>1, EditFields, LimitsAreNumbers DEF Coupon
  <2> QED BY <1>6, <1>7, <2>1, <2>2
<1> QED BY <1>2, <1>9, <1>11, <1>12, <1>13 DEF RowInv

LEMMA RemoveRow ==
  ASSUME RowInv, NEW e \in edits, Remove(e)
  PROVE  RowInv'
<1>1. /\ edits' = edits \ {e}
      /\ UNCHANGED <<nextId, order, pricedAt, begun, topPer>>
  BY DEF Remove
<1>2. e.copy \in Coupon /\ e.copy.perUser <= topPer
  BY EditFields DEF RowInv, CTypeOK
<1>3. topPer \in Nat BY DEF RowInv, CTypeOK
<1>4. /\ coupon' \subseteq Coupon
      /\ \A x, y \in coupon' : x = y
      /\ coupon' = {} => redeemed' = {}
      /\ \A x \in coupon' : x.perUser <= topPer'
      /\ redeemed' \subseteq redeemed
  <2>1. CASE e.copy.used > 0
    <3>1. PICK d : d = [e.copy EXCEPT !.active = FALSE] OBVIOUS
    <3>2. d \in Coupon /\ d.perUser = e.copy.perUser BY <1>2, <3>1, SwitchedOff
    <3>3. SaveCoupon(d) /\ redeemed' = redeemed BY <2>1, <3>1 DEF Remove
    <3>4. topPer' \in Nat /\ topPer' >= topPer /\ d.perUser <= topPer'
      BY <1>1, <1>2, <1>3, <3>2
    <3> QED BY <3>2, <3>3, <3>4, SavedRow
  <2>2. CASE ~(e.copy.used > 0)
    <3>1. /\ coupon' = {c \in coupon : c.id # e.copy.id}
          /\ redeemed' = IF coupon' = coupon THEN redeemed ELSE {}
      BY <2>2 DEF Remove
    <3> QED BY <1>1, <3>1 DEF RowInv, CTypeOK
  <2> QED BY <2>1, <2>2
<1>5. raced' \in BOOLEAN
  <2>1. raced' = (raced \/ (coupon' # coupon /\ e.seen # redeemed)) BY DEF Remove, Races
  <2> QED BY <2>1
<1>6. CTypeOK' BY <1>1, <1>4, <1>5 DEF RowInv, CTypeOK
<1>7. BuyersAreLimited' BY <1>1, <1>3, <1>4, StillLimited DEF RowInv
<1> QED BY <1>1, <1>4, <1>6, <1>7 DEF RowInv

LEMMA RowNext == RowInv /\ [CNext]_cvars => RowInv'
<1> SUFFICES ASSUME RowInv, [CNext]_cvars PROVE RowInv' OBVIOUS
<1>1. CASE \E o \in Orders : Redeem(o) BY <1>1, RedeemRow
<1>2. CASE \E o \in Orders : RollbackRedemption(o) BY <1>2, RollbackRow
<1>3. CASE \E terms \in Terms, limit \in Limits, perUser \in Limits, active \in BOOLEAN :
             Create(terms, limit, perUser, active)
  BY <1>3, CreateRow
<1>4. CASE \E a \in Editors, removing \in BOOLEAN : Begin(a, removing) BY <1>4, BeginRow
<1>5. CASE \E e \in edits : Update(e) BY <1>5, UpdateRow
<1>6. CASE \E e \in edits : Remove(e) BY <1>6, RemoveRow
<1>7. CASE UNCHANGED cvars
  <2>1. /\ UNCHANGED <<coupon, nextId, order, redeemed, pricedAt, edits, begun, topPer>>
        /\ raced' = raced
    BY <1>7 DEF cvars
  <2>2. raced' \in BOOLEAN BY <2>1 DEF RowInv, CTypeOK
  <2>3. CTypeOK' BY <2>1, <2>2 DEF RowInv, CTypeOK
  <2>4. topPer \in Nat BY DEF RowInv, CTypeOK
  <2>5. BuyersAreLimited' BY <2>1, <2>4, StillLimited DEF RowInv
  <2> QED BY <2>1, <2>3, <2>5 DEF RowInv
<1> QED BY <1>1, <1>2, <1>3, <1>4, <1>5, <1>6, <1>7 DEF CNext

\* Every reachable state is well typed: there is at most one row of the code.
THEOREM TypeCorrect == CSpec => []CTypeOK
<1>1. RowInv => CTypeOK BY DEF RowInv
<1> QED BY <1>1, RowInit, RowNext, PTL DEF CSpec

\* No account and no address has more redemptions than a limit per buyer the
\* coupon has had: redemptions lock the row they count under.
THEOREM BuyersLimited == CSpec => []BuyersAreLimited
<1>1. RowInv => BuyersAreLimited BY DEF RowInv
<1> QED BY <1>1, RowInit, RowNext, PTL DEF CSpec

-----------------------------------------------------------------------------
(* Uses and terms, as long as no copy was saved over what it has not seen  *)

\* A copy has counted the redemptions its editor saw, which were at its terms.
CopyRight(e) ==
  /\ e.copy.used = Cardinality(e.seen)
  /\ e.copy.used <= e.copy.limit
  /\ \A o \in e.seen : <<o, e.copy.terms>> \in pricedAt

CalmInv ==
  /\ UsesAreCounted
  /\ TermsAreKept
  /\ ~raced => \A e \in edits : CopyRight(e)

LEMMA CalmInit == CInit => CalmInv
BY DEF CInit, CalmInv, UsesAreCounted, TermsAreKept

LEMMA RedeemCalm ==
  ASSUME RowInv, CalmInv, NEW o \in Orders, Redeem(o)
  PROVE  CalmInv'
<1> SUFFICES ASSUME ~raced' PROVE CalmInv'
  BY DEF CalmInv, UsesAreCounted, TermsAreKept
<1>1. PICK c \in coupon :
        /\ c.used < c.limit
        /\ coupon' = {[c EXCEPT !.used = @ + 1]}
        /\ pricedAt' = pricedAt \cup {<<o, c.terms>>}
  BY DEF Redeem
<1>2. /\ redeemed' = redeemed \cup {o} /\ order[o] = "NONE" /\ edits' = edits /\ ~raced
  BY DEF Redeem
<1>3. c \in Coupon BY DEF RowInv, CTypeOK
<1>4. c.used \in Nat /\ c.limit \in Nat BY <1>3, LimitsAreNumbers DEF Coupon
<1> DEFINE d == [c EXCEPT !.used = c.used + 1]
<1>5. coupon' = {d} BY <1>1
<1>6. d.used = c.used + 1 /\ d.limit = c.limit /\ d.terms = c.terms
  BY <1>3, <1>4, UsedChanged
<1> HIDE DEF d
<1>7. o \notin redeemed BY <1>2 DEF RowInv
<1>8. Cardinality(redeemed') = Cardinality(redeemed) + 1
  BY <1>2, <1>7, RedeemedFinite, FS_AddElement DEF RowInv, CTypeOK
<1>9. UsesAreCounted'
  BY <1>1, <1>2, <1>4, <1>5, <1>6, <1>8 DEF CalmInv, UsesAreCounted
<1>10. TermsAreKept'
  BY <1>1, <1>2, <1>5, <1>6 DEF CalmInv, TermsAreKept
<1>11. \A e \in edits' : CopyRight(e)'
  BY <1>1, <1>2 DEF CalmInv, CopyRight
<1> QED BY <1>9, <1>10, <1>11 DEF CalmInv

LEMMA RollbackCalm ==
  ASSUME RowInv, CalmInv, NEW o \in Orders, RollbackRedemption(o)
  PROVE  CalmInv'
<1> SUFFICES ASSUME ~raced' PROVE CalmInv'
  BY DEF CalmInv, UsesAreCounted, TermsAreKept
<1>1. /\ redeemed' = redeemed \ {o} /\ ~raced
      /\ coupon' = IF o \in redeemed THEN {GivenBack(c) : c \in coupon} ELSE coupon
      /\ UNCHANGED <<pricedAt, edits>>
  BY DEF RollbackRedemption
<1>2. ASSUME NEW d \in coupon'
      PROVE  /\ d.used = Cardinality(redeemed') /\ d.used <= d.limit
             /\ \A x \in redeemed' : <<x, d.terms>> \in pricedAt
  <2>1. CASE o \notin redeemed
    <3>1. redeemed' = redeemed /\ d \in coupon BY <1>1, <2>1
    <3> QED BY <1>1, <3>1 DEF CalmInv, UsesAreCounted, TermsAreKept
  <2>2. CASE o \in redeemed
    <3>1. PICK c \in coupon : d = GivenBack(c) BY <1>1, <2>2
    <3>2. c \in Coupon BY DEF RowInv, CTypeOK
    <3>3. c.used = Cardinality(redeemed) /\ c.used <= c.limit
      BY <1>1 DEF CalmInv, UsesAreCounted
    <3>4. IsFiniteSet(redeemed) BY RedeemedFinite DEF RowInv, CTypeOK
    <3>5. Cardinality(redeemed') = Cardinality(redeemed) - 1
      BY <1>1, <2>2, <3>4, FS_RemoveElement
    <3>6. c.used \in Nat /\ c.limit \in Nat BY <3>2, LimitsAreNumbers DEF Coupon
    <3>7. Cardinality(redeemed) # 0 BY <2>2, <3>4, FS_EmptySet
    <3>8. d.used = c.used - 1 /\ d.limit = c.limit /\ d.terms = c.terms
      BY <3>1, <3>2, <3>3, <3>6, <3>7, GivenBackRight
    <3>9. \A x \in redeemed' : <<x, d.terms>> \in pricedAt
      BY <1>1, <3>8 DEF CalmInv, TermsAreKept
    <3> QED BY <3>3, <3>5, <3>6, <3>8, <3>9
  <2> QED BY <2>1, <2>2
<1>3. UsesAreCounted' BY <1>2 DEF UsesAreCounted
<1>4. TermsAreKept' BY <1>1, <1>2 DEF TermsAreKept
<1>5. \A e \in edits' : CopyRight(e)' BY <1>1 DEF CalmInv, CopyRight
<1> QED BY <1>3, <1>4, <1>5 DEF CalmInv

LEMMA CreateCalm ==
  ASSUME RowInv, CalmInv, NEW terms \in Terms, NEW limit \in Limits,
         NEW perUser \in Limits, NEW active \in BOOLEAN,
         Create(terms, limit, perUser, active)
  PROVE  CalmInv'
<1> DEFINE d == [id |-> nextId, terms |-> terms, limit |-> limit, perUser |-> perUser,
                 active |-> active, used |-> 0]
<1>1. /\ coupon = {} /\ coupon' = {d}
      /\ UNCHANGED <<order, redeemed, pricedAt, edits, raced>>
  BY DEF Create
<1>2. redeemed' = {} BY <1>1 DEF RowInv
<1>3. d.used = 0 /\ d.limit = limit OBVIOUS
<1> HIDE DEF d
<1>4. limit \in Nat BY LimitsAreNumbers
<1>5. Cardinality({}) = 0 BY FS_EmptySet
<1>6. UsesAreCounted' BY <1>1, <1>2, <1>3, <1>4, <1>5 DEF UsesAreCounted
<1>7. TermsAreKept' BY <1>2 DEF TermsAreKept
<1>8. ~raced' => \A e \in edits' : CopyRight(e)' BY <1>1 DEF CalmInv, CopyRight
<1> QED BY <1>6, <1>7, <1>8 DEF CalmInv

LEMMA BeginCalm ==
  ASSUME RowInv, CalmInv, NEW a \in Editors, NEW removing \in BOOLEAN, Begin(a, removing)
  PROVE  CalmInv'
<1>1. PICK c \in coupon :
        edits' = edits \cup
          {[editor |-> a, removing |-> removing, copy |-> c, seen |-> redeemed]}
  BY DEF Begin
<1>2. UNCHANGED <<coupon, redeemed, pricedAt, raced>> BY DEF Begin
<1> DEFINE n == [editor |-> a, removing |-> removing, copy |-> c, seen |-> redeemed]
<1>3. n.copy = c /\ n.seen = redeemed OBVIOUS
<1>4. edits' = edits \cup {n} BY <1>1
<1> HIDE DEF n
<1>5. ~raced => CopyRight(n)
  BY <1>3 DEF CalmInv, UsesAreCounted, TermsAreKept, CopyRight
<1>6. ~raced' => \A e \in edits' : CopyRight(e)'
  BY <1>2, <1>4, <1>5 DEF CalmInv, CopyRight
<1> QED BY <1>2, <1>6 DEF CalmInv, UsesAreCounted, TermsAreKept

\* A save that races nothing leaves uses and terms right if its row counts what
\* its editor saw.
LEMMA SavedCalm ==
  ASSUME RowInv, CalmInv, NEW e \in edits, NEW d, SaveCoupon(d),
         redeemed' = redeemed, pricedAt' = pricedAt, edits' = edits \ {e}, Races(e),
         ~raced => /\ d.used = Cardinality(e.seen) /\ d.used <= d.limit
                   /\ \A o \in e.seen : <<o, d.terms>> \in pricedAt
  PROVE  CalmInv'
<1> SUFFICES ASSUME ~raced' PROVE CalmInv'
  BY DEF CalmInv, UsesAreCounted, TermsAreKept
<1>1. ~raced /\ (coupon' = coupon \/ e.seen = redeemed) BY DEF Races
<1>2. CASE coupon' = coupon
  BY <1>1, <1>2 DEF CalmInv, UsesAreCounted, TermsAreKept, CopyRight
<1>3. CASE coupon' = {d} /\ e.seen = redeemed
  BY <1>1, <1>3 DEF CalmInv, UsesAreCounted, TermsAreKept, CopyRight
<1> QED BY <1>1, <1>2, <1>3, SaveEffect

LEMMA UpdateCalm ==
  ASSUME RowInv, CalmInv, NEW e \in edits, Update(e)
  PROVE  CalmInv'
<1>1. PICK terms \in Terms, limit \in Limits, perUser \in Limits, active \in BOOLEAN :
        /\ TermsAllowed(e.copy, terms) /\ LimitAllowed(e.copy, limit)
        /\ SaveCoupon([e.copy EXCEPT !.terms = terms, !.limit = limit,
                                     !.perUser = perUser, !.active = active])
  BY DEF Update
<1>2. /\ edits' = edits \ {e} /\ Races(e)
      /\ UNCHANGED <<redeemed, pricedAt>>
  BY DEF Update
<1>3. PICK d : d = [e.copy EXCEPT !.terms = terms, !.limit = limit,
                                  !.perUser = perUser, !.active = active]
  OBVIOUS
<1>4. e.copy \in Coupon /\ e.seen \in SUBSET Orders BY EditFields DEF RowInv, CTypeOK
<1>5. d.used = e.copy.used /\ d.terms = terms /\ d.limit = limit
  BY <1>3, <1>4 DEF Coupon
<1>6. SaveCoupon(d) BY <1>1, <1>3
<1>7. ASSUME ~raced
      PROVE  /\ d.used = Cardinality(e.seen) /\ d.used <= d.limit
             /\ \A o \in e.seen : <<o, d.terms>> \in pricedAt
  <2>1. CopyRight(e) BY <1>7 DEF CalmInv
  <2>2. d.used <= d.limit
    BY <1>1, <1>5, <2>1 DEF LimitAllowed, CopyRight
  <2>3. ASSUME NEW o \in e.seen PROVE <<o, d.terms>> \in pricedAt
    <3>1. IsFiniteSet(e.seen) BY <1>4, RedeemedFinite
    <3>2. Cardinality(e.seen) # 0 BY <2>3, <3>1, FS_EmptySet
    <3>3. e.copy.used > 0 BY <1>4, <2>1, <3>2 DEF CopyRight, Coupon
    <3>4. terms = e.copy.terms BY <1>1, <3>3 DEF TermsAllowed
    <3> QED BY <1>5, <2>1, <3>4 DEF CopyRight
  <2> QED BY <1>5, <2>1, <2>2, <2>3 DEF CopyRight
<1> QED BY <1>2, <1>6, <1>7, SavedCalm

LEMMA RemoveCalm ==
  ASSUME RowInv, CalmInv, NEW e \in edits, Remove(e)
  PROVE  CalmInv'
<1>1. edits' = edits \ {e} /\ Races(e) /\ pricedAt' = pricedAt BY DEF Remove
<1>2. e.copy \in Coupon /\ e.seen \in SUBSET Orders BY EditFields DEF RowInv, CTypeOK
<1>3. CASE e.copy.used > 0
  <2>1. PICK d : d = [e.copy EXCEPT !.active = FALSE] OBVIOUS
  <2>2. d.used = e.copy.used /\ d.terms = e.copy.terms /\ d.limit = e.copy.limit
    BY <1>2, <2>1, SwitchedOff
  <2>3. SaveCoupon(d) /\ redeemed' = redeemed BY <1>3, <2>1 DEF Remove
  <2>4. ~raced => CopyRight(e) BY DEF CalmInv
  <2>5. ~raced => /\ d.used = Cardinality(e.seen) /\ d.used <= d.limit
                  /\ \A o \in e.seen : <<o, d.terms>> \in pricedAt
    BY <2>2, <2>4 DEF CopyRight
  <2> QED BY <1>1, <2>3, <2>5, SavedCalm
<1>4. CASE ~(e.copy.used > 0)
  <2>1. /\ coupon' = {c \in coupon : c.id # e.copy.id}
        /\ redeemed' = IF coupon' = coupon THEN redeemed ELSE {}
    BY <1>4 DEF Remove
  <2>3. ~raced' => ~raced BY <1>1 DEF Races
  <2>4. CASE coupon' = coupon
    BY <1>1, <2>1, <2>3, <2>4 DEF CalmInv, UsesAreCounted, TermsAreKept, CopyRight
  <2>5. CASE coupon' # coupon
    <3>1. coupon' = {} BY <2>1, <2>5 DEF RowInv
    <3>2. ~raced' => \A x \in edits' : CopyRight(x)'
      BY <1>1, <2>3 DEF CalmInv, CopyRight
    <3> QED BY <3>1, <3>2 DEF CalmInv, UsesAreCounted, TermsAreKept
  <2> QED BY <2>4, <2>5
<1> QED BY <1>3, <1>4

LEMMA CalmNext == RowInv /\ CalmInv /\ [CNext]_cvars => CalmInv'
<1> SUFFICES ASSUME RowInv, CalmInv, [CNext]_cvars PROVE CalmInv' OBVIOUS
<1>1. CASE \E o \in Orders : Redeem(o) BY <1>1, RedeemCalm
<1>2. CASE \E o \in Orders : RollbackRedemption(o) BY <1>2, RollbackCalm
<1>3. CASE \E terms \in Terms, limit \in Limits, perUser \in Limits, active \in BOOLEAN :
             Create(terms, limit, perUser, active)
  BY <1>3, CreateCalm
<1>4. CASE \E a \in Editors, removing \in BOOLEAN : Begin(a, removing) BY <1>4, BeginCalm
<1>5. CASE \E e \in edits : Update(e) BY <1>5, UpdateCalm
<1>6. CASE \E e \in edits : Remove(e) BY <1>6, RemoveCalm
<1>7. CASE UNCHANGED cvars
  BY <1>7 DEF cvars, CalmInv, UsesAreCounted, TermsAreKept, CopyRight
<1> QED BY <1>1, <1>2, <1>3, <1>4, <1>5, <1>6, <1>7 DEF CNext

LEMMA CalmAlways == CSpec => []CalmInv
BY RowInit, RowNext, CalmInit, CalmNext, PTL DEF CSpec

\* The number of uses is the number of redemptions, within the limit, unless an
\* edit saved a copy from before a redemption or a refund.
THEOREM UsesCounted == CSpec => []UsesAreCounted
<1>1. CalmInv => UsesAreCounted BY DEF CalmInv
<1> QED BY <1>1, CalmAlways, PTL

\* Every order that holds a redemption got the terms the coupon has, under the
\* same condition: whatever the terms are edited to between.
THEOREM TermsKept == CSpec => []TermsAreKept
<1>1. CalmInv => TermsAreKept BY DEF CalmInv
<1> QED BY <1>1, CalmAlways, PTL

-----------------------------------------------------------------------------
(* Division and rounding                                                     *)

LEMMA DivBounds ==
  ASSUME NEW a \in Int, NEW b \in Nat \ {0}
  PROVE  /\ a \div b \in Int
         /\ b * (a \div b) <= a
         /\ a < b * (a \div b) + b
OBVIOUS

LEMMA DivBounds100 ==
  ASSUME NEW a \in Int
  PROVE  /\ 100 * (a \div 100) <= a
         /\ a < 100 * (a \div 100) + 100
OBVIOUS

LEMMA ProductMonotone ==
  ASSUME NEW a \in Int, NEW b \in Int, NEW c \in Nat, a <= b
  PROVE  a * c <= b * c
OBVIOUS

LEMMA Cancels ==
  ASSUME NEW a \in Int, NEW b \in Int, NEW c \in Nat, c * a < c * b
  PROVE  a < b
OBVIOUS

LEMMA RoundedBounds ==
  ASSUME NEW a \in Nat, NEW b \in Nat \ {0}
  PROVE  /\ Rounded(a, b) \in Nat
         /\ Near(2 * (b * Rounded(a, b)), 2 * a, b)
<1> DEFINE r == (2 * a + b) \div (2 * b)
<1>1. /\ r \in Int
      /\ 2 * b * r <= 2 * a + b
      /\ 2 * a + b < 2 * b * r + 2 * b
  <2>1. 2 * a + b \in Int /\ 2 * b \in Nat \ {0} OBVIOUS
  <2> QED BY <2>1, DivBounds
<1>2. Near(2 * (b * r), 2 * a, b) BY <1>1 DEF Near
<1>3. r \in Nat
  BY <1>1
<1> QED BY <1>2, <1>3 DEF Rounded

-----------------------------------------------------------------------------
(* The price *)

LEMMA DealIs ==
  ASSUME NEW t \in Deals
  PROVE  /\ t.kind \in {"NONE", "FIXED", "PERCENT"}
         /\ t.n \in Nat
         /\ t.kind = "PERCENT" => t.n \in 0..100
<1>1. t \in [kind : {"NONE", "FIXED", "PERCENT"}, n : Nat] BY MoneyAssumption
<1>2. \A x \in Deals : x.kind = "PERCENT" => x.n <= 100 BY MoneyAssumption
<1> QED BY <1>1, <1>2

LEMMA RuleIs ==
  \A r \in Rules : r.bps \in Nat /\ r.bps <= 10000 /\ r.fixed \in Nat /\ r.cap \in Int
<1> TAKE r \in Rules
<1>1. r \in [bps : Nat, fixed : Nat, cap : Int] BY MoneyAssumption
<1>2. \A x \in Rules : x.bps <= 10000 BY MoneyAssumption
<1> QED BY <1>1, <1>2

LEMMA DiscountType ==
  ASSUME NEW t \in Deals, NEW s \in Nat
  PROVE  Discount(t, s) \in Nat
<1>1. s * t.n \in Nat BY DealIs
<1>2. (s * t.n) \div 100 \in Nat BY <1>1
<1> QED BY <1>2, DealIs DEF Discount

LEMMA ChargeableType ==
  ASSUME NEW t \in Deals, NEW s \in Nat
  PROVE  /\ ComputeDiscount(t, s) \in 0..s
         /\ Chargeable(t, s) = s - ComputeDiscount(t, s)
         /\ Chargeable(t, s) \in 0..s
BY DiscountType DEF ComputeDiscount, Chargeable, Least, NotNegative

\* A subtotal of one cent more raises a discount by one cent at most.
LEMMA DiscountGrows ==
  ASSUME NEW t \in Deals, NEW s \in Nat
  PROVE  Discount(t, s + 1) <= Discount(t, s) + 1
<1>1. CASE t.kind = "PERCENT"
  <2> DEFINE x == s * t.n
             y == (s + 1) * t.n
  <2>1. t.n \in 0..100 BY <1>1, DealIs
  <2>2. x \in Nat /\ y \in Nat /\ y = x + t.n BY <2>1
  <2> HIDE DEF x, y
  <2>3. y \div 100 <= x \div 100 + 1 BY <2>1, <2>2
  <2> QED BY <1>1, <2>3 DEF Discount, x, y
<1>2. CASE t.kind # "PERCENT"
  BY <1>2, DealIs DEF Discount
<1> QED BY <1>1, <1>2

LEMMA ChargeableGrows ==
  ASSUME NEW t \in Deals, NEW s \in Nat
  PROVE  Chargeable(t, s) <= Chargeable(t, s + 1)
<1>1. s + 1 \in Nat OBVIOUS
<1>2. Discount(t, s) \in Nat /\ Discount(t, s + 1) \in Nat BY <1>1, DiscountType
<1> QED BY <1>2, DiscountGrows DEF Chargeable, ComputeDiscount, Least, NotNegative

\* What a rate of x basis points takes of a.
Rate(a, x) == (a * x) \div 10000

LEMMA RateBounds ==
  \A x, a, b \in Nat : x <= 10000 /\ a <= b =>
    /\ Rate(a, x) \in Nat
    /\ Rate(b, x) \in Nat
    /\ Rate(b, x) - Rate(a, x) <= b - a
<1> SUFFICES ASSUME NEW x \in Nat, NEW a \in Nat, NEW b \in Nat, x <= 10000, a <= b
             PROVE  /\ Rate(a, x) \in Nat
                    /\ Rate(b, x) \in Nat
                    /\ Rate(b, x) - Rate(a, x) <= b - a
  OBVIOUS
<1> DEFINE u == a * x
           v == b * x
           d == b - a
<1>1. u \in Nat /\ v \in Nat /\ d \in Nat OBVIOUS
<1>2. v = u + d * x OBVIOUS
<1>3. d * x <= d * 10000
  <2> HIDE DEF d
  <2>1. x <= 10000 /\ x \in Nat OBVIOUS
  <2> QED BY <1>1, <2>1, ProductMonotone
<1>4. v <= u + 10000 * d BY <1>1, <1>2, <1>3
<1>5. /\ u \div 10000 \in Nat /\ v \div 10000 \in Nat
      /\ v \div 10000 - u \div 10000 <= d
  <2> HIDE DEF u, v, d
  <2> QED BY <1>1, <1>4
<1> QED BY <1>5 DEF Rate

LEMMA FeeType ==
  ASSUME NEW r \in Rules, NEW s \in Nat
  PROVE  PlatformFee(r, s) \in 0..s
<1>1. Rate(s, r.bps) \in Nat
  <2> DEFINE x == r.bps
  <2>1. x \in Nat /\ x <= 10000 /\ s <= s BY RuleIs
  <2>2. Rate(s, x) \in Nat
    <3> HIDE DEF x
    <3> QED BY <2>1, RateBounds
  <2> QED BY <2>2
<1>2. PlatformFee(r, s) =
        IF s <= 0 THEN 0
        ELSE LET total == r.fixed + Rate(s, r.bps) IN
             Least(s, IF r.cap >= 0 THEN Least(total, r.cap) ELSE total)
  BY DEF PlatformFee, Rate
<1> QED BY <1>1, <1>2, RuleIs DEF Least

\* Of a higher price the organizer keeps no less.
LEMMA NetGrows ==
  ASSUME NEW r \in Rules, NEW a \in Nat, NEW b \in Nat, a <= b
  PROVE  a - PlatformFee(r, a) <= b - PlatformFee(r, b)
<1> DEFINE u == Rate(a, r.bps)
           v == Rate(b, r.bps)
<1>1. u \in Nat /\ v \in Nat /\ v - u <= b - a
  <2> DEFINE x == r.bps
  <2>1. x \in Nat /\ x <= 10000 BY RuleIs
  <2>2. Rate(a, x) \in Nat /\ Rate(b, x) \in Nat /\ Rate(b, x) - Rate(a, x) <= b - a
    <3> HIDE DEF x
    <3> QED BY <2>1, RateBounds
  <2> QED BY <2>2
<1>2. PlatformFee(r, a) = IF a <= 0 THEN 0
        ELSE Least(a, IF r.cap >= 0 THEN Least(r.fixed + u, r.cap) ELSE r.fixed + u)
  BY DEF PlatformFee, Rate
<1>3. PlatformFee(r, b) = IF b <= 0 THEN 0
        ELSE Least(b, IF r.cap >= 0 THEN Least(r.fixed + v, r.cap) ELSE r.fixed + v)
  BY DEF PlatformFee, Rate
<1> HIDE DEF u, v
<1> QED BY <1>1, <1>2, <1>3, RuleIs DEF Least

-----------------------------------------------------------------------------
(* Reversal and transfer *)

\* What is rounded from at most n times b is at most n.
LEMMA RoundedAtMost ==
  ASSUME NEW a \in Nat, NEW b \in Nat \ {0}, NEW n \in Nat, a <= n * b
  PROVE  Rounded(a, b) <= n
<1> DEFINE r == Rounded(a, b)
<1>1. r \in Nat /\ Near(2 * (b * r), 2 * a, b) BY RoundedBounds
<1>2. SUFFICES ASSUME r >= n + 1 PROVE FALSE BY <1>1
<1>3. b * r >= b * (n + 1)
  <2> HIDE DEF r
  <2> QED BY <1>1, <1>2, ProductMonotone
<1>4. b * r >= n * b + b BY <1>1, <1>3
<1> HIDE DEF r
<1>5. n * b \in Nat /\ b * r \in Nat BY <1>1
<1> QED BY <1>1, <1>4, <1>5 DEF Near

LEMMA ReversalShares ==
  ASSUME NEW earned \in Nat, NEW paid \in Nat \ {0}, NEW r \in 0..paid, earned <= paid
  PROVE  LET kept == earned - Reversal(earned, paid, r) IN
         /\ Reversal(earned, paid, r) \in 0..earned
         /\ kept >= 0
         /\ paid - r - kept >= 0
         /\ Near(2 * kept * paid, 2 * earned * (paid - r), paid)
<1>1. CASE r >= paid
  <2>1. Reversal(earned, paid, r) = earned /\ paid - r = 0 BY <1>1 DEF Reversal
  <2> QED BY <2>1 DEF Near
<1>2. CASE r < paid
  <2> DEFINE v == Rounded(earned * r, paid)
             kept == earned - v
  <2>1. Reversal(earned, paid, r) = v BY <1>2 DEF Reversal
  <2>2. earned * r \in Nat /\ r \in Nat OBVIOUS
  <2>3. earned * r <= earned * paid BY <1>2, <2>2, ProductMonotone
  <2>4. v \in Nat /\ Near(2 * (paid * v), 2 * (earned * r), paid)
    BY <2>2, RoundedBounds
  <2>5. v <= earned BY <2>2, <2>3, RoundedAtMost
  <2> HIDE DEF v
  <2>6. /\ paid * v \in Nat /\ kept * paid = earned * paid - paid * v
        /\ earned * (paid - r) = earned * paid - earned * r
    BY <2>2, <2>4
  <2>7. kept \in Nat BY <2>4, <2>5
  <2>8. /\ 2 * (kept * paid) - 2 * (earned * (paid - r)) = 2 * (earned * r) - 2 * (paid * v)
    BY <2>2, <2>6
  <2> DEFINE x == kept * paid
             y == earned * (paid - r)
  <2>9. x \in Int /\ y \in Int BY <2>7
  <2>10. Near(2 * x, 2 * y, paid) BY <2>2, <2>4, <2>6, <2>8, <2>9 DEF Near
  <2>11. y <= (paid - r) * paid
    <3>1. paid - r \in Nat BY <1>2
    <3> QED BY <3>1, ProductMonotone
  <2>12. kept <= paid - r
    <3> DEFINE k == paid - r
    <3>1. SUFFICES ASSUME kept >= k + 1 PROVE FALSE BY <2>7
    <3>2. k \in Nat /\ kept \in Nat BY <2>7
    <3> HIDE DEF k, kept
    <3>3. kept * paid >= (k + 1) * paid BY <3>1, <3>2, ProductMonotone
    <3>4. kept * paid >= k * paid + paid BY <3>2, <3>3
    <3>5. kept * paid \in Nat /\ k * paid \in Nat BY <3>2
    <3>6. y <= k * paid BY <2>11 DEF k
    <3> HIDE DEF y
    <3> QED BY <2>9, <2>10, <3>4, <3>5, <3>6 DEF Near
  <2>13. Near(2 * kept * paid, 2 * earned * (paid - r), paid)
    <3>1. 2 * kept * paid = 2 * x /\ 2 * earned * (paid - r) = 2 * y BY <2>7
    <3> QED BY <2>10, <3>1
  <2> QED BY <2>1, <2>4, <2>5, <2>7, <2>12, <2>13
<1> QED BY <1>1, <1>2

-----------------------------------------------------------------------------
(* Sums                                                                      *)

LEMMA LeastNumber ==
  ASSUME NEW T \in SUBSET Nat, T # {}
  PROVE  \E x \in T : \A y \in T : x <= y
<1>1. \E x \in T : \A y \in T : ~(<<y, x>> \in OpToRel(<, Nat))
  BY NatLessThanWellFounded, WFMin
<1>2. PICK x \in T : \A y \in T : ~(<<y, x>> \in OpToRel(<, Nat)) BY <1>1
<1>3. ASSUME NEW y \in T, ~(x <= y) PROVE FALSE
  <2>1. x \in Nat /\ y \in Nat /\ y < x BY <1>3
  <2>2. <<y, x>> \in OpToRel(<, Nat) BY <2>1 DEF OpToRel
  <2> QED BY <1>2, <2>2
<1> QED BY <1>2, <1>3

\* f holds the sums of the first 0 to m amounts.
Sums(f, a, m) ==
  /\ DOMAIN f = 0..m
  /\ f = [i \in 0..m |-> IF i = 0 THEN 0 ELSE f[i - 1] + a[i]]

LEMMA SumsValues ==
  ASSUME NEW a \in Seq(Int), NEW m \in Nat, NEW f, Sums(f, a, m)
  PROVE  /\ f[0] = 0
         /\ \A i \in 1..m : f[i] = f[i - 1] + a[i]
<1>1. f = [i \in 0..m |-> IF i = 0 THEN 0 ELSE f[i - 1] + a[i]] BY DEF Sums
<1>2. \A i \in 0..m : f[i] = IF i = 0 THEN 0 ELSE f[i - 1] + a[i] BY <1>1
<1>3. 0 \in 0..m OBVIOUS
<1>4. f[0] = 0 BY <1>2, <1>3
<1>5. \A i \in 1..m : i \in 0..m /\ i # 0 OBVIOUS
<1> QED BY <1>2, <1>4, <1>5

LEMMA SumsExist ==
  ASSUME NEW a \in Seq(Int)
  PROVE  \E f : Sums(f, a, Len(a))
<1> DEFINE T == {m \in Nat : ~\E f : Sums(f, a, m)}
<1>1. Len(a) \in Nat OBVIOUS
<1>2. SUFFICES ASSUME T # {} PROVE FALSE BY <1>1
<1>3. T \in SUBSET Nat OBVIOUS
<1>4. PICK x \in T : \A y \in T : x <= y BY <1>2, <1>3, LeastNumber
<1>5. x # 0
  <2> DEFINE f == [i \in 0..0 |-> IF i = 0 THEN 0 ELSE 0]
  <2>1. \A g : g = [i \in 0..0 |-> IF i = 0 THEN 0 ELSE g[i - 1] + a[i]]
                 <=> g = [i \in 0..0 |-> 0]
    <3>1. ASSUME NEW g
          PROVE [i \in 0..0 |-> IF i = 0 THEN 0 ELSE g[i - 1] + a[i]] = [i \in 0..0 |-> 0]
      <4>1. \A i \in 0..0 : (IF i = 0 THEN 0 ELSE g[i - 1] + a[i]) = 0 OBVIOUS
      <4> QED BY <4>1
    <3> QED BY <3>1
  <2>2. Sums([i \in 0..0 |-> 0], a, 0) BY <2>1 DEF Sums
  <2> QED BY <2>2
<1>6. x \in Nat /\ x - 1 \in Nat /\ ~(x <= x - 1) BY <1>5
<1>7. x - 1 \notin T BY <1>4, <1>6
<1>8. PICK f : Sums(f, a, x - 1) BY <1>6, <1>7
<1> DEFINE g == [i \in 0..x |-> IF i = x THEN f[x - 1] + a[x] ELSE f[i]]
<1>9. \A i \in 0..x : g[i] = IF i = 0 THEN 0 ELSE g[i - 1] + a[i]
  <2> TAKE i \in 0..x
  <2>1. CASE i = x
    <3>1. x - 1 \in 0..x /\ x - 1 # x BY <1>6
    <3>2. g[x - 1] = f[x - 1] BY <3>1
    <3> QED BY <1>5, <2>1, <3>2
  <2>2. CASE i # x /\ i = 0
    BY <1>6, <1>8, <2>2, SumsValues
  <2>3. CASE i # x /\ i # 0
    <3>1. i \in 1..(x - 1) /\ i - 1 \in 0..x /\ i - 1 # x BY <1>6, <2>3
    <3>2. f[i] = f[i - 1] + a[i] BY <1>6, <1>8, <3>1, SumsValues
    <3> QED BY <2>3, <3>1, <3>2
  <2> QED BY <2>1, <2>2, <2>3
<1>10. g = [i \in 0..x |-> IF i = 0 THEN 0 ELSE g[i - 1] + a[i]]
  BY <1>9
<1>11. Sums(g, a, x) BY <1>10 DEF Sums
<1> QED BY <1>4, <1>11

LEMMA SumUnfolds ==
  ASSUME NEW a \in Seq(Int)
  PROVE  /\ SumTo(a, 0) = 0
         /\ \A i \in 1..Len(a) : SumTo(a, i) = SumTo(a, i - 1) + a[i]
<1> DEFINE h == CHOOSE f : f = [i \in 0..Len(a) |-> IF i = 0 THEN 0 ELSE f[i - 1] + a[i]]
<1>1. \E f : f = [i \in 0..Len(a) |-> IF i = 0 THEN 0 ELSE f[i - 1] + a[i]]
  BY SumsExist DEF Sums
<1>2. h = [i \in 0..Len(a) |-> IF i = 0 THEN 0 ELSE h[i - 1] + a[i]] BY <1>1
<1>3. \A n : SumTo(a, n) = h[n] BY DEF SumTo
<1> HIDE DEF h
<1>4. DOMAIN h = 0..Len(a) BY <1>2
<1>5. Sums(h, a, Len(a)) BY <1>2, <1>4 DEF Sums
<1>6. Len(a) \in Nat OBVIOUS
<1> QED BY <1>3, <1>5, <1>6, SumsValues

\* The sum is a number, and equal amounts have equal sums.
LEMMA SumIsInt ==
  ASSUME NEW a \in Seq(Int)
  PROVE  \A i \in 0..Len(a) : SumTo(a, i) \in Int
<1> DEFINE T == {i \in 0..Len(a) : SumTo(a, i) \notin Int}
<1>1. SUFFICES ASSUME T # {} PROVE FALSE OBVIOUS
<1>2. Len(a) \in Nat /\ T \in SUBSET Nat OBVIOUS
<1>3. PICK x \in T : \A y \in T : x <= y BY <1>1, <1>2, LeastNumber
<1>4. x # 0 BY <1>3, SumUnfolds
<1>5. x \in 1..Len(a) /\ x - 1 \in 0..Len(a) /\ ~(x <= x - 1) BY <1>2, <1>3, <1>4
<1>6. SumTo(a, x - 1) \in Int BY <1>3, <1>5
<1>7. SumTo(a, x) = SumTo(a, x - 1) + a[x] BY <1>5, SumUnfolds
<1>8. a[x] \in Int BY <1>5
<1> QED BY <1>3, <1>6, <1>7, <1>8

LEMMA SumsAgree ==
  ASSUME NEW a \in Seq(Int), NEW b \in Seq(Int), NEW n \in Nat,
         n <= Len(a), n <= Len(b), \A i \in 1..n : a[i] = b[i]
  PROVE  SumTo(a, n) = SumTo(b, n)
<1> DEFINE T == {i \in 0..n : SumTo(a, i) # SumTo(b, i)}
<1>1. SUFFICES ASSUME T # {} PROVE FALSE OBVIOUS
<1>2. Len(a) \in Nat /\ Len(b) \in Nat /\ T \in SUBSET Nat OBVIOUS
<1>3. PICK x \in T : \A y \in T : x <= y BY <1>1, <1>2, LeastNumber
<1>4. x # 0
  <2>1. SumTo(a, 0) = SumTo(b, 0) BY SumUnfolds
  <2> QED BY <1>3, <2>1
<1>5. /\ x \in 1..n /\ x \in 1..Len(a) /\ x \in 1..Len(b)
      /\ x - 1 \in 0..n /\ ~(x <= x - 1)
  BY <1>2, <1>3, <1>4
<1>6. SumTo(a, x - 1) = SumTo(b, x - 1) BY <1>3, <1>5
<1>7. /\ SumTo(a, x) = SumTo(a, x - 1) + a[x]
      /\ SumTo(b, x) = SumTo(b, x - 1) + b[x]
  BY <1>5, SumUnfolds
<1> QED BY <1>3, <1>5, <1>6, <1>7

-----------------------------------------------------------------------------
(* Instalments *)

LEMMA WholeIs == Whole \in Nat \ {0} /\ Fine \in Nat /\ 0..Whole \subseteq Int
BY MoneyAssumption DEF Whole

\* The first k instalments are the first k percentages but for half a cent each.
LEMMA RoundedSum ==
  ASSUME NEW total \in Nat, NEW pct \in Seq(0..Whole), NEW a \in Seq(Int),
         Len(a) = Len(pct),
         \A i \in 1..Len(pct) : a[i] = Rounded(total * pct[i], Whole)
  PROVE  \A k \in 0..Len(pct) :
           Near(2 * (Whole * SumTo(a, k)), 2 * (total * SumTo(pct, k)), Whole * k)
<1> DEFINE P(k) == Near(2 * (Whole * SumTo(a, k)), 2 * (total * SumTo(pct, k)), Whole * k)
           T == {k \in 0..Len(pct) : ~P(k)}
<1>1. SUFFICES ASSUME T # {} PROVE FALSE OBVIOUS
<1>2. Len(pct) \in Nat /\ T \in SUBSET Nat /\ pct \in Seq(Int)
  <2>1. Len(pct) \in Nat /\ 0..Whole \subseteq Int BY WholeIs
  <2>2. pct \in Seq(Int) BY <2>1, SeqMonotonic
  <2>3. T \in SUBSET Nat BY <2>1
  <2> QED BY <2>1, <2>2, <2>3
<1>3. PICK x \in T : \A y \in T : x <= y BY <1>1, <1>2, LeastNumber
<1>4. x # 0
  <2>1. SumTo(a, 0) = 0 /\ SumTo(pct, 0) = 0 BY <1>2, SumUnfolds
  <2>2. P(0) BY <2>1, WholeIs DEF Near
  <2> QED BY <1>3, <2>2
<1>5. x \in 1..Len(pct) /\ x - 1 \in 0..Len(pct) /\ ~(x <= x - 1) BY <1>2, <1>3, <1>4
<1> DEFINE u == SumTo(a, x - 1)
           v == SumTo(pct, x - 1)
           r == a[x]
           p == pct[x]
<1>6. P(x - 1) BY <1>3, <1>5
<1>7. u \in Int /\ v \in Int BY <1>2, <1>5, SumIsInt
<1>8. SumTo(a, x) = u + r /\ SumTo(pct, x) = v + p BY <1>2, <1>5, SumUnfolds
<1>9. p \in 0..Whole BY <1>5, ElementOfSeq
<1>10. p \in Nat /\ total * p \in Nat
  <2> HIDE DEF p
  <2>1. p \in Nat BY <1>9, WholeIs
  <2> QED BY <2>1
<1>11. r = Rounded(total * p, Whole) BY <1>5
<1>12. r \in Nat /\ Near(2 * (Whole * r), 2 * (total * p), Whole)
  <2> HIDE DEF p, r
  <2> QED BY <1>10, <1>11, RoundedBounds, WholeIs
<1>13. Near(2 * (Whole * u), 2 * (total * v), Whole * (x - 1)) BY <1>6
<1>14. P(x)
  <2> HIDE DEF u, v, r, p
  <2> DEFINE tv == total * v
             tp == total * p
             wu == Whole * u
             wr == Whole * r
             wx == Whole * (x - 1)
  <2>1. total * (v + p) = tv + tp BY <1>7, <1>10
  <2>2. Whole * (u + r) = wu + wr BY <1>7, <1>12, WholeIs
  <2>3. Whole * x = wx + Whole BY <1>5, WholeIs
  <2>4. tv \in Int /\ tp \in Int /\ wu \in Int /\ wr \in Int /\ wx \in Int /\ Whole \in Int
    BY <1>5, <1>7, <1>10, <1>12, WholeIs
  <2>5. Near(2 * wr, 2 * tp, Whole) /\ Near(2 * wu, 2 * tv, wx) BY <1>12, <1>13
  <2>6. Near(2 * (wu + wr), 2 * (tv + tp), wx + Whole)
    <3> HIDE DEF tv, tp, wu, wr, wx
    <3> QED BY <2>4, <2>5 DEF Near
  <2> QED BY <1>8, <2>1, <2>2, <2>3, <2>6
<1> QED BY <1>3, <1>14

LEMMA SplitIs ==
  ASSUME NEW pct \in Splits
  PROVE  /\ pct \in Seq(0..Whole) /\ Len(pct) >= 2
         /\ Near(SumTo(pct, Len(pct)), Whole, Fine)
BY MoneyAssumption

\* What the percentages miss of the whole is as much of the price at most.
LEMMA MissedShare ==
  ASSUME NEW total \in Nat, NEW s \in Int, Near(s, Whole, Fine)
  PROVE  Near(2 * (total * s), 2 * (Whole * total), 2 * Fine * total)
<1> DEFINE d == s - Whole
<1>1. d \in Int /\ d <= Fine /\ -d <= Fine /\ Whole \in Int /\ Fine \in Int
  BY WholeIs DEF Near
<1>2. total * s = total * d + Whole * total BY <1>1
<1>3. total * d <= Fine * total
  <2>1. Fine - d \in Nat BY <1>1
  <2>2. total * (Fine - d) >= 0 BY <2>1, ProductMonotone
  <2> HIDE DEF d
  <2>3. total * (Fine - d) = Fine * total - total * d BY <1>1
  <2>4. total * d \in Int /\ Fine * total \in Int BY <1>1
  <2> QED BY <2>2, <2>3, <2>4
<1>4. -(total * d) <= Fine * total
  <2>1. Fine + d \in Nat BY <1>1
  <2>2. total * (Fine + d) >= 0 BY <2>1, ProductMonotone
  <2> HIDE DEF d
  <2>3. total * (Fine + d) = Fine * total + total * d BY <1>1
  <2>4. total * d \in Int /\ Fine * total \in Int BY <1>1
  <2> QED BY <2>2, <2>3, <2>4
<1> DEFINE td == total * d
           wt == Whole * total
           ft == Fine * total
<1>5. td \in Int /\ wt \in Int /\ ft \in Int /\ 2 * Fine * total = 2 * ft BY <1>1
<1> HIDE DEF d, td, wt, ft
<1>6. Near(2 * (td + wt), 2 * wt, 2 * ft) BY <1>3, <1>4, <1>5 DEF Near, td, wt, ft
<1> QED BY <1>2, <1>5, <1>6 DEF td, wt

LEMMA InstalmentsAdd ==
  ASSUME NEW total \in Nat, NEW pct \in Splits
  PROVE  LET amounts == Instalments(total, pct)
             n == Len(pct)
         IN  /\ SumTo(amounts, n) = total
             /\ \A i \in 1..(n - 1) : Near(2 * Whole * amounts[i], 2 * total * pct[i], Whole)
             /\ Near(2 * Whole * amounts[n], 2 * total * pct[n],
                     Whole * (n - 1) + 2 * Fine * total)
<1> DEFINE n == Len(pct)
           rounded == [i \in 1..n |-> Rounded(total * pct[i], Whole)]
           last == total - SumTo(rounded, n - 1)
           amounts == [rounded EXCEPT ![n] = last]
<1>1. pct \in Seq(0..Whole) /\ n \in Nat /\ n >= 2 BY SplitIs
<1>2. Instalments(total, pct) = amounts BY DEF Instalments
<1>3. pct \in Seq(Int)
  <2> QED BY <1>1, WholeIs, SeqMonotonic
<1>4. \A i \in 1..n : Rounded(total * pct[i], Whole) \in Nat
      /\ Near(2 * (Whole * Rounded(total * pct[i], Whole)), 2 * (total * pct[i]), Whole)
  <2> TAKE i \in 1..n
  <2> DEFINE p == pct[i]
  <2>1. p \in 0..Whole BY <1>1, ElementOfSeq
  <2> DEFINE q == total * p
  <2>2. q \in Nat
    <3> HIDE DEF p
    <3>1. p \in Nat BY <2>1, WholeIs
    <3> QED BY <3>1
  <2>3. Rounded(q, Whole) \in Nat /\ Near(2 * (Whole * Rounded(q, Whole)), 2 * q, Whole)
    <3> HIDE DEF q
    <3> QED BY <2>2, RoundedBounds, WholeIs
  <2> QED BY <2>3
<1>5. rounded \in Seq(Int) /\ Len(rounded) = n
  <2>1. rounded \in [1..n -> Int] BY <1>4
  <2> HIDE DEF rounded
  <2> QED BY <1>1, <2>1
<1>6. \A i \in 1..n : rounded[i] = Rounded(total * pct[i], Whole) OBVIOUS
<1>7. last \in Int
  <2>1. n - 1 \in 0..n BY <1>1
  <2>2. SumTo(rounded, n - 1) \in Int
    <3> HIDE DEF rounded
    <3> QED BY <1>5, <2>1, SumIsInt
  <2> QED BY <2>2
<1> HIDE DEF rounded, last, n
<1>8. /\ amounts \in Seq(Int) /\ Len(amounts) = n
      /\ \A i \in 1..n : amounts[i] = IF i = n THEN last ELSE rounded[i]
  <2>1. n \in 1..Len(rounded) BY <1>1, <1>5
  <2> QED BY <1>5, <1>7, <2>1, ExceptSeq
<1> HIDE DEF amounts
<1>9. SumTo(amounts, n - 1) = SumTo(rounded, n - 1)
  <2>1. n - 1 \in Nat /\ n - 1 <= n BY <1>1
  <2>2. \A i \in 1..(n - 1) : amounts[i] = rounded[i] BY <1>1, <1>8
  <2> QED BY <1>5, <1>8, <2>1, <2>2, SumsAgree
<1>10. n - 1 \in 0..n /\ n \in 1..n BY <1>1
<1>11. SumTo(rounded, n - 1) \in Int BY <1>5, <1>10, SumIsInt
<1>12. last = total - SumTo(rounded, n - 1) BY DEF last
<1>13. SumTo(amounts, n) = total
  <2>1. SumTo(amounts, n) = SumTo(amounts, n - 1) + amounts[n] BY <1>8, <1>10, SumUnfolds
  <2> QED BY <1>7, <1>8, <1>9, <1>10, <1>11, <1>12, <2>1
<1>14. \A i \in 1..(n - 1) : Near(2 * Whole * amounts[i], 2 * total * pct[i], Whole)
  <2> TAKE i \in 1..(n - 1)
  <2>1. i \in 1..n /\ i # n BY <1>1
  <2>2. amounts[i] = Rounded(total * pct[i], Whole) BY <1>6, <1>8, <2>1
  <2> DEFINE p == pct[i]
             r == Rounded(total * p, Whole)
  <2>3. r \in Nat /\ Near(2 * (Whole * r), 2 * (total * p), Whole) BY <1>4, <2>1
  <2>4. p \in Int BY <1>3, <2>1 DEF n
  <2> HIDE DEF p, r
  <2>5. 2 * Whole * r = 2 * (Whole * r) /\ 2 * total * p = 2 * (total * p)
    BY <2>3, <2>4, WholeIs
  <2> QED BY <2>2, <2>3, <2>5 DEF p, r
<1>15. Near(2 * Whole * amounts[n], 2 * total * pct[n], Whole * (n - 1) + 2 * Fine * total)
  <2> DEFINE u == SumTo(rounded, n - 1)
             v == SumTo(pct, n - 1)
             p == pct[n]
             wu == Whole * u
             tv == total * v
             tp == total * p
             wt == Whole * total
             wn == Whole * (n - 1)
             ft == 2 * Fine * total
  <2>1. Near(2 * wu, 2 * tv, wn) BY <1>1, <1>5, <1>6, <1>10, RoundedSum DEF n
  <2>2. u \in Int /\ v \in Int /\ p \in Int BY <1>3, <1>10, <1>11, SumIsInt DEF n
  <2>3. SumTo(pct, n) = v + p BY <1>1, <1>3, <1>10, SumUnfolds DEF n
  <2>4. Near(v + p, Whole, Fine) BY <2>3, SplitIs DEF n
  <2>5. last = total - u BY <1>12
  <2> HIDE DEF u, v, p
  <2>6. Near(2 * (total * (v + p)), 2 * wt, ft) BY <2>2, <2>4, MissedShare
  <2>7. total * (v + p) = tv + tp BY <2>2
  <2>8. 2 * Whole * last = 2 * wt - 2 * wu /\ 2 * total * p = 2 * tp
    BY <2>2, <2>5, WholeIs
  <2>9. wu \in Int /\ tv \in Int /\ tp \in Int /\ wt \in Int /\ wn \in Int /\ ft \in Int
    BY <1>1, <2>2, WholeIs
  <2>10. Near(2 * wt - 2 * wu, 2 * tp, wn + ft)
    <3> HIDE DEF wu, tv, tp, wt, wn, ft
    <3> QED BY <2>1, <2>6, <2>7, <2>9 DEF Near
  <2>11. amounts[n] = last BY <1>8, <1>10
  <2> QED BY <2>8, <2>10, <2>11 DEF p
<1> QED BY <1>2, <1>13, <1>14, <1>15 DEF n

-----------------------------------------------------------------------------
(* The order *)

Earned == {"paid", "refunded", "settled"}

\* What the stages have in common: every amount is the one its function gave.
Accounts ==
  /\ stage \in {"quote", "ordered", "planned"} \cup Earned
  /\ subtotal \in Subtotals /\ deal \in Deals /\ rule \in Rules
  /\ amount \in Nat /\ fee \in 0..amount
  /\ stage # "quote" =>
       amount = Chargeable(deal, subtotal) /\ fee = PlatformFee(rule, amount)
  /\ net = IF stage \in Earned THEN amount - fee ELSE 0
  /\ reversed \in Int
  /\ stage \notin {"refunded", "settled"} => reversed = 0
  /\ stage = "refunded" =>
       back \in 1..amount /\ reversed = Reversal(net, amount, back)
  /\ stage = "settled" =>
       net - reversed \in Nat /\ sent = WholeShillings(net - reversed)

Planned ==
  /\ stage \in {"quote", "ordered"} => split = <<>>
  /\ split # <<>> => split \in Splits /\ plan = Instalments(amount, split)

LEMMA AccountsInit == MInit => Accounts /\ Planned
BY DEF MInit, Accounts, Planned, Earned

LEMMA AccountsNext == Accounts /\ Planned /\ [MNext]_mvars => Accounts' /\ Planned'
<1> SUFFICES ASSUME Accounts, Planned, [MNext]_mvars PROVE Accounts' /\ Planned' OBVIOUS
<1> USE DEF given, priced
<1>1. subtotal \in Nat BY MoneyAssumption DEF Accounts
<1>2. CASE Order
  <2>1. amount' = Chargeable(deal, subtotal) /\ fee' = PlatformFee(rule, amount')
    BY <1>2 DEF Order
  <2>2. amount' \in Nat BY <1>1, <2>1, ChargeableType DEF Accounts
  <2>3. fee' \in 0..amount' BY <2>1, <2>2, FeeType DEF Accounts
  <2> QED BY <1>2, <2>1, <2>2, <2>3 DEF Order, Accounts, Planned, Earned
<1>3. CASE CreatePaymentPlan
  BY <1>3 DEF CreatePaymentPlan, Accounts, Planned, Earned
<1>4. CASE EnsureOrderEarnings
  <2>1. net' = amount - fee
    BY <1>4 DEF EnsureOrderEarnings, OrganizerNet, NotNegative, Accounts
  <2> QED BY <1>4, <2>1 DEF EnsureOrderEarnings, Accounts, Planned, Earned
<1>5. CASE RefundPaidOrder
  <2>1. net \in 0..amount BY <1>5 DEF RefundPaidOrder, Accounts, Earned
  <2>2. back' \in 1..amount
    <3>1. (amount * 75) \div 100 \in 0..amount BY DEF Accounts
    <3> QED BY <1>5, <3>1 DEF RefundPaidOrder, Refunds, Accounts
  <2>3. reversed' = Reversal(net, amount, back') BY <1>5 DEF RefundPaidOrder
  <2>4. reversed' \in Int
    <3>1. amount \in Nat \ {0} /\ back' \in 0..amount BY <2>2 DEF Accounts
    <3>2. Reversal(net, amount, back') \in 0..net
      BY <2>1, <3>1, ReversalShares
    <3> QED BY <2>1, <2>3, <3>2
  <2> QED BY <1>5, <2>2, <2>3, <2>4 DEF RefundPaidOrder, Accounts, Planned, Earned
<1>6. CASE InitiateB2cPayment
  <2>1. net - reversed \in Nat BY <1>6 DEF InitiateB2cPayment, Accounts, Earned
  <2> QED BY <1>6, <2>1 DEF InitiateB2cPayment, Accounts, Planned, Earned
<1>7. CASE UNCHANGED mvars
  BY <1>7 DEF mvars, Accounts, Planned, Earned
<1> QED BY <1>2, <1>3, <1>4, <1>5, <1>6, <1>7 DEF MNext

LEMMA AccountsAlways == MSpec => [](Accounts /\ Planned)
<1> QED BY AccountsInit, AccountsNext, PTL DEF MSpec

\* Who orders one cent more does not pay less, whatever coupon and fee round,
\* and the organizer earns no less of it.
THEOREM MoreNotLess == MSpec => []MoreIsNotLess
<1>1. Accounts => MoreIsNotLess
  <2> SUFFICES ASSUME Accounts, stage # "quote" PROVE MoreIsNotLess
    BY DEF MoreIsNotLess
  <2> DEFINE more == Chargeable(deal, subtotal + 1)
  <2>1. subtotal \in Nat /\ subtotal + 1 \in Nat BY MoneyAssumption DEF Accounts
  <2>2. amount \in Nat /\ amount = Chargeable(deal, subtotal) /\ fee = PlatformFee(rule, amount)
    BY DEF Accounts
  <2>3. deal \in Deals /\ rule \in Rules BY DEF Accounts
  <2>4. more \in Nat BY <2>1, <2>3, ChargeableType
  <2>5. amount <= more BY <2>1, <2>2, <2>3, ChargeableGrows
  <2> HIDE DEF more
  <2>6. amount - fee <= more - PlatformFee(rule, more)
    BY <2>2, <2>3, <2>4, <2>5, NetGrows
  <2>7. OrganizerNet(more, PlatformFee(rule, more)) = more - PlatformFee(rule, more)
    BY <2>3, <2>4, FeeType DEF OrganizerNet, NotNegative
  <2> QED BY <2>5, <2>6, <2>7 DEF MoreIsNotLess, more
<1> QED BY <1>1, AccountsAlways, PTL

\* A refund of any amount leaves organizer and platform no less than nothing,
\* and the organizer its share of what is retained but for half a cent.
THEOREM RefundShared == MSpec => []RefundIsShared
<1>1. Accounts => RefundIsShared
  <2> SUFFICES ASSUME Accounts, stage = "refunded" PROVE RefundIsShared
    BY DEF RefundIsShared
  <2>1. /\ net \in Nat /\ net <= amount /\ amount \in Nat \ {0} /\ back \in 0..amount
        /\ reversed = Reversal(net, amount, back)
    BY DEF Accounts, Earned
  <2>2. LET kept == net - reversed IN
        /\ kept >= 0
        /\ amount - back - kept >= 0
        /\ Near(2 * kept * amount, 2 * net * (amount - back), amount)
    BY <2>1, ReversalShares
  <2> QED BY <2>2 DEF RefundIsShared
<1> QED BY <1>1, AccountsAlways, PTL

\* The instalments of every plan add up to the price, and each is its share of
\* it but for half a cent for every instalment that was rounded.
THEOREM InstalmentsPrice == MSpec => []InstalmentsArePrice
<1>1. Accounts /\ Planned => InstalmentsArePrice
  <2> SUFFICES ASSUME Accounts, Planned, Len(split) > 0 PROVE InstalmentsArePrice
    BY DEF InstalmentsArePrice
  <2>1. split # <<>> BY EmptySeq
  <2>2. split \in Splits /\ plan = Instalments(amount, split) /\ amount \in Nat
    BY <2>1 DEF Accounts, Planned
  <2> QED BY <2>2, InstalmentsAdd DEF InstalmentsArePrice
<1> QED BY <1>1, AccountsAlways, PTL

\* A transfer in whole shillings differs from the balance by half a shilling.
THEOREM TransferNear == MSpec => []TransferIsNear
<1>1. Accounts => TransferIsNear
  <2> SUFFICES ASSUME Accounts, stage = "settled" PROVE TransferIsNear
    BY DEF TransferIsNear
  <2> DEFINE x == net - reversed
             r == Rounded(x, 100)
  <2>1. x \in Nat /\ sent = r BY DEF Accounts, WholeShillings
  <2>2. r \in Nat /\ Near(2 * (100 * r), 2 * x, 100)
    <3> HIDE DEF x
    <3> QED BY <2>1, RoundedBounds
  <2>3. Near(100 * r, x, 50)
    <3> HIDE DEF x, r
    <3> QED BY <2>1, <2>2 DEF Near
  <2> QED BY <2>1, <2>3 DEF TransferIsNear
<1> QED BY <1>1, AccountsAlways, PTL
=============================================================================

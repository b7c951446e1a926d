---------------------------- MODULE EventsProofs ----------------------------
(***************************************************************************)
(* Proofs about Events: the types, that what is approved or on sale was    *)
(* approved, that a status leaves its cycle only by an overtaken call, and  *)
(* when the count of a tier can be trusted.                                *)
(***************************************************************************)
EXTENDS Events, TLAPS

USE DEF seats

LEMMA BeginTypes ==
  ASSUME ETypeOK, NEW c \in Callers, NEW op \in {"save", "approve", "remove"},
         NEW e \in EventIds, NEW new \in EventRow, BeginEdit(c, op, e, new)
  PROVE  ETypeOK'
<1> DEFINE x == [by |-> c, op |-> op, id |-> e, copy |-> event[e], new |-> new,
                 phase |-> "read", cols |-> {}]
<1>1. event[e] \in EventRow BY DEF ETypeOK
<1>2. x \in EventEdit BY <1>1 DEF EventEdit, Phases
<1>3. edits' = edits \cup {x} BY DEF BeginEdit
<1>4. edits' \subseteq EventEdit
  <2> HIDE DEF x
  <2> QED BY <1>2, <1>3 DEF ETypeOK
<1>5. begun' \in Nat BY DEF BeginEdit, ETypeOK
<1> QED BY <1>4, <1>5 DEF BeginEdit, ETypeOK, counters

LEMMA BeginTierTypes ==
  ASSUME ETypeOK, NEW c \in Callers \cup Buyers,
         NEW op \in {"save", "remove", "resync", "plan"},
         NEW e \in EventIds, NEW new \in TierRow, NEW ph \in Phases \cup {"sum"},
         BeginTierEdit(c, op, e, new, ph)
  PROVE  ETypeOK'
<1> DEFINE x == [by |-> c, op |-> op, id |-> e, copy |-> tier[e], new |-> new,
                 phase |-> ph, cols |-> {}]
<1>1. tier[e] \in TierRow BY DEF ETypeOK
<1>2. x \in TierEdit BY <1>1 DEF TierEdit
<1>3. tierEdits' = tierEdits \cup {x} BY DEF BeginTierEdit
<1>4. tierEdits' \subseteq TierEdit
  <2> HIDE DEF x
  <2> QED BY <1>2, <1>3 DEF ETypeOK
<1>5. begun' \in Nat /\ healing' \subseteq EventIds BY DEF BeginTierEdit, ETypeOK
<1> QED BY <1>4, <1>5 DEF BeginTierEdit, ETypeOK

\* Every call of EventsService on an event that exists begins with a typed entity.
LEMMA EventCallTypes ==
  ASSUME ETypeOK, NEW c \in Callers, NEW e \in EventIds, EventCall(c, e)
  PROVE  ETypeOK'
<1>0. event[e] \in EventRow /\ tier[e] \in TierRow BY DEF ETypeOK
<1>1. \A s \in EventStatus \cup {"NONE"} : WithStatus(e, s) \in EventRow
  BY <1>0 DEF WithStatus, EventRow
<1>2. ASSUME NEW x \in Contents, Create(c, e, x) PROVE ETypeOK'
  <2>1. [status |-> "DRAFT", content |-> x, banner |-> FALSE] \in EventRow
    BY DEF EventRow, EventStatus
  <2>2. event' \in [EventIds -> EventRow] BY <1>2, <2>1 DEF Create, ETypeOK
  <2> QED BY <1>2, <2>2 DEF Create, ETypeOK, calls, counters
<1>3. ASSUME NEW x \in Contents, Update(c, e, x) PROVE ETypeOK'
  <2>1. [event[e] EXCEPT !.content = x] \in EventRow BY <1>0 DEF EventRow
  <2> QED BY <1>3, <2>1, BeginTypes DEF Update
<1>4. CASE SubmitForReview(c, e)
  BY <1>4, <1>1, BeginTypes DEF SubmitForReview, EventStatus
<1>5. CASE Approve(c, e) BY <1>5, <1>1, BeginTypes DEF Approve, EventStatus
<1>6. CASE Reject(c, e) BY <1>6, <1>1, BeginTypes DEF Reject, EventStatus
<1>7. CASE Publish(c, e) BY <1>7, <1>1, BeginTypes DEF Publish, EventStatus
<1>8. CASE Unpublish(c, e) BY <1>8, <1>1, BeginTypes DEF Unpublish, EventStatus
<1>9. CASE CommitBanner(c, e)
  <2>1. [event[e] EXCEPT !.banner = TRUE] \in EventRow BY <1>0 DEF EventRow
  <2> QED BY <1>9, <2>1, BeginTypes DEF CommitBanner
<1>10. CASE RemoveBanner(c, e)
  <2>1. [event[e] EXCEPT !.banner = FALSE] \in EventRow BY <1>0 DEF EventRow
  <2> QED BY <1>10, <2>1, BeginTypes DEF RemoveBanner
<1>11. CASE Remove(c, e) BY <1>11, <1>1, BeginTypes DEF Remove
<1>12. ASSUME NEW f \in EventIds, Duplicate(c, e, f) PROVE ETypeOK'
  <2>1. DraftCopy(e) \in EventRow BY <1>0 DEF DraftCopy, EventRow, EventStatus
  <2>2. TierCopy(e) \in TierRow BY <1>0 DEF TierCopy, TierRow
  <2>3. event' \in [EventIds -> EventRow] BY <1>12, <2>1 DEF Duplicate, ETypeOK
  <2>4. copies' \subseteq Copy BY <1>12, <2>2 DEF Duplicate, ETypeOK, Copy
  <2> QED BY <1>12, <2>3, <2>4 DEF Duplicate, ETypeOK, counters
<1> QED
  BY <1>2, <1>3, <1>4, <1>5, <1>6, <1>7, <1>8, <1>9, <1>10, <1>11, <1>12 DEF EventCall

LEMMA TierCallTypes ==
  ASSUME ETypeOK, NEW c \in Callers, NEW e \in EventIds, TierCall(c, e)
  PROVE  ETypeOK'
<1>0. tier[e] \in TierRow BY DEF ETypeOK
<1>1. \A q \in Nat, s \in {"NONE", "ACTIVE", "DISABLED"} :
        StatusFor(q, s) \in {"NONE", "ACTIVE", "DISABLED"}
  BY DEF StatusFor
<1>2. ASSUME NEW p \in Prices, NEW q \in Quantities, CreateTier(c, e, p, q)
      PROVE  ETypeOK'
  <2>1. [status |-> StatusFor(q, "ACTIVE"), price |-> p, total |-> q, sold |-> 0] \in TierRow
    BY <1>1, EventsAssumption DEF TierRow
  <2> QED BY <1>2, <2>1, BeginTierTypes DEF CreateTier, Phases
<1>3. ASSUME NEW q \in Quantities, SetQuantity(c, e, q) PROVE ETypeOK'
  <2>1. [tier[e] EXCEPT !.total = q, !.status = StatusFor(q, @)] \in TierRow
    BY <1>0, <1>1, EventsAssumption DEF TierRow
  <2> QED BY <1>3, <2>1, BeginTierTypes DEF SetQuantity, Phases
<1>4. ASSUME NEW p \in Prices, SetPrice(c, e, p) PROVE ETypeOK'
  <2>1. [tier[e] EXCEPT !.price = p] \in TierRow BY <1>0 DEF TierRow
  <2> QED BY <1>4, <2>1, BeginTierTypes DEF SetPrice, Phases
<1>5. CASE RegenerateCompLink(c, e)
  BY <1>0, <1>5, BeginTierTypes DEF RegenerateCompLink, Phases
<1>6. CASE RemoveTier(c, e) BY <1>0, <1>6, BeginTierTypes DEF RemoveTier, Phases
<1>7. CASE Resync(c, e) BY <1>0, <1>7, BeginTierTypes DEF Resync
<1> QED BY <1>2, <1>3, <1>4, <1>5, <1>6, <1>7 DEF TierCall

LEMMA WrittenTypes ==
  /\ \A x \in EventEdit, row \in EventRow : WrittenEvent(x, row) \in EventRow
  /\ \A x \in TierEdit, row \in TierRow : WrittenTier(x, row) \in TierRow
<1>1. ASSUME NEW x \in EventEdit, NEW row \in EventRow
      PROVE  WrittenEvent(x, row) \in EventRow
  BY DEF EventEdit, EventRow, WrittenEvent
<1>2. ASSUME NEW x \in TierEdit, NEW row \in TierRow
      PROVE  WrittenTier(x, row) \in TierRow
  BY DEF TierEdit, TierRow, WrittenTier
<1> QED BY <1>1, <1>2

LEMMA SaveTypes ==
  ASSUME ETypeOK, NEW x \in edits, EventLoad(x) \/ EventWrite(x) \/ EventRemove(x)
  PROVE  ETypeOK'
<1>0. x \in EventEdit /\ x.id \in EventIds /\ event[x.id] \in EventRow /\ x.new \in EventRow
  BY DEF ETypeOK, EventEdit
<1>1. CASE EventLoad(x)
  <2> DEFINE y == [x EXCEPT !.phase = IF Exists(x.id) THEN "update" ELSE "insert",
                            !.cols = {f \in EventColumns : x.new[f] # event[x.id][f]}]
  <2>1. {f \in EventColumns : x.new[f] # event[x.id][f]} \in SUBSET EventColumns OBVIOUS
  <2>2. y \in EventEdit
    <3> HIDE DEF EventColumns
    <3> QED BY <1>0, <2>1 DEF EventEdit, Phases
  <2>3. edits' = (edits \ {x}) \cup {y} BY <1>1 DEF EventLoad
  <2>4. edits' \subseteq EventEdit
    <3> HIDE DEF y
    <3> QED BY <2>2, <2>3 DEF ETypeOK
  <2> QED BY <1>1, <2>4 DEF EventLoad, ETypeOK, counters
<1>2. CASE EventWrite(x)
  <2>1. WrittenEvent(x, event[x.id]) \in EventRow BY <1>0, WrittenTypes
  <2>2. event' \in [EventIds -> EventRow] BY <1>0, <1>2, <2>1 DEF EventWrite, ETypeOK
  <2> QED BY <1>0, <1>2, <2>2 DEF EventWrite, ETypeOK, counters
<1>3. CASE EventRemove(x)
  <2>1. [event[x.id] EXCEPT !.status = "NONE"] \in EventRow BY <1>0 DEF EventRow
  <2>2. [tier[x.id] EXCEPT !.status = "NONE", !.sold = 0] \in TierRow
    BY <1>0 DEF ETypeOK, TierRow
  <2>3. event' \in [EventIds -> EventRow] BY <1>0, <1>3, <2>1 DEF EventRemove, ETypeOK
  <2>4. tier' \in [EventIds -> TierRow]
    <3>1. \/ tier' = [tier EXCEPT ![x.id] = [@ EXCEPT !.status = "NONE", !.sold = 0]]
          \/ tier' = tier
      BY <1>3 DEF EventRemove
    <3>2. tier \in [EventIds -> TierRow] BY DEF ETypeOK
    <3> QED BY <1>0, <2>2, <3>1, <3>2
  <2>5. /\ sales' \in [EventIds -> Nat]
        /\ planned' \in [EventIds -> Nat]
        /\ again' \in [EventIds -> Nat]
    BY <1>0, <1>3 DEF EventRemove, ETypeOK, counters
  <2> QED BY <1>0, <1>3, <2>3, <2>4, <2>5 DEF EventRemove, ETypeOK, counters
<1> QED BY <1>1, <1>2, <1>3

LEMMA TierSaveTypes ==
  ASSUME ETypeOK, NEW x \in tierEdits,
         ResyncSum(x) \/ TierLoad(x) \/ TierWrite(x) \/ TierRemove(x) \/ PlanGone(x)
  PROVE  ETypeOK'
<1>0. /\ x \in TierEdit /\ x.id \in EventIds /\ tier[x.id] \in TierRow
      /\ x.new \in TierRow /\ sales[x.id] \in Nat
  BY DEF ETypeOK, TierEdit
<1>1. CASE ResyncSum(x)
  <2> DEFINE y == [x EXCEPT !.phase = "read", !.new.sold = sales[x.id]]
  <2>1. [x.new EXCEPT !.sold = sales[x.id]] \in TierRow BY <1>0 DEF TierRow
  <2>2. y \in TierEdit BY <1>0, <2>1 DEF TierEdit, Phases
  <2>3. tierEdits' = tierEdits \ {x} \/ tierEdits' = (tierEdits \ {x}) \cup {y}
    BY <1>1 DEF ResyncSum
  <2>4. tierEdits' \subseteq TierEdit
    <3> HIDE DEF y
    <3> QED BY <2>2, <2>3 DEF ETypeOK
  <2>5. healing' \subseteq EventIds BY <1>0, <1>1 DEF ResyncSum, ETypeOK
  <2> QED BY <1>1, <2>4, <2>5 DEF ResyncSum, ETypeOK
<1>2. CASE TierLoad(x)
  <2> DEFINE y == [x EXCEPT !.phase = IF NoTier(x.id) THEN "insert" ELSE "update",
                            !.cols = {f \in TierColumns : x.new[f] # tier[x.id][f]}]
  <2>1. {f \in TierColumns : x.new[f] # tier[x.id][f]} \in SUBSET TierColumns OBVIOUS
  <2>2. y \in TierEdit
    <3> HIDE DEF TierColumns
    <3> QED BY <1>0, <2>1 DEF TierEdit, Phases
  <2>3. tierEdits' = (tierEdits \ {x}) \cup {y} BY <1>2 DEF TierLoad
  <2>4. tierEdits' \subseteq TierEdit
    <3> HIDE DEF y
    <3> QED BY <2>2, <2>3 DEF ETypeOK
  <2> QED BY <1>2, <2>4 DEF TierLoad, ETypeOK, counters
<1>3. CASE TierWrite(x)
  <2>1. WrittenTier(x, tier[x.id]) \in TierRow BY <1>0, WrittenTypes
  <2>2. tier' \in [EventIds -> TierRow] BY <1>0, <1>3, <2>1 DEF TierWrite, ETypeOK
  <2>3. planned' \in [EventIds -> Nat] BY <1>0, <1>3 DEF TierWrite, ETypeOK
  <2>4. raced' \subseteq EventIds /\ uncounted' \subseteq EventIds
    BY <1>0, <1>3 DEF TierWrite, ETypeOK
  <2>5. tierEdits' \subseteq TierEdit /\ healing' \subseteq EventIds
    BY <1>3 DEF TierWrite, ETypeOK
  <2>6. UNCHANGED <<event, edits, copies, ordered, sales, again, approved, used, begun>>
    BY <1>3 DEF TierWrite
  <2> QED BY <2>2, <2>3, <2>4, <2>5, <2>6 DEF ETypeOK
<1>4. CASE TierRemove(x)
  <2>1. tier' \in [EventIds -> TierRow] BY <1>0, <1>4 DEF TierRemove, ETypeOK, TierRow
  <2> QED BY <1>4, <2>1 DEF TierRemove, ETypeOK
<1>5. CASE PlanGone(x) BY <1>5 DEF PlanGone, ETypeOK, counters
<1> QED BY <1>1, <1>2, <1>3, <1>4, <1>5

LEMMA SaleTypes ==
  ASSUME ETypeOK, NEW e \in EventIds,
         Order(e) \/ Sell(e) \/ GiveBack(e) \/ LastInstalment(e) \/ SellAgain(e)
  PROVE  ETypeOK'
<1>0. /\ tier[e] \in TierRow /\ tier[e].sold \in Nat
      /\ sales[e] \in Nat /\ planned[e] \in Nat /\ again[e] \in Nat
  BY DEF ETypeOK, TierRow
<1>1. CASE Order(e) BY <1>1 DEF Order, ETypeOK, calls
<1>2. CASE Sell(e)
  <2>1. [tier[e] EXCEPT !.sold = @ + 1] \in TierRow BY <1>0 DEF TierRow
  <2>2. tier' \in [EventIds -> TierRow] BY <1>2, <2>1 DEF Sell, ETypeOK
  <2>3. sales' \in [EventIds -> Nat] BY <1>0, <1>2 DEF Sell, ETypeOK
  <2> QED BY <1>2, <2>2, <2>3 DEF Sell, ETypeOK, calls, Disturb
<1>3. CASE GiveBack(e)
  <2>1. [tier[e] EXCEPT !.sold = Fewer(@)] \in TierRow BY <1>0 DEF TierRow, Fewer
  <2>2. tier' \in [EventIds -> TierRow] BY <1>3, <2>1 DEF GiveBack, ETypeOK
  <2>3. sales' \in [EventIds -> Nat] BY <1>0, <1>3 DEF GiveBack, ETypeOK
  <2> QED BY <1>3, <2>2, <2>3 DEF GiveBack, ETypeOK, calls, Disturb
<1>4. CASE LastInstalment(e)
  <2>1. sales' \in [EventIds -> Nat] BY <1>0, <1>4 DEF LastInstalment, ETypeOK
  <2>2. planned' \in [EventIds -> Nat] BY <1>0, <1>4 DEF LastInstalment, ETypeOK
  <2> QED BY <1>4, <2>1, <2>2 DEF LastInstalment, ETypeOK, calls, Disturb
<1>5. CASE SellAgain(e)
  <2>1. [tier[e] EXCEPT !.sold = @ + 1] \in TierRow BY <1>0 DEF TierRow
  <2>2. tier' \in [EventIds -> TierRow] BY <1>5, <2>1 DEF SellAgain, ETypeOK
  <2>3. again' \in [EventIds -> Nat] BY <1>0, <1>5 DEF SellAgain, ETypeOK
  <2> QED BY <1>5, <2>2, <2>3 DEF SellAgain, ETypeOK, calls, Disturb
<1> QED BY <1>1, <1>2, <1>3, <1>4, <1>5

LEMMA FirstInstalmentTypes ==
  ASSUME ETypeOK, NEW b \in Buyers, NEW e \in EventIds, FirstInstalment(b, e)
  PROVE  ETypeOK'
<1>1. [tier[e] EXCEPT !.sold = @ + 1] \in TierRow BY DEF ETypeOK, TierRow
<1> QED BY <1>1, BeginTierTypes DEF FirstInstalment, Phases

LEMMA TypesNext == ETypeOK /\ [ENext]_evars => ETypeOK'
<1> SUFFICES ASSUME ETypeOK, [ENext]_evars PROVE ETypeOK' OBVIOUS
<1>1. ASSUME NEW c \in Callers, NEW e \in EventIds, EventCall(c, e) \/ TierCall(c, e)
      PROVE  ETypeOK'
  BY <1>1, EventCallTypes, TierCallTypes
<1>2. ASSUME NEW x \in edits, EventLoad(x) \/ EventWrite(x) \/ EventRemove(x)
      PROVE  ETypeOK'
  BY <1>2, SaveTypes
<1>3. ASSUME NEW x \in tierEdits,
             ResyncSum(x) \/ TierLoad(x) \/ TierWrite(x) \/ TierRemove(x) \/ PlanGone(x)
      PROVE  ETypeOK'
  BY <1>3, TierSaveTypes
<1>4. ASSUME NEW x \in copies, DuplicateTier(x) PROVE ETypeOK'
  <2>1. x.to \in EventIds /\ x.tier \in TierRow BY DEF ETypeOK, Copy
  <2>2. tier' \in [EventIds -> TierRow] BY <1>4, <2>1 DEF DuplicateTier, ETypeOK
  <2> QED BY <1>4, <2>2 DEF DuplicateTier, ETypeOK
<1>5. ASSUME NEW e \in EventIds,
             Order(e) \/ Sell(e) \/ GiveBack(e) \/ LastInstalment(e) \/ SellAgain(e)
      PROVE  ETypeOK'
  BY <1>5, SaleTypes
<1>8. ASSUME NEW b \in Buyers, NEW e \in EventIds, FirstInstalment(b, e) PROVE ETypeOK'
  BY <1>8, FirstInstalmentTypes
<1>6. CASE Crash BY <1>6 DEF Crash, ETypeOK
<1>7. CASE UNCHANGED evars BY <1>7 DEF evars, calls, counters, ETypeOK
<1> QED BY <1>1, <1>2, <1>3, <1>4, <1>5, <1>6, <1>7, <1>8 DEF ENext

LEMMA TypesInit == EInit => ETypeOK
<1> SUFFICES ASSUME EInit PROVE ETypeOK OBVIOUS
<1>0. \A q \in Quantities : q \in Nat BY EventsAssumption
<1>1. [status : {"NONE", "ACTIVE"}, price : Prices, total : Quantities, sold : {0}]
        \subseteq TierRow
  <2>1. SUFFICES ASSUME NEW r \in [status : {"NONE", "ACTIVE"}, price : Prices,
                                  total : Quantities, sold : {0}]
                 PROVE  r \in TierRow
    OBVIOUS
  <2>a. r.total \in Quantities /\ r.sold = 0 BY <2>1
  <2>2. r.total \in Nat BY <1>0, <2>a
  <2>3. r.sold \in Nat BY <2>a
  <2> QED BY <2>1, <2>2, <2>3 DEF TierRow
<1>2. tier \in [EventIds -> TierRow] BY <1>1 DEF EInit
<1> QED BY <1>2 DEF EInit, ETypeOK

\* Every reachable state is well typed.
THEOREM TypeCorrect == ESpec => []ETypeOK
  BY TypesInit, TypesNext, PTL DEF ESpec

-----------------------------------------------------------------------------
(* The review cycle *)

\* What an entity in the hands of a call is about to do to the status.
Planned(x) ==
  /\ x.copy.status # "NONE"
  /\ x.new.status = x.copy.status \/ <<x.copy.status, x.new.status>> \in Lifecycle(x.by)
  /\ x.op = "remove" <=> x.new.status = "NONE"
  /\ x.new.status \in Reviewed => x.copy.status \in Reviewed \/ x.op = "approve"

EntitiesPlanned == \A x \in edits : Planned(x)
CopiesApproved == \A x \in edits : x.copy.status \in Reviewed => x.id \in approved
ReviewInv == ETypeOK /\ EntitiesPlanned /\ CopiesApproved /\ OnlineWasApproved

LEMMA BegunPlanned ==
  ASSUME ETypeOK, NEW c \in Callers, NEW e \in EventIds, EventCall(c, e),
         NEW x \in edits', x \notin edits
  PROVE  x.id = e /\ x.copy = event[e] /\ Planned(x)
<1>0. event[e] \in EventRow BY DEF ETypeOK
<1>1. ASSUME NEW op \in {"save", "approve", "remove"}, NEW new \in EventRow,
             BeginEdit(c, op, e, new)
      PROVE  /\ x.by = c /\ x.op = op /\ x.id = e /\ x.copy = event[e] /\ x.new = new
             /\ event[e].status # "NONE"
  BY <1>1 DEF BeginEdit, Exists
<1>2. \A s \in EventStatus \cup {"NONE"} :
        WithStatus(e, s) \in EventRow /\ WithStatus(e, s).status = s
  BY <1>0 DEF WithStatus, EventRow
<1>3. \A y \in Contents : ~Create(c, e, y) BY DEF Create, calls
<1>4. \A f \in EventIds : ~Duplicate(c, e, f) BY DEF Duplicate
<1>5. ASSUME NEW y \in Contents, Update(c, e, y) PROVE x.id = e /\ x.copy = event[e] /\ Planned(x)
  <2>1. [event[e] EXCEPT !.content = y] \in EventRow
        /\ [event[e] EXCEPT !.content = y].status = event[e].status
    BY <1>0 DEF EventRow
  <2> QED BY <1>1, <1>5, <2>1 DEF Update, Planned
<1>6. CASE SubmitForReview(c, e)
  BY <1>1, <1>2, <1>6 DEF SubmitForReview, Planned, Lifecycle, EventStatus, Reviewed
<1>7. CASE Approve(c, e)
  BY <1>1, <1>2, <1>7 DEF Approve, Planned, Lifecycle, EventStatus, Reviewed
<1>8. CASE Reject(c, e)
  BY <1>1, <1>2, <1>8 DEF Reject, Planned, Lifecycle, EventStatus, Reviewed
<1>9. CASE Publish(c, e)
  BY <1>1, <1>2, <1>9 DEF Publish, Planned, Lifecycle, EventStatus, Reviewed
<1>10. CASE Unpublish(c, e)
  BY <1>1, <1>2, <1>10 DEF Unpublish, Planned, Lifecycle, EventStatus, Reviewed
<1>11. CASE CommitBanner(c, e)
  <2>1. [event[e] EXCEPT !.banner = TRUE] \in EventRow
        /\ [event[e] EXCEPT !.banner = TRUE].status = event[e].status
    BY <1>0 DEF EventRow
  <2> QED BY <1>1, <1>11, <2>1 DEF CommitBanner, Planned
<1>12. CASE RemoveBanner(c, e)
  <2>1. [event[e] EXCEPT !.banner = FALSE] \in EventRow
        /\ [event[e] EXCEPT !.banner = FALSE].status = event[e].status
    BY <1>0 DEF EventRow
  <2> QED BY <1>1, <1>12, <2>1 DEF RemoveBanner, Planned
<1>13. CASE Remove(c, e)
  <2>1. x.by = c /\ x.op = "remove" /\ x.id = e /\ x.copy = event[e]
        /\ x.new = WithStatus(e, "NONE") /\ event[e].status # "NONE"
    BY <1>1, <1>2, <1>13 DEF Remove
  <2>2. event[e].status \in IF c \in Admins THEN EventStatus ELSE Editable
    BY <1>0, <1>13, <2>1 DEF Remove, MayEdit, EventRow
  <2>3. <<event[e].status, "NONE">> \in Lifecycle(c) BY <2>2 DEF Lifecycle
  <2> QED BY <1>2, <2>1, <2>3 DEF Planned, Reviewed
<1> QED
  BY <1>3, <1>4, <1>5, <1>6, <1>7, <1>8, <1>9, <1>10, <1>11, <1>12, <1>13 DEF EventCall

LEMMA EventCallReview ==
  ASSUME ReviewInv, NEW c \in Callers, NEW e \in EventIds, EventCall(c, e)
  PROVE  ReviewInv'
<1>1. ETypeOK' BY EventCallTypes DEF ReviewInv
<1>2. approved' = approved
  BY DEF EventCall, BeginEdit, Create, Update, SubmitForReview, Approve, Reject, Publish,
         Unpublish, CommitBanner, RemoveBanner, Remove, Duplicate
<1>3. EntitiesPlanned' /\ CopiesApproved'
  <2> SUFFICES ASSUME NEW x \in edits'
               PROVE  Planned(x) /\ (x.copy.status \in Reviewed => x.id \in approved)
    BY <1>2 DEF EntitiesPlanned, CopiesApproved, Planned
  <2>1. CASE x \in edits BY <2>1 DEF ReviewInv, EntitiesPlanned, CopiesApproved
  <2>2. CASE x \notin edits
    BY <2>2, BegunPlanned DEF ReviewInv, OnlineWasApproved
  <2> QED BY <2>1, <2>2
<1>4. OnlineWasApproved'
  <2>1. ASSUME NEW y \in Contents, Create(c, e, y) PROVE OnlineWasApproved'
    BY <1>2, <2>1 DEF Create, ReviewInv, OnlineWasApproved, ETypeOK, Reviewed
  <2>2. ASSUME NEW f \in EventIds, Duplicate(c, e, f) PROVE OnlineWasApproved'
    <3>1. DraftCopy(e).status = "DRAFT"
      BY DEF DraftCopy, ReviewInv, ETypeOK, EventRow
    <3> QED BY <1>2, <2>2, <3>1 DEF Duplicate, ReviewInv, OnlineWasApproved, ETypeOK, Reviewed
  <2>3. ASSUME event' = event PROVE OnlineWasApproved'
    BY <1>2, <2>3 DEF ReviewInv, OnlineWasApproved
  <2> QED
    BY <2>1, <2>2, <2>3 DEF EventCall, BeginEdit, Update, SubmitForReview, Approve, Reject,
       Publish, Unpublish, CommitBanner, RemoveBanner, Remove
<1> QED BY <1>1, <1>3, <1>4 DEF ReviewInv

LEMMA SaveReview ==
  ASSUME ReviewInv, NEW x \in edits, EventLoad(x) \/ EventWrite(x) \/ EventRemove(x)
  PROVE  ReviewInv'
<1>0. /\ x \in EventEdit /\ x.id \in EventIds /\ event[x.id] \in EventRow /\ Planned(x)
      /\ x.new \in EventRow /\ (x.copy.status \in Reviewed => x.id \in approved)
  BY DEF ReviewInv, ETypeOK, EventEdit, EntitiesPlanned, CopiesApproved
<1>1. ETypeOK' BY SaveTypes DEF ReviewInv
<1>2. CASE EventLoad(x)
  <2> DEFINE y == [x EXCEPT !.phase = IF Exists(x.id) THEN "update" ELSE "insert",
                            !.cols = {f \in EventColumns : x.new[f] # event[x.id][f]}]
  <2>1. /\ y.by = x.by /\ y.op = x.op /\ y.id = x.id /\ y.copy = x.copy /\ y.new = x.new
    BY <1>0 DEF EventEdit
  <2>2. edits' = (edits \ {x}) \cup {y} /\ approved' = approved /\ event' = event
    BY <1>2 DEF EventLoad
  <2>3. Planned(y) /\ (y.copy.status \in Reviewed => y.id \in approved)
    <3> HIDE DEF y
    <3> QED BY <1>0, <2>1 DEF Planned
  <2>4. EntitiesPlanned' /\ CopiesApproved'
    <3> HIDE DEF y
    <3> QED BY <2>2, <2>3 DEF ReviewInv, EntitiesPlanned, CopiesApproved, Planned
  <2> QED BY <1>1, <2>2, <2>4 DEF ReviewInv, OnlineWasApproved
<1>3. CASE EventWrite(x)
  <2>1. edits' \subseteq edits /\ approved \subseteq approved'
        /\ (x.op = "approve" => x.id \in approved')
    BY <1>3 DEF EventWrite
  <2>2. event'[x.id].status \in {event[x.id].status, x.new.status}
        /\ \A e \in EventIds \ {x.id} : event'[e] = event[e]
    BY <1>0, <1>3 DEF EventWrite, WrittenEvent, ReviewInv, ETypeOK
  <2>3. x.new.status \in Reviewed => x.id \in approved' BY <1>0, <2>1 DEF Planned
  <2>4. OnlineWasApproved' BY <1>0, <2>1, <2>2, <2>3 DEF ReviewInv, OnlineWasApproved
  <2> QED BY <1>1, <2>1, <2>4 DEF ReviewInv, EntitiesPlanned, CopiesApproved, Planned
<1>4. CASE EventRemove(x)
  <2>1. edits' \subseteq edits /\ approved' = approved BY <1>4 DEF EventRemove
  <2>2. \A e \in EventIds : event'[e].status \in {event[e].status, "NONE"}
    BY <1>0, <1>4 DEF EventRemove, ReviewInv, ETypeOK, EventRow
  <2>3. OnlineWasApproved' BY <2>1, <2>2 DEF ReviewInv, OnlineWasApproved, Reviewed
  <2> QED BY <1>1, <2>1, <2>3 DEF ReviewInv, EntitiesPlanned, CopiesApproved, Planned
<1> QED BY <1>2, <1>3, <1>4

\* The steps that leave events, and the calls about them, alone.
LEMMA OtherReview ==
  ASSUME ReviewInv, ETypeOK', event' = event, approved' = approved, edits' \subseteq edits
  PROVE  ReviewInv'
BY DEF ReviewInv, EntitiesPlanned, CopiesApproved, OnlineWasApproved, Planned

LEMMA ReviewNext == ReviewInv /\ [ENext]_evars => ReviewInv'
<1> SUFFICES ASSUME ReviewInv, [ENext]_evars PROVE ReviewInv' OBVIOUS
<1>0. ETypeOK' BY TypesNext DEF ReviewInv
<1>1. ASSUME NEW c \in Callers, NEW e \in EventIds, EventCall(c, e) PROVE ReviewInv'
  BY <1>1, EventCallReview
<1>2. ASSUME NEW c \in Callers, NEW e \in EventIds, TierCall(c, e) PROVE ReviewInv'
  BY <1>0, <1>2, OtherReview
     DEF TierCall, CreateTier, SetQuantity, SetPrice, RegenerateCompLink, RemoveTier, Resync,
         BeginTierEdit
<1>3. ASSUME NEW x \in edits, EventLoad(x) \/ EventWrite(x) \/ EventRemove(x)
      PROVE  ReviewInv'
  BY <1>3, SaveReview
<1>4. ASSUME NEW x \in tierEdits,
             ResyncSum(x) \/ TierLoad(x) \/ TierWrite(x) \/ TierRemove(x) \/ PlanGone(x)
      PROVE  ReviewInv'
  BY <1>0, <1>4, OtherReview DEF ResyncSum, TierLoad, TierWrite, TierRemove, PlanGone
<1>5. ASSUME NEW x \in copies, DuplicateTier(x) PROVE ReviewInv'
  BY <1>0, <1>5, OtherReview DEF DuplicateTier
<1>6. ASSUME NEW e \in EventIds,
             Order(e) \/ Sell(e) \/ GiveBack(e) \/ LastInstalment(e) \/ SellAgain(e)
      PROVE  ReviewInv'
  BY <1>0, <1>6, OtherReview DEF Order, Sell, GiveBack, LastInstalment, SellAgain, calls
<1>9. ASSUME NEW b \in Buyers, NEW e \in EventIds, FirstInstalment(b, e) PROVE ReviewInv'
  BY <1>0, <1>9, OtherReview DEF FirstInstalment, BeginTierEdit
<1>7. CASE Crash BY <1>0, <1>7, OtherReview DEF Crash
<1>8. CASE UNCHANGED evars BY <1>0, <1>8, OtherReview DEF evars, calls
<1> QED BY <1>1, <1>2, <1>3, <1>4, <1>5, <1>6, <1>7, <1>8, <1>9 DEF ENext

LEMMA ReviewInit == EInit => ReviewInv
BY TypesInit DEF EInit, ReviewInv, EntitiesPlanned, CopiesApproved, OnlineWasApproved

\* Whatever stale entities are saved, what is approved, published or archived
\* was approved by an administrator.
THEOREM OnlineApproved == ESpec => []OnlineWasApproved
<1>1. ReviewInv => OnlineWasApproved BY DEF ReviewInv
<1> QED BY <1>1, ReviewInit, ReviewNext, PTL DEF ESpec

\* The step formula of LeavesCycleOvertaken.
LeavesOvertaken ==
  \A e \in EventIds : event'[e].status # event[e].status =>
    \/ <<event[e].status, event'[e].status>> = <<"NONE", "DRAFT">>
    \/ \E x \in edits \ edits' :
         /\ x.id = e
         /\ \/ <<event[e].status, event'[e].status>> \in Lifecycle(x.by)
            \/ x.copy.status # event[e].status

\* Only ids that were given out have a row, or a call that may save one.
IdsUsed ==
  /\ \A e \in EventIds : Exists(e) => e \in used
  /\ \A x \in edits : x.id \in used

LEMMA UsedNext == ETypeOK /\ EntitiesPlanned /\ IdsUsed /\ [ENext]_evars => IdsUsed'
<1> SUFFICES ASSUME ETypeOK, EntitiesPlanned, IdsUsed, [ENext]_evars PROVE IdsUsed' OBVIOUS
<1>1. ASSUME NEW c \in Callers, NEW e \in EventIds, EventCall(c, e) PROVE IdsUsed'
  <2>1. ASSUME NEW y \in Contents, Create(c, e, y) PROVE IdsUsed'
    BY <2>1 DEF Create, calls, IdsUsed, Exists, ETypeOK
  <2>2. ASSUME NEW f \in EventIds, Duplicate(c, e, f) PROVE IdsUsed'
    BY <2>2 DEF Duplicate, IdsUsed, Exists, ETypeOK
  <2>3. ASSUME event' = event, used' = used PROVE IdsUsed'
    <3>1. ASSUME NEW x \in edits' PROVE x.id \in used
      <4>1. CASE x \in edits BY <4>1 DEF IdsUsed
      <4>2. CASE x \notin edits
        BY <1>1, <4>2, BegunPlanned DEF Planned, IdsUsed, Exists
      <4> QED BY <4>1, <4>2
    <3> QED BY <2>3, <3>1 DEF IdsUsed, Exists
  <2> QED
    BY <1>1, <2>1, <2>2, <2>3 DEF EventCall, BeginEdit, Update, SubmitForReview, Approve,
       Reject, Publish, Unpublish, CommitBanner, RemoveBanner, Remove
<1>2. ASSUME NEW x \in edits, EventLoad(x) PROVE IdsUsed'
  <2>1. ASSUME NEW y \in edits' PROVE y.id \in used
    <3>1. x.id \in used /\ x \in EventEdit BY DEF IdsUsed, ETypeOK
    <3> QED BY <1>2, <3>1 DEF EventLoad, IdsUsed, EventEdit
  <2> QED BY <1>2, <2>1 DEF EventLoad, IdsUsed, Exists
<1>3. ASSUME NEW x \in edits, EventWrite(x) \/ EventRemove(x) PROVE IdsUsed'
  <2>0. x.id \in used /\ x.id \in EventIds BY DEF IdsUsed, ETypeOK, EventEdit
  <2>1. \A e \in EventIds \ {x.id} : event'[e] = event[e]
    BY <1>3, <2>0 DEF EventWrite, EventRemove, ETypeOK
  <2>2. edits' \subseteq edits /\ used' = used BY <1>3 DEF EventWrite, EventRemove
  <2> QED BY <2>0, <2>1, <2>2 DEF IdsUsed, Exists
<1>4. ASSUME event' = event, edits' \subseteq edits, used' = used PROVE IdsUsed'
  BY <1>4 DEF IdsUsed, Exists
<1>5. ASSUME NEW c \in Callers, NEW e \in EventIds, TierCall(c, e) PROVE IdsUsed'
  BY <1>4, <1>5 DEF TierCall, CreateTier, SetQuantity, SetPrice, RegenerateCompLink,
     RemoveTier, Resync, BeginTierEdit
<1>6. ASSUME NEW x \in tierEdits,
             ResyncSum(x) \/ TierLoad(x) \/ TierWrite(x) \/ TierRemove(x) \/ PlanGone(x)
      PROVE  IdsUsed'
  BY <1>4, <1>6 DEF ResyncSum, TierLoad, TierWrite, TierRemove, PlanGone
<1>7. ASSUME NEW x \in copies, DuplicateTier(x) PROVE IdsUsed'
  BY <1>4, <1>7 DEF DuplicateTier
<1>8. ASSUME NEW e \in EventIds,
             Order(e) \/ Sell(e) \/ GiveBack(e) \/ LastInstalment(e) \/ SellAgain(e)
      PROVE  IdsUsed'
  BY <1>4, <1>8 DEF Order, Sell, GiveBack, LastInstalment, SellAgain, calls
<1>10. ASSUME NEW b \in Buyers, NEW e \in EventIds, FirstInstalment(b, e) PROVE IdsUsed'
  BY <1>4, <1>10 DEF FirstInstalment, BeginTierEdit
<1>9. Crash \/ UNCHANGED evars => IdsUsed' BY <1>4 DEF Crash, evars, calls
<1> QED BY <1>1, <1>2, <1>3, <1>5, <1>6, <1>7, <1>8, <1>9, <1>10 DEF ENext

LEMMA StepLeavesOvertaken == ReviewInv /\ IdsUsed /\ [ENext]_evars => LeavesOvertaken
<1> SUFFICES ASSUME ReviewInv, IdsUsed, [ENext]_evars PROVE LeavesOvertaken OBVIOUS
<1>1. ASSUME NEW c \in Callers, NEW e \in EventIds, EventCall(c, e) PROVE LeavesOvertaken
  <2>0. ETypeOK BY DEF ReviewInv
  <2>1. ASSUME NEW y \in Contents, Create(c, e, y) PROVE LeavesOvertaken
    <3>1. event[e].status = "NONE" BY <2>1 DEF Create, IdsUsed, Exists
    <3> QED BY <2>0, <2>1, <3>1 DEF Create, LeavesOvertaken, ETypeOK
  <2>2. ASSUME NEW f \in EventIds, Duplicate(c, e, f) PROVE LeavesOvertaken
    <3>1. event[f].status = "NONE" BY <2>2 DEF Duplicate, IdsUsed, Exists
    <3>2. DraftCopy(e).status = "DRAFT" BY <2>0 DEF DraftCopy, ETypeOK, EventRow
    <3> QED BY <2>0, <2>2, <3>1, <3>2 DEF Duplicate, LeavesOvertaken, ETypeOK
  <2>3. ASSUME event' = event PROVE LeavesOvertaken BY <2>3 DEF LeavesOvertaken
  <2> QED
    BY <1>1, <2>1, <2>2, <2>3 DEF EventCall, BeginEdit, Update, SubmitForReview, Approve,
       Reject, Publish, Unpublish, CommitBanner, RemoveBanner, Remove
<1>2. ASSUME NEW x \in edits, EventWrite(x) \/ EventRemove(x) PROVE LeavesOvertaken
  <2>0. /\ x \in EventEdit /\ x.id \in EventIds /\ event[x.id] \in EventRow /\ Planned(x)
        /\ x.new \in EventRow /\ ETypeOK
    BY DEF ReviewInv, ETypeOK, EventEdit, EntitiesPlanned
  <2>1. x \in edits \ edits' BY <1>2 DEF EventWrite, EventRemove
  <2>2. \A e \in EventIds : event'[e].status # event[e].status =>
          e = x.id /\ event'[e].status = x.new.status
    BY <1>2, <2>0 DEF EventWrite, EventRemove, WrittenEvent, ETypeOK, EventRow, Planned
  <2> QED BY <2>0, <2>1, <2>2 DEF LeavesOvertaken, Planned
<1>3. ASSUME event' = event PROVE LeavesOvertaken BY <1>3 DEF LeavesOvertaken
<1>4. ASSUME NEW x \in edits, EventLoad(x) PROVE LeavesOvertaken
  BY <1>3, <1>4 DEF EventLoad
<1>5. ASSUME NEW c \in Callers, NEW e \in EventIds, TierCall(c, e) PROVE LeavesOvertaken
  BY <1>3, <1>5 DEF TierCall, CreateTier, SetQuantity, SetPrice, RegenerateCompLink,
     RemoveTier, Resync, BeginTierEdit
<1>6. ASSUME NEW x \in tierEdits,
             ResyncSum(x) \/ TierLoad(x) \/ TierWrite(x) \/ TierRemove(x) \/ PlanGone(x)
      PROVE  LeavesOvertaken
  BY <1>3, <1>6 DEF ResyncSum, TierLoad, TierWrite, TierRemove, PlanGone
<1>7. ASSUME NEW x \in copies, DuplicateTier(x) PROVE LeavesOvertaken
  BY <1>3, <1>7 DEF DuplicateTier
<1>8. ASSUME NEW e \in EventIds,
             Order(e) \/ Sell(e) \/ GiveBack(e) \/ LastInstalment(e) \/ SellAgain(e)
      PROVE  LeavesOvertaken
  BY <1>3, <1>8 DEF Order, Sell, GiveBack, LastInstalment, SellAgain
<1>10. ASSUME NEW b \in Buyers, NEW e \in EventIds, FirstInstalment(b, e)
       PROVE  LeavesOvertaken
  BY <1>3, <1>10 DEF FirstInstalment, BeginTierEdit
<1>9. Crash \/ UNCHANGED evars => LeavesOvertaken BY <1>3 DEF Crash, evars
<1> QED BY <1>1, <1>2, <1>4, <1>5, <1>6, <1>7, <1>8, <1>9, <1>10 DEF ENext

\* A status leaves the review cycle only by the save of an overtaken call.
THEOREM LeavesOnlyOvertaken == ESpec => LeavesCycleOvertaken
<1>1. ReviewInv /\ IdsUsed /\ [ENext]_evars => [LeavesOvertaken]_evars
  BY StepLeavesOvertaken
<1>2. ReviewInv /\ IdsUsed /\ [ENext]_evars => (ReviewInv /\ IdsUsed)'
  BY ReviewNext, UsedNext DEF ReviewInv
<1>3. EInit => ReviewInv /\ IdsUsed
  <2>1. EInit => IdsUsed BY DEF EInit, IdsUsed
  <2> QED BY <2>1, ReviewInit
<1> QED
  BY <1>1, <1>2, <1>3, PTL DEF ESpec, LeavesCycleOvertaken, LeavesOvertaken

-----------------------------------------------------------------------------
(* The count of seats *)

\* The count of a tier nobody raced for is right, even after the tier is gone,
\* up to the seats of plans that a resync dropped.
Counted(e) ==
  /\ tier[e].sold <= SeatsTaken(e)
  /\ e \notin uncounted => tier[e].sold = SeatsTaken(e)
RowsCounted == \A e \in EventIds \ raced : Counted(e)

\* Orders keep their tier and their event.
OrdersHeld ==
  /\ \A e \in ordered : ~NoTier(e) /\ Exists(e)
  /\ \A e \in EventIds : SeatsTaken(e) > 0 => e \in ordered

\* So is the count in every entity that may still be saved: an edit leaves it,
\* a first instalment adds its seat, a resync writes its sum.
EntityCounted(x) ==
  /\ x.op = "save" => x.new.sold = tier[x.id].sold
  /\ x.op = "resync" => x.phase = "sum" \/ x.new.sold = sales[x.id]
  /\ x.op = "plan" => /\ x.new.sold = tier[x.id].sold + 1
                      /\ x.id \in ordered
                      /\ x.phase # "insert"
                      /\ x.phase = "update" => "sold" \in x.cols
EntitiesCounted ==
  \A x \in tierEdits :
    /\ x.id \notin raced => EntityCounted(x)
    /\ x.op # "remove" => x.new.status # "NONE"
    /\ x.phase = "sum" => x.op = "resync"

CopiesFresh == \A x \in copies : x.tier.status # "NONE" /\ x.tier.sold = 0

\* While a resync heals a tier, no other call holds a copy of it, and what it
\* is about to save is right.
Healing(e) ==
  \A x \in tierEdits : x.id = e =>
    /\ \A y \in tierEdits : y.id = e => y = x
    /\ x.new.sold = sales[e]
    /\ x.phase = "update" => "sold" \in x.cols \/ tier[e].sold = sales[e]
HealingAlone == \A e \in healing : Healing(e)

SeatInv ==
  /\ ETypeOK
  /\ EntitiesPlanned
  /\ RowsCounted
  /\ OrdersHeld
  /\ EntitiesCounted
  /\ CopiesFresh
  /\ HealingAlone

LEMMA SeatInit == EInit => SeatInv
<1> SUFFICES ASSUME EInit PROVE SeatInv OBVIOUS
<1>1. ETypeOK /\ EntitiesPlanned BY ReviewInit DEF ReviewInv
<1>2. \A e \in EventIds : SeatsTaken(e) = 0 BY DEF EInit, SeatsTaken
<1>3. \A e \in EventIds : tier[e].sold = 0 BY DEF EInit
<1>4. RowsCounted BY <1>2, <1>3 DEF RowsCounted, Counted
<1>5. OrdersHeld BY <1>2 DEF EInit, OrdersHeld
<1> QED
  BY <1>1, <1>4, <1>5 DEF EInit, SeatInv, EntitiesCounted, CopiesFresh, HealingAlone

\* What the seats of an event are, and that a tier nobody has ordered from
\* counts none.
LEMMA SeatFacts ==
  ASSUME SeatInv, NEW e \in EventIds
  PROVE  /\ sales[e] \in Nat /\ planned[e] \in Nat /\ again[e] \in Nat
         /\ SeatsTaken(e) \in Nat
         /\ tier[e] \in TierRow /\ tier[e].sold \in Nat
         /\ NoTier(e) => sales[e] = 0 /\ SeatsTaken(e) = 0
         /\ NoTier(e) /\ e \notin raced => tier[e].sold = 0
<1>1. /\ sales[e] \in Nat /\ planned[e] \in Nat /\ again[e] \in Nat
      /\ tier[e] \in TierRow /\ tier[e].sold \in Nat
  BY DEF SeatInv, ETypeOK, TierRow
<1>2. SeatsTaken(e) \in Nat BY <1>1 DEF SeatsTaken
<1>3. NoTier(e) => SeatsTaken(e) = 0 BY <1>2 DEF SeatInv, OrdersHeld
<1>4. SeatsTaken(e) = 0 => sales[e] = 0
  <2>1. \A a, b, c \in Nat : a + b + c = 0 => a = 0 OBVIOUS
  <2> QED BY <1>1, <2>1 DEF SeatsTaken
<1>5. NoTier(e) /\ e \notin raced => tier[e].sold = 0
  BY <1>1, <1>3 DEF SeatInv, RowsCounted, Counted
<1> QED BY <1>1, <1>2, <1>3, <1>4, <1>5

\* Steps that touch no count and no entity of a tier.
LEMMA SeatsAlone ==
  ASSUME SeatInv, ETypeOK', EntitiesPlanned', UNCHANGED <<tier, counters, tierEdits>>,
         CopiesFresh', \A e \in ordered : Exists(e) => Exists(e)'
  PROVE  SeatInv'
<1>1. OrdersHeld' BY DEF SeatInv, OrdersHeld, counters, NoTier, SeatsTaken
<1>2. RowsCounted' BY DEF SeatInv, RowsCounted, Counted, counters, SeatsTaken
<1>3. EntitiesCounted' BY DEF SeatInv, EntitiesCounted, EntityCounted, counters
<1> QED BY <1>1, <1>2, <1>3 DEF SeatInv, HealingAlone, Healing, counters

LEMMA EventCallSeats ==
  ASSUME SeatInv, ETypeOK', EntitiesPlanned', IdsUsed,
         NEW c \in Callers, NEW e \in EventIds, EventCall(c, e)
  PROVE  SeatInv'
<1>0. ETypeOK /\ tier[e] \in TierRow BY DEF SeatInv, ETypeOK
<1>1. ASSUME NEW f \in EventIds, Duplicate(c, e, f) PROVE SeatInv'
  <2>1. NoTier(e) \/ (TierCopy(e).status # "NONE" /\ TierCopy(e).sold = 0)
    BY <1>0 DEF TierCopy, NoTier, TierRow
  <2>2. CopiesFresh' BY <1>1, <2>1 DEF Duplicate, SeatInv, CopiesFresh
  <2>3. \A d \in ordered : Exists(d)' BY <1>0, <1>1 DEF Duplicate, SeatInv, OrdersHeld, IdsUsed,
        Exists, ETypeOK
  <2> QED BY <1>1, <2>2, <2>3, SeatsAlone DEF Duplicate
<1>2. ASSUME NEW y \in Contents, Create(c, e, y) PROVE SeatInv'
  <2>1. \A d \in ordered : Exists(d)' BY <1>0, <1>2 DEF Create, SeatInv, OrdersHeld, Exists, ETypeOK
  <2>2. CopiesFresh' BY <1>2 DEF Create, calls, SeatInv, CopiesFresh
  <2> QED BY <1>2, <2>1, <2>2, SeatsAlone DEF Create, calls
<1>3. ASSUME UNCHANGED <<event, tier, tierEdits, copies, counters>> PROVE SeatInv'
  <2>1. CopiesFresh' BY <1>3 DEF SeatInv, CopiesFresh
  <2> QED BY <1>3, <2>1, SeatsAlone DEF Exists
<1> QED
  BY <1>1, <1>2, <1>3 DEF EventCall, BeginEdit, Update, SubmitForReview, Approve,
     Reject, Publish, Unpublish, CommitBanner, RemoveBanner, Remove

LEMMA BeginTierSeats ==
  ASSUME SeatInv, ETypeOK', EntitiesPlanned', NEW c \in Callers \cup Buyers,
         NEW op \in {"save", "remove", "resync", "plan"}, NEW e \in EventIds,
         NEW new \in TierRow, NEW ph \in Phases \cup {"sum"},
         BeginTierEdit(c, op, e, new, ph),
         op = "save" /\ e \notin raced => new.sold = tier[e].sold,
         op = "resync" <=> ph = "sum",
         op = "plan" => new.sold = tier[e].sold + 1 /\ e \in ordered /\ ph = "read",
         op # "remove" => new.status # "NONE"
  PROVE  SeatInv'
<1>1. /\ UNCHANGED <<event, tier, copies, seats, raced, uncounted>>
      /\ healing' = healing \ {e}
      /\ \A x \in tierEdits' \ tierEdits :
           x.id = e /\ x.op = op /\ x.new = new /\ x.phase = ph
      /\ \A x \in tierEdits' : x.id # e => x \in tierEdits
  BY DEF BeginTierEdit
<1>2. ASSUME NEW x \in tierEdits', x \notin tierEdits
      PROVE  /\ x.id \notin raced => EntityCounted(x)
             /\ x.op # "remove" => x.new.status # "NONE"
             /\ x.phase = "sum" => x.op = "resync"
  BY <1>1, <1>2 DEF EntityCounted
<1>3. EntitiesCounted'
  BY <1>1, <1>2 DEF SeatInv, EntitiesCounted, EntityCounted
<1>4. HealingAlone' BY <1>1 DEF SeatInv, HealingAlone, Healing
<1>5. CopiesFresh' BY <1>1 DEF SeatInv, CopiesFresh
<1>6. RowsCounted' BY <1>1 DEF SeatInv, RowsCounted, Counted, SeatsTaken
<1>7. OrdersHeld' BY <1>1 DEF SeatInv, OrdersHeld, NoTier, Exists, SeatsTaken
<1> QED BY <1>3, <1>4, <1>5, <1>6, <1>7 DEF SeatInv

LEMMA TierCallSeats ==
  ASSUME SeatInv, ETypeOK', EntitiesPlanned', NEW c \in Callers, NEW e \in EventIds,
         TierCall(c, e)
  PROVE  SeatInv'
<1>0. tier[e] \in TierRow /\ c \in Callers \cup Buyers BY DEF SeatInv, ETypeOK
<1>1. \A q \in Nat, s \in {"ACTIVE", "DISABLED"} : StatusFor(q, s) \in {"ACTIVE", "DISABLED"}
  BY DEF StatusFor
<1>2. ASSUME NEW p \in Prices, NEW q \in Quantities, CreateTier(c, e, p, q)
      PROVE  SeatInv'
  <2> DEFINE new == [status |-> StatusFor(q, "ACTIVE"), price |-> p, total |-> q, sold |-> 0]
  <2>1. new \in TierRow /\ new.status # "NONE" /\ new.sold = 0
    BY <1>1, EventsAssumption DEF TierRow
  <2>2. e \notin raced => tier[e].sold = 0 BY <1>2, SeatFacts DEF CreateTier
  <2>3. BeginTierEdit(c, "save", e, new, "insert") BY <1>2 DEF CreateTier
  <2> HIDE DEF new
  <2> QED BY <1>0, <2>1, <2>2, <2>3, BeginTierSeats DEF Phases
<1>3. ASSUME NEW q \in Quantities, SetQuantity(c, e, q) PROVE SeatInv'
  <2> DEFINE new == [tier[e] EXCEPT !.total = q, !.status = StatusFor(q, @)]
  <2>1. new \in TierRow /\ new.status # "NONE" /\ new.sold = tier[e].sold
    BY <1>0, <1>1, <1>3, EventsAssumption DEF TierRow, SetQuantity, NoTier
  <2>2. BeginTierEdit(c, "save", e, new, "read") BY <1>3 DEF SetQuantity
  <2> HIDE DEF new
  <2> QED BY <1>0, <2>1, <2>2, BeginTierSeats DEF Phases
<1>4. ASSUME NEW p \in Prices, SetPrice(c, e, p) PROVE SeatInv'
  <2> DEFINE new == [tier[e] EXCEPT !.price = p]
  <2>1. new \in TierRow /\ new.status # "NONE" /\ new.sold = tier[e].sold
    BY <1>0, <1>4 DEF TierRow, SetPrice, NoTier
  <2>2. BeginTierEdit(c, "save", e, new, "read") BY <1>4 DEF SetPrice
  <2> HIDE DEF new
  <2> QED BY <1>0, <2>1, <2>2, BeginTierSeats DEF Phases
<1>5. CASE RegenerateCompLink(c, e)
  BY <1>0, <1>5, BeginTierSeats DEF RegenerateCompLink, Phases, NoTier
<1>6. CASE RemoveTier(c, e)
  BY <1>0, <1>6, BeginTierSeats DEF RemoveTier, Phases, NoTier
<1>7. CASE Resync(c, e)
  BY <1>0, <1>7, BeginTierSeats DEF Resync, NoTier
<1> QED BY <1>2, <1>3, <1>4, <1>5, <1>6, <1>7 DEF TierCall

\* The copy of a first instalment counts one seat more than the row.
LEMMA FirstInstalmentSeats ==
  ASSUME SeatInv, ETypeOK', EntitiesPlanned', NEW b \in Buyers, NEW e \in EventIds,
         FirstInstalment(b, e)
  PROVE  SeatInv'
<1> DEFINE new == [tier[e] EXCEPT !.sold = @ + 1]
<1>1. tier[e] \in TierRow /\ b \in Callers \cup Buyers BY DEF SeatInv, ETypeOK
<1>2. new \in TierRow /\ new.status # "NONE" /\ new.sold = tier[e].sold + 1
  BY <1>1 DEF TierRow, FirstInstalment, NoTier
<1>3. BeginTierEdit(b, "plan", e, new, "read") /\ e \in ordered BY DEF FirstInstalment
<1> HIDE DEF new
<1> QED BY <1>1, <1>2, <1>3, BeginTierSeats DEF Phases

LEMMA SaveSeats ==
  ASSUME SeatInv, ETypeOK', EntitiesPlanned',
         NEW x \in edits, EventLoad(x) \/ EventWrite(x) \/ EventRemove(x)
  PROVE  SeatInv'
<1>0. /\ x.id \in EventIds /\ Planned(x) /\ ETypeOK /\ tier[x.id] \in TierRow
      /\ event[x.id] \in EventRow
  BY DEF SeatInv, ETypeOK, EventEdit, EntitiesPlanned
<1>1. CASE EventLoad(x)
  <2>1. CopiesFresh' BY <1>1 DEF EventLoad, SeatInv, CopiesFresh
  <2> QED BY <1>1, <2>1, SeatsAlone DEF EventLoad, Exists
<1>2. CASE EventWrite(x)
  <2>1. CopiesFresh' BY <1>2 DEF EventWrite, SeatInv, CopiesFresh
  <2>2. \A e \in EventIds : Exists(e) => Exists(e)'
    BY <1>0, <1>2 DEF EventWrite, WrittenEvent, Exists, ETypeOK, Planned
  <2>3. \A e \in ordered : Exists(e) => Exists(e)' BY <1>0, <2>2 DEF ETypeOK
  <2> QED BY <1>2, <2>1, <2>3, SeatsAlone DEF EventWrite
<1>3. CASE EventRemove(x)
  <2>1. CASE UNCHANGED <<event, tier, counters>>
    <3>1. CopiesFresh' BY <1>3 DEF EventRemove, SeatInv, CopiesFresh
    <3> QED BY <1>3, <2>1, <3>1, SeatsAlone DEF EventRemove, Exists
  <2>2. CASE ~UNCHANGED <<event, tier, counters>>
    <3>1. /\ event' = [event EXCEPT ![x.id].status = "NONE"]
          /\ tier' = [tier EXCEPT ![x.id].status = "NONE", ![x.id].sold = 0]
          /\ ordered' = ordered \ {x.id}
          /\ sales' = [sales EXCEPT ![x.id] = 0]
          /\ planned' = [planned EXCEPT ![x.id] = 0]
          /\ again' = [again EXCEPT ![x.id] = 0]
          /\ uncounted' = uncounted \ {x.id}
          /\ raced' = IF Touched(x.id) THEN raced \cup {x.id} ELSE raced
          /\ healing' = healing \ {x.id}
          /\ tierEdits' = tierEdits /\ copies' = copies
      BY <1>3, <2>2 DEF EventRemove
    <3>2. /\ tier'[x.id].sold = 0 /\ sales'[x.id] = 0
          /\ planned'[x.id] = 0 /\ again'[x.id] = 0
          /\ \A e \in EventIds \ {x.id} :
               /\ event'[e] = event[e] /\ tier'[e] = tier[e] /\ sales'[e] = sales[e]
               /\ planned'[e] = planned[e] /\ again'[e] = again[e]
      BY <1>0, <3>1 DEF ETypeOK, TierRow
    <3>a. /\ SeatsTaken(x.id)' = 0
          /\ \A e \in EventIds \ {x.id} : SeatsTaken(e)' = SeatsTaken(e)
      BY <3>2 DEF SeatsTaken
    <3>3. raced \subseteq raced' /\ \A y \in tierEdits : y.id = x.id => x.id \in raced'
      BY <3>1 DEF Touched
    <3>4. RowsCounted'
      <4>1. Counted(x.id)' BY <3>2, <3>a DEF Counted
      <4>2. ASSUME NEW e \in EventIds \ raced', e # x.id PROVE Counted(e)'
        <5>1. e \notin raced /\ Counted(e) BY <3>3, <4>2 DEF SeatInv, RowsCounted
        <5>2. e \notin uncounted' => e \notin uncounted BY <3>1, <4>2
        <5> QED BY <3>2, <3>a, <4>2, <5>1, <5>2 DEF Counted
      <4> QED BY <4>1, <4>2 DEF RowsCounted
    <3>5. OrdersHeld'
      BY <1>0, <3>1, <3>2, <3>a DEF SeatInv, OrdersHeld, NoTier, Exists, ETypeOK
    <3>6. EntitiesCounted'
      <4>1. ASSUME NEW y \in tierEdits, y.id # x.id, y.id \notin raced
            PROVE  EntityCounted(y)'
        <5>1. y.id \in EventIds BY <1>0 DEF ETypeOK, TierEdit
        <5>2. EntityCounted(y) BY <4>1 DEF SeatInv, EntitiesCounted
        <5> QED BY <3>1, <3>2, <4>1, <5>1, <5>2 DEF EntityCounted
      <4> QED BY <3>1, <3>3, <4>1 DEF SeatInv, EntitiesCounted
    <3>7. HealingAlone' BY <1>0, <3>1, <3>2 DEF SeatInv, HealingAlone, Healing, ETypeOK
    <3>8. CopiesFresh' BY <3>1 DEF SeatInv, CopiesFresh
    <3> QED BY <3>4, <3>5, <3>6, <3>7, <3>8 DEF SeatInv
  <2> QED BY <2>1, <2>2
<1> QED BY <1>1, <1>2, <1>3

LEMMA ResyncSumSeats ==
  ASSUME SeatInv, ETypeOK', EntitiesPlanned', NEW x \in tierEdits, ResyncSum(x)
  PROVE  SeatInv'
<1>0. x \in TierEdit /\ x.id \in EventIds /\ x.new \in TierRow BY DEF SeatInv, ETypeOK, TierEdit
<1> DEFINE y == [x EXCEPT !.phase = "read", !.new.sold = sales[x.id]]
<1>1. /\ y.id = x.id /\ y.op = x.op /\ y.copy = x.copy /\ y.phase = "read"
      /\ y.new.sold = sales[x.id] /\ y.new.status = x.new.status
      /\ x.op = "resync"
  BY <1>0 DEF TierEdit, TierRow, ResyncSum, SeatInv, EntitiesCounted
<1>2. /\ UNCHANGED <<event, tier, copies, seats, raced, uncounted>>
      /\ healing' \subseteq healing \cup {x.id}
      /\ tierEdits' \subseteq (tierEdits \ {x}) \cup {y}
  BY DEF ResyncSum
<1>3. EntitiesCounted'
  <2> HIDE DEF y
  <2>1. ASSUME NEW z \in tierEdits', z = y
        PROVE  EntityCounted(z)' /\ z.phase # "sum" /\ z.new.status = x.new.status
               /\ z.op = x.op
    <3>1. z.op = "resync" /\ z.phase = "read" /\ z.id = x.id /\ z.new.sold = sales[x.id]
          /\ z.new.status = x.new.status
      BY <1>1, <2>1
    <3> QED BY <1>1, <1>2, <3>1 DEF EntityCounted
  <2>2. \A z \in tierEdits : EntityCounted(z) => EntityCounted(z)'
    BY <1>2 DEF EntityCounted
  <2>3. \A z \in tierEdits' : z = y \/ z \in tierEdits BY <1>2
  <2>4. x.op # "remove" /\ x.new.status # "NONE" BY <1>1 DEF SeatInv, EntitiesCounted
  <2>5. ASSUME NEW z \in tierEdits'
        PROVE  /\ z.id \notin raced' => EntityCounted(z)'
               /\ z.op # "remove" => z.new.status # "NONE"
               /\ z.phase = "sum" => z.op = "resync"
    <3>1. CASE z = y BY <2>1, <2>4, <3>1
    <3>2. CASE z \in tierEdits BY <1>2, <2>2, <3>2 DEF SeatInv, EntitiesCounted
    <3> QED BY <2>3, <3>1, <3>2
  <2> QED BY <2>5 DEF EntitiesCounted
<1>4. HealingAlone'
  <2>1. CASE tierEdits' = tierEdits \ {x} /\ healing' = healing
    BY <1>2, <2>1 DEF SeatInv, HealingAlone, Healing
  <2>2. CASE /\ tierEdits' = (tierEdits \ {x}) \cup {y}
             /\ healing' = IF \E z \in tierEdits \ {x} : z.id = x.id THEN healing
                           ELSE healing \cup {x.id}
    <3> HIDE DEF y
    <3>1. ASSUME NEW e \in healing', e # x.id PROVE Healing(e)'
      <4>1. e \in healing BY <2>2, <3>1
      <4> QED BY <1>1, <1>2, <2>2, <3>1, <4>1 DEF SeatInv, HealingAlone, Healing
    <3>2. ASSUME x.id \in healing' PROVE Healing(x.id)'
      <4>1. \A z \in tierEdits \ {x} : z.id # x.id
        BY <2>2, <3>2 DEF SeatInv, HealingAlone, Healing
      <4> QED BY <1>1, <1>2, <2>2, <4>1 DEF Healing
    <3> QED BY <3>1, <3>2 DEF HealingAlone
  <2> QED BY <2>1, <2>2 DEF ResyncSum
<1>5. RowsCounted' BY <1>2 DEF SeatInv, RowsCounted, Counted, SeatsTaken
<1>6. OrdersHeld' BY <1>2 DEF SeatInv, OrdersHeld, NoTier, Exists, SeatsTaken
<1>7. CopiesFresh' BY <1>2 DEF SeatInv, CopiesFresh
<1> QED BY <1>3, <1>4, <1>5, <1>6, <1>7 DEF SeatInv

LEMMA TierLoadSeats ==
  ASSUME SeatInv, ETypeOK', EntitiesPlanned', NEW x \in tierEdits, TierLoad(x)
  PROVE  SeatInv'
<1>0. x \in TierEdit /\ x.id \in EventIds /\ tier[x.id] \in TierRow
  BY DEF SeatInv, ETypeOK, TierEdit
<1> DEFINE y == [x EXCEPT !.phase = IF NoTier(x.id) THEN "insert" ELSE "update",
                          !.cols = {f \in TierColumns : x.new[f] # tier[x.id][f]}]
<1>1. /\ y.id = x.id /\ y.op = x.op /\ y.copy = x.copy /\ y.new = x.new
      /\ "sold" \in y.cols \/ tier[x.id].sold = x.new.sold
      /\ y.phase = IF NoTier(x.id) THEN "insert" ELSE "update"
      /\ x.phase = "read"
  BY <1>0 DEF TierEdit, TierColumns, TierLoad
<1>2. /\ UNCHANGED <<event, tier, copies, counters>>
      /\ tierEdits' = (tierEdits \ {x}) \cup {y}
  BY DEF TierLoad
<1> HIDE DEF y
<1>3. EntitiesCounted'
  <2>1. ASSUME x.id \notin raced PROVE EntityCounted(y)
    <3>1. EntityCounted(x) BY <2>1 DEF SeatInv, EntitiesCounted
    <3>2. x.op = "plan" => ~NoTier(x.id) BY <3>1 DEF EntityCounted, SeatInv, OrdersHeld
    <3>3. tier[x.id].sold \in Nat BY <1>0 DEF TierRow
    <3> QED BY <1>1, <3>1, <3>2, <3>3 DEF EntityCounted
  <2>2. \A z \in tierEdits' : EntityCounted(z) => EntityCounted(z)'
    BY <1>2 DEF EntityCounted, counters
  <2>3. \A z \in tierEdits' : z.id \notin raced => EntityCounted(z)
    BY <1>1, <1>2, <2>1 DEF SeatInv, EntitiesCounted
  <2> QED BY <1>1, <1>2, <2>2, <2>3 DEF SeatInv, EntitiesCounted, counters
<1>4. HealingAlone'
  BY <1>1, <1>2 DEF SeatInv, HealingAlone, Healing, counters
<1>5. RowsCounted' BY <1>2 DEF SeatInv, RowsCounted, Counted, SeatsTaken, counters
<1>6. OrdersHeld' BY <1>2 DEF SeatInv, OrdersHeld, NoTier, Exists, SeatsTaken, counters
<1>7. CopiesFresh' BY <1>2 DEF SeatInv, CopiesFresh
<1> QED BY <1>3, <1>4, <1>5, <1>6, <1>7 DEF SeatInv

LEMMA TierWriteSeats ==
  ASSUME SeatInv, ETypeOK', EntitiesPlanned', NEW x \in tierEdits, TierWrite(x)
  PROVE  SeatInv'
<1> DEFINE e == x.id
<1>0. /\ x \in TierEdit /\ e \in EventIds /\ tier[e] \in TierRow /\ x.new \in TierRow
      /\ x.new.status # "NONE" /\ ETypeOK /\ x.op # "remove"
      /\ x.phase \in {"update", "insert"}
  BY DEF SeatInv, ETypeOK, TierEdit, EntitiesCounted, TierWrite
<1>1. /\ UNCHANGED <<event, copies, ordered, sales, again>>
      /\ tierEdits' = tierEdits \ {x}
      /\ healing' = healing \ {e}
      /\ \A d \in EventIds \ {e} :
           /\ tier'[d] = tier[d] /\ planned'[d] = planned[d]
           /\ (d \in raced' <=> d \in raced) /\ (d \in uncounted' <=> d \in uncounted)
  BY <1>0 DEF TierWrite, ETypeOK
<1>2. /\ planned'[e] = IF x.op = "plan" THEN planned[e] + 1 ELSE planned[e]
      /\ x.op = "plan" => e \in ordered
  BY <1>0 DEF TierWrite, ETypeOK
<1>3. /\ ~NoTier(e) => ~NoTier(e)'
      /\ tier'[e].sold =
           IF \/ x.phase = "update" /\ ~NoTier(e) /\ "sold" \in x.cols
              \/ x.phase = "insert" /\ NoTier(e) /\ Exists(e)
           THEN x.new.sold ELSE tier[e].sold
  <2>1. tier'[e] = IF x.phase = "update" /\ ~NoTier(e) THEN WrittenTier(x, tier[e])
                   ELSE IF x.phase = "insert" /\ NoTier(e) /\ Exists(e) THEN x.new
                   ELSE tier[e]
    BY <1>0 DEF TierWrite, ETypeOK
  <2>2. /\ WrittenTier(x, tier[e]).sold =
             IF "sold" \in x.cols THEN x.new.sold ELSE tier[e].sold
        /\ WrittenTier(x, tier[e]).status =
             IF "status" \in x.cols THEN x.new.status ELSE tier[e].status
    BY DEF WrittenTier
  <2>3. CASE x.phase = "update" BY <1>0, <2>1, <2>2, <2>3 DEF NoTier
  <2>4. CASE x.phase = "insert" BY <1>0, <2>1, <2>4 DEF NoTier
  <2> QED BY <1>0, <2>3, <2>4
<1>4. /\ sales[e] \in Nat /\ planned[e] \in Nat /\ again[e] \in Nat
      /\ SeatsTaken(e) = sales[e] + planned[e] + again[e]
      /\ SeatsTaken(e)' = sales[e] + planned'[e] + again[e]
      /\ tier[e].sold \in Nat
      /\ NoTier(e) => sales[e] = 0 /\ SeatsTaken(e) = 0
      /\ NoTier(e) /\ e \notin raced => tier[e].sold = 0
  BY <1>0, <1>1, SeatFacts DEF SeatsTaken
<1>5. raced' = IF Heals(x) THEN raced \ {e} ELSE IF Races(x) THEN raced \cup {e} ELSE raced
  BY DEF TierWrite
<1>6. \A d \in EventIds \ {e} : SeatsTaken(d)' = SeatsTaken(d)
  BY <1>1 DEF SeatsTaken
<1>7. OrdersHeld'
  <2>1. SeatsTaken(e)' > 0 => e \in ordered
    <3>1. SeatsTaken(e) > 0 => e \in ordered BY <1>0 DEF SeatInv, OrdersHeld
    <3>2. x.op # "plan" => SeatsTaken(e)' = SeatsTaken(e) BY <1>2, <1>4
    <3> QED BY <1>2, <3>1, <3>2
  <2>2. \A d \in EventIds : SeatsTaken(d)' > 0 => d \in ordered'
    BY <1>1, <1>6, <2>1 DEF SeatInv, OrdersHeld
  <2>3. \A d \in ordered : ~NoTier(d)' /\ Exists(d)'
    BY <1>0, <1>1, <1>3 DEF SeatInv, OrdersHeld, NoTier, Exists, ETypeOK
  <2> QED BY <1>1, <2>2, <2>3 DEF OrdersHeld
<1>8. CopiesFresh' BY <1>1 DEF SeatInv, CopiesFresh
<1>9. HealingAlone'
  <2>1. \A y \in tierEdits : y.id \in EventIds BY <1>0 DEF ETypeOK, TierEdit
  <2> QED BY <1>0, <1>1, <2>1 DEF SeatInv, HealingAlone, Healing, ETypeOK
<1> DEFINE Rest == \A y \in tierEdits' : y.id = e /\ e \notin raced' => EntityCounted(y)'
<1>10. ASSUME e \notin raced' => Counted(e)', Rest PROVE SeatInv'
  <2>1. RowsCounted' BY <1>1, <1>6, <1>10 DEF SeatInv, RowsCounted, Counted
  <2>2. ASSUME NEW y \in tierEdits', y.id # e, y.id \notin raced'
        PROVE  EntityCounted(y)'
    <3>1. y \in tierEdits /\ y.id \in EventIds BY <1>0, <1>1 DEF ETypeOK, TierEdit
    <3>2. EntityCounted(y) BY <1>1, <2>2, <3>1 DEF SeatInv, EntitiesCounted
    <3> QED BY <1>1, <2>2, <3>1, <3>2 DEF EntityCounted
  <2>3. EntitiesCounted' BY <1>1, <1>10, <2>2 DEF SeatInv, EntitiesCounted
  <2> QED BY <1>7, <1>8, <1>9, <2>1, <2>3 DEF SeatInv
<1>11. CASE e \in raced' BY <1>10, <1>11
<1>12. CASE Heals(x)
  <2>1. /\ x.new.sold = sales[e]
        /\ x.phase = "update" /\ ~NoTier(e) /\ x.op = "resync"
        /\ "sold" \in x.cols \/ tier[e].sold = sales[e]
        /\ \A y \in tierEdits : y.id = e => y = x
    BY <1>12 DEF Heals, SeatInv, HealingAlone, Healing
  <2>2. tier'[e].sold = sales[e] BY <1>3, <2>1
  <2>3. uncounted' = IF planned[e] + again[e] > 0 THEN uncounted \cup {e}
                     ELSE uncounted \ {e}
    BY <1>12 DEF TierWrite
  <2>4. Counted(e)' BY <1>2, <1>4, <2>1, <2>2, <2>3 DEF Counted
  <2>5. Rest BY <1>1, <2>1
  <2> QED BY <1>10, <2>4, <2>5
<1>13. CASE e \notin raced' /\ ~Heals(x)
  <2>1. e \notin raced /\ ~Races(x) BY <1>5, <1>13
  <2>2. uncounted' = uncounted BY <1>13 DEF TierWrite
  <2>3. Counted(e) /\ EntityCounted(x)
    BY <1>0, <2>1 DEF SeatInv, RowsCounted, EntitiesCounted
  <2>4. ASSUME tier'[e].sold = tier[e].sold, planned'[e] = planned[e] PROVE SeatInv'
    <3>1. Counted(e)' BY <1>4, <2>2, <2>3, <2>4 DEF Counted
    <3>2. Rest
      <4>1. \A y \in tierEdits : y.id = e => EntityCounted(y)
        BY <2>1 DEF SeatInv, EntitiesCounted
      <4> QED BY <1>1, <2>4, <4>1 DEF EntityCounted
    <3> QED BY <1>10, <3>1, <3>2
  <2>5. CASE x.op = "save"
    BY <1>2, <1>3, <2>3, <2>4, <2>5 DEF EntityCounted
  <2>6. CASE x.op = "plan"
    <3>1. ~NoTier(e) /\ x.phase = "update" /\ "sold" \in x.cols
          /\ x.new.sold = tier[e].sold + 1
      BY <1>0, <2>3, <2>6 DEF EntityCounted, SeatInv, OrdersHeld
    <3>2. tier'[e].sold = tier[e].sold + 1 BY <1>3, <3>1
    <3>3. SeatsTaken(e)' = SeatsTaken(e) + 1
      <4>1. \A a, b, c \in Nat : a + (b + 1) + c = (a + b + c) + 1 OBVIOUS
      <4> QED BY <1>2, <1>4, <2>6, <4>1
    <3>4. SeatsTaken(e) \in Nat BY <1>0, SeatFacts
    <3>5. Counted(e)' BY <1>4, <2>2, <2>3, <3>2, <3>3, <3>4 DEF Counted
    <3>6. Rest BY <1>1, <2>1, <2>6 DEF Races
    <3> QED BY <1>10, <3>5, <3>6
  <2>7. CASE x.op = "resync"
    <3>1. e \in healing BY <2>1, <2>7 DEF Races
    <3>2. x.phase = "insert" \/ NoTier(e) BY <1>0, <1>13, <2>7, <3>1 DEF Heals
    <3>3. x.new.sold = sales[e] BY <3>1 DEF SeatInv, HealingAlone, Healing
    <3>4. tier'[e].sold = tier[e].sold BY <1>3, <1>4, <2>1, <3>2, <3>3
    <3> QED BY <1>2, <2>4, <2>7, <3>4
  <2> QED BY <1>0, <2>5, <2>6, <2>7 DEF TierEdit
<1> QED BY <1>11, <1>12, <1>13

LEMMA TierRemoveSeats ==
  ASSUME SeatInv, ETypeOK', EntitiesPlanned', NEW x \in tierEdits, TierRemove(x)
  PROVE  SeatInv'
<1>0. x.id \in EventIds /\ tier[x.id] \in TierRow /\ ETypeOK
  BY DEF SeatInv, ETypeOK, TierEdit
<1>1. /\ UNCHANGED <<event, copies, seats, raced, uncounted>>
      /\ tierEdits' = tierEdits \ {x}
      /\ healing' = healing \ {x.id}
      /\ \A e \in EventIds : tier'[e].sold = tier[e].sold
      /\ \A e \in ordered : tier'[e].status = tier[e].status
  BY <1>0 DEF TierRemove, ETypeOK, TierRow
<1>2. RowsCounted' BY <1>1 DEF SeatInv, RowsCounted, Counted, SeatsTaken
<1>3. OrdersHeld' BY <1>1 DEF SeatInv, OrdersHeld, NoTier, Exists, SeatsTaken
<1>4. HealingAlone'
  BY <1>0, <1>1 DEF SeatInv, HealingAlone, Healing, ETypeOK
<1>5. EntitiesCounted'
  <2>1. \A y \in tierEdits : y.id \in EventIds BY <1>0 DEF ETypeOK, TierEdit
  <2> QED BY <1>1, <2>1 DEF SeatInv, EntitiesCounted, EntityCounted
<1>6. CopiesFresh' BY <1>1 DEF SeatInv, CopiesFresh
<1> QED BY <1>2, <1>3, <1>4, <1>5, <1>6 DEF SeatInv

LEMMA PlanGoneSeats ==
  ASSUME SeatInv, ETypeOK', EntitiesPlanned', NEW x \in tierEdits, PlanGone(x)
  PROVE  SeatInv'
<1>1. UNCHANGED <<event, tier, copies, counters>> /\ tierEdits' = tierEdits \ {x}
  BY DEF PlanGone
<1>2. RowsCounted' BY <1>1 DEF SeatInv, RowsCounted, Counted, SeatsTaken, counters
<1>3. OrdersHeld' BY <1>1 DEF SeatInv, OrdersHeld, NoTier, Exists, SeatsTaken, counters
<1>4. HealingAlone' BY <1>1 DEF SeatInv, HealingAlone, Healing, counters
<1>5. EntitiesCounted' BY <1>1 DEF SeatInv, EntitiesCounted, EntityCounted, counters
<1>6. CopiesFresh' BY <1>1 DEF SeatInv, CopiesFresh
<1> QED BY <1>2, <1>3, <1>4, <1>5, <1>6 DEF SeatInv

LEMMA DuplicateTierSeats ==
  ASSUME SeatInv, ETypeOK', EntitiesPlanned', NEW x \in copies, DuplicateTier(x)
  PROVE  SeatInv'
<1>0. /\ x.to \in EventIds /\ x.tier \in TierRow /\ ETypeOK
      /\ x.tier.status # "NONE" /\ x.tier.sold = 0
  BY DEF SeatInv, ETypeOK, Copy, CopiesFresh
<1>1. /\ UNCHANGED <<event, tierEdits, seats, raced, uncounted>>
      /\ copies' = copies \ {x}
      /\ healing' = healing \ {x.to}
      /\ \A e \in EventIds \ {x.to} : tier'[e] = tier[e]
  BY <1>0 DEF DuplicateTier, ETypeOK
<1>2. \/ tier'[x.to] = tier[x.to]
      \/ NoTier(x.to) /\ tier'[x.to].sold = 0 /\ tier'[x.to].status # "NONE"
  BY <1>0 DEF DuplicateTier, ETypeOK
<1>3. \A e \in EventIds :
        /\ e \notin raced => tier'[e].sold = tier[e].sold
        /\ ~NoTier(e) => ~NoTier(e)'
  BY <1>0, <1>1, <1>2, SeatFacts DEF NoTier
<1>4. RowsCounted' BY <1>1, <1>3 DEF SeatInv, RowsCounted, Counted, SeatsTaken
<1>5. OrdersHeld'
  <2>1. \A e \in ordered : e \in EventIds BY <1>0 DEF ETypeOK
  <2> QED BY <1>1, <1>3, <2>1 DEF SeatInv, OrdersHeld, Exists, SeatsTaken
<1>6. EntitiesCounted'
  <2>1. \A y \in tierEdits : y.id \in EventIds BY <1>0 DEF ETypeOK, TierEdit
  <2> QED BY <1>1, <1>3, <2>1 DEF SeatInv, EntitiesCounted, EntityCounted
<1>7. HealingAlone'
  <2>1. \A e \in healing : e \in EventIds BY <1>0 DEF ETypeOK
  <2> QED BY <1>1, <2>1 DEF SeatInv, HealingAlone, Healing
<1>8. CopiesFresh' BY <1>1 DEF SeatInv, CopiesFresh
<1> QED BY <1>4, <1>5, <1>6, <1>7, <1>8 DEF SeatInv

LEMMA SaleSeats ==
  ASSUME SeatInv, ETypeOK', EntitiesPlanned', NEW e \in EventIds,
         Order(e) \/ Sell(e) \/ GiveBack(e) \/ LastInstalment(e) \/ SellAgain(e)
  PROVE  SeatInv'
<1>0. /\ ETypeOK /\ tier[e] \in TierRow /\ tier[e].sold \in Nat /\ sales[e] \in Nat
      /\ planned[e] \in Nat /\ again[e] \in Nat
      /\ SeatsTaken(e) = sales[e] + planned[e] + again[e]
      /\ SeatsTaken(e) > 0 => e \in ordered
  BY SeatFacts DEF SeatInv, SeatsTaken, OrdersHeld
<1>1. CASE Order(e)
  <2>1. OrdersHeld' BY <1>1 DEF Order, SeatInv, OrdersHeld, NoTier, Exists, SeatsTaken
  <2>2. RowsCounted' BY <1>1 DEF Order, SeatInv, RowsCounted, Counted, SeatsTaken
  <2>3. EntitiesCounted'
    BY <1>1 DEF Order, calls, SeatInv, EntitiesCounted, EntityCounted
  <2> QED
    BY <1>1, <2>1, <2>2, <2>3 DEF Order, calls, SeatInv, HealingAlone, Healing, CopiesFresh
<1>2. CASE Sell(e) \/ GiveBack(e) \/ LastInstalment(e) \/ SellAgain(e)
  <2>1. /\ UNCHANGED <<event, ordered, tierEdits, copies, uncounted>>
        /\ Disturb(e)
        /\ \A d \in EventIds \ {e} :
             /\ tier'[d] = tier[d] /\ sales'[d] = sales[d]
             /\ planned'[d] = planned[d] /\ again'[d] = again[d]
        /\ tier'[e].status = tier[e].status
    BY <1>0, <1>2 DEF Sell, GiveBack, LastInstalment, SellAgain, calls, ETypeOK, TierRow
  <2>a. /\ SeatsTaken(e)' = sales'[e] + planned'[e] + again'[e]
        /\ \A d \in EventIds \ {e} : SeatsTaken(d)' = SeatsTaken(d)
    BY <2>1 DEF SeatsTaken
  <2>b. /\ tier[e].sold = SeatsTaken(e) => tier'[e].sold = SeatsTaken(e)'
        /\ tier[e].sold <= SeatsTaken(e) => tier'[e].sold <= SeatsTaken(e)'
        /\ e \in ordered
    <3>1. CASE Sell(e)
      <4>1. /\ tier'[e].sold = tier[e].sold + 1 /\ sales'[e] = sales[e] + 1
            /\ planned' = planned /\ again' = again /\ e \in ordered
        BY <1>0, <3>1 DEF Sell, ETypeOK, TierRow
      <4> QED BY <1>0, <2>a, <4>1
    <3>2. CASE GiveBack(e)
      <4>1. /\ tier'[e].sold = Fewer(tier[e].sold) /\ sales'[e] = sales[e] - 1
            /\ planned' = planned /\ again' = again /\ sales[e] > 0
        BY <1>0, <3>2 DEF GiveBack, ETypeOK, TierRow
      <4> QED BY <1>0, <2>a, <4>1 DEF Fewer
    <3>3. CASE LastInstalment(e)
      <4>1. /\ tier' = tier /\ sales'[e] = sales[e] + 1
            /\ planned'[e] = planned[e] - 1 /\ again' = again /\ planned[e] > 0
        BY <1>0, <3>3 DEF LastInstalment, ETypeOK
      <4> QED BY <1>0, <2>a, <4>1
    <3>4. CASE SellAgain(e)
      <4>1. /\ tier'[e].sold = tier[e].sold + 1 /\ again'[e] = again[e] + 1
            /\ planned' = planned /\ sales' = sales /\ sales[e] > 0
        BY <1>0, <3>4 DEF SellAgain, ETypeOK, TierRow
      <4> QED BY <1>0, <2>a, <4>1
    <3> QED BY <1>2, <3>1, <3>2, <3>3, <3>4
  <2>2. raced \subseteq raced' /\ \A x \in tierEdits : x.id = e => e \in raced'
    BY <2>1 DEF Disturb, Touched
  <2>3. RowsCounted' BY <2>1, <2>2, <2>a, <2>b DEF SeatInv, RowsCounted, Counted
  <2>4. EntitiesCounted'
    <3>1. ASSUME NEW y \in tierEdits, y.id # e, y.id \notin raced
          PROVE  EntityCounted(y)'
      <4>1. y.id \in EventIds BY <1>0 DEF ETypeOK, TierEdit
      <4>2. EntityCounted(y) BY <3>1 DEF SeatInv, EntitiesCounted
      <4> QED BY <2>1, <3>1, <4>1, <4>2 DEF EntityCounted
    <3> QED BY <2>1, <2>2, <3>1 DEF SeatInv, EntitiesCounted
  <2>5. HealingAlone' BY <1>0, <2>1 DEF Disturb, SeatInv, HealingAlone, Healing, ETypeOK
  <2>6. OrdersHeld'
    BY <1>0, <2>1, <2>a, <2>b DEF SeatInv, OrdersHeld, NoTier, Exists, ETypeOK
  <2>7. CopiesFresh' BY <2>1 DEF SeatInv, CopiesFresh
  <2> QED BY <2>3, <2>4, <2>5, <2>6, <2>7 DEF SeatInv
<1> QED BY <1>1, <1>2

EditInv == ReviewInv /\ IdsUsed /\ SeatInv

LEMMA EditNext == EditInv /\ [ENext]_evars => EditInv'
<1> SUFFICES ASSUME EditInv, [ENext]_evars PROVE EditInv' OBVIOUS
<1>0. ReviewInv' /\ IdsUsed' BY ReviewNext, UsedNext DEF EditInv, ReviewInv
<1>a. ETypeOK' /\ EntitiesPlanned' BY <1>0 DEF ReviewInv
<1>b. SeatInv /\ IdsUsed BY DEF EditInv
<1>1. ASSUME NEW c \in Callers, NEW e \in EventIds, EventCall(c, e) \/ TierCall(c, e)
      PROVE  SeatInv'
  BY <1>a, <1>b, <1>1, EventCallSeats, TierCallSeats
<1>2. ASSUME NEW x \in edits, EventLoad(x) \/ EventWrite(x) \/ EventRemove(x)
      PROVE  SeatInv'
  BY <1>a, <1>b, <1>2, SaveSeats
<1>3. ASSUME NEW x \in tierEdits,
             ResyncSum(x) \/ TierLoad(x) \/ TierWrite(x) \/ TierRemove(x) \/ PlanGone(x)
      PROVE  SeatInv'
  BY <1>a, <1>b, <1>3, ResyncSumSeats, TierLoadSeats, TierWriteSeats, TierRemoveSeats,
     PlanGoneSeats
<1>4. ASSUME NEW x \in copies, DuplicateTier(x) PROVE SeatInv'
  BY <1>a, <1>b, <1>4, DuplicateTierSeats
<1>5. ASSUME NEW e \in EventIds,
             Order(e) \/ Sell(e) \/ GiveBack(e) \/ LastInstalment(e) \/ SellAgain(e)
      PROVE  SeatInv'
  BY <1>a, <1>b, <1>5, SaleSeats
<1>9. ASSUME NEW b \in Buyers, NEW e \in EventIds, FirstInstalment(b, e) PROVE SeatInv'
  BY <1>a, <1>b, <1>9, FirstInstalmentSeats
<1>6. ASSUME Crash PROVE SeatInv'
  <2>1. UNCHANGED <<event, tier, seats, raced, uncounted>>
    BY <1>6 DEF Crash
  <2>2. tierEdits' = {} /\ copies' = {} /\ healing' = {} BY <1>6 DEF Crash
  <2>3. RowsCounted' BY <2>1, <1>b DEF SeatInv, RowsCounted, Counted, SeatsTaken
  <2>4. OrdersHeld' BY <2>1, <1>b DEF SeatInv, OrdersHeld, NoTier, Exists, SeatsTaken
  <2>5. EntitiesCounted' /\ CopiesFresh' /\ HealingAlone'
    BY <2>2 DEF EntitiesCounted, CopiesFresh, HealingAlone
  <2> QED BY <1>a, <2>3, <2>4, <2>5 DEF SeatInv
<1>7. ASSUME UNCHANGED evars PROVE SeatInv'
  <2>1. UNCHANGED <<event, tier, counters, tierEdits, copies>>
    BY <1>7 DEF evars, calls
  <2>2. CopiesFresh' /\ \A e \in ordered : Exists(e) => Exists(e)'
    BY <2>1, <1>b DEF SeatInv, CopiesFresh, Exists
  <2> QED BY <1>a, <1>b, <2>1, <2>2, SeatsAlone
<1>8. SeatInv'
  <2>1. CASE UNCHANGED evars BY <1>7, <2>1
  <2>2. CASE ENext
    BY <1>1, <1>2, <1>3, <1>4, <1>5, <1>6, <1>9, <2>2 DEF ENext
  <2> QED BY <2>1, <2>2
<1> QED BY <1>0, <1>8 DEF EditInv

LEMMA EditInit == EInit => EditInv
<1>1. EInit => IdsUsed BY DEF EInit, IdsUsed
<1> QED BY <1>1, ReviewInit, SeatInit DEF EditInv

\* A tier's count is right unless something changed it during an edit, and a
\* resync makes it right again, but for the seats of plans paid in part.
THEOREM SeatsAreCounted == ESpec => []SeatsCounted
<1>1. EditInv => SeatsCounted
  BY DEF EditInv, SeatInv, RowsCounted, Counted, SeatsCounted
<1> QED BY <1>1, EditInit, EditNext, PTL DEF ESpec

\* Sold seats keep their tier and event, whatever is removed.
THEOREM SoldTiersStay == ESpec => []SoldTierStays
<1>1. EditInv => SoldTierStays
  BY DEF EditInv, SeatInv, OrdersHeld, SoldTierStays
<1> QED BY <1>1, EditInit, EditNext, PTL DEF ESpec

\* The step formula of SellsWithinCapacity.
WithinCapacity ==
  \A e \in EventIds :
    sales'[e] > sales[e] =>
      \/ SeatsTaken(e)' <= tier[e].total
      \/ planned'[e] < planned[e]
      \/ e \in raced \cup uncounted

LEMMA StepWithinCapacity == EditInv /\ [ENext]_evars => WithinCapacity
<1> SUFFICES ASSUME EditInv, [ENext]_evars PROVE WithinCapacity OBVIOUS
<1>0. /\ RowsCounted /\ SeatInv
      /\ \A e \in EventIds : sales[e] \in Nat /\ tier[e].total \in Nat /\ planned[e] \in Nat
      /\ sales \in [EventIds -> Nat] /\ planned \in [EventIds -> Nat]
  BY DEF EditInv, SeatInv, ETypeOK, TierRow
<1>1. ASSUME NEW e \in EventIds, Sell(e) PROVE WithinCapacity
  <2>1. /\ \A d \in EventIds \ {e} : sales'[d] = sales[d]
        /\ sales'[e] = sales[e] + 1 /\ planned'[e] = planned[e] /\ again'[e] = again[e]
        /\ tier[e].sold < tier[e].total
    BY <1>0, <1>1 DEF Sell, SeatsLeft
  <2>2. /\ sales[e] \in Nat /\ planned[e] \in Nat /\ again[e] \in Nat
        /\ tier[e].sold \in Nat /\ SeatsTaken(e) \in Nat
    BY <1>0, SeatFacts
  <2>3. SeatsTaken(e)' = SeatsTaken(e) + 1 BY <2>1, <2>2 DEF SeatsTaken
  <2>4. e \in raced \cup uncounted \/ tier[e].sold = SeatsTaken(e)
    BY <1>0 DEF RowsCounted, Counted
  <2>5. \A d \in EventIds \ {e} : ~(sales'[d] > sales[d]) BY <1>0, <2>1
  <2> QED BY <1>0, <2>1, <2>2, <2>3, <2>4, <2>5 DEF WithinCapacity
<1>12. ASSUME NEW e \in EventIds, LastInstalment(e) PROVE WithinCapacity
  <2>1. /\ \A d \in EventIds \ {e} : sales'[d] = sales[d]
        /\ planned'[e] = planned[e] - 1
    BY <1>0, <1>12 DEF LastInstalment
  <2>2. planned'[e] < planned[e] BY <1>0, <2>1
  <2>3. \A d \in EventIds \ {e} : ~(sales'[d] > sales[d]) BY <1>0, <2>1
  <2> QED BY <2>2, <2>3 DEF WithinCapacity
<1>a. \A e \in EventIds : sales'[e] \in Nat
  BY EditNext DEF EditInv, SeatInv, ETypeOK
<1>2. ASSUME \A e \in EventIds : sales'[e] <= sales[e] PROVE WithinCapacity
  <2>1. ASSUME NEW e \in EventIds PROVE ~(sales'[e] > sales[e])
    BY <1>0, <1>a, <1>2, <2>1
  <2> QED BY <2>1 DEF WithinCapacity
<1>3. ASSUME NEW e \in EventIds, GiveBack(e) PROVE WithinCapacity
  <2>1. sales'[e] = sales[e] - 1 /\ \A d \in EventIds \ {e} : sales'[d] = sales[d]
    BY <1>0, <1>3 DEF GiveBack
  <2>2. \A d \in EventIds : sales'[d] <= sales[d] BY <1>0, <2>1
  <2> QED BY <1>2, <2>2
<1>4. ASSUME sales' = sales PROVE WithinCapacity BY <1>0, <1>2, <1>4
<1>5. ASSUME NEW x \in edits, EventRemove(x) PROVE WithinCapacity
  <2>1. x.id \in EventIds BY DEF EditInv, SeatInv, ETypeOK, EventEdit
  <2>2. sales' = sales \/ sales' = [sales EXCEPT ![x.id] = 0]
    BY <1>5 DEF EventRemove, counters
  <2>3. \A d \in EventIds : sales'[d] <= sales[d] BY <1>0, <2>1, <2>2
  <2> QED BY <1>2, <2>3
<1>6. ASSUME NEW c \in Callers, NEW e \in EventIds, EventCall(c, e) \/ TierCall(c, e)
      PROVE  WithinCapacity
  BY <1>4, <1>6 DEF EventCall, BeginEdit, Create, Update, SubmitForReview, Approve, Reject,
     Publish, Unpublish, CommitBanner, RemoveBanner, Remove, Duplicate, TierCall, CreateTier,
     SetQuantity, SetPrice, RegenerateCompLink, RemoveTier, Resync, BeginTierEdit, counters
<1>7. ASSUME NEW x \in edits, EventLoad(x) \/ EventWrite(x) PROVE WithinCapacity
  BY <1>4, <1>7 DEF EventLoad, EventWrite, counters
<1>8. ASSUME NEW x \in tierEdits,
             ResyncSum(x) \/ TierLoad(x) \/ TierWrite(x) \/ TierRemove(x) \/ PlanGone(x)
      PROVE  WithinCapacity
  BY <1>4, <1>8 DEF ResyncSum, TierLoad, TierWrite, TierRemove, PlanGone, counters
<1>9. ASSUME NEW x \in copies, DuplicateTier(x) PROVE WithinCapacity
  BY <1>4, <1>9 DEF DuplicateTier
<1>10. ASSUME NEW e \in EventIds, Order(e) \/ SellAgain(e) PROVE WithinCapacity
  BY <1>4, <1>10 DEF Order, SellAgain
<1>13. ASSUME NEW b \in Buyers, NEW e \in EventIds, FirstInstalment(b, e)
       PROVE  WithinCapacity
  BY <1>4, <1>13 DEF FirstInstalment, BeginTierEdit
<1>11. Crash \/ UNCHANGED evars => WithinCapacity
  BY <1>4 DEF Crash, evars, counters
<1> QED
  BY <1>1, <1>3, <1>5, <1>6, <1>7, <1>8, <1>9, <1>10, <1>11, <1>12, <1>13 DEF ENext

\* A one-time sale beyond the capacity follows an edit that overtook the count,
\* or a resync that dropped the seats of plans.
THEOREM SellsWithin == ESpec => SellsWithinCapacity
<1>1. EditInv /\ [ENext]_evars => [WithinCapacity]_evars BY StepWithinCapacity
<1> QED
  BY <1>1, EditInit, EditNext, PTL DEF ESpec, SellsWithinCapacity, WithinCapacity
=============================================================================

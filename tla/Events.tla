------------------------------- MODULE Events -------------------------------
(***************************************************************************)
(* Listings: the review cycle of an event (EventsService), its ticket tier  *)
(* (TicketTypesService, one per event here) and the count of seats sold     *)
(* that sales, instalment plans, refunds and the administrators' resync     *)
(* keep beside them.                                                        *)
(* Every editing call reads a row, checks it, changes it and saves it; the  *)
(* save reads the row again and writes the columns that differ by then, so  *)
(* that two calls may overwrite each other column by column.  Calls that    *)
(* somebody other than owner and administrators makes are refused.          *)
(***************************************************************************)
EXTENDS Integers, FiniteSets

CONSTANTS
  EventIds,
  Owners,    \* browser tabs of the organizer who owns the events
  Admins,
  Buyers,    \* calls that pay the first instalment of a plan
  Contents,  \* title, venue, dates: what a reviewer looks at
  Prices,
  Quantities,
  MaxEdits,  \* bound: editing calls
  MaxSales   \* bound: seats taken and not given back, per event

ASSUME EventsAssumption ==
  /\ Owners \cap Admins = {}
  /\ Quantities \subseteq Nat
  /\ MaxEdits \in Nat
  /\ MaxSales \in Nat

Callers == Owners \cup Admins
EventStatus == {"DRAFT", "PENDING_REVIEW", "APPROVED", "REJECTED", "PUBLISHED", "ARCHIVED"}
EventColumns == {"status", "content", "banner"}
\* "NONE": there is no such row.
EventRow == [status : EventStatus \cup {"NONE"}, content : Contents, banner : BOOLEAN]
TierColumns == {"status", "price", "total", "sold"}
TierRow == [status : {"NONE", "ACTIVE", "DISABLED"}, price : Prices, total : Nat, sold : Nat]
Phases == {"read", "update", "insert"}
EventEdit == [by : Callers, op : {"save", "approve", "remove"}, id : EventIds,
              copy : EventRow, new : EventRow, phase : Phases, cols : SUBSET EventColumns]
TierEdit == [by : Callers \cup Buyers, op : {"save", "remove", "resync", "plan"}, id : EventIds,
             copy : TierRow, new : TierRow, phase : Phases \cup {"sum"}, cols : SUBSET TierColumns]
Copy == [by : Callers, to : EventIds, tier : TierRow]

VARIABLES
  event,     \* [EventIds -> EventRow]
  tier,      \* [EventIds -> TierRow]
  edits,     \* calls that change an event, between its read and its save
  tierEdits, \* calls that change a tier
  copies,    \* calls of duplicate between the event's save and the tier's
  ordered,   \* events with rows of orders
  sales,     \* [EventIds -> Nat], seats of paid orders
  approved,  \* events an administrator has approved
  planned,   \* [EventIds -> Nat], seats of plans that are paid in part
  again,     \* [EventIds -> Nat], seats a PAID plan's order took once more
  raced,     \* history: tiers whose count changed while a copy was in use
  uncounted, \* history: tiers resynced without seats that plans had taken
  healing,   \* tiers whose sales a resync has just summed, undisturbed since
  used,      \* ids given out
  begun      \* editing calls so far

calls == <<edits, tierEdits, copies>>
seats == <<ordered, sales, planned, again>>
counters == <<seats, raced, uncounted, healing>>
evars == <<event, tier, calls, counters, approved, used, begun>>

Editable == {"DRAFT", "PENDING_REVIEW", "REJECTED"}
Reviewed == {"APPROVED", "PUBLISHED", "ARCHIVED"}
NoTier(e) == tier[e].status = "NONE"
Exists(e) == event[e].status # "NONE"
MayEdit(c, e) == c \in Admins \/ event[e].status \in Editable
Busy(c) == \E x \in edits \cup tierEdits \cup copies : x.by = c

\* Listings in any stage of their life; what is on sale has a tier.
EInit ==
  /\ event \in [EventIds -> EventRow]
  /\ tier \in [EventIds -> [status : {"NONE", "ACTIVE"}, price : Prices,
                              total : Quantities, sold : {0}]]
  /\ \A e \in EventIds :
       /\ event[e].status \in {"PUBLISHED", "ARCHIVED"} => ~NoTier(e)
       /\ event[e].status = "NONE" => NoTier(e)
  /\ edits = {}
  /\ tierEdits = {}
  /\ copies = {}
  /\ ordered = {}
  /\ sales = [e \in EventIds |-> 0]
  /\ approved = {e \in EventIds : event[e].status \in Reviewed}
  /\ planned = [e \in EventIds |-> 0]
  /\ again = [e \in EventIds |-> 0]
  /\ raced = {}
  /\ uncounted = {}
  /\ healing = {}
  /\ used = {e \in EventIds : Exists(e)}
  /\ begun = 0

-----------------------------------------------------------------------------
(* EventsService: what a call reads and what it means to save               *)

BeginEdit(c, op, e, new) ==
  /\ ~Busy(c)
  /\ begun < MaxEdits
  /\ Exists(e)
  /\ edits' = edits \cup {[by |-> c, op |-> op, id |-> e, copy |-> event[e],
                           new |-> new, phase |-> "read", cols |-> {}]}
  /\ begun' = begun + 1
  /\ UNCHANGED <<event, tier, tierEdits, copies, counters, approved, used>>

WithStatus(e, s) == [event[e] EXCEPT !.status = s]

Create(c, e, content) ==
  /\ ~Busy(c)
  /\ begun < MaxEdits
  /\ e \notin used
  /\ event' = [event EXCEPT ![e] =
       [status |-> "DRAFT", content |-> content, banner |-> FALSE]]
  /\ used' = used \cup {e}
  /\ begun' = begun + 1
  /\ UNCHANGED <<tier, calls, counters, approved>>

Update(c, e, content) ==
  /\ MayEdit(c, e)
  /\ BeginEdit(c, "save", e, [event[e] EXCEPT !.content = content])

\* Mutant: an event under any status can be submitted.
SubmitAny(c, e) == BeginEdit(c, "save", e, WithStatus(e, "PENDING_REVIEW"))

SubmitForReview(c, e) ==
  /\ event[e].status \in {"DRAFT", "REJECTED"}
  /\ BeginEdit(c, "save", e, WithStatus(e, "PENDING_REVIEW"))

Approve(c, e) ==
  /\ c \in Admins
  /\ event[e].status = "PENDING_REVIEW"
  /\ BeginEdit(c, "approve", e, WithStatus(e, "APPROVED"))

Reject(c, e) ==
  /\ c \in Admins
  /\ event[e].status = "PENDING_REVIEW"
  /\ BeginEdit(c, "save", e, WithStatus(e, "REJECTED"))

\* Counts the tiers before it saves.
Publish(c, e) ==
  /\ event[e].status = "APPROVED"
  /\ ~NoTier(e)
  /\ BeginEdit(c, "save", e, WithStatus(e, "PUBLISHED"))

Unpublish(c, e) ==
  /\ event[e].status = "PUBLISHED"
  /\ BeginEdit(c, "save", e, WithStatus(e, "ARCHIVED"))

CommitBanner(c, e) ==
  /\ MayEdit(c, e)
  /\ BeginEdit(c, "save", e, [event[e] EXCEPT !.banner = TRUE])

RemoveBanner(c, e) ==
  /\ MayEdit(c, e) \/ event[e].status = "APPROVED"
  /\ BeginEdit(c, "save", e, [event[e] EXCEPT !.banner = FALSE])

\* The organizer may remove what has no paid orders.
Remove(c, e) ==
  /\ MayEdit(c, e)
  /\ c \in Admins \/ sales[e] = 0
  /\ BeginEdit(c, "remove", e, WithStatus(e, "NONE"))

-----------------------------------------------------------------------------
(* save(entity) and remove(entity)                                          *)

\* The columns an UPDATE sets; the others keep what the row has by now.
WrittenEvent(x, row) ==
  [status  |-> IF "status" \in x.cols THEN x.new.status ELSE row.status,
   content |-> IF "content" \in x.cols THEN x.new.content ELSE row.content,
   banner  |-> IF "banner" \in x.cols THEN x.new.banner ELSE row.banner]

WrittenTier(x, row) ==
  [status |-> IF "status" \in x.cols THEN x.new.status ELSE row.status,
   price  |-> IF "price" \in x.cols THEN x.new.price ELSE row.price,
   total  |-> IF "total" \in x.cols THEN x.new.total ELSE row.total,
   sold   |-> IF "sold" \in x.cols THEN x.new.sold ELSE row.sold]

\* First the row is read again: which columns differ?  An entity whose row is
\* gone will be inserted.
EventLoad(x) ==
  /\ x.op # "remove"
  /\ x.phase = "read"
  /\ edits' = (edits \ {x}) \cup
       {[x EXCEPT !.phase = IF Exists(x.id) THEN "update" ELSE "insert",
                  !.cols = {f \in EventColumns : x.new[f] # event[x.id][f]}]}
  /\ UNCHANGED <<event, tier, tierEdits, copies, counters, approved, used, begun>>

\* An UPDATE of a row that is gone changes nothing, an INSERT of one that is
\* there is refused.
EventWrite(x) ==
  /\ x.op # "remove"
  /\ x.phase # "read"
  /\ edits' = edits \ {x}
  /\ event' = [event EXCEPT ![x.id] =
       IF x.phase = "update" /\ Exists(x.id) THEN WrittenEvent(x, @)
       ELSE IF x.phase = "insert" /\ ~Exists(x.id) THEN x.new ELSE @]
  /\ approved' = IF x.op = "approve" THEN approved \cup {x.id} ELSE approved
  /\ UNCHANGED <<tier, tierEdits, copies, counters, used, begun>>

Touched(e) == \E x \in tierEdits : x.id = e

\* The tier goes with the event.  If there are orders, the database follows
\* the cascade to them or stops at the tier they refer to.
EventRemove(x) ==
  /\ x.op = "remove"
  /\ edits' = edits \ {x}
  /\ \/ /\ event' = [event EXCEPT ![x.id].status = "NONE"]
        /\ tier' = [tier EXCEPT ![x.id].status = "NONE", ![x.id].sold = 0]
        /\ ordered' = ordered \ {x.id}
        /\ sales' = [sales EXCEPT ![x.id] = 0]
        /\ planned' = [planned EXCEPT ![x.id] = 0]
        /\ again' = [again EXCEPT ![x.id] = 0]
        /\ uncounted' = uncounted \ {x.id}
        /\ raced' = IF Touched(x.id) THEN raced \cup {x.id} ELSE raced
        /\ healing' = healing \ {x.id}
     \/ /\ x.id \in ordered
        /\ UNCHANGED <<event, tier, counters>>
  /\ UNCHANGED <<tierEdits, copies, approved, used, begun>>

-----------------------------------------------------------------------------
(* TicketTypesService and resyncTierSoldCounts                              *)

BeginTierEdit(c, op, e, new, phase) ==
  /\ ~Busy(c)
  /\ begun < MaxEdits
  /\ Exists(e)
  /\ tierEdits' = tierEdits \cup {[by |-> c, op |-> op, id |-> e, copy |-> tier[e],
                                   new |-> new, phase |-> phase, cols |-> {}]}
  /\ healing' = healing \ {e}
  /\ begun' = begun + 1
  /\ UNCHANGED <<event, tier, edits, copies, seats, raced, uncounted, approved, used>>

StatusFor(q, s) == IF q = 0 /\ s = "ACTIVE" THEN "DISABLED" ELSE s

CreateTier(c, e, p, q) ==
  /\ MayEdit(c, e)
  /\ NoTier(e)
  /\ BeginTierEdit(c, "save", e,
       [status |-> StatusFor(q, "ACTIVE"), price |-> p, total |-> q, sold |-> 0], "insert")

SetQuantity(c, e, q) ==
  /\ MayEdit(c, e)
  /\ ~NoTier(e)
  /\ BeginTierEdit(c, "save", e,
       [tier[e] EXCEPT !.total = q, !.status = StatusFor(q, @)], "read")

\* The price is the one field of a published tier the organizer may change.
SetPrice(c, e, p) ==
  /\ MayEdit(c, e) \/ event[e].status = "PUBLISHED"
  /\ ~NoTier(e)
  /\ BeginTierEdit(c, "save", e, [tier[e] EXCEPT !.price = p], "read")

\* A new link for complimentary tickets; the link itself is left out.
RegenerateCompLink(c, e) ==
  /\ ~NoTier(e)
  /\ BeginTierEdit(c, "save", e, tier[e], "read")

RemoveTier(c, e) ==
  /\ MayEdit(c, e)
  /\ ~NoTier(e)
  /\ BeginTierEdit(c, "remove", e, tier[e], "read")

Resync(c, e) ==
  /\ c \in Admins
  /\ ~NoTier(e)
  /\ BeginTierEdit(c, "resync", e, tier[e], "sum")

\* The resync sums the PAID orders after it has read the tiers, and saves
\* those whose count differs.  Orders of plans that are paid in part are not
\* PAID: it drops their seats.
ResyncSum(x) ==
  /\ x.phase = "sum"
  /\ IF x.copy.sold = sales[x.id]
     THEN tierEdits' = tierEdits \ {x} /\ healing' = healing
     ELSE /\ tierEdits' = (tierEdits \ {x}) \cup
               {[x EXCEPT !.phase = "read", !.new.sold = sales[x.id]]}
          /\ healing' = IF \E y \in tierEdits \ {x} : y.id = x.id THEN healing
                        ELSE healing \cup {x.id}
  /\ UNCHANGED <<event, tier, edits, copies, seats, raced, uncounted, approved, used, begun>>

TierLoad(x) ==
  /\ x.op # "remove"
  /\ x.phase = "read"
  /\ tierEdits' = (tierEdits \ {x}) \cup
       {[x EXCEPT !.phase = IF NoTier(x.id) THEN "insert" ELSE "update",
                  !.cols = {f \in TierColumns : x.new[f] # tier[x.id][f]}]}
  /\ UNCHANGED <<event, tier, edits, copies, counters, approved, used, begun>>

\* History: a resync that nothing has disturbed since its sum makes the count
\* right, as far as it is of paid orders; one that was disturbed, or a first
\* instalment that is taken while another call holds a copy, may not be.
Heals(x) ==
  /\ x.op = "resync"
  /\ x.phase = "update"
  /\ x.id \in healing
  /\ ~NoTier(x.id)

Races(x) ==
  \/ x.op = "resync" /\ x.id \notin healing
  \/ x.op = "plan" /\ \E y \in tierEdits \ {x} : y.id = x.id

TierWrite(x) ==
  /\ x.op # "remove"
  /\ x.phase \in {"update", "insert"}
  /\ tierEdits' = tierEdits \ {x}
  /\ tier' = [tier EXCEPT ![x.id] =
       IF x.phase = "update" /\ ~NoTier(x.id) THEN WrittenTier(x, @)
       ELSE IF x.phase = "insert" /\ NoTier(x.id) /\ Exists(x.id) THEN x.new ELSE @]
  /\ x.op = "plan" => x.id \in ordered
  /\ planned' = IF x.op = "plan" THEN [planned EXCEPT ![x.id] = @ + 1] ELSE planned
  /\ raced' = IF Heals(x) THEN raced \ {x.id}
              ELSE IF Races(x) THEN raced \cup {x.id} ELSE raced
  /\ uncounted' = IF ~Heals(x) THEN uncounted
                  ELSE IF planned[x.id] + again[x.id] > 0 THEN uncounted \cup {x.id}
                  ELSE uncounted \ {x.id}
  /\ healing' = healing \ {x.id}
  /\ UNCHANGED <<event, edits, copies, ordered, sales, again, approved, used, begun>>

\* Mutant: orders go with their tier.
TierRemoveCascading(x) ==
  /\ x.op = "remove"
  /\ tierEdits' = tierEdits \ {x}
  /\ tier' = [tier EXCEPT ![x.id].status = "NONE"]
  /\ healing' = healing \ {x.id}
  /\ UNCHANGED <<event, edits, copies, seats, raced, uncounted, approved, used, begun>>

\* The database refuses to remove a tier that orders refer to.
TierRemove(x) ==
  /\ x.op = "remove"
  /\ tierEdits' = tierEdits \ {x}
  /\ tier' = [tier EXCEPT ![x.id].status = IF x.id \in ordered THEN @ ELSE "NONE"]
  /\ healing' = healing \ {x.id}
  /\ UNCHANGED <<event, edits, copies, seats, raced, uncounted, approved, used, begun>>

-----------------------------------------------------------------------------
(* Duplicating an event: two saves, one after the other                     *)

\* Mutant: the copy starts where its source is.
DraftCopyOnline(e) == [event[e] EXCEPT !.banner = FALSE]

DraftCopy(e) == [event[e] EXCEPT !.status = "DRAFT", !.banner = FALSE]

\* Mutant: the count of seats sold comes along.
TierCopySold(e) == tier[e]

TierCopy(e) == [tier[e] EXCEPT !.sold = 0]

Duplicate(c, e, f) ==
  /\ ~Busy(c)
  /\ begun < MaxEdits
  /\ Exists(e)
  /\ f \notin used
  /\ event' = [event EXCEPT ![f] = DraftCopy(e)]
  /\ copies' = IF NoTier(e) THEN copies
               ELSE copies \cup {[by |-> c, to |-> f, tier |-> TierCopy(e)]}
  /\ used' = used \cup {f}
  /\ begun' = begun + 1
  /\ UNCHANGED <<tier, edits, tierEdits, counters, approved>>

DuplicateTier(x) ==
  /\ copies' = copies \ {x}
  /\ tier' = [tier EXCEPT ![x.to] = IF Exists(x.to) /\ NoTier(x.to) THEN x.tier ELSE @]
  /\ healing' = healing \ {x.to}
  /\ UNCHANGED <<event, edits, tierEdits, seats, raced, uncounted, approved, used, begun>>

\* The process stops: every call in it is lost.
Crash ==
  /\ edits' = {}
  /\ tierEdits' = {}
  /\ copies' = {}
  /\ healing' = {}
  /\ UNCHANGED <<event, tier, seats, raced, uncounted, approved, used, begun>>

-----------------------------------------------------------------------------
(* Sales and refunds, whose transactions lock the tier (see Checkout), and  *)
(* plans, which do not (see Installments; markDefaulted, which restocks,    *)
(* refuses to run in production and is left out here)                       *)

SeatsTaken(e) == sales[e] + planned[e] + again[e]

Disturb(e) ==
  /\ raced' = IF Touched(e) THEN raced \cup {e} ELSE raced
  /\ healing' = healing \ {e}

Order(e) ==
  /\ event[e].status = "PUBLISHED"
  /\ tier[e].status = "ACTIVE"
  /\ e \notin ordered
  /\ ordered' = ordered \cup {e}
  /\ UNCHANGED <<event, tier, calls, sales, planned, again, raced, uncounted, healing,
                 approved, used, begun>>

SeatsLeft(e) == tier[e].sold < tier[e].total

\* The order is finalised, whatever has become of the event since.
Sell(e) ==
  /\ e \in ordered
  /\ ~NoTier(e)
  /\ SeatsLeft(e)
  /\ SeatsTaken(e) < MaxSales
  /\ tier' = [tier EXCEPT ![e].sold = @ + 1]
  /\ sales' = [sales EXCEPT ![e] = @ + 1]
  /\ Disturb(e)
  /\ UNCHANGED <<event, calls, ordered, planned, again, uncounted, approved, used, begun>>

Fewer(n) == IF n > 0 THEN n - 1 ELSE 0

GiveBack(e) ==
  /\ sales[e] > 0
  /\ tier' = [tier EXCEPT ![e].sold = Fewer(@)]
  /\ sales' = [sales EXCEPT ![e] = @ - 1]
  /\ Disturb(e)
  /\ UNCHANGED <<event, calls, ordered, planned, again, uncounted, approved, used, begun>>

\* The first payment of a plan reads the tier without a lock, compares nothing
\* with its capacity and saves it (TierLoad, TierWrite); the order is not PAID.
FirstInstalment(b, e) ==
  /\ e \in ordered
  /\ ~NoTier(e)
  /\ SeatsTaken(e) < MaxSales
  /\ BeginTierEdit(b, "plan", e, [tier[e] EXCEPT !.sold = @ + 1], "read")

\* The order went with its event: the transaction fails.
PlanGone(x) ==
  /\ x.op = "plan"
  /\ x.id \notin ordered
  /\ tierEdits' = tierEdits \ {x}
  /\ UNCHANGED <<event, tier, edits, copies, counters, approved, used, begun>>

\* The last instalment makes the order PAID; its seats are taken already.
LastInstalment(e) ==
  /\ planned[e] > 0
  /\ planned' = [planned EXCEPT ![e] = @ - 1]
  /\ sales' = [sales EXCEPT ![e] = @ + 1]
  /\ Disturb(e)
  /\ UNCHANGED <<event, tier, calls, ordered, again, uncounted, approved, used, begun>>

\* A second charge of an instalment finds the order PAID and takes its seats
\* as a one-time payment would.
SellAgain(e) ==
  /\ sales[e] > 0
  /\ ~NoTier(e)
  /\ SeatsLeft(e)
  /\ SeatsTaken(e) < MaxSales
  /\ tier' = [tier EXCEPT ![e].sold = @ + 1]
  /\ again' = [again EXCEPT ![e] = @ + 1]
  /\ Disturb(e)
  /\ UNCHANGED <<event, calls, ordered, sales, planned, uncounted, approved, used, begun>>

-----------------------------------------------------------------------------
EventCall(c, e) ==
  \/ \E x \in Contents : Create(c, e, x) \/ Update(c, e, x)
  \/ SubmitForReview(c, e) \/ Approve(c, e) \/ Reject(c, e)
  \/ Publish(c, e) \/ Unpublish(c, e)
  \/ CommitBanner(c, e) \/ RemoveBanner(c, e) \/ Remove(c, e)
  \/ \E f \in EventIds : Duplicate(c, e, f)

TierCall(c, e) ==
  \/ \E p \in Prices, q \in Quantities : CreateTier(c, e, p, q)
  \/ \E q \in Quantities : SetQuantity(c, e, q)
  \/ \E p \in Prices : SetPrice(c, e, p)
  \/ RegenerateCompLink(c, e) \/ RemoveTier(c, e) \/ Resync(c, e)

ENext ==
  \/ \E c \in Callers, e \in EventIds : EventCall(c, e) \/ TierCall(c, e)
  \/ \E x \in edits : EventLoad(x) \/ EventWrite(x) \/ EventRemove(x)
  \/ \E x \in tierEdits : ResyncSum(x) \/ TierLoad(x) \/ TierWrite(x) \/ TierRemove(x)
  \/ \E x \in tierEdits : PlanGone(x)
  \/ \E x \in copies : DuplicateTier(x)
  \/ \E e \in EventIds : Order(e) \/ Sell(e) \/ GiveBack(e)
  \/ \E b \in Buyers, e \in EventIds : FirstInstalment(b, e)
  \/ \E e \in EventIds : LastInstalment(e) \/ SellAgain(e)
  \/ Crash

ESpec == EInit /\ [][ENext]_evars

-----------------------------------------------------------------------------
(* What the listings promise *)

ETypeOK ==
  /\ event \in [EventIds -> EventRow]
  /\ tier \in [EventIds -> TierRow]
  /\ edits \subseteq EventEdit
  /\ tierEdits \subseteq TierEdit
  /\ copies \subseteq Copy
  /\ ordered \subseteq EventIds
  /\ sales \in [EventIds -> Nat]
  /\ approved \subseteq EventIds
  /\ planned \in [EventIds -> Nat]
  /\ again \in [EventIds -> Nat]
  /\ raced \subseteq EventIds
  /\ uncounted \subseteq EventIds
  /\ healing \subseteq EventIds
  /\ used \subseteq EventIds
  /\ begun \in Nat

\* However stale copies are saved over one another, an event only comes to be
\* approved, on sale or archived after an administrator approved that event.
OnlineWasApproved == \A e \in EventIds : event[e].status \in Reviewed => e \in approved

\* The steps of the review cycle, and the removals each caller may make.
Lifecycle(c) ==
  {<<"NONE", "DRAFT">>, <<"DRAFT", "PENDING_REVIEW">>, <<"REJECTED", "PENDING_REVIEW">>,
   <<"PENDING_REVIEW", "APPROVED">>, <<"PENDING_REVIEW", "REJECTED">>,
   <<"APPROVED", "PUBLISHED">>, <<"PUBLISHED", "ARCHIVED">>}
  \cup (IF c \in Admins THEN EventStatus ELSE Editable) \X {"NONE"}

\* A status leaves its review cycle only by a call that was overtaken: when it
\* writes, the status is no longer the one it read.
LeavesCycleOvertaken ==
  [][\A e \in EventIds : event'[e].status # event[e].status =>
       \/ <<event[e].status, event'[e].status>> = <<"NONE", "DRAFT">>
       \/ \E x \in edits \ edits' :
            /\ x.id = e
            /\ \/ <<event[e].status, event'[e].status>> \in Lifecycle(x.by)
               \/ x.copy.status # event[e].status]_evars

\* A tier counts the seats that are taken, each sale's and each plan's.  Only
\* what changes the count during an edit can part the two, and a resync that
\* nothing disturbs brings them together again; but where plans are paid in
\* part it counts too few from then on, and never too many.
SeatsCounted ==
  \A e \in EventIds \ raced :
    ~NoTier(e) => /\ tier[e].sold <= SeatsTaken(e)
                  /\ e \notin uncounted => tier[e].sold = SeatsTaken(e)

\* A one-time sale exceeds the capacity of its tier only if an edit had
\* overtaken the count or a resync had dropped the seats of plans.
SellsWithinCapacity ==
  [][\A e \in EventIds :
       sales'[e] > sales[e] =>
         \/ SeatsTaken(e)' <= tier[e].total
         \/ planned'[e] < planned[e]
         \/ e \in raced \cup uncounted]_evars

\* Removals never take the tier from under seats that are taken.
SoldTierStays == \A e \in EventIds : SeatsTaken(e) > 0 => ~NoTier(e) /\ Exists(e)

=============================================================================

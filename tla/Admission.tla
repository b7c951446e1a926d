------------------------------ MODULE Admission ------------------------------
(***************************************************************************)
(* Tickets after the sale: admission at the door by operators of the web   *)
(* panel (TicketScanService) and by volunteers' phones (ScanService), the   *)
(* organizer's manual status, transfers between people, the correction of   *)
(* a buyer's address, and the refund that voids the tickets of an order.    *)
(* Scans change the status by a conditional update.  Manual status,         *)
(* transfer and correction save a ticket or an order that was read earlier: *)
(* the save reads the row again and writes the columns that differ by then. *)
(***************************************************************************)
EXTENDS Integers, FiniteSets

CONSTANTS
  Orders,
  Tickets,
  OrderOf,    \* [Tickets -> Orders]
  Panels,     \* operators of the web panel, administrators and organizers
  Phones,     \* scanner sessions, each used by one phone
  Requests,   \* bound: calls of updateTicketStatus and transfer at a time
  People,     \* addresses tickets are made out to
  Registered, \* the people with an account
  NoOne,      \* owner_user_id NULL
  Reviewers,  \* callers of refundPaidOrder and reassignBuyerEmail
  MaxSaves,   \* bound: saves of a ticket or an order begun
  JoinedLockRejected \* does the database reject FOR UPDATE on LEFT JOINs?

ASSUME AdmissionAssumption ==
  /\ OrderOf \in [Tickets -> Orders]
  /\ Panels \cap Phones = {}
  /\ Registered \subseteq People
  /\ NoOne \notin People
  /\ MaxSaves \in Nat
  /\ JoinedLockRejected \in BOOLEAN

TicketStatus == {"ISSUED", "CHECKED_IN", "VOID"}
Ticket == [status : TicketStatus, owner : Registered \cup {NoOne}, attendee : People]
Holder(x) == [owner |-> x.owner, attendee |-> x.attendee]
Devices == Panels \cup Phones
CheckInRow == [ticket : Tickets, device : Devices, round : Nat]
Scan == [ticket : Tickets, device : Devices]
TicketColumns == {"status", "owner", "attendee"}
Entity == [call : Requests, ticket : Tickets, new : Ticket]
Write == [call : Requests, ticket : Tickets, new : Ticket, row : Ticket]
Reassignment == [by : Reviewers, order : Orders, to : Registered,
                 phase : {"read", "save"}, revives : BOOLEAN]

VARIABLES
  order,     \* [Orders -> {"PAID", "REFUNDED"}]
  ticket,    \* [Tickets -> Ticket]
  checkIns,  \* rows of check_ins, with the round of the ticket they belong to
  session,   \* [Phones -> {"ACTIVE", "REVOKED", "EXPIRED"}]
  scans,     \* calls that found the ticket valid, or that the guard let in
  green,     \* check-ins whose answer is on its way to the device
  entities,  \* tickets read and changed in memory, about to be saved
  writes,    \* saves between their SELECT of the row and their UPDATE
  reassigns, \* calls of reassignBuyerEmail between read and commit
  refunds,   \* <<reviewer, order>>: refundPaidOrder is calling the gateway
  refunded,  \* <<reviewer, order>>: refundPaidOrder has returned
  issuedTo,  \* [Tickets -> [owner, attendee]], as the sale wrote them
  round,     \* [Tickets -> Nat], how often a save made the ticket ISSUED again
  mixed,     \* tickets whose holder two overlapping saves have put together
  saves      \* saves begun so far

rows == <<order, ticket, checkIns>>
door == <<session, scans, green>>
desk == <<entities, writes, reassigns, saves>>
refundCalls == <<refunds, refunded>>
ghosts == <<issuedTo, round, mixed>>
avars == <<rows, door, desk, refundCalls, ghosts>>

\* The order is paid and its tickets are issued; some are made out to a
\* guest without an account, or to somebody else than the buyer.
AInit ==
  /\ order = [o \in Orders |-> "PAID"]
  /\ ticket \in [Tickets -> {x \in Ticket : x.status = "ISSUED"}]
  /\ issuedTo = [t \in Tickets |-> Holder(ticket[t])]
  /\ checkIns = {}
  /\ session = [p \in Phones |-> "ACTIVE"]
  /\ scans = {}
  /\ green = {}
  /\ entities = {}
  /\ writes = {}
  /\ reassigns = {}
  /\ refunds = {}
  /\ refunded = {}
  /\ round = [t \in Tickets |-> 0]
  /\ mixed = {}
  /\ saves = 0

Busy(d) == \E x \in scans \cup green : x.device = d
Admissible(t) == order[OrderOf[t]] = "PAID" /\ ticket[t].status = "ISSUED"

-----------------------------------------------------------------------------
(* The door.  Answers that admit nobody change nothing and are left out.    *)

\* Mutant: the update is made by id alone.
ClaimAnyStatus(d, t) ==
  LET row == [ticket |-> t, device |-> d, round |-> round[t]]
  IN  /\ ticket' = [ticket EXCEPT ![t].status = "CHECKED_IN"]
      /\ checkIns' = checkIns \cup {row}
      /\ green' = green \cup {row}

\* UPDATE ... WHERE status = ISSUED, and a check-in row if it affected one.
Claim(d, t) ==
  IF ticket[t].status = "ISSUED"
  THEN LET row == [ticket |-> t, device |-> d, round |-> round[t]]
       IN  /\ ticket' = [ticket EXCEPT ![t].status = "CHECKED_IN"]
           /\ checkIns' = checkIns \cup {row}
           /\ green' = green \cup {row}
  ELSE UNCHANGED <<ticket, checkIns, green>>

\* The panel reads ticket and order without a lock ...
ScanRead(d, t) ==
  /\ ~Busy(d)
  /\ Admissible(t)
  /\ scans' = scans \cup {[ticket |-> t, device |-> d]}
  /\ UNCHANGED <<rows, session, green, desk, refundCalls, ghosts>>

\* ... and claims the ticket in a transaction of its own.
ScanCommit(s) ==
  /\ s \in scans
  /\ s.device \in Panels
  /\ Claim(s.device, s.ticket)
  /\ scans' = scans \ {s}
  /\ UNCHANGED <<order, session, desk, refundCalls, ghosts>>

\* ScannerSessionGuard looks the session up before the handler runs.
PhoneGuard(d, t) ==
  /\ ~Busy(d)
  /\ session[d] = "ACTIVE"
  /\ scans' = scans \cup {[ticket |-> t, device |-> d]}
  /\ UNCHANGED <<rows, session, green, desk, refundCalls, ghosts>>

\* One transaction that locks the ticket, checks and claims it.  It asks for
\* the lock together with order and event.
PhoneValidate(s) ==
  /\ s \in scans
  /\ s.device \in Phones
  /\ scans' = scans \ {s}
  /\ IF Admissible(s.ticket) /\ ~JoinedLockRejected
     THEN Claim(s.device, s.ticket)
     ELSE UNCHANGED <<ticket, checkIns, green>>
  /\ UNCHANGED <<order, session, desk, refundCalls, ghosts>>

\* The answer reaches the device and shows green, or it is lost and the
\* device shows a network error: the ticket is checked in either way, and a
\* second try is answered ALREADY_SCANNED.
Answer(r) ==
  /\ r \in green
  /\ green' = green \ {r}
  /\ UNCHANGED <<rows, session, scans, desk, refundCalls, ghosts>>

\* The organizer revokes the link of a phone, or its time is over.
EndSession(p, s) ==
  /\ session[p] = "ACTIVE"
  /\ session' = [session EXCEPT ![p] = s]
  /\ UNCHANGED <<rows, scans, green, desk, refundCalls, ghosts>>

-----------------------------------------------------------------------------
(* Calls that read a ticket, change it in memory and save it                *)

Idle(q) == \A x \in entities \cup writes : x.call # q

BeginSave(q, t, new) ==
  /\ Idle(q)
  /\ saves < MaxSaves
  /\ entities' = entities \cup {[call |-> q, ticket |-> t, new |-> new]}
  /\ saves' = saves + 1
  /\ UNCHANGED <<rows, door, writes, reassigns, refundCalls, ghosts>>

AllowedEdit ==
  {<<"ISSUED", "CHECKED_IN">>, <<"CHECKED_IN", "ISSUED">>,
   <<"ISSUED", "VOID">>, <<"CHECKED_IN", "VOID">>}

\* updateTicketStatus: the organizer sets the status by hand.
SetStatus(q, t, next) ==
  /\ order[OrderOf[t]] = "PAID"
  /\ <<ticket[t].status, next>> \in AllowedEdit
  /\ BeginSave(q, t, [ticket[t] EXCEPT !.status = next])

\* Mutant: a recipient without an account leaves the ticket to its owner.
TransferredKeepingOwner(x, to) ==
  [x EXCEPT !.attendee = to, !.owner = IF to \in Registered THEN to ELSE @]

\* The ticket is made out to the recipient, and theirs if they have an account.
Transferred(x, to) ==
  [x EXCEPT !.attendee = to, !.owner = IF to \in Registered THEN to ELSE NoOne]

\* transfer: the owner gives the ticket away.
TransferTo(q, t, to) ==
  /\ ticket[t].owner \in Registered
  /\ BeginSave(q, t, Transferred(ticket[t], to))

\* save(entity) first reads the row again; if no column differs it is done.
SaveSelect(x) ==
  /\ x \in entities
  /\ entities' = entities \ {x}
  /\ writes' = IF x.new = ticket[x.ticket] THEN writes
               ELSE writes \cup {[call |-> x.call, ticket |-> x.ticket,
                                  new |-> x.new, row |-> ticket[x.ticket]]}
  /\ UNCHANGED <<rows, door, reassigns, saves, refundCalls, ghosts>>

Differing(x) == {f \in TicketColumns : x.new[f] # x.row[f]}

\* The UPDATE sets the columns that differed; the others keep what they have.
Written(x, row) ==
  [status   |-> IF "status" \in Differing(x) THEN x.new.status ELSE row.status,
   owner    |-> IF "owner" \in Differing(x) THEN x.new.owner ELSE row.owner,
   attendee |-> IF "attendee" \in Differing(x) THEN x.new.attendee ELSE row.attendee]

\* The holder was written after this save's SELECT, and of the two columns
\* that name the holder this save writes one.
Mixes(x) ==
  /\ Holder(ticket[x.ticket]) # Holder(x.row)
  /\ ("owner" \in Differing(x)) # ("attendee" \in Differing(x))

SaveUpdate(x) ==
  /\ x \in writes
  /\ writes' = writes \ {x}
  /\ LET new == Written(x, ticket[x.ticket])
     IN  /\ ticket' = [ticket EXCEPT ![x.ticket] = new]
         /\ round' = [round EXCEPT ![x.ticket] =
              IF new.status = "ISSUED" /\ ticket[x.ticket].status # "ISSUED"
              THEN @ + 1 ELSE @]
  /\ mixed' = IF Mixes(x) THEN mixed \cup {x.ticket} ELSE mixed
  /\ UNCHANGED <<order, checkIns, door, entities, reassigns, saves, refundCalls, issuedTo>>

\* Whoever signs in becomes the owner of the tickets made out to them.
Backfill(u, t) ==
  /\ ticket[t].owner = NoOne
  /\ ticket[t].attendee = u
  /\ ticket' = [ticket EXCEPT ![t].owner = u]
  /\ UNCHANGED <<order, checkIns, door, desk, refundCalls, ghosts>>

TicketsOf(o) == {t \in Tickets : OrderOf[t] = o}

\* The buyer mistyped the address: the order is read, the right account is
\* found or made ...
ReassignRead(r, o, to) ==
  /\ \A x \in reassigns : x.by # r
  /\ saves < MaxSaves
  /\ order[o] = "PAID"
  /\ TicketsOf(o) # {}
  /\ reassigns' = reassigns \cup
       {[by |-> r, order |-> o, to |-> to, phase |-> "read", revives |-> FALSE]}
  /\ saves' = saves + 1
  /\ UNCHANGED <<rows, door, entities, writes, refundCalls, ghosts>>

\* ... the transaction saves the order, PAID as it was read: does its row say
\* so still? ...
ReassignSelect(x) ==
  /\ x \in reassigns
  /\ x.phase = "read"
  /\ reassigns' = (reassigns \ {x}) \cup
       {[x EXCEPT !.phase = "save", !.revives = order[x.order] # "PAID"]}
  /\ UNCHANGED <<rows, door, entities, writes, saves, refundCalls, ghosts>>

\* ... and makes all the order's tickets out to that account.
ReassignCommit(x) ==
  /\ x \in reassigns
  /\ x.phase = "save"
  /\ order' = IF x.revives THEN [order EXCEPT ![x.order] = "PAID"] ELSE order
  /\ ticket' = [t \in Tickets |->
       IF OrderOf[t] = x.order
       THEN [status |-> ticket[t].status, owner |-> x.to, attendee |-> x.to]
       ELSE ticket[t]]
  /\ reassigns' = reassigns \ {x}
  /\ UNCHANGED <<checkIns, door, entities, writes, saves, refundCalls, ghosts>>

-----------------------------------------------------------------------------
(* refundPaidOrder, as far as tickets are concerned (see Checkout)          *)

Refunding(r) == \E x \in refunds : x[1] = r

RefundCheck(r, o) ==
  /\ ~Refunding(r)
  /\ order[o] = "PAID"
  /\ \A t \in TicketsOf(o) : ticket[t].status # "CHECKED_IN"
  /\ refunds' = refunds \cup {<<r, o>>}
  /\ UNCHANGED <<rows, door, desk, refunded, ghosts>>

\* Mutant: the test that skips VOID tickets is the wrong way round.
VoidTicketsSkipping(o) == ticket

\* Every ticket of the order that is not VOID becomes VOID.
VoidTickets(o) ==
  [t \in Tickets |-> IF OrderOf[t] = o THEN [ticket[t] EXCEPT !.status = "VOID"]
                     ELSE ticket[t]]

RefundCommit(r, o) ==
  /\ <<r, o>> \in refunds
  /\ ~JoinedLockRejected
  /\ order[o] = "PAID"
  /\ order' = [order EXCEPT ![o] = "REFUNDED"]
  /\ ticket' = VoidTickets(o)
  /\ refunds' = refunds \ {<<r, o>>}
  /\ refunded' = refunded \cup {<<r, o>>}
  /\ UNCHANGED <<checkIns, door, desk, ghosts>>

\* The gateway refuses, or the order is no longer paid.
RefundThrows(r, o) ==
  /\ <<r, o>> \in refunds
  /\ refunds' = refunds \ {<<r, o>>}
  /\ UNCHANGED <<rows, door, desk, refunded, ghosts>>

-----------------------------------------------------------------------------
DoorStep ==
  \/ \E d \in Panels, t \in Tickets : ScanRead(d, t)
  \/ \E d \in Phones, t \in Tickets : PhoneGuard(d, t)
  \/ \E s \in scans : ScanCommit(s) \/ PhoneValidate(s)
  \/ \E r \in green : Answer(r)
  \/ \E p \in Phones, s \in {"REVOKED", "EXPIRED"} : EndSession(p, s)

DeskStep ==
  \/ \E q \in Requests, t \in Tickets :
       \/ \E s \in TicketStatus : SetStatus(q, t, s)
       \/ \E to \in People : TransferTo(q, t, to)
  \/ \E x \in entities : SaveSelect(x)
  \/ \E x \in writes : SaveUpdate(x)
  \/ \E u \in Registered, t \in Tickets : Backfill(u, t)
  \/ \E r \in Reviewers, o \in Orders, to \in Registered : ReassignRead(r, o, to)
  \/ \E x \in reassigns : ReassignSelect(x) \/ ReassignCommit(x)

ANext ==
  \/ DoorStep
  \/ DeskStep
  \/ \E r \in Reviewers, o \in Orders :
       RefundCheck(r, o) \/ RefundCommit(r, o) \/ RefundThrows(r, o)

ASpec == AInit /\ [][ANext]_avars

-----------------------------------------------------------------------------
(* What the door promises *)

ATypeOK ==
  /\ order \in [Orders -> {"PAID", "REFUNDED"}]
  /\ ticket \in [Tickets -> Ticket]
  /\ checkIns \subseteq CheckInRow
  /\ session \in [Phones -> {"ACTIVE", "REVOKED", "EXPIRED"}]
  /\ scans \subseteq Scan
  /\ green \subseteq CheckInRow
  /\ entities \subseteq Entity
  /\ writes \subseteq Write
  /\ reassigns \subseteq Reassignment
  /\ refunds \subseteq Reviewers \X Orders
  /\ refunded \subseteq Reviewers \X Orders
  /\ issuedTo \in [Tickets -> [owner : Registered \cup {NoOne}, attendee : People]]
  /\ round \in [Tickets -> Nat]
  /\ mixed \subseteq Tickets
  /\ saves \in Nat

\* However many devices scan a ticket at once, and whatever answers are lost,
\* it is checked in once, and again only after a save made it ISSUED again.
AdmittedOnce ==
  \A x, y \in checkIns : x.ticket = y.ticket /\ x.round = y.round => x = y

\* Every answer that lets a guest in stands for a check-in row of that device:
\* of two devices that scan one ticket at the same time, at most one admits.
GreenHasRow == green \subseteq checkIns

\* Whatever stale tickets are saved over one another, a ticket that has left
\* the buyer's hands belongs to the person it is made out to, or to nobody.
\* The one thing that can part the two: a save that found one of them right
\* already writes the other over a holder written since.
HeldByAddressee ==
  \A t \in Tickets \ mixed :
    ticket[t].owner \in {NoOne, ticket[t].attendee} \/ Holder(ticket[t]) = issuedTo[t]

\* A ticket whose order is no longer paid admits nobody, not even a scan that
\* found it valid before the refund, unless a stale save has revived it.
AdmitsOnlyPaid ==
  [][\A x \in checkIns' \ checkIns :
       order[OrderOf[x.ticket]] = "PAID" \/ round[x.ticket] > 0]_avars

=============================================================================

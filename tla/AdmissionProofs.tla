--------------------------- MODULE AdmissionProofs ---------------------------
(* Theorems about Admission, for every set of tickets, devices, people and   *)
(* reviewers, and any number of stale saves.                                 *)
EXTENDS Admission, TLAPS

\* A ticket is ISSUED in its present round only as long as nobody has been
\* checked in in it.
RoundOpen ==
  \A x \in checkIns :
    /\ x.round <= round[x.ticket]
    /\ x.round = round[x.ticket] => ticket[x.ticket].status # "ISSUED"

OnceInv == ATypeOK /\ RoundOpen /\ AdmittedOnce /\ GreenHasRow

DoorVars == <<ticket, checkIns, green, round>>

-----------------------------------------------------------------------------
(* Types *)

LEMMA ClaimTypes ==
  ASSUME ATypeOK, NEW d \in Devices, NEW t \in Tickets, Claim(d, t)
  PROVE  /\ ticket' \in [Tickets -> Ticket]
         /\ checkIns' \subseteq CheckInRow
         /\ green' \subseteq CheckInRow
<1>1. CASE ticket[t].status = "ISSUED"
  <2>1. [ticket |-> t, device |-> d, round |-> round[t]] \in CheckInRow
    BY DEF ATypeOK, CheckInRow
  <2>2. [ticket[t] EXCEPT !.status = "CHECKED_IN"] \in Ticket
    BY DEF ATypeOK, Ticket, TicketStatus
  <2> QED BY <1>1, <2>1, <2>2 DEF Claim, ATypeOK
<1>2. CASE ticket[t].status # "ISSUED"
  BY <1>2 DEF Claim, ATypeOK
<1> QED BY <1>1, <1>2

LEMMA TransferredType ==
  ASSUME NEW x \in Ticket, NEW to \in People PROVE Transferred(x, to) \in Ticket
  BY AdmissionAssumption DEF Transferred, Ticket

LEMMA WrittenType ==
  ASSUME NEW x \in Write, NEW row \in Ticket PROVE Written(x, row) \in Ticket
  BY DEF Write, Written, Ticket

LEMMA BeginTypes ==
  ASSUME ATypeOK, NEW q \in Requests, NEW t \in Tickets, NEW new \in Ticket,
         BeginSave(q, t, new)
  PROVE  ATypeOK'
<1>1. [call |-> q, ticket |-> t, new |-> new] \in Entity BY DEF Entity
<1>2. entities' \subseteq Entity /\ saves' \in Nat
  BY <1>1 DEF BeginSave, ATypeOK
<1> QED
  BY <1>2 DEF BeginSave, ATypeOK, rows, door, refundCalls, ghosts

\* What an UPDATE does to the status of the tickets and to their rounds.
LEMMA UpdateStep ==
  ASSUME ATypeOK, NEW x \in writes, SaveUpdate(x)
  PROVE  /\ x \in Write
         /\ x.ticket \in Tickets
         /\ Written(x, ticket[x.ticket]) \in Ticket
         /\ \A u \in Tickets : ticket'[u] =
              IF u = x.ticket THEN Written(x, ticket[x.ticket]) ELSE ticket[u]
         /\ \A u \in Tickets : round'[u] =
              IF u = x.ticket /\ ticket'[u].status = "ISSUED" /\ ticket[u].status # "ISSUED"
              THEN round[u] + 1 ELSE round[u]
         /\ ticket' \in [Tickets -> Ticket]
         /\ round' \in [Tickets -> Nat]
<1>1. x \in Write /\ x.ticket \in Tickets BY DEF ATypeOK, Write
<1>2. ticket[x.ticket] \in Ticket BY <1>1 DEF ATypeOK
<1> DEFINE new == Written(x, ticket[x.ticket])
<1>3. new \in Ticket BY <1>1, <1>2, WrittenType
<1>4. /\ ticket' = [ticket EXCEPT ![x.ticket] = new]
      /\ round' = [round EXCEPT ![x.ticket] =
           IF new.status = "ISSUED" /\ ticket[x.ticket].status # "ISSUED"
           THEN round[x.ticket] + 1 ELSE round[x.ticket]]
  BY DEF SaveUpdate
<1> HIDE DEF new
<1>5. \A u \in Tickets : ticket'[u] = IF u = x.ticket THEN new ELSE ticket[u]
  BY <1>1, <1>4 DEF ATypeOK
<1>6. \A u \in Tickets : round'[u] =
        IF u = x.ticket /\ ticket'[u].status = "ISSUED" /\ ticket[u].status # "ISSUED"
        THEN round[u] + 1 ELSE round[u]
  BY <1>1, <1>4, <1>5 DEF ATypeOK
<1>7. ticket' \in [Tickets -> Ticket] BY <1>1, <1>3, <1>4 DEF ATypeOK
<1>8. round' \in [Tickets -> Nat] BY <1>1, <1>4 DEF ATypeOK
<1> QED BY <1>1, <1>3, <1>5, <1>6, <1>7, <1>8 DEF new

LEMMA TypeInit == AInit => ATypeOK
  BY DEF AInit, ATypeOK, Ticket, Holder

LEMMA TypeNext == ATypeOK /\ [ANext]_avars => ATypeOK'
<1> SUFFICES ASSUME ATypeOK, [ANext]_avars PROVE ATypeOK' OBVIOUS
<1> USE DEF rows, door, desk, refundCalls, ghosts
<1>1. ASSUME NEW d \in Panels, NEW t \in Tickets, ScanRead(d, t) PROVE ATypeOK'
  BY <1>1 DEF ScanRead, ATypeOK, Scan, Devices
<1>2. ASSUME NEW d \in Phones, NEW t \in Tickets, PhoneGuard(d, t) PROVE ATypeOK'
  BY <1>2 DEF PhoneGuard, ATypeOK, Scan, Devices
<1>3. ASSUME NEW s \in scans, ScanCommit(s) PROVE ATypeOK'
  <2>1. s.device \in Devices /\ s.ticket \in Tickets BY DEF ATypeOK, Scan
  <2> QED BY <1>3, <2>1, ClaimTypes DEF ScanCommit, ATypeOK
<1>4. ASSUME NEW s \in scans, PhoneValidate(s) PROVE ATypeOK'
  <2>1. s.device \in Devices /\ s.ticket \in Tickets BY DEF ATypeOK, Scan
  <2> QED BY <1>4, <2>1, ClaimTypes DEF PhoneValidate, ATypeOK
<1>5. ASSUME NEW r \in green, Answer(r) PROVE ATypeOK'
  BY <1>5 DEF Answer, ATypeOK
<1>6. ASSUME NEW p \in Phones, NEW s \in {"REVOKED", "EXPIRED"}, EndSession(p, s)
      PROVE  ATypeOK'
  BY <1>6 DEF EndSession, ATypeOK
<1>7. ASSUME NEW q \in Requests, NEW t \in Tickets, NEW s \in TicketStatus,
             SetStatus(q, t, s)
      PROVE  ATypeOK'
  <2>1. [ticket[t] EXCEPT !.status = s] \in Ticket BY DEF ATypeOK, Ticket
  <2> QED BY <1>7, <2>1, BeginTypes DEF SetStatus
<1>8. ASSUME NEW x \in entities, SaveSelect(x) PROVE ATypeOK'
  <2>1. x \in Entity /\ ticket[x.ticket] \in Ticket BY DEF ATypeOK, Entity
  <2>2. [call |-> x.call, ticket |-> x.ticket, new |-> x.new,
         row |-> ticket[x.ticket]] \in Write
    BY <2>1 DEF Entity, Write
  <2> QED BY <1>8, <2>2 DEF SaveSelect, ATypeOK
<1>9. ASSUME NEW u \in Registered, NEW t \in Tickets, Backfill(u, t) PROVE ATypeOK'
  <2>1. [ticket[t] EXCEPT !.owner = u] \in Ticket BY DEF ATypeOK, Ticket
  <2> QED BY <1>9, <2>1 DEF Backfill, ATypeOK
<1>10. ASSUME NEW q \in Requests, NEW t \in Tickets, NEW to \in People,
              TransferTo(q, t, to)
       PROVE  ATypeOK'
  <2>1. Transferred(ticket[t], to) \in Ticket BY TransferredType DEF ATypeOK
  <2> QED BY <1>10, <2>1, BeginTypes DEF TransferTo
<1>11. ASSUME NEW x \in writes, SaveUpdate(x) PROVE ATypeOK'
  <2>1. mixed' \subseteq Tickets
    <3>1. x.ticket \in Tickets BY <1>11, UpdateStep
    <3>2. mixed' = IF Mixes(x) THEN mixed \cup {x.ticket} ELSE mixed
      BY <1>11 DEF SaveUpdate
    <3>3. mixed \subseteq Tickets BY DEF ATypeOK
    <3> QED BY <3>1, <3>2, <3>3
  <2>2. writes' \subseteq Write BY <1>11 DEF SaveUpdate, ATypeOK
  <2>3. UNCHANGED <<order, checkIns, door, entities, reassigns, saves, refundCalls, issuedTo>>
    BY <1>11 DEF SaveUpdate
  <2>4. ticket' \in [Tickets -> Ticket] /\ round' \in [Tickets -> Nat]
    BY <1>11, UpdateStep
  <2> QED BY <2>1, <2>2, <2>3, <2>4 DEF ATypeOK
<1>12. ASSUME NEW r \in Reviewers, NEW o \in Orders, RefundCheck(r, o) PROVE ATypeOK'
  BY <1>12 DEF RefundCheck, ATypeOK
<1>13. ASSUME NEW r \in Reviewers, NEW o \in Orders, RefundCommit(r, o) PROVE ATypeOK'
  <2>1. ticket' \in [Tickets -> Ticket]
    BY <1>13 DEF RefundCommit, VoidTickets, ATypeOK, Ticket, TicketStatus
  <2> QED BY <1>13, <2>1 DEF RefundCommit, ATypeOK
<1>14. ASSUME NEW r \in Reviewers, NEW o \in Orders, RefundThrows(r, o) PROVE ATypeOK'
  BY <1>14 DEF RefundThrows, ATypeOK
<1>15. ASSUME NEW r \in Reviewers, NEW o \in Orders, NEW to \in Registered,
              ReassignRead(r, o, to)
       PROVE  ATypeOK'
  <2>1. [by |-> r, order |-> o, to |-> to, phase |-> "read", revives |-> FALSE]
          \in Reassignment
    BY DEF Reassignment
  <2> DEFINE new == [by |-> r, order |-> o, to |-> to, phase |-> "read", revives |-> FALSE]
  <2>2. /\ reassigns' = reassigns \cup {new}
        /\ saves' = saves + 1
        /\ UNCHANGED <<rows, door, entities, writes, refundCalls, ghosts>>
    BY <1>15 DEF ReassignRead
  <2>3. reassigns \subseteq Reassignment /\ saves \in Nat BY DEF ATypeOK
  <2> HIDE DEF new
  <2>4. reassigns' \subseteq Reassignment BY <2>1, <2>2, <2>3 DEF new
  <2>5. saves' \in Nat BY <2>2, <2>3
  <2> QED BY <2>2, <2>4, <2>5 DEF ATypeOK
<1>16. ASSUME NEW x \in reassigns, ReassignSelect(x) PROVE ATypeOK'
  <2>1. [x EXCEPT !.phase = "save", !.revives = order[x.order] # "PAID"] \in Reassignment
    BY DEF ATypeOK, Reassignment
  <2> QED BY <1>16, <2>1 DEF ReassignSelect, ATypeOK
<1>18. ASSUME NEW x \in reassigns, ReassignCommit(x) PROVE ATypeOK'
  <2>1. x.order \in Orders /\ x.to \in Registered BY DEF ATypeOK, Reassignment
  <2>2. \A t \in Tickets :
          [status |-> ticket[t].status, owner |-> x.to, attendee |-> x.to] \in Ticket
    BY <2>1, AdmissionAssumption DEF ATypeOK, Ticket
  <2>3. ticket' \in [Tickets -> Ticket] BY <1>18, <2>2 DEF ReassignCommit, ATypeOK
  <2>4. order' \in [Orders -> {"PAID", "REFUNDED"}]
    BY <1>18, <2>1 DEF ReassignCommit, ATypeOK
  <2>5. reassigns' \subseteq Reassignment
    BY <1>18 DEF ReassignCommit, ATypeOK
  <2>6. UNCHANGED <<checkIns, door, entities, writes, saves, refundCalls, ghosts>>
    BY <1>18 DEF ReassignCommit
  <2> HIDE DEF Ticket
  <2> QED BY <2>3, <2>4, <2>5, <2>6 DEF ATypeOK
<1>17. CASE UNCHANGED avars
  BY <1>17 DEF avars, ATypeOK
<1> QED
  BY <1>1, <1>2, <1>3, <1>4, <1>5, <1>6, <1>7, <1>8, <1>9, <1>10, <1>11, <1>12,
     <1>13, <1>14, <1>15, <1>16, <1>17, <1>18 DEF ANext, DoorStep, DeskStep

\* Every reachable state is well typed.
THEOREM TypeCorrect == ASpec => []ATypeOK
  BY TypeInit, TypeNext, PTL DEF ASpec

-----------------------------------------------------------------------------
(* One check-in per round *)

LEMMA ClaimOnce ==
  ASSUME OnceInv, NEW d \in Devices, NEW t \in Tickets, Claim(d, t),
         UNCHANGED round
  PROVE  RoundOpen' /\ AdmittedOnce' /\ GreenHasRow'
<1>1. CASE ticket[t].status = "ISSUED"
  <2> DEFINE row == [ticket |-> t, device |-> d, round |-> round[t]]
  <2>1. /\ checkIns' = checkIns \cup {row}
        /\ green' = green \cup {row}
        /\ ticket' = [ticket EXCEPT ![t].status = "CHECKED_IN"]
    BY <1>1 DEF Claim
  <2>2. \A u \in Tickets :
          ticket'[u].status = IF u = t THEN "CHECKED_IN" ELSE ticket[u].status
    BY <2>1 DEF OnceInv, ATypeOK, Ticket
  <2>3. \A x \in checkIns : x.ticket \in Tickets /\ x.round \in Nat
    BY DEF OnceInv, ATypeOK, CheckInRow
  <2>4. \A x \in checkIns : x.ticket = t => x.round # round[t]
    BY <1>1 DEF OnceInv, RoundOpen
  <2>5. round[t] \in Nat BY DEF OnceInv, ATypeOK
  <2>6. RoundOpen' BY <2>1, <2>2, <2>3, <2>5 DEF OnceInv, RoundOpen
  <2>7. AdmittedOnce' BY <2>1, <2>4 DEF OnceInv, AdmittedOnce
  <2>8. GreenHasRow' BY <2>1 DEF OnceInv, GreenHasRow
  <2> QED BY <2>6, <2>7, <2>8
<1>2. CASE ticket[t].status # "ISSUED"
  BY <1>2 DEF Claim, OnceInv, RoundOpen, AdmittedOnce, GreenHasRow
<1> QED BY <1>1, <1>2

\* An UPDATE either opens a new round or leaves a ticket that is not ISSUED so.
LEMMA UpdateOnce ==
  ASSUME OnceInv, NEW x \in writes, SaveUpdate(x)
  PROVE  RoundOpen' /\ AdmittedOnce' /\ GreenHasRow'
<1>1. \A u \in Tickets : u # x.ticket => ticket'[u] = ticket[u]
  BY UpdateStep DEF OnceInv
<1>2. \A u \in Tickets : round'[u] =
        IF u = x.ticket /\ ticket'[u].status = "ISSUED" /\ ticket[u].status # "ISSUED"
        THEN round[u] + 1 ELSE round[u]
  BY UpdateStep DEF OnceInv
<1>3. \A y \in checkIns : y.ticket \in Tickets /\ y.round \in Nat
  BY DEF OnceInv, ATypeOK, CheckInRow
<1>4. \A u \in Tickets : round[u] \in Nat BY DEF OnceInv, ATypeOK
<1>5. UNCHANGED <<checkIns, green>> BY DEF SaveUpdate, door
<1>6. RoundOpen' BY <1>1, <1>2, <1>3, <1>4, <1>5 DEF OnceInv, RoundOpen
<1> QED BY <1>5, <1>6 DEF OnceInv, AdmittedOnce, GreenHasRow

LEMMA OnceNext == OnceInv /\ [ANext]_avars => OnceInv'
<1> SUFFICES ASSUME OnceInv, [ANext]_avars
             PROVE  RoundOpen' /\ AdmittedOnce' /\ GreenHasRow'
  BY TypeNext DEF OnceInv
<1> USE DEF rows, door, desk, refundCalls, ghosts
<1>a. ASSUME UNCHANGED DoorVars PROVE RoundOpen' /\ AdmittedOnce' /\ GreenHasRow'
  BY <1>a DEF DoorVars, OnceInv, RoundOpen, AdmittedOnce, GreenHasRow
<1>1. ASSUME NEW s \in scans, ScanCommit(s) \/ PhoneValidate(s)
      PROVE  RoundOpen' /\ AdmittedOnce' /\ GreenHasRow'
  <2>1. s.device \in Devices /\ s.ticket \in Tickets BY DEF OnceInv, ATypeOK, Scan
  <2>2. Claim(s.device, s.ticket) \/ UNCHANGED <<ticket, checkIns, green>>
    BY <1>1 DEF ScanCommit, PhoneValidate
  <2>3. UNCHANGED round BY <1>1 DEF ScanCommit, PhoneValidate
  <2> QED BY <1>a, <2>1, <2>2, <2>3, ClaimOnce DEF DoorVars
<1>2. ASSUME NEW r \in green, Answer(r)
      PROVE  RoundOpen' /\ AdmittedOnce' /\ GreenHasRow'
  BY <1>2 DEF Answer, OnceInv, RoundOpen, AdmittedOnce, GreenHasRow
<1>3. ASSUME NEW x \in writes, SaveUpdate(x)
      PROVE  RoundOpen' /\ AdmittedOnce' /\ GreenHasRow'
  BY <1>3, UpdateOnce
<1>5. ASSUME NEW u \in Registered, NEW t \in Tickets, Backfill(u, t)
      PROVE  RoundOpen' /\ AdmittedOnce' /\ GreenHasRow'
  <2>1. \A v \in Tickets : ticket'[v].status = ticket[v].status
    BY <1>5 DEF Backfill, OnceInv, ATypeOK, Ticket
  <2>2. UNCHANGED <<checkIns, green, round>> BY <1>5 DEF Backfill
  <2>3. \A x \in checkIns : x.ticket \in Tickets BY DEF OnceInv, ATypeOK, CheckInRow
  <2>4. RoundOpen' BY <2>1, <2>2, <2>3 DEF OnceInv, RoundOpen
  <2> QED BY <2>2, <2>4 DEF OnceInv, AdmittedOnce, GreenHasRow
<1>6. ASSUME NEW r \in Reviewers, NEW o \in Orders, RefundCommit(r, o)
      PROVE  RoundOpen' /\ AdmittedOnce' /\ GreenHasRow'
  <2>1. \A v \in Tickets : ticket'[v].status \in {"VOID", ticket[v].status}
    BY <1>6 DEF RefundCommit, VoidTickets, OnceInv, ATypeOK, Ticket
  <2>2. UNCHANGED <<checkIns, green, round>> BY <1>6 DEF RefundCommit
  <2>3. \A x \in checkIns : x.ticket \in Tickets BY DEF OnceInv, ATypeOK, CheckInRow
  <2>4. RoundOpen' BY <2>1, <2>2, <2>3 DEF OnceInv, RoundOpen
  <2> QED BY <2>2, <2>4 DEF OnceInv, AdmittedOnce, GreenHasRow
<1>7. ASSUME NEW x \in reassigns, ReassignCommit(x)
      PROVE  RoundOpen' /\ AdmittedOnce' /\ GreenHasRow'
  <2>1. \A v \in Tickets : ticket'[v].status = ticket[v].status
    BY <1>7 DEF ReassignCommit
  <2>2. UNCHANGED <<checkIns, green, round>> BY <1>7 DEF ReassignCommit
  <2>3. \A y \in checkIns : y.ticket \in Tickets BY DEF OnceInv, ATypeOK, CheckInRow
  <2>4. RoundOpen' BY <2>1, <2>2, <2>3 DEF OnceInv, RoundOpen
  <2> QED BY <2>2, <2>4 DEF OnceInv, AdmittedOnce, GreenHasRow
<1>8. CASE \/ \E d \in Panels, t \in Tickets : ScanRead(d, t)
           \/ \E d \in Phones, t \in Tickets : PhoneGuard(d, t)
           \/ \E p \in Phones, s \in {"REVOKED", "EXPIRED"} : EndSession(p, s)
           \/ \E q \in Requests, t \in Tickets, s \in TicketStatus : SetStatus(q, t, s)
           \/ \E q \in Requests, t \in Tickets, to \in People : TransferTo(q, t, to)
           \/ \E x \in entities : SaveSelect(x)
           \/ \E x \in reassigns : ReassignSelect(x)
           \/ \E r \in Reviewers, o \in Orders : RefundCheck(r, o) \/ RefundThrows(r, o)
           \/ \E r \in Reviewers, o \in Orders, to \in Registered : ReassignRead(r, o, to)
           \/ UNCHANGED avars
  BY <1>8, <1>a DEF ScanRead, PhoneGuard, EndSession, SetStatus, TransferTo, BeginSave,
     SaveSelect, ReassignRead, ReassignSelect, RefundCheck, RefundThrows, avars, DoorVars
<1> QED
  BY <1>1, <1>2, <1>3, <1>5, <1>6, <1>7, <1>8 DEF ANext, DoorStep, DeskStep

LEMMA OnceInit == AInit => OnceInv
  BY TypeInit DEF AInit, OnceInv, RoundOpen, AdmittedOnce, GreenHasRow

\* However many devices scan, and whatever is saved over a ticket meanwhile,
\* a ticket is checked in once in each of its rounds.
THEOREM OneCheckIn == ASpec => []AdmittedOnce
<1>1. OnceInv => AdmittedOnce BY DEF OnceInv
<1> QED BY <1>1, OnceInit, OnceNext, PTL DEF ASpec

\* An answer that admits has its check-in row.
THEOREM GreenIsRecorded == ASpec => []GreenHasRow
<1>1. OnceInv => GreenHasRow BY DEF OnceInv
<1> QED BY <1>1, OnceInit, OnceNext, PTL DEF ASpec

-----------------------------------------------------------------------------
(* Owner and addressee *)

Held(t, c) == c.owner \in {NoOne, c.attendee} \/ Holder(c) = issuedTo[t]

\* Rows and every entity that may still be saved agree on the holder, unless
\* two saves have mixed up the holder of that ticket.
CopiesHeld ==
  /\ \A t \in Tickets \ mixed : Held(t, ticket[t])
  /\ \A x \in entities \cup writes : x.ticket \in mixed \/ Held(x.ticket, x.new)

HeldInv == ATypeOK /\ CopiesHeld

HeldVars == <<ticket, entities, writes, issuedTo, mixed>>

LEMMA BeginHeld ==
  ASSUME HeldInv, NEW q \in Requests, NEW t \in Tickets, NEW new \in Ticket,
         BeginSave(q, t, new), t \in mixed \/ Held(t, new)
  PROVE  CopiesHeld'
<1>1. /\ entities' = entities \cup {[call |-> q, ticket |-> t, new |-> new]}
      /\ UNCHANGED <<ticket, writes, issuedTo, mixed>>
  BY DEF BeginSave, rows, ghosts
<1> QED BY <1>1 DEF HeldInv, CopiesHeld, Held

\* An UPDATE leaves the holder alone, or writes it whole, or completes the
\* holder its SELECT had found; otherwise the holder is mixed.
LEMMA UpdateHeld ==
  ASSUME HeldInv, NEW x \in writes, SaveUpdate(x)
  PROVE  CopiesHeld'
<1> DEFINE t == x.ticket
<1>1. /\ x \in Write /\ t \in Tickets
      /\ \A u \in Tickets : u # t => ticket'[u] = ticket[u]
      /\ ticket'[t] = Written(x, ticket[t])
  BY UpdateStep DEF HeldInv
<1>2. ticket[t] \in Ticket BY <1>1 DEF HeldInv, ATypeOK
<1>3. /\ mixed' = IF Mixes(x) THEN mixed \cup {t} ELSE mixed
      /\ writes' \subseteq writes
      /\ UNCHANGED <<entities, issuedTo>>
  BY DEF SaveUpdate
<1>4. ASSUME t \notin mixed' PROVE Held(t, ticket[t])'
  <2>1. t \notin mixed /\ ~Mixes(x) BY <1>3, <1>4
  <2>2. Held(t, x.new) /\ Held(t, ticket[t])
    BY <1>1, <2>1 DEF HeldInv, CopiesHeld
  <2>3. /\ ticket'[t].owner = IF x.new.owner # x.row.owner THEN x.new.owner
                              ELSE ticket[t].owner
        /\ ticket'[t].attendee = IF x.new.attendee # x.row.attendee THEN x.new.attendee
                                 ELSE ticket[t].attendee
    BY <1>1 DEF Written, Differing, TicketColumns
  <2>4. \/ ticket[t].owner = x.row.owner /\ ticket[t].attendee = x.row.attendee
        \/ (x.new.owner # x.row.owner) <=> (x.new.attendee # x.row.attendee)
    BY <2>1 DEF Mixes, Holder, Differing, TicketColumns
  <2>5. \/ ticket'[t].owner = x.new.owner /\ ticket'[t].attendee = x.new.attendee
        \/ ticket'[t].owner = ticket[t].owner /\ ticket'[t].attendee = ticket[t].attendee
    BY <2>3, <2>4
  <2> QED BY <1>3, <2>2, <2>5 DEF Held, Holder
<1>5. \A u \in Tickets \ mixed' : u # t => Held(u, ticket[u])'
  BY <1>1, <1>3 DEF HeldInv, CopiesHeld, Held
<1>6. \A y \in entities' \cup writes' : y.ticket \in mixed' \/ Held(y.ticket, y.new)'
  BY <1>3 DEF HeldInv, CopiesHeld, Held
<1> HIDE DEF t
<1> QED BY <1>4, <1>5, <1>6 DEF CopiesHeld

LEMMA HeldNext == HeldInv /\ [ANext]_avars => HeldInv'
<1> SUFFICES ASSUME HeldInv, [ANext]_avars PROVE CopiesHeld'
  BY TypeNext DEF HeldInv
<1> USE DEF rows, door, desk, refundCalls, ghosts
<1>a. ASSUME UNCHANGED <<entities, writes, issuedTo, mixed>>,
             \A t \in Tickets : Holder(ticket'[t]) = Holder(ticket[t])
      PROVE  CopiesHeld'
  BY <1>a DEF HeldInv, CopiesHeld, Held, Holder
<1>1. ASSUME NEW s \in scans, ScanCommit(s) \/ PhoneValidate(s) PROVE CopiesHeld'
  <2>1. s.ticket \in Tickets BY DEF HeldInv, ATypeOK, Scan
  <2>2. Claim(s.device, s.ticket) \/ UNCHANGED ticket
    BY <1>1 DEF ScanCommit, PhoneValidate
  <2>3. \A t \in Tickets : Holder(ticket'[t]) = Holder(ticket[t])
    BY <2>1, <2>2 DEF Claim, Holder, HeldInv, ATypeOK, Ticket
  <2> QED BY <1>a, <1>1, <2>3 DEF ScanCommit, PhoneValidate
<1>2. ASSUME NEW q \in Requests, NEW t \in Tickets, NEW s \in TicketStatus,
             SetStatus(q, t, s)
      PROVE  CopiesHeld'
  <2>1. /\ [ticket[t] EXCEPT !.status = s] \in Ticket
        /\ Holder([ticket[t] EXCEPT !.status = s]) = Holder(ticket[t])
    BY DEF HeldInv, ATypeOK, Ticket, Holder
  <2>2. t \in mixed \/ Held(t, [ticket[t] EXCEPT !.status = s])
    BY <2>1 DEF HeldInv, CopiesHeld, Held, Holder
  <2> QED BY <1>2, <2>1, <2>2, BeginHeld DEF SetStatus
<1>3. ASSUME NEW x \in entities, SaveSelect(x) PROVE CopiesHeld'
  <2>1. \A y \in entities' \cup writes' :
          \E z \in entities \cup writes : y.ticket = z.ticket /\ y.new = z.new
    BY <1>3 DEF SaveSelect
  <2>2. UNCHANGED <<ticket, issuedTo, mixed>> BY <1>3 DEF SaveSelect
  <2> QED BY <2>1, <2>2 DEF HeldInv, CopiesHeld, Held
<1>9. ASSUME NEW q \in Requests, NEW t \in Tickets, NEW to \in People,
             TransferTo(q, t, to)
      PROVE  CopiesHeld'
  <2>1. ticket[t] \in Ticket BY DEF HeldInv, ATypeOK
  <2>2. Transferred(ticket[t], to) \in Ticket BY <2>1, TransferredType
  <2>3. Held(t, Transferred(ticket[t], to)) BY <2>1 DEF Held, Transferred, Ticket
  <2> QED BY <1>9, <2>2, <2>3, BeginHeld DEF TransferTo
<1>4. ASSUME NEW u \in Registered, NEW t \in Tickets, Backfill(u, t) PROVE CopiesHeld'
  <2>1. ticket'[t].owner = u /\ ticket'[t].attendee = u
    BY <1>4 DEF Backfill, HeldInv, ATypeOK, Ticket
  <2>2. \A v \in Tickets \ {t} : ticket'[v] = ticket[v]
    BY <1>4 DEF Backfill, HeldInv, ATypeOK
  <2> QED BY <1>4, <2>1, <2>2 DEF Backfill, HeldInv, CopiesHeld, Held
<1>5. ASSUME NEW x \in writes, SaveUpdate(x) PROVE CopiesHeld'
  BY <1>5, UpdateHeld
<1>6. ASSUME NEW r \in Reviewers, NEW o \in Orders, RefundCommit(r, o) PROVE CopiesHeld'
  <2>1. \A t \in Tickets : Holder(ticket'[t]) = Holder(ticket[t])
    BY <1>6 DEF RefundCommit, VoidTickets, Holder, HeldInv, ATypeOK, Ticket
  <2> QED BY <1>a, <1>6, <2>1 DEF RefundCommit
<1>7. ASSUME NEW x \in reassigns, ReassignCommit(x) PROVE CopiesHeld'
  <2>1. \A t \in Tickets : ticket'[t].owner = ticket'[t].attendee \/ ticket'[t] = ticket[t]
    BY <1>7 DEF ReassignCommit
  <2> QED BY <1>7, <2>1 DEF ReassignCommit, HeldInv, CopiesHeld, Held
<1>8. CASE \/ \E d \in Panels, t \in Tickets : ScanRead(d, t)
           \/ \E d \in Phones, t \in Tickets : PhoneGuard(d, t)
           \/ \E r \in green : Answer(r)
           \/ \E p \in Phones, s \in {"REVOKED", "EXPIRED"} : EndSession(p, s)
           \/ \E r \in Reviewers, o \in Orders : RefundCheck(r, o) \/ RefundThrows(r, o)
           \/ \E r \in Reviewers, o \in Orders, to \in Registered : ReassignRead(r, o, to)
           \/ \E x \in reassigns : ReassignSelect(x)
           \/ UNCHANGED avars
  <2>1. UNCHANGED HeldVars
    BY <1>8 DEF ScanRead, PhoneGuard, Answer, EndSession, ReassignRead, ReassignSelect,
       RefundCheck, RefundThrows, avars, HeldVars
  <2> QED BY <1>a, <2>1 DEF HeldVars
<1> QED
  BY <1>1, <1>2, <1>3, <1>4, <1>5, <1>6, <1>7, <1>8, <1>9 DEF ANext, DoorStep, DeskStep

LEMMA HeldInit == AInit => HeldInv
  BY TypeInit DEF AInit, HeldInv, CopiesHeld, Held

\* Whatever stale tickets are saved over one another, a ticket that left the
\* buyer's hands belongs to its addressee or to nobody, unless a save has
\* written one half of the holder over a holder written since its SELECT.
THEOREM HeldRight == ASpec => []HeldByAddressee
<1>1. HeldInv => HeldByAddressee BY DEF HeldInv, CopiesHeld, Held, HeldByAddressee
<1> QED BY <1>1, HeldInit, HeldNext, PTL DEF ASpec

-----------------------------------------------------------------------------
(* Refunded orders *)

\* A ticket of a refunded order is ISSUED only if a save has revived it.
Revived ==
  \A t \in Tickets :
    order[OrderOf[t]] = "REFUNDED" /\ ticket[t].status = "ISSUED" => round[t] > 0

PaidInv == ATypeOK /\ Revived

LEMMA UpdateRevives ==
  ASSUME PaidInv, NEW x \in writes, SaveUpdate(x)
  PROVE  Revived'
<1>1. \A u \in Tickets : u # x.ticket => ticket'[u] = ticket[u]
  BY UpdateStep DEF PaidInv
<1>2. \A u \in Tickets : round'[u] =
        IF u = x.ticket /\ ticket'[u].status = "ISSUED" /\ ticket[u].status # "ISSUED"
        THEN round[u] + 1 ELSE round[u]
  BY UpdateStep DEF PaidInv
<1>3. \A u \in Tickets : round[u] \in Nat BY DEF PaidInv, ATypeOK
<1>4. UNCHANGED order BY DEF SaveUpdate
<1> QED BY <1>1, <1>2, <1>3, <1>4 DEF PaidInv, Revived

LEMMA PaidNext == PaidInv /\ [ANext]_avars => PaidInv'
<1> SUFFICES ASSUME PaidInv, [ANext]_avars PROVE Revived'
  BY TypeNext DEF PaidInv
<1> USE DEF rows, door, desk, refundCalls, ghosts
<1>a. ASSUME UNCHANGED <<order, round>>,
             \A t \in Tickets : ticket'[t].status = "ISSUED" => ticket[t].status = "ISSUED"
      PROVE  Revived'
  BY <1>a DEF PaidInv, Revived
<1>1. ASSUME NEW s \in scans, ScanCommit(s) \/ PhoneValidate(s) PROVE Revived'
  <2>1. s.ticket \in Tickets BY DEF PaidInv, ATypeOK, Scan
  <2>2. Claim(s.device, s.ticket) \/ UNCHANGED ticket
    BY <1>1 DEF ScanCommit, PhoneValidate
  <2>3. \A t \in Tickets : ticket'[t].status = "ISSUED" => ticket[t].status = "ISSUED"
    BY <2>1, <2>2 DEF Claim, PaidInv, ATypeOK, Ticket
  <2> QED BY <1>a, <1>1, <2>3 DEF ScanCommit, PhoneValidate
<1>2. ASSUME NEW x \in writes, SaveUpdate(x) PROVE Revived'
  BY <1>2, UpdateRevives
<1>4. ASSUME NEW u \in Registered, NEW t \in Tickets, Backfill(u, t) PROVE Revived'
  <2>1. \A v \in Tickets : ticket'[v].status = ticket[v].status
    BY <1>4 DEF Backfill, PaidInv, ATypeOK, Ticket
  <2> QED BY <1>a, <1>4, <2>1 DEF Backfill
<1>5. ASSUME NEW r \in Reviewers, NEW o \in Orders, RefundCommit(r, o) PROVE Revived'
  <2>1. \A t \in Tickets : ticket'[t].status =
          IF OrderOf[t] = o THEN "VOID" ELSE ticket[t].status
    BY <1>5 DEF RefundCommit, VoidTickets, PaidInv, ATypeOK, Ticket
  <2>2. \A p \in Orders \ {o} : order'[p] = order[p]
    BY <1>5 DEF RefundCommit, PaidInv, ATypeOK
  <2>3. \A t \in Tickets : OrderOf[t] \in Orders BY AdmissionAssumption
  <2> QED BY <1>5, <2>1, <2>2, <2>3 DEF RefundCommit, PaidInv, Revived
<1>6. ASSUME NEW x \in reassigns, ReassignCommit(x) PROVE Revived'
  <2>1. \A v \in Tickets : ticket'[v].status = ticket[v].status
    BY <1>6 DEF ReassignCommit
  <2>2. \A p \in Orders : order'[p] = "REFUNDED" => order[p] = "REFUNDED"
    BY <1>6 DEF ReassignCommit, PaidInv, ATypeOK
  <2>3. \A t \in Tickets : OrderOf[t] \in Orders BY AdmissionAssumption
  <2> QED BY <1>6, <2>1, <2>2, <2>3 DEF ReassignCommit, PaidInv, Revived
<1>7. CASE \/ \E d \in Panels, t \in Tickets : ScanRead(d, t)
           \/ \E d \in Phones, t \in Tickets : PhoneGuard(d, t)
           \/ \E r \in green : Answer(r)
           \/ \E p \in Phones, s \in {"REVOKED", "EXPIRED"} : EndSession(p, s)
           \/ \E q \in Requests, t \in Tickets, s \in TicketStatus : SetStatus(q, t, s)
           \/ \E q \in Requests, t \in Tickets, to \in People : TransferTo(q, t, to)
           \/ \E x \in entities : SaveSelect(x)
           \/ \E x \in reassigns : ReassignSelect(x)
           \/ \E r \in Reviewers, o \in Orders : RefundCheck(r, o) \/ RefundThrows(r, o)
           \/ \E r \in Reviewers, o \in Orders, to \in Registered : ReassignRead(r, o, to)
           \/ UNCHANGED avars
  <2>1. UNCHANGED <<order, ticket, round>>
    BY <1>7 DEF ScanRead, PhoneGuard, Answer, EndSession, SetStatus, TransferTo,
       BeginSave, SaveSelect, ReassignRead, ReassignSelect, RefundCheck, RefundThrows, avars
  <2> QED BY <1>a, <2>1
<1> QED
  BY <1>1, <1>2, <1>4, <1>5, <1>6, <1>7 DEF ANext, DoorStep, DeskStep

LEMMA PaidInit == AInit => PaidInv
  BY TypeInit, AdmissionAssumption DEF AInit, PaidInv, Revived

\* Only scans add check-in rows, and only for a ticket that is ISSUED.
LEMMA AdmitsStep ==
  ASSUME PaidInv, [ANext]_avars, NEW x \in checkIns', x \notin checkIns
  PROVE  order[OrderOf[x.ticket]] = "PAID" \/ round[x.ticket] > 0
<1> USE DEF rows, door, desk, refundCalls, ghosts
<1>1. ASSUME NEW s \in scans, ScanCommit(s) \/ PhoneValidate(s)
      PROVE  order[OrderOf[x.ticket]] = "PAID" \/ round[x.ticket] > 0
  <2>1. s.ticket \in Tickets BY DEF PaidInv, ATypeOK, Scan
  <2>2. Claim(s.device, s.ticket) BY <1>1 DEF ScanCommit, PhoneValidate
  <2>3. ticket[s.ticket].status = "ISSUED" /\ x.ticket = s.ticket
    BY <2>2 DEF Claim
  <2>4. order[OrderOf[s.ticket]] \in {"PAID", "REFUNDED"}
    BY <2>1, AdmissionAssumption DEF PaidInv, ATypeOK
  <2> QED BY <2>1, <2>3, <2>4 DEF PaidInv, Revived
<1>2. CASE ~ \E s \in scans : ScanCommit(s) \/ PhoneValidate(s)
  <2>1. UNCHANGED checkIns
    BY <1>2 DEF ANext, DoorStep, DeskStep, ScanRead, PhoneGuard, Answer, EndSession,
       SetStatus, TransferTo, BeginSave, SaveSelect, SaveUpdate, Backfill, ReassignRead,
       ReassignSelect, ReassignCommit, RefundCheck, RefundCommit, RefundThrows, avars
  <2> QED BY <2>1
<1> QED BY <1>1, <1>2

\* A ticket of a refunded order admits nobody, unless a stale save revived it.
THEOREM PaidAdmits == ASpec => AdmitsOnlyPaid
<1>1. PaidInv /\ [ANext]_avars =>
        [\A x \in checkIns' \ checkIns :
           order[OrderOf[x.ticket]] = "PAID" \/ round[x.ticket] > 0]_avars
  BY AdmitsStep
<1> QED BY <1>1, PaidInit, PaidNext, PTL DEF ASpec, AdmitsOnlyPaid

=============================================================================

---------------------------- MODULE Installments ----------------------------
(***************************************************************************)
(* Orders paid by a PaymentPlan: the plan branch of                         *)
(* finalizeSuccessfulPayment, PaymentPlansService.markInstallmentPaid that   *)
(* runs after that transaction, initializeInstallmentPayment for the later  *)
(* instalments, the reminder job that marks rows OVERDUE, and the default.  *)
(*                                                                         *)
(* markInstallmentPaid reads order, plan and instalments before its         *)
(* transaction and the tier inside it, all without a lock, and saves them   *)
(* back; plan.installments cascades, so saving the plan saves its stale     *)
(* instalments too.  One tier, shared with one-time buyers.                 *)
(***************************************************************************)
EXTENDS Integers, FiniteSets

CONSTANTS
  Orders,     \* orders with a plan
  Refs,       \* payment references; each belongs to one order
  Channels,   \* concurrent finalisations of a reference: webhook, return page
  RefOrder,   \* [Refs -> Orders]
  Qty,        \* seats per order
  Capacity,   \* quantityTotal of the tier
  Count,      \* instalments of a plan, at least two splits
  PayTwice,   \* may a buyer pay one instalment under two references?
  MaxCrashes, \* how often the process stops between two transactions
  MaxOthers,  \* seats that one-time buyers ask for
  Reminders,  \* does the reminder job run?
  Defaulting  \* is the (non-production) default endpoint used?

ASSUME InstallmentsAssumption ==
  /\ IsFiniteSet(Orders)
  /\ RefOrder \in [Refs -> Orders]
  /\ Qty \in Nat \ {0}
  /\ Capacity \in Nat
  /\ Count \in Nat \ {0, 1}
  /\ MaxCrashes \in Nat
  /\ MaxOthers \in Nat
  /\ {PayTwice, Reminders, Defaulting} \subseteq BOOLEAN

Seqs == 1..Count
OrderStatus == {"NONE", "PENDING", "PAID", "FAILED", "CANCELLED"}
PlanStatus  == {"NONE", "ACTIVE", "COMPLETED", "DEFAULTED"}
InstStatus  == {"PENDING", "PAID", "OVERDUE", "CANCELLED"}
Rows == [Seqs -> InstStatus]
ThreadPc == {"idle", "mark", "begin", "commit", "earn"}
Thread == [pc : ThreadPc, planCopy : PlanStatus, instCopy : Rows, upd : Rows,
           tierCopy : Nat]

VARIABLES
  order,   \* [Orders -> OrderStatus], "NONE": no row yet
  plan,    \* [Orders -> PlanStatus]
  inst,    \* [Orders -> Rows], the instalments
  pay,     \* [Refs -> [status, seq]], seq 0: no payment row yet
  charge,  \* [Refs -> {"none", "open", "paid"}], the gateway's transaction
  sold,    \* quantitySold of the tier
  others,  \* seats of it sold to one-time buyers
  tickets, \* [Orders -> Nat], ticket rows
  earned,  \* orders whose earnings are in the ledger
  thread,  \* [Refs -> [Channels -> Thread]], calls of finalizeSuccessfulPayment
  due,     \* <<order, seq>> rows the reminder job has read as PENDING
  crashes, \* how often the process has stopped
  overtaken, \* history: orders of which a copy was saved over a newer row
  parted,    \* history: was the tier saved over a newer row?
  again,     \* history: how often a PAID order took its seats again
  defaulted  \* history: orders that were marked as defaulted

history == <<overtaken, parted, again, defaulted>>

vars == <<order, plan, inst, pay, charge, sold, others, tickets, earned,
          thread, due, crashes, history>>

AllPending == [s \in Seqs |-> "PENDING"]
Idle == [pc |-> "idle", planCopy |-> "NONE", instCopy |-> AllPending,
         upd |-> AllPending, tierCopy |-> 0]

Init ==
  /\ order = [o \in Orders |-> "NONE"]
  /\ plan = [o \in Orders |-> "NONE"]
  /\ inst = [o \in Orders |-> AllPending]
  /\ pay = [r \in Refs |-> [status |-> "NONE", seq |-> 0]]
  /\ charge = [r \in Refs |-> "none"]
  /\ sold = 0
  /\ others = 0
  /\ tickets = [o \in Orders |-> 0]
  /\ earned = {}
  /\ thread = [r \in Refs |-> [c \in Channels |-> Idle]]
  /\ due = {}
  /\ crashes = 0
  /\ overtaken = {}
  /\ parted = FALSE
  /\ again = 0
  /\ defaulted = {}

Pending(o)   == {s \in Seqs : inst[o][s] = "PENDING"}
RefsOf(o, s) == {r \in Refs : RefOrder[r] = o /\ pay[r].seq = s}
PaidFor(o, s) == \E r \in RefsOf(o, s) : charge[r] = "paid"

-----------------------------------------------------------------------------
(* Opening a charge *)

\* A payment row is saved, the gateway called and its answer saved: it opens
\* the transaction, refuses it, or cannot be reached.
OpenCharge(r, s, outcome) ==
  /\ pay[r].seq = 0
  /\ pay' = [pay EXCEPT ![r] = [status |-> outcome, seq |-> s]]
  /\ charge' = IF outcome = "AUTH_REQUIRED"
               THEN [charge EXCEPT ![r] = "open"] ELSE charge

\* initializePaystackCheckout with payInInstallments: order, plan and the
\* first payment.  No seat is taken.
InitializePaystackCheckout(r) ==
  LET o == RefOrder[r] IN
  /\ order[o] = "NONE"
  /\ Qty <= Capacity - sold
  /\ plan' = [plan EXCEPT ![o] = "ACTIVE"]
  /\ \E outcome \in {"AUTH_REQUIRED", "FAILED", "INITIATED"} :
       /\ OpenCharge(r, 1, outcome)
       /\ order' = [order EXCEPT
                      ![o] = IF outcome = "FAILED" THEN "FAILED" ELSE "PENDING"]
  /\ UNCHANGED <<inst, sold, others, tickets, earned, thread, due, crashes,
                 history>>

\* initializeInstallmentPayment offers the first PENDING instalment of an
\* ACTIVE plan, whatever the order's status.
InitializeInstallmentPayment(r) ==
  LET o == RefOrder[r] IN
  /\ plan[o] = "ACTIVE"
  /\ \E s \in Pending(o), outcome \in {"AUTH_REQUIRED", "FAILED", "INITIATED"} :
       /\ \A x \in Pending(o) : s <= x
       /\ OpenCharge(r, s, outcome)
  /\ UNCHANGED <<order, plan, inst, sold, others, tickets, earned, thread, due,
                 crashes, history>>

BuyerPays(r) ==
  /\ charge[r] = "open"
  /\ PayTwice \/ ~PaidFor(RefOrder[r], pay[r].seq)
  /\ charge' = [charge EXCEPT ![r] = "paid"]
  /\ UNCHANGED <<order, plan, inst, pay, sold, others, tickets, earned, thread,
                 due, crashes, history>>

-----------------------------------------------------------------------------
(* finalizeSuccessfulPayment: the locked transaction.                       *)

\* Mutant: a payment that is SUCCESS already is not looked at again.
StillDueUnsettled(r) ==
  /\ charge[r] = "paid"
  /\ order[RefOrder[r]] # "PAID"
  /\ pay[r].status # "SUCCESS"

\* The charge has succeeded and the order is not PAID yet.
StillDue(r) == charge[r] = "paid" /\ order[RefOrder[r]] # "PAID"

\* The plan branch: the payment is settled, and an instalment not PAID yet is
\* marked after the commit.
FinalizeInstallment(r, c) ==
  /\ StillDue(r)
  /\ thread[r][c].pc = "idle"
  /\ pay' = [pay EXCEPT ![r].status = "SUCCESS"]
  /\ thread' = IF inst[RefOrder[r]][pay[r].seq] = "PAID" THEN thread
               ELSE [thread EXCEPT ![r][c].pc = "mark"]
  /\ UNCHANGED <<order, plan, inst, charge, sold, others, tickets, earned, due,
                 crashes, history>>

\* A PAID order takes the one-time branch: its tickets exist, its seats are
\* taken again.
FinalizePaidOrder(r, c) ==
  LET o == RefOrder[r] IN
  /\ charge[r] = "paid"
  /\ thread[r][c].pc = "idle"
  /\ order[o] = "PAID"
  /\ pay[r].status # "SUCCESS"
  /\ Qty <= Capacity - sold
  /\ sold' = sold + Qty
  /\ pay' = [pay EXCEPT ![r].status = "SUCCESS"]
  /\ earned' = earned \cup {o}
  /\ again' = again + 1
  /\ UNCHANGED <<order, plan, inst, charge, others, tickets, thread, due, crashes,
                 overtaken, parted, defaulted>>

-----------------------------------------------------------------------------
(* markInstallmentPaid *)

\* The unlocked read.  An instalment that is PAID raises an error.
MarkRead(r, c) ==
  LET o == RefOrder[r] IN
  /\ thread[r][c].pc = "mark"
  /\ thread' = [thread EXCEPT ![r][c] =
       IF inst[o][pay[r].seq] = "PAID" THEN Idle
       ELSE [Idle EXCEPT !.pc = "begin", !.planCopy = plan[o], !.instCopy = inst[o]]]
  /\ UNCHANGED <<order, plan, inst, pay, charge, sold, others, tickets, earned,
                 due, crashes, history>>

\* The transaction saves its instalment, whose row stays locked, and reads
\* all instalments and the tier.
MarkBegin(r, c) ==
  LET o == RefOrder[r] IN
  /\ thread[r][c].pc = "begin"
  /\ \A q \in Refs, d \in Channels :
       thread[q][d].pc = "commit" => RefOrder[q] # o \/ pay[q].seq # pay[r].seq
  /\ thread' = [thread EXCEPT ![r][c] =
       [@ EXCEPT !.pc = "commit", !.tierCopy = sold,
                 !.upd = [inst[o] EXCEPT ![pay[r].seq] = "PAID"]]]
  /\ UNCHANGED <<order, plan, inst, pay, charge, sold, others, tickets, earned,
                 due, crashes, history>>

\* Mutant: what is no longer PENDING counts as paid.
NotPendingIn(rows) == {s \in Seqs : rows[s] # "PENDING"}

PaidIn(rows) == {s \in Seqs : rows[s] = "PAID"}

\* The copies read before the transaction, saved through the plan.
Cascade(r, c) ==
  inst' = [inst EXCEPT ![RefOrder[r]] =
             [thread[r][c].instCopy EXCEPT ![pay[r].seq] = "PAID"]]

\* Mutant: every payment takes the seats.
ReserveAlways(r, c) == sold' = thread[r][c].tierCopy + Qty

\* The first payment takes the seats, of the tier as it was read.
IsFirstPaid(r, c) == Cardinality(PaidIn(thread[r][c].upd)) = 1

ReserveIfFirst(r, c) ==
  sold' = IF IsFirstPaid(r, c) THEN thread[r][c].tierCopy + Qty ELSE sold

\* History: are order and tier still what the call has read?
Fresh(r, c) ==
  LET o == RefOrder[r] IN
  /\ thread[r][c].planCopy = plan[o]
  /\ thread[r][c].instCopy = inst[o]
  /\ thread[r][c].upd = [inst[o] EXCEPT ![pay[r].seq] = "PAID"]

Overtakes(r, c) ==
  /\ overtaken' = IF Fresh(r, c) THEN overtaken ELSE overtaken \cup {RefOrder[r]}
  /\ parted' = (parted \/ (IsFirstPaid(r, c) /\ thread[r][c].tierCopy # sold))
  /\ UNCHANGED <<again, defaulted>>

\* Mutant: the plan is saved before its status is set.
MarkCommitLastKeepsPlan(r, c) ==
  LET o == RefOrder[r] IN
  /\ thread[r][c].pc = "commit"
  /\ PaidIn(thread[r][c].upd) = Seqs
  /\ ReserveIfFirst(r, c)
  /\ Cascade(r, c)
  /\ plan' = [plan EXCEPT ![o] = thread[r][c].planCopy]
  /\ order' = [order EXCEPT ![o] = "PAID"]
  /\ tickets' = [tickets EXCEPT ![o] = @ + Qty]
  /\ thread' = [thread EXCEPT ![r][c] = [Idle EXCEPT !.pc = "earn"]]
  /\ Overtakes(r, c)
  /\ UNCHANGED <<pay, charge, others, earned, due, crashes>>

\* All instalments are paid: the order is PAID and its tickets are issued.
MarkCommitLast(r, c) ==
  LET o == RefOrder[r] IN
  /\ thread[r][c].pc = "commit"
  /\ PaidIn(thread[r][c].upd) = Seqs
  /\ ReserveIfFirst(r, c)
  /\ Cascade(r, c)
  /\ plan' = [plan EXCEPT ![o] = "COMPLETED"]
  /\ order' = [order EXCEPT ![o] = "PAID"]
  /\ tickets' = [tickets EXCEPT ![o] = @ + Qty]
  /\ thread' = [thread EXCEPT ![r][c] = [Idle EXCEPT !.pc = "earn"]]
  /\ Overtakes(r, c)
  /\ UNCHANGED <<pay, charge, others, earned, due, crashes>>

\* More to pay: the plan is saved when there is a next PENDING instalment.
MarkCommitMore(r, c) ==
  LET o == RefOrder[r] IN
  /\ thread[r][c].pc = "commit"
  /\ PaidIn(thread[r][c].upd) # Seqs
  /\ ReserveIfFirst(r, c)
  /\ IF \E s \in Seqs : thread[r][c].upd[s] = "PENDING"
     THEN /\ Cascade(r, c)
          /\ plan' = [plan EXCEPT ![o] = thread[r][c].planCopy]
     ELSE /\ inst' = [inst EXCEPT ![o][pay[r].seq] = "PAID"]
          /\ UNCHANGED plan
  /\ thread' = [thread EXCEPT ![r][c] = Idle]
  /\ Overtakes(r, c)
  /\ UNCHANGED <<order, pay, charge, others, tickets, earned, due, crashes>>

\* Mutant: the order read back is not looked at.
RecordEarningsNever(r, c) ==
  /\ thread[r][c].pc = "earn"
  /\ thread' = [thread EXCEPT ![r][c] = Idle]
  /\ UNCHANGED <<order, plan, inst, pay, charge, sold, others, tickets, earned,
                 due, crashes, history>>

\* ensureOrderEarnings in a transaction of its own.
RecordEarnings(r, c) ==
  /\ thread[r][c].pc = "earn"
  /\ earned' = earned \cup {RefOrder[r]}
  /\ thread' = [thread EXCEPT ![r][c] = Idle]
  /\ UNCHANGED <<order, plan, inst, pay, charge, sold, others, tickets, due,
                 crashes, history>>

\* The process stops; an open transaction rolls back.
Crash(r, c) ==
  /\ crashes < MaxCrashes
  /\ thread[r][c].pc # "idle"
  /\ crashes' = crashes + 1
  /\ thread' = [thread EXCEPT ![r][c] = Idle]
  /\ UNCHANGED <<order, plan, inst, pay, charge, sold, others, tickets, earned, due,
                 history>>

-----------------------------------------------------------------------------
(* The surroundings *)

\* A one-time order for one seat, finalised under the tier's lock.
SellOther ==
  /\ others < MaxOthers
  /\ 1 <= Capacity - sold
  /\ sold' = sold + 1
  /\ others' = others + 1
  /\ UNCHANGED <<order, plan, inst, pay, charge, tickets, earned, thread, due,
                 crashes, history>>

\* processDueReminders: one query, then an UPDATE per row past its due date.
ReminderRead ==
  /\ Reminders
  /\ due = {}
  /\ \E rows \in SUBSET (Orders \X Seqs) :
       /\ rows # {}
       /\ \A x \in rows : /\ plan[x[1]] = "ACTIVE"
                          /\ order[x[1]] # "CANCELLED"
                          /\ x[2] \in Pending(x[1])
       /\ due' = rows
  /\ UNCHANGED <<order, plan, inst, pay, charge, sold, others, tickets, earned,
                 thread, crashes, history>>

ReminderMark(o, s) ==
  /\ <<o, s>> \in due
  /\ due' = due \ {<<o, s>>}
  /\ inst' = [inst EXCEPT ![o][s] = "OVERDUE"]
  /\ overtaken' = IF inst[o][s] = "PENDING" THEN overtaken ELSE overtaken \cup {o}
  /\ UNCHANGED <<order, plan, pay, charge, sold, others, tickets, earned, thread,
                 crashes, parted, again, defaulted>>

\* Math.max(0, quantitySold - qty)
GiveBack == IF sold >= Qty THEN sold - Qty ELSE 0

\* markDefaulted looks at no status.  Tickets stay.  Its read and its transaction
\* are one step: the endpoint is for tests.
MarkDefaulted(o) ==
  /\ Defaulting
  /\ plan[o] # "NONE"
  /\ plan' = [plan EXCEPT ![o] = "DEFAULTED"]
  /\ order' = [order EXCEPT ![o] = "CANCELLED"]
  /\ sold' = GiveBack
  /\ inst' = [inst EXCEPT ![o] =
       [s \in Seqs |-> IF @[s] = "PENDING" THEN "CANCELLED" ELSE @[s]]]
  /\ defaulted' = defaulted \cup {o}
  /\ UNCHANGED <<pay, charge, others, tickets, earned, thread, due, crashes,
                 overtaken, parted, again>>

Mark(r, c) ==
  \/ MarkRead(r, c) \/ MarkBegin(r, c)
  \/ MarkCommitLast(r, c) \/ MarkCommitMore(r, c)
  \/ RecordEarnings(r, c)

Next ==
  \/ \E r \in Refs :
       \/ InitializePaystackCheckout(r) \/ InitializeInstallmentPayment(r)
       \/ BuyerPays(r)
  \/ \E r \in Refs, c \in Channels :
       \/ FinalizeInstallment(r, c) \/ FinalizePaidOrder(r, c)
       \/ Mark(r, c) \/ Crash(r, c)
  \/ SellOther
  \/ ReminderRead \/ (\E o \in Orders, s \in Seqs : ReminderMark(o, s))
  \/ \E o \in Orders : MarkDefaulted(o)

Spec == Init /\ [][Next]_vars

-----------------------------------------------------------------------------
(* What a plan promises *)

\* Types of the rows and of the calls in flight.
TypeOK ==
  /\ order \in [Orders -> OrderStatus]
  /\ plan \in [Orders -> PlanStatus]
  /\ inst \in [Orders -> Rows]
  /\ pay \in [Refs -> [status : {"NONE", "INITIATED", "AUTH_REQUIRED", "SUCCESS",
                                 "FAILED"},
                       seq : Seqs \cup {0}]]
  /\ charge \in [Refs -> {"none", "open", "paid"}]
  /\ sold \in Nat
  /\ others \in Nat
  /\ tickets \in [Orders -> Nat]
  /\ earned \subseteq Orders
  /\ thread \in [Refs -> [Channels -> Thread]]
  /\ due \subseteq Orders \X Seqs
  /\ crashes \in Nat
  /\ overtaken \subseteq Orders
  /\ parted \in BOOLEAN
  /\ again \in Nat
  /\ defaulted \subseteq Orders

\* Whatever is marked twice, lost, overdue or defaulted: an order is PAID, and
\* tickets exist, only when the gateway has charged every instalment.
TicketsArePaidFor ==
  \A o \in Orders :
    order[o] = "PAID" \/ tickets[o] > 0 => \A s \in Seqs : PaidFor(o, s)

\* The seats that one-time buyers and the plans with a first payment have taken.
SeatsTaken ==
  others + Qty * (Cardinality({o \in Orders : PaidIn(inst[o]) # {}}) + again)

\* The tier is read and saved without a lock, beside one-time buyers and other
\* calls.  As long as no plan was saved from a stale copy or defaulted, it never
\* counts more seats than were taken, each plan's once; and it counts exactly
\* those unless a first payment saved the tier over a sale it had not seen.
SeatsFollowPlan ==
  overtaken = {} /\ defaulted = {} =>
    /\ sold <= SeatsTaken
    /\ ~parted => sold = SeatsTaken

\* Order, plan, instalments and tickets are complete together, whatever calls,
\* crashes, double payments and defaults there are, unless one call saved the
\* plan over what another, or the reminder job, had written since its read.
CompleteTogether ==
  \A o \in Orders \ overtaken :
    /\ order[o] = "PAID" <=> PaidIn(inst[o]) = Seqs /\ order[o] # "CANCELLED"
    /\ order[o] = "PAID" <=> plan[o] = "COMPLETED"
    /\ tickets[o] = IF PaidIn(inst[o]) = Seqs THEN Qty ELSE 0

-----------------------------------------------------------------------------
(* Liveness.  The gateway retries its webhook; the process runs the call it  *)
(* has accepted.                                                            *)

Fairness ==
  \A r \in Refs, c \in Channels :
    /\ WF_vars(FinalizeInstallment(r, c))
    /\ WF_vars(Mark(r, c))

FairSpec == Spec /\ Fairness

\* A buyer charged for every instalment gets the order and its tickets, even
\* if the process stops between settling a payment and marking it.
PaidUpGetsTickets ==
  \A o \in Orders :
    (\A s \in Seqs : PaidFor(o, s)) ~> (order[o] = "PAID" /\ tickets[o] > 0)

\* The organizer of a PAID order is credited, in the transaction that follows,
\* unless the process has stopped: then nothing catches up.
PaidIsCredited ==
  \A o \in Orders : order[o] = "PAID" ~> o \in earned \/ crashes > 0

=============================================================================

------------------------------- MODULE Payouts -------------------------------
(***************************************************************************)
(* Paying organizers out: PayoutBatchesService on top of the organizer      *)
(* ledger.  A draft reads every organizer's balance with queries of their   *)
(* own, outside its transaction and without a lock; the later steps lock    *)
(* the batch row, disburse across its calls to the mobile money gateway.    *)
(* The order entries of the ledger come from Checkout: what is reversed     *)
(* was credited before (NeverDebitedMoreThanEarned).  One currency.         *)
(***************************************************************************)
EXTENDS Integers, FiniteSets

CONSTANTS
  Organizers,
  Batches,
  Mpesa,      \* organizers with M-Pesa as payout method and a phone number
  MaxGross,   \* bound: credits of an organizer
  MaxFaults,  \* bound: lost answers of the gateway and crashes
  JoinedLockRejected \* does the database reject FOR UPDATE on LEFT JOINs?

ASSUME PayoutsAssumption ==
  /\ Mpesa \subseteq Organizers
  /\ MaxGross \in Nat
  /\ MaxFaults \in Nat
  /\ JoinedLockRejected \in BOOLEAN

BatchStatus ==
  {"NONE", "DRAFT", "APPROVED", "EXPORTED", "MARKED_PAID", "CANCELLED"}
Payable == {"APPROVED", "EXPORTED"}
Rows == [Organizers -> Nat]
NoRows == [o \in Organizers |-> 0]
Draft ==
  [busy : BOOLEAN, todo : SUBSET Organizers, read : SUBSET Organizers,
   net : [Organizers -> Int], rows : Rows]
Disbursal == [busy : BOOLEAN, todo : SUBSET Organizers, done : SUBSET Organizers]

VARIABLES
  gross,     \* [Organizers -> Nat], ORDER_EARNINGS entries
  reversed,  \* [Organizers -> Nat], minus the ORDER_REFUND_REVERSAL entries
  debited,   \* <<batch, organizer>> lines with a PAYOUT entry
  batch,     \* [Batches -> BatchStatus], "NONE": no row yet
  line,      \* [Batches -> Rows], amountCents of the lines, 0: no line
  disbursed, \* <<batch, organizer>> lines with disbursedAt
  sent,      \* [Batches -> Rows], transfers the gateway made for a line
  draft,     \* [Batches -> Draft], calls of createDraft
  disbursal, \* [Batches -> Disbursal], calls of disburse
  faults,    \* lost answers and crashes so far
  overtaken  \* history: <<batch, organizer>> lines drafted from a balance that
             \* another line or payout of the organizer has overtaken

vars == <<gross, reversed, debited, batch, line, disbursed, sent, draft,
          disbursal, faults, overtaken>>

NoDraft == [busy |-> FALSE, todo |-> {}, read |-> {}, net |-> NoRows, rows |-> NoRows]
NoDisbursal == [busy |-> FALSE, todo |-> {}, done |-> {}]

Init ==
  /\ gross = NoRows
  /\ reversed = NoRows
  /\ debited = {}
  /\ batch = [b \in Batches |-> "NONE"]
  /\ line = [b \in Batches |-> NoRows]
  /\ disbursed = {}
  /\ sent = [b \in Batches |-> NoRows]
  /\ draft = [b \in Batches |-> NoDraft]
  /\ disbursal = [b \in Batches |-> NoDisbursal]
  /\ faults = 0
  /\ overtaken = {}

-----------------------------------------------------------------------------
(* The ledger *)

\* The cents of an organizer's lines in some batches, each line's numbered
\* from 1, and SUM(amountCents): how many they are.
CentsIn(o, bs) == UNION {{b} \X (1..line[b][o]) : b \in bs}
LinesIn(o, bs) == Cardinality(CentsIn(o, bs))

\* sumLedgerNetCents
LedgerNet(o) ==
  gross[o] - reversed[o] - LinesIn(o, {b \in Batches : <<b, o>> \in debited})

\* Mutant: a draft reserves nothing before its approval.
ReservedOnceApproved(o) == LinesIn(o, {b \in Batches : batch[b] \in Payable})

\* sumReservedInOpenBatchesCents
Reserved(o) == LinesIn(o, {b \in Batches : batch[b] \in Payable \cup {"DRAFT"}})

\* Math.max(0, net - reserved)
Available(net, reserved) == IF net > reserved THEN net - reserved ELSE 0

\* An order is paid, or refunded, in a transaction of Checkout.
EnsureOrderEarnings(o) ==
  /\ gross[o] < MaxGross
  /\ gross' = [gross EXCEPT ![o] = @ + 1]
  /\ UNCHANGED <<reversed, debited, batch, line, disbursed, sent, draft,
                 disbursal, faults, overtaken>>

EnsureOrderRefundReversal(o) ==
  /\ reversed[o] < gross[o]
  /\ reversed' = [reversed EXCEPT ![o] = @ + 1]
  /\ UNCHANGED <<gross, debited, batch, line, disbursed, sent, draft,
                 disbursal, faults, overtaken>>

-----------------------------------------------------------------------------
(* createDraft: getEarningsSummary of one organizer after the other, then   *)
(* batch and lines in one commit                                            *)

DraftBegin(b, os) ==
  /\ batch[b] = "NONE"
  /\ ~draft[b].busy
  /\ os # {}
  /\ draft' = [draft EXCEPT ![b] = [NoDraft EXCEPT !.busy = TRUE, !.todo = os]]
  /\ overtaken' = overtaken \ ({b} \X Organizers)
  /\ UNCHANGED <<gross, reversed, debited, batch, line, disbursed, sent,
                 disbursal, faults>>

DraftSumLedger(b, o) ==
  /\ o \in draft[b].todo
  /\ draft[b].read = {}
  /\ draft' = [draft EXCEPT ![b].read = {o}, ![b].net[o] = LedgerNet(o)]
  /\ UNCHANGED <<gross, reversed, debited, batch, line, disbursed, sent,
                 disbursal, faults, overtaken>>

DraftSumReserved(b, o) ==
  /\ o \in draft[b].read
  /\ draft' = [draft EXCEPT ![b].read = {}, ![b].todo = @ \ {o},
                            ![b].rows[o] = Available(draft[b].net[o], Reserved(o))]
  /\ UNCHANGED <<gross, reversed, debited, batch, line, disbursed, sent,
                 disbursal, faults, overtaken>>

\* History: the balances that other drafts have summed are out of date.
OvertakenBySave(b) ==
  {x \in Batches \X Organizers :
     x[1] # b /\ draft[b].rows[x[2]] > 0 /\ draft[x[1]].rows[x[2]] > 0}

\* Organizers without a balance get no line; without a line there is no batch.
DraftCommit(b) ==
  /\ draft[b].busy
  /\ draft[b].todo = {}
  /\ IF draft[b].rows = NoRows
     THEN UNCHANGED <<batch, line>>
     ELSE /\ batch' = [batch EXCEPT ![b] = "DRAFT"]
          /\ line' = [line EXCEPT ![b] = draft[b].rows]
  /\ draft' = [draft EXCEPT ![b] = NoDraft]
  /\ overtaken' = overtaken \cup OvertakenBySave(b)
  /\ UNCHANGED <<gross, reversed, debited, disbursed, sent, disbursal, faults>>

-----------------------------------------------------------------------------
(* The steps under the lock of the batch row *)

Locked(b) == disbursal[b].busy

\* The same lock asked for together with the batch's lines.
JoinedLock(b) == ~Locked(b) /\ ~JoinedLockRejected

Approve(b) ==
  /\ JoinedLock(b)
  /\ batch[b] = "DRAFT"
  /\ batch' = [batch EXCEPT ![b] = "APPROVED"]
  /\ UNCHANGED <<gross, reversed, debited, line, disbursed, sent, draft,
                 disbursal, faults, overtaken>>

MarkExported(b) ==
  /\ JoinedLock(b)
  /\ batch[b] = "APPROVED"
  /\ batch' = [batch EXCEPT ![b] = "EXPORTED"]
  /\ UNCHANGED <<gross, reversed, debited, line, disbursed, sent, draft,
                 disbursal, faults, overtaken>>

\* appendPayoutDebit of every line
DebitedLines(b) == {<<b, o>> : o \in {x \in Organizers : line[b][x] > 0}}

\* History: a draft between its two sums sees the line in neither.
OvertakenByPayout(b) ==
  {x \in Batches \X Organizers :
     x[2] \in draft[x[1]].read /\ <<b, x[2]>> \in DebitedLines(b)}

MarkPaid(b) ==
  /\ JoinedLock(b)
  /\ batch[b] \in Payable
  /\ debited' = debited \cup DebitedLines(b)
  /\ batch' = [batch EXCEPT ![b] = "MARKED_PAID"]
  /\ overtaken' = overtaken \cup OvertakenByPayout(b)
  /\ UNCHANGED <<gross, reversed, line, disbursed, sent, draft, disbursal, faults>>

\* Mutant: cancel does not wait for the row's lock.
CancelUnlocked(b) ==
  /\ batch[b] \in Payable \cup {"DRAFT"}
  /\ batch' = [batch EXCEPT ![b] = "CANCELLED"]
  /\ UNCHANGED <<gross, reversed, debited, line, disbursed, sent, draft,
                 disbursal, faults, overtaken>>

\* Disbursed lines do not keep a batch from being cancelled.
Cancel(b) ==
  /\ ~Locked(b)
  /\ batch[b] \in Payable \cup {"DRAFT"}
  /\ batch' = [batch EXCEPT ![b] = "CANCELLED"]
  /\ UNCHANGED <<gross, reversed, debited, line, disbursed, sent, draft,
                 disbursal, faults, overtaken>>

-----------------------------------------------------------------------------
(* disburse: one transaction around the gateway's calls *)

\* Mutant: lines that have been disbursed are disbursed again.
DueAgain(b) == {o \in Mpesa : line[b][o] > 0}

Due(b) == {o \in Mpesa : line[b][o] > 0 /\ <<b, o>> \notin disbursed}

DisburseBegin(b) ==
  /\ JoinedLock(b)
  /\ batch[b] \in Payable
  /\ disbursal' = [disbursal EXCEPT ![b] = [busy |-> TRUE, todo |-> Due(b), done |-> {}]]
  /\ UNCHANGED <<gross, reversed, debited, batch, line, disbursed, sent, draft,
                 faults, overtaken>>

DisburseAccepted(b, o) ==
  /\ o \in disbursal[b].todo
  /\ sent' = [sent EXCEPT ![b][o] = @ + 1]
  /\ disbursal' = [disbursal EXCEPT ![b].todo = @ \ {o}, ![b].done = @ \cup {o}]
  /\ UNCHANGED <<gross, reversed, debited, batch, line, disbursed, draft, faults,
                 overtaken>>

\* The gateway refuses: the line keeps an error and no date.
DisburseRefused(b, o) ==
  /\ o \in disbursal[b].todo
  /\ disbursal' = [disbursal EXCEPT ![b].todo = @ \ {o}]
  /\ UNCHANGED <<gross, reversed, debited, batch, line, disbursed, sent, draft,
                 faults, overtaken>>

\* The gateway pays and its answer is lost: to the code an error like any other.
DisburseAnswerLost(b, o) ==
  /\ o \in disbursal[b].todo
  /\ faults < MaxFaults
  /\ faults' = faults + 1
  /\ sent' = [sent EXCEPT ![b][o] = @ + 1]
  /\ disbursal' = [disbursal EXCEPT ![b].todo = @ \ {o}]
  /\ UNCHANGED <<gross, reversed, debited, batch, line, disbursed, draft,
                 overtaken>>

DisburseCommit(b) ==
  /\ disbursal[b].busy
  /\ disbursal[b].todo = {}
  /\ disbursed' = disbursed \cup {<<b, o>> : o \in disbursal[b].done}
  /\ disbursal' = [disbursal EXCEPT ![b] = NoDisbursal]
  /\ UNCHANGED <<gross, reversed, debited, batch, line, sent, draft, faults,
                 overtaken>>

\* The process stops: the dates of the lines already paid roll back.
DisburseCrash(b) ==
  /\ disbursal[b].busy
  /\ faults < MaxFaults
  /\ faults' = faults + 1
  /\ disbursal' = [disbursal EXCEPT ![b] = NoDisbursal]
  /\ UNCHANGED <<gross, reversed, debited, batch, line, disbursed, sent, draft,
                 overtaken>>

-----------------------------------------------------------------------------
CreateDraft(b) ==
  \/ \E os \in SUBSET Organizers : DraftBegin(b, os)
  \/ \E o \in Organizers : DraftSumLedger(b, o) \/ DraftSumReserved(b, o)
  \/ DraftCommit(b)

Disburse(b) ==
  \/ DisburseBegin(b) \/ DisburseCommit(b) \/ DisburseCrash(b)
  \/ \E o \in Organizers : \/ DisburseAccepted(b, o) \/ DisburseRefused(b, o)
                           \/ DisburseAnswerLost(b, o)

Next ==
  \/ \E o \in Organizers : EnsureOrderEarnings(o) \/ EnsureOrderRefundReversal(o)
  \/ \E b \in Batches : \/ CreateDraft(b)
                        \/ Approve(b) \/ MarkExported(b) \/ MarkPaid(b) \/ Cancel(b)
                        \/ Disburse(b)

Spec == Init /\ [][Next]_vars

-----------------------------------------------------------------------------
(* What paying out promises *)

\* Types of the rows and of the calls; an amount that a draft has computed from
\* the ledger is never negative.
TypeOK ==
  /\ {gross, reversed} \subseteq Rows
  /\ debited \subseteq Batches \X Organizers
  /\ batch \in [Batches -> BatchStatus]
  /\ line \in [Batches -> Rows]
  /\ disbursed \subseteq Batches \X Organizers
  /\ sent \in [Batches -> Rows]
  /\ draft \in [Batches -> Draft]
  /\ disbursal \in [Batches -> Disbursal]
  /\ faults \in Nat
  /\ overtaken \subseteq Batches \X Organizers

\* Whatever is drafted, approved, cancelled, paid and drafted again, side by
\* side: the batches that stand never promise an organizer more than the orders
\* have credited, apart from the lines that createDraft took from a balance out
\* of date: another draft has saved a line of the organizer since it was summed,
\* or markPaid has moved one from the reservations to the ledger between its sums.
NeverOverdrawn ==
  \A o \in Organizers :
    LinesIn(o, {b \in Batches : batch[b] # "CANCELLED" /\ <<b, o>> \notin overtaken})
      <= gross[o]

\* However often disburse is called, a line is transferred once, and again
\* only for a lost answer or a crash.
SentOnce == \A b \in Batches, o \in Organizers : sent[b][o] <= 1 + faults

\* Money leaves only while its batch is approved: neither a cancellation nor
\* markPaid comes between disburse's check and its last transfer.
SentOnlyWhileApproved ==
  [][\A b \in Batches : sent'[b] # sent[b] => batch[b] \in Payable]_vars

\* The ledger holds a payout for exactly the lines of the batches marked paid.
DebitedIffPaid ==
  debited = {x \in Batches \X Organizers :
               batch[x[1]] = "MARKED_PAID" /\ line[x[1]][x[2]] > 0}

=============================================================================

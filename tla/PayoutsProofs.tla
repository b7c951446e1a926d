---------------------------- MODULE PayoutsProofs ----------------------------
(* Theorems about Payouts, for every set of organizers and batches and any  *)
(* number of faults, with drafts side by side and beside every other call.  *)
EXTENDS Payouts, FiniteSetTheorems, TLAPS

\* Types of what disburse reads and writes.
Shape ==
  /\ batch \in [Batches -> BatchStatus]
  /\ disbursed \subseteq Batches \X Organizers
  /\ sent \in [Batches -> Rows]
  /\ disbursal \in [Batches -> Disbursal]
  /\ faults \in Nat

\* A line that waits for its transfer has none; an idle call has nothing to do.
CallsFresh ==
  \A b \in Batches :
    /\ \A o \in disbursal[b].todo : <<b, o>> \notin disbursed /\ o \notin disbursal[b].done
    /\ ~disbursal[b].busy => disbursal[b].todo = {} /\ disbursal[b].done = {}

\* The row lock: while disburse is under way, its batch stays payable.
LockHeld == \A b \in Batches : disbursal[b].busy => batch[b] \in Payable

Recorded(b, o) == <<b, o>> \in disbursed \/ o \in disbursal[b].done

\* A transfer without a record of it is a fault.
SentCounted ==
  \A b \in Batches, o \in Organizers :
    sent[b][o] <= (IF Recorded(b, o) THEN 1 ELSE 0) + faults

\* A draft under way has no row yet.
Unsaved ==
  /\ DOMAIN draft = Batches
  /\ \A b \in Batches : "busy" \in DOMAIN draft[b]
  /\ \A b \in Batches : draft[b].busy => batch[b] = "NONE"

SInv == Shape /\ CallsFresh /\ LockHeld /\ SentCounted
IInv == SInv /\ Unsaved

DisbursalVars == <<batch, disbursed, sent, disbursal, faults>>

LEMMA InitSent == Init => SInv
  BY DEF Init, SInv, Shape, CallsFresh, LockHeld, SentCounted, Recorded,
     BatchStatus, Rows, NoRows, Disbursal, NoDisbursal

LEMMA DueType == ASSUME NEW b PROVE Due(b) \subseteq Organizers
  BY PayoutsAssumption DEF Due

\* What leaves disbursals alone.
LEMMA SentUnchanged == SInv /\ UNCHANGED DisbursalVars => SInv'
  BY DEF SInv, Shape, CallsFresh, LockHeld, SentCounted, Recorded, DisbursalVars

\* A batch that no call disburses gets another status.
LEMMA SentStatus ==
  ASSUME SInv, NEW b \in Batches, NEW s \in BatchStatus,
         ~disbursal[b].busy \/ s \in Payable,
         batch' = [batch EXCEPT ![b] = s],
         UNCHANGED <<disbursed, sent, disbursal, faults>>
  PROVE  SInv'
<1>1. Shape' BY DEF SInv, Shape
<1>2. LockHeld' BY DEF SInv, Shape, LockHeld
<1> QED BY <1>1, <1>2 DEF SInv, CallsFresh, SentCounted, Recorded

\* A call that starts, and one that ends: with its dates, or by a fault.
LEMMA SentBegin == ASSUME SInv, NEW b \in Batches, DisburseBegin(b) PROVE SInv'
<1> DEFINE call == [busy |-> TRUE, todo |-> Due(b), done |-> {}]
<1>1. call \in Disbursal BY DueType DEF Disbursal
<1>2. disbursal' = [disbursal EXCEPT ![b] = call] /\ disbursal' \in [Batches -> Disbursal]
  BY <1>1 DEF SInv, Shape, DisburseBegin
<1>3. Shape' BY <1>2 DEF SInv, Shape, DisburseBegin
<1>4. \A d \in Batches : disbursal'[d] = (IF d = b THEN call ELSE disbursal[d])
  BY <1>2 DEF SInv, Shape
<1>5. disbursal[b].done = {} BY DEF SInv, CallsFresh, DisburseBegin, JoinedLock, Locked
<1>6. CallsFresh' BY <1>4 DEF SInv, CallsFresh, DisburseBegin, Due
<1>7. LockHeld' BY <1>4 DEF SInv, LockHeld, DisburseBegin
<1>8. \A d \in Batches, o \in Organizers : Recorded(d, o)' = Recorded(d, o)
  BY <1>4, <1>5 DEF Recorded, DisburseBegin
<1>9. SentCounted' BY <1>8 DEF SInv, SentCounted, DisburseBegin
<1> QED BY <1>3, <1>6, <1>7, <1>9 DEF SInv

LEMMA SentCommit == ASSUME SInv, NEW b \in Batches, DisburseCommit(b) PROVE SInv'
<1>1. NoDisbursal \in Disbursal BY DEF NoDisbursal, Disbursal
<1>2. disbursal[b] \in Disbursal /\ disbursal[b].done \subseteq Organizers
  BY DEF SInv, Shape, Disbursal
<1>3. Shape' BY <1>1, <1>2 DEF SInv, Shape, DisburseCommit
<1>4. \A d \in Batches : disbursal'[d] = (IF d = b THEN NoDisbursal ELSE disbursal[d])
  BY DEF SInv, Shape, DisburseCommit
<1>5. CallsFresh' BY <1>4 DEF SInv, CallsFresh, DisburseCommit, NoDisbursal
<1>6. LockHeld' BY <1>4 DEF SInv, LockHeld, DisburseCommit, NoDisbursal
<1>7. \A d \in Batches, o \in Organizers : Recorded(d, o) => Recorded(d, o)'
  BY <1>4 DEF Recorded, DisburseCommit
<1>8. SentCounted'
  <2> SUFFICES ASSUME NEW d \in Batches, NEW o \in Organizers
               PROVE  sent[d][o] <= (IF Recorded(d, o)' THEN 1 ELSE 0) + faults
    BY DEF SentCounted, DisburseCommit
  <2>1. sent[d][o] \in Nat /\ faults \in Nat BY DEF SInv, Shape, Rows
  <2>2. sent[d][o] <= (IF Recorded(d, o) THEN 1 ELSE 0) + faults
    BY DEF SInv, SentCounted
  <2> QED BY <1>7, <2>1, <2>2
<1> QED BY <1>3, <1>5, <1>6, <1>8 DEF SInv

LEMMA SentCrash == ASSUME SInv, NEW b \in Batches, DisburseCrash(b) PROVE SInv'
<1>1. NoDisbursal \in Disbursal BY DEF NoDisbursal, Disbursal
<1>2. Shape' BY <1>1 DEF SInv, Shape, DisburseCrash
<1>3. \A d \in Batches : disbursal'[d] = (IF d = b THEN NoDisbursal ELSE disbursal[d])
  BY DEF SInv, Shape, DisburseCrash
<1>4. CallsFresh' BY <1>3 DEF SInv, CallsFresh, DisburseCrash, NoDisbursal
<1>5. LockHeld' BY <1>3 DEF SInv, LockHeld, DisburseCrash, NoDisbursal
<1>6. SentCounted'
  <2> SUFFICES ASSUME NEW d \in Batches, NEW o \in Organizers
               PROVE  sent[d][o] <= (IF Recorded(d, o)' THEN 1 ELSE 0) + (faults + 1)
    BY DEF SentCounted, DisburseCrash
  <2>1. sent[d][o] \in Nat /\ faults \in Nat BY DEF SInv, Shape, Rows
  <2>2. sent[d][o] <= 1 + faults BY <2>1 DEF SInv, SentCounted
  <2> QED BY <2>1, <2>2
<1> QED BY <1>2, <1>4, <1>5, <1>6 DEF SInv

\* A line leaves the list: transferred with or without an answer, or refused.
LEMMA SentLine ==
  ASSUME SInv, NEW b \in Batches, NEW o \in Organizers,
         DisburseAccepted(b, o) \/ DisburseRefused(b, o) \/ DisburseAnswerLost(b, o)
  PROVE  SInv'
<1>1. disbursal[b] \in Disbursal /\ o \in disbursal[b].todo /\ disbursal[b].busy
  BY DEF SInv, Shape, CallsFresh, DisburseAccepted, DisburseRefused, DisburseAnswerLost
<1>2. sent[b] \in [Organizers -> Nat] /\ sent[b][o] \in Nat /\ faults \in Nat
  BY DEF SInv, Shape, Rows
<1>3. ~Recorded(b, o) /\ sent[b][o] <= faults
  BY <1>1, <1>2 DEF SInv, CallsFresh, SentCounted, Recorded
<1>4. CASE DisburseRefused(b, o)
  <2>1. \A d \in Batches : disbursal'[d] =
          (IF d = b THEN [disbursal[b] EXCEPT !.todo = @ \ {o}] ELSE disbursal[d])
    BY <1>4 DEF SInv, Shape, DisburseRefused
  <2>2. Shape' BY <1>1, <1>4 DEF SInv, Shape, Disbursal, DisburseRefused
  <2>3. CallsFresh'
    BY <1>1, <1>4, <2>1 DEF SInv, CallsFresh, Disbursal, DisburseRefused
  <2>4. LockHeld' BY <1>1, <1>4, <2>1 DEF SInv, LockHeld, Disbursal, DisburseRefused
  <2>5. \A d \in Batches, x \in Organizers : Recorded(d, x)' = Recorded(d, x)
    BY <1>1, <1>4, <2>1 DEF Recorded, Disbursal, DisburseRefused
  <2>6. SentCounted' BY <1>4, <2>5 DEF SInv, SentCounted, DisburseRefused
  <2> QED BY <2>2, <2>3, <2>4, <2>6 DEF SInv
<1>5. CASE DisburseAccepted(b, o)
  <2>1. \A d \in Batches : disbursal'[d] =
          (IF d = b THEN [disbursal[b] EXCEPT !.todo = @ \ {o}, !.done = @ \cup {o}]
           ELSE disbursal[d])
    BY <1>5 DEF SInv, Shape, DisburseAccepted
  <2>2. sent' \in [Batches -> Rows]
    BY <1>2, <1>5 DEF SInv, Shape, Rows, DisburseAccepted
  <2>3. Shape' BY <1>1, <1>5, <2>2 DEF SInv, Shape, Disbursal, DisburseAccepted
  <2>4. CallsFresh'
    <3>1. ASSUME NEW d \in Batches, d # b
          PROVE  /\ \A x \in disbursal'[d].todo :
                      <<d, x>> \notin disbursed /\ x \notin disbursal'[d].done
                 /\ ~disbursal'[d].busy => disbursal'[d].todo = {} /\ disbursal'[d].done = {}
      BY <2>1, <3>1 DEF SInv, CallsFresh
    <3>2. /\ disbursal'[b].todo = disbursal[b].todo \ {o}
          /\ disbursal'[b].done = disbursal[b].done \cup {o}
          /\ disbursal'[b].busy
      BY <1>1, <2>1 DEF Disbursal
    <3>3. \A x \in disbursal'[b].todo :
            <<b, x>> \notin disbursed /\ x \notin disbursal'[b].done
      BY <3>2 DEF SInv, CallsFresh
    <3> QED BY <1>5, <3>1, <3>2, <3>3 DEF CallsFresh, DisburseAccepted
  <2>5. LockHeld' BY <1>1, <1>5, <2>1 DEF SInv, LockHeld, Disbursal, DisburseAccepted
  <2>6. \A d \in Batches, x \in Organizers :
          sent'[d][x] = IF d = b /\ x = o THEN sent[b][o] + 1 ELSE sent[d][x]
    BY <1>2, <1>5 DEF SInv, Shape, Rows, DisburseAccepted
  <2>7. \A d \in Batches, x \in Organizers :
          Recorded(d, x)' = (Recorded(d, x) \/ (d = b /\ x = o))
    <3>1. disbursal'[b].done = disbursal[b].done \cup {o}
      BY <1>1, <2>1 DEF Disbursal
    <3> QED BY <1>5, <2>1, <3>1 DEF Recorded, DisburseAccepted
  <2>8. SentCounted'
    <3> SUFFICES ASSUME NEW d \in Batches, NEW x \in Organizers
                 PROVE  sent'[d][x] <= (IF Recorded(d, x)' THEN 1 ELSE 0) + faults
      BY <1>5 DEF SentCounted, DisburseAccepted
    <3>1. sent[d][x] <= (IF Recorded(d, x) THEN 1 ELSE 0) + faults
      BY DEF SInv, SentCounted
    <3>2. CASE d = b /\ x = o
      <4>1. Recorded(d, x)' BY <2>7, <3>2
      <4>2. sent'[d][x] = sent[b][o] + 1 BY <2>6, <3>2
      <4> QED BY <1>2, <1>3, <4>1, <4>2
    <3>3. CASE ~(d = b /\ x = o)
      BY <2>6, <2>7, <3>1, <3>3
    <3> QED BY <3>2, <3>3
  <2> QED BY <2>3, <2>4, <2>5, <2>8 DEF SInv
<1>6. CASE DisburseAnswerLost(b, o)
  <2>1. \A d \in Batches : disbursal'[d] =
          (IF d = b THEN [disbursal[b] EXCEPT !.todo = @ \ {o}] ELSE disbursal[d])
    BY <1>6 DEF SInv, Shape, DisburseAnswerLost
  <2>2. sent' \in [Batches -> Rows]
    BY <1>2, <1>6 DEF SInv, Shape, Rows, DisburseAnswerLost
  <2>3. Shape' BY <1>1, <1>6, <2>2 DEF SInv, Shape, Disbursal, DisburseAnswerLost
  <2>4. CallsFresh'
    BY <1>1, <1>6, <2>1 DEF SInv, CallsFresh, Disbursal, DisburseAnswerLost
  <2>5. LockHeld' BY <1>1, <1>6, <2>1 DEF SInv, LockHeld, Disbursal, DisburseAnswerLost
  <2>6. \A d \in Batches, x \in Organizers :
          sent'[d][x] = IF d = b /\ x = o THEN sent[b][o] + 1 ELSE sent[d][x]
    BY <1>2, <1>6 DEF SInv, Shape, Rows, DisburseAnswerLost
  <2>7. \A d \in Batches, x \in Organizers : Recorded(d, x)' = Recorded(d, x)
    BY <1>1, <1>6, <2>1 DEF Recorded, Disbursal, DisburseAnswerLost
  <2>8. SentCounted'
    <3> SUFFICES ASSUME NEW d \in Batches, NEW x \in Organizers
                 PROVE  sent'[d][x] <= (IF Recorded(d, x) THEN 1 ELSE 0) + (faults + 1)
      BY <1>6, <2>7 DEF SentCounted, DisburseAnswerLost
    <3>1. sent[d][x] \in Nat BY DEF SInv, Shape, Rows
    <3>2. sent[d][x] <= (IF Recorded(d, x) THEN 1 ELSE 0) + faults
      BY DEF SInv, SentCounted
    <3> QED BY <1>2, <1>3, <2>6, <3>1, <3>2
  <2> QED BY <2>3, <2>4, <2>5, <2>8 DEF SInv
<1> QED BY <1>4, <1>5, <1>6

LEMMA SentStep == IInv /\ [Next]_vars => SInv'
<1> SUFFICES ASSUME IInv, [Next]_vars PROVE SInv'
  OBVIOUS
<1>1. CASE \E o \in Organizers : EnsureOrderEarnings(o) \/ EnsureOrderRefundReversal(o)
  BY <1>1, SentUnchanged
     DEF IInv, EnsureOrderEarnings, EnsureOrderRefundReversal, DisbursalVars
<1>2. ASSUME NEW b \in Batches, CreateDraft(b) PROVE SInv'
  <2>1. CASE DraftCommit(b)
    <3>1. CASE draft[b].rows = NoRows
      BY <2>1, <3>1, SentUnchanged DEF IInv, DraftCommit, DisbursalVars
    <3>2. CASE draft[b].rows # NoRows
      <4>1. ~disbursal[b].busy
        BY <2>1 DEF IInv, SInv, LockHeld, Unsaved, DraftCommit, Payable
      <4> QED BY <2>1, <3>2, <4>1, SentStatus DEF IInv, DraftCommit, BatchStatus
    <3> QED BY <3>1, <3>2
  <2>2. CASE (\E os \in SUBSET Organizers : DraftBegin(b, os)) \/
             \E o \in Organizers : DraftSumLedger(b, o) \/ DraftSumReserved(b, o)
    BY <2>2, SentUnchanged
       DEF IInv, DraftBegin, DraftSumLedger, DraftSumReserved, DisbursalVars
  <2> QED BY <1>2, <2>1, <2>2 DEF CreateDraft
<1>3. ASSUME NEW b \in Batches,
             Approve(b) \/ MarkExported(b) \/ MarkPaid(b) \/ Cancel(b)
      PROVE  SInv'
  BY <1>3, SentStatus
     DEF IInv, Approve, MarkExported, MarkPaid, Cancel, JoinedLock, Locked,
         BatchStatus
<1>4. ASSUME NEW b \in Batches, Disburse(b) PROVE SInv'
  BY <1>4, SentBegin, SentCommit, SentCrash, SentLine DEF IInv, Disburse
<1>5. CASE UNCHANGED vars
  BY <1>5, SentUnchanged DEF IInv, vars, DisbursalVars
<1> QED BY <1>1, <1>2, <1>3, <1>4, <1>5 DEF Next

-----------------------------------------------------------------------------
(* Drafts and debits                                                        *)

\* The ledger's payouts are the lines of the batches marked paid: until then
\* a batch has none, and its lines are not overwritten afterwards.
PInv == Unsaved /\ DOMAIN line = Batches /\ DebitedIffPaid

LEMMA InitPaid == Init => PInv
  BY DEF Init, PInv, Unsaved, NoDraft, DebitedIffPaid

LEMMA DraftUnchanged ==
  PInv /\ UNCHANGED <<batch, line, debited, draft>> => PInv'
  BY DEF PInv, Unsaved, DebitedIffPaid

\* The steps of a draft before its commit.
LEMMA DraftGoesOn ==
  ASSUME PInv, NEW b \in Batches,
         (\E os \in SUBSET Organizers : DraftBegin(b, os))
           \/ \E o \in Organizers : DraftSumLedger(b, o) \/ DraftSumReserved(b, o)
  PROVE  PInv'
<1>1. DOMAIN draft' = Batches /\ \A d \in Batches \ {b} : draft'[d] = draft[d]
  BY DEF PInv, Unsaved, DraftBegin, DraftSumLedger, DraftSumReserved
<1>2. "busy" \in DOMAIN draft'[b] /\ (draft'[b].busy => batch[b] = "NONE")
  <2>1. CASE \E os \in SUBSET Organizers : DraftBegin(b, os)
    BY <2>1 DEF PInv, Unsaved, DraftBegin, NoDraft
  <2>2. CASE \E o \in Organizers : DraftSumLedger(b, o)
    <3>1. PICK o \in Organizers : DraftSumLedger(b, o) BY <2>2
    <3>2. DOMAIN draft'[b] = DOMAIN draft[b] /\ draft'[b].busy = draft[b].busy
      BY <3>1 DEF PInv, Unsaved, DraftSumLedger
    <3> QED BY <3>2 DEF PInv, Unsaved
  <2>3. CASE \E o \in Organizers : DraftSumReserved(b, o)
    <3>1. PICK o \in Organizers : DraftSumReserved(b, o) BY <2>3
    <3>2. DOMAIN draft'[b] = DOMAIN draft[b] /\ draft'[b].busy = draft[b].busy
      BY <3>1 DEF PInv, Unsaved, DraftSumReserved
    <3> QED BY <3>2 DEF PInv, Unsaved
  <2> QED BY <2>1, <2>2, <2>3
<1>3. UNCHANGED <<batch, line, debited>>
  BY DEF DraftBegin, DraftSumLedger, DraftSumReserved
<1>4. Unsaved' BY <1>1, <1>2, <1>3 DEF PInv, Unsaved
<1> QED BY <1>3, <1>4 DEF PInv, DebitedIffPaid

LEMMA DraftSaved == ASSUME Shape, PInv, NEW b \in Batches, DraftCommit(b) PROVE PInv'
<1>1. DOMAIN draft' = Batches /\ draft'[b] = NoDraft
      /\ \A d \in Batches \ {b} : draft'[d] = draft[d]
  BY DEF PInv, Unsaved, DraftCommit
<1>2. DOMAIN batch = Batches /\ batch[b] = "NONE"
  BY DEF Shape, PInv, Unsaved, DraftCommit
<1>3. /\ DOMAIN line' = Batches
      /\ \A d \in Batches \ {b} : batch'[d] = batch[d] /\ line'[d] = line[d]
      /\ batch'[b] \in {"NONE", "DRAFT"}
  BY <1>2 DEF PInv, DraftCommit
<1>4. Unsaved' BY <1>1, <1>3 DEF PInv, Unsaved, NoDraft
<1>5. DebitedIffPaid'
  <2>1. debited' = debited BY DEF DraftCommit
  <2>2. \A x \in Batches \X Organizers :
          (batch'[x[1]] = "MARKED_PAID" /\ line'[x[1]][x[2]] > 0)
            <=> (batch[x[1]] = "MARKED_PAID" /\ line[x[1]][x[2]] > 0)
    BY <1>2, <1>3
  <2> QED BY <2>1, <2>2 DEF PInv, DebitedIffPaid
<1> QED BY <1>3, <1>4, <1>5 DEF PInv

\* A batch that is marked paid, or gets another status on the way.
LEMMA PaidStatus ==
  ASSUME Shape, PInv, NEW b \in Batches,
         Approve(b) \/ MarkExported(b) \/ MarkPaid(b) \/ Cancel(b)
  PROVE  PInv'
<1>1. UNCHANGED <<line, draft>> /\ batch[b] # "NONE" /\ batch[b] # "MARKED_PAID"
  BY DEF Approve, MarkExported, MarkPaid, Cancel, Payable
<1>2. DOMAIN batch = Batches BY DEF Shape
<1>3. \A d \in Batches \ {b} : batch'[d] = batch[d]
  BY <1>2 DEF Approve, MarkExported, MarkPaid, Cancel
<1>4. Unsaved' BY <1>1, <1>3 DEF PInv, Unsaved
<1>5. CASE MarkPaid(b)
  <2>1. batch'[b] = "MARKED_PAID" BY <1>2, <1>5 DEF MarkPaid
  <2>2. debited' = debited \cup DebitedLines(b) BY <1>5 DEF MarkPaid
  <2>3. DebitedLines(b) = {x \in Batches \X Organizers : x[1] = b /\ line[b][x[2]] > 0}
    BY DEF DebitedLines
  <2>4. \A x \in Batches \X Organizers :
          (batch'[x[1]] = "MARKED_PAID" /\ line'[x[1]][x[2]] > 0)
            <=> \/ batch[x[1]] = "MARKED_PAID" /\ line[x[1]][x[2]] > 0
                \/ x[1] = b /\ line[b][x[2]] > 0
    BY <1>1, <1>3, <2>1
  <2> QED BY <1>1, <1>4, <2>2, <2>3, <2>4 DEF PInv, DebitedIffPaid
<1>6. CASE Approve(b) \/ MarkExported(b) \/ Cancel(b)
  <2>1. debited' = debited /\ batch'[b] # "MARKED_PAID"
    BY <1>2, <1>6 DEF Approve, MarkExported, Cancel
  <2>2. \A x \in Batches \X Organizers :
          (batch'[x[1]] = "MARKED_PAID" /\ line'[x[1]][x[2]] > 0)
            <=> (batch[x[1]] = "MARKED_PAID" /\ line[x[1]][x[2]] > 0)
    BY <1>1, <1>3, <2>1
  <2> QED BY <1>1, <1>4, <2>1, <2>2 DEF PInv, DebitedIffPaid
<1> QED BY <1>5, <1>6

LEMMA PaidStep == Shape /\ PInv /\ [Next]_vars => PInv'
<1> SUFFICES ASSUME Shape, PInv, [Next]_vars PROVE PInv'
  OBVIOUS
<1>1. CASE \E o \in Organizers : EnsureOrderEarnings(o) \/ EnsureOrderRefundReversal(o)
  BY <1>1, DraftUnchanged DEF EnsureOrderEarnings, EnsureOrderRefundReversal
<1>2. ASSUME NEW b \in Batches, CreateDraft(b) PROVE PInv'
  BY <1>2, DraftGoesOn, DraftSaved DEF CreateDraft
<1>3. ASSUME NEW b \in Batches,
             Approve(b) \/ MarkExported(b) \/ MarkPaid(b) \/ Cancel(b)
      PROVE  PInv'
  BY <1>3, PaidStatus
<1>4. ASSUME NEW b \in Batches, Disburse(b) PROVE PInv'
  BY <1>4, DraftUnchanged
     DEF Disburse, DisburseBegin, DisburseCommit, DisburseCrash, DisburseAccepted,
         DisburseRefused, DisburseAnswerLost
<1>5. CASE UNCHANGED vars
  BY <1>5, DraftUnchanged DEF vars
<1> QED BY <1>1, <1>2, <1>3, <1>4, <1>5 DEF Next

-----------------------------------------------------------------------------
IndInv == SInv /\ PInv

LEMMA IndInvariant == Spec => []IndInv
<1>1. Init => IndInv BY InitSent, InitPaid DEF IndInv
<1>2. IndInv /\ [Next]_vars => IndInv'
  BY SentStep, PaidStep DEF IndInv, IInv, SInv, PInv
<1> QED BY <1>1, <1>2, PTL DEF Spec

\* A line is transferred once, and again only for a lost answer or a crash,
\* however many calls of disburse, approvals and cancellations there are.
THEOREM NoSecondTransfer == Spec => []SentOnce
<1>1. IndInv => SentOnce
  <2> SUFFICES ASSUME SInv, NEW b \in Batches, NEW o \in Organizers
               PROVE  sent[b][o] <= 1 + faults
    BY DEF SentOnce, IndInv
  <2>1. sent[b][o] \in Nat /\ faults \in Nat BY DEF SInv, Shape, Rows
  <2> QED BY <2>1 DEF SInv, SentCounted
<1> QED BY <1>1, IndInvariant, PTL

\* The ledger holds a payout for exactly the lines of the batches marked paid,
\* whatever is drafted, disbursed or cancelled beside markPaid.
THEOREM LedgerShowsPaid == Spec => []DebitedIffPaid
<1>1. IndInv => DebitedIffPaid BY DEF IndInv, PInv
<1> QED BY <1>1, IndInvariant, PTL

\* Money leaves only while the batch is approved: no cancellation and no
\* markPaid comes between the check of disburse and its last transfer.
THEOREM TransfersUnderLock == Spec => SentOnlyWhileApproved
<1>1. IndInv /\ [Next]_vars =>
        [\A b \in Batches : sent'[b] # sent[b] => batch[b] \in Payable]_vars
  <2> SUFFICES ASSUME SInv, Next, NEW b \in Batches, sent'[b] # sent[b]
               PROVE  batch[b] \in Payable
    BY DEF vars, IndInv
  <2>1. PICK d \in Batches, o \in Organizers :
          DisburseAccepted(d, o) \/ DisburseAnswerLost(d, o)
    BY DEF Next, EnsureOrderEarnings, EnsureOrderRefundReversal, CreateDraft,
       DraftBegin, DraftSumLedger, DraftSumReserved, DraftCommit, Approve,
       MarkExported, MarkPaid, Cancel, Disburse, DisburseBegin, DisburseRefused,
       DisburseCommit, DisburseCrash
  <2>2. d = b
    BY <2>1 DEF SInv, Shape, DisburseAccepted, DisburseAnswerLost
  <2>3. disbursal[b].todo # {}
    BY <2>1, <2>2 DEF DisburseAccepted, DisburseAnswerLost
  <2> QED BY <2>3 DEF SInv, CallsFresh, LockHeld
<1> QED BY <1>1, IndInvariant, PTL DEF Spec, SentOnlyWhileApproved

-----------------------------------------------------------------------------
(* What is promised to an organizer: the cents of the batches that stand    *)

Standing == {b \in Batches : batch[b] # "CANCELLED"}
Open == {b \in Batches : batch[b] \in Payable \cup {"DRAFT"}}
Paid == {b \in Batches : batch[b] = "MARKED_PAID"}

AmountTypes ==
  /\ gross \in Rows
  /\ reversed \in Rows
  /\ line \in [Batches -> Rows]
  /\ draft \in [Batches -> Draft]

\* A batch has lines only once its draft is saved.
NoLinesYet == \A b \in Batches : batch[b] = "NONE" => line[b] = NoRows

\* The batches that stand and whose draft was not overtaken.
Clear(o) == {b \in Standing : <<b, o>> \notin overtaken}

\* Their lines are covered by what was earned ...
Covered(o) == LinesIn(o, Clear(o)) <= gross[o]

\* ... and so is everything that stands, with the row that a draft keeps aside,
\* as well as what is paid, with a balance that waits for the reservations,
\* unless the draft has been overtaken.
DraftCovered(b, o) ==
  draft[b].busy /\ <<b, o>> \notin overtaken =>
    /\ o \in draft[b].read => draft[b].net[o] + LinesIn(o, Paid) <= gross[o]
    /\ draft[b].rows[o] > 0 => draft[b].rows[o] + LinesIn(o, Standing) <= gross[o]

AllCovered ==
  \A o \in Organizers : Covered(o) /\ \A b \in Batches : DraftCovered(b, o)

OInv == NoLinesYet /\ AllCovered

\* The cents of one line.
LEMMA CentsOfLine ==
  ASSUME NEW b, NEW n \in Nat
  PROVE  IsFiniteSet({b} \X (1..n)) /\ Cardinality({b} \X (1..n)) = n
<1>1. IsFiniteSet(1..n) /\ Cardinality(1..n) = IF 1 > n THEN 0 ELSE n - 1 + 1
  BY FS_Interval
<1>2. Cardinality(1..n) = n
  BY <1>1
<1>3. IsFiniteSet({b}) /\ Cardinality({b}) = 1
  BY FS_Singleton
<1>4. /\ IsFiniteSet({b} \X (1..n))
      /\ Cardinality({b} \X (1..n)) = Cardinality({b}) * Cardinality(1..n)
  BY <1>1, <1>3, FS_Product
<1>5. Cardinality({b} \X (1..n)) = n
  BY <1>2, <1>3, <1>4
<1> QED BY <1>4, <1>5

\* Fewer batches have fewer cents.
LEMMA CentsSubset ==
  ASSUME NEW o, NEW bs, NEW ds \in SUBSET bs, IsFiniteSet(CentsIn(o, bs))
  PROVE  /\ IsFiniteSet(CentsIn(o, ds))
         /\ LinesIn(o, ds) \in Nat /\ LinesIn(o, ds) <= LinesIn(o, bs)
<1>1. CentsIn(o, ds) \subseteq CentsIn(o, bs)
  BY DEF CentsIn
<1> QED BY <1>1, FS_Subset, FS_CardinalityType DEF LinesIn

-----------------------------------------------------------------------------
(* Types                                                                    *)

\* A sum of lines is a number because only finitely many lines were ever saved.
LinesFinite == \A o \in Organizers : IsFiniteSet(CentsIn(o, Batches))

RowPairs == debited \subseteq Batches \X Organizers /\ overtaken \subseteq Batches \X Organizers

Typed == AmountTypes /\ RowPairs /\ LinesFinite

LEMMA SumsAreNumbers ==
  ASSUME Typed, NEW o \in Organizers
  PROVE  LedgerNet(o) \in Int /\ Reserved(o) \in Nat
<1>1. \A bs \in SUBSET Batches : LinesIn(o, bs) \in Nat
  BY CentsSubset DEF Typed, LinesFinite
<1>2. gross[o] \in Nat /\ reversed[o] \in Nat
  BY DEF Typed, AmountTypes, Rows
<1>3. {b \in Batches : <<b, o>> \in debited} \in SUBSET Batches
  OBVIOUS
<1>4. LinesIn(o, {b \in Batches : <<b, o>> \in debited}) \in Nat
  BY <1>1, <1>3
<1> QED BY <1>1, <1>2, <1>4 DEF LedgerNet, Reserved

\* Steps that save no lines.
LEMMA TypedUnchanged ==
  ASSUME Typed, UNCHANGED line, AmountTypes', RowPairs'
  PROVE  Typed'
<1>1. \A o : CentsIn(o, Batches)' = CentsIn(o, Batches)
  BY DEF CentsIn
<1> QED BY <1>1 DEF Typed, LinesFinite

LEMMA DraftTypes ==
  ASSUME Typed, NEW b \in Batches,
         (\E os \in SUBSET Organizers : DraftBegin(b, os))
           \/ \E o \in Organizers : DraftSumLedger(b, o) \/ DraftSumReserved(b, o)
  PROVE  Typed'
<1>1. UNCHANGED <<gross, reversed, debited, line>> /\ overtaken' \subseteq overtaken
  BY DEF DraftBegin, DraftSumLedger, DraftSumReserved
<1>2. draft[b] \in Draft
  BY DEF Typed, AmountTypes
<1>3. \E d \in Draft : draft' = [draft EXCEPT ![b] = d]
  <2>1. ASSUME NEW os \in SUBSET Organizers, DraftBegin(b, os)
        PROVE  \E d \in Draft : draft' = [draft EXCEPT ![b] = d]
    <3>1. NoDraft \in Draft
      BY DEF NoDraft, NoRows, Rows, Draft
    <3>2. [NoDraft EXCEPT !.busy = TRUE, !.todo = os] \in Draft
      BY <3>1 DEF Draft
    <3> QED BY <2>1, <3>2 DEF DraftBegin
  <2>2. ASSUME NEW o \in Organizers, DraftSumLedger(b, o)
        PROVE  \E d \in Draft : draft' = [draft EXCEPT ![b] = d]
    <3>1. LedgerNet(o) \in Int
      BY SumsAreNumbers
    <3>2. draft' = [draft EXCEPT ![b] =
                      [draft[b] EXCEPT !.read = {o}, !.net[o] = LedgerNet(o)]]
      BY <2>2 DEF DraftSumLedger, Typed, AmountTypes
    <3>3. [draft[b] EXCEPT !.read = {o}, !.net[o] = LedgerNet(o)] \in Draft
      BY <1>2, <3>1 DEF Draft
    <3> QED BY <3>2, <3>3
  <2>3. ASSUME NEW o \in Organizers, DraftSumReserved(b, o)
        PROVE  \E d \in Draft : draft' = [draft EXCEPT ![b] = d]
    <3> DEFINE row == Available(draft[b].net[o], Reserved(o))
    <3>1. Reserved(o) \in Nat /\ draft[b].net[o] \in Int
      BY <1>2, SumsAreNumbers DEF Draft
    <3>2. row \in Nat
      BY <3>1 DEF Available
    <3>3. draft' = [draft EXCEPT ![b].read = {}, ![b].todo = @ \ {o}, ![b].rows[o] = row]
      BY <2>3 DEF DraftSumReserved
    <3> HIDE DEF row
    <3> DEFINE d == [draft[b] EXCEPT !.read = {}, !.todo = @ \ {o}, !.rows[o] = row]
    <3>4. draft' = [draft EXCEPT ![b] = d]
      BY <1>2, <3>3 DEF Typed, AmountTypes, Draft
    <3>5. d \in Draft
      BY <1>2, <3>2 DEF Draft, Rows
    <3> QED BY <3>4, <3>5
  <2> QED BY <2>1, <2>2, <2>3
<1>4. AmountTypes'
  BY <1>1, <1>3 DEF Typed, AmountTypes
<1> QED BY <1>1, <1>4, TypedUnchanged DEF Typed, RowPairs

LEMMA CommitTypes ==
  ASSUME Typed, NEW b \in Batches, DraftCommit(b)
  PROVE  Typed'
<1>1. NoDraft \in Draft
  BY DEF NoDraft, NoRows, Rows, Draft
<1>2. draft[b].rows \in Rows
  BY DEF Typed, AmountTypes, Draft
<1>3. UNCHANGED <<gross, reversed, debited>> /\ draft' = [draft EXCEPT ![b] = NoDraft]
  BY DEF DraftCommit
<1>4. line' = line \/ line' = [line EXCEPT ![b] = draft[b].rows]
  BY DEF DraftCommit
<1>5. AmountTypes'
  BY <1>1, <1>2, <1>3, <1>4 DEF Typed, AmountTypes
<1>0. RowPairs'
  BY DEF DraftCommit, OvertakenBySave, Typed, RowPairs
<1>6. CASE line' = line
  BY <1>0, <1>5, <1>6, TypedUnchanged
<1>7. CASE line' = [line EXCEPT ![b] = draft[b].rows]
  <2> SUFFICES ASSUME NEW o \in Organizers PROVE IsFiniteSet(CentsIn(o, Batches)')
    BY <1>0, <1>5 DEF Typed, LinesFinite
  <2> DEFINE n == draft[b].rows[o]
             new == {b} \X (1..n)
  <2>1. n \in Nat
    BY <1>2 DEF Rows
  <2>2. IsFiniteSet(new)
    BY <2>1, CentsOfLine
  <2>3. \A d \in Batches : line'[d][o] = IF d = b THEN n ELSE line[d][o]
    BY <1>7 DEF Typed, AmountTypes
  <2> HIDE DEF n
  <2>4. \A d \in Batches : {d} \X (1..line'[d][o]) = new
                           \/ {d} \X (1..line'[d][o]) = {d} \X (1..line[d][o])
    BY <2>3
  <2> HIDE DEF new
  <2>5. CentsIn(o, Batches)' = UNION {{d} \X (1..line'[d][o]) : d \in Batches}
    BY DEF CentsIn
  <2>6. CentsIn(o, Batches)' \subseteq CentsIn(o, Batches) \cup new
    BY <2>4, <2>5, Zenon DEF CentsIn
  <2>7. IsFiniteSet(CentsIn(o, Batches) \cup new)
    BY <2>2, FS_Union DEF Typed, LinesFinite
  <2> QED BY <2>6, <2>7, FS_Subset
<1> QED BY <1>4, <1>6, <1>7

LEMMA TypedStep ==
  ASSUME Typed, [Next]_vars
  PROVE  Typed'
<1>1. ASSUME NEW o \in Organizers, EnsureOrderEarnings(o) \/ EnsureOrderRefundReversal(o)
      PROVE  Typed'
  <2>1. AmountTypes'
    BY <1>1 DEF EnsureOrderEarnings, EnsureOrderRefundReversal, Typed, AmountTypes, Rows
  <2> QED BY <1>1, <2>1, TypedUnchanged
       DEF EnsureOrderEarnings, EnsureOrderRefundReversal, Typed, RowPairs
<1>2. ASSUME NEW b \in Batches, MarkPaid(b) PROVE Typed'
  <2>1. AmountTypes' /\ UNCHANGED line
    BY <1>2 DEF MarkPaid, Typed, AmountTypes
  <2>2. RowPairs'
    <3>1. OvertakenByPayout(b) \subseteq Batches \X Organizers
      BY DEF OvertakenByPayout
    <3>2. DebitedLines(b) \subseteq Batches \X Organizers
      BY DEF DebitedLines
    <3> QED BY <1>2, <3>1, <3>2 DEF MarkPaid, Typed, RowPairs
  <2> QED BY <2>1, <2>2, TypedUnchanged
<1>3. ASSUME NEW b \in Batches,
             Approve(b) \/ MarkExported(b) \/ Cancel(b) \/ Disburse(b)
      PROVE  Typed'
  <2>1. UNCHANGED <<gross, reversed, debited, line, draft, overtaken>>
    BY <1>3 DEF Approve, MarkExported, Cancel, Disburse, DisburseBegin, DisburseCommit,
       DisburseCrash, DisburseAccepted, DisburseRefused, DisburseAnswerLost
  <2> QED BY <2>1, TypedUnchanged DEF Typed, AmountTypes, RowPairs
<1>4. CASE UNCHANGED vars
  BY <1>4, TypedUnchanged DEF vars, Typed, AmountTypes, RowPairs
<1> QED BY <1>1, <1>2, <1>3, <1>4, DraftTypes, CommitTypes DEF Next, CreateDraft

LEMMA AlwaysTyped == Spec => []Typed
<1>1. Init => Typed
  <2> SUFFICES ASSUME Init PROVE Typed
    OBVIOUS
  <2>1. NoDraft \in Draft /\ NoRows \in Rows
    BY DEF NoDraft, NoRows, Rows, Draft
  <2>2. ASSUME NEW o \in Organizers PROVE IsFiniteSet(CentsIn(o, Batches))
    <3>1. \A b \in Batches : {b} \X (1..line[b][o]) = {}
      BY DEF Init, NoRows
    <3>2. CentsIn(o, Batches) = {}
      BY <3>1 DEF CentsIn
    <3> QED BY <3>2, FS_EmptySet
  <2> QED BY <2>1, <2>2 DEF Init, Typed, AmountTypes, RowPairs, LinesFinite
<1> QED BY <1>1, TypedStep, PTL DEF Spec

\* Every reachable state is well typed, with drafts and payments side by side as
\* well: balances are numbers, and no line is negative whatever was read for it.
THEOREM TypeCorrect == Spec => []TypeOK
<1>1. IndInv /\ Typed => TypeOK
  BY DEF IndInv, SInv, Shape, Typed, AmountTypes, RowPairs, TypeOK
<1> QED BY <1>1, AlwaysTyped, IndInvariant, PTL

-----------------------------------------------------------------------------
(* No overdraft                                                             *)

LEMMA Sums ==
  ASSUME Typed, NEW o \in Organizers, NEW bs \in SUBSET Batches
  PROVE  IsFiniteSet(CentsIn(o, bs)) /\ LinesIn(o, bs) \in Nat
  BY CentsSubset DEF Typed, LinesFinite

\* Fewer cents are a smaller sum, now or in the next state.
LEMMA FewerCents ==
  ASSUME NEW S, NEW T \in SUBSET S, IsFiniteSet(S)
  PROVE  Cardinality(T) \in Nat /\ Cardinality(S) \in Nat /\ Cardinality(T) <= Cardinality(S)
  BY FS_Subset, FS_CardinalityType

\* What stands is reserved or paid.
LEMMA OpenAndPaid ==
  ASSUME Shape, Typed, NoLinesYet, NEW o \in Organizers
  PROVE  LinesIn(o, Standing) = LinesIn(o, Open) + LinesIn(o, Paid)
<1>1. \A b \in Standing : b \in Open \/ b \in Paid \/ line[b][o] = 0
  BY DEF Shape, BatchStatus, NoLinesYet, NoRows, Standing, Open, Paid, Payable
<1>2. Open \subseteq Standing /\ Paid \subseteq Standing /\ Open \cap Paid = {}
  BY DEF Standing, Open, Paid, Payable
<1>3. CentsIn(o, Standing) = CentsIn(o, Open) \cup CentsIn(o, Paid)
  BY <1>1, <1>2 DEF CentsIn
<1>4. CentsIn(o, Open) \cap CentsIn(o, Paid) = {}
  BY <1>2 DEF CentsIn
<1>5. Open \in SUBSET Batches /\ Paid \in SUBSET Batches
  BY DEF Open, Paid
<1>6. /\ IsFiniteSet(CentsIn(o, Open)) /\ IsFiniteSet(CentsIn(o, Paid))
      /\ LinesIn(o, Open) \in Nat /\ LinesIn(o, Paid) \in Nat
  BY <1>5, Sums
<1>7. Cardinality(CentsIn(o, Open) \cup CentsIn(o, Paid)) =
        LinesIn(o, Open) + LinesIn(o, Paid) - Cardinality(CentsIn(o, Open) \cap CentsIn(o, Paid))
  BY <1>6, FS_Union DEF LinesIn
<1>8. Cardinality(CentsIn(o, Open) \cap CentsIn(o, Paid)) = 0
  BY <1>4, FS_EmptySet
<1> QED BY <1>3, <1>6, <1>7, <1>8 DEF LinesIn

\* The payouts of the ledger are the cents of the paid batches.
LEMMA DebitedCents ==
  ASSUME AmountTypes, DebitedIffPaid, NEW o \in Organizers
  PROVE  LinesIn(o, {b \in Batches : <<b, o>> \in debited}) = LinesIn(o, Paid)
<1>1. \A b \in Batches : <<b, o>> \in debited <=> b \in Paid /\ line[b][o] > 0
  BY DEF DebitedIffPaid, Paid
<1>2. \A b \in Batches : line[b][o] > 0 \/ {b} \X (1..line[b][o]) = {}
  BY DEF AmountTypes, Rows
<1>3. CentsIn(o, {b \in Batches : <<b, o>> \in debited}) = CentsIn(o, Paid)
  BY <1>1, <1>2, Zenon DEF CentsIn, Paid
<1> QED BY <1>3 DEF LinesIn

\* Nothing is promised that was not promised before.
LEMMA PromiseKept ==
  ASSUME Typed, Typed', OInv, NoLinesYet',
         \A o \in Organizers : gross'[o] >= gross[o],
         \A o \in Organizers : CentsIn(o, Clear(o))' \subseteq CentsIn(o, Clear(o)),
         \A b \in Batches, o \in Organizers : DraftCovered(b, o)'
  PROVE  OInv'
<1>1. ASSUME NEW o \in Organizers PROVE Covered(o)'
  <2>1. gross[o] \in Nat /\ gross'[o] \in Nat /\ gross'[o] >= gross[o]
    BY DEF Typed, AmountTypes, Rows
  <2>2. Clear(o) \in SUBSET Batches
    BY DEF Clear, Standing
  <2>3. IsFiniteSet(CentsIn(o, Clear(o))) /\ Cardinality(CentsIn(o, Clear(o))) <= gross[o]
    BY <2>2, Sums DEF OInv, AllCovered, Covered, LinesIn
  <2>4. /\ Cardinality(CentsIn(o, Clear(o))') \in Nat
        /\ Cardinality(CentsIn(o, Clear(o))) \in Nat
        /\ Cardinality(CentsIn(o, Clear(o))') <= Cardinality(CentsIn(o, Clear(o)))
    BY <2>3, FewerCents
  <2>5. Cardinality(CentsIn(o, Clear(o))') <= gross'[o]
    BY <2>1, <2>3, <2>4
  <2> QED BY <2>5 DEF Covered, LinesIn
<1> QED BY <1>1 DEF OInv, AllCovered

\* A draft that a step leaves alone, and that it overtakes if it adds to the sums.
LEMMA DraftStays ==
  ASSUME Typed, Typed', NEW b \in Batches, NEW o \in Organizers, DraftCovered(b, o),
         draft'[b] = draft[b], gross'[o] >= gross[o],
         <<b, o>> \in overtaken => <<b, o>> \in overtaken',
         <<b, o>> \notin overtaken' /\ o \in draft[b].read
           => LinesIn(o, Paid)' = LinesIn(o, Paid),
         <<b, o>> \notin overtaken' /\ draft[b].rows[o] > 0
           => CentsIn(o, Standing)' \subseteq CentsIn(o, Standing)
  PROVE  DraftCovered(b, o)'
<1> SUFFICES ASSUME draft[b].busy, <<b, o>> \notin overtaken'
             PROVE  /\ o \in draft[b].read =>
                         draft[b].net[o] + LinesIn(o, Paid)' <= gross'[o]
                    /\ draft[b].rows[o] > 0 =>
                         draft[b].rows[o] + LinesIn(o, Standing)' <= gross'[o]
  BY DEF DraftCovered
<1>1. /\ gross[o] \in Nat /\ gross'[o] \in Nat
      /\ draft[b].net[o] \in Int /\ draft[b].rows[o] \in Nat
  BY DEF Typed, AmountTypes, Rows, Draft
<1>2. Standing \in SUBSET Batches /\ Paid \in SUBSET Batches
  BY DEF Standing, Paid
<1>3. /\ IsFiniteSet(CentsIn(o, Standing))
      /\ LinesIn(o, Standing) \in Nat /\ LinesIn(o, Paid) \in Nat
  BY <1>2, Sums
<1>4. ASSUME o \in draft[b].read
      PROVE  draft[b].net[o] + LinesIn(o, Paid)' <= gross'[o]
  <2>1. draft[b].net[o] + LinesIn(o, Paid) <= gross[o]
    BY <1>4 DEF DraftCovered
  <2>2. LinesIn(o, Paid)' = LinesIn(o, Paid)
    BY <1>4
  <2> QED BY <1>1, <1>3, <2>1, <2>2
<1>5. ASSUME draft[b].rows[o] > 0
      PROVE  draft[b].rows[o] + LinesIn(o, Standing)' <= gross'[o]
  <2>1. draft[b].rows[o] + LinesIn(o, Standing) <= gross[o]
    BY <1>5 DEF DraftCovered
  <2>2. CentsIn(o, Standing)' \subseteq CentsIn(o, Standing)
    BY <1>5
  <2>3. Cardinality(CentsIn(o, Standing)') \in Nat
        /\ Cardinality(CentsIn(o, Standing)') <= Cardinality(CentsIn(o, Standing))
    BY <1>3, <2>2, FewerCents
  <2>4. LinesIn(o, Standing)' \in Nat /\ LinesIn(o, Standing)' <= LinesIn(o, Standing)
    BY <2>3 DEF LinesIn
  <2> QED BY <1>1, <1>3, <2>1, <2>4
<1> QED BY <1>4, <1>5

\* The orders of Checkout move the ledger; a batch is approved, exported or
\* cancelled; disburse goes on.
LEMMA QuietStep ==
  ASSUME Typed, Typed', OInv, UNCHANGED <<line, draft, overtaken>>, NoLinesYet',
         \A o \in Organizers : gross'[o] >= gross[o],
         Standing' \subseteq Standing, Paid' = Paid
  PROVE  OInv'
<1>1. \A o \in Organizers : CentsIn(o, Clear(o))' \subseteq CentsIn(o, Clear(o))
  BY DEF CentsIn, Clear, Standing
<1>2. ASSUME NEW o \in Organizers
      PROVE  LinesIn(o, Paid)' = LinesIn(o, Paid)
             /\ CentsIn(o, Standing)' \subseteq CentsIn(o, Standing)
  BY DEF LinesIn, CentsIn
<1>3. \A b \in Batches, o \in Organizers : DraftCovered(b, o)'
  BY <1>2, DraftStays DEF OInv, AllCovered
<1> QED BY <1>1, <1>3, PromiseKept

LEMMA LedgerMoves ==
  ASSUME Typed, Typed', OInv, NEW o \in Organizers,
         EnsureOrderEarnings(o) \/ EnsureOrderRefundReversal(o)
  PROVE  OInv'
<1>1. UNCHANGED <<line, draft, batch, overtaken>>
  BY DEF EnsureOrderEarnings, EnsureOrderRefundReversal
<1>2. gross \in [Organizers -> Nat]
  BY DEF Typed, AmountTypes, Rows
<1>3. \A x \in Organizers : gross'[x] >= gross[x]
  <2>1. CASE EnsureOrderEarnings(o)
    BY <1>2, <2>1 DEF EnsureOrderEarnings
  <2>2. CASE EnsureOrderRefundReversal(o)
    BY <1>2, <2>2 DEF EnsureOrderRefundReversal
  <2> QED BY <2>1, <2>2
<1> QED BY <1>1, <1>3, QuietStep DEF OInv, NoLinesYet, Standing, Paid

LEMMA StatusMoves ==
  ASSUME Shape, Typed, Typed', OInv, NEW b \in Batches,
         Approve(b) \/ MarkExported(b) \/ Cancel(b)
  PROVE  OInv'
<1>1. UNCHANGED <<line, draft, gross, overtaken>>
  BY DEF Approve, MarkExported, Cancel
<1>2. /\ batch[b] \in Payable \cup {"DRAFT"}
      /\ \A d \in Batches \ {b} : batch'[d] = batch[d]
      /\ batch'[b] \in Payable \cup {"CANCELLED"}
  BY DEF Shape, Approve, MarkExported, Cancel, Payable
<1>3. Standing' \subseteq Standing /\ NoLinesYet' /\ Paid' = Paid
  BY <1>1, <1>2 DEF Standing, OInv, NoLinesYet, Payable, Paid
<1>4. \A x \in Organizers : gross'[x] >= gross[x]
  BY <1>1 DEF Typed, AmountTypes, Rows
<1> QED BY <1>1, <1>3, <1>4, QuietStep

\* Lines move from the reservations to the ledger.
LEMMA Pays ==
  ASSUME Shape, Typed, Typed', OInv, NEW b \in Batches, MarkPaid(b)
  PROVE  OInv'
<1>1. UNCHANGED <<line, draft, gross>> /\ overtaken' = overtaken \cup OvertakenByPayout(b)
  BY DEF MarkPaid
<1>2. /\ batch[b] \in Payable /\ batch'[b] = "MARKED_PAID"
      /\ \A d \in Batches \ {b} : batch'[d] = batch[d]
  BY DEF Shape, MarkPaid
<1>3. Standing' = Standing /\ NoLinesYet' /\ Paid' = Paid \cup {b}
  BY <1>1, <1>2 DEF Standing, OInv, NoLinesYet, Payable, Paid
<1>4. \A x \in Organizers : gross'[x] >= gross[x]
  BY <1>1 DEF Typed, AmountTypes, Rows
<1>5. \A o \in Organizers : CentsIn(o, Clear(o))' \subseteq CentsIn(o, Clear(o))
  BY <1>1, <1>3 DEF CentsIn, Clear, Standing
<1>6. ASSUME NEW d \in Batches, NEW o \in Organizers PROVE DraftCovered(d, o)'
  <2>1. CentsIn(o, Standing)' \subseteq CentsIn(o, Standing)
    BY <1>1, <1>3 DEF CentsIn
  <2>2. ASSUME <<d, o>> \notin overtaken', o \in draft[d].read
        PROVE  LinesIn(o, Paid)' = LinesIn(o, Paid)
    <3>1. ~(line[b][o] > 0)
      BY <1>1, <2>2 DEF OvertakenByPayout, DebitedLines
    <3>2. {b} \X (1..line[b][o]) = {}
      BY <3>1 DEF Typed, AmountTypes, Rows
    <3>3. CentsIn(o, Paid)' = UNION {{x} \X (1..line[x][o]) : x \in Paid \cup {b}}
      BY <1>1, <1>3 DEF CentsIn
    <3>4. CentsIn(o, Paid)' = CentsIn(o, Paid)
      BY <3>2, <3>3, Zenon DEF CentsIn
    <3> QED BY <3>4 DEF LinesIn
  <2>3. DraftCovered(d, o)
    BY DEF OInv, AllCovered
  <2> QED BY <1>1, <1>4, <2>1, <2>2, <2>3, DraftStays
<1> QED BY <1>3, <1>4, <1>5, <1>6, PromiseKept

\* One draft's record changes, and nothing else.
LEMMA DraftMoves ==
  ASSUME Typed, Typed', OInv, NEW b \in Batches,
         UNCHANGED <<gross, line, batch, overtaken>>,
         \A d \in Batches \ {b} : draft'[d] = draft[d],
         \A o \in Organizers : DraftCovered(b, o)'
  PROVE  OInv'
<1>1. NoLinesYet' /\ \A x \in Organizers : gross'[x] >= gross[x]
  BY DEF OInv, NoLinesYet, Typed, AmountTypes, Rows
<1>2. ASSUME NEW o \in Organizers
      PROVE  /\ CentsIn(o, Clear(o))' \subseteq CentsIn(o, Clear(o))
             /\ CentsIn(o, Standing)' \subseteq CentsIn(o, Standing)
             /\ LinesIn(o, Paid)' = LinesIn(o, Paid)
  BY DEF LinesIn, CentsIn, Clear, Standing, Paid
<1>3. \A d \in Batches \ {b}, o \in Organizers : DraftCovered(d, o)'
  BY <1>1, <1>2, DraftStays DEF OInv, AllCovered
<1> QED BY <1>1, <1>2, <1>3, PromiseKept

LEMMA Begins ==
  ASSUME Typed, Typed', OInv, NEW b \in Batches, NEW os \in SUBSET Organizers,
         DraftBegin(b, os)
  PROVE  OInv'
<1>1. /\ batch[b] = "NONE" /\ UNCHANGED <<gross, line, batch>>
      /\ overtaken' = overtaken \ ({b} \X Organizers)
      /\ draft'[b].read = {} /\ draft'[b].rows = NoRows
      /\ \A d \in Batches \ {b} : draft'[d] = draft[d]
  <2> DEFINE new == [NoDraft EXCEPT !.busy = TRUE, !.todo = os]
  <2>1. new.read = {} /\ new.rows = NoRows
    BY DEF NoDraft
  <2>2. draft' = [draft EXCEPT ![b] = new]
    BY DEF DraftBegin
  <2> HIDE DEF new
  <2>3. draft'[b] = new /\ \A d \in Batches \ {b} : draft'[d] = draft[d]
    BY <2>2 DEF Typed, AmountTypes
  <2> QED BY <2>1, <2>3 DEF DraftBegin
<1>2. NoLinesYet' /\ \A x \in Organizers : gross'[x] >= gross[x]
  BY <1>1 DEF OInv, NoLinesYet, Typed, AmountTypes, Rows
<1>3. ASSUME NEW o \in Organizers
      PROVE  /\ CentsIn(o, Clear(o))' \subseteq CentsIn(o, Clear(o))
             /\ CentsIn(o, Standing)' \subseteq CentsIn(o, Standing)
             /\ LinesIn(o, Paid)' = LinesIn(o, Paid)
  <2>1. line[b][o] = 0
    BY <1>1 DEF OInv, NoLinesYet, NoRows
  <2>2. {b} \X (1..line[b][o]) = {}
    BY <2>1
  <2>3. Clear(o)' \subseteq Clear(o) \cup {b}
    BY <1>1 DEF Clear, Standing
  <2>4. CentsIn(o, Clear(o))' = UNION {{d} \X (1..line[d][o]) : d \in Clear(o)'}
    BY <1>1 DEF CentsIn
  <2>5. CentsIn(o, Clear(o))' \subseteq CentsIn(o, Clear(o))
    BY <2>2, <2>3, <2>4, Zenon DEF CentsIn
  <2> QED BY <1>1, <2>5 DEF LinesIn, CentsIn, Standing, Paid
<1>4. ASSUME NEW d \in Batches, NEW o \in Organizers PROVE DraftCovered(d, o)'
  <2>1. CASE d = b
    BY <1>1, <2>1 DEF DraftCovered, NoRows
  <2>2. CASE d # b
    <3>1. <<d, o>> \in overtaken => <<d, o>> \in overtaken'
      BY <1>1, <2>2
    <3> QED BY <1>1, <1>2, <1>3, <2>2, <3>1, DraftStays DEF OInv, AllCovered
  <2> QED BY <2>1, <2>2
<1> QED BY <1>2, <1>3, <1>4, PromiseKept

LEMMA LedgerRead ==
  ASSUME DebitedIffPaid, Typed, Typed', OInv, NEW b \in Batches, NEW o \in Organizers,
         DraftSumLedger(b, o)
  PROVE  OInv'
<1>1. draft' = [draft EXCEPT ![b].read = {o}, ![b].net[o] = LedgerNet(o)]
      /\ UNCHANGED <<gross, line, batch, overtaken>>
  BY DEF DraftSumLedger
<1>2. gross[o] \in Nat /\ reversed[o] \in Nat
  BY DEF Typed, AmountTypes, Rows
<1>3. LinesIn(o, Paid) \in Nat
  <2>1. Paid \in SUBSET Batches
    BY DEF Paid
  <2> QED BY <2>1, Sums
<1>4. LedgerNet(o) = gross[o] - reversed[o] - LinesIn(o, Paid)
  BY DebitedCents DEF LedgerNet, Typed
<1>5. LedgerNet(o) + LinesIn(o, Paid) <= gross[o]
  BY <1>2, <1>3, <1>4
<1>6. draft[b] \in Draft
  BY DEF Typed, AmountTypes
<1>7. /\ draft'[b].busy = draft[b].busy /\ draft'[b].read = {o}
      /\ draft'[b].net[o] = LedgerNet(o) /\ draft'[b].rows = draft[b].rows
      /\ \A d \in Batches \ {b} : draft'[d] = draft[d]
  BY <1>1, <1>6 DEF Typed, AmountTypes, Draft
<1>8. ASSUME NEW x \in Organizers PROVE DraftCovered(b, x)'
  <2>1. LinesIn(x, Standing)' = LinesIn(x, Standing) /\ LinesIn(x, Paid)' = LinesIn(x, Paid)
    BY <1>1 DEF LinesIn, CentsIn, Standing, Paid
  <2>2. DraftCovered(b, x)
    BY DEF OInv, AllCovered
  <2> QED BY <1>1, <1>5, <1>7, <2>1, <2>2 DEF DraftCovered
<1> QED BY <1>1, <1>7, <1>8, DraftMoves

LEMMA ReservedRead ==
  ASSUME Shape, Typed, Typed', OInv, NEW b \in Batches, NEW o \in Organizers,
         DraftSumReserved(b, o)
  PROVE  OInv'
<1> DEFINE row == Available(draft[b].net[o], Reserved(o))
<1>1. /\ draft' = [draft EXCEPT ![b].read = {}, ![b].todo = @ \ {o}, ![b].rows[o] = row]
      /\ o \in draft[b].read
      /\ UNCHANGED <<gross, line, batch, overtaken>>
  BY DEF DraftSumReserved
<1>2. gross[o] \in Nat /\ DraftCovered(b, o)
  BY DEF OInv, AllCovered, Typed, AmountTypes, Rows
<1>3. /\ LinesIn(o, Open) \in Nat /\ LinesIn(o, Paid) \in Nat
      /\ LinesIn(o, Standing) = LinesIn(o, Open) + LinesIn(o, Paid)
  <2>1. Open \in SUBSET Batches /\ Paid \in SUBSET Batches
    BY DEF Open, Paid
  <2> QED BY <2>1, Sums, OpenAndPaid DEF OInv
<1>4. draft[b] \in [busy : BOOLEAN, todo : SUBSET Organizers, read : SUBSET Organizers,
                    net : [Organizers -> Int], rows : [Organizers -> Nat]]
  BY DEF Typed, AmountTypes, Draft, Rows
<1>5. draft[b].busy /\ <<b, o>> \notin overtaken /\ row > 0
        => row + LinesIn(o, Standing) <= gross[o]
  <2>1. /\ draft[b].net[o] \in Int
        /\ draft[b].busy /\ <<b, o>> \notin overtaken
             => draft[b].net[o] + LinesIn(o, Paid) <= gross[o]
    BY <1>1, <1>2, <1>4 DEF DraftCovered
  <2>2. Reserved(o) = LinesIn(o, Open)
    BY DEF Reserved, Open
  <2> QED BY <1>2, <1>3, <2>1, <2>2 DEF Available
<1> HIDE DEF row
<1>6. /\ draft'[b].busy = draft[b].busy /\ draft'[b].read = {}
      /\ draft'[b].rows = [draft[b].rows EXCEPT ![o] = row]
      /\ \A d \in Batches \ {b} : draft'[d] = draft[d]
  BY <1>1, <1>4 DEF Typed, AmountTypes
<1>7. ASSUME NEW x \in Organizers PROVE DraftCovered(b, x)'
  <2>1. LinesIn(x, Standing)' = LinesIn(x, Standing)
    BY <1>1 DEF LinesIn, CentsIn, Standing
  <2>2. DraftCovered(b, x)
    BY DEF OInv, AllCovered
  <2>3. draft'[b].rows[x] = IF x = o THEN row ELSE draft[b].rows[x]
    BY <1>4, <1>6
  <2> QED BY <1>1, <1>5, <1>6, <2>1, <2>2, <2>3 DEF DraftCovered
<1> QED BY <1>1, <1>6, <1>7, DraftMoves

\* A line adds its cents to the others'.
LEMMA NewLine ==
  ASSUME Typed, NEW b \in Batches, line[b] = NoRows, NEW o \in Organizers, NEW n \in Nat,
         NEW bs \in SUBSET Batches, NEW cs \in SUBSET bs,
         NEW cents, cents \subseteq CentsIn(o, cs) \cup ({b} \X (1..n))
  PROVE  IsFiniteSet(cents) /\ Cardinality(cents) <= LinesIn(o, bs) + n
<1>1. CentsIn(o, cs) \subseteq CentsIn(o, bs)
  BY DEF CentsIn
<1>2. IsFiniteSet(CentsIn(o, bs)) /\ LinesIn(o, bs) \in Nat
  BY Sums
<1>3. CentsIn(o, bs) \cap ({b} \X (1..n)) = {}
  <2>1. {b} \X (1..line[b][o]) = {}
    BY DEF NoRows
  <2> QED BY <2>1 DEF CentsIn
<1>4. IsFiniteSet({b} \X (1..n)) /\ Cardinality({b} \X (1..n)) = n
  BY CentsOfLine
<1>5. Cardinality(CentsIn(o, bs) \cap ({b} \X (1..n))) = 0
  BY <1>3, FS_EmptySet
<1>6. /\ IsFiniteSet(CentsIn(o, bs) \cup ({b} \X (1..n)))
      /\ Cardinality(CentsIn(o, bs) \cup ({b} \X (1..n))) =
           Cardinality(CentsIn(o, bs)) + n
             - Cardinality(CentsIn(o, bs) \cap ({b} \X (1..n)))
  BY <1>2, <1>4, FS_Union
<1>7. Cardinality(CentsIn(o, bs) \cup ({b} \X (1..n))) = LinesIn(o, bs) + n
  BY <1>2, <1>5, <1>6 DEF LinesIn
<1>8. cents \subseteq CentsIn(o, bs) \cup ({b} \X (1..n))
  BY <1>1
<1> QED BY <1>6, <1>7, <1>8, FS_Subset

\* The batch is saved: what the draft kept aside is promised now, and the other
\* drafts that keep something aside for the organizer are overtaken.
LEMMA Commits ==
  ASSUME Shape, Typed, Typed', OInv, Unsaved, NEW b \in Batches, DraftCommit(b)
  PROVE  OInv'
<1>1. /\ draft[b].busy /\ batch[b] = "NONE" /\ line[b] = NoRows /\ UNCHANGED gross
      /\ overtaken' = overtaken \cup OvertakenBySave(b)
  BY DEF DraftCommit, OInv, NoLinesYet, Unsaved
<1>2. ~draft'[b].busy /\ \A d \in Batches \ {b} : draft'[d] = draft[d]
  <2>1. draft' = [draft EXCEPT ![b] = NoDraft] /\ ~NoDraft.busy
    BY DEF DraftCommit, NoDraft
  <2> QED BY <2>1 DEF Typed, AmountTypes
<1>3. /\ \A d \in Batches \ {b} : line'[d] = line[d] /\ batch'[d] = batch[d]
      /\ batch'[b] \in {"NONE", "DRAFT"} /\ line'[b] = draft[b].rows
      /\ batch'[b] = "NONE" => line'[b] = NoRows
  BY <1>1 DEF DraftCommit, Shape, Typed, AmountTypes
<1>4. Standing' = Standing /\ Paid' = Paid /\ NoLinesYet'
      /\ \A x \in Organizers : gross'[x] >= gross[x]
  <2>1. Standing' = Standing /\ Paid' = Paid
    BY <1>1, <1>3 DEF Standing, Paid
  <2>2. NoLinesYet'
    BY <1>3 DEF OInv, NoLinesYet
  <2>3. \A x \in Organizers : gross'[x] >= gross[x]
    BY <1>1 DEF Typed, AmountTypes, Rows
  <2> QED BY <2>1, <2>2, <2>3
<1>5. ASSUME NEW o \in Organizers
      PROVE  /\ draft[b].rows[o] \in Nat /\ line'[b][o] = draft[b].rows[o]
             /\ LinesIn(o, Paid)' = LinesIn(o, Paid)
             /\ LinesIn(o, Standing) \in Nat
  <2>1. b \notin Paid /\ Standing \in SUBSET Batches
    BY <1>1 DEF Paid, Standing
  <2>2. \A d \in Paid : line'[d] = line[d]
    BY <1>3, <2>1 DEF Paid
  <2>3. LinesIn(o, Paid)' = LinesIn(o, Paid)
    BY <1>4, <2>2 DEF LinesIn, CentsIn
  <2> QED BY <1>3, <2>1, <2>3, Sums DEF Typed, AmountTypes, Draft, Rows
<1>6. ASSUME NEW o \in Organizers, NEW bs \in SUBSET Batches
      PROVE  /\ UNION {{d} \X (1..line'[d][o]) : d \in bs}
                  \subseteq CentsIn(o, bs) \cup ({b} \X (1..draft[b].rows[o]))
             /\ b \notin bs => UNION {{d} \X (1..line'[d][o]) : d \in bs} = CentsIn(o, bs)
  <2>1. \A d \in bs : d # b => {d} \X (1..line'[d][o]) = {d} \X (1..line[d][o])
    BY <1>3
  <2>2. {b} \X (1..line'[b][o]) = {b} \X (1..draft[b].rows[o])
    BY <1>5
  <2> QED BY <2>1, <2>2, Zenon DEF CentsIn
<1>7. ASSUME NEW o \in Organizers, draft[b].rows[o] = 0
      PROVE  /\ CentsIn(o, Clear(o))' \subseteq CentsIn(o, Clear(o))
             /\ CentsIn(o, Standing)' \subseteq CentsIn(o, Standing)
  <2>1. {b} \X (1..draft[b].rows[o]) = {}
    BY <1>7
  <2>2. /\ Clear(o)' \in SUBSET Batches /\ Standing \in SUBSET Batches
        /\ Clear(o)' \subseteq Clear(o)
    BY <1>1, <1>4 DEF Clear, Standing
  <2>3. CentsIn(o, Clear(o))' = UNION {{d} \X (1..line'[d][o]) : d \in Clear(o)'}
        /\ CentsIn(o, Standing)' = UNION {{d} \X (1..line'[d][o]) : d \in Standing}
    BY <1>4 DEF CentsIn
  <2>4. CentsIn(o, Clear(o)') \subseteq CentsIn(o, Clear(o))
    BY <2>2 DEF CentsIn
  <2>5. CentsIn(o, Clear(o))' \subseteq CentsIn(o, Clear(o)')
    BY <1>6, <2>1, <2>2, <2>3
  <2>6. CentsIn(o, Standing)' \subseteq CentsIn(o, Standing)
    BY <1>6, <2>1, <2>2, <2>3
  <2> QED BY <2>4, <2>5, <2>6
<1>8. ASSUME NEW o \in Organizers PROVE Covered(o)'
  <2> DEFINE n == draft[b].rows[o]
             cents == UNION {{d} \X (1..line'[d][o]) : d \in Clear(o)'}
  <2>1. n \in Nat /\ gross[o] \in Nat /\ LinesIn(o, Clear(o)) <= gross[o]
        /\ LinesIn(o, Clear(o)) \in Nat
    <3>1. Clear(o) \in SUBSET Batches
      BY DEF Clear, Standing
    <3> QED BY <1>5, <3>1, Sums DEF OInv, AllCovered, Covered, Typed, AmountTypes, Rows
  <2>2. CentsIn(o, Clear(o))' = cents
    BY DEF CentsIn
  <2>3. Clear(o)' \subseteq Clear(o) /\ Clear(o) \in SUBSET Batches
        /\ Clear(o)' \in SUBSET Standing /\ Standing \in SUBSET Batches
    BY <1>1, <1>4 DEF Clear, Standing
  <2>4. CASE b \in Clear(o)' /\ n > 0
    <3>1. n + LinesIn(o, Standing) <= gross[o]
      <4>1. <<b, o>> \notin overtaken
        BY <1>1, <2>4 DEF Clear
      <4> QED BY <1>1, <2>4, <4>1 DEF OInv, AllCovered, DraftCovered
    <3>2. Clear(o)' \in SUBSET Batches
      BY <2>3
    <3>3. cents \subseteq CentsIn(o, Clear(o)') \cup ({b} \X (1..n))
      BY <1>6, <3>2
    <3> HIDE DEF n, cents
    <3>4. IsFiniteSet(cents) /\ Cardinality(cents) <= LinesIn(o, Standing) + n
      BY <1>1, <2>1, <2>3, <3>3, NewLine
    <3>5. Cardinality(cents) \in Nat
      BY <3>4, FS_CardinalityType
    <3>6. Cardinality(cents) <= gross'[o]
      BY <1>1, <1>5, <2>1, <3>1, <3>4, <3>5
    <3> QED BY <2>2, <3>6 DEF Covered, LinesIn
  <2>5. CASE ~(b \in Clear(o)' /\ n > 0)
    <3>1. CentsIn(o, Clear(o))' \subseteq CentsIn(o, Clear(o))
      <4>1. CASE n = 0
        BY <1>7, <4>1
      <4>2. CASE b \notin Clear(o)'
        <5>1. Clear(o)' \in SUBSET Batches
          BY <2>3
        <5>2. cents = CentsIn(o, Clear(o)')
          BY <1>6, <4>2, <5>1
        <5>3. CentsIn(o, Clear(o)') \subseteq CentsIn(o, Clear(o))
          BY <2>3 DEF CentsIn
        <5> QED BY <2>2, <5>2, <5>3
      <4> QED BY <2>1, <2>5, <4>1, <4>2
    <3>2. IsFiniteSet(CentsIn(o, Clear(o)))
      BY <2>3, Sums
    <3>3. /\ Cardinality(CentsIn(o, Clear(o))') \in Nat
          /\ Cardinality(CentsIn(o, Clear(o))) \in Nat
          /\ Cardinality(CentsIn(o, Clear(o))') <= Cardinality(CentsIn(o, Clear(o)))
      BY <3>1, <3>2, FewerCents
    <3>4. Cardinality(CentsIn(o, Clear(o))') <= gross'[o]
      BY <1>1, <2>1, <3>3 DEF LinesIn
    <3> QED BY <3>4 DEF Covered, LinesIn
  <2> QED BY <2>4, <2>5
<1>9. ASSUME NEW d \in Batches, NEW o \in Organizers PROVE DraftCovered(d, o)'
  <2>1. CASE d = b
    BY <1>2, <2>1 DEF DraftCovered
  <2>2. CASE d # b
    <3>1. draft'[d] = draft[d] /\ DraftCovered(d, o)
          /\ (<<d, o>> \in overtaken => <<d, o>> \in overtaken')
      BY <1>1, <1>2, <2>2 DEF OInv, AllCovered
    <3>2. ASSUME <<d, o>> \notin overtaken', draft[d].rows[o] > 0
          PROVE  CentsIn(o, Standing)' \subseteq CentsIn(o, Standing)
      <4>1. ~(draft[b].rows[o] > 0)
        BY <1>1, <2>2, <3>2 DEF OvertakenBySave
      <4>2. draft[b].rows[o] = 0
        BY <1>5, <4>1
      <4> QED BY <1>7, <4>2
    <3> QED BY <1>4, <1>5, <3>1, <3>2, DraftStays
  <2> QED BY <2>1, <2>2
<1> QED BY <1>4, <1>8, <1>9 DEF OInv, AllCovered

LEMMA OverdrawnStep ==
  ASSUME IndInv, Typed, Typed', OInv, [Next]_vars
  PROVE  OInv'
<1>0. Shape /\ DebitedIffPaid /\ Unsaved
  BY DEF IndInv, SInv, PInv
<1>1. ASSUME UNCHANGED <<gross, line, draft, batch, overtaken>> PROVE OInv'
  <2>1. \A x \in Organizers : gross'[x] >= gross[x]
    BY <1>1 DEF Typed, AmountTypes, Rows
  <2> QED BY <1>1, <2>1, QuietStep DEF OInv, NoLinesYet, Standing, Paid
<1>2. ASSUME NEW b \in Batches, CreateDraft(b) PROVE OInv'
  BY <1>0, <1>2, Begins, LedgerRead, ReservedRead, Commits DEF CreateDraft
<1>3. ASSUME NEW b \in Batches, Disburse(b) PROVE OInv'
  BY <1>1, <1>3 DEF Disburse, DisburseBegin, DisburseCommit, DisburseCrash,
     DisburseAccepted, DisburseRefused, DisburseAnswerLost
<1>4. UNCHANGED vars => OInv'
  BY <1>1 DEF vars
<1> QED BY <1>0, <1>2, <1>3, <1>4, LedgerMoves, StatusMoves, Pays DEF Next

\* Drafts side by side, and beside markPaid: the batches that stand never
\* promise an organizer more than the orders have credited, whatever is
\* approved, cancelled, disbursed, refunded and drafted again meanwhile, apart
\* from the lines of a draft whose sums another line or payout has overtaken.
THEOREM NothingOverdrawn == Spec => []NeverOverdrawn
<1>1. Init => OInv
  <2> SUFFICES ASSUME Init PROVE OInv
    OBVIOUS
  <2>1. NoLinesYet
    BY DEF Init, NoLinesYet
  <2>2. ASSUME NEW o \in Organizers PROVE Covered(o)
    <3>1. \A b \in Batches : {b} \X (1..line[b][o]) = {}
      BY DEF Init, NoRows
    <3>2. CentsIn(o, Clear(o)) = {}
      BY <3>1 DEF CentsIn, Clear, Standing
    <3> QED BY <3>2, FS_EmptySet DEF Covered, LinesIn, Init, NoRows
  <2>3. \A b \in Batches, o \in Organizers : DraftCovered(b, o)
    BY DEF Init, NoDraft, DraftCovered
  <2> QED BY <2>1, <2>2, <2>3 DEF OInv, AllCovered
<1>2. IndInv /\ Typed /\ Typed' /\ OInv /\ [Next]_vars => OInv'
  BY OverdrawnStep
<1>3. OInv => NeverOverdrawn
  <2>1. \A o : {b \in Batches : batch[b] # "CANCELLED" /\ <<b, o>> \notin overtaken} = Clear(o)
    BY DEF Clear, Standing
  <2> QED BY <2>1 DEF OInv, AllCovered, Covered, NeverOverdrawn
<1> QED BY <1>1, <1>2, <1>3, IndInvariant, AlwaysTyped, PTL DEF Spec

=============================================================================

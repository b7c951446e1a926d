------------------------- MODULE InstallmentsProofs -------------------------
(* Theorems about Installments, for every set of orders, references and     *)
(* concurrent calls, with reminders, defaults, double payments and crashes. *)
EXTENDS Installments, FiniteSetTheorems, TLAPS

LEMMA ConstantTypes ==
  /\ RefOrder \in [Refs -> Orders]
  /\ Qty \in Nat /\ Capacity \in Nat /\ Count \in Nat /\ Count > 0
  BY InstallmentsAssumption

LEMMA SeqOne == 1 \in Seqs /\ Seqs \subseteq Nat /\ 0 \notin Seqs
  BY ConstantTypes DEF Seqs

PayRow == [status : {"NONE", "INITIATED", "AUTH_REQUIRED", "SUCCESS", "FAILED"},
           seq : Seqs \cup {0}]

LEMMA IdleType ==
  /\ AllPending \in Rows
  /\ Idle \in Thread
  BY DEF AllPending, Rows, InstStatus, Idle, Thread, ThreadPc, PlanStatus

-----------------------------------------------------------------------------
(* Type correctness; with it, that only references with a payment row are   *)
(* charged, finalised and marked.                                           *)

Charged ==
  /\ \A r \in Refs : charge[r] # "none" => pay[r].seq \in Seqs
  /\ \A r \in Refs, c \in Channels : thread[r][c].pc # "idle" => charge[r] = "paid"

IType == TypeOK /\ Charged

LEMMA InitType == Init => IType
<1> SUFFICES ASSUME Init PROVE TypeOK /\ Charged
  BY DEF IType
<1>1. order \in [Orders -> OrderStatus] /\ plan \in [Orders -> PlanStatus]
  BY DEF Init, OrderStatus, PlanStatus
<1>2. inst \in [Orders -> Rows] /\ thread \in [Refs -> [Channels -> Thread]]
  BY IdleType DEF Init
<1>3. TypeOK
  BY <1>1, <1>2, SeqOne DEF Init, TypeOK
<1>4. Charged
  BY DEF Init, Charged, Idle
<1> QED BY <1>3, <1>4

\* A thread that is put into a state of its type.
LEMMA ThreadType ==
  ASSUME TypeOK, NEW r \in Refs, NEW c \in Channels, NEW x \in Thread
  PROVE  [thread EXCEPT ![r][c] = x] \in [Refs -> [Channels -> Thread]]
  BY DEF TypeOK

\* Rows with one instalment changed are rows.
LEMMA RowsType ==
  ASSUME NEW rows \in Rows, NEW s \in Seqs, NEW v \in InstStatus
  PROVE  [rows EXCEPT ![s] = v] \in Rows
  BY DEF Rows

LEMMA PayType ==
  ASSUME TypeOK, NEW r \in Refs, NEW x \in PayRow
  PROVE  [pay EXCEPT ![r] = x] \in [Refs -> PayRow]
  BY DEF TypeOK, PayRow

LEMMA SettleType ==
  ASSUME TypeOK, NEW r \in Refs
  PROVE  [pay EXCEPT ![r].status = "SUCCESS"] \in [Refs -> PayRow]
<1>1. pay \in [Refs -> PayRow] /\ pay[r] \in PayRow
  BY DEF TypeOK, PayRow
<1>2. [pay[r] EXCEPT !.status = "SUCCESS"] \in PayRow
  BY <1>1 DEF PayRow
<1> QED BY <1>1, <1>2

\* Opening a charge.
LEMMA OpenChargeType ==
  ASSUME IType, NEW r \in Refs, NEW s \in Seqs,
         NEW outcome \in {"AUTH_REQUIRED", "FAILED", "INITIATED"},
         OpenCharge(r, s, outcome), thread' = thread
  PROVE  /\ pay' \in [Refs -> PayRow]
         /\ charge' \in [Refs -> {"none", "open", "paid"}]
         /\ Charged'
<1>1. pay' \in [Refs -> PayRow]
  BY PayType DEF OpenCharge, IType, PayRow
<1>2. charge' \in [Refs -> {"none", "open", "paid"}]
  BY DEF OpenCharge, IType, TypeOK
<1>3. charge[r] = "none"
  BY SeqOne DEF IType, TypeOK, Charged, OpenCharge
<1>4. Charged'
  BY <1>3, <1>1 DEF Charged, IType, TypeOK, OpenCharge
<1> QED BY <1>1, <1>2, <1>4

\* A call moves on while its reference is charged.
LEMMA ThreadStep ==
  ASSUME IType, NEW r \in Refs, NEW c \in Channels, NEW x \in Thread,
         x.pc # "idle" => charge[r] = "paid",
         thread' = [thread EXCEPT ![r][c] = x],
         charge' = charge,
         pay' \in [Refs -> PayRow],
         \A q \in Refs : pay'[q].seq = pay[q].seq
  PROVE  thread' \in [Refs -> [Channels -> Thread]] /\ Charged'
<1>1. thread' \in [Refs -> [Channels -> Thread]]
  BY ThreadType DEF IType
<1>2. \A q \in Refs, d \in Channels :
        thread'[q][d] = IF q = r /\ d = c THEN x ELSE thread[q][d]
  BY DEF IType, TypeOK
<1>3. Charged'
  BY <1>2 DEF IType, Charged
<1> QED BY <1>1, <1>3

\* The parts of a call's state.
LEMMA ThreadParts ==
  ASSUME TypeOK, NEW r \in Refs, NEW c \in Channels
  PROVE  /\ thread[r][c] \in Thread
         /\ thread[r][c].planCopy \in PlanStatus
         /\ thread[r][c].instCopy \in Rows
         /\ thread[r][c].upd \in Rows
         /\ thread[r][c].tierCopy \in Nat
  BY DEF TypeOK, Thread

LEMMA MarkType ==
  ASSUME IType, NEW r \in Refs, NEW c \in Channels, Mark(r, c)
  PROVE  IType'
<1> DEFINE o == RefOrder[r]
<1>1. TypeOK /\ Charged /\ o \in Orders /\ Qty \in Nat
  BY ConstantTypes DEF IType
<1>2. thread[r][c].pc # "idle" /\ charge[r] = "paid" /\ pay[r].seq \in Seqs
  BY <1>1 DEF Mark, MarkRead, MarkBegin, MarkCommitLast, MarkCommitMore,
              RecordEarnings, Charged
<1>3. pay \in [Refs -> PayRow] /\ Idle \in Thread
  BY <1>1, IdleType DEF TypeOK, PayRow
<1>4. CASE MarkRead(r, c)
  <2>1. PICK x \in Thread : thread' = [thread EXCEPT ![r][c] = x]
    <3>1. [Idle EXCEPT !.pc = "begin", !.planCopy = plan[o], !.instCopy = inst[o]]
            \in Thread
      <4>1. plan[o] \in PlanStatus /\ inst[o] \in Rows
        BY <1>1 DEF TypeOK
      <4> QED BY <1>3, <4>1 DEF Thread, ThreadPc
    <3> QED BY <1>4, <1>3, <3>1 DEF MarkRead
  <2>2. thread' \in [Refs -> [Channels -> Thread]] /\ Charged'
    <3>1. pay' = pay /\ charge' = charge
      BY <1>4 DEF MarkRead
    <3> QED BY <1>2, <1>3, <2>1, <3>1, ThreadStep
  <2> QED BY <1>1, <1>4, <2>2 DEF MarkRead, history, IType, TypeOK
<1>5. CASE MarkBegin(r, c)
  <2> DEFINE x == [thread[r][c] EXCEPT !.pc = "commit", !.tierCopy = sold,
                     !.upd = [inst[o] EXCEPT ![pay[r].seq] = "PAID"]]
  <2>1. x \in Thread
    <3>1. [inst[o] EXCEPT ![pay[r].seq] = "PAID"] \in Rows
      BY <1>1, <1>2, RowsType DEF TypeOK, InstStatus
    <3>2. thread[r][c] \in Thread /\ sold \in Nat
      BY <1>1, ThreadParts DEF TypeOK
    <3> QED BY <3>1, <3>2 DEF Thread, ThreadPc
  <2>2. thread' = [thread EXCEPT ![r][c] = x]
    BY <1>5 DEF MarkBegin
  <2>3. thread' \in [Refs -> [Channels -> Thread]] /\ Charged'
    <3>1. pay' = pay /\ charge' = charge
      BY <1>5 DEF MarkBegin
    <3>2. PICK y \in Thread : thread' = [thread EXCEPT ![r][c] = y]
      BY <2>1, <2>2
    <3> QED BY <1>2, <1>3, <3>1, <3>2, ThreadStep
  <2> QED BY <1>1, <1>5, <2>3 DEF MarkBegin, history, IType, TypeOK
<1>6. ASSUME Cascade(r, c) PROVE inst' \in [Orders -> Rows]
  <2>1. [thread[r][c].instCopy EXCEPT ![pay[r].seq] = "PAID"] \in Rows
    BY <1>1, <1>2, ThreadParts, RowsType DEF InstStatus
  <2> QED BY <1>1, <1>6, <2>1 DEF Cascade, TypeOK
<1>7. ASSUME ReserveIfFirst(r, c) PROVE sold' \in Nat
  BY <1>1, <1>7, ThreadParts DEF ReserveIfFirst, TypeOK
<1>8. CASE MarkCommitLast(r, c)
  <2>1. [Idle EXCEPT !.pc = "earn"] \in Thread
    BY <1>3 DEF Thread, ThreadPc
  <2>2. thread' \in [Refs -> [Channels -> Thread]] /\ Charged'
    BY <1>2, <1>3, <1>8, <2>1, ThreadStep DEF MarkCommitLast
  <2>3. plan' \in [Orders -> PlanStatus]
    BY <1>1, <1>8 DEF MarkCommitLast, TypeOK, PlanStatus
  <2>4. order' \in [Orders -> OrderStatus]
    BY <1>1, <1>8 DEF MarkCommitLast, TypeOK, OrderStatus
  <2>5. tickets' \in [Orders -> Nat]
    <3>1. tickets \in [Orders -> Nat] /\ tickets[o] + Qty \in Nat
      BY <1>1 DEF TypeOK
    <3> QED BY <1>8, <3>1 DEF MarkCommitLast
  <2> QED BY <1>1, <1>6, <1>7, <1>8, <2>2, <2>3, <2>4, <2>5
          DEF MarkCommitLast, Overtakes, IType, TypeOK
<1>9. CASE MarkCommitMore(r, c)
  <2>1. thread' \in [Refs -> [Channels -> Thread]] /\ Charged'
    BY <1>2, <1>3, <1>9, ThreadStep DEF MarkCommitMore
  <2>2. inst' \in [Orders -> Rows]
    <3>1. CASE Cascade(r, c)
      BY <1>6, <3>1
    <3>2. CASE inst' = [inst EXCEPT ![o][pay[r].seq] = "PAID"]
      <4>1. [inst[o] EXCEPT ![pay[r].seq] = "PAID"] \in Rows
        BY <1>1, <1>2, RowsType DEF TypeOK, InstStatus
      <4> QED BY <1>1, <3>2, <4>1 DEF TypeOK
    <3> QED BY <1>9, <3>1, <3>2 DEF MarkCommitMore
  <2>3. plan' \in [Orders -> PlanStatus]
    <3>1. plan \in [Orders -> PlanStatus] /\ thread[r][c].planCopy \in PlanStatus
      BY <1>1, ThreadParts DEF TypeOK
    <3>2. plan' = plan \/ plan' = [plan EXCEPT ![o] = thread[r][c].planCopy]
      BY <1>9 DEF MarkCommitMore
    <3> QED BY <3>1, <3>2
  <2> QED BY <1>1, <1>7, <1>9, <2>1, <2>2, <2>3 
          DEF MarkCommitMore, Overtakes, IType, TypeOK
<1>10. CASE RecordEarnings(r, c)
  <2>1. thread' \in [Refs -> [Channels -> Thread]] /\ Charged'
    BY <1>2, <1>3, <1>10, ThreadStep DEF RecordEarnings
  <2> QED BY <1>1, <1>10, <2>1 DEF RecordEarnings, history, IType, TypeOK
<1> QED BY <1>4, <1>5, <1>8, <1>9, <1>10 DEF Mark

LEMMA TypeStep == IType /\ [Next]_vars => IType'
<1> SUFFICES ASSUME IType, [Next]_vars PROVE IType'
  OBVIOUS
<1>1. TypeOK /\ Charged /\ pay \in [Refs -> PayRow]
  BY DEF IType, TypeOK, PayRow
<1>2. ASSUME NEW r \in Refs, InitializePaystackCheckout(r) PROVE IType'
  <2> DEFINE o == RefOrder[r]
  <2>1. o \in Orders
    BY ConstantTypes
  <2>2. PICK outcome \in {"AUTH_REQUIRED", "FAILED", "INITIATED"} :
          /\ OpenCharge(r, 1, outcome)
          /\ order' = [order EXCEPT
                         ![o] = IF outcome = "FAILED" THEN "FAILED" ELSE "PENDING"]
    BY <1>2 DEF InitializePaystackCheckout
  <2>3. /\ pay' \in [Refs -> PayRow]
        /\ charge' \in [Refs -> {"none", "open", "paid"}]
        /\ Charged'
    <3>1. thread' = thread
      BY <1>2 DEF InitializePaystackCheckout
    <3> QED BY <2>2, <3>1, SeqOne, OpenChargeType
  <2>4. order' \in [Orders -> OrderStatus]
    BY <1>1, <2>1, <2>2 DEF TypeOK, OrderStatus
  <2>5. plan' \in [Orders -> PlanStatus]
    BY <1>1, <1>2 DEF InitializePaystackCheckout, TypeOK, PlanStatus
  <2> QED BY <1>1, <1>2, <2>3, <2>4, <2>5
          DEF InitializePaystackCheckout, history, IType, TypeOK, PayRow
<1>3. ASSUME NEW r \in Refs, InitializeInstallmentPayment(r) PROVE IType'
  <2>1. PICK s \in Pending(RefOrder[r]),
             outcome \in {"AUTH_REQUIRED", "FAILED", "INITIATED"} :
          OpenCharge(r, s, outcome)
    BY <1>3 DEF InitializeInstallmentPayment
  <2>2. s \in Seqs /\ thread' = thread
    BY <1>3 DEF Pending, InitializeInstallmentPayment
  <2>3. /\ pay' \in [Refs -> PayRow]
        /\ charge' \in [Refs -> {"none", "open", "paid"}]
        /\ Charged'
    BY <2>1, <2>2, OpenChargeType
  <2> QED BY <1>1, <1>3, <2>3 DEF InitializeInstallmentPayment, history, IType, TypeOK, PayRow
<1>4. ASSUME NEW r \in Refs, BuyerPays(r) PROVE IType'
  <2>1. charge' \in [Refs -> {"none", "open", "paid"}]
    BY <1>1, <1>4 DEF BuyerPays, TypeOK
  <2>2. Charged'
    BY <1>1, <1>4 DEF BuyerPays, TypeOK, Charged
  <2> QED BY <1>1, <1>4, <2>1, <2>2 DEF BuyerPays, history, IType, TypeOK
<1>5. ASSUME NEW r \in Refs, NEW c \in Channels, FinalizeInstallment(r, c)
      PROVE  IType'
  <2>1. pay' \in [Refs -> PayRow] /\ (\A q \in Refs : pay'[q].seq = pay[q].seq)
    <3>1. pay' = [pay EXCEPT ![r].status = "SUCCESS"]
      BY <1>5 DEF FinalizeInstallment
    <3> QED BY <1>1, <3>1, SettleType DEF PayRow
  <2>2. charge[r] = "paid" /\ charge' = charge
    BY <1>5 DEF FinalizeInstallment, StillDue
  <2>3. thread' \in [Refs -> [Channels -> Thread]] /\ Charged'
    <3>1. CASE thread' = thread
      BY <1>1, <2>1, <2>2, <3>1 DEF Charged, TypeOK
    <3>2. CASE thread' = [thread EXCEPT ![r][c].pc = "mark"]
      <4> DEFINE x == [thread[r][c] EXCEPT !.pc = "mark"]
      <4>1. x \in Thread
        <5>1. thread[r][c] \in Thread
          BY <1>1, ThreadParts
        <5> QED BY <5>1 DEF Thread, ThreadPc
      <4>2. thread' = [thread EXCEPT ![r][c] = x]
        BY <3>2, <1>1 DEF TypeOK
      <4> QED BY <2>1, <2>2, <4>1, <4>2, ThreadStep
    <3> QED BY <1>5, <3>1, <3>2 DEF FinalizeInstallment
  <2> QED BY <1>1, <1>5, <2>1, <2>3 DEF FinalizeInstallment, history, IType, TypeOK, PayRow
<1>6. ASSUME NEW r \in Refs, NEW c \in Channels, FinalizePaidOrder(r, c)
      PROVE  IType'
  <2>1. pay' \in [Refs -> PayRow] /\ (\A q \in Refs : pay'[q].seq = pay[q].seq)
    <3>1. pay' = [pay EXCEPT ![r].status = "SUCCESS"]
      BY <1>6 DEF FinalizePaidOrder
    <3> QED BY <1>1, <3>1, SettleType DEF PayRow
  <2>2. Charged'
    BY <1>1, <1>6, <2>1 DEF FinalizePaidOrder, Charged
  <2>3. sold' \in Nat /\ earned' \subseteq Orders
    <3>1. sold' = sold + Qty /\ earned' = earned \cup {RefOrder[r]}
      BY <1>6 DEF FinalizePaidOrder
    <3>2. sold \in Nat /\ Qty \in Nat /\ earned \subseteq Orders /\ RefOrder[r] \in Orders
      BY <1>1, ConstantTypes DEF TypeOK
    <3> QED BY <3>1, <3>2
  <2> QED BY <1>1, <1>6, <2>1, <2>2, <2>3 DEF FinalizePaidOrder, history, IType, TypeOK, PayRow
<1>7. ASSUME NEW r \in Refs, NEW c \in Channels, Crash(r, c) PROVE IType'
  <2>1. thread' \in [Refs -> [Channels -> Thread]] /\ Charged'
    <3>1. /\ thread' = [thread EXCEPT ![r][c] = Idle]
          /\ charge' = charge /\ pay' = pay
      BY <1>7 DEF Crash
    <3>2. Idle \in Thread /\ Idle.pc = "idle"
      BY IdleType DEF Idle
    <3> QED BY <1>1, <3>1, <3>2, ThreadStep
  <2>2. crashes' \in Nat
    BY <1>1, <1>7 DEF Crash, TypeOK
  <2> QED BY <1>1, <1>7, <2>1, <2>2 DEF Crash, history, IType, TypeOK
<1>8. CASE SellOther
  BY <1>1, <1>8 DEF SellOther, history, IType, TypeOK, Charged
<1>9. CASE ReminderRead
  BY <1>1, <1>9 DEF ReminderRead, history, IType, TypeOK, Charged
<1>10. ASSUME NEW o \in Orders, NEW s \in Seqs, ReminderMark(o, s) PROVE IType'
  <2>1. [inst[o] EXCEPT ![s] = "OVERDUE"] \in Rows
    BY <1>1, RowsType DEF TypeOK, InstStatus
  <2>2. inst' \in [Orders -> Rows]
    BY <1>1, <1>10, <2>1 DEF ReminderMark, TypeOK
  <2> QED BY <1>1, <1>10, <2>2 DEF ReminderMark, history, IType, TypeOK, Charged
<1>11. ASSUME NEW o \in Orders, MarkDefaulted(o) PROVE IType'
  <2>1. inst' \in [Orders -> Rows]
    <3>1. inst[o] \in Rows
      BY <1>1 DEF TypeOK
    <3>2. [s \in Seqs |-> IF inst[o][s] = "PENDING" THEN "CANCELLED" ELSE inst[o][s]]
            \in Rows
      BY <3>1 DEF Rows, InstStatus
    <3>3. inst' = [inst EXCEPT ![o] =
            [s \in Seqs |-> IF inst[o][s] = "PENDING" THEN "CANCELLED" ELSE inst[o][s]]]
      BY <1>11 DEF MarkDefaulted
    <3> QED BY <1>1, <3>2, <3>3 DEF TypeOK
  <2>2. sold' \in Nat
    BY <1>1, <1>11, ConstantTypes DEF MarkDefaulted, GiveBack, TypeOK
  <2>3. plan' \in [Orders -> PlanStatus] /\ order' \in [Orders -> OrderStatus]
    BY <1>1, <1>11 DEF MarkDefaulted, TypeOK, PlanStatus, OrderStatus
  <2> QED BY <1>1, <1>11, <2>1, <2>2, <2>3 DEF MarkDefaulted, history, IType, TypeOK, Charged
<1>12. CASE UNCHANGED vars
  BY <1>1, <1>12 DEF vars, history, IType, TypeOK, Charged
<1> QED BY <1>2, <1>3, <1>4, <1>5, <1>6, <1>7, <1>8, <1>9, <1>10, <1>11, <1>12,
           MarkType DEF Next

\* Rows and calls in flight keep their types under every interleaving.
THEOREM TypeCorrect == Spec => []TypeOK
<1>1. IType => TypeOK
  BY DEF IType
<1> QED BY <1>1, InitType, TypeStep, PTL DEF Spec

-----------------------------------------------------------------------------
(* Tickets are paid for *)

\* A charge that has succeeded stays so, and stays with its instalment.
LEMMA PaidChargeStays ==
  ASSUME IType, Next, NEW q \in Refs, charge[q] = "paid"
  PROVE  charge'[q] = "paid" /\ pay'[q].seq = pay[q].seq
<1>1. TypeOK /\ pay[q].seq # 0
  BY SeqOne DEF IType, Charged
<1>2. ASSUME NEW r \in Refs, NEW s, NEW outcome, OpenCharge(r, s, outcome)
      PROVE  charge'[q] = "paid" /\ pay'[q].seq = pay[q].seq
  BY <1>1, <1>2 DEF OpenCharge, TypeOK
<1>3. ASSUME NEW r \in Refs,
             \/ InitializePaystackCheckout(r) \/ InitializeInstallmentPayment(r)
      PROVE  charge'[q] = "paid" /\ pay'[q].seq = pay[q].seq
  BY <1>2, <1>3 DEF InitializePaystackCheckout, InitializeInstallmentPayment
<1>4. ASSUME NEW r \in Refs, BuyerPays(r)
      PROVE  charge'[q] = "paid" /\ pay'[q].seq = pay[q].seq
  BY <1>1, <1>4 DEF BuyerPays, TypeOK
<1>5. ASSUME NEW r \in Refs, NEW c \in Channels,
             FinalizeInstallment(r, c) \/ FinalizePaidOrder(r, c)
      PROVE  charge'[q] = "paid" /\ pay'[q].seq = pay[q].seq
  <2>1. pay' = [pay EXCEPT ![r].status = "SUCCESS"] /\ charge' = charge
    BY <1>5 DEF FinalizeInstallment, FinalizePaidOrder
  <2> QED BY <1>1, <2>1 DEF TypeOK
<1>6. ASSUME NEW r \in Refs, NEW c \in Channels, Mark(r, c) \/ Crash(r, c)
      PROVE  UNCHANGED <<charge, pay>>
  BY <1>6 DEF Mark, MarkRead, MarkBegin, MarkCommitLast, MarkCommitMore,
     RecordEarnings, Crash
<1>7. SellOther \/ ReminderRead \/ (\E o \in Orders, s \in Seqs : ReminderMark(o, s))
        \/ (\E o \in Orders : MarkDefaulted(o))
      => UNCHANGED <<charge, pay>>
  BY DEF SellOther, ReminderRead, ReminderMark, MarkDefaulted
<1> QED BY <1>3, <1>4, <1>5, <1>6, <1>7 DEF Next

LEMMA PaidForStays ==
  ASSUME IType, Next, NEW o \in Orders, NEW s \in Seqs, PaidFor(o, s)
  PROVE  PaidFor(o, s)'
  BY PaidChargeStays DEF PaidFor, RefsOf

\* Rows, the calls' copies of them and what the calls read in their
\* transactions show an instalment PAID only when its charge has succeeded.
RowsBacked(o, rows) == \A s \in Seqs : rows[s] = "PAID" => PaidFor(o, s)

AllRowsBacked == \A o \in Orders : RowsBacked(o, inst[o])

CallsBacked ==
  \A r \in Refs, c \in Channels :
    /\ RowsBacked(RefOrder[r], thread[r][c].instCopy)
    /\ RowsBacked(RefOrder[r], thread[r][c].upd)

Safe == IType /\ AllRowsBacked /\ CallsBacked /\ TicketsArePaidFor

LEMMA BackingStays ==
  ASSUME IType, Next, NEW o \in Orders, NEW rows, RowsBacked(o, rows)
  PROVE  \A s \in Seqs : rows[s] = "PAID" => PaidFor(o, s)'
  BY PaidForStays DEF RowsBacked

\* A step that gives one order other rows.
LEMMA RowsChange ==
  ASSUME IType, Next, AllRowsBacked, NEW o \in Orders, NEW rows, RowsBacked(o, rows),
         inst' = [inst EXCEPT ![o] = rows]
  PROVE  AllRowsBacked'
<1> SUFFICES ASSUME NEW p \in Orders
             PROVE  \A s \in Seqs : inst'[p][s] = "PAID" => PaidFor(p, s)'
  BY DEF AllRowsBacked, RowsBacked
<1>1. inst'[p] = IF p = o THEN rows ELSE inst[p]
  BY DEF IType, TypeOK
<1>2. RowsBacked(p, inst'[p])
  BY <1>1 DEF AllRowsBacked
<1> QED BY <1>2, BackingStays

LEMMA RowsKept ==
  ASSUME IType, Next, AllRowsBacked, inst' = inst
  PROVE  AllRowsBacked'
<1> SUFFICES ASSUME NEW p \in Orders
             PROVE  \A s \in Seqs : inst'[p][s] = "PAID" => PaidFor(p, s)'
  BY DEF AllRowsBacked, RowsBacked
<1> QED BY BackingStays DEF AllRowsBacked

\* A step that gives one call other copies.
LEMMA CallsChange ==
  ASSUME IType, Next, CallsBacked, NEW r \in Refs, NEW c \in Channels, NEW x,
         RowsBacked(RefOrder[r], x.instCopy), RowsBacked(RefOrder[r], x.upd),
         thread' = [thread EXCEPT ![r][c] = x]
  PROVE  CallsBacked'
<1> SUFFICES ASSUME NEW q \in Refs, NEW d \in Channels, NEW s \in Seqs,
                    \/ thread'[q][d].instCopy[s] = "PAID"
                    \/ thread'[q][d].upd[s] = "PAID"
             PROVE  PaidFor(RefOrder[q], s)'
  BY DEF CallsBacked, RowsBacked
<1>1. thread'[q][d] = IF q = r /\ d = c THEN x ELSE thread[q][d]
  BY DEF IType, TypeOK
<1>2. /\ RowsBacked(RefOrder[q], thread'[q][d].instCopy)
      /\ RowsBacked(RefOrder[q], thread'[q][d].upd)
  BY <1>1 DEF CallsBacked
<1>3. RefOrder[q] \in Orders
  BY ConstantTypes
<1> QED BY <1>2, <1>3, BackingStays

LEMMA CallsKept ==
  ASSUME IType, Next, CallsBacked, thread' = thread
  PROVE  CallsBacked'
<1> SUFFICES ASSUME NEW q \in Refs, NEW d \in Channels, NEW s \in Seqs,
                    \/ thread'[q][d].instCopy[s] = "PAID"
                    \/ thread'[q][d].upd[s] = "PAID"
             PROVE  PaidFor(RefOrder[q], s)'
  BY DEF CallsBacked, RowsBacked
<1>1. RefOrder[q] \in Orders
  BY ConstantTypes
<1> QED BY <1>1, BackingStays DEF CallsBacked

\* A step that makes no order PAID and issues no ticket.
LEMMA TicketsKept ==
  ASSUME IType, Next, TicketsArePaidFor, tickets' = tickets,
         \A o \in Orders : order'[o] = "PAID" => order[o] = "PAID"
  PROVE  TicketsArePaidFor'
<1> SUFFICES ASSUME NEW o \in Orders, order'[o] = "PAID" \/ tickets'[o] > 0,
                    NEW s \in Seqs
             PROVE  PaidFor(o, s)'
  BY DEF TicketsArePaidFor
<1>1. PaidFor(o, s)
  BY DEF TicketsArePaidFor
<1> QED BY <1>1, PaidForStays

LEMMA IdleBacked == \A o \in Orders : RowsBacked(o, AllPending)
  BY DEF RowsBacked, AllPending

LEMMA MarkSafe ==
  ASSUME Safe, Next, NEW r \in Refs, NEW c \in Channels, Mark(r, c)
  PROVE  AllRowsBacked' /\ CallsBacked' /\ TicketsArePaidFor'
<1> DEFINE o == RefOrder[r]
           t == thread[r][c]
<1>1. /\ IType /\ TypeOK /\ AllRowsBacked /\ CallsBacked /\ TicketsArePaidFor
      /\ o \in Orders /\ Idle.instCopy = AllPending /\ Idle.upd = AllPending
  BY ConstantTypes DEF Safe, IType, Idle
<1>2. PaidFor(o, pay[r].seq) /\ pay[r].seq \in Seqs
  <2>1. charge[r] = "paid" /\ pay[r].seq \in Seqs
    BY <1>1 DEF Mark, MarkRead, MarkBegin, MarkCommitLast, MarkCommitMore,
                RecordEarnings, IType, Charged
  <2> QED BY <2>1 DEF PaidFor, RefsOf
<1>3. RowsBacked(o, inst[o]) /\ RowsBacked(o, t.instCopy) /\ RowsBacked(o, t.upd)
  BY <1>1 DEF AllRowsBacked, CallsBacked
<1>4. ASSUME NEW rows \in Rows, RowsBacked(o, rows)
      PROVE  RowsBacked(o, [rows EXCEPT ![pay[r].seq] = "PAID"])
  BY <1>2, <1>4 DEF RowsBacked, Rows
<1>5. t \in Thread /\ t.instCopy \in Rows /\ inst[o] \in Rows
  BY <1>1, ThreadParts DEF TypeOK
<1>6. ASSUME thread' = [thread EXCEPT ![r][c] = Idle] PROVE CallsBacked'
  BY <1>1, <1>6, IdleBacked, CallsChange
<1>7. ASSUME Cascade(r, c) PROVE AllRowsBacked'
  BY <1>1, <1>3, <1>4, <1>5, <1>7, RowsChange DEF Cascade
<1>8. CASE MarkRead(r, c)
  <2> DEFINE x == [Idle EXCEPT !.pc = "begin", !.planCopy = plan[o],
                               !.instCopy = inst[o]]
  <2>1. x.instCopy = inst[o] /\ x.upd = AllPending
    BY DEF Idle
  <2>2. CallsBacked'
    <3>1. CASE thread' = [thread EXCEPT ![r][c] = Idle] BY <1>6, <3>1
    <3>2. CASE thread' = [thread EXCEPT ![r][c] = x]
      <4>1. RowsBacked(o, x.instCopy) /\ RowsBacked(o, x.upd)
        BY <1>1, <1>3, <2>1, IdleBacked
      <4> HIDE DEF x
      <4> QED BY <1>1, <3>2, <4>1, CallsChange
    <3> QED BY <1>8, <3>1, <3>2 DEF MarkRead
  <2> QED BY <1>1, <1>8, <2>2, RowsKept, TicketsKept DEF MarkRead
<1>9. CASE MarkBegin(r, c)
  <2> DEFINE u == [inst[o] EXCEPT ![pay[r].seq] = "PAID"]
             x == [t EXCEPT !.pc = "commit", !.tierCopy = sold, !.upd = u]
  <2>1. x.instCopy = t.instCopy /\ x.upd = u
    BY <1>5 DEF Thread
  <2>2. thread' = [thread EXCEPT ![r][c] = x]
    BY <1>9 DEF MarkBegin
  <2>3. RowsBacked(o, u)
    BY <1>3, <1>4, <1>5
  <2>4. RowsBacked(RefOrder[r], x.instCopy) /\ RowsBacked(RefOrder[r], x.upd)
    BY <1>3, <2>1, <2>3
  <2>5. CallsBacked'
    <3> HIDE DEF x, u, t
    <3> QED BY <1>1, <2>2, <2>4, CallsChange
  <2> QED BY <1>1, <1>9, <2>5, RowsKept, TicketsKept DEF MarkBegin
<1>10. CASE MarkCommitLast(r, c)
  <2>1. \A s \in Seqs : PaidFor(o, s)
    BY <1>3, <1>10 DEF MarkCommitLast, PaidIn, RowsBacked
  <2>2. TicketsArePaidFor'
    <3> SUFFICES ASSUME NEW p \in Orders, order'[p] = "PAID" \/ tickets'[p] > 0,
                        NEW s \in Seqs
                 PROVE  PaidFor(p, s)'
      BY DEF TicketsArePaidFor
    <3>1. CASE p = o
      BY <1>1, <2>1, <3>1, PaidForStays
    <3>2. CASE p # o
      <4>1. order'[p] = order[p] /\ tickets'[p] = tickets[p]
        BY <1>1, <1>10, <3>2 DEF MarkCommitLast, TypeOK
      <4> QED BY <1>1, <4>1, PaidForStays DEF TicketsArePaidFor
    <3> QED BY <3>1, <3>2
  <2>3. CallsBacked'
    <3> DEFINE x == [Idle EXCEPT !.pc = "earn"]
    <3>1. x.instCopy = AllPending /\ x.upd = AllPending
      BY DEF Idle
    <3>2. thread' = [thread EXCEPT ![r][c] = x]
      BY <1>10 DEF MarkCommitLast
    <3> QED BY <1>1, <3>1, <3>2, IdleBacked, CallsChange
  <2> QED BY <1>7, <1>10, <2>2, <2>3 DEF MarkCommitLast
<1>11. CASE MarkCommitMore(r, c)
  <2>1. AllRowsBacked'
    <3>1. CASE inst' = [inst EXCEPT ![o][pay[r].seq] = "PAID"]
      <4> DEFINE rows == [inst[o] EXCEPT ![pay[r].seq] = "PAID"]
      <4>1. inst' = [inst EXCEPT ![o] = rows]
        BY <3>1
      <4>2. RowsBacked(o, rows)
        BY <1>3, <1>4, <1>5
      <4> QED BY <1>1, <4>1, <4>2, RowsChange
    <3> QED BY <1>7, <1>11, <3>1 DEF MarkCommitMore
  <2> QED BY <1>1, <1>6, <1>11, <2>1, TicketsKept DEF MarkCommitMore
<1>12. CASE RecordEarnings(r, c)
  BY <1>1, <1>6, <1>12, RowsKept, TicketsKept DEF RecordEarnings
<1> QED BY <1>8, <1>9, <1>10, <1>11, <1>12 DEF Mark

LEMMA SafeStep == Safe /\ [Next]_vars => Safe'
<1> SUFFICES ASSUME Safe, [Next]_vars PROVE Safe'
  OBVIOUS
<1>1. IType'
  BY TypeStep DEF Safe
<1>2. CASE UNCHANGED vars
  BY <1>1, <1>2 DEF vars, Safe, AllRowsBacked, CallsBacked, RowsBacked,
                    TicketsArePaidFor, PaidFor, RefsOf
<1>3. CASE Next
  <2>1. /\ IType /\ TypeOK /\ Next
        /\ AllRowsBacked /\ CallsBacked /\ TicketsArePaidFor
    BY <1>3 DEF Safe, IType
  <2>2. ASSUME inst' = inst, thread' = thread, tickets' = tickets,
               \A o \in Orders : order'[o] = "PAID" => order[o] = "PAID"
        PROVE  Safe'
    BY <1>1, <2>1, <2>2, RowsKept, CallsKept, TicketsKept DEF Safe
  <2>3. ASSUME NEW r \in Refs, InitializePaystackCheckout(r)
        PROVE  Safe'
    BY <2>1, <2>2, <2>3 DEF InitializePaystackCheckout, TypeOK
  <2>4. ASSUME NEW r \in Refs,
               InitializeInstallmentPayment(r) \/ BuyerPays(r)
        PROVE  Safe'
    BY <2>2, <2>4 DEF InitializeInstallmentPayment, BuyerPays
  <2>5. ASSUME NEW r \in Refs, NEW c \in Channels, FinalizeInstallment(r, c)
        PROVE  Safe'
    <3> DEFINE x == [thread[r][c] EXCEPT !.pc = "mark"]
    <3>1. CallsBacked'
      <4>1. CASE thread' = thread
        BY <2>1, <4>1, CallsKept
      <4>2. CASE thread' = [thread EXCEPT ![r][c].pc = "mark"]
        <5>1. thread[r][c] \in Thread
          BY <2>1 DEF TypeOK
        <5>2. x.instCopy = thread[r][c].instCopy /\ x.upd = thread[r][c].upd
          BY <5>1 DEF Thread
        <5>3. RowsBacked(RefOrder[r], x.instCopy) /\ RowsBacked(RefOrder[r], x.upd)
          BY <2>1, <5>2 DEF CallsBacked
        <5>4. thread' = [thread EXCEPT ![r][c] = x]
          BY <4>2
        <5> HIDE DEF x
        <5> QED BY <2>1, <5>3, <5>4, CallsChange
      <4> QED BY <2>5, <4>1, <4>2 DEF FinalizeInstallment
    <3> QED BY <1>1, <2>1, <2>5, <3>1, RowsKept, TicketsKept
            DEF FinalizeInstallment, Safe
  <2>6. ASSUME NEW r \in Refs, NEW c \in Channels, FinalizePaidOrder(r, c)
        PROVE  Safe'
    BY <2>2, <2>6 DEF FinalizePaidOrder
  <2>7. ASSUME NEW r \in Refs, NEW c \in Channels, Mark(r, c)
        PROVE  Safe'
    BY <1>1, <2>1, <2>7, MarkSafe DEF Safe
  <2>8. ASSUME NEW r \in Refs, NEW c \in Channels, Crash(r, c)
        PROVE  Safe'
    <3>1. CallsBacked'
      <4>1. thread' = [thread EXCEPT ![r][c] = Idle]
        BY <2>8 DEF Crash
      <4>2. RefOrder[r] \in Orders /\ Idle.instCopy = AllPending
            /\ Idle.upd = AllPending
        BY ConstantTypes DEF Idle
      <4>3. RowsBacked(RefOrder[r], Idle.instCopy) /\ RowsBacked(RefOrder[r], Idle.upd)
        BY <4>2, IdleBacked
      <4> QED BY <2>1, <4>1, <4>3, CallsChange
    <3> QED BY <1>1, <2>1, <2>8, <3>1, RowsKept, TicketsKept DEF Crash, Safe
  <2>9. CASE SellOther \/ ReminderRead
    BY <2>2, <2>9 DEF SellOther, ReminderRead
  <2>10. ASSUME NEW o \in Orders, NEW s \in Seqs, ReminderMark(o, s)
         PROVE  Safe'
    <3> DEFINE rows == [inst[o] EXCEPT ![s] = "OVERDUE"]
    <3>1. RowsBacked(o, rows)
      BY <2>1 DEF AllRowsBacked, RowsBacked, TypeOK, Rows
    <3>2. inst' = [inst EXCEPT ![o] = rows]
      BY <2>10 DEF ReminderMark
    <3>3. AllRowsBacked'
      BY <2>1, <3>1, <3>2, RowsChange
    <3> QED BY <1>1, <2>1, <2>10, <3>3, CallsKept, TicketsKept
            DEF ReminderMark, Safe
  <2>11. ASSUME NEW o \in Orders, MarkDefaulted(o)
         PROVE  Safe'
    <3> DEFINE rows == [s \in Seqs |-> IF inst[o][s] = "PENDING" THEN "CANCELLED"
                                       ELSE inst[o][s]]
    <3>1. RowsBacked(o, rows)
      BY <2>1 DEF AllRowsBacked, RowsBacked
    <3>2. inst' = [inst EXCEPT ![o] = rows]
      BY <2>11 DEF MarkDefaulted
    <3>3. AllRowsBacked'
      BY <2>1, <3>1, <3>2, RowsChange
    <3>4. TicketsArePaidFor'
      BY <2>1, <2>11, TicketsKept DEF MarkDefaulted, TypeOK
    <3> QED BY <1>1, <2>1, <2>11, <3>3, <3>4, CallsKept DEF MarkDefaulted, Safe
  <2> QED BY <1>3, <2>3, <2>4, <2>5, <2>6, <2>7, <2>8, <2>9, <2>10, <2>11 DEF Next
<1> QED BY <1>2, <1>3

\* Whatever is marked twice, lost, overdue or defaulted: no order of
\* markInstallmentPaid is PAID, and no ticket of it exists, unless the gateway
\* has charged every instalment of its plan.
THEOREM TicketsPaidFor == Spec => []TicketsArePaidFor
<1>1. Init => Safe
  BY InitType DEF Init, Safe, AllRowsBacked, CallsBacked, RowsBacked, Idle, AllPending,
                  TicketsArePaidFor
<1>2. Safe => TicketsArePaidFor
  BY DEF Safe
<1> QED BY <1>1, <1>2, SafeStep, PTL DEF Spec

-----------------------------------------------------------------------------
(* Order, plan, instalments and tickets are complete together.  A call saves *)
(* what it has read before; either that is still what the rows hold, and the *)
(* call completes what is not complete yet, or the order is `overtaken'.     *)

\* A call that marks an instalment has read it as not PAID.
CallsUnpaid ==
  \A r \in Refs, c \in Channels :
    thread[r][c].pc \in {"begin", "commit"} =>
      thread[r][c].instCopy[pay[r].seq] # "PAID"

\* What CompleteTogether says of an order.
Whole(o) ==
  /\ order[o] = "PAID" <=> PaidIn(inst[o]) = Seqs /\ order[o] # "CANCELLED"
  /\ order[o] = "PAID" <=> plan[o] = "COMPLETED"
  /\ tickets[o] = IF PaidIn(inst[o]) = Seqs THEN Qty ELSE 0

\* A step that puts one call into another state.
LEMMA UnpaidChange ==
  ASSUME IType, Next, CallsUnpaid, NEW r \in Refs, NEW c \in Channels, NEW x,
         thread' = [thread EXCEPT ![r][c] = x],
         x.pc \in {"begin", "commit"} =>
           charge[r] = "paid" /\ x.instCopy[pay[r].seq] # "PAID"
  PROVE  CallsUnpaid'
<1> SUFFICES ASSUME NEW q \in Refs, NEW d \in Channels,
                    thread'[q][d].pc \in {"begin", "commit"}
             PROVE  thread'[q][d].instCopy[pay'[q].seq] # "PAID"
  BY DEF CallsUnpaid
<1>1. thread'[q][d] = IF q = r /\ d = c THEN x ELSE thread[q][d]
  BY DEF IType, TypeOK
<1>2. charge[q] = "paid"
  BY <1>1 DEF IType, Charged
<1>3. pay'[q].seq = pay[q].seq
  BY <1>2, PaidChargeStays
<1> QED BY <1>1, <1>3 DEF CallsUnpaid

LEMMA UnpaidKept ==
  ASSUME IType, Next, CallsUnpaid, thread' = thread
  PROVE  CallsUnpaid'
<1> SUFFICES ASSUME NEW q \in Refs, NEW d \in Channels,
                    thread[q][d].pc \in {"begin", "commit"}
             PROVE  thread[q][d].instCopy[pay'[q].seq] # "PAID"
  BY DEF CallsUnpaid
<1>1. charge[q] = "paid"
  BY DEF IType, Charged
<1>2. pay'[q].seq = pay[q].seq
  BY <1>1, PaidChargeStays
<1> QED BY <1>2 DEF CallsUnpaid

LEMMA UnpaidMark ==
  ASSUME IType, Next, CallsUnpaid, NEW r \in Refs, NEW c \in Channels, Mark(r, c)
  PROVE  CallsUnpaid'
<1> DEFINE t == thread[r][c]
<1>1. t \in Thread /\ Idle.pc = "idle"
  BY DEF IType, TypeOK, Idle
<1>2. t.pc # "idle" => charge[r] = "paid"
  BY DEF IType, Charged
<1>3. ASSUME thread' = [thread EXCEPT ![r][c] = Idle] PROVE CallsUnpaid'
  BY <1>1, <1>3, UnpaidChange
<1>4. CASE MarkRead(r, c)
  <2> DEFINE x == [Idle EXCEPT !.pc = "begin", !.planCopy = plan[RefOrder[r]],
                               !.instCopy = inst[RefOrder[r]]]
  <2>1. CASE inst[RefOrder[r]][pay[r].seq] = "PAID"
    BY <1>3, <1>4, <2>1 DEF MarkRead
  <2>2. CASE inst[RefOrder[r]][pay[r].seq] # "PAID"
    <3>1. charge[r] = "paid" /\ x.instCopy[pay[r].seq] # "PAID"
      BY <1>2, <1>4, <2>2 DEF MarkRead, Idle
    <3>2. thread' = [thread EXCEPT ![r][c] = x]
      BY <1>4, <2>2 DEF MarkRead
    <3> HIDE DEF x
    <3> QED BY <3>1, <3>2, UnpaidChange
  <2> QED BY <2>1, <2>2
<1>5. CASE MarkBegin(r, c)
  <2> DEFINE x == [t EXCEPT !.pc = "commit", !.tierCopy = sold,
                     !.upd = [inst[RefOrder[r]] EXCEPT ![pay[r].seq] = "PAID"]]
  <2>1. x.instCopy = t.instCopy
    BY <1>1 DEF Thread
  <2>2. t.pc = "begin" /\ thread' = [thread EXCEPT ![r][c] = x]
    BY <1>5 DEF MarkBegin
  <2>3. charge[r] = "paid" /\ t.instCopy[pay[r].seq] # "PAID"
    BY <1>2, <2>2 DEF CallsUnpaid
  <2>4. x.instCopy[pay[r].seq] # "PAID"
    BY <2>1, <2>3
  <2> HIDE DEF x, t
  <2> QED BY <2>2, <2>3, <2>4, UnpaidChange
<1>6. CASE MarkCommitLast(r, c)
  <2> DEFINE x == [Idle EXCEPT !.pc = "earn"]
  <2>1. x.pc = "earn"
    BY DEF Idle
  <2>2. thread' = [thread EXCEPT ![r][c] = x]
    BY <1>6 DEF MarkCommitLast
  <2> HIDE DEF x
  <2> QED BY <2>1, <2>2, UnpaidChange
<1>7. CASE MarkCommitMore(r, c) \/ RecordEarnings(r, c)
  BY <1>3, <1>7 DEF MarkCommitMore, RecordEarnings
<1> QED BY <1>4, <1>5, <1>6, <1>7 DEF Mark

LEMMA UnpaidStep ==
  ASSUME IType, CallsUnpaid, [Next]_vars
  PROVE  CallsUnpaid'
<1>1. CASE UNCHANGED vars
  BY <1>1 DEF vars, CallsUnpaid
<1>2. CASE Next
  <2>1. ASSUME thread' = thread PROVE CallsUnpaid'
    BY <1>2, <2>1, UnpaidKept
  <2>2. ASSUME NEW r \in Refs, NEW c \in Channels, FinalizeInstallment(r, c)
        PROVE  CallsUnpaid'
    <3> DEFINE x == [thread[r][c] EXCEPT !.pc = "mark"]
    <3>1. x.pc = "mark"
      BY DEF IType, TypeOK, Thread
    <3>2. thread' = thread \/ thread' = [thread EXCEPT ![r][c] = x]
      BY <2>2 DEF FinalizeInstallment
    <3> HIDE DEF x
    <3> QED BY <1>2, <2>1, <3>1, <3>2, UnpaidChange
  <2>3. ASSUME NEW r \in Refs, NEW c \in Channels, Crash(r, c)
        PROVE  CallsUnpaid'
    BY <1>2, <2>3, UnpaidChange DEF Crash, Idle
  <2>4. ASSUME NEW r \in Refs,
               \/ InitializePaystackCheckout(r) \/ InitializeInstallmentPayment(r)
               \/ BuyerPays(r) \/ (\E c \in Channels : FinalizePaidOrder(r, c))
        PROVE  CallsUnpaid'
    BY <2>1, <2>4 DEF InitializePaystackCheckout, InitializeInstallmentPayment,
       BuyerPays, FinalizePaidOrder
  <2>5. ASSUME \/ SellOther \/ ReminderRead
               \/ (\E o \in Orders, s \in Seqs : ReminderMark(o, s))
               \/ (\E o \in Orders : MarkDefaulted(o))
        PROVE  CallsUnpaid'
    BY <2>1, <2>5 DEF SellOther, ReminderRead, ReminderMark, MarkDefaulted
  <2> QED BY <1>2, <2>2, <2>3, <2>4, <2>5, UnpaidMark DEF Next
<1> QED BY <1>1, <1>2

\* What a commit does to an order that it does not overtake: it makes one
\* instalment PAID that was not, and completes the order with the last of them.
Marks(r, c) ==
  LET o == RefOrder[r]
      s == pay[r].seq
  IN /\ s \in Seqs /\ s \notin PaidIn(inst[o])
     /\ PaidIn(thread[r][c].upd) = PaidIn(inst[o]) \cup {s}
     /\ PaidIn(inst'[o]) = PaidIn(inst[o]) \cup {s}
     /\ IF PaidIn(inst'[o]) = Seqs
        THEN order'[o] = "PAID" /\ plan'[o] = "COMPLETED" /\ tickets'[o] = tickets[o] + Qty
        ELSE order'[o] = order[o] /\ plan'[o] = plan[o] /\ tickets'[o] = tickets[o]

LEMMA CommitMarks ==
  ASSUME IType, CallsUnpaid, NEW r \in Refs, NEW c \in Channels,
         MarkCommitLast(r, c) \/ MarkCommitMore(r, c), Fresh(r, c)
  PROVE  Marks(r, c)
<1> DEFINE o == RefOrder[r]
           s == pay[r].seq
           t == thread[r][c]
           rows == [inst[o] EXCEPT ![s] = "PAID"]
<1>1. t.pc = "commit" /\ o \in Orders
  BY ConstantTypes DEF MarkCommitLast, MarkCommitMore
<1>2. s \in Seqs /\ inst[o] \in Rows
  BY <1>1 DEF IType, Charged, TypeOK
<1>3. /\ t.planCopy = plan[o] /\ t.instCopy = inst[o] /\ t.upd = rows
      /\ inst[o][s] # "PAID"
  BY <1>1 DEF Fresh, CallsUnpaid
<1>4. \A x \in Seqs : rows[x] = IF x = s THEN "PAID" ELSE inst[o][x]
  BY <1>2 DEF Rows
<1>5. PaidIn(rows) = PaidIn(inst[o]) \cup {s} /\ s \notin PaidIn(inst[o])
  BY <1>2, <1>3, <1>4 DEF PaidIn
<1>6. inst'[o] = rows
  <2>1. inst \in [Orders -> Rows]
    BY DEF IType, TypeOK
  <2>2. \/ inst' = [inst EXCEPT ![o] = [t.instCopy EXCEPT ![s] = "PAID"]]
        \/ inst' = [inst EXCEPT ![o][s] = "PAID"]
    BY DEF MarkCommitLast, MarkCommitMore, Cascade
  <2> QED BY <1>1, <1>3, <2>1, <2>2
<1> HIDE DEF rows
<1>7. order \in [Orders -> OrderStatus] /\ plan \in [Orders -> PlanStatus]
      /\ tickets \in [Orders -> Nat]
  BY DEF IType, TypeOK
<1>8. CASE MarkCommitLast(r, c)
  <2>1. PaidIn(inst'[o]) = Seqs
    BY <1>3, <1>6, <1>8 DEF MarkCommitLast
  <2>2. order'[o] = "PAID" /\ plan'[o] = "COMPLETED" /\ tickets'[o] = tickets[o] + Qty
    BY <1>1, <1>7, <1>8 DEF MarkCommitLast
  <2> QED BY <1>2, <1>3, <1>5, <1>6, <2>1, <2>2 DEF Marks
<1>9. CASE MarkCommitMore(r, c)
  <2>1. PaidIn(inst'[o]) # Seqs
    BY <1>3, <1>6, <1>9 DEF MarkCommitMore
  <2>2. order'[o] = order[o] /\ plan'[o] = plan[o] /\ tickets'[o] = tickets[o]
    <3>1. plan' = plan \/ plan' = [plan EXCEPT ![o] = t.planCopy]
      BY <1>9 DEF MarkCommitMore
    <3> QED BY <1>1, <1>3, <1>7, <1>9, <3>1 DEF MarkCommitMore
  <2> QED BY <1>2, <1>3, <1>5, <1>6, <2>1, <2>2 DEF Marks
<1> QED BY <1>8, <1>9

\* A commit leaves the other orders alone.
LEMMA CommitOthers ==
  ASSUME IType, NEW r \in Refs, NEW c \in Channels,
         MarkCommitLast(r, c) \/ MarkCommitMore(r, c),
         NEW p \in Orders, p # RefOrder[r]
  PROVE  UNCHANGED <<order[p], plan[p], inst[p], tickets[p]>>
<1>1. CASE MarkCommitLast(r, c)
  BY <1>1 DEF MarkCommitLast, Cascade, IType, TypeOK
<1>2. CASE MarkCommitMore(r, c)
  <2>1. inst'[p] = inst[p]
    BY <1>2 DEF MarkCommitMore, Cascade, IType, TypeOK
  <2>2. plan'[p] = plan[p]
    BY <1>2 DEF MarkCommitMore, IType, TypeOK
  <2> QED BY <1>2, <2>1, <2>2 DEF MarkCommitMore
<1> QED BY <1>1, <1>2

\* A commit overtakes its order, or finds it as it was read.
LEMMA CommitOvertakes ==
  ASSUME NEW r \in Refs, NEW c \in Channels,
         MarkCommitLast(r, c) \/ MarkCommitMore(r, c)
  PROVE  /\ overtaken \subseteq overtaken'
         /\ RefOrder[r] \notin overtaken' => Fresh(r, c)
         /\ defaulted' = defaulted /\ again' = again /\ others' = others
         /\ ~parted' => ~parted /\ (IsFirstPaid(r, c) => thread[r][c].tierCopy = sold)
  BY DEF MarkCommitLast, MarkCommitMore, Overtakes

LEMMA CommitWhole ==
  ASSUME IType, CallsUnpaid, NEW r \in Refs, NEW c \in Channels,
         MarkCommitLast(r, c) \/ MarkCommitMore(r, c),
         NEW o \in Orders, o \notin overtaken', Whole(o)
  PROVE  Whole(o)'
<1>1. CASE o # RefOrder[r]
  BY <1>1, CommitOthers DEF Whole, PaidIn
<1>2. CASE o = RefOrder[r]
  <2>1. Marks(r, c)
    BY <1>2, CommitOvertakes, CommitMarks
  <2>2. PaidIn(inst[o]) # Seqs
    BY <1>2, <2>1 DEF Marks
  <2>3. order[o] # "PAID" /\ plan[o] # "COMPLETED" /\ tickets[o] = 0
    BY <2>2 DEF Whole
  <2>4. CASE PaidIn(inst'[o]) = Seqs
    BY <1>2, <2>1, <2>3, <2>4, ConstantTypes DEF Marks, Whole, PaidIn
  <2>5. CASE PaidIn(inst'[o]) # Seqs
    BY <1>2, <2>1, <2>3, <2>5 DEF Marks, Whole, PaidIn
  <2> QED BY <2>4, <2>5
<1> QED BY <1>1, <1>2

\* Rows with the same PAID instalments.
LEMMA SamePaid ==
  ASSUME NEW o \in Orders,
         \A s \in Seqs : inst'[o][s] = "PAID" <=> inst[o][s] = "PAID"
  PROVE  PaidIn(inst'[o]) = PaidIn(inst[o])
  BY DEF PaidIn

LEMMA WholeStep ==
  ASSUME IType, CallsUnpaid, NEW o \in Orders, o \notin overtaken',
         o \notin overtaken => Whole(o), [Next]_vars
  PROVE  Whole(o)'
<1>1. ASSUME UNCHANGED <<order, plan, inst, tickets, overtaken>> PROVE Whole(o)'
  BY <1>1 DEF Whole, PaidIn
<1>2. ASSUME NEW r \in Refs, InitializePaystackCheckout(r) PROVE Whole(o)'
  <2>1. /\ order[RefOrder[r]] = "NONE"
        /\ plan' = [plan EXCEPT ![RefOrder[r]] = "ACTIVE"]
        /\ UNCHANGED <<inst, tickets, overtaken>>
        /\ \E status \in {"FAILED", "PENDING"} :
             order' = [order EXCEPT ![RefOrder[r]] = status]
    BY <1>2 DEF InitializePaystackCheckout, history
  <2>2. CASE o = RefOrder[r]
    <3>1. order'[o] \in {"FAILED", "PENDING"} /\ plan'[o] = "ACTIVE"
      BY <2>1, <2>2 DEF IType, TypeOK
    <3>2. PaidIn(inst[o]) # Seqs
      BY <2>1, <2>2 DEF Whole
    <3> QED BY <2>1, <3>1, <3>2 DEF Whole, PaidIn
  <2>3. CASE o # RefOrder[r]
    <3>1. order'[o] = order[o] /\ plan'[o] = plan[o]
      BY <2>1, <2>3 DEF IType, TypeOK
    <3> QED BY <2>1, <3>1 DEF Whole, PaidIn
  <2> QED BY <2>2, <2>3
<1>3. ASSUME NEW r \in Refs, InitializeInstallmentPayment(r) \/ BuyerPays(r)
      PROVE  Whole(o)'
  BY <1>1, <1>3 DEF InitializeInstallmentPayment, BuyerPays, history
<1>4. ASSUME NEW r \in Refs, NEW c \in Channels,
             \/ FinalizeInstallment(r, c) \/ FinalizePaidOrder(r, c)
             \/ MarkRead(r, c) \/ MarkBegin(r, c) \/ RecordEarnings(r, c)
             \/ Crash(r, c)
      PROVE  Whole(o)'
  BY <1>1, <1>4 DEF FinalizeInstallment, FinalizePaidOrder, MarkRead, MarkBegin,
     RecordEarnings, Crash, history
<1>5. ASSUME NEW r \in Refs, NEW c \in Channels,
             MarkCommitLast(r, c) \/ MarkCommitMore(r, c)
      PROVE  Whole(o)'
  <2>1. o \notin overtaken
    BY <1>5, CommitOvertakes
  <2> QED BY <1>5, <2>1, CommitWhole
<1>6. CASE SellOther \/ ReminderRead
  BY <1>1, <1>6 DEF SellOther, ReminderRead, history
<1>7. ASSUME NEW p \in Orders, NEW s \in Seqs, ReminderMark(p, s) PROVE Whole(o)'
  <2>1. /\ o \notin overtaken /\ UNCHANGED <<order, plan, tickets>>
        /\ o = p => inst[p][s] = "PENDING"
    BY <1>7 DEF ReminderMark
  <2>2. \A q \in Orders, x \in Seqs :
          inst'[q][x] = IF q = p /\ x = s THEN "OVERDUE" ELSE inst[q][x]
    BY <1>7 DEF ReminderMark, IType, TypeOK, Rows
  <2>3. PaidIn(inst'[o]) = PaidIn(inst[o])
    BY <2>1, <2>2, SamePaid
  <2> QED BY <2>1, <2>3 DEF Whole, PaidIn
<1>8. ASSUME NEW p \in Orders, MarkDefaulted(p) PROVE Whole(o)'
  <2>1. /\ o \notin overtaken /\ tickets' = tickets
        /\ plan' = [plan EXCEPT ![p] = "DEFAULTED"]
        /\ order' = [order EXCEPT ![p] = "CANCELLED"]
    BY <1>8 DEF MarkDefaulted
  <2>2. \A q \in Orders, x \in Seqs :
          inst'[q][x] = IF q = p /\ inst[q][x] = "PENDING" THEN "CANCELLED"
                        ELSE inst[q][x]
    BY <1>8 DEF MarkDefaulted, IType, TypeOK
  <2>3. PaidIn(inst'[o]) = PaidIn(inst[o])
    BY <2>2, SamePaid
  <2>4. CASE o = p
    <3>1. order'[o] = "CANCELLED" /\ plan'[o] = "DEFAULTED"
      BY <2>1, <2>4 DEF IType, TypeOK
    <3> QED BY <2>1, <2>3, <3>1 DEF Whole, PaidIn
  <2>5. CASE o # p
    <3>1. order'[o] = order[o] /\ plan'[o] = plan[o]
      BY <2>1, <2>5 DEF IType, TypeOK
    <3> QED BY <2>1, <2>3, <3>1 DEF Whole, PaidIn
  <2> QED BY <2>4, <2>5
<1>9. CASE UNCHANGED vars
  BY <1>1, <1>9 DEF vars, history
<1> QED BY <1>2, <1>3, <1>4, <1>5, <1>6, <1>7, <1>8, <1>9 DEF Next, Mark

\* Between the PAID order, the COMPLETED plan, the PAID instalments and the
\* tickets there is no half way, whatever calls, crashes, double payments and
\* defaults there are, as long as no call saved the order's plan over what had
\* been written since it was read: no crash between the two transactions leaves
\* an order half paid, no retry issues its tickets twice.
THEOREM PlansCompleteTogether == Spec => []CompleteTogether
<1>1. Init => IType /\ CallsUnpaid /\ CompleteTogether
  <2> SUFFICES ASSUME Init PROVE CallsUnpaid /\ CompleteTogether
    BY InitType
  <2>1. \A o \in Orders : PaidIn(inst[o]) = {} /\ Seqs # {}
    BY SeqOne DEF Init, AllPending, PaidIn
  <2> QED BY <2>1 DEF Init, Idle, CallsUnpaid, CompleteTogether
<1>2. IType /\ CallsUnpaid /\ CompleteTogether /\ [Next]_vars
        => IType' /\ CallsUnpaid' /\ CompleteTogether'
  <2> SUFFICES ASSUME IType, CallsUnpaid, CompleteTogether, [Next]_vars
               PROVE  IType' /\ CallsUnpaid' /\ CompleteTogether'
    OBVIOUS
  <2>1. ASSUME NEW o \in Orders \ overtaken' PROVE Whole(o)'
    BY WholeStep DEF CompleteTogether, Whole
  <2> QED BY <2>1, TypeStep, UnpaidStep DEF CompleteTogether, Whole
<1> QED BY <1>1, <1>2, PTL DEF Spec

-----------------------------------------------------------------------------
(* The seats of the tier.  A call saves the tier it has read in its           *)
(* transaction: with no more seats than had been taken then, so with no more  *)
(* than have been taken since.                                               *)

Begun == {o \in Orders : PaidIn(inst[o]) # {}}

Undisturbed == overtaken = {} /\ defaulted = {}

\* No call is about to save more seats than have been taken.
Seated ==
  Undisturbed =>
    /\ sold <= SeatsTaken
    /\ ~parted => sold = SeatsTaken
    /\ \A r \in Refs, c \in Channels :
         thread[r][c].pc = "commit" => thread[r][c].tierCopy <= SeatsTaken

LEMMA OneIsFirst ==
  ASSUME NEW S \in SUBSET Seqs, NEW s \in Seqs, s \notin S
  PROVE  Cardinality(S \cup {s}) = 1 <=> S = {}
<1>1. IsFiniteSet(Seqs)
  BY ConstantTypes, FS_Interval DEF Seqs
<1>2. IsFiniteSet(S \cup {s})
  BY <1>1, FS_Subset
<1>3. Cardinality(S \cup {s}) = 1 <=> \E x : S \cup {s} = {x}
  BY <1>2, FS_Singleton
<1> QED BY <1>3

LEMMA BegunType ==
  /\ IsFiniteSet(Begun)
  /\ Cardinality(Begun) \in Nat
<1>1. IsFiniteSet(Begun)
  BY InstallmentsAssumption, FS_Subset DEF Begun
<1> QED BY <1>1, FS_CardinalityType

\* The seats taken, as a number.
LEMMA TakenIs ==
  ASSUME IType
  PROVE  /\ SeatsTaken = others + Qty * (Cardinality(Begun) + again)
         /\ SeatsTaken \in Nat
         /\ others \in Nat /\ again \in Nat /\ Qty \in Nat /\ sold \in Nat
<1>1. others \in Nat /\ again \in Nat /\ Qty \in Nat /\ sold \in Nat
  BY ConstantTypes DEF IType, TypeOK
<1>2. SeatsTaken = others + Qty * (Cardinality(Begun) + again)
  BY DEF SeatsTaken, Begun
<1>3. Qty * (Cardinality(Begun) + again) \in Nat
  BY <1>1, BegunType
<1> QED BY <1>1, <1>2, <1>3

\* A step that takes some seats and adds them to the tier.
LEMMA SeatedTakes ==
  ASSUME IType, IType', Seated, NEW n \in Nat,
         Undisturbed' => Undisturbed /\ SeatsTaken' = SeatsTaken + n,
         sold' = sold + n, parted' = parted,
         \A r \in Refs, c \in Channels :
           thread'[r][c].pc = "commit" =>
             thread'[r][c] = thread[r][c] \/ thread'[r][c].tierCopy = sold
  PROVE  Seated'
<1> SUFFICES ASSUME Undisturbed'
             PROVE  /\ sold' <= SeatsTaken'
                    /\ ~parted' => sold' = SeatsTaken'
                    /\ \A r \in Refs, c \in Channels :
                         thread'[r][c].pc = "commit" =>
                           thread'[r][c].tierCopy <= SeatsTaken'
  BY DEF Seated
<1>1. /\ SeatsTaken' = SeatsTaken + n /\ SeatsTaken \in Nat /\ sold \in Nat
      /\ sold <= SeatsTaken /\ (~parted => sold = SeatsTaken)
  BY TakenIs DEF Seated
<1>2. ASSUME NEW r \in Refs, NEW c \in Channels, thread'[r][c].pc = "commit"
      PROVE  thread'[r][c].tierCopy <= SeatsTaken'
  <2>1. thread'[r][c].tierCopy \in Nat
    BY DEF IType, TypeOK, Thread
  <2>2. thread'[r][c].tierCopy <= SeatsTaken
    BY <1>1, <1>2 DEF Seated
  <2> QED BY <1>1, <2>1, <2>2
<1> QED BY <1>1, <1>2

\* A step that takes no seat.
LEMMA SeatedKept ==
  ASSUME IType, IType', Seated, UNCHANGED <<sold, others, again, parted>>,
         Undisturbed' => Undisturbed /\ Begun' = Begun,
         \A r \in Refs, c \in Channels :
           thread'[r][c].pc = "commit" =>
             thread'[r][c] = thread[r][c] \/ thread'[r][c].tierCopy = sold
  PROVE  Seated'
<1>1. Undisturbed' => Undisturbed /\ SeatsTaken' = SeatsTaken + 0
  <2> SUFFICES ASSUME Undisturbed' PROVE SeatsTaken' = SeatsTaken + 0
    OBVIOUS
  <2>1. SeatsTaken' = SeatsTaken
    BY DEF SeatsTaken, Begun
  <2> QED BY <2>1, TakenIs
<1>2. sold' = sold + 0
  BY TakenIs
<1> QED BY <1>1, <1>2, SeatedTakes

\* The call's transaction commits: it brings one call back.
LEMMA CommitCalls ==
  ASSUME IType, NEW r \in Refs, NEW c \in Channels,
         MarkCommitLast(r, c) \/ MarkCommitMore(r, c),
         NEW q \in Refs, NEW d \in Channels, thread'[q][d].pc = "commit"
  PROVE  thread'[q][d] = thread[q][d]
<1> DEFINE done == [Idle EXCEPT !.pc = "earn"]
<1>1. \/ thread' = [thread EXCEPT ![r][c] = Idle]
      \/ thread' = [thread EXCEPT ![r][c] = done]
  BY DEF MarkCommitLast, MarkCommitMore
<1>2. Idle.pc = "idle" /\ done.pc = "earn"
  BY DEF Idle
<1> HIDE DEF done
<1>3. ~(q = r /\ d = c)
  BY <1>1, <1>2 DEF IType, TypeOK
<1> QED BY <1>1, <1>3 DEF IType, TypeOK

\* A first payment takes the seats of its order; a later one finds them taken.
LEMMA CommitSeated ==
  ASSUME IType, IType', CallsUnpaid, Seated, NEW r \in Refs, NEW c \in Channels,
         MarkCommitLast(r, c) \/ MarkCommitMore(r, c)
  PROVE  Seated'
<1> SUFFICES ASSUME Undisturbed'
             PROVE  /\ sold' <= SeatsTaken'
                    /\ ~parted' => sold' = SeatsTaken'
                    /\ \A q \in Refs, d \in Channels :
                         thread'[q][d].pc = "commit" =>
                           thread'[q][d].tierCopy <= SeatsTaken'
  BY DEF Seated
<1> DEFINE o == RefOrder[r]
           s == pay[r].seq
           t == thread[r][c]
<1>1. Undisturbed /\ Fresh(r, c) /\ o \in Orders
  BY CommitOvertakes, ConstantTypes DEF Undisturbed
<1>2. Marks(r, c) /\ UNCHANGED <<others, again>>
      /\ (~parted' => ~parted /\ (IsFirstPaid(r, c) => t.tierCopy = sold))
  BY <1>1, CommitMarks, CommitOvertakes
<1>3. /\ SeatsTaken = others + Qty * (Cardinality(Begun) + again)
      /\ SeatsTaken \in Nat /\ sold \in Nat
      /\ others \in Nat /\ again \in Nat /\ Qty \in Nat
  BY TakenIs
<1>4. SeatsTaken' = others + Qty * (Cardinality(Begun') + again)
  BY <1>2 DEF SeatsTaken, Begun
<1>5. t.pc = "commit" /\ t.tierCopy \in Nat
  BY DEF MarkCommitLast, MarkCommitMore, IType, TypeOK, Thread
<1>6. sold <= SeatsTaken /\ (~parted => sold = SeatsTaken) /\ t.tierCopy <= SeatsTaken
  BY <1>1, <1>5 DEF Seated
<1>7. IsFirstPaid(r, c) <=> PaidIn(inst[o]) = {}
  <2>1. PaidIn(inst[o]) \in SUBSET Seqs
    BY DEF PaidIn
  <2> QED BY <1>2, <2>1, OneIsFirst DEF Marks, IsFirstPaid
<1>8. sold' = IF IsFirstPaid(r, c) THEN t.tierCopy + Qty ELSE sold
  BY DEF MarkCommitLast, MarkCommitMore, ReserveIfFirst
<1>9. Begun' = Begun \cup {o}
  <2>1. \A p \in Orders \ {o} : inst'[p] = inst[p]
    BY CommitOthers
  <2>2. PaidIn(inst'[o]) # {}
    BY <1>2 DEF Marks
  <2> QED BY <1>1, <2>1, <2>2 DEF Begun
<1>10. CASE IsFirstPaid(r, c)
  <2>1. o \notin Begun
    BY <1>7, <1>10 DEF Begun
  <2>2. Cardinality(Begun') = Cardinality(Begun) + 1 /\ Cardinality(Begun) \in Nat
    BY <1>9, <2>1, BegunType, FS_AddElement
  <2>3. SeatsTaken' = SeatsTaken + Qty
    <3>1. Qty * ((Cardinality(Begun) + 1) + again)
            = Qty * (Cardinality(Begun) + again) + Qty
      BY <1>3, <2>2
    <3> QED BY <1>3, <1>4, <2>2, <3>1
  <2>4. sold' = t.tierCopy + Qty
    BY <1>8, <1>10
  <2>5. sold' <= SeatsTaken' /\ (~parted' => sold' = SeatsTaken')
    BY <1>2, <1>3, <1>5, <1>6, <1>10, <2>3, <2>4
  <2>6. ASSUME NEW q \in Refs, NEW d \in Channels, thread'[q][d].pc = "commit"
        PROVE  thread'[q][d].tierCopy <= SeatsTaken'
    <3>1. thread'[q][d] = thread[q][d] /\ thread[q][d].tierCopy \in Nat
      BY <2>6, CommitCalls DEF IType, TypeOK, Thread
    <3>2. thread[q][d].tierCopy <= SeatsTaken
      BY <1>1, <2>6, <3>1 DEF Seated
    <3> QED BY <1>3, <2>3, <3>1, <3>2
  <2> QED BY <2>5, <2>6
<1>11. CASE ~IsFirstPaid(r, c)
  <2>1. Begun' = Begun
    BY <1>1, <1>7, <1>9, <1>11 DEF Begun
  <2>2. SeatsTaken' = SeatsTaken
    BY <1>3, <1>4, <2>1
  <2>3. ASSUME NEW q \in Refs, NEW d \in Channels, thread'[q][d].pc = "commit"
        PROVE  thread'[q][d].tierCopy <= SeatsTaken
    BY <1>1, <2>3, CommitCalls DEF Seated
  <2> QED BY <1>2, <1>6, <1>8, <1>11, <2>2, <2>3
<1> QED BY <1>10, <1>11

LEMMA SeatedStep ==
  ASSUME IType, IType', CallsUnpaid, Seated, [Next]_vars
  PROVE  Seated'
<1>1. ASSUME UNCHANGED <<inst, sold, others, history, thread>> PROVE Seated'
  BY <1>1, SeatedKept DEF history, Undisturbed, Begun, PaidIn
<1>2. ASSUME NEW r \in Refs, NEW c \in Channels, NEW x,
             x.pc # "commit" \/ x.tierCopy = sold,
             thread' = [thread EXCEPT ![r][c] = x],
             UNCHANGED <<inst, sold, others, history>>
      PROVE  Seated'
  <2>1. \A q \in Refs, d \in Channels :
          thread'[q][d] = IF q = r /\ d = c THEN x ELSE thread[q][d]
    BY <1>2 DEF IType, TypeOK
  <2>2. ASSUME NEW q \in Refs, NEW d \in Channels, thread'[q][d].pc = "commit"
        PROVE  thread'[q][d] = thread[q][d] \/ thread'[q][d].tierCopy = sold
    BY <1>2, <2>1, <2>2
  <2>3. Undisturbed' => Undisturbed /\ Begun' = Begun
    BY <1>2 DEF history, Undisturbed, Begun, PaidIn
  <2>4. UNCHANGED <<sold, others, again, parted>>
    BY <1>2 DEF history
  <2> QED BY <2>2, <2>3, <2>4, SeatedKept
<1>3. ASSUME NEW r \in Refs, NEW c \in Channels, FinalizeInstallment(r, c) PROVE Seated'
  <2> DEFINE x == [thread[r][c] EXCEPT !.pc = "mark"]
  <2>1. x.pc # "commit"
    BY DEF IType, TypeOK, Thread
  <2>2. \/ thread' = thread
        \/ thread' = [thread EXCEPT ![r][c] = x]
    BY <1>3 DEF FinalizeInstallment
  <2>3. UNCHANGED <<inst, sold, others, history>>
    BY <1>3 DEF FinalizeInstallment
  <2> HIDE DEF x
  <2> QED BY <1>1, <1>2, <2>1, <2>2, <2>3
<1>4. ASSUME NEW r \in Refs, NEW c \in Channels, FinalizePaidOrder(r, c) PROVE Seated'
  <2>1. /\ sold' = sold + Qty /\ again' = again + 1
        /\ UNCHANGED <<inst, others, thread, overtaken, defaulted, parted>>
    BY <1>4 DEF FinalizePaidOrder
  <2>2. Cardinality(Begun) \in Nat /\ Begun' = Begun
    BY <2>1, BegunType DEF Begun, PaidIn
  <2>3. SeatsTaken' = others + Qty * (Cardinality(Begun) + (again + 1))
    BY <2>1, <2>2 DEF SeatsTaken, Begun
  <2>4. /\ SeatsTaken = others + Qty * (Cardinality(Begun) + again)
        /\ others \in Nat /\ again \in Nat /\ Qty \in Nat
    BY TakenIs
  <2>5. Qty * (Cardinality(Begun) + (again + 1))
          = Qty * (Cardinality(Begun) + again) + Qty
    BY <2>2, <2>4
  <2>6. SeatsTaken' = SeatsTaken + Qty
    BY <2>2, <2>3, <2>4, <2>5
  <2>7. Undisturbed' => Undisturbed
    BY <2>1 DEF Undisturbed
  <2> QED BY <2>1, <2>4, <2>6, <2>7, SeatedTakes
<1>5. ASSUME NEW r \in Refs, NEW c \in Channels, Mark(r, c) PROVE Seated'
  <2>1. CASE MarkRead(r, c)
    <3> DEFINE x == [Idle EXCEPT !.pc = "begin", !.planCopy = plan[RefOrder[r]],
                                 !.instCopy = inst[RefOrder[r]]]
    <3>1. x.pc # "commit" /\ Idle.pc # "commit"
      BY DEF Idle
    <3>2. /\ \/ thread' = [thread EXCEPT ![r][c] = Idle]
             \/ thread' = [thread EXCEPT ![r][c] = x]
          /\ UNCHANGED <<inst, sold, others, history>>
      BY <2>1 DEF MarkRead
    <3> HIDE DEF x
    <3> QED BY <1>2, <3>1, <3>2
  <2>2. CASE MarkBegin(r, c)
    <3> DEFINE x == [thread[r][c] EXCEPT !.pc = "commit", !.tierCopy = sold,
                       !.upd = [inst[RefOrder[r]] EXCEPT ![pay[r].seq] = "PAID"]]
    <3>1. x.tierCopy = sold
      BY DEF IType, TypeOK, Thread
    <3>2. /\ thread' = [thread EXCEPT ![r][c] = x]
          /\ UNCHANGED <<inst, sold, others, history>>
      BY <2>2 DEF MarkBegin
    <3> HIDE DEF x
    <3> QED BY <1>2, <3>1, <3>2
  <2>3. CASE RecordEarnings(r, c)
    BY <1>2, <2>3 DEF RecordEarnings, Idle
  <2> QED BY <1>5, <2>1, <2>2, <2>3, CommitSeated DEF Mark
<1>6. ASSUME NEW r \in Refs, NEW c \in Channels, Crash(r, c) PROVE Seated'
  BY <1>2, <1>6 DEF Crash, Idle
<1>7. CASE SellOther
  <2>1. /\ sold' = sold + 1 /\ others' = others + 1
        /\ UNCHANGED <<inst, thread, history>>
    BY <1>7 DEF SellOther
  <2>2. Begun' = Begun /\ UNCHANGED <<again, parted>>
    BY <2>1 DEF Begun, PaidIn, history
  <2>3. SeatsTaken' = (others + 1) + Qty * (Cardinality(Begun) + again)
    BY <2>1, <2>2 DEF SeatsTaken, Begun
  <2>4. /\ SeatsTaken = others + Qty * (Cardinality(Begun) + again)
        /\ others \in Nat /\ again \in Nat /\ Qty \in Nat
        /\ Cardinality(Begun) \in Nat
    BY TakenIs, BegunType
  <2>5. Qty * (Cardinality(Begun) + again) \in Nat
    BY <2>4
  <2>6. SeatsTaken' = SeatsTaken + 1
    BY <2>3, <2>4, <2>5
  <2>7. Undisturbed' => Undisturbed
    BY <2>1 DEF Undisturbed, history
  <2> QED BY <2>1, <2>2, <2>6, <2>7, SeatedTakes
<1>8. ASSUME NEW p \in Orders, NEW s \in Seqs, ReminderMark(p, s) PROVE Seated'
  <2>1. UNCHANGED <<sold, others, again, parted, thread, defaulted>>
    BY <1>8 DEF ReminderMark
  <2>2. ASSUME Undisturbed' PROVE Undisturbed /\ Begun' = Begun
    <3>1. Undisturbed /\ inst[p][s] = "PENDING"
      BY <1>8, <2>2 DEF ReminderMark, Undisturbed
    <3>2. \A q \in Orders, x \in Seqs :
            inst'[q][x] = IF q = p /\ x = s THEN "OVERDUE" ELSE inst[q][x]
      BY <1>8 DEF ReminderMark, IType, TypeOK, Rows
    <3>3. \A q \in Orders : PaidIn(inst'[q]) = PaidIn(inst[q])
      BY <3>1, <3>2, SamePaid
    <3> QED BY <3>1, <3>3 DEF Begun
  <2> QED BY <2>1, <2>2, SeatedKept
<1>9. ASSUME NEW p \in Orders, MarkDefaulted(p) PROVE Seated'
  BY <1>9 DEF MarkDefaulted, Seated, Undisturbed
<1>10. CASE ReminderRead
  BY <1>1, <1>10 DEF ReminderRead
<1>11. ASSUME NEW r \in Refs, \/ InitializePaystackCheckout(r)
                              \/ InitializeInstallmentPayment(r) \/ BuyerPays(r)
       PROVE  Seated'
  BY <1>1, <1>11 DEF InitializePaystackCheckout, InitializeInstallmentPayment, BuyerPays
<1>12. CASE UNCHANGED vars
  BY <1>1, <1>12 DEF vars
<1> QED BY <1>3, <1>4, <1>5, <1>6, <1>7, <1>8, <1>9, <1>10, <1>11, <1>12 DEF Next

\* Beside any number of buyers, calls and crashes the tier never counts more
\* seats than were taken, each plan's once from its first payment on, and it
\* counts exactly those unless a first payment has saved the tier over a sale
\* that it had not seen: as long as no plan was saved from a stale copy and
\* none was defaulted.
THEOREM PlanSeatsCounted == Spec => []SeatsFollowPlan
<1>1. Init => IType /\ CallsUnpaid /\ Seated
  <2> SUFFICES ASSUME Init PROVE CallsUnpaid /\ Seated
    BY InitType
  <2>1. IType
    BY InitType
  <2>2. Begun = {}
    BY DEF Init, AllPending, PaidIn, Begun
  <2>3. SeatsTaken = 0
    BY <2>1, <2>2, FS_EmptySet, TakenIs DEF Init
  <2> QED BY <2>3 DEF Init, Idle, CallsUnpaid, Seated
<1>2. IType /\ CallsUnpaid /\ Seated /\ [Next]_vars
        => IType' /\ CallsUnpaid' /\ Seated'
  BY TypeStep, UnpaidStep, SeatedStep
<1>3. Seated => SeatsFollowPlan
  BY DEF Seated, Undisturbed, SeatsFollowPlan
<1> QED BY <1>1, <1>2, <1>3, PTL DEF Spec

=============================================================================

---------------------------- MODULE OutboxProofs ----------------------------
(***************************************************************************)
(* Theorems about Outbox, for any number of notifications, processes, tabs,  *)
(* retries, faults and calls.                                                *)
(***************************************************************************)
EXTENDS Outbox, TLAPS

-----------------------------------------------------------------------------
(* Types, and what every copy of a row is right about                       *)

\* The row or copy c of notification n.
Right(n, c) ==
  /\ c.status = "PENDING" => c.retries < MaxRetries
  /\ c.status = "SENT" => delivered[n] > 0
  /\ c.retries <= troubles[n]
  /\ c.status = "FAILED" => n \in Unconfigured \/ troubles[n] = MaxRetries

JobRight(j) ==
  /\ Exists(j.id)
  /\ j.copy.status # "NONE"
  /\ Right(j.id, j.copy)
  /\ j.pc = "dispatch" => j.copy.status = "PENDING"
  /\ j.pc = "sent" => j.copy.status = "SENT" /\ j.copy.retries < MaxRetries

MarkRight(x) ==
  /\ Exists(x.id)
  /\ x.copy.status # "NONE"
  /\ Right(x.id, x.copy)

QueueInv ==
  /\ OTypeOK
  /\ \A n \in Notes : Right(n, row[n])
  /\ \A n \in Notes : ~Exists(n) => row[n].retries = 0 /\ delivered[n] = 0
  /\ \A j \in jobs : JobRight(j)
  /\ \A x \in marks : MarkRight(x)

LEMMA QueueInit == OInit => QueueInv
<1> SUFFICES ASSUME OInit PROVE QueueInv OBVIOUS
<1>1. OTypeOK
  BY OutboxAssumption DEF OInit, OTypeOK, Row, NotifyStatus
<1>2. \A n \in Notes : Right(n, row[n])
  BY OutboxAssumption DEF OInit, Right
<1>3. \A n \in Notes : ~Exists(n) => row[n].retries = 0 /\ delivered[n] = 0
  BY DEF OInit
<1> QED BY <1>1, <1>2, <1>3 DEF QueueInv, OInit

\* More deliveries and more troubles leave copies right.
LEMMA RightStays ==
  ASSUME NEW n \in Notes, NEW c, Right(n, c), c.retries \in 0..MaxRetries,
         OTypeOK, delivered'[n] >= delivered[n], delivered'[n] \in Nat,
         troubles'[n] >= troubles[n], troubles'[n] \in 0..MaxRetries
  PROVE  Right(n, c)'
BY OutboxAssumption DEF Right, OTypeOK

LEMMA CountsGrow ==
  ASSUME NEW k \in Nat, NEW top \in Nat, k <= top
  PROVE  /\ Capped(k, top) \in 0..top
         /\ Capped(k, top) >= k
         /\ Capped(k, top) = k + 1 \/ Capped(k, top) = top
BY DEF Capped

\* What is common to the steps that create a row.
LEMMA CreateKeeps ==
  ASSUME QueueInv, NEW n \in Notes, ~Exists(n),
         NEW s \in {"PENDING", "SENT"}, row' = [row EXCEPT ![n].status = s],
         UNCHANGED <<jobs, marks, troubles, excused, faults, reads>>,
         todo' \in [Workers -> SUBSET Notes],
         delivered' = IF s = "SENT" THEN [delivered EXCEPT ![n] = 1] ELSE delivered
  PROVE  QueueInv'
<1>0. OTypeOK BY DEF QueueInv
<1>1. row \in [Notes -> Row] /\ row' \in [Notes -> Row]
  BY <1>0 DEF OTypeOK, Row, NotifyStatus
<1>2. delivered \in [Notes -> 0..2] /\ delivered' \in [Notes -> 0..2]
  BY <1>0 DEF OTypeOK
<1>3. OTypeOK' BY <1>0, <1>1, <1>2 DEF OTypeOK
<1>4. \A m \in Notes : row'[m].status = (IF m = n THEN s ELSE row[m].status)
                       /\ row'[m].retries = row[m].retries
  BY <1>1 DEF Row
<1>5. \A m \in Notes : delivered'[m] >= delivered[m] /\ (s = "SENT" => delivered'[n] = 1)
  BY <1>2 DEF QueueInv
<1>6. ASSUME NEW m \in Notes PROVE Right(m, row[m])' /\
        (~Exists(m)' => row'[m].retries = 0 /\ delivered'[m] = 0)
  <2>1. CASE m = n
    BY <1>0, <1>1, <1>2, <1>4, <1>5, <2>1, OutboxAssumption
       DEF QueueInv, Right, Exists, OTypeOK
  <2>2. CASE m # n
    BY <1>0, <1>1, <1>2, <1>4, <1>5, <2>2 DEF QueueInv, Right, Exists
  <2> QED BY <2>1, <2>2
<1>7. ASSUME NEW j \in jobs PROVE JobRight(j)'
  <2>1. j.id \in Notes /\ JobRight(j) BY <1>0 DEF QueueInv, OTypeOK, Job
  <2>2. j.id # n BY <2>1 DEF JobRight
  <2> QED BY <1>2, <1>4, <2>1, <2>2 DEF JobRight, Right, Exists
<1>8. ASSUME NEW x \in marks PROVE MarkRight(x)'
  <2>1. x.id \in Notes /\ MarkRight(x) BY <1>0 DEF QueueInv, OTypeOK, Mark
  <2>2. x.id # n BY <2>1 DEF MarkRight
  <2> QED BY <1>2, <1>4, <2>1, <2>2 DEF MarkRight, Right, Exists
<1> QED BY <1>3, <1>6, <1>7, <1>8 DEF QueueInv

\* What is common to the steps of a worker that leave the rows alone: one job
\* goes on, others stop, the counts grow.
LEMMA StepKeeps ==
  ASSUME QueueInv, UNCHANGED <<row, marks>>,
         jobs' \subseteq Job,
         \A j \in jobs' : j \in jobs \/ JobRight(j)',
         todo' \in [Workers -> SUBSET Notes],
         delivered' \in [Notes -> 0..2], troubles' \in [Notes -> 0..MaxRetries],
         \A n \in Notes : delivered'[n] >= delivered[n] /\ troubles'[n] >= troubles[n],
         \A n \in Notes : ~Exists(n) => delivered'[n] = delivered[n],
         excused' \subseteq Notes, faults' \in 0..MaxFaults, reads' = reads
  PROVE  QueueInv'
<1>0. OTypeOK BY DEF QueueInv
<1>1. OTypeOK' BY <1>0 DEF OTypeOK
<1>2. \A n \in Notes : row[n].retries \in 0..MaxRetries /\ row'[n] = row[n]
  BY <1>0 DEF OTypeOK, Row
<1>3. \A n \in Notes : delivered'[n] \in Nat OBVIOUS
<1>4. ASSUME NEW n \in Notes PROVE Right(n, row[n])'
  <2>1. Right(n, row[n]) BY DEF QueueInv
  <2>2. /\ row'[n] = row[n] /\ row[n].retries \in Nat
        /\ delivered[n] \in Nat /\ delivered'[n] \in Nat /\ delivered'[n] >= delivered[n]
    BY <1>0, <1>2, <1>3, OutboxAssumption DEF OTypeOK
  <2>3. /\ troubles[n] \in Nat /\ troubles'[n] \in 0..MaxRetries
        /\ troubles'[n] >= troubles[n] /\ troubles[n] \in 0..MaxRetries
    BY <1>0, OutboxAssumption DEF OTypeOK
  <2> QED BY <2>1, <2>2, <2>3, OutboxAssumption DEF Right
<1>5. \A n \in Notes : ~Exists(n)' => row'[n].retries = 0 /\ delivered'[n] = 0
  BY <1>2 DEF QueueInv, Exists
<1>6. ASSUME NEW j \in jobs PROVE JobRight(j)'
  <2>1. j.id \in Notes /\ j.copy.retries \in 0..MaxRetries /\ JobRight(j)
    BY <1>0 DEF QueueInv, OTypeOK, Job, Row
  <2>2. Right(j.id, j.copy)' BY <1>0, <1>3, <2>1, RightStays DEF JobRight
  <2> QED BY <1>2, <2>1, <2>2 DEF JobRight, Exists
<1>7. ASSUME NEW x \in marks PROVE MarkRight(x)'
  <2>1. x.id \in Notes /\ x.copy.retries \in 0..MaxRetries /\ MarkRight(x)
    BY <1>0 DEF QueueInv, OTypeOK, Mark, Row
  <2>2. Right(x.id, x.copy)' BY <1>0, <1>3, <2>1, RightStays DEF MarkRight
  <2> QED BY <1>2, <2>1, <2>2 DEF MarkRight, Exists
<1> QED BY <1>1, <1>4, <1>5, <1>6, <1>7 DEF QueueInv

LEMMA EnqueueQueue ==
  ASSUME QueueInv, NEW n \in Notes,
         Enqueue(n) \/ CreateInApp(n) \/ \E p \in Processes : EnqueueAndDispatch(p, n)
  PROVE  QueueInv'
<1>0. todo \in [Workers -> SUBSET Notes] BY DEF QueueInv, OTypeOK
<1>1. CASE Enqueue(n)
  BY <1>0, <1>1, CreateKeeps DEF Enqueue, Latest, history
<1>2. CASE CreateInApp(n)
  BY <1>0, <1>2, CreateKeeps DEF CreateInApp, Latest
<1>3. ASSUME NEW p \in Processes, EnqueueAndDispatch(p, n) PROVE QueueInv'
  <2>1. todo' \in [Workers -> SUBSET Notes]
    BY <1>0, <1>3 DEF EnqueueAndDispatch
  <2> QED BY <1>3, <2>1, CreateKeeps DEF EnqueueAndDispatch, Latest, history
<1> QED BY <1>1, <1>2, <1>3

LEMMA TimerQueue ==
  ASSUME QueueInv, NEW p \in Processes, Drain(p) \/ Crash(p)
  PROVE  QueueInv'
<1>0. OTypeOK BY DEF QueueInv
<1>1. CASE Drain(p)
  <2>1. todo' \in [Workers -> SUBSET Notes]
    BY <1>0, <1>1 DEF Drain, Oldest, Pending, OTypeOK
  <2> QED BY <1>0, <1>1, <2>1, StepKeeps DEF Drain, history, OTypeOK
<1>2. CASE Crash(p)
  <2>1. todo' \in [Workers -> SUBSET Notes] BY <1>0, <1>2 DEF Crash, OTypeOK
  <2>2. excused' \subseteq Notes BY <1>0, <1>2 DEF Crash, OTypeOK, Job
  <2>3. faults' \in 0..MaxFaults
    BY <1>0, <1>2, OutboxAssumption DEF Crash, OTypeOK
  <2>4. jobs' \subseteq jobs BY <1>2 DEF Crash
  <2> QED BY <1>0, <1>2, <2>1, <2>2, <2>3, <2>4, StepKeeps DEF Crash, OTypeOK
<1> QED BY <1>1, <1>2

LEMMA ReadRowQueue ==
  ASSUME QueueInv, NEW w \in Workers, ReadRow(w)
  PROVE  QueueInv'
<1>0. OTypeOK BY DEF QueueInv
<1>1. PICK n \in todo[w] :
        /\ todo' = [todo EXCEPT ![w] = @ \ {n}]
        /\ IF StillPending(n)
           THEN /\ jobs' = jobs \cup
                     {[worker |-> w, id |-> n, copy |-> row[n], pc |-> "dispatch"]}
                /\ excused' = IF InUse(n) THEN excused \cup {n} ELSE excused
           ELSE UNCHANGED <<jobs, excused>>
  BY DEF ReadRow
<1>2. n \in Notes BY <1>0 DEF OTypeOK
<1>3. todo' \in [Workers -> SUBSET Notes] BY <1>0, <1>1 DEF OTypeOK
<1>4. excused' \subseteq Notes BY <1>0, <1>1, <1>2 DEF OTypeOK
<1>5. UNCHANGED <<row, marks, delivered, troubles, faults, reads>> BY DEF ReadRow
<1>6. ASSUME NEW j \in jobs', j \notin jobs PROVE j \in Job /\ JobRight(j)'
  <2>1. StillPending(n) /\ j = [worker |-> w, id |-> n, copy |-> row[n], pc |-> "dispatch"]
    BY <1>1, <1>6
  <2>2. Right(n, row[n]) /\ row[n] \in Row BY <1>0, <1>2 DEF QueueInv, OTypeOK
  <2> QED BY <1>2, <1>5, <2>1, <2>2 DEF Job, JobRight, Right, StillPending, Exists
<1>7. jobs' \subseteq Job BY <1>0, <1>6 DEF OTypeOK
<1> QED
  BY <1>0, <1>3, <1>4, <1>5, <1>6, <1>7, StepKeeps DEF OTypeOK

\* What the handler of an error makes of a copy that had retries left.
LEMMA CaughtRight ==
  ASSUME QueueInv, NEW j \in jobs, j.pc # "caught", Trouble(j.id),
         delivered' \in [Notes -> 0..2], delivered'[j.id] >= delivered[j.id],
         row' = row, Becomes(j, Caught(j.id, j.copy), "caught")
  PROVE  /\ jobs' \subseteq Job
         /\ \A i \in jobs' : i \in jobs \/ JobRight(i)'
         /\ troubles' \in [Notes -> 0..MaxRetries]
         /\ \A n \in Notes : troubles'[n] >= troubles[n]
<1> DEFINE c == Caught(j.id, j.copy)
           k == [j EXCEPT !.copy = c, !.pc = "caught"]
<1>0. OTypeOK /\ JobRight(j) /\ j \in Job /\ j.id \in Notes /\ j.copy \in Row
  BY DEF QueueInv, OTypeOK, Job
<1>1. j.copy.retries \in Nat /\ j.copy.retries < MaxRetries
  BY <1>0 DEF JobRight, Right, Job, Row
<1>2. c \in Row /\ c.retries = j.copy.retries + 1
  BY <1>0, <1>1, OutboxAssumption DEF Caught, Row, NotifyStatus
<1>3. k \in Job /\ k.id = j.id /\ k.copy = c /\ k.pc = "caught"
  BY <1>0, <1>2 DEF Job
<1>4. troubles[j.id] \in 0..MaxRetries BY <1>0 DEF OTypeOK
<1>5. troubles' = [troubles EXCEPT ![j.id] = Capped(troubles[j.id], MaxRetries)]
  BY DEF Trouble
<1>6. /\ troubles' \in [Notes -> 0..MaxRetries]
      /\ \A n \in Notes : troubles'[n] >= troubles[n]
  BY <1>0, <1>4, <1>5, CountsGrow, OutboxAssumption DEF OTypeOK
<1>7. troubles'[j.id] = troubles[j.id] + 1 \/ troubles'[j.id] = MaxRetries
  BY <1>0, <1>4, <1>5, CountsGrow, OutboxAssumption DEF OTypeOK
<1>8. c.status \in {j.copy.status, "FAILED"}
      /\ (c.status = "FAILED" => j.id \in Unconfigured \/ c.retries >= MaxRetries)
      /\ (c.status # "FAILED" => c.retries < MaxRetries)
      /\ c.status # "NONE"
  <2>1. j.copy.status \in {"PENDING", "SENT"} BY <1>0 DEF JobRight, Job
  <2> QED BY <1>1, <2>1, OutboxAssumption DEF Caught
<1>9. c.retries <= troubles'[j.id]
  BY <1>0, <1>1, <1>2, <1>4, <1>7, OutboxAssumption DEF JobRight, Right
<1>10. Right(j.id, c)'
  BY <1>0, <1>1, <1>2, <1>4, <1>6, <1>8, <1>9, OutboxAssumption
     DEF JobRight, Right, OTypeOK
<1>11. JobRight(k)' BY <1>0, <1>3, <1>8, <1>10 DEF JobRight, Exists
<1>12. jobs' = (jobs \ {j}) \cup {k} BY DEF Becomes
<1> QED BY <1>0, <1>3, <1>6, <1>11, <1>12 DEF OTypeOK

LEMMA AttemptQueue ==
  ASSUME QueueInv, NEW j \in jobs,
         Dispatch(j) \/ DispatchThrows(j) \/ SaveSentFails(j) \/ SaveCaughtFails(j)
  PROVE  QueueInv'
<1>0. OTypeOK /\ JobRight(j) /\ j \in Job /\ j.id \in Notes /\ j.copy \in Row
  BY DEF QueueInv, OTypeOK, Job
<1>a. delivered[j.id] \in 0..2 /\ excused \cup {j.id} \subseteq Notes
  BY <1>0 DEF OTypeOK
<1>b. ASSUME Deliver(j.id)
      PROVE  /\ delivered' \in [Notes -> 0..2]
             /\ \A n \in Notes : delivered'[n] >= delivered[n]
             /\ delivered'[j.id] > 0
             /\ \A n \in Notes : ~Exists(n) => delivered'[n] = delivered[n]
  <2>1. delivered' = [delivered EXCEPT ![j.id] = Capped(delivered[j.id], 2)]
    BY <1>b DEF Deliver
  <2>2. Capped(delivered[j.id], 2) \in 0..2 /\ Capped(delivered[j.id], 2) >= delivered[j.id]
        /\ Capped(delivered[j.id], 2) > 0
    BY <1>a DEF Capped
  <2>3. Exists(j.id) BY <1>0 DEF JobRight
  <2> QED BY <1>0, <2>1, <2>2, <2>3 DEF OTypeOK
<1>1. CASE Dispatch(j)
  <2> DEFINE k == [j EXCEPT !.copy = [j.copy EXCEPT !.status = "SENT"], !.pc = "sent"]
  <2>1. jobs' = (jobs \ {j}) \cup {k} BY <1>1 DEF Dispatch, Becomes
  <2>2. /\ k \in Job /\ k.id = j.id /\ k.pc = "sent"
        /\ k.copy.status = "SENT" /\ k.copy.retries = j.copy.retries
    BY <1>0 DEF Job, Row, NotifyStatus
  <2>3. j.copy.retries < MaxRetries BY <1>0, <1>1 DEF Dispatch, JobRight, Right
  <2>4. JobRight(k)'
    BY <1>0, <1>1, <1>b, <2>2, <2>3 DEF Dispatch, JobRight, Right, Exists
  <2>5. jobs' \subseteq Job BY <1>0, <2>1, <2>2 DEF OTypeOK
  <2> QED
    BY <1>0, <1>1, <1>b, <2>1, <2>4, <2>5, StepKeeps DEF Dispatch, OTypeOK
<1>2. CASE DispatchThrows(j)
  <2>1. /\ delivered' \in [Notes -> 0..2]
        /\ \A n \in Notes : delivered'[n] >= delivered[n]
        /\ \A n \in Notes : ~Exists(n) => delivered'[n] = delivered[n]
        /\ excused' \subseteq Notes
    BY <1>0, <1>2, <1>a, <1>b DEF DispatchThrows, OTypeOK
  <2>2. /\ jobs' \subseteq Job
        /\ \A i \in jobs' : i \in jobs \/ JobRight(i)'
        /\ troubles' \in [Notes -> 0..MaxRetries]
        /\ \A n \in Notes : troubles'[n] >= troubles[n]
    BY <1>0, <1>2, <2>1, CaughtRight DEF DispatchThrows
  <2> QED BY <1>0, <1>2, <2>1, <2>2, StepKeeps DEF DispatchThrows, OTypeOK
<1>3. CASE SaveSentFails(j)
  <2>1. /\ delivered' = delivered
        /\ \A n \in Notes : delivered'[n] >= delivered[n]
        /\ excused' \subseteq Notes
    BY <1>0, <1>3, <1>a DEF SaveSentFails, OTypeOK
  <2>2. /\ jobs' \subseteq Job
        /\ \A i \in jobs' : i \in jobs \/ JobRight(i)'
        /\ troubles' \in [Notes -> 0..MaxRetries]
        /\ \A n \in Notes : troubles'[n] >= troubles[n]
    BY <1>0, <1>3, <2>1, CaughtRight DEF SaveSentFails, OTypeOK
  <2>3. faults' \in 0..MaxFaults
    BY <1>0, <1>3, OutboxAssumption DEF SaveSentFails, OTypeOK
  <2> QED BY <1>0, <1>3, <2>1, <2>2, <2>3, StepKeeps DEF SaveSentFails, OTypeOK
<1>4. CASE SaveCaughtFails(j)
  <2>1. faults' \in 0..MaxFaults
    BY <1>0, <1>4, OutboxAssumption DEF SaveCaughtFails, OTypeOK
  <2>2. todo' \in [Workers -> SUBSET Notes] BY <1>0, <1>4 DEF SaveCaughtFails, OTypeOK
  <2>3. \A n \in Notes : delivered[n] >= delivered[n] /\ troubles[n] >= troubles[n]
    BY <1>0, OutboxAssumption DEF OTypeOK
  <2> QED
    BY <1>0, <1>4, <2>1, <2>2, <2>3, StepKeeps DEF SaveCaughtFails, history, OTypeOK
<1> QED BY <1>1, <1>2, <1>3, <1>4

\* Rows are overwritten by right copies of their own.
LEMMA OverwriteKeeps ==
  ASSUME QueueInv, jobs' \subseteq jobs, marks' \subseteq marks,
         row' \in [Notes -> Row],
         \A n \in Notes : \/ row'[n] = row[n]
                          \/ Exists(n) /\ row'[n].status # "NONE" /\ Right(n, row'[n]),
         UNCHANGED <<todo, delivered, troubles, excused, faults, reads>>
  PROVE  QueueInv'
<1>1. OTypeOK' BY DEF QueueInv, OTypeOK
<1>2. \A n \in Notes : Right(n, row'[n]) BY DEF QueueInv
<1>3. \A n \in Notes : Right(n, row[n])' BY <1>2 DEF Right
<1>4. \A n \in Notes : (Exists(n) => Exists(n)') /\
                       (~Exists(n) => row'[n] = row[n])
  BY DEF Exists
<1>5. \A n \in Notes : ~Exists(n)' => row'[n].retries = 0 /\ delivered'[n] = 0
  BY <1>4 DEF QueueInv
<1>6. \A j \in jobs : j.id \in Notes BY DEF QueueInv, OTypeOK, Job
<1>7. \A j \in jobs' : JobRight(j)' BY <1>4, <1>6 DEF QueueInv, JobRight, Right
<1>8. \A x \in marks : x.id \in Notes BY DEF QueueInv, OTypeOK, Mark
<1>9. \A x \in marks' : MarkRight(x)' BY <1>4, <1>8 DEF QueueInv, MarkRight, Right
<1> QED BY <1>1, <1>3, <1>5, <1>7, <1>9 DEF QueueInv

LEMMA SaveQueue == ASSUME QueueInv, NEW j \in jobs, Save(j) PROVE QueueInv'
<1>0. JobRight(j) /\ j.id \in Notes /\ j.copy \in Row /\ row \in [Notes -> Row]
  BY DEF QueueInv, OTypeOK, Job
<1>1. row' = [row EXCEPT ![j.id] = j.copy] BY DEF Save
<1>2. row' \in [Notes -> Row] BY <1>0, <1>1
<1>3. \A n \in Notes : \/ row'[n] = row[n]
                       \/ Exists(n) /\ row'[n].status # "NONE" /\ Right(n, row'[n])
  BY <1>0, <1>1 DEF JobRight
<1> QED BY <1>2, <1>3, OverwriteKeeps DEF Save, history

LEMMA MarkQueue ==
  ASSUME QueueInv, NEW t \in Tabs, MarkRead(t) \/ MarkAllRead(t) \/ SaveMarks(t)
  PROVE  QueueInv'
<1>0. OTypeOK BY DEF QueueInv
<1>1. ASSUME NEW S \in SUBSET Notes, StartMark(t, S) PROVE QueueInv'
  <2>1. marks' = marks \cup {[tab |-> t, id |-> n, copy |-> row[n]] : n \in S}
    BY <1>1 DEF StartMark
  <2>2. UNCHANGED <<row, todo, jobs, delivered, troubles, faults>> BY <1>1 DEF StartMark
  <2>3. ASSUME NEW x \in marks', x \notin marks PROVE x \in Mark /\ MarkRight(x)'
    <3>1. PICK n \in S : x = [tab |-> t, id |-> n, copy |-> row[n]] BY <2>1, <2>3
    <3>2. Exists(n) /\ Right(n, row[n]) /\ row[n] \in Row
      BY <1>0, <1>1 DEF StartMark, QueueInv, OTypeOK
    <3> QED BY <2>2, <3>1, <3>2 DEF Mark, MarkRight, Right, Exists
  <2>4. reads' \in 0..MaxReads
    BY <1>0, <1>1, OutboxAssumption DEF StartMark, OTypeOK
  <2>5. excused' \subseteq Notes BY <1>0, <1>1 DEF StartMark, OTypeOK
  <2>6. OTypeOK' BY <1>0, <2>2, <2>3, <2>4, <2>5 DEF OTypeOK
  <2>7. \A j \in jobs' : JobRight(j)' BY <2>2 DEF QueueInv, JobRight, Right, Exists
  <2>8. \A x \in marks' : MarkRight(x)'
    BY <2>2, <2>3 DEF QueueInv, MarkRight, Right, Exists
  <2> QED BY <2>2, <2>6, <2>7, <2>8 DEF QueueInv, Right, Exists
<1>2. CASE MarkRead(t) BY <1>1, <1>2 DEF MarkRead
<1>3. CASE MarkAllRead(t)
  <2>1. {n \in Notes : Exists(n)} \in SUBSET Notes OBVIOUS
  <2> QED BY <1>1, <1>3, <2>1 DEF MarkAllRead
<1>4. CASE SaveMarks(t)
  <2> DEFINE mine == {x \in marks : x.tab = t}
  <2>1. row' = [n \in Notes |->
          IF \E x \in mine : x.id = n THEN (CHOOSE x \in mine : x.id = n).copy ELSE row[n]]
    BY <1>4 DEF SaveMarks
  <2>2. ASSUME NEW n \in Notes
        PROVE  /\ row'[n] \in Row
               /\ \/ row'[n] = row[n]
                  \/ Exists(n) /\ row'[n].status # "NONE" /\ Right(n, row'[n])
    <3>1. CASE \E x \in mine : x.id = n
      <4>1. PICK x \in mine : x.id = n /\ row'[n] = x.copy BY <2>1, <3>1
      <4>2. MarkRight(x) /\ x \in Mark BY <1>0, <4>1 DEF QueueInv, OTypeOK
      <4> QED BY <4>1, <4>2 DEF MarkRight, Mark
    <3>2. CASE ~\E x \in mine : x.id = n BY <1>0, <2>1, <3>2 DEF OTypeOK
    <3> QED BY <3>1, <3>2
  <2>3. row' \in [Notes -> Row] BY <2>1, <2>2
  <2> QED BY <1>4, <2>2, <2>3, OverwriteKeeps DEF SaveMarks, history
<1> QED BY <1>2, <1>3, <1>4

LEMMA QueueNext == QueueInv /\ [ONext]_ovars => QueueInv'
<1> SUFFICES ASSUME QueueInv, [ONext]_ovars PROVE QueueInv' OBVIOUS
<1>1. ASSUME UNCHANGED ovars PROVE QueueInv'
  <2>1. UNCHANGED <<row, todo, jobs, marks, delivered, troubles, excused, faults, reads>>
    BY <1>1 DEF ovars, history
  <2> QED BY <2>1 DEF QueueInv, OTypeOK, JobRight, MarkRight, Right, Exists
<1>2. ASSUME ONext PROVE QueueInv'
  BY <1>2, EnqueueQueue, TimerQueue, ReadRowQueue, AttemptQueue, SaveQueue, MarkQueue
     DEF ONext, Attempt
<1> QED BY <1>1, <1>2

THEOREM TypeCorrect == OSpec => []OTypeOK
<1>1. QueueInv => OTypeOK BY DEF QueueInv
<1> QED BY <1>1, QueueInit, QueueNext, PTL DEF OSpec

\* A row that says SENT was delivered.
THEOREM SentDelivered == OSpec => []SentWasDelivered
<1>1. QueueInv => SentWasDelivered BY DEF QueueInv, Right, SentWasDelivered
<1> QED BY <1>1, QueueInit, QueueNext, PTL DEF OSpec

\* A notification is given up after as many errors as there are retries.
THEOREM GivenUpLate == OSpec => []GivenUpAfterRetries
<1>1. QueueInv => GivenUpAfterRetries BY DEF QueueInv, Right, GivenUpAfterRetries
<1> QED BY <1>1, QueueInit, QueueNext, PTL DEF OSpec

-----------------------------------------------------------------------------
(* Two deliveries need an excuse                                            *)

\* A notification without excuse has one copy in use at most, and whatever may
\* be dispatched again has not been delivered.
Once(n) ==
  /\ delivered[n] <= 1
  /\ row[n].status = "PENDING" /\ delivered[n] > 0 =>
       \E j \in jobs : j.id = n /\ j.pc = "sent"
  /\ \A i, j \in jobs : i.id = n /\ j.id = n => i = j
  /\ \A j \in jobs, x \in marks : ~(j.id = n /\ x.id = n)
  /\ \A j \in jobs : j.id = n /\ j.pc # "sent" => delivered[n] = 0
  /\ \A x \in marks : x.id = n /\ x.copy.status = "PENDING" => delivered[n] = 0

OnceInv == \A n \in Notes \ excused : Once(n)

\* The steps that touch one notification leave the others alone.
LEMMA OthersOnce ==
  ASSUME NEW n \in Notes, Once(n), row'[n] = row[n], delivered'[n] = delivered[n],
         \A j : j.id = n => (j \in jobs' <=> j \in jobs),
         \A x : x.id = n => (x \in marks' <=> x \in marks)
  PROVE  Once(n)'
BY DEF Once

LEMMA OnceNext == QueueInv /\ QueueInv' /\ OnceInv /\ [ONext]_ovars => OnceInv'
<1> SUFFICES ASSUME QueueInv, QueueInv', OnceInv, [ONext]_ovars,
                    NEW m \in Notes, m \notin excused'
             PROVE  Once(m)'
  BY DEF OnceInv
<1>0. OTypeOK /\ (m \notin excused => Once(m)) /\ delivered[m] \in 0..2
      /\ row \in [Notes -> Row] /\ delivered \in [Notes -> 0..2]
      /\ (\A j \in jobs : JobRight(j) /\ j.id \in Notes)
      /\ (\A x \in marks : MarkRight(x) /\ x.id \in Notes)
  BY DEF QueueInv, OTypeOK, OnceInv, Job, Mark
<1>1. ASSUME UNCHANGED ovars PROVE Once(m)'
  <2>1. UNCHANGED <<row, jobs, marks, delivered, excused>> BY <1>1 DEF ovars, history
  <2> QED BY <1>0, <2>1 DEF Once
<1>2. ASSUME NEW n \in Notes,
             Enqueue(n) \/ CreateInApp(n) \/ \E p \in Processes : EnqueueAndDispatch(p, n)
      PROVE  Once(m)'
  <2>1. /\ UNCHANGED <<jobs, marks, excused>>
        /\ ~Exists(n)
        /\ \A k \in Notes \ {n} : row'[k] = row[k] /\ delivered'[k] = delivered[k]
    BY <1>0, <1>2 DEF Enqueue, CreateInApp, EnqueueAndDispatch, Latest, history
  <2>a. delivered[n] = 0 BY <2>1 DEF QueueInv
  <2>b. \/ delivered' = delivered
        \/ delivered' = [delivered EXCEPT ![n] = 1] /\ row' = [row EXCEPT ![n].status = "SENT"]
    BY <1>2 DEF Enqueue, CreateInApp, EnqueueAndDispatch, history
  <2>2. (row'[n].status = "PENDING" => delivered'[n] = 0) /\ delivered'[n] \in 0..1
    BY <1>0, <2>a, <2>b DEF Row
  <2>3. \A j \in jobs : j.id # n BY <1>0, <2>1 DEF JobRight
  <2>4. \A x \in marks : x.id # n BY <1>0, <2>1 DEF MarkRight
  <2> QED BY <1>0, <2>1, <2>2, <2>3, <2>4 DEF Once
<1>3. ASSUME NEW p \in Processes, Drain(p) PROVE Once(m)'
  BY <1>0, <1>3 DEF Drain, history, Once
<1>4. ASSUME NEW p \in Processes, Crash(p) PROVE Once(m)'
  <2>1. /\ UNCHANGED <<row, marks, delivered>> /\ jobs' \subseteq jobs
        /\ m \notin excused
        /\ \A j \in jobs : j.id = m /\ j.pc = "sent" => j \in jobs'
    BY <1>4 DEF Crash
  <2> QED BY <1>0, <2>1 DEF Once
<1>5. ASSUME NEW w \in Workers, ReadRow(w) PROVE Once(m)'
  <2>1. PICK n \in todo[w] :
          IF StillPending(n)
          THEN /\ jobs' = jobs \cup
                    {[worker |-> w, id |-> n, copy |-> row[n], pc |-> "dispatch"]}
               /\ excused' = IF InUse(n) THEN excused \cup {n} ELSE excused
          ELSE UNCHANGED <<jobs, excused>>
    BY <1>5 DEF ReadRow
  <2>2. UNCHANGED <<row, marks, delivered>> BY <1>5 DEF ReadRow
  <2>3. m \notin excused BY <2>1
  <2>4. CASE StillPending(n) /\ n = m
    <3>1. \A x \in jobs \cup marks : x.id # m BY <2>1, <2>4 DEF InUse
    <3>2. delivered[m] = 0 BY <1>0, <2>3, <2>4, <3>1 DEF Once, StillPending
    <3> QED BY <1>0, <2>1, <2>2, <2>3, <2>4, <3>1, <3>2 DEF Once
  <2>5. CASE ~(StillPending(n) /\ n = m) BY <1>0, <2>1, <2>2, <2>3, <2>5 DEF Once
  <2> QED BY <2>4, <2>5
<1>6. ASSUME NEW j \in jobs, NEW c, NEW pc, Becomes(j, c, pc), UNCHANGED <<row, marks>>,
             delivered'[m] = delivered[m] \/ j.pc = "dispatch",
             delivered' = delivered \/ (Deliver(j.id) /\ (pc = "sent" \/ m # j.id)),
             j.id = m => j.pc # "sent" /\ (pc = "sent" => delivered' # delivered),
             m \notin excused
      PROVE  Once(m)'
  <2> DEFINE k == [j EXCEPT !.copy = c, !.pc = pc]
  <2>1. jobs' = (jobs \ {j}) \cup {k} /\ k.id = j.id /\ k.pc = pc
    BY <1>0, <1>6 DEF Becomes, OTypeOK, Job
  <2>2. CASE j.id # m
    <3>1. delivered'[m] = delivered[m] BY <1>0, <1>6, <2>2 DEF Deliver
    <3> QED BY <1>0, <1>6, <2>1, <2>2, <3>1 DEF Once
  <2>3. CASE j.id = m
    <3>1. delivered[m] = 0 BY <1>0, <1>6, <2>3 DEF Once
    <3>2. \/ delivered'[m] = 0 /\ pc # "sent"
          \/ delivered'[m] = 1 /\ pc = "sent"
      BY <1>0, <1>6, <2>3, <3>1 DEF Deliver, Capped
    <3>3. \A i \in jobs : i.id = m => i = j BY <1>0, <1>6, <2>3 DEF Once
    <3>4. \A x \in marks : x.id # m BY <1>0, <1>6, <2>3 DEF Once
    <3>5. \A i \in jobs' : i.id = m => i = k BY <2>1, <3>3
    <3>6. k \in jobs' /\ k.id = m /\ k.pc = pc BY <2>1, <2>3
    <3>7. delivered'[m] <= 1 /\ (delivered'[m] > 0 => k.pc = "sent")
          /\ (k.pc # "sent" => delivered'[m] = 0)
      BY <3>2, <3>6
    <3>8. \A x \in marks' : x.id # m BY <1>6, <3>4
    <3> HIDE DEF k
    <3> QED BY <3>5, <3>6, <3>7, <3>8 DEF Once
  <2> QED BY <2>2, <2>3
<1>7. ASSUME NEW j \in jobs, Dispatch(j) PROVE Once(m)'
  <2>1. delivered[j.id] \in 0..2 BY <1>0
  <2>2. delivered' # delivered \/ delivered[j.id] = 2
    BY <1>0, <1>7, <2>1 DEF Dispatch, Deliver, Capped
  <2>3. m \notin excused BY <1>7 DEF Dispatch
  <2>4. j.id = m => delivered' # delivered BY <1>0, <2>2, <2>3 DEF Once
  <2> QED BY <1>6, <1>7, <2>3, <2>4 DEF Dispatch
<1>8. ASSUME NEW j \in jobs, DispatchThrows(j) PROVE Once(m)'
  <2>1. \/ delivered' = delivered /\ excused' = excused
        \/ Deliver(j.id) /\ excused' = excused \cup {j.id}
    BY <1>8 DEF DispatchThrows
  <2>2. m \notin excused BY <2>1
  <2>3. delivered' = delivered \/ (Deliver(j.id) /\ m # j.id)
    <3>1. CASE delivered' = delivered BY <3>1
    <3>2. CASE Deliver(j.id) /\ excused' = excused \cup {j.id}
      <4>1. m # j.id BY <3>2
      <4> QED BY <3>2, <4>1
    <3> QED BY <2>1, <3>1, <3>2
  <2>4. m \in Notes \ {j.id} => delivered'[m] = delivered[m] BY <1>0, <2>3 DEF Deliver
  <2> QED BY <1>6, <1>8, <2>2, <2>3, <2>4 DEF DispatchThrows
<1>9. ASSUME NEW j \in jobs, SaveSentFails(j) PROVE Once(m)'
  <2>1. m \notin excused /\ m # j.id BY <1>9 DEF SaveSentFails
  <2> QED BY <1>6, <1>9, <2>1 DEF SaveSentFails
<1>10. ASSUME NEW j \in jobs, Save(j) PROVE Once(m)'
  <2>1. /\ UNCHANGED <<marks, delivered, excused>> /\ jobs' = jobs \ {j}
        /\ row' = [row EXCEPT ![j.id] = j.copy]
    BY <1>10 DEF Save, history
  <2>2. CASE j.id # m BY <1>0, <2>1, <2>2 DEF Once
  <2>3. CASE j.id = m
    <3>1. row'[m] = j.copy BY <1>0, <2>1, <2>3
    <3>2. j.copy.status = "PENDING" => delivered[m] = 0
      BY <1>0, <2>1, <2>3 DEF Once, JobRight
    <3> QED BY <1>0, <2>1, <3>1, <3>2 DEF Once
  <2> QED BY <2>2, <2>3
<1>11. ASSUME NEW j \in jobs, SaveCaughtFails(j) PROVE Once(m)'
  <2>1. /\ UNCHANGED <<row, marks, delivered, excused>> /\ jobs' = jobs \ {j}
        /\ j.pc = "caught"
    BY <1>11 DEF SaveCaughtFails, history
  <2> QED BY <1>0, <2>1 DEF Once
<1>12. ASSUME NEW t \in Tabs, NEW S \in SUBSET Notes, StartMark(t, S) PROVE Once(m)'
  <2>1. /\ UNCHANGED <<row, jobs, delivered>>
        /\ marks' = marks \cup {[tab |-> t, id |-> n, copy |-> row[n]] : n \in S}
        /\ m \notin excused
        /\ m \in S => ~InUse(m)
    BY <1>12 DEF StartMark
  <2>2. CASE m \in S
    <3>1. \A x \in jobs \cup marks : x.id # m BY <2>1, <2>2 DEF InUse
    <3>2. row[m].status = "PENDING" => delivered[m] = 0 BY <1>0, <2>1, <3>1 DEF Once
    <3>3. \A x \in marks' : x.id = m => x.copy = row[m] BY <2>1, <3>1
    <3> QED BY <1>0, <2>1, <3>1, <3>2, <3>3 DEF Once
  <2>3. CASE m \notin S
    <3>1. \A x \in marks' : x.id = m => x \in marks BY <2>1, <2>3
    <3> QED BY <1>0, <2>1, <3>1 DEF Once
  <2> QED BY <2>2, <2>3
<1>13. ASSUME NEW t \in Tabs, SaveMarks(t) PROVE Once(m)'
  <2> DEFINE mine == {x \in marks : x.tab = t}
  <2>1. /\ UNCHANGED <<jobs, delivered, excused>> /\ marks' \subseteq marks
        /\ row' = [n \in Notes |->
             IF \E x \in mine : x.id = n THEN (CHOOSE x \in mine : x.id = n).copy ELSE row[n]]
    BY <1>13 DEF SaveMarks, history
  <2>2. CASE \E x \in mine : x.id = m
    <3>1. PICK x \in mine : x.id = m /\ row'[m] = x.copy BY <2>1, <2>2
    <3>2. row'[m].status = "PENDING" => delivered[m] = 0 BY <1>0, <2>1, <3>1 DEF Once
    <3> QED BY <1>0, <2>1, <3>2 DEF Once
  <2>3. CASE ~\E x \in mine : x.id = m
    <3>1. row'[m] = row[m] BY <2>1, <2>3
    <3> QED BY <1>0, <2>1, <3>1 DEF Once
  <2> QED BY <2>2, <2>3
<1>14. ASSUME NEW t \in Tabs, MarkRead(t) \/ MarkAllRead(t) PROVE Once(m)'
  <2>1. {n \in Notes : Exists(n)} \in SUBSET Notes /\ \A n \in Notes : {n} \in SUBSET Notes
    OBVIOUS
  <2> QED BY <1>12, <1>14, <2>1 DEF MarkRead, MarkAllRead
<1> QED
  BY <1>1, <1>2, <1>3, <1>4, <1>5, <1>7, <1>8, <1>9, <1>10, <1>11, <1>13, <1>14
     DEF ONext, Attempt

\* A second delivery needs two copies in use at once, or a delivery that was not
\* recorded.
THEOREM TwiceNeedsExcuse == OSpec => []TwiceOnlyExcused
<1>1. OInit => OnceInv BY DEF OInit, OnceInv, Once
<1>2. QueueInv /\ OnceInv => TwiceOnlyExcused
  <2> SUFFICES ASSUME QueueInv, OnceInv, NEW n \in Notes, n \notin excused
               PROVE  ~(delivered[n] > 1)
    BY DEF TwiceOnlyExcused
  <2>1. Once(n) /\ delivered[n] \in 0..2 BY DEF OnceInv, QueueInv, OTypeOK
  <2> QED BY <2>1 DEF Once
<1> QED BY <1>1, <1>2, QueueInit, QueueNext, OnceNext, PTL DEF OSpec

=============================================================================

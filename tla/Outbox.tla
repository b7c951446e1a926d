------------------------------- MODULE Outbox -------------------------------
(***************************************************************************)
(* The queue of notifications.  Rows are PENDING until a worker has handed   *)
(* them to their channel: the timer of each process, which drains the oldest *)
(* rows one after the other, or the request that enqueued the row.  Nothing  *)
(* locks a row.  A worker reads it, dispatches it and saves the copy it has; *)
(* so does a tab of the addressee that marks notifications as read.  Each    *)
(* save(entity) overwrites the row.                                          *)
(***************************************************************************)
EXTENDS Integers, FiniteSets

CONSTANTS
  MaxNotes,     \* bound: notifications, numbered as they are created
  Unconfigured, \* those whose channel has no credentials
  Processes,
  Tabs,         \* of the addressee
  MaxRetries,
  BatchSize,
  MaxFaults,    \* bound: crashes and failing saves
  MaxReads      \* bound: calls that mark notifications as read

Notes == 1..MaxNotes

ASSUME OutboxAssumption ==
  /\ MaxNotes \in Nat
  /\ Unconfigured \subseteq Notes
  /\ MaxRetries \in Nat \ {0}
  /\ BatchSize \in Nat \ {0}
  /\ MaxFaults \in Nat
  /\ MaxReads \in Nat

Workers == Processes \X {"timer", "request"}
NotifyStatus == {"PENDING", "SENT", "FAILED"}
\* "NONE": there is no such row yet.
Row == [status : NotifyStatus \cup {"NONE"}, retries : 0..MaxRetries]
Job == [worker : Workers, id : Notes, copy : Row, pc : {"dispatch", "sent", "caught"}]
Mark == [tab : Tabs, id : Notes, copy : Row]

VARIABLES
  row,       \* [Notes -> Row]
  todo,      \* [Workers -> SUBSET Notes], what a worker has yet to read
  jobs,      \* rows being dispatched
  marks,     \* rows being marked as read
  delivered, \* [Notes -> 0..2], deliveries (2: or more)
  troubles,  \* [Notes -> 0..MaxRetries], dispatches and saves that threw (or more)
  excused,   \* notes of which two copies were in use at once, or of which the
             \* delivery was not recorded
  faults,
  reads

history == <<delivered, troubles, excused>>
ovars == <<row, todo, jobs, marks, history, faults, reads>>

OInit ==
  /\ row = [n \in Notes |-> [status |-> "NONE", retries |-> 0]]
  /\ todo = [w \in Workers |-> {}]
  /\ jobs = {}
  /\ marks = {}
  /\ delivered = [n \in Notes |-> 0]
  /\ troubles = [n \in Notes |-> 0]
  /\ excused = {}
  /\ faults = 0
  /\ reads = 0

Capped(k, top) == IF k < top THEN k + 1 ELSE top
Exists(n) == row[n].status # "NONE"
Pending == {n \in Notes : row[n].status = "PENDING"}
Idle(w) == todo[w] = {} /\ ~\E j \in jobs : j.worker = w
InUse(n) == \E x \in jobs \cup marks : x.id = n
Latest(n) == ~Exists(n) /\ \A m \in 1..(n - 1) : Exists(m)

-----------------------------------------------------------------------------
(* Rows are created                                                         *)

Enqueue(n) ==
  /\ Latest(n)
  /\ row' = [row EXCEPT ![n].status = "PENDING"]
  /\ UNCHANGED <<todo, jobs, marks, history, faults, reads>>

\* enqueueAndDispatch: the request processes its own row next.
EnqueueAndDispatch(p, n) ==
  /\ Latest(n)
  /\ Idle(<<p, "request">>)
  /\ row' = [row EXCEPT ![n].status = "PENDING"]
  /\ todo' = [todo EXCEPT ![<<p, "request">>] = {n}]
  /\ UNCHANGED <<jobs, marks, history, faults, reads>>

\* An in-app notification is delivered by being there.
CreateInApp(n) ==
  /\ Latest(n)
  /\ row' = [row EXCEPT ![n].status = "SENT"]
  /\ delivered' = [delivered EXCEPT ![n] = 1]
  /\ UNCHANGED <<todo, jobs, marks, troubles, excused, faults, reads>>

-----------------------------------------------------------------------------
(* The timer, and what a worker does with a row                             *)

\* The oldest rows, at most BatchSize of them.
Oldest(S) == {n \in S : Cardinality({m \in S : m < n}) < BatchSize}

Drain(p) ==
  /\ Idle(<<p, "timer">>)
  /\ Pending # {}
  /\ todo' = [todo EXCEPT ![<<p, "timer">>] = Oldest(Pending)]
  /\ UNCHANGED <<row, jobs, marks, history, faults, reads>>

\* Mutant: the status is not looked at again when the row's turn comes.
StillPendingUnchecked(n) == Exists(n)

StillPending(n) == row[n].status = "PENDING"

\* The rows of a batch take their turns, oldest first.
ReadRow(w) ==
  /\ ~\E j \in jobs : j.worker = w
  /\ \E n \in todo[w] :
       /\ \A m \in todo[w] : n <= m
       /\ todo' = [todo EXCEPT ![w] = @ \ {n}]
       /\ IF StillPending(n)
          THEN /\ jobs' = jobs \cup
                    {[worker |-> w, id |-> n, copy |-> row[n], pc |-> "dispatch"]}
               /\ excused' = IF InUse(n) THEN excused \cup {n} ELSE excused
          ELSE UNCHANGED <<jobs, excused>>
  /\ UNCHANGED <<row, marks, delivered, troubles, faults, reads>>

Becomes(j, copy, pc) == jobs' = (jobs \ {j}) \cup {[j EXCEPT !.copy = copy, !.pc = pc]}

\* Mutant: the attempt is not counted.
CaughtUncounted(n, copy) ==
  [copy EXCEPT !.status = IF n \in Unconfigured \/ copy.retries + 1 >= MaxRetries
                          THEN "FAILED" ELSE @]

\* What the handler of an error makes of the copy.
Caught(n, copy) ==
  [status  |-> IF n \in Unconfigured \/ copy.retries + 1 >= MaxRetries
               THEN "FAILED" ELSE copy.status,
   retries |-> copy.retries + 1]

Deliver(n) == delivered' = [delivered EXCEPT ![n] = Capped(@, 2)]
Trouble(n) == troubles' = [troubles EXCEPT ![n] = Capped(@, MaxRetries)]

Dispatch(j) ==
  /\ j.pc = "dispatch"
  /\ j.id \notin Unconfigured
  /\ Deliver(j.id)
  /\ Becomes(j, [j.copy EXCEPT !.status = "SENT"], "sent")
  /\ UNCHANGED <<row, todo, marks, troubles, excused, faults, reads>>

\* Mutant: an error on the way to the channel passes for a delivery.
DispatchThrowsSwallowed(j) ==
  /\ j.pc = "dispatch"
  /\ Becomes(j, [j.copy EXCEPT !.status = "SENT"], "sent")
  /\ UNCHANGED <<row, todo, marks, history, faults, reads>>

\* The channel refuses, or it delivers and its answer is lost.
DispatchThrows(j) ==
  /\ j.pc = "dispatch"
  /\ Trouble(j.id)
  /\ Becomes(j, Caught(j.id, j.copy), "caught")
  /\ \/ UNCHANGED <<delivered, excused>>
     \/ j.id \notin Unconfigured /\ Deliver(j.id) /\ excused' = excused \cup {j.id}
  /\ UNCHANGED <<row, todo, marks, faults, reads>>

Save(j) ==
  /\ j.pc # "dispatch"
  /\ row' = [row EXCEPT ![j.id] = j.copy]
  /\ jobs' = jobs \ {j}
  /\ UNCHANGED <<todo, marks, history, faults, reads>>

\* The save is part of the try block: the handler takes over, with a copy that
\* already says SENT.
SaveSentFails(j) ==
  /\ j.pc = "sent"
  /\ faults < MaxFaults
  /\ faults' = faults + 1
  /\ Trouble(j.id)
  /\ excused' = excused \cup {j.id}
  /\ Becomes(j, Caught(j.id, j.copy), "caught")
  /\ UNCHANGED <<row, todo, marks, delivered, reads>>

\* Nothing catches what the handler's own save throws, and the batch ends.
SaveCaughtFails(j) ==
  /\ j.pc = "caught"
  /\ faults < MaxFaults
  /\ faults' = faults + 1
  /\ jobs' = jobs \ {j}
  /\ todo' = [todo EXCEPT ![j.worker] = {}]
  /\ UNCHANGED <<row, marks, history, reads>>

\* A process stops, with its timer and its request, and starts again.
Crash(p) ==
  /\ faults < MaxFaults
  /\ faults' = faults + 1
  /\ jobs' = {j \in jobs : j.worker[1] # p}
  /\ todo' = [w \in Workers |-> IF w[1] = p THEN {} ELSE todo[w]]
  /\ excused' = excused \cup {j.id : j \in {i \in jobs : i.worker[1] = p /\ i.pc = "sent"}}
  /\ UNCHANGED <<row, marks, delivered, troubles, reads>>

-----------------------------------------------------------------------------
(* markReadForUser and markAllReadForUser                                   *)

\* One row, or all of them.
StartMark(t, S) ==
  /\ reads < MaxReads
  /\ ~\E x \in marks : x.tab = t
  /\ S # {} /\ \A n \in S : Exists(n)
  /\ marks' = marks \cup {[tab |-> t, id |-> n, copy |-> row[n]] : n \in S}
  /\ excused' = excused \cup {n \in S : InUse(n)}
  /\ reads' = reads + 1
  /\ UNCHANGED <<row, todo, jobs, delivered, troubles, faults>>

MarkRead(t) == \E n \in Notes : StartMark(t, {n})
MarkAllRead(t) == StartMark(t, {n \in Notes : Exists(n)})

\* The rows are saved as they were read, with the mark in their payload; a call
\* that finds everything marked saves nothing and is left out.
SaveMarks(t) ==
  LET mine == {x \in marks : x.tab = t} IN
  /\ mine # {}
  /\ marks' = marks \ mine
  /\ row' = [n \in Notes |->
       IF \E x \in mine : x.id = n THEN (CHOOSE x \in mine : x.id = n).copy ELSE row[n]]
  /\ UNCHANGED <<todo, jobs, history, faults, reads>>

-----------------------------------------------------------------------------
Attempt(j) == Dispatch(j) \/ DispatchThrows(j) \/ Save(j)

ONext ==
  \/ \E n \in Notes : Enqueue(n) \/ CreateInApp(n)
  \/ \E p \in Processes, n \in Notes : EnqueueAndDispatch(p, n)
  \/ \E p \in Processes : Drain(p) \/ Crash(p)
  \/ \E w \in Workers : ReadRow(w)
  \/ \E j \in jobs : Attempt(j) \/ SaveSentFails(j) \/ SaveCaughtFails(j)
  \/ \E t \in Tabs : MarkRead(t) \/ MarkAllRead(t) \/ SaveMarks(t)

\* The timer fires again and again, and code that runs goes on.
Work(w) == ReadRow(w) \/ \E j \in jobs : j.worker = w /\ Attempt(j)

OSpec ==
  /\ OInit /\ [][ONext]_ovars
  /\ \A p \in Processes : WF_ovars(Drain(p))
  /\ \A w \in Workers : WF_ovars(Work(w))

-----------------------------------------------------------------------------
(* What the queue promises *)

OTypeOK ==
  /\ row \in [Notes -> Row]
  /\ todo \in [Workers -> SUBSET Notes]
  /\ jobs \subseteq Job
  /\ marks \subseteq Mark
  /\ delivered \in [Notes -> 0..2]
  /\ troubles \in [Notes -> 0..MaxRetries]
  /\ excused \subseteq Notes
  /\ faults \in 0..MaxFaults
  /\ reads \in 0..MaxReads

\* What a row calls SENT has been delivered, whatever stale copies of rows are
\* saved over one another.
SentWasDelivered == \A n \in Notes : row[n].status = "SENT" => delivered[n] > 0

\* The queue gives a notification up only if its channel is not configured or
\* after as many errors as there are retries.
GivenUpAfterRetries ==
  \A n \in Notes : row[n].status = "FAILED" => n \in Unconfigured \/ troubles[n] = MaxRetries

\* A notification is delivered twice only if two copies of its row were in use
\* at once, or if what became of a delivery was not recorded.
TwiceOnlyExcused == \A n \in Notes : delivered[n] > 1 => n \in excused

\* No notification waits for ever: failing rows at the head of the queue do not
\* keep the others from their turn.
EveryRowSettles ==
  \A n \in Notes : row[n].status = "PENDING" ~> row[n].status \in {"SENT", "FAILED"}

=============================================================================

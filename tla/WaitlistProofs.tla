--------------------------- MODULE WaitlistProofs ---------------------------
(***************************************************************************)
(* Theorems about Waitlist, for any number of addresses, entries, seats and  *)
(* calls at once.                                                            *)
(***************************************************************************)
EXTENDS Waitlist, TLAPS

-----------------------------------------------------------------------------
(* The line, and what every call in flight is right about                   *)

\* An entry keeps its address and its position; one that has left the line
\* does not wait again, and one that waits was made no offer.
EntryRight(i) ==
  /\ Exists(i) /\ i \notin closed => IsOpen(i)
  /\ i \in closed => Exists(i) /\ entry[i].status # "WAITING"
  /\ entry[i].status = "PURCHASED" => i \in bought
  /\ entry[i].status = "WAITING" => made[i] = 0
  /\ ~Exists(i) => ahead[i] = {} /\ made[i] = 0
  /\ \A k \in ahead[i] : Exists(k)
  /\ \A k \in ahead[i] \ closed : entry[k].position < entry[i].position

\* Nobody who was in line before i waits.
InTurn(i) == \A k \in ahead[i] : entry[k].status # "WAITING"

CallRight(c) ==
  /\ \A i \in c.ids : Exists(i)
  /\ c.pc \in {"max", "insert"} => c.copy.status = "WAITING"
  /\ c.pc = "insert" => \A i \in c.ids \ closed : entry[i].position < c.copy.position
  /\ c.pc \in {"buy", "mark", "save"} => c.id \in Entries /\ Exists(c.id)
  /\ c.pc = "mark" => c.id \in bought
  /\ c.copy.status = "NOTIFIED" => c.pc = "save"
  /\ c.pc = "save" =>
       /\ c.copy.status \notin {"NONE", "WAITING"}
       /\ c.copy.email = entry[c.id].email
       /\ c.copy.position = entry[c.id].position
       /\ c.copy.status = "PURCHASED" => c.id \in bought
       /\ c.op = "freed" /\ c.copy.status = "NOTIFIED" => InTurn(c.id)

LineInv ==
  /\ WTypeOK
  /\ OneOpenEntry
  /\ \A i \in Entries : EntryRight(i)
  /\ \A c \in calls : CallRight(c)

LEMMA NoEntryTyped == NoEntry \in Row /\ NoEntry.status = "NONE"
BY WaitlistAssumption DEF NoEntry, Row

LEMMA LineInit == WInit => LineInv
<1> SUFFICES ASSUME WInit PROVE LineInv OBVIOUS
<1>1. WTypeOK
  <2>1. entry \in [Entries -> Row] BY NoEntryTyped DEF WInit
  <2>2. lost \in BOOLEAN BY DEF WInit
  <2>3. /\ made \in [Entries -> Nat] /\ lapsed \in [Entries -> Nat]
        /\ ahead \in [Entries -> SUBSET Entries]
        /\ free \in 0..Capacity /\ begun \in 0..MaxCalls
    BY WaitlistAssumption DEF WInit
  <2> QED BY <2>1, <2>2, <2>3 DEF WInit, WTypeOK
<1>2. \A i \in Entries : entry[i].status = "NONE" BY NoEntryTyped DEF WInit
<1>3. OneOpenEntry BY <1>2 DEF OneOpenEntry, OpenEntries, IsOpen, Open
<1>4. \A i \in Entries : EntryRight(i) BY <1>2 DEF EntryRight, Exists, IsOpen, WInit
<1> QED BY <1>1, <1>3, <1>4 DEF LineInv, WInit

\* What is common to the steps that leave the rows alone.
LEMMA RowsStay ==
  ASSUME LineInv, UNCHANGED <<entry, made, ahead, closed>>,
         bought \subseteq bought', bought' \subseteq Entries,
         free' \in 0..Capacity, lapsed' \in [Entries -> Nat],
         raced' \subseteq Entries, lost' \in BOOLEAN, begun' \in 0..MaxCalls,
         \A x \in calls' : x \in calls \/ (x \in Call /\ CallRight(x)')
  PROVE  LineInv'
<1>1. WTypeOK' BY DEF LineInv, WTypeOK
<1>2. OneOpenEntry' BY DEF LineInv, OneOpenEntry, OpenEntries, IsOpen
<1>3. ASSUME NEW i \in Entries PROVE EntryRight(i)'
  <2>1. EntryRight(i) BY DEF LineInv
  <2> QED BY <2>1 DEF EntryRight, Exists, IsOpen
<1>4. ASSUME NEW x \in calls, CallRight(x) PROVE CallRight(x)'
  BY <1>4 DEF CallRight, Exists, InTurn
<1> QED BY <1>1, <1>2, <1>3, <1>4 DEF LineInv

\* A call that begins.
LEMMA Begins ==
  ASSUME LineInv, NEW s \in Slots, NEW op \in Ops, NEW pc \in Pcs,
         NEW i \in Entries \cup {0}, NEW ids \in SUBSET Entries, NEW copy \in Row,
         Start(s, op, pc, i, ids, copy)
  PROVE  /\ begun' \in 0..MaxCalls
         /\ \E d \in Call :
              /\ calls' = calls \cup {d}
              /\ d.slot = s /\ d.op = op /\ d.pc = pc /\ d.id = i /\ d.ids = ids /\ d.copy = copy
<1>1. begun' \in 0..MaxCalls
  BY WaitlistAssumption DEF LineInv, WTypeOK, Start
<1>2. [slot |-> s, op |-> op, pc |-> pc, id |-> i, ids |-> ids, copy |-> copy] \in Call
  BY DEF Call
<1> QED BY <1>1, <1>2 DEF Start

\* A call about to save its copy of an entry.
LEMMA SavingRight ==
  ASSUME LineInv, NEW c \in Call, NEW i \in Entries, NEW st \in WaitlistStatus
  PROVE  \E d \in Call :
           /\ d = Saving(c, i, st)
           /\ d.slot = c.slot /\ d.op = c.op /\ d.pc = "save" /\ d.id = i /\ d.ids = c.ids
           /\ d.copy.status = st
           /\ d.copy.email = entry[i].email /\ d.copy.position = entry[i].position
<1>1. entry[i] \in Row BY DEF LineInv, WTypeOK
<1>2. [entry[i] EXCEPT !.status = st] \in Row
  BY <1>1 DEF Row
<1>3. ASSUME NEW r \in Row PROVE [c EXCEPT !.pc = "save", !.id = i, !.copy = r] \in Call
  BY DEF Call, Pcs
<1>4. Saving(c, i, st) \in Call BY <1>2, <1>3 DEF Saving
<1>5. [entry[i] EXCEPT !.status = st].status = st BY <1>1 DEF Row
<1>6. /\ [entry[i] EXCEPT !.status = st].email = entry[i].email
      /\ [entry[i] EXCEPT !.status = st].position = entry[i].position
  BY <1>1 DEF Row
<1> DEFINE d == Saving(c, i, st)
<1>7. /\ d.slot = c.slot /\ d.op = c.op /\ d.pc = "save" /\ d.id = i /\ d.ids = c.ids
      /\ d.copy = [entry[i] EXCEPT !.status = st]
  BY DEF Saving, Call
<1> QED BY <1>4, <1>5, <1>6, <1>7

-----------------------------------------------------------------------------
(* One lemma per action *)

LEMMA JoinKeeps ==
  ASSUME LineInv, NEW s \in Slots, NEW m \in Emails, Join(s, m)
  PROVE  LineInv'
<1> DEFINE copy == [NoEntry EXCEPT !.status = "WAITING", !.email = m]
<1>1. copy \in Row /\ copy.status = "WAITING"
  BY NoEntryTyped DEF Row, WaitlistStatus, Open
<1>2. OpenEntries \in SUBSET Entries /\ \A i \in OpenEntries : Exists(i)
  BY DEF OpenEntries, IsOpen, Open, Exists
<1>3. Start(s, "join", "max", 0, OpenEntries, copy) /\ UNCHANGED <<entry, free, lapsed, history>>
  BY DEF Join
<1> HIDE DEF copy
<1>4. /\ begun' \in 0..MaxCalls
      /\ \E d \in Call :
              /\ calls' = calls \cup {d}
              /\ d.slot = s /\ d.op = "join" /\ d.pc = "max" /\ d.id = 0
              /\ d.ids = OpenEntries /\ d.copy = copy
  <2>1. "join" \in Ops /\ "max" \in Pcs /\ 0 \in Entries \cup {0} BY DEF Ops, Pcs
  <2> QED BY <1>1, <1>2, <1>3, <2>1, Begins
<1>5. PICK d \in Call :
              /\ calls' = calls \cup {d}
              /\ d.pc = "max" /\ d.ids = OpenEntries /\ d.copy = copy
  BY <1>4
<1>6. CallRight(d)'
  BY <1>1, <1>2, <1>3, <1>5 DEF CallRight, Exists
<1> QED BY <1>3, <1>4, <1>5, <1>6, RowsStay DEF history, LineInv, WTypeOK

LEMMA JoinMaxKeeps ==
  ASSUME LineInv, NEW c \in calls, JoinMax(c)
  PROVE  LineInv'
<1>1. c \in Call /\ CallRight(c) /\ c.copy \in Row /\ c.ids \subseteq Entries
  BY DEF LineInv, WTypeOK, Call
<1>2. PICK p \in NextPosition : Goes(c, [c EXCEPT !.pc = "insert", !.copy.position = p])
  BY DEF JoinMax
<1>3. p \in Nat /\ \A i \in OpenEntries : entry[i].position < p
  BY <1>2, WaitlistAssumption DEF NextPosition
<1> DEFINE d == [c EXCEPT !.pc = "insert", !.copy.position = p]
<1>4. /\ d \in Call /\ d.pc = "insert" /\ d.ids = c.ids
      /\ d.copy.position = p /\ d.copy.status = c.copy.status
  BY <1>1, <1>3 DEF Call, Row, Pcs
<1>5. c.copy.status = "WAITING" BY <1>1 DEF JoinMax, CallRight
<1>6. \A i \in c.ids \ closed : i \in OpenEntries
  BY <1>1 DEF CallRight, LineInv, EntryRight, OpenEntries
<1>7. CallRight(d)'
  <2> HIDE DEF d
  <2> QED BY <1>1, <1>3, <1>4, <1>5, <1>6 DEF CallRight, JoinMax, history, Exists
<1>8. calls' = (calls \ {c}) \cup {d} BY <1>2 DEF Goes
<1> QED BY <1>4, <1>7, <1>8, RowsStay DEF JoinMax, history, LineInv, WTypeOK

LEMMA JoinInsertKeeps ==
  ASSUME LineInv, NEW c \in calls, JoinInsert(c)
  PROVE  LineInv'
<1>0. /\ c \in Call /\ CallRight(c) /\ c.copy \in Row /\ c.ids \in SUBSET Entries
      /\ calls' = calls \ {c} /\ c.pc = "insert" /\ c.copy.status = "WAITING"
      /\ UNCHANGED <<free, lapsed, made, closed, bought, raced, lost, begun>>
  BY DEF LineInv, WTypeOK, Call, CallRight, JoinInsert, Ends
<1>1. CASE Clashes(0, c.copy)
  <2>1. UNCHANGED <<entry, ahead>> BY <1>1 DEF JoinInsert
  <2> QED BY <1>0, <2>1, RowsStay DEF LineInv, WTypeOK
<1>2. CASE ~Clashes(0, c.copy)
  <2>1. PICK i \in Entries : /\ ~Exists(i)
                             /\ entry' = [entry EXCEPT ![i] = c.copy]
                             /\ ahead' = [ahead EXCEPT ![i] = c.ids]
    BY <1>2 DEF JoinInsert
  <2>2. /\ entry'[i] = c.copy /\ ahead'[i] = c.ids
        /\ \A j \in Entries : j # i => entry'[j] = entry[j] /\ ahead'[j] = ahead[j]
    BY <2>1 DEF LineInv, WTypeOK
  <2>3. entry' \in [Entries -> Row] /\ ahead' \in [Entries -> SUBSET Entries]
    BY <1>0, <2>1 DEF LineInv, WTypeOK
  <2>4. WTypeOK' BY <1>0, <2>3 DEF LineInv, WTypeOK
  <2>5. OneOpenEntry'
    <3>1. \A j \in OpenEntries : entry[j].email # c.copy.email
      BY <1>0, <1>2 DEF Clashes, Open, OpenEntries, Entries
    <3>2. \A j \in OpenEntries' : j = i \/ (j \in OpenEntries /\ entry'[j] = entry[j])
      BY <2>2 DEF OpenEntries, IsOpen
    <3>3. \A j, k \in OpenEntries : entry[j].email = entry[k].email => j = k
      BY DEF LineInv, OneOpenEntry
    <3> QED BY <2>2, <3>1, <3>2, <3>3 DEF OneOpenEntry
  <2>6. \A j \in Entries : Exists(j) => Exists(j)' /\ entry'[j] = entry[j]
    BY <2>1, <2>2 DEF Exists
  <2>7. ASSUME NEW j \in Entries PROVE EntryRight(j)'
    <3>1. EntryRight(j) /\ ahead[j] \subseteq Entries BY DEF LineInv, WTypeOK
    <3>2. CASE j # i
      BY <1>0, <2>2, <2>6, <3>1, <3>2 DEF EntryRight, Exists, IsOpen
    <3>3. CASE j = i
      BY <1>0, <2>1, <2>2, <2>6, <3>1, <3>3 DEF EntryRight, Exists, IsOpen, Open, CallRight
    <3> QED BY <3>2, <3>3
  <2>8. ASSUME NEW x \in calls PROVE CallRight(x)'
    <3>1. CallRight(x) /\ x.ids \subseteq Entries BY DEF LineInv, WTypeOK, Call
    <3>2. ASSUME x.pc = "save" PROVE InTurn(x.id) => InTurn(x.id)'
      <4>1. x.id # i /\ x.id \in Entries /\ EntryRight(x.id) /\ ahead[x.id] \subseteq Entries
        BY <2>1, <3>1, <3>2 DEF CallRight, LineInv, WTypeOK
      <4> QED BY <2>2, <2>6, <4>1 DEF InTurn, EntryRight
    <3> QED BY <1>0, <2>6, <3>1, <3>2 DEF CallRight
  <2> QED BY <1>0, <2>4, <2>5, <2>7, <2>8 DEF LineInv
<1> QED BY <1>1, <1>2

LEMMA RefundKeeps ==
  ASSUME LineInv, NEW s \in Slots, Refund(s)
  PROVE  LineInv'
<1>1. Stale \in SUBSET Entries /\ \A i \in Stale : Exists(i)
  BY DEF Stale, Exists
<1>2. /\ Start(s, "freed", "expire", 0, Stale, NoEntry)
      /\ free' \in 0..Capacity /\ UNCHANGED <<entry, lapsed, history>>
  BY WaitlistAssumption DEF Refund, LineInv, WTypeOK
<1>3. /\ begun' \in 0..MaxCalls
      /\ \E d \in Call : /\ calls' = calls \cup {d}
                         /\ d.slot = s /\ d.op = "freed" /\ d.pc = "expire" /\ d.id = 0
                         /\ d.ids = Stale /\ d.copy = NoEntry
  <2>1. "freed" \in Ops /\ "expire" \in Pcs /\ 0 \in Entries \cup {0} BY DEF Ops, Pcs
  <2> QED BY <1>1, <1>2, <2>1, NoEntryTyped, Begins
<1>4. PICK d \in Call : /\ calls' = calls \cup {d} /\ d.pc = "expire"
                        /\ d.ids = Stale /\ d.copy = NoEntry
  BY <1>3
<1>5. CallRight(d)' BY <1>1, <1>2, <1>4, NoEntryTyped DEF CallRight, Exists
<1> QED BY <1>2, <1>3, <1>4, <1>5, RowsStay DEF history, LineInv, WTypeOK

LEMMA ExpireKeeps ==
  ASSUME LineInv, NEW c \in calls, Expire(c)
  PROVE  LineInv'
<1>0. /\ c \in Call /\ CallRight(c) /\ c.ids \in SUBSET Entries /\ c.pc = "expire"
      /\ UNCHANGED <<entry, free, lapsed, history, begun>>
  BY DEF LineInv, WTypeOK, Call, Expire
<1>1. PICK i \in c.ids :
       LET rest == [c EXCEPT !.ids = @ \ {i}] IN
       IF entry[i].status = "NOTIFIED" THEN Goes(c, Saving(rest, i, "EXPIRED"))
       ELSE IF c.op = "freed" THEN Goes(c, rest)
       ELSE Ends(c)
  BY DEF Expire
<1>2. PICK rest \in Call :
        /\ rest = [c EXCEPT !.ids = @ \ {i}]
        /\ rest.ids = c.ids \ {i} /\ rest.pc = c.pc /\ rest.copy = c.copy
        /\ rest.op = c.op /\ rest.id = c.id
  <2>1. [c EXCEPT !.ids = @ \ {i}] \in Call BY <1>0 DEF Call
  <2> QED BY <1>0, <2>1 DEF Call
<1>3. CallRight(rest)' BY <1>0, <1>2 DEF CallRight, Exists
<1>4. PICK d \in Call :
        /\ d = Saving(rest, i, "EXPIRED")
        /\ d.op = c.op /\ d.pc = "save" /\ d.id = i /\ d.ids = rest.ids
        /\ d.copy.status = "EXPIRED"
        /\ d.copy.email = entry[i].email /\ d.copy.position = entry[i].position
  <2>1. i \in Entries /\ "EXPIRED" \in WaitlistStatus BY <1>0 DEF WaitlistStatus
  <2>2. rest.op = c.op BY <1>2
  <2> QED BY <2>1, <2>2, SavingRight
<1>5. CallRight(d)' BY <1>0, <1>2, <1>4 DEF CallRight, Exists, history
<1>6. calls' \subseteq calls \cup {rest} \/ calls' \subseteq calls \cup {d}
  BY <1>1, <1>2, <1>4 DEF Goes, Ends
<1> QED BY <1>0, <1>2, <1>3, <1>4, <1>5, <1>6, RowsStay DEF history, LineInv, WTypeOK

LEMMA FreedTierKeeps ==
  ASSUME LineInv, NEW c \in calls, FreedTier(c)
  PROVE  LineInv'
<1> DEFINE d == [c EXCEPT !.pc = "pick"]
<1>0. /\ c \in Call /\ CallRight(c) /\ c.pc = "expire"
      /\ UNCHANGED <<entry, free, lapsed, history, begun>>
  BY DEF LineInv, WTypeOK, FreedTier
<1>1. /\ d \in Call /\ d.pc = "pick" /\ d.ids = c.ids /\ d.copy = c.copy
      /\ calls' \subseteq calls \cup {d}
  BY <1>0 DEF Call, Pcs, FreedTier, Goes, Ends
<1>2. CallRight(d)'
  <2> HIDE DEF d
  <2> QED BY <1>0, <1>1 DEF CallRight, Exists
<1> QED
  <2> HIDE DEF d
  <2> QED BY <1>0, <1>1, <1>2, RowsStay DEF history, LineInv, WTypeOK

\* The first in line has nobody waiting before it.
LEMMA FirstInTurn ==
  ASSUME LineInv, NEW i \in FirstInLine
  PROVE  i \in Entries /\ entry[i].status = "WAITING" /\ InTurn(i)
<1>1. i \in Entries /\ entry[i].status = "WAITING"
  BY DEF FirstInLine, Waiting
<1>2. ASSUME NEW k \in ahead[i], entry[k].status = "WAITING" PROVE FALSE
  <2>1. k \in Waiting BY <1>1, <1>2 DEF Waiting, LineInv, WTypeOK
  <2>2. k \notin closed BY <1>1, <2>1 DEF LineInv, EntryRight, Waiting
  <2>3. entry[k].position < entry[i].position BY <1>1, <1>2, <2>2 DEF LineInv, EntryRight
  <2>4. entry[i].position \in Nat /\ entry[k].position \in Nat
    BY <1>1, <2>1 DEF LineInv, WTypeOK, Row, Waiting
  <2> QED BY <2>1, <2>3, <2>4 DEF FirstInLine
<1> QED BY <1>1, <1>2 DEF InTurn

LEMMA ContendedGrows ==
  ASSUME LineInv, NEW i \in Entries, Contended(i)
  PROVE  raced \subseteq raced' /\ raced' \subseteq Entries
BY DEF Contended, LineInv, WTypeOK

LEMMA FreedPickKeeps ==
  ASSUME LineInv, NEW c \in calls, FreedPick(c)
  PROVE  LineInv'
<1>0. /\ c \in Call /\ CallRight(c) /\ c.ids \in SUBSET Entries
      /\ UNCHANGED <<entry, free, lapsed, made, ahead, closed, bought, lost, begun>>
  BY DEF LineInv, WTypeOK, Call, FreedPick
<1>1. CASE Waiting = {}
  BY <1>0, <1>1, RowsStay DEF FreedPick, Ends, LineInv, WTypeOK
<1>2. CASE Waiting # {}
  <2>1. PICK i \in FirstInLine : Goes(c, Saving(c, i, "NOTIFIED")) /\ Contended(i)
    BY <1>2 DEF FreedPick
  <2>2. i \in Entries /\ entry[i].status = "WAITING" /\ InTurn(i) BY FirstInTurn
  <2>3. PICK d \in Call :
          /\ d = Saving(c, i, "NOTIFIED")
          /\ d.op = c.op /\ d.pc = "save" /\ d.id = i /\ d.ids = c.ids
          /\ d.copy.status = "NOTIFIED"
          /\ d.copy.email = entry[i].email /\ d.copy.position = entry[i].position
    <3>1. "NOTIFIED" \in WaitlistStatus BY DEF WaitlistStatus, Open
    <3> QED BY <1>0, <2>2, <3>1, SavingRight
  <2>4. calls' \subseteq calls \cup {d} BY <2>1, <2>3 DEF Goes
  <2>5. CallRight(d)' BY <1>0, <2>2, <2>3 DEF CallRight, Exists, InTurn
  <2> QED BY <1>0, <2>1, <2>2, <2>3, <2>4, <2>5, ContendedGrows, RowsStay DEF LineInv, WTypeOK
<1> QED BY <1>1, <1>2

\* A call of the organizer that is about to save an entry.
LEMMA ByHandKeeps ==
  ASSUME LineInv, NEW s \in Slots, NEW i \in Entries, Exists(i),
         NEW op \in {"notify", "cancel"}, NEW st \in {"NOTIFIED", "CANCELLED"},
         Start(s, op, "save", i, {}, [entry[i] EXCEPT !.status = st]),
         raced \subseteq raced', raced' \subseteq Entries,
         UNCHANGED <<entry, free, lapsed, made, ahead, closed, bought, lost>>
  PROVE  LineInv'
<1>1. PICK copy \in Row : /\ copy = [entry[i] EXCEPT !.status = st] /\ copy.status = st
                          /\ copy.email = entry[i].email /\ copy.position = entry[i].position
  <2>1. [entry[i] EXCEPT !.status = st] \in Row
    BY DEF LineInv, WTypeOK, Row, WaitlistStatus, Open
  <2> QED BY <2>1 DEF LineInv, WTypeOK, Row
<1>2. Start(s, op, "save", i, {}, copy) BY <1>1
<1>3. /\ begun' \in 0..MaxCalls
      /\ \E d \in Call : /\ calls' = calls \cup {d}
                         /\ d.slot = s /\ d.op = op /\ d.pc = "save" /\ d.id = i
                         /\ d.ids = {} /\ d.copy = copy
  <2>1. op \in Ops /\ "save" \in Pcs /\ i \in Entries \cup {0} /\ {} \in SUBSET Entries
    BY DEF Ops, Pcs
  <2> QED BY <1>2, <2>1, Begins
<1>4. PICK d \in Call : /\ calls' = calls \cup {d} /\ d.op = op /\ d.pc = "save"
                        /\ d.id = i /\ d.ids = {} /\ d.copy = copy
  BY <1>3
<1>5. CallRight(d)' BY <1>1, <1>4 DEF CallRight, Exists
<1> QED BY <1>3, <1>4, <1>5, RowsStay DEF LineInv, WTypeOK

LEMMA NotifyKeeps ==
  ASSUME LineInv, NEW s \in Slots, NEW i \in Entries,
         NotifyEntryById(s, i) \/ CancelEntryById(s, i)
  PROVE  LineInv'
<1>1. Exists(i) BY DEF NotifyEntryById, CancelEntryById, MayNotify, Exists
<1>2. CASE NotifyEntryById(s, i)
  <2>1. raced \subseteq raced' /\ raced' \subseteq Entries
    BY <1>2, ContendedGrows DEF NotifyEntryById
  <2> QED BY <1>1, <1>2, <2>1, ByHandKeeps DEF NotifyEntryById
<1>3. CASE CancelEntryById(s, i)
  <2>1. raced' = raced /\ raced \subseteq Entries
    BY <1>3 DEF CancelEntryById, history, LineInv, WTypeOK
  <2> QED BY <1>1, <1>3, <2>1, ByHandKeeps DEF CancelEntryById, history
<1> QED BY <1>2, <1>3

LEMMA SavedRow ==
  ASSUME LineInv, NEW c \in calls, c.pc = "save"
  PROVE  /\ Saved(c) \in Row /\ Saved(c).status = c.copy.status
         /\ Saved(c).email = entry[c.id].email /\ Saved(c).position = entry[c.id].position
<1>1. c \in Call /\ CallRight(c) /\ c.copy \in Row /\ c.id \in Entries
  BY DEF LineInv, WTypeOK, Call, CallRight
<1>2. made[c.id] + 1 \in Nat BY <1>1 DEF LineInv, WTypeOK
<1> QED BY <1>1, <1>2 DEF Saved, Row, CallRight

LEMMA SaveKeeps ==
  ASSUME LineInv, NEW c \in calls, Save(c)
  PROVE  LineInv'
<1> DEFINE d == [c EXCEPT !.pc = "expire"]
<1>0. /\ c \in Call /\ CallRight(c) /\ c.pc = "save" /\ c.id \in Entries /\ Exists(c.id)
      /\ c.copy.status \notin {"NONE", "WAITING"}
      /\ UNCHANGED <<free, lapsed, ahead, bought, raced, lost, begun>>
  BY DEF LineInv, WTypeOK, Call, CallRight, Save
<1>1. /\ d \in Call /\ d.pc = "expire" /\ d.ids = c.ids /\ d.copy = c.copy
      /\ calls' \subseteq calls \/ (calls' \subseteq calls \cup {d} /\ c.copy.status = "EXPIRED")
  BY <1>0 DEF Call, Pcs, Save, Next, Goes, Ends
<1> HIDE DEF d
<1>2. CASE Clashes(c.id, c.copy)
  <2>1. UNCHANGED <<entry, made, closed>> BY <1>2 DEF Save
  <2>2. \A x \in calls' : x \in calls \/ (x \in Call /\ CallRight(x)')
    BY <1>0, <1>1, <2>1 DEF CallRight, Exists
  <2> QED BY <1>0, <2>1, <2>2, RowsStay DEF LineInv, WTypeOK
<1>3. CASE ~Clashes(c.id, c.copy)
  <2>1. /\ entry' = [entry EXCEPT ![c.id] = Saved(c)]
        /\ made' = [made EXCEPT ![c.id] = IF c.copy.status = "NOTIFIED" THEN @ + 1 ELSE @]
        /\ closed' = IF c.copy.status \in Open THEN closed ELSE closed \cup {c.id}
    BY <1>3 DEF Save
  <2>2. /\ Saved(c) \in Row /\ Saved(c).status = c.copy.status
        /\ Saved(c).email = entry[c.id].email /\ Saved(c).position = entry[c.id].position
    BY <1>0, SavedRow
  <2>3. /\ entry'[c.id] = Saved(c)
        /\ \A j \in Entries \ {c.id} : entry'[j] = entry[j] /\ made'[j] = made[j]
    BY <1>0, <2>1 DEF LineInv, WTypeOK
  <2>4. WTypeOK'
    <3>1. entry' \in [Entries -> Row] BY <1>0, <2>1, <2>2 DEF LineInv, WTypeOK
    <3>2. made' \in [Entries -> Nat] BY <1>0, <2>1 DEF LineInv, WTypeOK
    <3>3. calls' \subseteq Call BY <1>1 DEF LineInv, WTypeOK
    <3>4. closed' \subseteq Entries BY <1>0, <2>1 DEF LineInv, WTypeOK
    <3> QED BY <1>0, <3>1, <3>2, <3>3, <3>4 DEF LineInv, WTypeOK
  <2>5. \A j \in Entries :
          /\ entry'[j].position = entry[j].position /\ entry'[j].email = entry[j].email
          /\ Exists(j) => Exists(j)'
          /\ entry'[j].status = "WAITING" => entry[j].status = "WAITING"
    BY <1>0, <2>2, <2>3 DEF Exists
  <2>6. closed \subseteq closed' BY <2>1
  <2>7. OneOpenEntry'
    <3>1. c.copy.status \in Open =>
            \A j \in OpenEntries \ {c.id} : entry[j].email # entry[c.id].email
      BY <1>0, <1>3 DEF Clashes, CallRight
    <3>2. \A j \in OpenEntries' : j \in Entries /\ ((j = c.id /\ c.copy.status \in Open) \/ j \in OpenEntries \ {c.id})
      BY <2>2, <2>3 DEF OpenEntries, IsOpen
    <3>3. \A j, k \in OpenEntries : entry[j].email = entry[k].email => j = k
      BY DEF LineInv, OneOpenEntry
    <3> QED BY <1>0, <2>5, <3>1, <3>2, <3>3 DEF OneOpenEntry
  <2>8. ASSUME NEW j \in Entries PROVE EntryRight(j)'
    <3>1. EntryRight(j) /\ ahead[j] \subseteq Entries BY DEF LineInv, WTypeOK
    <3>2. (\A k \in ahead[j] : Exists(k)') /\ (\A k \in ahead[j] \ closed' : entry'[k].position < entry'[j].position)
      BY <2>5, <2>6, <3>1 DEF EntryRight
    <3>3. CASE j # c.id
      BY <1>0, <2>1, <2>3, <3>1, <3>2, <3>3 DEF EntryRight, Exists, IsOpen
    <3>4. CASE j = c.id
      BY <1>0, <2>1, <2>2, <2>3, <3>1, <3>2, <3>4 DEF EntryRight, Exists, IsOpen, Open, CallRight
    <3> QED BY <3>3, <3>4
  <2>9. ASSUME NEW x \in calls PROVE CallRight(x)'
    <3>1. CallRight(x) /\ x.ids \subseteq Entries BY DEF LineInv, WTypeOK, Call
    <3>2. ASSUME x.pc = "save" PROVE InTurn(x.id) => InTurn(x.id)'
      <4>1. x.id \in Entries /\ ahead[x.id] \subseteq Entries
        BY <3>1, <3>2 DEF CallRight, LineInv, WTypeOK
      <4> QED BY <1>0, <2>5, <4>1 DEF InTurn
    <3> QED BY <1>0, <2>5, <2>6, <3>1, <3>2 DEF CallRight
  <2>10. ASSUME c.copy.status = "EXPIRED" PROVE CallRight(d)'
    <3>1. CallRight(c)' BY <2>9
    <3> QED BY <1>0, <1>1, <2>10, <3>1 DEF CallRight
  <2> QED BY <1>1, <2>4, <2>7, <2>8, <2>9, <2>10 DEF LineInv
<1> QED BY <1>2, <1>3

LEMMA VerifyKeeps ==
  ASSUME LineInv, NEW s \in Slots, NEW i \in Entries, NEW k \in 1..made[i],
         VerifyPurchaseToken(s, i, k)
  PROVE  LineInv'
<1>0. UNCHANGED <<entry, free, lapsed, history>> BY DEF VerifyPurchaseToken
<1>1. Exists(i) BY DEF VerifyPurchaseToken, Honours, Stale, Exists
<1>2. PICK pc \in Pcs, e \in Entries \cup {0}, ids \in SUBSET Entries :
        /\ Start(s, "verify", pc, e, ids, NoEntry)
        /\ \/ pc = "buy" /\ e = i /\ ids = {}
           \/ pc = "expire" /\ e = 0 /\ ids = {i}
  <2>1. "buy" \in Pcs /\ "expire" \in Pcs BY DEF Pcs
  <2> QED BY <2>1 DEF VerifyPurchaseToken
<1>3. /\ begun' \in 0..MaxCalls
      /\ \E d \in Call : /\ calls' = calls \cup {d}
                         /\ d.slot = s /\ d.op = "verify" /\ d.pc = pc /\ d.id = e
                         /\ d.ids = ids /\ d.copy = NoEntry
  <2>1. "verify" \in Ops BY DEF Ops
  <2>2. NoEntry \in Row BY NoEntryTyped
  <2>3. Start(s, "verify", pc, e, ids, NoEntry) BY <1>2
  <2> QED BY <2>1, <2>2, <2>3, Begins
<1>4. PICK d \in Call : /\ calls' = calls \cup {d} /\ d.pc = pc /\ d.id = e
                        /\ d.ids = ids /\ d.copy = NoEntry
  BY <1>3
<1>5. CallRight(d)' BY <1>0, <1>1, <1>2, <1>4, NoEntryTyped DEF CallRight, Exists
<1> QED BY <1>0, <1>3, <1>4, <1>5, RowsStay DEF history, LineInv, WTypeOK

LEMMA BuyKeeps ==
  ASSUME LineInv, NEW c \in calls, Buy(c)
  PROVE  LineInv'
<1> DEFINE d == [c EXCEPT !.pc = "mark"]
<1>0. /\ c \in Call /\ CallRight(c) /\ c.pc = "buy" /\ c.id \in Entries
      /\ UNCHANGED <<entry, lapsed, made, ahead, closed, raced, lost, begun>>
  BY DEF LineInv, WTypeOK, Call, CallRight, Buy
<1>1. /\ d \in Call /\ d.pc = "mark" /\ d.ids = c.ids /\ d.copy = c.copy /\ d.id = c.id
      /\ bought \subseteq bought' /\ bought' \subseteq Entries
      /\ calls' \subseteq calls \/ (calls' \subseteq calls \cup {d} /\ c.id \in bought')
  BY <1>0 DEF Call, Pcs, Buy, Goes, Ends, LineInv, WTypeOK
<1>2. free' \in 0..Capacity BY WaitlistAssumption DEF Buy, LineInv, WTypeOK
<1>3. c.id \in bought' => CallRight(d)'
  <2> HIDE DEF d
  <2> QED BY <1>0, <1>1 DEF CallRight, Exists
<1> QED
  <2> HIDE DEF d
  <2> QED BY <1>0, <1>1, <1>2, <1>3, RowsStay DEF LineInv, WTypeOK

LEMMA MarkPurchasedKeeps ==
  ASSUME LineInv, NEW c \in calls, MarkPurchased(c)
  PROVE  LineInv'
<1>0. /\ c \in Call /\ CallRight(c) /\ c.pc = "mark" /\ c.id \in Entries
      /\ UNCHANGED <<entry, free, lapsed, history, begun>>
  BY DEF LineInv, WTypeOK, Call, CallRight, MarkPurchased
<1>1. PICK d \in Call :
        /\ d = Saving(c, c.id, "PURCHASED")
        /\ d.op = c.op /\ d.pc = "save" /\ d.id = c.id /\ d.ids = c.ids
        /\ d.copy.status = "PURCHASED"
        /\ d.copy.email = entry[c.id].email /\ d.copy.position = entry[c.id].position
  <2>1. "PURCHASED" \in WaitlistStatus BY DEF WaitlistStatus
  <2> QED BY <1>0, <2>1, SavingRight
<1>2. CallRight(d)' BY <1>0, <1>1 DEF CallRight, Exists, history
<1>3. calls' \subseteq calls \cup {d} BY <1>1 DEF MarkPurchased, Goes, Ends
<1> QED BY <1>0, <1>1, <1>2, <1>3, RowsStay DEF history, LineInv, WTypeOK

LEMMA OthersKeep ==
  ASSUME LineInv, (\E i \in Entries : Lapse(i)) \/ Sell \/ \E s \in Slots : Crash(s)
  PROVE  LineInv'
<1>1. ASSUME NEW i \in Entries, Lapse(i) PROVE LineInv'
  BY <1>1, RowsStay DEF Lapse, history, LineInv, WTypeOK
<1>2. ASSUME Sell PROVE LineInv'
  <2>1. free' \in 0..Capacity BY <1>2, WaitlistAssumption DEF Sell, LineInv, WTypeOK
  <2> QED BY <1>2, <2>1, RowsStay DEF Sell, history, LineInv, WTypeOK
<1>3. ASSUME NEW s \in Slots, Crash(s) PROVE LineInv'
  <2>1. PICK c \in calls : Ends(c) /\ lost' = (lost \/ c.op = "freed") BY <1>3 DEF Crash
  <2>2. lost' \in BOOLEAN BY <2>1
  <2> QED BY <1>3, <2>1, <2>2, RowsStay DEF Crash, Ends, LineInv, WTypeOK
<1> QED BY <1>1, <1>2, <1>3

LEMMA LineNext == LineInv /\ [WNext]_wvars => LineInv'
<1> SUFFICES ASSUME LineInv, [WNext]_wvars PROVE LineInv' OBVIOUS
<1>1. CASE UNCHANGED wvars
  BY <1>1, RowsStay DEF wvars, history, LineInv, WTypeOK
<1>2. ASSUME NEW c \in calls, Step(c) PROVE LineInv'
  BY <1>2, JoinMaxKeeps, JoinInsertKeeps, ExpireKeeps, FreedTierKeeps, FreedPickKeeps,
     SaveKeeps, BuyKeeps, MarkPurchasedKeeps DEF Step
<1> QED
  BY <1>1, <1>2, JoinKeeps, RefundKeeps, NotifyKeeps, VerifyKeeps, OthersKeep DEF WNext

\* Types: every row, call and counter stays in its set.
THEOREM TypeCorrect == WSpec => []WTypeOK
<1>1. LineInv => WTypeOK BY DEF LineInv
<1> QED BY <1>1, LineInit, LineNext, PTL DEF WSpec

\* join, notification and the stale saves of WaitlistService never give an
\* address two open entries.
THEOREM OneOpenEntryHeld == WSpec => []OneOpenEntry
<1>1. LineInv => OneOpenEntry BY DEF LineInv
<1> QED BY <1>1, LineInit, LineNext, PTL DEF WSpec

\* join puts an entry behind everybody who was in line when it began.
THEOREM QueueOrdered == WSpec => []QueueOrder
<1>1. LineInv => QueueOrder BY DEF LineInv, EntryRight, QueueOrder
<1> QED BY <1>1, LineInit, LineNext, PTL DEF WSpec

\* Only a checkout that got a seat makes an entry PURCHASED.
THEOREM PurchasedByOffer == WSpec => []PurchasedOnOffer
<1>1. LineInv => PurchasedOnOffer BY DEF LineInv, EntryRight, PurchasedOnOffer
<1> QED BY <1>1, LineInit, LineNext, PTL DEF WSpec

\* Refunds serve the line in order: FreedPick takes an entry nobody before which
\* waits, and no step until its save makes one of those wait again.
THEOREM ServedInOrder == WSpec => FirstComeFirstServed
<1>1. LineInv /\ [WNext]_wvars =>
        [\A c \in calls \ calls' :
           c.op = "freed" /\ c.copy.status = "NOTIFIED" /\ made' # made =>
             \A i \in ahead[c.id] : entry[i].status # "WAITING"]_wvars
  <2> SUFFICES ASSUME LineInv, [WNext]_wvars, NEW c \in calls \ calls',
                      c.op = "freed", c.copy.status = "NOTIFIED", made' # made
               PROVE  \A i \in ahead[c.id] : entry[i].status # "WAITING"
    OBVIOUS
  <2>1. PICK d \in calls : Save(d)
    BY DEF WNext, Step, wvars, history, Join, JoinMax, JoinInsert, Refund, Expire, FreedTier,
       FreedPick, NotifyEntryById, CancelEntryById, Lapse, VerifyPurchaseToken, Buy,
       MarkPurchased, Sell, Crash
  <2>2. c = d BY <2>1 DEF Save, Next, Goes, Ends
  <2>3. CallRight(c) BY DEF LineInv
  <2> QED BY <2>1, <2>2, <2>3 DEF Save, CallRight, InTurn
<1> QED BY <1>1, LineInit, LineNext, PTL DEF WSpec, FirstComeFirstServed

-----------------------------------------------------------------------------
(* Two offers to an entry *)

Offering(i) == {c \in calls : c.id = i /\ c.copy.status = "NOTIFIED"}

\* Unless two calls raced for it, an entry has at most one offer, made or about
\* to be saved.
OnceOffered(i) ==
  i \notin raced =>
    /\ made[i] \in {0, 1}
    /\ made[i] = 1 => Offering(i) = {}
    /\ \A c, d \in Offering(i) : c = d

RaceInv == \A i \in Entries : OnceOffered(i)

\* What is common to the steps that neither make nor prepare an offer.
LEMMA NoOffer ==
  ASSUME RaceInv, UNCHANGED <<made, raced>>,
         \A x \in calls' : x \in calls \/ x.copy.status # "NOTIFIED"
  PROVE  RaceInv'
BY DEF RaceInv, OnceOffered, Offering

\* What is common to the steps that prepare one.
LEMMA OfferPrepared ==
  ASSUME LineInv, RaceInv, NEW i \in Entries, entry[i].status = "WAITING", Contended(i),
         UNCHANGED made, NEW d, d.id = i, calls' \subseteq calls \cup {d}
  PROVE  RaceInv'
<1>1. /\ made[i] = 0 /\ raced \subseteq raced'
      /\ i \notin raced' => Offering(i) = {}
  BY DEF LineInv, EntryRight, Contended, Offering
<1>2. ASSUME NEW j \in Entries PROVE OnceOffered(j)'
  BY <1>1 DEF RaceInv, OnceOffered, Offering
<1> QED BY <1>2 DEF RaceInv

LEMMA RaceNext == LineInv /\ RaceInv /\ [WNext]_wvars => RaceInv'
<1> SUFFICES ASSUME LineInv, RaceInv, [WNext]_wvars PROVE RaceInv' OBVIOUS
<1>0. \A c \in calls : c \in Call /\ c.copy \in Row /\ CallRight(c)
  BY DEF LineInv, WTypeOK, Call
<1>1. CASE UNCHANGED wvars BY <1>1, NoOffer DEF wvars, history
<1>2. ASSUME NEW s \in Slots, NEW m \in Emails, Join(s, m) PROVE RaceInv'
  <2>1. [NoEntry EXCEPT !.status = "WAITING", !.email = m].status # "NOTIFIED"
    BY NoEntryTyped DEF Row
  <2>2. PICK copy : /\ copy.status # "NOTIFIED"
                    /\ Start(s, "join", "max", 0, OpenEntries, copy)
    BY <1>2, <2>1 DEF Join
  <2>3. \A x \in calls' : x \in calls \/ x.copy = copy BY <2>2 DEF Start
  <2> QED BY <1>2, <2>2, <2>3, NoOffer DEF Join, history
<1>3. ASSUME NEW s \in Slots, Refund(s) PROVE RaceInv'
  BY <1>3, NoEntryTyped, NoOffer DEF Refund, Start, history
<1>4. ASSUME NEW s \in Slots, NEW i \in Entries, NotifyEntryById(s, i) PROVE RaceInv'
  <2> DEFINE d == [slot |-> s, op |-> "notify", pc |-> "save", id |-> i, ids |-> {},
                   copy |-> [entry[i] EXCEPT !.status = "NOTIFIED"]]
  <2>1. /\ entry[i].status = "WAITING" /\ Contended(i) /\ UNCHANGED made
        /\ calls' = calls \cup {d}
    BY <1>4 DEF NotifyEntryById, MayNotify, Start
  <2> QED BY <2>1, OfferPrepared
<1>5. ASSUME NEW s \in Slots, NEW i \in Entries, CancelEntryById(s, i) PROVE RaceInv'
  <2>1. [entry[i] EXCEPT !.status = "CANCELLED"].status # "NOTIFIED"
    BY DEF LineInv, WTypeOK, Row
  <2>2. PICK copy : copy.status # "NOTIFIED" /\ Start(s, "cancel", "save", i, {}, copy)
    BY <1>5, <2>1 DEF CancelEntryById
  <2>3. \A x \in calls' : x \in calls \/ x.copy = copy BY <2>2 DEF Start
  <2> QED BY <1>5, <2>2, <2>3, NoOffer DEF CancelEntryById, history
<1>6. ASSUME NEW s \in Slots, NEW i \in Entries, NEW k \in 1..made[i],
             VerifyPurchaseToken(s, i, k) PROVE RaceInv'
  BY <1>6, NoEntryTyped, NoOffer DEF VerifyPurchaseToken, Start, history
<1>7. ASSUME NEW c \in calls, JoinMax(c) \/ JoinInsert(c) PROVE RaceInv'
  <2>1. c.copy.status = "WAITING" BY <1>0, <1>7 DEF JoinMax, JoinInsert, CallRight
  <2>2. \A p : [c EXCEPT !.pc = "insert", !.copy.position = p].copy.status = "WAITING"
    BY <1>0, <2>1 DEF Call, Row
  <2>3. \A x \in calls' : x \in calls \/ x.copy.status = "WAITING"
    BY <1>7, <2>2 DEF JoinMax, JoinInsert, Goes, Ends
  <2> QED BY <1>7, <2>3, NoOffer DEF JoinMax, JoinInsert, history
<1>8. ASSUME NEW c \in calls, Expire(c) PROVE RaceInv'
  <2>0. /\ c.pc = "expire" /\ c.copy.status # "NOTIFIED" /\ c.ids \subseteq Entries
    BY <1>0, <1>8 DEF Expire, CallRight, Call
  <2>1. PICK i \in c.ids :
       LET rest == [c EXCEPT !.ids = @ \ {i}] IN
       IF entry[i].status = "NOTIFIED" THEN Goes(c, Saving(rest, i, "EXPIRED"))
       ELSE IF c.op = "freed" THEN Goes(c, rest)
       ELSE Ends(c)
    BY <1>8 DEF Expire
  <2>2. PICK rest \in Call : rest = [c EXCEPT !.ids = @ \ {i}] /\ rest.copy = c.copy
    <3>1. [c EXCEPT !.ids = @ \ {i}] \in Call BY <1>0, <2>0 DEF Call
    <3>2. [c EXCEPT !.ids = @ \ {i}].copy = c.copy BY <1>0 DEF Call
    <3> QED BY <3>1, <3>2
  <2>3. PICK d \in Call : d = Saving(rest, i, "EXPIRED") /\ d.copy.status = "EXPIRED"
    <3>1. "EXPIRED" \in WaitlistStatus /\ i \in Entries BY <2>0 DEF WaitlistStatus
    <3> QED BY <3>1, SavingRight
  <2>4. calls' \subseteq calls \cup {rest, d} BY <2>1, <2>2, <2>3 DEF Goes, Ends
  <2> QED BY <1>8, <2>0, <2>2, <2>3, <2>4, NoOffer DEF Expire, history
<1>9. ASSUME NEW c \in calls, FreedTier(c) \/ Buy(c) PROVE RaceInv'
  <2>1. c.copy.status # "NOTIFIED" BY <1>0, <1>9 DEF FreedTier, Buy, CallRight
  <2>2. \A pc : [c EXCEPT !.pc = pc].copy = c.copy BY <1>0 DEF Call
  <2> QED BY <1>9, <2>1, <2>2, NoOffer DEF FreedTier, Buy, Goes, Ends, history
<1>10. ASSUME NEW c \in calls, FreedPick(c) PROVE RaceInv'
  <2>1. CASE Waiting = {} BY <1>10, <2>1, NoOffer DEF FreedPick, Ends
  <2>2. CASE Waiting # {}
    <3>1. PICK i \in FirstInLine : Goes(c, Saving(c, i, "NOTIFIED")) /\ Contended(i)
      BY <1>10, <2>2 DEF FreedPick
    <3>2. i \in Entries /\ entry[i].status = "WAITING" BY FirstInTurn
    <3>3. PICK d \in Call : d = Saving(c, i, "NOTIFIED") /\ d.id = i
      <4>1. "NOTIFIED" \in WaitlistStatus BY DEF WaitlistStatus, Open
      <4> QED BY <1>0, <3>2, <4>1, SavingRight
    <3>4. calls' \subseteq calls \cup {d} BY <3>1, <3>3 DEF Goes
    <3> QED BY <1>10, <3>1, <3>2, <3>3, <3>4, OfferPrepared DEF FreedPick
  <2> QED BY <2>1, <2>2
<1>11. ASSUME NEW c \in calls, Save(c) PROVE RaceInv'
  <2>0. CallRight(c) /\ c.pc = "save" /\ c.id \in Entries BY <1>0, <1>11 DEF Save, CallRight
  <2>1. CASE c.copy.status # "NOTIFIED"
    <3>1. UNCHANGED <<made, raced>>
      BY <1>11, <2>0, <2>1 DEF Save, LineInv, WTypeOK
    <3>2. [c EXCEPT !.pc = "expire"].copy = c.copy BY <1>0 DEF Call
    <3> QED BY <1>11, <2>1, <3>1, <3>2, NoOffer DEF Save, Next, Goes, Ends
  <2>2. CASE c.copy.status = "NOTIFIED"
    <3>1. /\ calls' = calls \ {c} /\ UNCHANGED raced /\ c \in Offering(c.id)
          /\ \A j \in Entries : made'[j] = made[j] \/ (j = c.id /\ made'[j] = made[j] + 1)
      BY <1>11, <2>0, <2>2 DEF Save, Next, Ends, Offering, LineInv, WTypeOK
    <3>2. ASSUME NEW j \in Entries PROVE OnceOffered(j)'
      <4>1. OnceOffered(j) BY DEF RaceInv
      <4>2. CASE j = c.id
        BY <3>1, <4>1, <4>2 DEF OnceOffered, Offering
      <4>3. CASE j # c.id
        BY <3>1, <4>1, <4>3 DEF OnceOffered, Offering
      <4> QED BY <4>2, <4>3
    <3> QED BY <3>2 DEF RaceInv
  <2> QED BY <2>1, <2>2
<1>12. ASSUME NEW c \in calls, MarkPurchased(c) PROVE RaceInv'
  <2>1. c.id \in Entries /\ "PURCHASED" \in WaitlistStatus
    BY <1>0, <1>12 DEF MarkPurchased, CallRight, WaitlistStatus
  <2>2. PICK d \in Call : d = Saving(c, c.id, "PURCHASED") /\ d.copy.status = "PURCHASED"
    BY <1>0, <2>1, SavingRight
  <2> QED BY <1>12, <2>2, NoOffer DEF MarkPurchased, Goes, Ends, history
<1>13. ASSUME (\E i \in Entries : Lapse(i)) \/ Sell \/ \E s \in Slots : Crash(s) PROVE RaceInv'
  BY <1>13, NoOffer DEF Lapse, Sell, Crash, Ends, history
<1> QED
  BY <1>1, <1>2, <1>3, <1>4, <1>5, <1>6, <1>7, <1>8, <1>9, <1>10, <1>11, <1>12, <1>13
     DEF WNext, Step

\* notifyEntryById and onInventoryFreed make an entry a second offer only if both
\* were about to save one.
THEOREM SecondNeedsRace == WSpec => []SecondOfferRaced
<1>1. WInit => RaceInv BY DEF WInit, RaceInv, OnceOffered, Offering
<1>2. RaceInv => SecondOfferRaced BY DEF RaceInv, OnceOffered, SecondOfferRaced
<1> QED BY <1>1, <1>2, LineInit, LineNext, RaceNext, PTL DEF WSpec

=============================================================================

------------------------------ MODULE Waitlist ------------------------------
(***************************************************************************)
(* The waitlist of a tier on sale.  Who joins while it is sold out gets a    *)
(* position; a refund offers the seat it frees to the first in line, by a    *)
(* mail whose token allows a checkout until the offer lapses.  Nothing locks *)
(* an entry: a call reads one, and later saves its copy over the row.  One   *)
(* index of the database refuses a second open entry of an address.          *)
(***************************************************************************)
EXTENDS Integers, FiniteSets

CONSTANTS
  Emails,
  MaxEntries,  \* bound: entries, numbered as they are created
  Capacity,    \* seats of the tier
  Slots,       \* bound: calls that run at once
  MaxCalls     \* bound: calls

Entries == 1..MaxEntries

ASSUME WaitlistAssumption ==
  /\ Emails # {}
  /\ MaxEntries \in Nat
  /\ Capacity \in Nat
  /\ MaxCalls \in Nat

Open == {"WAITING", "NOTIFIED"}
WaitlistStatus == Open \cup {"PURCHASED", "EXPIRED", "CANCELLED"}
\* offer: the number of the entry's last offer, the moment it expires in the
\* code.  "NONE": there is no such row.
Row == [status : WaitlistStatus \cup {"NONE"}, email : Emails, position : Nat, offer : Nat]
Ops == {"join", "freed", "verify", "notify", "cancel"}
Pcs == {"max", "insert", "expire", "tier", "pick", "buy", "mark", "save"}
\* A call in flight: the entry it works on and the copy of its row; ids are the
\* entries it has yet to expire, or those ahead of the one it inserts.
Call == [slot : Slots, op : Ops, pc : Pcs, id : Entries \cup {0}, ids : SUBSET Entries, copy : Row]

VARIABLES
  entry,   \* [Entries -> Row]
  calls,
  free,    \* seats that are not sold
  made,    \* [Entries -> Nat], offers made to an entry
  lapsed,  \* [Entries -> Nat], of these, how many have expired
  ahead,   \* [Entries -> SUBSET Entries], open entries when its join began
  closed,  \* entries that have once ceased to be open
  bought,  \* entries with whose token a checkout got a seat
  raced,   \* entries that two calls were about to make an offer to
  lost,    \* did a crash cut a refund off from the waitlist?
  begun    \* calls so far

history == <<made, ahead, closed, bought, raced, lost>>
wvars == <<entry, calls, free, lapsed, history, begun>>

Exists(i) == entry[i].status # "NONE"
IsOpen(i) == entry[i].status \in Open
OpenEntries == {i \in Entries : IsOpen(i)}
Waiting == {i \in Entries : entry[i].status = "WAITING"}
Stale == {i \in Entries : entry[i].status = "NOTIFIED" /\ entry[i].offer <= lapsed[i]}
Unused(s) == ~\E c \in calls : c.slot = s

NoEntry == [status |-> "NONE", email |-> CHOOSE m \in Emails : TRUE, position |-> 0, offer |-> 0]

WInit ==
  /\ entry = [i \in Entries |-> NoEntry]
  /\ calls = {}
  /\ free = 0
  /\ made = [i \in Entries |-> 0]
  /\ lapsed = [i \in Entries |-> 0]
  /\ ahead = [i \in Entries |-> {}]
  /\ closed = {}
  /\ bought = {}
  /\ raced = {}
  /\ lost = FALSE
  /\ begun = 0

Start(s, op, pc, i, ids, copy) ==
  /\ Unused(s)
  /\ begun < MaxCalls
  /\ begun' = begun + 1
  /\ calls' = calls \cup
       {[slot |-> s, op |-> op, pc |-> pc, id |-> i, ids |-> ids, copy |-> copy]}

Goes(c, d) == calls' = (calls \ {c}) \cup {d}
Ends(c) == calls' = calls \ {c}

-----------------------------------------------------------------------------
(* join                                                                     *)

Join(s, m) ==
  /\ free = 0
  /\ ~\E i \in OpenEntries : entry[i].email = m
  /\ Start(s, "join", "max", 0, OpenEntries, [NoEntry EXCEPT !.status = "WAITING", !.email = m])
  /\ UNCHANGED <<entry, free, lapsed, history>>

\* Mutant: the position is one more than the number of open entries.
NextPositionCounted == {Cardinality(OpenEntries) + 1}

\* One more than the largest position of an open entry.
NextPosition ==
  {p \in 1..(MaxEntries + 1) :
     /\ \A i \in OpenEntries : entry[i].position < p
     /\ p = 1 \/ \E i \in OpenEntries : entry[i].position = p - 1}

JoinMax(c) ==
  /\ c.pc = "max"
  /\ \E p \in NextPosition : Goes(c, [c EXCEPT !.pc = "insert", !.copy.position = p])
  /\ UNCHANGED <<entry, free, lapsed, history, begun>>

\* The unique index over the addresses of open entries.
Clashes(i, copy) ==
  /\ copy.status \in Open
  /\ \E j \in OpenEntries \ {i} : entry[j].email = copy.email

\* With MaxEntries rows there is no insert.
JoinInsert(c) ==
  /\ c.pc = "insert"
  /\ Ends(c)
  /\ IF Clashes(0, c.copy)
     THEN UNCHANGED <<entry, ahead>>
     ELSE \E i \in Entries :
            /\ ~Exists(i) /\ \A j \in 1..(i - 1) : Exists(j)
            /\ entry' = [entry EXCEPT ![i] = c.copy]
            /\ ahead' = [ahead EXCEPT ![i] = c.ids]
  /\ UNCHANGED <<free, lapsed, made, closed, bought, raced, lost, begun>>

-----------------------------------------------------------------------------
(* A refund gives a seat back, and onInventoryFreed offers it               *)

Refund(s) ==
  /\ free < Capacity
  /\ free' = free + 1
  /\ Start(s, "freed", "expire", 0, Stale, NoEntry)
  /\ UNCHANGED <<entry, lapsed, history>>

\* About to save a copy of i in another status.
Saving(c, i, status) == [c EXCEPT !.pc = "save", !.id = i, !.copy = [entry[i] EXCEPT !.status = status]]

\* markExpired reads the entry again.
Expire(c) ==
  /\ c.pc = "expire"
  /\ \E i \in c.ids :
       LET rest == [c EXCEPT !.ids = @ \ {i}] IN
       IF entry[i].status = "NOTIFIED" THEN Goes(c, Saving(rest, i, "EXPIRED"))
       ELSE IF c.op = "freed" THEN Goes(c, rest)
       ELSE Ends(c)
  /\ UNCHANGED <<entry, free, lapsed, history, begun>>

\* Mutant: the last free seat is kept.
SeatsRemainTwo == free > 1

SeatsRemain == free > 0

FreedTier(c) ==
  /\ c.op = "freed" /\ c.pc = "expire" /\ c.ids = {}
  /\ IF SeatsRemain THEN Goes(c, [c EXCEPT !.pc = "pick"]) ELSE Ends(c)
  /\ UNCHANGED <<entry, free, lapsed, history, begun>>

\* Mutant: whoever waits.
FirstInLineAny == Waiting

\* By position, then by the time of the row.
FirstInLine ==
  {i \in Waiting : \A j \in Waiting :
     \/ entry[i].position < entry[j].position
     \/ entry[i].position = entry[j].position /\ i <= j}

\* Two calls are about to make an offer to i.
Contended(i) == IF \E d \in calls : d.id = i /\ d.copy.status = "NOTIFIED"
                THEN raced' = raced \cup {i} ELSE raced' = raced

FreedPick(c) ==
  /\ c.pc = "pick"
  /\ IF Waiting = {}
     THEN Ends(c) /\ UNCHANGED raced
     ELSE \E i \in FirstInLine : Goes(c, Saving(c, i, "NOTIFIED")) /\ Contended(i)
  /\ UNCHANGED <<entry, free, lapsed, made, ahead, closed, bought, lost, begun>>

-----------------------------------------------------------------------------
(* The organizer offers a seat by hand, or cancels an entry                 *)

\* Mutant: an entry of any status can be notified.
MayNotifyAll(i) == Exists(i)

MayNotify(i) == entry[i].status = "WAITING"

NotifyEntryById(s, i) ==
  /\ MayNotify(i)
  /\ Start(s, "notify", "save", i, {}, [entry[i] EXCEPT !.status = "NOTIFIED"])
  /\ Contended(i)
  /\ UNCHANGED <<entry, free, lapsed, made, ahead, closed, bought, lost>>

CancelEntryById(s, i) ==
  /\ entry[i].status \in {"WAITING", "NOTIFIED", "EXPIRED"}
  /\ Start(s, "cancel", "save", i, {}, [entry[i] EXCEPT !.status = "CANCELLED"])
  /\ UNCHANGED <<entry, free, lapsed, history>>

\* After its save, a refund looks for the next offer to expire or is done.
Next(c) ==
  IF c.op = "freed" /\ c.copy.status = "EXPIRED" THEN Goes(c, [c EXCEPT !.pc = "expire"])
  ELSE Ends(c)

\* An offer gets the moment it expires as it is saved.
Saved(c) ==
  IF c.copy.status = "NOTIFIED" THEN [c.copy EXCEPT !.offer = made[c.id] + 1] ELSE c.copy

Save(c) ==
  /\ c.pc = "save"
  /\ Next(c)
  /\ IF Clashes(c.id, c.copy)
     THEN UNCHANGED <<entry, made, closed>>
     ELSE /\ entry' = [entry EXCEPT ![c.id] = Saved(c)]
          /\ made' = [made EXCEPT ![c.id] = IF c.copy.status = "NOTIFIED" THEN @ + 1 ELSE @]
          /\ closed' = IF c.copy.status \in Open THEN closed ELSE closed \cup {c.id}
  /\ UNCHANGED <<free, lapsed, ahead, bought, raced, lost, begun>>

-----------------------------------------------------------------------------
(* Tokens, checkouts and the sale of the tier                               *)

\* Time passes: the oldest offer to i expires.
Lapse(i) ==
  /\ lapsed[i] < made[i]
  /\ lapsed' = [lapsed EXCEPT ![i] = @ + 1]
  /\ UNCHANGED <<entry, calls, free, history, begun>>

Honours(i, k) == entry[i].status = "NOTIFIED" /\ k = entry[i].offer /\ k > lapsed[i]

\* The token of the k-th offer; a checkout follows, or a lapsed offer is marked.
VerifyPurchaseToken(s, i, k) ==
  /\ \/ Honours(i, k) /\ Start(s, "verify", "buy", i, {}, NoEntry)
     \/ i \in Stale /\ Start(s, "verify", "expire", 0, {i}, NoEntry)
  /\ UNCHANGED <<entry, free, lapsed, history>>

\* The demo checkout sells the seat and marks the entry, a checkout by card
\* only sells; without a seat there is no checkout.
Buy(c) ==
  /\ c.pc = "buy"
  /\ \/ /\ free > 0
        /\ free' = free - 1
        /\ bought' = bought \cup {c.id}
        /\ Goes(c, [c EXCEPT !.pc = "mark"]) \/ Ends(c)
     \/ Ends(c) /\ UNCHANGED <<free, bought>>
  /\ UNCHANGED <<entry, lapsed, made, ahead, closed, raced, lost, begun>>

MarkPurchased(c) ==
  /\ c.pc = "mark"
  /\ IF entry[c.id].status = "NOTIFIED" THEN Goes(c, Saving(c, c.id, "PURCHASED")) ELSE Ends(c)
  /\ UNCHANGED <<entry, free, lapsed, history, begun>>

\* The tier is on sale to everybody meanwhile.
Sell ==
  /\ free > 0
  /\ free' = free - 1
  /\ UNCHANGED <<entry, calls, lapsed, history, begun>>

\* A process stops and a call is lost with it.
Crash(s) ==
  /\ \E c \in calls :
       /\ c.slot = s
       /\ Ends(c)
       /\ lost' = (lost \/ c.op = "freed")
  /\ UNCHANGED <<entry, free, lapsed, made, ahead, closed, bought, raced, begun>>

-----------------------------------------------------------------------------
Step(c) ==
  \/ JoinMax(c) \/ JoinInsert(c)
  \/ Expire(c) \/ FreedTier(c) \/ FreedPick(c)
  \/ Save(c) \/ Buy(c) \/ MarkPurchased(c)

WNext ==
  \/ \E s \in Slots :
       \/ \E m \in Emails : Join(s, m)
       \/ Refund(s) \/ Crash(s)
       \/ \E i \in Entries :
            \/ NotifyEntryById(s, i) \/ CancelEntryById(s, i)
            \/ \E k \in 1..made[i] : VerifyPurchaseToken(s, i, k)
  \/ \E c \in calls : Step(c)
  \/ \E i \in Entries : Lapse(i)
  \/ Sell

\* A call that runs goes on.
Proceeds(s) == \E c \in calls : c.slot = s /\ Step(c)

WSpec == WInit /\ [][WNext]_wvars /\ \A s \in Slots : WF_wvars(Proceeds(s))

-----------------------------------------------------------------------------
(* What the waitlist promises *)

WTypeOK ==
  /\ entry \in [Entries -> Row]
  /\ calls \subseteq Call
  /\ free \in 0..Capacity
  /\ made \in [Entries -> Nat]
  /\ lapsed \in [Entries -> Nat]
  /\ ahead \in [Entries -> SUBSET Entries]
  /\ closed \subseteq Entries
  /\ bought \subseteq Entries
  /\ raced \subseteq Entries
  /\ lost \in BOOLEAN
  /\ begun \in 0..MaxCalls

\* However sign-ups and stale saves overlap, an address has one open entry.
OneOpenEntry ==
  \A i, j \in OpenEntries : entry[i].email = entry[j].email => i = j

\* Who was in line when a join began, and has not left the line since, is
\* before it.
QueueOrder ==
  \A j \in Entries : \A i \in ahead[j] \ closed : entry[i].position < entry[j].position

\* A refund never makes its offer to an entry while one that was in line
\* before it is still waiting.
FirstComeFirstServed ==
  [][\A c \in calls \ calls' :
       c.op = "freed" /\ c.copy.status = "NOTIFIED" /\ made' # made =>
         \A i \in ahead[c.id] : entry[i].status # "WAITING"]_wvars

\* An entry gets a second offer only if two calls were about to make one.
SecondOfferRaced == \A i \in Entries : made[i] > 1 => i \in raced

\* An entry is PURCHASED only if a checkout with one of its tokens got a seat.
PurchasedOnOffer == \A i \in Entries : entry[i].status = "PURCHASED" => i \in bought

\* A refund passes its seat on: if people are waiting, one of them stops
\* waiting or the seat is sold, unless the process stops before.
SeatPassedOn ==
  \A S \in SUBSET Entries \ {{}} :
    (Waiting = S /\ \E c \in calls : c.op = "freed" /\ c.pc = "expire")
      ~> (Waiting # S \/ free = 0 \/ lost)

=============================================================================

-------------------------------- MODULE Sale --------------------------------
(***************************************************************************)
(* What a purchase is to its buyer and the organizer, with no webhooks,     *)
(* retries, mails or gateway: an order opens, is sold, and may be taken     *)
(* back; selling moves seats and credit together, and so does taking back.  *)
(* An order that was taken back may be sold again, and even twice: that     *)
(* moves seats and no money.  Checkout implements it.                       *)
(***************************************************************************)
EXTENDS Integers

CONSTANTS Orders, Tiers, Lines, Capacity, Price, Credit

VARIABLES
  phase,   \* [Orders -> {"none", "open", "closed", "sold", "refunded"}]
  seats,   \* [Tiers -> Nat], seats taken
  balance, \* [Orders -> Nat], what the organizer is owed for the order
  back     \* orders of which some of the price went back

svars == <<phase, seats, balance, back>>

Init ==
  /\ phase = [o \in Orders |-> "none"]
  /\ seats = [t \in Tiers |-> 0]
  /\ balance = [o \in Orders |-> 0]
  /\ back = {}

Open(o) ==
  /\ phase[o] = "none"
  /\ phase' = [phase EXCEPT ![o] = "open"]
  /\ UNCHANGED <<seats, balance, back>>

\* The gateway refused: the order is over and nothing was taken.
Close(o) ==
  /\ phase[o] = "open"
  /\ phase' = [phase EXCEPT ![o] = "closed"]
  /\ UNCHANGED <<seats, balance, back>>

HasSeats(o) ==
  \A t \in Tiers : Lines[o][t] > 0 => seats[t] + Lines[o][t] <= Capacity[t]

Sell(o) ==
  /\ phase[o] \in {"none", "open"}
  /\ HasSeats(o)
  /\ phase' = [phase EXCEPT ![o] = "sold"]
  /\ seats' = [t \in Tiers |-> seats[t] + Lines[o][t]]
  /\ balance' = [balance EXCEPT ![o] = Credit[o]]
  /\ UNCHANGED back

\* The success of a charge is reported again after some of it went back.
Resell(o) ==
  /\ phase[o] \in {"sold", "refunded"}
  /\ o \in back
  /\ HasSeats(o)
  /\ phase' = [phase EXCEPT ![o] = "sold"]
  /\ seats' = [t \in Tiers |-> seats[t] + Lines[o][t]]
  /\ UNCHANGED <<balance, back>>

\* The organizer's share of r cents of the price.
Share(o, r) ==
  IF r = Price[o] THEN Credit[o]
  ELSE (2 * Credit[o] * r + Price[o]) \div (2 * Price[o])

\* Some of the price, or all of it, goes back; so does the organizer's share,
\* unless a share has gone back already.
TakeBack(o) ==
  /\ phase[o] = "sold"
  /\ phase' = [phase EXCEPT ![o] = "refunded"]
  /\ seats' = [t \in Tiers |-> seats[t] - Lines[o][t]]
  /\ back' = back \cup {o}
  /\ \E r \in 1..Price[o] :
       balance' = IF balance[o] < Credit[o] THEN balance
                  ELSE [balance EXCEPT ![o] = Credit[o] - Share(o, r)]

Next == \E o \in Orders : Open(o) \/ Close(o) \/ Sell(o) \/ Resell(o) \/ TakeBack(o)

Spec == Init /\ [][Next]_svars
=============================================================================

------------------------------- MODULE MCMoney -------------------------------
(* Small instances of Money for TLC. *)
EXTENDS Money

\* Up to a shilling and a bit, amounts that are halves after rounding, and one
\* of which a ten-thousandth is more than a cent.
MCSubtotals == 0..40 \cup {99, 100, 101, 149, 150, 151, 20000}

MCAsked == 1..160

MCDeals ==
  {[kind |-> "NONE", n |-> 0]}
    \cup [kind : {"FIXED"}, n : {1, 10, 200}]
    \cup [kind : {"PERCENT"}, n : {1, 33, 50, 99, 100}]

MCRules == [bps : {0, 250, 3333, 10000}, fixed : {0, 7}, cap : {-1, 11}]

\* Whole percentages, and 33.335 with 66.66 or 66.675.
MCSplits ==
  {<<a, Whole - a>> : a \in {0, 200, 6600, 10000, Whole}}
    \cup {<<6600, 6600, 6800>>, <<3400, 13400, 3200>>, <<5000, 5000, 5000, 5000>>,
          <<3400, 3400, 3400, 3400, 3400, 3000>>, <<6667, 13332>>, <<6667, 13335>>}
=============================================================================

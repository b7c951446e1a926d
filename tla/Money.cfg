\* Subtotals of 0 to 40 cents, around 100 and 150, and of 200 shillings, nine
\* coupons, 16 fees, eleven plans, refunds of up to 160 cents and of all.
CONSTANTS
  Subtotals <- MCSubtotals
  Deals <- MCDeals
  Rules <- MCRules
  Splits <- MCSplits
  Fine = 2
  Asked <- MCAsked
SPECIFICATION MSpec
INVARIANT MoreIsNotLess
INVARIANT RefundIsShared
INVARIANT InstalmentsArePrice
INVARIANT TransferIsNear
CHECK_DEADLOCK FALSE

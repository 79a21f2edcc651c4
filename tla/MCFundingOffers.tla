-------------------------- MODULE MCFundingOffers --------------------------
EXTENDS FundingOffers

CONSTANTS full, readOnly, j1, j2

\* Amounts in units of what an offer is at least.
Cautious ==
  [DefaultStrategy EXCEPT !.enabled = TRUE, !.hold = 1, !.min = 1, !.max = 1, !.minRate = 5]

MCStrategies == {Cautious, DefaultStrategy}

Patch(k, s, strategy) == [key |-> k, secret |-> s, strategy |-> strategy]

MCPatches ==
  {Patch(full, full, Cautious), Patch(None, readOnly, None), Patch(readOnly, readOnly, None),
   Patch(None, None, DefaultStrategy)}

Ask(rate, amount) == [rate |-> rate, amount |-> amount]
Bid == Ask(3, 1)

\* In the first the index of the P1 book is past the end of the R0 book, in the second
\* there is one bid too few.
MCBooks ==
  {[r0 |-> <<Bid, Ask(4, 1)>>, p1 |-> <<Bid, Ask(4, 1), Ask(5, 1), Ask(6, 2)>>],
   [r0 |-> <<Ask(12, 1), Ask(24, 2)>>, p1 |-> <<Ask(9, 3)>>],
   [r0 |-> <<Bid, Ask(4, 1), Ask(12, 1), Ask(24, 2)>>, p1 |-> <<Bid, Ask(9, 3)>>],
   [r0 |-> <<Bid, Ask(5, 2), Ask(60, 1), Ask(24, 3)>>,
    p1 |-> <<Bid, Ask(4, 1), Ask(9, 1), Ask(9, 3)>>],
   [r0 |-> <<Bid, Ask(9, 2), Ask(9, 1)>>, p1 |-> <<Bid, Ask(4, 1)>>]}
=============================================================================

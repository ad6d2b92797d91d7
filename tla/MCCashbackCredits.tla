-------------------------- MODULE MCCashbackCredits --------------------------
(* A small instance of CashbackCredits: two purchases of one user, which may be  *)
(* made with one offer and in one month.                                         *)
EXTENDS CashbackCredits, TLC

CONSTANTS p1, p2, u1, o1

MCPurchases == {p1, p2}
MCUsers == {u1}
MCOffers == {o1}

\* Prices, percentages and fixed amounts on both sides of a half cent, the values the
\* offer's policies refuse at their boundaries included.
MCPurchaseAmounts == {1, 5, 10, 15, 25, 60}
MCPercentages == {0, 1, 250, 500, 1000, 1999, 2000, 2001}
MCFixedAmounts == {-1, 0, 1, 4, 5, 6, 15, 25, 34}
MCMonthlyCaps == {-1, 0, 3, 12}
MCAmounts == {q.paid : q \in Quotes}

Symmetry == Permutations(MCPurchases)

DocumentedReversals == {"pending", "confirmed"}
=============================================================================

--------------------------- MODULE MCCashbackLedger ---------------------------
(* A small instance of the ledger with what feeds it and what is read of it:    *)
(* ingestions credit what the calculator returns (CashbackCredits) while a      *)
(* client walks through the lists (PurchaseListings).  Neither looks at the     *)
(* other's variables.  Within one month: no property here is about months.      *)
EXTENDS PurchaseListings, CashbackCredits, TLC

CONSTANTS p1, p2, p3, u1, u2, o1

MCPurchases == {p1, p2, p3}
MCUsers == {u1, u2}
MCOffers == {o1}

\* A share of half a cent, which is rounded down, and one of one and a half, which is rounded
\* up; the values the offer's policies refuse at their boundaries; a fixed amount of two and a
\* half cents, which is rounded down.
MCPurchaseAmounts == {10, 30}
MCPercentages == {0, 500, 2001}
MCFixedAmounts == {0, 25}
MCMonthlyCaps == {0, 1}
MCAmounts == {q.paid : q \in Quotes}

\* No filter, and the status that rows both enter and leave.
MCStatusFilters == {"any", "confirmed"}
Symmetry == Permutations(MCPurchases) \cup Permutations(MCUsers)

DocumentedReversals == {"pending", "confirmed"}
AnyReversal == PurchaseStatus

-----------------------------------------------------------------------------
\* Every step is one of both modules, or one of the client.
MCInit == CreditInit /\ ListInit

MCIngest(p, u, o, price) ==
  IngestPurchase(p, u, o, price) /\ CommitIngest(p, u, Calculate(offer[o], price))

MCSettle(p) == SettlePurchase(p) /\ CommitSettlement(p)

MCWalk ==
  /\ \/ \E l \in Lists, byTotal \in BOOLEAN : BeginWalk(l, byTotal)
     \/ CountRows
     \/ ReadItems
  /\ UNCHANGED <<offer, bought, month>>

MCNext ==
  \/ \E p \in Purchases :
       \/ \E u \in Users, o \in Offers, price \in PurchaseAmounts : MCIngest(p, u, o, price)
       \/ MCSettle(p)
  \/ MCWalk

MCSpec == MCInit /\ [][MCNext]_<<listVars, offer, bought, month>>
=============================================================================

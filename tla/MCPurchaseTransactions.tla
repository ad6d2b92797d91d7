------------------------ MODULE MCPurchaseTransactions ------------------------
(* Small instances of PurchaseTransactions.                                    *)
EXTENDS PurchaseTransactions, TLC

CONSTANTS p1, p2, u1, u2, s1, s2, s3

OnePurchase == {p1}
TwoPurchases == {p1, p2}
OneUser == {u1}
TwoUsers == {u1, u2}
TwoSessions == {s1, s2}
ThreeSessions == {s1, s2, s3}
PositiveAmount == {2}
ZeroAndPositive == {0, 2}
DocumentedReversals == {"pending", "confirmed"}
AnyReversal == PurchaseStatus
ManualOperations == {"ingest", "admin_confirm", "admin_reverse"}

Symmetry == Permutations(TwoUsers) \cup Permutations(ThreeSessions)
=============================================================================

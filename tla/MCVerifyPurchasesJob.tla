------------------------- MODULE MCVerifyPurchasesJob -------------------------
(* A small instance of VerifyPurchasesJob: two runners, which may both go for    *)
(* one purchase.                                                                *)
EXTENDS VerifyPurchasesJob, TLC

CONSTANTS p1, p2, r1, r2

TwoPurchases == {p1, p2}
TwoRunners == {r1, r2}
OneByAdmins == {p2}
=============================================================================

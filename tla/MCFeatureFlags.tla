---------------------------- MODULE MCFeatureFlags ----------------------------
(* Small instances of FeatureFlags.                                             *)
EXTENDS FeatureFlags, TLC

CONSTANTS m1, m2, u1, u2, q1, q2

MCMerchants == {m1, m2}
MCUsers == {u1, u2}
MCRequests == {q1, q2}
Symmetry == Permutations(MCMerchants) \cup Permutations(MCUsers) \cup Permutations(MCRequests)
=============================================================================

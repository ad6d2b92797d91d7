------------------------------ MODULE MCAccounts ------------------------------
(* A small instance of Accounts: two users who may want the same email, and     *)
(* tokens enough for two exchanges of the first one issued.                     *)
EXTENDS Accounts, TLC

CONSTANTS u1, u2, e1, e2, t1, t2, t3, q1, q2

MCUsers == {u1, u2}
MCEmails == {e1, e2}
MCTokens == {t1, t2, t3}
MCRequests == {q1, q2}
Symmetry ==
  Permutations(MCUsers) \cup Permutations(MCEmails) \cup
  Permutations(MCTokens) \cup Permutations(MCRequests)
=============================================================================

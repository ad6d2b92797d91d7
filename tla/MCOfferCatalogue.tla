--------------------------- MODULE MCOfferCatalogue ---------------------------
(* Small instances of OfferCatalogue: offers in force on the same day, on        *)
(* different days or on none, of one merchant or of two that want one name.     *)
EXTENDS OfferCatalogue, TLC

CONSTANTS m1, m2, o1, o2, q1, q2, n1

OneMerchant == {m1}
TwoMerchants == {m1, m2}
OneName == {n1}
TwoOffers == {o1, o2}
TwoRequests == {q1, q2}
Symmetry ==
  Permutations(TwoMerchants) \cup Permutations(TwoOffers) \cup Permutations(TwoRequests)
=============================================================================

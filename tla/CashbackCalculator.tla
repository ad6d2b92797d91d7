-------------------------- MODULE CashbackCalculator --------------------------
(***************************************************************************)
(* The cashback of a purchase: app/cashback/calculator.py on the terms     *)
(* create_offer has checked and stored.  Purchase and cashback amounts are *)
(* in cents (both columns have scale 2), percentages in hundredths of a    *)
(* percent and fixed amounts in tenths of a cent: an offer takes any float.*)
(***************************************************************************)
EXTENDS Integers

CONSTANTS
  PurchaseAmounts,  \* amounts of purchases, in cents
  Percentages,      \* values asked for in percentage offers
  FixedAmounts,     \* values asked for in fixed offers
  MonthlyCaps,      \* monthly caps asked for, in cents
  MaxPercentage,    \* settings.max_cashback_percentage
  NoFixedAmount     \* fixed_amount is None

ASSUME CalculatorAssumption ==
  /\ PurchaseAmounts \subseteq Nat \ {0}
  /\ Percentages \subseteq Int
  /\ FixedAmounts \subseteq Int
  /\ MonthlyCaps \subseteq Int
  /\ MaxPercentage \in 0 .. 10000
  /\ NoFixedAmount \notin FixedAmounts

-----------------------------------------------------------------------------
EnforceCashbackValueValidity(type, value) ==
  0 < value /\ (type = "percent" => value <= MaxPercentage)

EnforceMonthlyCapValidity(cap) == cap > 0

\* _map_to_domain_offer.
MapToDomainOffer(type, value, cap) ==
  [percentage |-> IF type = "percent" THEN value ELSE 0,
   fixedAmount |-> IF type = "percent" THEN NoFixedAmount ELSE value,
   monthlyCap |-> cap]

\* Decimal.quantize of n/d, not negative, in the default context: to the nearest
\* integer, a half to the even one.
Quantize(n, d) ==
  LET q == n \div d
      r == n % d
  IN  IF 2 * r > d \/ (2 * r = d /\ q % 2 = 1) THEN q + 1 ELSE q

\* Mutant: the percentage is rounded half up.
Calculate_halfUp(offer, purchaseAmount) ==
  IF offer.fixedAmount # NoFixedAmount
    THEN Quantize(offer.fixedAmount, 10)
    ELSE (purchaseAmount * offer.percentage + 5000) \div 10000

\* CashbackCalculator.calculate: a fixed amount is paid whatever the purchase costs, and the
\* monthly cap is not looked at.
Calculate(offer, purchaseAmount) ==
  IF offer.fixedAmount # NoFixedAmount
    THEN Quantize(offer.fixedAmount, 10)
    ELSE Quantize(purchaseAmount * offer.percentage, 10000)

\* The terms of the offers that can exist.
OfferTerms ==
  LET values(type, asked) == {v \in asked : EnforceCashbackValueValidity(type, v)}
      caps == {c \in MonthlyCaps : EnforceMonthlyCapValidity(c)}
  IN  {MapToDomainOffer("percent", v, c) : v \in values("percent", Percentages), c \in caps}
        \cup {MapToDomainOffer("fixed", v, c) : v \in values("fixed", FixedAmounts), c \in caps}

\* What an ingestion may credit, and for what.
Quotes ==
  {[offer |-> o, price |-> a, paid |-> Calculate(o, a)] : o \in OfferTerms, a \in PurchaseAmounts}

-----------------------------------------------------------------------------
(* The reference.                                                           *)

Distance(m, n) == IF m < n THEN n - m ELSE m - n

\* The quote pays the number of whole cents closest to the exact share of the purchase
\* (or to the exact fixed amount), the even one of two that are equally close, and a
\* percentage never pays more than the purchase.
PaysNearestCent(q) ==
  LET fixed == q.offer.fixedAmount # NoFixedAmount
      exact == IF fixed THEN q.offer.fixedAmount ELSE q.price * q.offer.percentage
      unit == IF fixed THEN 10 ELSE 10000
      off(c) == Distance(c * unit, exact)
  IN  /\ \A c \in {q.paid - 1, q.paid + 1} :
           off(q.paid) < off(c) \/ (off(q.paid) = off(c) /\ q.paid % 2 = 0)
      /\ ~fixed => q.paid \in 0 .. q.price
=============================================================================

--------------------------- MODULE CashbackCredits ---------------------------
(***************************************************************************)
(* The ledger fed by the calculator: an ingestion credits what calculate   *)
(* returns for the offer it has found and the price of the purchase, while *)
(* months go by.  Which offer an ingestion finds is in OfferCatalogue; no  *)
(* code changes the terms of one, so all of them are there from the start. *)
(***************************************************************************)
EXTENDS CashbackLedger, CashbackCalculator

CONSTANTS
  Offers,   \* ids of offers
  NoOffer,  \* the offer of a purchase that does not exist
  MaxMonth  \* bound on the months that go by

ASSUME CreditsAssumption ==
  /\ {q.paid : q \in Quotes} \subseteq Amounts
  /\ NoOffer \notin Offers
  /\ MaxMonth \in Nat

VARIABLES
  offer,   \* table offers: the terms of each
  bought,  \* table purchases, its columns offer_id and amount and the month of created_at
  month    \* the current month

creditVars == <<purchase, cashback, wallet, offer, bought, month>>

-----------------------------------------------------------------------------
NotBought == [offer |-> NoOffer, price |-> 0, month |-> 0]

CreditInit ==
  /\ Init
  /\ offer \in [Offers -> OfferTerms]
  /\ bought = [p \in Purchases |-> NotBought]
  /\ month = 0

\* ingest_purchase, with the offer it has found: nothing that was credited before is read.
IngestPurchase(p, u, o, price) ==
  /\ Ingest(p, u, Calculate(offer[o], price))
  /\ bought' = [bought EXCEPT ![p] = [offer |-> o, price |-> price, month |-> month]]
  /\ UNCHANGED <<offer, month>>

\* Settlements do not look at the offer again.
SettlePurchase(p) ==
  /\ Confirm(p) \/ Reject(p) \/ Reverse(p)
  /\ UNCHANGED <<offer, bought, month>>

NextMonth ==
  /\ month < MaxMonth
  /\ month' = month + 1
  /\ UNCHANGED <<purchase, cashback, wallet, offer, bought>>

CreditNext ==
  \/ \E p \in Purchases :
       \/ \E u \in Users, o \in Offers, price \in PurchaseAmounts : IngestPurchase(p, u, o, price)
       \/ SettlePurchase(p)
  \/ NextMonth

CreditSpec == CreditInit /\ [][CreditNext]_creditVars

-----------------------------------------------------------------------------
(* Properties.                                                              *)

\* Every cashback transaction, whatever has happened to it since its INSERT, is for the
\* whole number of cents closest to what the purchase's own offer gives for the purchase's
\* own price, ties to even.  That is the full share: no monthly cap ever reduces it.
CreditsUncappedShare ==
  \A p \in Purchases : cashback[p].status # "absent" =>
    PaysNearestCent([offer |-> offer[bought[p].offer], price |-> bought[p].price,
                     paid |-> cashback[p].amount])

\* The purchases of user u that have earned from offer o in month m, and were not rejected
\* or reversed since.
EarnedFrom(u, o, m) ==
  {p \in Purchases : /\ purchase[p].user = u
                     /\ bought[p].offer = o /\ bought[p].month = m
                     /\ cashback[p].status \in {"pending", "available"}}

\* What a user earns from an offer in a calendar month does not exceed the offer's monthly
\* cap.  The cap is stored and shown, and no code compares anything with it.
MonthlyCapKept ==
  \A u \in Users, o \in Offers, m \in 0 .. MaxMonth :
    SumFunctionOnSet([p \in Purchases |-> cashback[p].amount], EarnedFrom(u, o, m))
      <= offer[o].monthlyCap
=============================================================================

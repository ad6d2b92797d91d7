------------------------ MODULE CashbackLedger_proofs ------------------------
(***************************************************************************)
(* Theorems about CashbackLedger and the CashbackCalculator that feeds it, *)
(* for every set of purchases, users, prices and offers.                   *)
(***************************************************************************)
EXTENDS CashbackCredits, LedgerRows_proofs

\* A purchase that exists has an owner, and its transaction agrees with it.
IInv == TypeOK /\ CashbackAgrees

\* The empty tables agree.
LEMMA InitIInv == Init => IInv
  BY RowsAssumption DEF Init, IInv, TypeOK, CashbackAgrees, NoPurchase, NoCashback, EmptyWallet,
     PurchaseRow, CashbackRow, WalletRow, PurchaseStatus, CashbackTransactionStatus

\* An owner with a wallet.
LEMMA OwnerIsUser ==
  ASSUME IInv, NEW p \in Purchases, purchase[p].status # "absent"
  PROVE  purchase[p].user \in Users /\ purchase[p].amount \in Nat
  BY DEF IInv, TypeOK, CashbackAgrees, PurchaseRow

\* Every handler keeps the purchase and its cashback transaction in agreement; no bound
\* on what admins reverse is needed for that.
LEMMA NextIInv == IInv /\ [Next]_vars => IInv'
  <1> SUFFICES ASSUME IInv, [Next]_vars PROVE IInv'
    OBVIOUS
  <1> USE RowsAssumption
  <1>t. TypeOK'
    <2> USE RowTypes, WalletTypes DEF IInv, TypeOK
    <2>1. ASSUME NEW p \in Purchases, NEW u \in Users, NEW a \in Amounts, Ingest(p, u, a)
          PROVE TypeOK'
      BY <2>1 DEF Ingest
    <2>2. ASSUME NEW p \in Purchases, Confirm(p) PROVE TypeOK'
      <3>1. purchase[p].user \in Users /\ purchase[p].amount \in Nat
        BY <2>2, OwnerIsUser DEF Confirm, EnforcePurchasePending
      <3>2. purchase' \in [Purchases -> PurchaseRow]
        BY <2>2 DEF Confirm, PurchaseStatus
      <3>3. cashback' \in [Purchases -> CashbackRow]
        BY <2>2 DEF Confirm
      <3>4. wallet' \in [Users -> WalletRow]
        BY <2>2, <3>1 DEF Confirm
      <3> QED BY <3>2, <3>3, <3>4
    <2>3. ASSUME NEW p \in Purchases, Reject(p) PROVE TypeOK'
      <3>1. purchase[p].user \in Users /\ purchase[p].amount \in Nat
        BY <2>3, OwnerIsUser DEF Reject, EnforcePurchasePending
      <3>2. purchase' \in [Purchases -> PurchaseRow]
        BY <2>3 DEF Reject, PurchaseStatus
      <3>3. cashback' \in [Purchases -> CashbackRow]
        BY <2>3 DEF Reject
      <3>4. wallet' \in [Users -> WalletRow]
        BY <2>3, <3>1 DEF Reject
      <3> QED BY <3>2, <3>3, <3>4
    <2>4. ASSUME NEW p \in Purchases, Reverse(p) PROVE TypeOK'
      BY <2>4, OwnerIsUser DEF Reverse, EnforcePurchaseReversible
    <2>5. CASE UNCHANGED vars
      BY <2>5 DEF vars
    <2> QED BY <2>1, <2>2, <2>3, <2>4, <2>5 DEF Next
  <1>a. CashbackAgrees'
    <2> USE DEF IInv, TypeOK, CashbackAgrees, PurchaseRow, CashbackRow
    <2>1. ASSUME NEW p \in Purchases, NEW u \in Users, NEW a \in Amounts, Ingest(p, u, a)
          PROVE CashbackAgrees'
      BY <2>1 DEF Ingest, NewPurchase, NewCashback
    <2>2. ASSUME NEW p \in Purchases, Confirm(p) PROVE CashbackAgrees'
      BY <2>2 DEF Confirm, EnforcePurchasePending, UpdateStatus, CashbackConfirm
    <2>3. ASSUME NEW p \in Purchases, Reject(p) PROVE CashbackAgrees'
      BY <2>3 DEF Reject, EnforcePurchasePending, UpdateStatus, CashbackReverse
    <2>4. ASSUME NEW p \in Purchases, Reverse(p) PROVE CashbackAgrees'
      BY <2>4 DEF Reverse, EnforcePurchaseReversible, MarkReversed, CashbackReverse
    <2>5. CASE UNCHANGED vars
      BY <2>5 DEF vars
    <2> QED BY <2>1, <2>2, <2>3, <2>4, <2>5 DEF Next
  <1> QED BY <1>t, <1>a DEF IInv

\* The tables keep their types: whatever the handlers do, a purchase that has a
\* cashback amount has an owner with a wallet to charge.
THEOREM TypeCorrect == Spec => []TypeOK
  <1>1. IInv => TypeOK
    BY DEF IInv
  <1> QED BY <1>1, InitIInv, NextIInv, PTL DEF Spec

\* Every purchase and its cashback transaction agree for ever, whichever purchases
\* admins reverse.
THEOREM AgreementAlways == Spec => []CashbackAgrees
  <1>1. IInv => CashbackAgrees
    BY DEF IInv
  <1> QED BY <1>1, InitIInv, NextIInv, PTL DEF Spec

-----------------------------------------------------------------------------
(* The balances follow the purchases.                                       *)

\* The documented reversals: PU-07 allows pending and confirmed purchases.
DocumentedReversal == ReverseRequests \subseteq {"pending", "confirmed"}

\* The step of MoneyFollowsPurchase.
MoneyStep == MoneyMoves(purchase, purchase', wallet, wallet')

\* Every handler moves money as the purchase it changes calls for, as long as a rejected
\* purchase is not reversed.
LEMMA NextMoney ==
  ASSUME DocumentedReversal, IInv, Next
  PROVE  MoneyStep
  <1>0. purchase \in [Purchases -> PurchaseRow] /\ wallet \in [Users -> WalletRow]
        /\ CashbackAgrees
    BY DEF IInv, TypeOK
  <1>1. ASSUME NEW p \in Purchases, NEW u \in Users, NEW a \in Amounts, Ingest(p, u, a)
        PROVE MoneyStep
    <2>1. purchase[p].user = NoUser
      BY <1>0, <1>1 DEF Ingest, CashbackAgrees
    <2>2. /\ purchase' = [purchase EXCEPT ![p] = NewPurchase(u, a)]
          /\ wallet' = [wallet EXCEPT ![u] = CreditPending(wallet[u], a)]
      BY <1>1 DEF Ingest
    <2> QED BY <1>0, <2>1, <2>2, IngestMoves DEF MoneyStep
  <1>2. ASSUME NEW p \in Purchases, Confirm(p) PROVE MoneyStep
    <2>1. purchase[p].user \in Users /\ purchase[p].status = "pending"
      BY <1>2, OwnerIsUser DEF Confirm, EnforcePurchasePending
    <2>2. /\ purchase' = [purchase EXCEPT ![p] = UpdateStatus(purchase[p], "confirmed")]
          /\ wallet' = IF purchase[p].amount > 0
                         THEN [wallet EXCEPT ![purchase[p].user] =
                                 ConfirmPending(wallet[purchase[p].user], purchase[p].amount)]
                         ELSE wallet
      BY <1>2 DEF Confirm
    <2> QED BY <1>0, <2>1, <2>2, ConfirmMoves DEF MoneyStep
  <1>3. ASSUME NEW p \in Purchases, Reject(p) PROVE MoneyStep
    <2>1. purchase[p].user \in Users /\ purchase[p].status = "pending"
      BY <1>3, OwnerIsUser DEF Reject, EnforcePurchasePending
    <2>2. /\ purchase' = [purchase EXCEPT ![p] = UpdateStatus(purchase[p], "rejected")]
          /\ wallet' = IF purchase[p].amount > 0
                         THEN [wallet EXCEPT ![purchase[p].user] =
                                 ReversePending(wallet[purchase[p].user], purchase[p].amount)]
                         ELSE wallet
      BY <1>3 DEF Reject
    <2> QED BY <1>0, <2>1, <2>2, RejectMoves DEF MoneyStep
  <1>4. ASSUME NEW p \in Purchases, Reverse(p) PROVE MoneyStep
    <2>1. purchase[p].user \in Users /\ purchase[p].status \in {"pending", "confirmed"}
      BY <1>4, OwnerIsUser DEF Reverse, EnforcePurchaseReversible, DocumentedReversal
    <2>2. /\ purchase' = [purchase EXCEPT ![p] = MarkReversed(purchase[p])]
          /\ wallet' = [wallet EXCEPT ![purchase[p].user] =
                          IF purchase[p].status = "pending"
                            THEN ReversePending(wallet[purchase[p].user], purchase[p].amount)
                            ELSE ReverseAvailable(wallet[purchase[p].user], purchase[p].amount)]
      BY <1>4 DEF Reverse
    <2> QED BY <1>0, <2>1, <2>2, ReverseMoves DEF MoneyStep
  <1> QED BY <1>1, <1>2, <1>3, <1>4 DEF Next

\* Where admins keep to the documented reversals, every step moves each wallet by
\* exactly what the one purchase it touches is worth to it: no amount is credited
\* twice, charged to the other balance, or lost.
THEOREM MoneyFollowsPurchases ==
  ASSUME DocumentedReversal
  PROVE  Spec => MoneyFollowsPurchase
  <1>1. IInv /\ [Next]_vars => [MoneyStep]_vars
    BY NextMoney
  <1> QED BY <1>1, InitIInv, NextIInv, PTL
       DEF Spec, MoneyFollowsPurchase, MoneyStep, MoneyMoves

\* The inductive invariant of the balances: each is the sum of finitely many shares.
BInv == IInv /\ Balanced(purchase, wallet)

\* The empty wallets.
LEMMA InitBInv == Init => BInv
  BY InitIInv, EmptyBalanced DEF Init, BInv

\* Every step keeps the wallets balanced.
LEMMA NextBInv ==
  ASSUME DocumentedReversal
  PROVE  BInv /\ [Next]_vars => BInv'
  <1> SUFFICES ASSUME BInv, [Next]_vars PROVE BInv'
    OBVIOUS
  <1>1. IInv /\ IInv'
    BY NextIInv DEF BInv
  <1>2. Balanced(purchase, wallet)'
    <2>1. CASE Next
      <3>1. MoneyMoves(purchase, purchase', wallet, wallet')
        BY <1>1, <2>1, NextMoney DEF MoneyStep
      <3>2. /\ purchase \in [Purchases -> PurchaseRow] /\ purchase' \in [Purchases -> PurchaseRow]
            /\ wallet \in [Users -> WalletRow] /\ wallet' \in [Users -> WalletRow]
        BY <1>1 DEF IInv, TypeOK
      <3>3. Balanced(purchase', wallet')
        BY <3>1, <3>2, MovesKeepBalance DEF BInv
      <3> QED BY <3>3
    <2>2. CASE UNCHANGED vars
      BY <2>2 DEF vars, BInv
    <2> QED BY <2>1, <2>2
  <1> QED BY <1>1, <1>2 DEF BInv

\* With the documented reversals the two balances of a wallet are, after any number of
\* operations on any number of purchases, exactly the sums of the cashback of the owner's
\* pending and confirmed purchases.
THEOREM BalancesAlwaysExact ==
  ASSUME DocumentedReversal
  PROVE  Spec => []BalancesExact
  <1>1. BInv => BalancesExact
    BY DEF BInv, Balanced, BalancesExact, PurchasesOf, OwnedBy, PendingShares, AvailableShares
  <1> QED BY <1>1, InitBInv, NextBInv, PTL DEF Spec

\* With the documented reversals no balance is ever negative, although no UPDATE looks at
\* the balance it leaves.  The run ledger_reverse_rejected shows that the condition is needed.
THEOREM BalancesStayNonNegative ==
  ASSUME DocumentedReversal
  PROVE  Spec => []BalancesNonNegative
  <1>1. BInv => BalancesNonNegative
    BY BalancedNonNegative DEF BInv, IInv, TypeOK, BalancesNonNegative
  <1> QED BY <1>1, InitBInv, NextBInv, PTL DEF Spec

-----------------------------------------------------------------------------
(* CashbackCalculator.calculate against its reference.                      *)

\* Quantize returns the integer closest to n/d, the even one of two.
Nearest(n, d, q) ==
  \A c \in {q - 1, q + 1} :
    \/ Distance(q * d, n) < Distance(c * d, n)
    \/ Distance(q * d, n) = Distance(c * d, n) /\ q % 2 = 0

\* Rounding tenths of a cent, for fixed amounts.
LEMMA QuantizeTenths ==
  ASSUME NEW n \in Nat
  PROVE  Quantize(n, 10) \in Nat /\ Nearest(n, 10, Quantize(n, 10))
  BY DEF Quantize, Nearest, Distance

\* Rounding ten thousandths of a cent, for percentages.
LEMMA QuantizeShares ==
  ASSUME NEW n \in Nat
  PROVE  Quantize(n, 10000) \in Nat /\ Nearest(n, 10000, Quantize(n, 10000))
  BY DEF Quantize, Nearest, Distance

\* A share of the purchase of at most all of it, rounded, is at most the purchase.
LEMMA ShareBounded ==
  ASSUME NEW price \in Nat, NEW share \in Nat, share <= price * 10000
  PROVE  Quantize(share, 10000) <= price
  BY DEF Quantize

\* A percentage of at most 100.
LEMMA PercentageOfPrice ==
  ASSUME NEW price \in Nat, NEW percentage \in 0 .. 10000
  PROVE  price * percentage \in Nat /\ price * percentage <= price * 10000
  OBVIOUS

\* Whatever offer create_offer has let through and whatever the purchase costs, calculate
\* pays the closest number of cents, the even one of two, and a percentage never pays more
\* than the price.
THEOREM QuotesPayNearestCent == \A q \in Quotes : PaysNearestCent(q)
  <1> SUFFICES ASSUME NEW o \in OfferTerms, NEW price \in PurchaseAmounts,
                      NEW q, q = [offer |-> o, price |-> price, paid |-> Calculate(o, price)]
               PROVE  PaysNearestCent(q)
    BY DEF Quotes
  <1>p. price \in Nat
    BY CalculatorAssumption
  <1>1. ASSUME NEW v \in FixedAmounts, NEW cap, 0 < v, o = MapToDomainOffer("fixed", v, cap)
        PROVE  PaysNearestCent(q)
    <2>1. v \in Nat /\ v # NoFixedAmount
      BY <1>1, CalculatorAssumption
    <2>2. q.offer.fixedAmount = v /\ q.paid = Quantize(v, 10)
      BY <1>1, <2>1 DEF MapToDomainOffer, Calculate
    <2>3. Nearest(v, 10, Quantize(v, 10))
      BY <2>1, QuantizeTenths
    <2> HIDE DEF Quantize
    <2> QED BY <2>1, <2>2, <2>3 DEF PaysNearestCent, Nearest
  <1>2. ASSUME NEW v \in Percentages, NEW cap, 0 < v, v <= MaxPercentage,
               o = MapToDomainOffer("percent", v, cap)
        PROVE  PaysNearestCent(q)
    <2> DEFINE share == price * v
    <2>1. share \in Nat /\ share <= price * 10000
      <3>1. v \in 0 .. 10000
        BY <1>2, CalculatorAssumption
      <3> QED BY <1>p, <3>1, PercentageOfPrice
    <2>2. /\ q.offer.fixedAmount = NoFixedAmount /\ q.price = price
          /\ q.price * q.offer.percentage = share /\ q.paid = Quantize(share, 10000)
      BY <1>2 DEF MapToDomainOffer, Calculate
    <2> HIDE DEF share
    <2>3. Nearest(share, 10000, Quantize(share, 10000)) /\ Quantize(share, 10000) \in Nat
      BY <2>1, QuantizeShares
    <2>4. Quantize(share, 10000) <= price
      BY <1>p, <2>1, ShareBounded
    <2> QED BY <1>p, <2>2, <2>3, <2>4 DEF PaysNearestCent, Nearest
  <1> QED BY <1>1, <1>2 DEF OfferTerms, EnforceCashbackValueValidity

-----------------------------------------------------------------------------
(* The ledger fed by the calculator.                                        *)

\* A transaction is for what calculate returned when the purchase was ingested; neither the
\* purchase's offer and price nor the offer's terms have changed since.
AmountsCalculated ==
  \A p \in Purchases : cashback[p].status # "absent" =>
    /\ bought[p].offer \in Offers /\ bought[p].price \in PurchaseAmounts
    /\ cashback[p].amount = Calculate(offer[bought[p].offer], bought[p].price)

CInv ==
  /\ IInv
  /\ offer \in [Offers -> OfferTerms]
  /\ DOMAIN bought = Purchases
  /\ AmountsCalculated

\* What calculate returns for an offer that exists.
LEMMA CalculatedIsQuoted ==
  ASSUME NEW o \in OfferTerms, NEW price \in PurchaseAmounts
  PROVE  /\ [offer |-> o, price |-> price, paid |-> Calculate(o, price)] \in Quotes
         /\ Calculate(o, price) \in Amounts
  <1> DEFINE q == [offer |-> o, price |-> price, paid |-> Calculate(o, price)]
  <1>1. q \in Quotes
    BY DEF Quotes
  <1>2. q.paid \in Amounts
    BY <1>1, CreditsAssumption
  <1> QED BY <1>1, <1>2

\* An ingestion with an offer is an ingestion of the ledger.
LEMMA CreditStep ==
  ASSUME CInv, [CreditNext]_creditVars
  PROVE  [Next]_vars
  <1>1. ASSUME NEW p \in Purchases, NEW u \in Users, NEW o \in Offers,
               NEW price \in PurchaseAmounts, IngestPurchase(p, u, o, price)
        PROVE  Next
    <2>1. Calculate(offer[o], price) \in Amounts
      BY CalculatedIsQuoted DEF CInv
    <2> QED BY <1>1, <2>1 DEF IngestPurchase, Next
  <1>2. ASSUME NEW p \in Purchases, SettlePurchase(p) PROVE Next
    BY <1>2 DEF SettlePurchase, Next
  <1>3. CASE NextMonth \/ UNCHANGED creditVars
    BY <1>3 DEF NextMonth, creditVars, vars
  <1> QED BY <1>1, <1>2, <1>3 DEF CreditNext

\* Only an INSERT brings an amount into the table, and it is the calculator's.
LEMMA NextCInv == CInv /\ [CreditNext]_creditVars => CInv'
  <1> SUFFICES ASSUME CInv, [CreditNext]_creditVars PROVE CInv'
    OBVIOUS
  <1>0. /\ IInv /\ AmountsCalculated /\ DOMAIN bought = Purchases
        /\ offer \in [Offers -> OfferTerms] /\ cashback \in [Purchases -> CashbackRow]
    BY DEF CInv, IInv, TypeOK
  <1>i. IInv'
    BY <1>0, CreditStep, NextIInv
  <1>1. ASSUME NEW p \in Purchases, NEW u \in Users, NEW o \in Offers,
               NEW price \in PurchaseAmounts, IngestPurchase(p, u, o, price)
        PROVE  CInv'
    <2>1. /\ cashback' = [cashback EXCEPT ![p] = NewCashback(Calculate(offer[o], price))]
          /\ bought' = [bought EXCEPT ![p] = [offer |-> o, price |-> price, month |-> month]]
          /\ offer' = offer
      BY <1>1 DEF IngestPurchase, Ingest
    <2>2. AmountsCalculated'
      <3> SUFFICES ASSUME NEW q \in Purchases, cashback'[q].status # "absent"
                   PROVE  /\ bought'[q].offer \in Offers /\ bought'[q].price \in PurchaseAmounts
                          /\ cashback'[q].amount
                               = Calculate(offer'[bought'[q].offer], bought'[q].price)
        BY DEF AmountsCalculated
      <3>1. CASE q = p
        <4>1. bought'[q].offer = o /\ bought'[q].price = price
          BY <1>0, <2>1, <3>1
        <4>2. cashback'[q].amount = Calculate(offer[o], price)
          BY <1>0, <2>1, <3>1 DEF NewCashback
        <4> QED BY <2>1, <4>1, <4>2
      <3>2. CASE q # p
        <4>1. cashback'[q] = cashback[q] /\ bought'[q] = bought[q]
          BY <1>0, <2>1, <3>2
        <4> QED BY <1>0, <2>1, <4>1 DEF AmountsCalculated
      <3> QED BY <3>1, <3>2
    <2> QED BY <1>0, <1>i, <2>1, <2>2 DEF CInv
  <1>2. ASSUME NEW p \in Purchases, SettlePurchase(p) PROVE CInv'
    <2>1. cashback[p].status # "absent"
      BY <1>0, <1>2 DEF IInv, CashbackAgrees, SettlePurchase, Confirm, Reject, Reverse,
         EnforcePurchasePending, EnforcePurchaseReversible
    <2>2. /\ cashback' \in {cashback, [cashback EXCEPT ![p] = CashbackConfirm(@)],
                            [cashback EXCEPT ![p] = CashbackReverse(@)]}
          /\ offer' = offer /\ bought' = bought
      BY <1>2 DEF SettlePurchase, Confirm, Reject, Reverse
    <2>3. \A q \in Purchases : /\ cashback'[q].amount = cashback[q].amount
                               /\ cashback'[q].status # "absent" => cashback[q].status # "absent"
      BY <1>0, <2>1, <2>2 DEF CashbackConfirm, CashbackReverse
    <2>4. AmountsCalculated'
      BY <1>0, <2>2, <2>3 DEF AmountsCalculated
    <2> QED BY <1>0, <1>i, <2>2, <2>4 DEF CInv
  <1>3. CASE NextMonth \/ UNCHANGED creditVars
    BY <1>0, <1>3, <1>i DEF NextMonth, creditVars, CInv, AmountsCalculated
  <1> QED BY <1>1, <1>2, <1>3 DEF CreditNext

\* The empty tables.
LEMMA InitCInv == CreditInit => CInv
  BY InitIInv DEF CreditInit, Init, CInv, AmountsCalculated, NoCashback

\* The ledger fed by the calculator is the ledger: what is proved of CashbackLedger holds
\* whichever offers and prices the amounts come from.
THEOREM CreditsKeepLedger == CreditSpec => Spec
  <1>1. CreditInit => Init
    BY DEF CreditInit
  <1> QED BY <1>1, InitCInv, NextCInv, CreditStep, PTL DEF CreditSpec, Spec

\* Every cashback transaction, whatever has happened to it since its INSERT, is for the
\* nearest cent of the full share of the purchase's own price under its own offer: calculate
\* pays it whole, however much the user has already earned in the month.  The offer's
\* monthly cap promises otherwise; the run credits_monthly_cap shows it exceeded.
THEOREM CreditsUncapped == CreditSpec => []CreditsUncappedShare
  <1>1. CInv => CreditsUncappedShare
    <2> SUFFICES ASSUME CInv, NEW p \in Purchases, cashback[p].status # "absent"
                 PROVE  PaysNearestCent([offer |-> offer[bought[p].offer],
                                         price |-> bought[p].price, paid |-> cashback[p].amount])
      BY DEF CreditsUncappedShare
    <2>1. /\ bought[p].offer \in Offers /\ bought[p].price \in PurchaseAmounts
          /\ cashback[p].amount = Calculate(offer[bought[p].offer], bought[p].price)
      BY DEF CInv, AmountsCalculated
    <2>2. offer[bought[p].offer] \in OfferTerms
      BY <2>1 DEF CInv
    <2>3. [offer |-> offer[bought[p].offer], price |-> bought[p].price,
           paid |-> cashback[p].amount] \in Quotes
      BY <2>1, <2>2, CalculatedIsQuoted
    <2> QED BY <2>3, QuotesPayNearestCent
  <1> QED BY <1>1, InitCInv, NextCInv, PTL DEF CreditSpec
=============================================================================

----------------------- MODULE PurchaseListings_proofs -----------------------
(***************************************************************************)
(* Theorems about PurchaseListings, for every page size and every set of   *)
(* purchases, users and filters.                                           *)
(***************************************************************************)
EXTENDS PurchaseListings, CashbackLedger_proofs, FunctionTheorems

-----------------------------------------------------------------------------
(* Readers and the ledger.                                                  *)

\* A step of the lists is an operation of the ledger or leaves its tables alone.
LEMMA ListStep ==
  ASSUME [ListNext]_listVars
  PROVE  [Next]_vars
  <1>1. ASSUME NEW p \in Purchases, NEW u \in Users, NEW a \in Amounts, CommitIngest(p, u, a)
        PROVE  Next
    BY <1>1 DEF CommitIngest, Next
  <1>2. ASSUME NEW p \in Purchases, CommitSettlement(p) PROVE Next
    BY <1>2 DEF CommitSettlement, Next
  <1>3. ASSUME NEW l \in Lists, NEW byTotal \in BOOLEAN, BeginWalk(l, byTotal)
        PROVE  UNCHANGED vars
    BY <1>3 DEF BeginWalk, vars
  <1>4. CASE CountRows \/ ReadItems
    BY <1>4 DEF CountRows, ReadItems, vars
  <1>5. CASE UNCHANGED listVars
    BY <1>5 DEF listVars, vars
  <1> QED BY <1>1, <1>2, <1>3, <1>4, <1>5 DEF ListNext

\* Nothing that is read disturbs the ledger: with its readers it is still the ledger, and
\* what is proved of CashbackLedger holds while lists are read.
THEOREM ReadersLeaveLedgerAlone == ListSpec => Spec
  <1>1. ListInit => Init
    BY DEF ListInit
  <1> QED BY <1>1, ListStep, PTL DEF ListSpec, Spec

\* So purchases and transactions agree while lists are read.
COROLLARY AgreementWhileRead == ListSpec => []CashbackAgrees
  BY AgreementAlways, ReadersLeaveLedgerAlone, PTL

\* And with the documented reversals the balances are exact while lists are read.
COROLLARY BalancesExactWhileRead ==
  ASSUME DocumentedReversal
  PROVE  ListSpec => []BalancesExact
  BY BalancesAlwaysExact, ReadersLeaveLedgerAlone, PTL

-----------------------------------------------------------------------------
(* What a user is shown.                                                    *)

\* Transactions that are pending, and those that are available, add up to the balances.
LEMMA TransactionsAddUp ==
  ASSUME BInv, NEW u \in Users
  PROVE  LET amounts == [p \in Purchases |-> cashback[p].amount]
             listed(st) == {p \in TransactionsOf(u) : cashback[p].status = st}
         IN  /\ wallet[u].pending = SumFunctionOnSet(amounts, listed("pending"))
             /\ wallet[u].available = SumFunctionOnSet(amounts, listed("available"))
  <1> DEFINE amounts == [p \in Purchases |-> cashback[p].amount]
             owned == OwnedBy(purchase, u)
             pending == {p \in TransactionsOf(u) : cashback[p].status = "pending"}
             available == {p \in TransactionsOf(u) : cashback[p].status = "available"}
  <1>0. /\ purchase \in [Purchases -> PurchaseRow] /\ cashback \in [Purchases -> CashbackRow]
        /\ CashbackAgrees
    BY DEF BInv, IInv, TypeOK
  <1>1. /\ IsFiniteSet(owned)
        /\ wallet[u].pending = SumFunctionOnSet(PendingShares(purchase), owned)
        /\ wallet[u].available = SumFunctionOnSet(AvailableShares(purchase), owned)
    BY DEF BInv, Balanced
  <1>2. pending \in SUBSET owned /\ available \in SUBSET owned
    BY DEF TransactionsOf, OwnedBy
  <1>3. /\ \A p \in owned : PendingShares(purchase)[p] \in Int
        /\ \A p \in owned : AvailableShares(purchase)[p] \in Int
    BY <1>0, ShareTypes DEF OwnedBy
  <1>4. ASSUME NEW p \in owned
        PROVE  /\ PendingShares(purchase)[p] = IF p \in pending THEN amounts[p] ELSE 0
               /\ AvailableShares(purchase)[p] = IF p \in available THEN amounts[p] ELSE 0
    <2>1. p \in Purchases /\ purchase[p].user = u /\ purchase[p].status # "absent"
      BY <1>0, RowsAssumption DEF OwnedBy, CashbackAgrees
    <2>2. /\ p \in pending <=> cashback[p].status = "pending"
          /\ p \in available <=> cashback[p].status = "available"
      BY <1>0, <2>1 DEF TransactionsOf, CashbackAgrees
    <2>3. /\ PendingShares(purchase)[p] = PendingShare(purchase[p])
          /\ AvailableShares(purchase)[p] = AvailableShare(purchase[p])
          /\ amounts[p] = cashback[p].amount
      BY <1>0, <2>1, ShareTypes
    <2>4. /\ purchase[p].status \in PurchaseStatus /\ cashback[p].amount \in Nat
          /\ purchase[p].amount = IF purchase[p].status = "reversed" THEN 0 ELSE cashback[p].amount
          /\ cashback[p].status =
               CASE purchase[p].status = "pending" -> "pending"
                 [] purchase[p].status = "reversed" -> "reversed"
                 [] purchase[p].status = "confirmed" ->
                      IF cashback[p].amount > 0 THEN "available" ELSE "pending"
                 [] OTHER -> IF cashback[p].amount > 0 THEN "reversed" ELSE "pending"
      <3>1. purchase[p].status \in PurchaseStatus /\ cashback[p].amount \in Nat
        BY <1>0, <2>1 DEF PurchaseRow, CashbackRow
      <3> QED BY <1>0, <2>1, <3>1 DEF CashbackAgrees, PurchaseStatus
    <2> HIDE DEF pending, available, amounts, owned
    <2> QED BY <2>2, <2>3, <2>4 DEF PendingShare, AvailableShare, PurchaseStatus
  <1> HIDE DEF pending, available, amounts, owned
  <1>5. /\ \A p \in owned \ pending : PendingShares(purchase)[p] = 0
        /\ \A p \in pending : PendingShares(purchase)[p] = amounts[p]
        /\ \A p \in owned \ available : AvailableShares(purchase)[p] = 0
        /\ \A p \in available : AvailableShares(purchase)[p] = amounts[p]
    BY <1>2, <1>4
  <1>6. IsFiniteSet(pending) /\ IsFiniteSet(available)
    BY <1>1, <1>2, FS_Subset
  <1>7. wallet[u].pending = SumFunctionOnSet(amounts, pending)
    <2> DEFINE f == PendingShares(purchase)
    <2> HIDE DEF f
    <2>1. SumFunctionOnSet(f, owned) = SumFunctionOnSet(f, pending)
      BY <1>1, <1>2, <1>3, <1>5, SumSupport DEF f
    <2>2. \A p \in pending : f[p] = amounts[p]
      BY <1>5 DEF f
    <2>3. SumFunctionOnSet(f, pending) = SumFunctionOnSet(amounts, pending)
      BY <1>6, <2>2, SumSame
    <2> QED BY <1>1, <2>1, <2>3 DEF f
  <1>8. wallet[u].available = SumFunctionOnSet(amounts, available)
    <2> DEFINE f == AvailableShares(purchase)
    <2> HIDE DEF f
    <2>1. SumFunctionOnSet(f, owned) = SumFunctionOnSet(f, available)
      BY <1>1, <1>2, <1>3, <1>5, SumSupport DEF f
    <2>2. \A p \in available : f[p] = amounts[p]
      BY <1>5 DEF f
    <2>3. SumFunctionOnSet(f, available) = SumFunctionOnSet(amounts, available)
      BY <1>6, <2>2, SumSame
    <2> QED BY <1>1, <2>1, <2>3 DEF f
  <1> QED BY <1>7, <1>8 DEF pending, available, amounts

\* The pages of the two lists are equal because the lists are.
LEMMA OneStory ==
  ASSUME BInv
  PROVE  WalletTellsOneStory
  <1> SUFFICES ASSUME NEW u \in Users
               PROVE  /\ TransactionsOf(u) = ListPurchases(u, "any")
                      /\ TransactionsOf(u) = {p \in Purchases : GetPurchaseDetails(u, p)}
    BY TransactionsAddUp DEF WalletTellsOneStory, GetWalletSummary, ListWalletTransactions,
       ListByUserId, ListUserPurchases
  <1>1. CashbackAgrees /\ NoUser \notin Users
    BY RowsAssumption DEF BInv, IInv
  <1>2. ASSUME NEW p \in Purchases
        PROVE  purchase[p].status = "absent" <=> cashback[p].status = "absent"
    BY <1>1 DEF CashbackAgrees
  <1> QED BY <1>1, <1>2 DEF TransactionsOf, ListPurchases, Existing, BuildConditions,
       GetPurchaseDetails, EnforcePurchaseViewOwnership

\* With the documented reversals a user's purchases, transactions and balances are one
\* story at every moment, whatever is ingested and settled while they are read.
THEOREM WalletAlwaysTellsOneStory ==
  ASSUME DocumentedReversal
  PROVE  ListSpec => []WalletTellsOneStory
  BY OneStory, InitBInv, NextBInv, ReadersLeaveLedgerAlone, PTL DEF Spec

-----------------------------------------------------------------------------
(* Ranks.  ord[p] are the rows that come before row p.                      *)

TotalOrder(ord, E) ==
  /\ \A p \in E : p \notin ord[p] /\ ord[p] \subseteq E
  /\ \A p, q \in E : p # q => (p \in ord[q] <=> q \notin ord[p])
  /\ \A p, q \in E : q \in ord[p] => ord[q] \subseteq ord[p]

RankIn(ord, rows, p) == Cardinality(ord[p] \cap rows)

\* The rows whose rank is between a and b.
Ranked(ord, rows, a, b) == {p \in rows : RankIn(ord, rows, p) \in a .. b}

\* Ranks are natural numbers.
LEMMA RankType ==
  ASSUME NEW ord, NEW rows, IsFiniteSet(rows), NEW p
  PROVE  RankIn(ord, rows, p) \in Nat
  <1>1. IsFiniteSet(ord[p] \cap rows)
    BY FS_Intersection
  <1> QED BY <1>1, FS_CardinalityType DEF RankIn

\* A row that comes before another one has the smaller rank.
LEMMA RanksOrdered ==
  ASSUME NEW ord, NEW E, TotalOrder(ord, E), NEW rows \in SUBSET E, IsFiniteSet(rows),
         NEW p \in rows, NEW q \in rows, q \in ord[p]
  PROVE  RankIn(ord, rows, q) < RankIn(ord, rows, p)
  <1> DEFINE above == ord[p] \cap rows
             rest == above \ {q}
             before == ord[q] \cap rows
  <1>1. IsFiniteSet(above) /\ q \in above
    BY FS_Intersection
  <1>2. before \in SUBSET rest
    BY DEF TotalOrder
  <1> HIDE DEF above, before
  <1>3. IsFiniteSet(rest) /\ Cardinality(rest) = Cardinality(above) - 1
    BY <1>1, FS_RemoveElement
  <1> HIDE DEF rest
  <1>4. Cardinality(before) <= Cardinality(rest) /\ IsFiniteSet(before)
    BY <1>2, <1>3, FS_Subset
  <1>5. Cardinality(above) \in Nat /\ Cardinality(before) \in Nat
    BY <1>1, <1>4, FS_CardinalityType
  <1>6. Cardinality(before) < Cardinality(above)
    BY <1>3, <1>4, <1>5
  <1> QED BY <1>6 DEF RankIn, above, before

\* Ranks are a numbering of the rows from zero.
LEMMA RanksNumber ==
  ASSUME NEW ord, NEW E, TotalOrder(ord, E), NEW rows \in SUBSET E, IsFiniteSet(rows)
  PROVE  /\ Cardinality(rows) \in Nat
         /\ \A p \in rows : RankIn(ord, rows, p) \in 0 .. Cardinality(rows) - 1
         /\ \A p, q \in rows : RankIn(ord, rows, p) = RankIn(ord, rows, q) => p = q
         /\ \A k \in 0 .. Cardinality(rows) - 1 : \E p \in rows : RankIn(ord, rows, p) = k
  <1> DEFINE n == Cardinality(rows)
             T == 0 .. n - 1
             f == [p \in rows |-> RankIn(ord, rows, p)]
  <1>1. n \in Nat
    BY FS_CardinalityType
  <1>2. ASSUME NEW p \in rows PROVE RankIn(ord, rows, p) \in T
    <2>1. ord[p] \cap rows \in SUBSET (rows \ {p})
      BY DEF TotalOrder
    <2>2. IsFiniteSet(rows \ {p}) /\ Cardinality(rows \ {p}) = n - 1
      BY FS_RemoveElement
    <2>3. Cardinality(ord[p] \cap rows) <= n - 1
      BY <2>1, <2>2, FS_Subset
    <2> QED BY <1>1, <2>3, RankType DEF RankIn
  <1>3. ASSUME NEW p \in rows, NEW q \in rows, p # q
        PROVE  RankIn(ord, rows, p) # RankIn(ord, rows, q)
    <2>1. RankIn(ord, rows, p) \in Nat /\ RankIn(ord, rows, q) \in Nat
      BY RankType
    <2>2. CASE q \in ord[p]
      BY <2>1, <2>2, RanksOrdered
    <2>3. CASE p \in ord[q]
      BY <2>1, <2>3, RanksOrdered
    <2> QED BY <1>3, <2>2, <2>3 DEF TotalOrder
  <1>4. f \in Injection(rows, T)
    <2>1. f \in [rows -> T]
      BY <1>2
    <2>2. \A p, q \in rows : f[p] = f[q] => p = q
      BY <1>3
    <2> HIDE DEF f, T
    <2> QED BY <2>1, <2>2, Fun_IsInj
  <1>5. IsFiniteSet(T) /\ Cardinality(T) = n
    BY <1>1, FS_Interval
  <1>6. f \in Surjection(rows, T)
    <2> HIDE DEF f, T
    <2> QED BY <1>4, <1>5, FS_Injection DEF n
  <1>7. \A k \in T : \E p \in rows : f[p] = k
    <2> HIDE DEF f, T
    <2> QED BY <1>6, Fun_SurjectionProperties
  <1> QED BY <1>1, <1>2, <1>3, <1>7

\* A range of ranks holds at most as many rows as it is long, and exactly so many if
\* there are enough rows.
LEMMA RankedCount ==
  ASSUME NEW ord, NEW E, TotalOrder(ord, E), NEW rows \in SUBSET E, IsFiniteSet(rows),
         NEW a \in Nat, NEW b \in Int
  PROVE  /\ IsFiniteSet(Ranked(ord, rows, a, b))
         /\ Cardinality(Ranked(ord, rows, a, b)) <= IF a > b THEN 0 ELSE b - a + 1
         /\ a <= b /\ b < Cardinality(rows) =>
              Cardinality(Ranked(ord, rows, a, b)) = b - a + 1
  <1> DEFINE S == Ranked(ord, rows, a, b)
             T == a .. b
             f == [p \in S |-> RankIn(ord, rows, p)]
  <1>1. S \subseteq rows /\ \A p \in S : RankIn(ord, rows, p) \in T
    BY DEF Ranked
  <1>2. \A p, q \in S : RankIn(ord, rows, p) = RankIn(ord, rows, q) => p = q
    BY <1>1, RanksNumber
  <1>3. IsFiniteSet(T) /\ Cardinality(T) = IF a > b THEN 0 ELSE b - a + 1
    BY FS_Interval
  <1>4. ASSUME a <= b, b < Cardinality(rows), NEW k \in T PROVE \E p \in S : f[p] = k
    <2>1. k \in 0 .. Cardinality(rows) - 1
      BY <1>4, FS_CardinalityType
    <2>2. PICK p \in rows : RankIn(ord, rows, p) = k
      BY <2>1, RanksNumber
    <2> QED BY <2>2 DEF Ranked
  <1> HIDE DEF S, T
  <1>5. f \in Injection(S, T)
    <2>1. f \in [S -> T] /\ \A p, q \in S : f[p] = f[q] => p = q
      BY <1>1, <1>2
    <2> HIDE DEF f
    <2> QED BY <2>1, Fun_IsInj
  <1>6. ASSUME a <= b, b < Cardinality(rows) PROVE f \in Surjection(S, T)
    <2>1. f \in [S -> T] /\ \A k \in T : \E p \in S : f[p] = k
      BY <1>1, <1>4, <1>6
    <2> HIDE DEF f
    <2> QED BY <2>1, Fun_IsSurj
  <1> HIDE DEF f
  <1>7. /\ IsFiniteSet(S) /\ Cardinality(S) <= Cardinality(T)
        /\ Cardinality(S) = Cardinality(T) <=> f \in Surjection(S, T)
    BY <1>3, <1>5, FS_Injection
  <1> QED BY <1>3, <1>6, <1>7 DEF S

-----------------------------------------------------------------------------
(* A walk, as a value w, over a list that has the given rows.               *)

Walks ==
  [pc : {"idle", "count", "items", "done"}, byTotal : BOOLEAN,
   list : [user : Users \cup {NoUser}, status : PurchaseStatus \cup {"any"}],
   offset : Nat, total : Nat, owed : SUBSET Purchases, left : Nat, entered : Nat]

UnderWay(w) == w.pc \in {"count", "items"}

\* The rows that are owed although their page has been read.
Passed(w, ord, rows) == {p \in w.owed : RankIn(ord, rows, p) < w.offset}

\* The inductive invariant of a walk: owed rows slip to pages that have been read one by
\* one, each as a row leaves, and the total is short only by the rows that entered.
WalkFits(w, ord, rows) ==
  /\ UnderWay(w) =>
       /\ w.owed \subseteq rows
       /\ Cardinality(Passed(w, ord, rows)) <= w.left
       /\ w.list.status = "any" => w.left = 0
  /\ w.pc = "items" => Cardinality(rows) <= w.total + w.entered
  /\ w.pc = "done" => Cardinality(w.owed) <= w.left

\* What Watch does to a walk when the rows of its list become new.
Watched(w, rows, new) ==
  [w EXCEPT !.owed = @ \cap new,
            !.left = @ + Cardinality(rows \ new),
            !.entered = @ + IF w.pc = "items" THEN Cardinality(new \ rows) ELSE 0]

\* A watched walk is a walk through the same list.
LEMMA WatchedWalk ==
  ASSUME NEW w \in Walks, NEW rows, NEW new, IsFiniteSet(rows), IsFiniteSet(new)
  PROVE  Watched(w, rows, new) \in Walks /\ Watched(w, rows, new).list = w.list
  <1> DEFINE gain == IF w.pc = "items" THEN Cardinality(new \ rows) ELSE 0
  <1>1. IsFiniteSet(rows \ new) /\ IsFiniteSet(new \ rows)
    BY FS_Difference
  <1>2. Cardinality(rows \ new) \in Nat /\ gain \in Nat
    BY <1>1, FS_CardinalityType
  <1>3. Watched(w, rows, new) =
          [w EXCEPT !.owed = w.owed \cap new,
                    !.left = w.left + Cardinality(rows \ new),
                    !.entered = w.entered + gain]
    BY DEF Watched, Walks
  <1> HIDE DEF gain
  <1>4. ASSUME NEW a \in SUBSET Purchases, NEW b \in Nat, NEW c \in Nat
        PROVE  [w EXCEPT !.owed = a, !.left = b, !.entered = c] \in Walks
    BY DEF Walks
  <1>5. /\ w.owed \cap new \in SUBSET Purchases
        /\ w.left + Cardinality(rows \ new) \in Nat /\ w.entered + gain \in Nat
    BY <1>2 DEF Walks
  <1>6. Watched(w, rows, new) \in Walks
    BY <1>3, <1>4, <1>5
  <1>7. Watched(w, rows, new).list = w.list
    BY <1>3 DEF Walks
  <1> QED BY <1>6, <1>7

\* The fields of a watched walk.
LEMMA WatchedFields ==
  ASSUME NEW w \in Walks, NEW rows, NEW new
  PROVE  /\ Watched(w, rows, new).pc = w.pc
         /\ Watched(w, rows, new).list = w.list
         /\ Watched(w, rows, new).offset = w.offset
         /\ Watched(w, rows, new).total = w.total
         /\ Watched(w, rows, new).owed = w.owed \cap new
         /\ Watched(w, rows, new).left = w.left + Cardinality(rows \ new)
         /\ w.pc = "items" =>
              Watched(w, rows, new).entered = w.entered + Cardinality(new \ rows)
  BY DEF Watched, Walks

\* Rows that enter only push others back, so that none slips.
LEMMA EntryFits ==
  ASSUME NEW w \in Walks, UnderWay(w), NEW ord, NEW after, NEW rows, NEW new,
         IsFiniteSet(new), rows \subseteq new, \A p \in rows : ord[p] \subseteq after[p],
         WalkFits(w, ord, rows)
  PROVE  WalkFits(Watched(w, rows, new), after, new)
  <1> DEFINE v == Watched(w, rows, new)
  <1>0. IsFiniteSet(rows)
    BY FS_Subset
  <1>1. /\ v.pc = w.pc /\ v.list = w.list /\ v.offset = w.offset /\ v.total = w.total
        /\ v.owed = w.owed \cap new /\ v.left = w.left + Cardinality(rows \ new)
        /\ w.pc = "items" => v.entered = w.entered + Cardinality(new \ rows)
    BY <1>0, WatchedFields
  <1> HIDE DEF v
  <1>2. v.owed = w.owed /\ v.left = w.left
    <2>1. rows \ new = {} /\ w.owed \subseteq rows /\ w.left \in Nat
      BY DEF WalkFits, Walks
    <2> QED BY <1>1, <2>1, FS_EmptySet
  <1>3. Cardinality(Passed(v, after, new)) <= Cardinality(Passed(w, ord, rows))
    <2>1. Passed(v, after, new) \in SUBSET Passed(w, ord, rows)
      <3> SUFFICES ASSUME NEW p \in w.owed, RankIn(after, new, p) < w.offset
                   PROVE  RankIn(ord, rows, p) < w.offset
        BY <1>1, <1>2 DEF Passed
      <3>1. ord[p] \cap rows \in SUBSET (after[p] \cap new)
        BY DEF WalkFits
      <3>2. IsFiniteSet(after[p] \cap new)
        BY FS_Intersection
      <3>3. RankIn(ord, rows, p) <= RankIn(after, new, p)
        BY <3>1, <3>2, FS_Subset DEF RankIn
      <3>4. RankIn(ord, rows, p) \in Nat /\ RankIn(after, new, p) \in Nat /\ w.offset \in Nat
        BY <1>0, RankType DEF Walks
      <3> QED BY <3>3, <3>4
    <2>2. Passed(w, ord, rows) \in SUBSET rows
      BY DEF Passed, WalkFits
    <2>3. IsFiniteSet(Passed(w, ord, rows))
      BY <1>0, <2>2, FS_Subset
    <2> QED BY <2>1, <2>3, FS_Subset
  <1>4. Cardinality(Passed(v, after, new)) <= v.left
    <2>1. IsFiniteSet(Passed(w, ord, rows)) /\ IsFiniteSet(Passed(v, after, new))
      <3>1. Passed(w, ord, rows) \in SUBSET rows /\ Passed(v, after, new) \in SUBSET rows
        BY <1>2 DEF Passed, WalkFits
      <3> QED BY <1>0, <3>1, FS_Subset
    <2>2. /\ Cardinality(Passed(w, ord, rows)) \in Nat
          /\ Cardinality(Passed(v, after, new)) \in Nat /\ w.left \in Nat
      BY <2>1, FS_CardinalityType DEF Walks
    <2> QED BY <1>2, <1>3, <2>2 DEF WalkFits
  <1>5. w.pc = "items" => Cardinality(new) <= v.total + v.entered
    <2>1. IsFiniteSet(new \ rows) /\ Cardinality(new \ rows) = Cardinality(new) - Cardinality(rows)
      <3>1. new \cap rows = rows
        OBVIOUS
      <3> QED BY <3>1, FS_Difference
    <2>2. Cardinality(new) \in Nat /\ Cardinality(rows) \in Nat /\ Cardinality(new \ rows) \in Nat
      BY <1>0, <2>1, FS_CardinalityType
    <2>3. w.total \in Nat /\ w.entered \in Nat
      BY DEF Walks
    <2>4. w.pc = "items" => Cardinality(rows) <= w.total + w.entered
      BY DEF WalkFits
    <2> QED BY <1>1, <2>1, <2>2, <2>3, <2>4
  <1>6. v.owed \subseteq new /\ (v.list.status = "any" => v.left = 0)
    BY <1>1, <1>2 DEF WalkFits
  <1> QED BY <1>1, <1>4, <1>5, <1>6 DEF WalkFits, UnderWay, v

\* A row that leaves pulls those behind it forward by one, of which at most one slips.
LEMMA ExitFits ==
  ASSUME NEW w \in Walks, UnderWay(w), NEW ord, NEW E, TotalOrder(ord, E),
         NEW rows \in SUBSET E, IsFiniteSet(rows), NEW x \in rows,
         w.list.status # "any", WalkFits(w, ord, rows)
  PROVE  WalkFits(Watched(w, rows, rows \ {x}), ord, rows \ {x})
  <1> DEFINE new == rows \ {x}
             v == Watched(w, rows, new)
             slips == Ranked(ord, rows, w.offset, w.offset)
  <1>0. IsFiniteSet(new) /\ Cardinality(new) = Cardinality(rows) - 1
    BY FS_RemoveElement
  <1>1. rows \ new = {x} /\ new \ rows = {} /\ new \subseteq rows
    OBVIOUS
  <1> HIDE DEF new
  <1>2. /\ v.pc = w.pc /\ v.list = w.list /\ v.offset = w.offset /\ v.total = w.total
        /\ v.owed = w.owed \cap new /\ v.left = w.left + 1
        /\ w.pc = "items" => v.entered = w.entered
    <2>1. Cardinality(rows \ new) = 1 /\ Cardinality(new \ rows) = 0 /\ w.entered \in Nat
      BY <1>1, FS_Singleton, FS_EmptySet DEF Walks
    <2> QED BY <1>0, <2>1, WatchedFields
  <1> HIDE DEF v
  <1>3. w.offset \in Nat /\ w.left \in Nat /\ w.total \in Nat /\ w.entered \in Nat
    BY DEF Walks
  <1>4. Passed(v, ord, new) \in SUBSET (Passed(w, ord, rows) \cup slips)
    <2> SUFFICES ASSUME NEW p \in w.owed, RankIn(ord, new, p) < w.offset, p \in rows
                 PROVE  RankIn(ord, rows, p) \in 0 .. w.offset
      <3>1. w.owed \subseteq rows
        BY DEF WalkFits
      <3>2. \A p \in rows : RankIn(ord, rows, p) \in Nat
        BY RankType
      <3> QED BY <1>2, <1>3, <3>1, <3>2 DEF Passed, Ranked
    <2>1. (ord[p] \cap rows) \ {x} = ord[p] \cap new
      BY DEF new
    <2>2. IsFiniteSet(ord[p] \cap rows)
      BY FS_Intersection
    <2>3. Cardinality(ord[p] \cap rows) \in Nat /\ Cardinality(ord[p] \cap new) \in Nat
      BY <1>0, RankType DEF RankIn
    <2>4. Cardinality(ord[p] \cap new) \in
            {Cardinality(ord[p] \cap rows), Cardinality(ord[p] \cap rows) - 1}
      BY <2>1, <2>2, FS_RemoveElement
    <2> QED BY <1>3, <2>3, <2>4 DEF RankIn
  <1>5. Cardinality(Passed(v, ord, new)) <= v.left
    <2> DEFINE P == Passed(w, ord, rows)
    <2>1. IsFiniteSet(P)
      <3>1. P \in SUBSET rows
        BY DEF Passed, WalkFits
      <3> QED BY <3>1, FS_Subset
    <2>2. IsFiniteSet(slips) /\ Cardinality(slips) <= 1
      BY <1>3, RankedCount
    <2>3. Cardinality(P) <= w.left
      BY DEF WalkFits
    <2> HIDE DEF P, slips
    <2>4. /\ IsFiniteSet(P \cup slips)
          /\ Cardinality(P \cup slips) = Cardinality(P) + Cardinality(slips) - Cardinality(P \cap slips)
      BY <2>1, <2>2, FS_Union
    <2>5. IsFiniteSet(P \cap slips)
      BY <2>1, FS_Intersection
    <2>6. IsFiniteSet(Passed(v, ord, new)) /\ Cardinality(Passed(v, ord, new)) <= Cardinality(P \cup slips)
      BY <1>4, <2>4, FS_Subset DEF P
    <2>7. /\ Cardinality(P) \in Nat /\ Cardinality(slips) \in Nat
          /\ Cardinality(P \cap slips) \in Nat /\ Cardinality(P \cup slips) \in Nat
          /\ Cardinality(Passed(v, ord, new)) \in Nat
      BY <2>1, <2>2, <2>4, <2>5, <2>6, FS_CardinalityType
    <2> QED BY <1>2, <1>3, <2>2, <2>3, <2>4, <2>6, <2>7
  <1>6. w.pc = "items" => Cardinality(new) <= v.total + v.entered
    <2>1. Cardinality(rows) \in Nat
      BY FS_CardinalityType
    <2>2. w.pc = "items" => Cardinality(rows) <= w.total + w.entered
      BY DEF WalkFits
    <2> QED BY <1>0, <1>2, <1>3, <2>1, <2>2
  <1>7. v.owed \subseteq new
    BY <1>2
  <1> QED BY <1>2, <1>5, <1>6, <1>7 DEF WalkFits, UnderWay, v, new

\* Reading a page: what is still owed of the pages read so far had slipped; after a page
\* that is not full there is nothing behind it; and behind a page that reaches the total
\* there are only rows that entered.
LEMMA PageFits ==
  ASSUME NEW w \in Walks, w.pc = "items", NEW ord, NEW E, TotalOrder(ord, E),
         NEW rows \in SUBSET E, IsFiniteSet(rows), WalkFits(w, ord, rows),
         NEW upTo, upTo = w.offset + PageSize,
         NEW page, page = Ranked(ord, rows, w.offset, upTo - 1),
         NEW missed, missed = w.owed \ page
  PROVE  /\ Cardinality({p \in missed : RankIn(ord, rows, p) < upTo}) <= w.left
         /\ Cardinality(page) < PageSize => Cardinality(missed) <= w.left
         /\ upTo >= w.total => Cardinality(missed) <= w.left + w.entered
  <1> DEFINE P == Passed(w, ord, rows)
             n == Cardinality(rows)
             behind == Ranked(ord, rows, upTo, n - 1)
             slipped == {p \in missed : RankIn(ord, rows, p) < upTo}
  <1>0. /\ w.offset \in Nat /\ w.left \in Nat /\ w.total \in Nat /\ w.entered \in Nat
        /\ PageSize \in Nat /\ PageSize > 0 /\ upTo \in Nat /\ n \in Nat
    BY ListingsAssumption, FS_CardinalityType DEF Walks
  <1>1. /\ w.owed \subseteq rows /\ Cardinality(P) <= w.left /\ n <= w.total + w.entered
    BY DEF WalkFits, UnderWay
  <1>2. \A p \in rows : RankIn(ord, rows, p) \in 0 .. n - 1
    BY RanksNumber
  <1>3. /\ P \in SUBSET rows /\ slipped \in SUBSET P
        /\ missed \in SUBSET (P \cup behind)
        /\ n <= upTo => missed \in SUBSET P
    BY <1>0, <1>1, <1>2 DEF Passed, Ranked
  <1>4. IsFiniteSet(P) /\ Cardinality(P) \in Nat
    <2>1. IsFiniteSet(P)
      BY <1>3, FS_Subset
    <2> QED BY <2>1, FS_CardinalityType
  <1>5. /\ IsFiniteSet(behind) /\ Cardinality(behind) \in Nat
        /\ Cardinality(behind) <= IF upTo > n - 1 THEN 0 ELSE n - 1 - upTo + 1
    <2>1. n - 1 \in Int
      BY <1>0
    <2>2. /\ IsFiniteSet(behind)
          /\ Cardinality(behind) <= IF upTo > n - 1 THEN 0 ELSE n - 1 - upTo + 1
      BY <1>0, <2>1, RankedCount
    <2> QED BY <2>2, FS_CardinalityType
  <1>6. Cardinality(page) < PageSize => n < upTo
    <2>1. w.offset <= upTo - 1 /\ upTo - 1 \in Int
      BY <1>0
    <2>2. upTo - 1 < n => Cardinality(page) = upTo - 1 - w.offset + 1
      BY <1>0, <2>1, RankedCount
    <2> QED BY <1>0, <2>2
  <1> HIDE DEF P, n, behind, slipped
  <1>7. Cardinality(slipped) <= w.left
    <2>1. IsFiniteSet(slipped) /\ Cardinality(slipped) <= Cardinality(P)
      BY <1>3, <1>4, FS_Subset
    <2>2. Cardinality(slipped) \in Nat
      BY <2>1, FS_CardinalityType
    <2> QED BY <1>0, <1>1, <1>4, <2>1, <2>2
  <1>8. n <= upTo => Cardinality(missed) <= w.left
    <2> SUFFICES ASSUME n <= upTo PROVE Cardinality(missed) <= w.left
      OBVIOUS
    <2>1. IsFiniteSet(missed) /\ Cardinality(missed) <= Cardinality(P)
      BY <1>3, <1>4, FS_Subset
    <2>2. Cardinality(missed) \in Nat
      BY <2>1, FS_CardinalityType
    <2> QED BY <1>0, <1>1, <1>4, <2>1, <2>2
  <1>9. upTo >= w.total => Cardinality(missed) <= w.left + w.entered
    <2> SUFFICES ASSUME upTo >= w.total PROVE Cardinality(missed) <= w.left + w.entered
      OBVIOUS
    <2>1. /\ IsFiniteSet(P \cup behind)
          /\ Cardinality(P \cup behind) = Cardinality(P) + Cardinality(behind) - Cardinality(P \cap behind)
      BY <1>4, <1>5, FS_Union
    <2>2. IsFiniteSet(P \cap behind)
      BY <1>4, FS_Intersection
    <2>3. IsFiniteSet(missed) /\ Cardinality(missed) <= Cardinality(P \cup behind)
      BY <1>3, <2>1, FS_Subset
    <2>4. /\ Cardinality(P \cup behind) \in Nat /\ Cardinality(P \cap behind) \in Nat
          /\ Cardinality(missed) \in Nat
      BY <2>1, <2>2, <2>3, FS_CardinalityType
    <2>5. Cardinality(behind) <= w.entered
      BY <1>0, <1>1, <1>5
    <2> QED BY <1>0, <1>1, <1>4, <1>5, <2>1, <2>3, <2>4, <2>5
  <1> QED BY <1>0, <1>6, <1>7, <1>8, <1>9 DEF slipped

-----------------------------------------------------------------------------
(* The table under a walk.                                                  *)

\* The rows of list l in a table.
MatchingIn(table, l) ==
  {p \in Purchases : /\ table[p].status # "absent"
                     /\ l.user # NoUser => table[p].user = l.user
                     /\ l.status # "any" => table[p].status = l.status}

\* There are finitely many rows, and created_at puts them in order.
TableOK ==
  /\ IsFiniteSet(Existing)
  /\ newer \in [Purchases -> SUBSET Purchases]
  /\ TotalOrder(newer, Existing)

WalkOK == walk \in Walks /\ WalkFits(walk, newer, Matching(walk.list))

LInv == IInv /\ TableOK /\ WalkOK

\* The matching rows, now and after a step.
LEMMA MatchingRows ==
  /\ \A l : Matching(l) = MatchingIn(purchase, l)
  /\ Matching(walk.list)' = MatchingIn(purchase', walk'.list)
  /\ Existing' = {p \in Purchases : purchase'[p].status # "absent"}
  /\ \A l : Matching(l) \subseteq Existing
  BY DEF Matching, MatchingIn, ListPurchases, Existing, BuildConditions

\* A commit reaches a walk that is under way as Watched says, and no other.
LEMMA WatchEffect ==
  ASSUME Watch
  PROVE  walk' = IF walk.pc \in {"idle", "done"}
                   THEN walk
                   ELSE Watched(walk, MatchingIn(purchase, walk.list),
                                      MatchingIn(purchase', walk.list))
  <1>1. CASE walk.pc \in {"idle", "done"}
    BY <1>1 DEF Watch
  <1>2. CASE walk.pc \notin {"idle", "done"}
    <2>1. PICK l \in {walk.list} :
            walk' = [walk EXCEPT !.owed = @ \cap Matching(l)',
                                 !.left = @ + Cardinality(Matching(l) \ Matching(l)'),
                                 !.entered = @ + IF walk.pc = "items"
                                                   THEN Cardinality(Matching(l)' \ Matching(l))
                                                   ELSE 0]
      BY <1>2 DEF Watch
    <2>2. l = walk.list
      OBVIOUS
    <2>3. Matching(l) = MatchingIn(purchase, l) /\ Matching(l)' = MatchingIn(purchase', l)
      BY DEF Matching, MatchingIn, ListPurchases, Existing, BuildConditions
    <2>4. walk' = Watched(walk, MatchingIn(purchase, l), MatchingIn(purchase', l))
      BY <2>1, <2>3 DEF Watched
    <2> QED BY <1>2, <2>2, <2>4
  <1> QED BY <1>1, <1>2

\* A new row takes its place in the order and leaves that of the others.
LEMMA IngestTable ==
  ASSUME LInv, NEW p \in Purchases, NEW u \in Users, NEW a \in Amounts, CommitIngest(p, u, a)
  PROVE  /\ TableOK'
         /\ \A q \in Existing : newer[q] \subseteq newer'[q]
         /\ \A l : MatchingIn(purchase, l) \subseteq MatchingIn(purchase', l)
  <1>0. /\ purchase \in [Purchases -> PurchaseRow] /\ IsFiniteSet(Existing)
        /\ newer \in [Purchases -> SUBSET Purchases] /\ TotalOrder(newer, Existing)
    BY DEF LInv, IInv, TypeOK, TableOK
  <1>1. /\ purchase[p].status = "absent"
        /\ purchase' = [purchase EXCEPT ![p] = NewPurchase(u, a)]
    BY DEF CommitIngest, Ingest
  <1>2. PICK later \in SUBSET Existing :
          /\ \A q \in later : newer[q] \subseteq later
          /\ newer' = [q \in Purchases |->
                         IF q = p THEN later
                         ELSE IF q \in Existing \ later THEN newer[q] \cup {p} ELSE newer[q]]
    BY DEF CommitIngest
  <1>3. p \notin Existing /\ Existing' = Existing \cup {p} /\ Existing \subseteq Purchases
    BY <1>0, <1>1 DEF Existing, NewPurchase
  <1>4. \A l : MatchingIn(purchase, l) \subseteq MatchingIn(purchase', l)
    BY <1>0, <1>1 DEF MatchingIn
  <1> DEFINE E == Existing
             new == newer'
  <1>5. /\ new[p] = later
        /\ \A q \in later : new[q] = newer[q]
        /\ \A q \in E \ later : new[q] = newer[q] \cup {p}
    BY <1>2, <1>3
  <1>6. new \in [Purchases -> SUBSET Purchases]
    BY <1>0, <1>2, <1>3
  <1>7. \A q \in E : newer[q] \subseteq new[q]
    BY <1>5
  <1>8. TotalOrder(newer, E)
    BY <1>0
  <1>9. p \notin E /\ later \subseteq E /\ \A q \in later : newer[q] \subseteq later
    BY <1>2, <1>3
  <1> HIDE DEF E, new
  <1>10. TotalOrder(new, E \cup {p})
    <2>1. ASSUME NEW q \in E \cup {p} PROVE q \notin new[q] /\ new[q] \subseteq E \cup {p}
      BY <1>5, <1>8, <1>9 DEF TotalOrder
    <2>2. ASSUME NEW q \in E \cup {p}, NEW r \in E \cup {p}, q # r
          PROVE  q \in new[r] <=> r \notin new[q]
      <3>1. CASE q = p
        BY <1>5, <1>8, <1>9, <2>2, <3>1 DEF TotalOrder
      <3>2. CASE r = p
        BY <1>5, <1>8, <1>9, <2>2, <3>2 DEF TotalOrder
      <3>3. CASE q # p /\ r # p
        <4>1. q \in newer[r] <=> r \notin newer[q]
          BY <1>8, <2>2, <3>3 DEF TotalOrder
        <4> QED BY <1>5, <1>9, <3>3, <4>1
      <3> QED BY <3>1, <3>2, <3>3
    <2>3. ASSUME NEW q \in E \cup {p}, NEW r \in E \cup {p}, r \in new[q]
          PROVE  new[r] \subseteq new[q]
      <3>1. CASE q = p
        BY <1>5, <1>9, <2>3, <3>1
      <3>2. CASE r = p
        <4>1. q \in E \ later /\ new[q] = newer[q] \cup {p}
          BY <1>5, <1>8, <1>9, <2>1, <2>3, <3>2 DEF TotalOrder
        <4>2. \A x \in later : x \in newer[q]
          BY <1>8, <1>9, <4>1 DEF TotalOrder
        <4> QED BY <1>5, <3>2, <4>1, <4>2
      <3>3. CASE q # p /\ r # p
        <4>1. r \in newer[q]
          BY <1>5, <2>3, <3>3
        <4>2. newer[r] \subseteq newer[q]
          BY <1>8, <3>3, <4>1 DEF TotalOrder
        <4>3. q \in later => r \in later
          BY <1>9, <4>1
        <4> QED BY <1>5, <3>3, <4>2, <4>3
      <3> QED BY <3>1, <3>2, <3>3
    <2> QED BY <2>1, <2>2, <2>3 DEF TotalOrder
  <1>11. IsFiniteSet(E \cup {p})
    BY <1>0, FS_AddElement DEF E
  <1>12. TableOK'
    <2>1. IsFiniteSet(Existing') /\ TotalOrder(newer', Existing')
          /\ newer' \in [Purchases -> SUBSET Purchases]
      BY <1>3, <1>6, <1>10, <1>11 DEF E, new
    <2> QED BY <2>1 DEF TableOK, TotalOrder
  <1> QED BY <1>4, <1>7, <1>12 DEF E, new

\* A settlement moves one row, which may enter or leave a list that has a status filter.
LEMMA SettlementTable ==
  ASSUME LInv, NEW p \in Purchases, CommitSettlement(p)
  PROVE  /\ TableOK' /\ newer' = newer
         /\ \A l : \/ MatchingIn(purchase, l) \subseteq MatchingIn(purchase', l)
                   \/ /\ p \in MatchingIn(purchase, l)
                      /\ MatchingIn(purchase', l) = MatchingIn(purchase, l) \ {p}
                      /\ l.status # "any"
  <1>0. purchase \in [Purchases -> PurchaseRow] /\ TableOK
    BY DEF LInv, IInv, TypeOK
  <1>1. purchase[p].status # "absent"
    BY DEF CommitSettlement, Confirm, Reject, Reverse, EnforcePurchasePending,
       EnforcePurchaseReversible
  <1>2. /\ purchase'[p].status # "absent" /\ purchase'[p].user = purchase[p].user
        /\ \A q \in Purchases \ {p} : purchase'[q] = purchase[q]
    <2>1. CASE Confirm(p)
      BY <1>0, <2>1 DEF Confirm, UpdateStatus
    <2>2. CASE Reject(p)
      BY <1>0, <2>2 DEF Reject, UpdateStatus
    <2>3. CASE Reverse(p)
      BY <1>0, <2>3 DEF Reverse, MarkReversed
    <2> QED BY <2>1, <2>2, <2>3 DEF CommitSettlement
  <1>3. newer' = newer
    BY DEF CommitSettlement
  <1>4. Existing' = Existing
    BY <1>1, <1>2 DEF Existing
  <1>5. TableOK'
    BY <1>0, <1>3, <1>4 DEF TableOK, TotalOrder
  <1>6. ASSUME NEW l
        PROVE  \/ MatchingIn(purchase, l) \subseteq MatchingIn(purchase', l)
               \/ /\ p \in MatchingIn(purchase, l)
                  /\ MatchingIn(purchase', l) = MatchingIn(purchase, l) \ {p}
                  /\ l.status # "any"
    <2>1. \A q \in Purchases \ {p} :
            q \in MatchingIn(purchase, l) <=> q \in MatchingIn(purchase', l)
      BY <1>2 DEF MatchingIn
    <2>2. l.status = "any" => (p \in MatchingIn(purchase, l) <=> p \in MatchingIn(purchase', l))
      BY <1>1, <1>2 DEF MatchingIn
    <2>3. MatchingIn(purchase, l) \subseteq Purchases /\ MatchingIn(purchase', l) \subseteq Purchases
      BY DEF MatchingIn
    <2> QED BY <2>1, <2>2, <2>3
  <1> QED BY <1>3, <1>5, <1>6

-----------------------------------------------------------------------------
(* Every step keeps the walk in its bounds.                                 *)

\* The rows of a list are finitely many.
LEMMA ListsFinite ==
  ASSUME TableOK
  PROVE  \A l : MatchingIn(purchase, l) \in SUBSET Existing /\ IsFiniteSet(MatchingIn(purchase, l))
  <1> SUFFICES ASSUME NEW l
               PROVE  MatchingIn(purchase, l) \in SUBSET Existing
                      /\ IsFiniteSet(MatchingIn(purchase, l))
    OBVIOUS
  <1>1. MatchingIn(purchase, l) \in SUBSET Existing
    BY DEF MatchingIn, Existing
  <1> QED BY <1>1, FS_Subset DEF TableOK

\* A commit that a walk lives through.
LEMMA CommitKeepsWalk ==
  ASSUME LInv, TableOK', Watch, NEW p \in Purchases,
         \A q \in Existing : newer[q] \subseteq newer'[q],
         \A l : \/ MatchingIn(purchase, l) \subseteq MatchingIn(purchase', l)
                \/ /\ p \in MatchingIn(purchase, l)
                   /\ MatchingIn(purchase', l) = MatchingIn(purchase, l) \ {p}
                   /\ l.status # "any"
                   /\ newer' = newer
  PROVE  WalkOK'
  <1> DEFINE rows == MatchingIn(purchase, walk.list)
             new == MatchingIn(purchase', walk.list)
  <1>1. walk \in Walks /\ WalkFits(walk, newer, rows) /\ TableOK
    BY MatchingRows DEF LInv, WalkOK
  <1>2. rows \in SUBSET Existing /\ IsFiniteSet(rows) /\ TotalOrder(newer, Existing)
    BY <1>1, ListsFinite DEF TableOK
  <1>3. IsFiniteSet(new)
    <2>1. new \in SUBSET Existing'
      BY DEF MatchingIn, Existing
    <2>2. IsFiniteSet(Existing')
      BY DEF TableOK
    <2> HIDE DEF new
    <2> QED BY <2>1, <2>2, FS_Subset
  <1> HIDE DEF rows, new
  <1>4. CASE walk.pc \in {"idle", "done"}
    <2>1. walk' = walk
      BY <1>4, WatchEffect
    <2>2. WalkFits(walk', newer', MatchingIn(purchase', walk'.list))
      BY <1>1, <1>4, <2>1 DEF WalkFits, UnderWay
    <2> QED BY <1>1, <2>1, <2>2, MatchingRows DEF WalkOK, WalkFits, UnderWay, Passed, RankIn
  <1>5. CASE walk.pc \notin {"idle", "done"}
    <2>1. UnderWay(walk)
      BY <1>1, <1>5 DEF UnderWay, Walks
    <2>2. walk' = Watched(walk, rows, new)
      BY <1>5, WatchEffect DEF rows, new
    <2>3. walk' \in Walks /\ walk'.list = walk.list
      <3>1. walk \in Walks /\ IsFiniteSet(rows) /\ IsFiniteSet(new)
        BY <1>1, <1>2, <1>3
      <3>2. Watched(walk, rows, new) \in Walks /\ Watched(walk, rows, new).list = walk.list
        BY ONLY <3>1, WatchedWalk
      <3> QED BY <2>2, <3>2
    <2>4. \/ rows \subseteq new
          \/ p \in rows /\ new = rows \ {p} /\ walk.list.status # "any" /\ newer' = newer
      BY DEF rows, new
    <2>5. ASSUME rows \subseteq new PROVE WalkFits(Watched(walk, rows, new), newer', new)
      <3>1. \A q \in rows : newer[q] \subseteq newer'[q]
        BY <1>2
      <3> QED BY <1>1, <1>3, <2>1, <2>5, <3>1, EntryFits
    <2>6. ASSUME p \in rows, new = rows \ {p}, walk.list.status # "any", newer' = newer
          PROVE  WalkFits(Watched(walk, rows, new), newer', new)
      <3>1. WalkFits(Watched(walk, rows, rows \ {p}), newer, rows \ {p})
        BY <1>1, <1>2, <2>1, <2>6, ExitFits
      <3> QED BY <2>6, <3>1
    <2>7. Matching(walk.list)' = new
      BY <2>3, MatchingRows DEF new
    <2> QED BY <2>2, <2>3, <2>4, <2>5, <2>6, <2>7 DEF WalkOK, WalkFits, UnderWay, Passed, RankIn
  <1> QED BY <1>4, <1>5

\* A client's own steps leave the table alone.
LEMMA ReaderKeeps ==
  ASSUME LInv, UNCHANGED <<purchase, cashback, wallet, newer>>,
         walk' \in Walks, WalkFits(walk', newer, MatchingIn(purchase, walk'.list))
  PROVE  TableOK' /\ WalkOK'
  <1>1. Existing' = Existing
    BY DEF Existing
  <1>2. TableOK'
    BY <1>1 DEF LInv, TableOK, TotalOrder
  <1>3. Matching(walk.list)' = MatchingIn(purchase, walk'.list)
    BY MatchingRows
  <1>4. WalkOK'
    BY <1>3 DEF WalkOK, WalkFits, UnderWay, Passed, RankIn
  <1> QED BY <1>2, <1>4

\* A walk begins with everything owed and no page read.
LEMMA BeginWalkKeeps ==
  ASSUME LInv, NEW l \in Lists, NEW byTotal \in BOOLEAN, BeginWalk(l, byTotal)
  PROVE  TableOK' /\ WalkOK'
  <1> DEFINE rows == MatchingIn(purchase, l)
  <1>1. rows \in SUBSET Existing /\ IsFiniteSet(rows) /\ Existing \subseteq Purchases
    BY ListsFinite DEF LInv, Existing
  <1>2. walk' = [NoWalk EXCEPT !.pc = "count", !.list = l, !.byTotal = byTotal, !.owed = rows]
    BY MatchingRows DEF BeginWalk
  <1>3. l \in [user : Users \cup {NoUser}, status : PurchaseStatus \cup {"any"}]
    BY ListingsAssumption DEF Lists
  <1> HIDE DEF rows
  <1>4. walk' = [pc |-> "count", list |-> l, byTotal |-> byTotal, offset |-> 0, total |-> 0,
                 owed |-> rows, left |-> 0, entered |-> 0]
    BY <1>2 DEF NoWalk
  <1>5. walk' \in Walks
    BY <1>1, <1>3, <1>4 DEF Walks
  <1>6. WalkFits(walk', newer, rows)
    <2>1. Passed(walk', newer, rows) = {}
      <3>1. \A p \in rows : RankIn(newer, rows, p) \in Nat
        BY <1>1, RankType
      <3> QED BY <1>4, <3>1 DEF Passed
    <2>2. Cardinality(Passed(walk', newer, rows)) = 0
      BY <2>1, FS_EmptySet
    <2> QED BY <1>4, <2>2 DEF WalkFits, UnderWay
  <1>7. walk'.list = l /\ UNCHANGED <<purchase, cashback, wallet, newer>>
    BY <1>4 DEF BeginWalk
  <1> QED BY <1>5, <1>6, <1>7, ReaderKeeps DEF rows

\* The count is exact when it is made.
LEMMA CountRowsKeeps ==
  ASSUME LInv, CountRows
  PROVE  TableOK' /\ WalkOK'
  <1> DEFINE rows == MatchingIn(purchase, walk.list)
  <1>1. walk \in Walks /\ WalkFits(walk, newer, rows) /\ IsFiniteSet(rows) /\ walk.pc = "count"
    BY MatchingRows, ListsFinite DEF LInv, WalkOK, CountRows
  <1>2. walk' = [walk EXCEPT !.pc = "items", !.total = Cardinality(rows)]
    BY MatchingRows DEF CountRows
  <1>3. Cardinality(rows) \in Nat
    BY <1>1, FS_CardinalityType
  <1> HIDE DEF rows
  <1>4. /\ walk'.pc = "items" /\ walk'.list = walk.list /\ walk'.offset = walk.offset
        /\ walk'.owed = walk.owed /\ walk'.left = walk.left /\ walk'.entered = walk.entered
        /\ walk'.total = Cardinality(rows) /\ walk.entered \in Nat
    BY <1>1, <1>2 DEF Walks
  <1>5. walk' \in Walks
    <2>1. ASSUME NEW k \in Nat PROVE [walk EXCEPT !.pc = "items", !.total = k] \in Walks
      BY <1>1 DEF Walks
    <2> QED BY <1>2, <1>3, <2>1
  <1>6. WalkFits(walk', newer, rows)
    <2>1. Passed(walk', newer, rows) = Passed(walk, newer, rows)
      BY <1>4 DEF Passed
    <2> QED BY <1>1, <1>3, <1>4, <2>1 DEF WalkFits, UnderWay
  <1>7. UNCHANGED <<purchase, cashback, wallet, newer>>
    BY DEF CountRows
  <1> QED BY <1>4, <1>5, <1>6, <1>7, ReaderKeeps DEF rows

\* A page that is read, and the end of the walk.
LEMMA ReadItemsKeeps ==
  ASSUME LInv, ReadItems
  PROVE  TableOK' /\ WalkOK'
  <1> DEFINE rows == MatchingIn(purchase, walk.list)
             upTo == walk.offset + PageSize
             page == Ranked(newer, rows, walk.offset, upTo - 1)
             missed == walk.owed \ page
             last == IF walk.byTotal THEN upTo >= walk.total ELSE Cardinality(page) < PageSize
             extra == IF walk.byTotal THEN walk.entered ELSE 0
  <1>1. /\ walk \in Walks /\ WalkFits(walk, newer, rows) /\ walk.pc = "items"
        /\ rows \in SUBSET Existing /\ IsFiniteSet(rows) /\ TotalOrder(newer, Existing)
    BY MatchingRows, ListsFinite DEF LInv, WalkOK, ReadItems, TableOK
  <1>2. page = Page(Matching(walk.list), walk.offset, PageSize)
    <2>1. Matching(walk.list) = rows
      BY MatchingRows
    <2>2. Page(rows, walk.offset, PageSize) = page
      <3> HIDE DEF rows
      <3>1. walk.offset \in Nat /\ PageSize \in Nat
        BY <1>1, ListingsAssumption DEF Walks
      <3>2. ASSUME NEW p \in rows PROVE Rank(rows, p) = RankIn(newer, rows, p)
        BY DEF Rank, RankIn
      <3> QED BY <3>1, <3>2 DEF Page, Ranked
    <2> HIDE DEF rows, page
    <2> QED BY <2>1, <2>2
  <1>3. walk' = IF last
                  THEN [NoWalk EXCEPT !.pc = "done", !.owed = missed, !.left = walk.left + extra]
                  ELSE [walk EXCEPT !.pc = "count", !.offset = upTo, !.owed = missed,
                                    !.total = 0, !.entered = 0]
    BY <1>2 DEF ReadItems
  <1>4. /\ Cardinality({p \in missed : RankIn(newer, rows, p) < upTo}) <= walk.left
        /\ Cardinality(page) < PageSize => Cardinality(missed) <= walk.left
        /\ upTo >= walk.total => Cardinality(missed) <= walk.left + walk.entered
    <2> HIDE DEF rows, upTo, page, missed
    <2> QED BY <1>1, PageFits DEF upTo, page, missed
  <1>5. /\ upTo \in Nat /\ missed \in SUBSET Purchases /\ walk.left + extra \in Nat
        /\ walk.left \in Nat
    BY <1>1, ListingsAssumption DEF Walks
  <1>6. last => Cardinality(missed) <= walk.left + extra
    BY <1>4, <1>5
  <1>7. missed \subseteq rows
    BY <1>1 DEF WalkFits, UnderWay
  <1>8. UNCHANGED <<purchase, cashback, wallet, newer>>
    BY DEF ReadItems
  <1> HIDE DEF rows, upTo, page, missed, last, extra
  <1>9. CASE last
    <2>1. walk' = [pc |-> "done", list |-> AllPurchases, byTotal |-> FALSE, offset |-> 0,
                   total |-> 0, owed |-> missed, left |-> walk.left + extra, entered |-> 0]
      BY <1>3, <1>9 DEF NoWalk
    <2>2. walk' \in Walks
      BY <1>5, <2>1 DEF Walks, AllPurchases
    <2>3. \A other : WalkFits(walk', newer, other)
      BY <1>6, <1>9, <2>1 DEF WalkFits, UnderWay
    <2> QED BY <1>8, <2>2, <2>3, ReaderKeeps
  <1>10. CASE ~last
    <2>1. walk' = [walk EXCEPT !.pc = "count", !.offset = upTo, !.owed = missed,
                               !.total = 0, !.entered = 0]
      BY <1>3, <1>10
    <2>2. walk' \in Walks
      <3>1. ASSUME NEW k \in Nat, NEW owed \in SUBSET Purchases
            PROVE  [walk EXCEPT !.pc = "count", !.offset = k, !.owed = owed,
                                !.total = 0, !.entered = 0] \in Walks
        BY <1>1 DEF Walks
      <3> QED BY <1>5, <2>1, <3>1
    <2>3. /\ walk'.pc = "count" /\ walk'.list = walk.list /\ walk'.offset = upTo
          /\ walk'.owed = missed /\ walk'.left = walk.left
      BY <1>1, <2>1 DEF Walks
    <2>4. Passed(walk', newer, rows) = {p \in missed : RankIn(newer, rows, p) < upTo}
      BY <2>3 DEF Passed
    <2>5. walk.list.status = "any" => walk.left = 0
      BY <1>1 DEF WalkFits, UnderWay
    <2>6. WalkFits(walk', newer, rows)
      BY <1>4, <1>7, <2>3, <2>4, <2>5 DEF WalkFits, UnderWay
    <2> QED BY <1>8, <2>2, <2>3, <2>6, ReaderKeeps DEF rows
  <1> QED BY <1>9, <1>10

\* No rows, no order and no walk.
LEMMA InitLInv == ListInit => LInv
  <1> SUFFICES ASSUME ListInit PROVE LInv
    OBVIOUS
  <1>1. IInv
    BY InitIInv DEF ListInit
  <1>2. Existing = {}
    BY DEF ListInit, Init, Existing, NoPurchase
  <1>3. TableOK
    BY <1>2, FS_EmptySet DEF ListInit, TableOK, TotalOrder
  <1>4. walk = [pc |-> "idle", list |-> AllPurchases, byTotal |-> FALSE, offset |-> 0, total |-> 0,
                owed |-> {}, left |-> 0, entered |-> 0]
    BY DEF ListInit, NoWalk
  <1>5. WalkOK
    BY <1>4 DEF WalkOK, WalkFits, UnderWay, Walks, AllPurchases
  <1> QED BY <1>1, <1>3, <1>5 DEF LInv

\* Every step of a handler and of a client keeps the invariant.
LEMMA NextLInv == LInv /\ [ListNext]_listVars => LInv'
  <1> SUFFICES ASSUME LInv, [ListNext]_listVars PROVE TableOK' /\ WalkOK'
    BY ListStep, NextIInv DEF LInv
  <1>1. ASSUME NEW p \in Purchases, NEW u \in Users, NEW a \in Amounts, CommitIngest(p, u, a)
        PROVE  TableOK' /\ WalkOK'
    <2>1. Watch
      BY <1>1 DEF CommitIngest
    <2> QED BY <1>1, <2>1, IngestTable, CommitKeepsWalk
  <1>2. ASSUME NEW p \in Purchases, CommitSettlement(p) PROVE TableOK' /\ WalkOK'
    <2>1. Watch
      BY <1>2 DEF CommitSettlement
    <2> QED BY <1>2, <2>1, SettlementTable, CommitKeepsWalk
  <1>3. CASE CountRows
    BY <1>3, CountRowsKeeps
  <1>4. CASE ReadItems
    BY <1>4, ReadItemsKeeps
  <1>5. CASE UNCHANGED listVars
    <2>1. UNCHANGED <<purchase, cashback, wallet, newer>> /\ walk' = walk
      BY <1>5 DEF listVars
    <2>2. walk \in Walks /\ WalkFits(walk, newer, MatchingIn(purchase, walk.list))
      BY MatchingRows DEF LInv, WalkOK
    <2> QED BY <2>1, <2>2, ReaderKeeps
  <1> QED BY <1>1, <1>2, <1>3, <1>4, <1>5, BeginWalkKeeps DEF ListNext

\* A client that pages through a list gets every row that matched all along except one for
\* each row that left, and, if it stops by the total, one for each that entered after the
\* count: for every page size, any number of rows and any commits between its requests.
THEOREM WalksMissOnlyWhatMoved == ListSpec => []WalkMissesOnlyWhatMoved
  <1>1. LInv => WalkMissesOnlyWhatMoved
    BY DEF LInv, WalkOK, WalkFits, UnderWay, WalkMissesOnlyWhatMoved
  <1> QED BY <1>1, InitLInv, NextLInv, PTL DEF ListSpec
=============================================================================

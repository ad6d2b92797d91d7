--------------------------- MODULE LedgerRows_proofs ---------------------------
(***************************************************************************)
(* What the statements of LedgerRows do to the types of their rows, for    *)
(* the proofs about the modules that apply them.                           *)
(***************************************************************************)
EXTENDS LedgerRows, FiniteSetTheorems, TLAPS

\* What each statement makes of a row keeps the row's type.
LEMMA RowTypes ==
  /\ \A u \in Users, a \in Amounts : NewPurchase(u, a) \in PurchaseRow
  /\ \A row \in PurchaseRow : \A st \in PurchaseStatus : UpdateStatus(row, st) \in PurchaseRow
  /\ \A row \in PurchaseRow : MarkReversed(row) \in PurchaseRow
  /\ \A a \in Nat : NewCashback(a) \in CashbackRow
  /\ \A txn \in CashbackRow : CashbackConfirm(txn) \in CashbackRow
  /\ \A txn \in CashbackRow : CashbackReverse(txn) \in CashbackRow
  <1> USE RowsAssumption DEF PurchaseRow, CashbackRow, PurchaseStatus, CashbackTransactionStatus
  <1>1. \A u \in Users, a \in Amounts : NewPurchase(u, a) \in PurchaseRow
    BY DEF NewPurchase
  <1>2. \A row \in PurchaseRow : \A st \in PurchaseStatus : UpdateStatus(row, st) \in PurchaseRow
    BY DEF UpdateStatus
  <1>3. \A row \in PurchaseRow : MarkReversed(row) \in PurchaseRow
    BY DEF MarkReversed
  <1>4. \A a \in Nat : NewCashback(a) \in CashbackRow
    BY DEF NewCashback
  <1>5. \A txn \in CashbackRow : CashbackConfirm(txn) \in CashbackRow
    BY DEF CashbackConfirm
  <1>6. \A txn \in CashbackRow : CashbackReverse(txn) \in CashbackRow
    BY DEF CashbackReverse
  <1> QED BY <1>1, <1>2, <1>3, <1>4, <1>5, <1>6

\* The same for the wallet, whose balances may become negative.
LEMMA WalletTypes ==
  ASSUME NEW w \in WalletRow, NEW a \in Nat
  PROVE  /\ CreditPending(w, a) \in WalletRow
         /\ ConfirmPending(w, a) \in WalletRow
         /\ ReversePending(w, a) \in WalletRow
         /\ ReverseAvailable(w, a) \in WalletRow
  BY DEF WalletRow, CreditPending, ConfirmPending, ReversePending, ReverseAvailable

-----------------------------------------------------------------------------
(* Sums.  The library's induction theorems have the formula as a parameter, *)
(* so each induction here is a smallest counterexample: a set of finite     *)
(* sets that is not empty has a member none of whose parts is a member.     *)

\* The smallest counterexample.
LEMMA SmallestSet ==
  ASSUME NEW S, IsFiniteSet(S), NEW T, T \subseteq SUBSET S, T # {}
  PROVE  \E m \in T : \A t \in T : t \subseteq m => t = m
  <1>1. /\ IsWellFoundedOn(StrictSubsetOrdering(S), FiniteSubsetsOf(S))
        /\ FiniteSubsetsOf(S) = SUBSET S
    BY FS_FiniteSubsetsOfFinite, FS_StrictSubsetOrderingWellFounded
  <1>2. PICK m \in T : \A t \in T : <<t, m>> \notin StrictSubsetOrdering(S)
    BY <1>1, WFMin
  <1> QED BY <1>2 DEF StrictSubsetOrdering

\* The element that a sum over s takes first, and the table of the sums over the parts of S.
First(s) == CHOOSE x \in s : TRUE

IsTable(g, f, S) ==
  g = [s \in SUBSET S |-> IF s = {} THEN 0 ELSE f[First(s)] + g[s \ {First(s)}]]

\* The sum is the table's entry for S itself.
LEMMA SumIsEntry ==
  ASSUME NEW f, NEW S
  PROVE  SumFunctionOnSet(f, S) = (CHOOSE g : IsTable(g, f, S))[S]
  BY DEF SumFunctionOnSet, FoldFunctionOnSet, MapThenFoldSet, IsTable, First

\* What a table holds.
LEMMA TableEntry ==
  ASSUME NEW f, NEW S, NEW g, IsTable(g, f, S)
  PROVE  /\ g[{}] = 0
         /\ \A s \in SUBSET S : s # {} => g[s] = f[First(s)] + g[s \ {First(s)}]
  BY DEF IsTable

\* Two tables agree wherever the summed functions do.
LEMMA TablesAgree ==
  ASSUME NEW S, IsFiniteSet(S), NEW A \in SUBSET S, NEW B \in SUBSET S,
         NEW f, NEW e, NEW g, NEW h, IsTable(g, f, A), IsTable(h, e, B)
  PROVE  \A s \in SUBSET (A \cap B) : (\A x \in s : f[x] = e[x]) => g[s] = h[s]
  <1>1. /\ g[{}] = 0
        /\ \A s \in SUBSET A : s # {} => g[s] = f[First(s)] + g[s \ {First(s)}]
    BY TableEntry
  <1>2. /\ h[{}] = 0
        /\ \A s \in SUBSET B : s # {} => h[s] = e[First(s)] + h[s \ {First(s)}]
    BY ONLY IsTable(h, e, B), TableEntry
  <1> DEFINE T == {s \in SUBSET (A \cap B) : (\A x \in s : f[x] = e[x]) /\ g[s] # h[s]}
  <1>3. SUFFICES ASSUME T # {} PROVE FALSE
    OBVIOUS
  <1>4. T \subseteq SUBSET S
    OBVIOUS
  <1>5. PICK m \in T : \A t \in T : t \subseteq m => t = m
    <2> HIDE DEF T
    <2> QED BY <1>3, <1>4, SmallestSet
  <1>6. m # {}
    BY <1>1, <1>2, <1>5
  <1>7. First(m) \in m
    BY <1>6 DEF First
  <1> DEFINE r == m \ {First(m)}
  <1>8. g[m] = f[First(m)] + g[r] /\ h[m] = e[First(m)] + h[r]
    <2>1. m \in SUBSET A /\ m \in SUBSET B
      BY <1>5
    <2> QED BY <1>1, <1>2, <1>6, <2>1
  <1>9. r \notin T /\ r \in SUBSET (A \cap B) /\ \A x \in r : f[x] = e[x]
    BY <1>5, <1>7
  <1>10. g[r] = h[r]
    BY <1>9
  <1> QED BY <1>5, <1>7, <1>8, <1>10

\* There is a table for every finite set: what MapThenFoldSet chooses exists.
LEMMA TableExists ==
  ASSUME NEW S, IsFiniteSet(S), NEW f
  PROVE  \A s \in SUBSET S : \E g : IsTable(g, f, s)
  <1> DEFINE T == {s \in SUBSET S : ~\E g : IsTable(g, f, s)}
  <1>1. SUFFICES ASSUME T # {} PROVE FALSE
    OBVIOUS
  <1>2. PICK m \in T : \A t \in T : t \subseteq m => t = m
    <2>1. T \subseteq SUBSET S
      OBVIOUS
    <2> HIDE DEF T
    <2> QED BY <1>1, <2>1, SmallestSet
  <1> DEFINE Tab(t) == CHOOSE g : IsTable(g, f, t)
  <1>3. \A t \in SUBSET m : t # m => IsTable(Tab(t), f, t)
    <2> SUFFICES ASSUME NEW t \in SUBSET m, t # m PROVE IsTable(Tab(t), f, t)
      OBVIOUS
    <2>1. \E g : IsTable(g, f, t)
      BY <1>2
    <2> QED BY <2>1
  <1> DEFINE g == [t \in SUBSET m |->
                     IF t = {} THEN 0
                     ELSE f[First(t)] + Tab(t \ {First(t)})[t \ {First(t)}]]
  <1> HIDE DEF Tab
  <1>4. ASSUME NEW u \in SUBSET m, u # m PROVE g[u] = Tab(u)[u]
    <2>1. IsTable(Tab(u), f, u)
      BY <1>3, <1>4
    <2>2. CASE u = {}
      BY <2>1, <2>2, TableEntry
    <2>3. CASE u # {}
      <3> DEFINE v == u \ {First(u)}
      <3>1. v \in SUBSET u /\ v \in SUBSET m /\ v # m
        BY <1>4
      <3>2. IsTable(Tab(v), f, v)
        BY <1>3, <3>1
      <3>3. Tab(u)[u] = f[First(u)] + Tab(u)[v]
        BY <2>1, <2>3, TableEntry
      <3>4. Tab(u)[v] = Tab(v)[v]
        <4>1. m \in SUBSET S
          BY <1>2
        <4>2. u \in SUBSET S /\ v \in SUBSET S /\ v \in SUBSET (u \cap v)
          BY <3>1, <4>1
        <4> HIDE DEF v
        <4> QED BY <2>1, <3>2, <4>2, TablesAgree
      <3>5. g[u] = f[First(u)] + Tab(v)[v]
        BY <2>3
      <3> QED BY <3>3, <3>4, <3>5
    <2> QED BY <2>2, <2>3
  <1>5. ASSUME NEW t \in SUBSET m, t # {}
        PROVE  g[t] = f[First(t)] + g[t \ {First(t)}]
    <2>1. First(t) \in t
      BY <1>5 DEF First
    <2>2. t \ {First(t)} \in SUBSET m /\ t \ {First(t)} # m
      BY <2>1
    <2>3. g[t \ {First(t)}] = Tab(t \ {First(t)})[t \ {First(t)}]
      BY <1>4, <2>2
    <2> QED BY <1>5, <2>3
  <1>6. g[{}] = 0 /\ DOMAIN g = SUBSET m
    OBVIOUS
  <1>7. g = [t \in SUBSET m |-> IF t = {} THEN 0 ELSE f[First(t)] + g[t \ {First(t)}]]
    <2> DEFINE h == [t \in SUBSET m |-> IF t = {} THEN 0 ELSE f[First(t)] + g[t \ {First(t)}]]
    <2>0. g = [t \in SUBSET m |-> g[t]]
      OBVIOUS
    <2> HIDE DEF g
    <2>1. ASSUME NEW t \in SUBSET m PROVE g[t] = h[t]
      <3>1. CASE t = {}
        BY <1>6, <3>1
      <3>2. CASE t # {}
        BY <1>5, <3>2
      <3> QED BY <3>1, <3>2
    <2> QED BY <2>0, <2>1
  <1> HIDE DEF g
  <1>8. IsTable(g, f, m)
    BY <1>7 DEF IsTable
  <1> QED BY <1>2, <1>8

\* The sum of a set that is not empty: the first element and the rest.
LEMMA SumFirst ==
  ASSUME NEW f, NEW S, IsFiniteSet(S)
  PROVE  /\ S = {} => SumFunctionOnSet(f, S) = 0
         /\ S # {} => /\ First(S) \in S
                      /\ SumFunctionOnSet(f, S)
                           = f[First(S)] + SumFunctionOnSet(f, S \ {First(S)})
  <1> DEFINE Tab(t) == CHOOSE g : IsTable(g, f, t)
             r == S \ {First(S)}
  <1>1. IsTable(Tab(S), f, S) /\ IsTable(Tab(r), f, r)
    <2>1. S \in SUBSET S /\ r \in SUBSET S
      OBVIOUS
    <2> HIDE DEF r
    <2>2. (\E g : IsTable(g, f, S)) /\ (\E g : IsTable(g, f, r))
      BY <2>1, TableExists
    <2> QED BY <2>2
  <1>2. SumFunctionOnSet(f, S) = Tab(S)[S] /\ SumFunctionOnSet(f, r) = Tab(r)[r]
    BY SumIsEntry
  <1> HIDE DEF Tab
  <1>3. Tab(S)[{}] = 0 /\ (S # {} => Tab(S)[S] = f[First(S)] + Tab(S)[r])
    <2>1. /\ Tab(S)[{}] = 0
          /\ \A s \in SUBSET S : s # {} => Tab(S)[s] = f[First(s)] + Tab(S)[s \ {First(s)}]
      BY <1>1, TableEntry
    <2> QED BY <2>1
  <1>4. Tab(S)[r] = Tab(r)[r]
    <2>1. S \in SUBSET S /\ r \in SUBSET S /\ r \in SUBSET (S \cap r)
      OBVIOUS
    <2> HIDE DEF r
    <2> QED BY <1>1, <2>1, TablesAgree
  <1>5. S # {} => First(S) \in S
    BY DEF First
  <1> QED BY <1>2, <1>3, <1>4, <1>5

\* Only the values on S count.
LEMMA SumSame ==
  ASSUME NEW f, NEW e, NEW S, IsFiniteSet(S), \A x \in S : f[x] = e[x]
  PROVE  SumFunctionOnSet(f, S) = SumFunctionOnSet(e, S)
  <1> DEFINE Tab(h) == CHOOSE g : IsTable(g, h, S)
  <1>1. S \in SUBSET S /\ S \in SUBSET (S \cap S)
    OBVIOUS
  <1>2. (\E g : IsTable(g, f, S)) /\ (\E g : IsTable(g, e, S))
    BY <1>1, TableExists
  <1>3. IsTable(Tab(f), f, S) /\ IsTable(Tab(e), e, S)
    BY <1>2
  <1>4. SumFunctionOnSet(f, S) = Tab(f)[S] /\ SumFunctionOnSet(e, S) = Tab(e)[S]
    BY SumIsEntry
  <1> HIDE DEF Tab
  <1>5. \A s \in SUBSET (S \cap S) : (\A x \in s : f[x] = e[x]) => Tab(f)[s] = Tab(e)[s]
    BY ONLY IsFiniteSet(S), <1>1, <1>3, TablesAgree
  <1>6. Tab(f)[S] = Tab(e)[S]
    BY <1>1, <1>5
  <1> QED BY <1>4, <1>6

\* A sum is where its summands are.
LEMMA SumType ==
  ASSUME NEW f, NEW S, IsFiniteSet(S), NEW N, \A x \in S : f[x] \in N,
         0 \in N, \A a \in N, b \in N : a + b \in N
  PROVE  SumFunctionOnSet(f, S) \in N
  <1> DEFINE T == {s \in SUBSET S : SumFunctionOnSet(f, s) \notin N}
  <1>1. SUFFICES ASSUME T # {} PROVE FALSE
    OBVIOUS
  <1>2. PICK m \in T : \A t \in T : t \subseteq m => t = m
    <2>1. T \subseteq SUBSET S
      OBVIOUS
    <2> HIDE DEF T
    <2> QED BY <1>1, <2>1, SmallestSet
  <1> DEFINE r == m \ {First(m)}
  <1>3. m \in SUBSET S /\ SumFunctionOnSet(f, m) \notin N
    BY <1>2
  <1>4. IsFiniteSet(m)
    BY <1>3, FS_Subset
  <1>5. m # {}
    <2>1. m = {} => SumFunctionOnSet(f, m) = 0
      BY <1>4, SumFirst
    <2> QED BY <1>3, <2>1
  <1>6. First(m) \in m /\ SumFunctionOnSet(f, m) = f[First(m)] + SumFunctionOnSet(f, r)
    BY <1>4, <1>5, SumFirst
  <1>7. SumFunctionOnSet(f, r) \in N
    <2>1. r \in SUBSET S /\ r \subseteq m /\ r # m
      BY <1>3, <1>6
    <2> HIDE DEF r
    <2> QED BY <1>2, <2>1
  <1>8. f[First(m)] \in N
    BY <1>3, <1>6
  <1> HIDE DEF r, T
  <1> QED BY <1>3, <1>6, <1>7, <1>8

\* Any element may be taken first.
LEMMA SumRemove ==
  ASSUME NEW f, NEW S, IsFiniteSet(S), \A x \in S : f[x] \in Int, NEW y \in S
  PROVE  SumFunctionOnSet(f, S) = f[y] + SumFunctionOnSet(f, S \ {y})
  <1> DEFINE Sum(s) == SumFunctionOnSet(f, s)
             T == {s \in SUBSET S : \E x \in s : Sum(s) # f[x] + Sum(s \ {x})}
  <1>1. SUFFICES ASSUME T # {} PROVE FALSE
    OBVIOUS
  <1>2. PICK m \in T : \A t \in T : t \subseteq m => t = m
    <2>1. T \subseteq SUBSET S
      OBVIOUS
    <2> HIDE DEF T
    <2> QED BY <1>1, <2>1, SmallestSet
  <1>3. PICK x \in m : Sum(m) # f[x] + Sum(m \ {x})
    BY <1>2
  <1> DEFINE z == First(m)
  <1>4. m \in SUBSET S /\ m # {}
    BY <1>2, <1>3
  <1>5. IsFiniteSet(m) /\ IsFiniteSet(m \ {x}) /\ IsFiniteSet(m \ {z})
    <2>1. m \ {x} \in SUBSET S /\ m \ {z} \in SUBSET S
      BY <1>4
    <2> HIDE DEF z
    <2> QED BY <1>4, <2>1, FS_Subset
  <1>6. z \in m /\ Sum(m) = f[z] + Sum(m \ {z})
    BY <1>4, <1>5, SumFirst
  <1>7. z # x
    BY <1>3, <1>6
  <1>8. \A t \in SUBSET m : t # m => \A q \in t : Sum(t) = f[q] + Sum(t \ {q})
    <2> SUFFICES ASSUME NEW t \in SUBSET m, t # m
                 PROVE  \A q \in t : Sum(t) = f[q] + Sum(t \ {q})
      OBVIOUS
    <2> HIDE DEF Sum
    <2>1. t \in SUBSET S /\ t \notin T
      BY <1>2, <1>4
    <2> QED BY <2>1
  <1>9. /\ Sum(m \ {z}) = f[x] + Sum((m \ {z}) \ {x})
        /\ Sum(m \ {x}) = f[z] + Sum((m \ {x}) \ {z})
    <2>1. /\ m \ {z} \in SUBSET m /\ m \ {z} # m /\ x \in m \ {z}
          /\ m \ {x} \in SUBSET m /\ m \ {x} # m /\ z \in m \ {x}
      BY <1>3, <1>6, <1>7
    <2> HIDE DEF Sum, z
    <2> QED BY <1>8, <2>1
  <1>10. Sum((m \ {z}) \ {x}) = Sum((m \ {x}) \ {z})
    <2>1. (m \ {z}) \ {x} = (m \ {x}) \ {z}
      OBVIOUS
    <2> HIDE DEF Sum, z
    <2> QED BY <2>1
  <1>11. f[x] \in Int /\ f[z] \in Int /\ Sum((m \ {x}) \ {z}) \in Int
    <2>1. f[x] \in Int /\ f[z] \in Int
      BY <1>3, <1>4, <1>6
    <2>2. IsFiniteSet((m \ {x}) \ {z}) /\ \A q \in (m \ {x}) \ {z} : f[q] \in Int
      <3>1. (m \ {x}) \ {z} \in SUBSET S
        BY <1>4
      <3> HIDE DEF z
      <3> QED BY <3>1, FS_Subset
    <2> HIDE DEF z
    <2>3. SumFunctionOnSet(f, (m \ {x}) \ {z}) \in Int
      <3>1. 0 \in Int /\ \A a \in Int, b \in Int : a + b \in Int
        OBVIOUS
      <3> QED BY <2>2, <3>1, SumType
    <2> QED BY <2>1, <2>3
  <1> HIDE DEF Sum, z, T
  <1> QED BY <1>3, <1>6, <1>9, <1>10, <1>11

\* Elements that count nothing may be left out.
LEMMA SumSupport ==
  ASSUME NEW f, NEW S, IsFiniteSet(S), \A x \in S : f[x] \in Int,
         NEW B \in SUBSET S, \A x \in S \ B : f[x] = 0
  PROVE  SumFunctionOnSet(f, S) = SumFunctionOnSet(f, B)
  <1> DEFINE Sum(s) == SumFunctionOnSet(f, s)
             T == {s \in SUBSET S : B \subseteq s /\ Sum(s) # Sum(B)}
  <1>1. SUFFICES ASSUME T # {} PROVE FALSE
    OBVIOUS
  <1>2. PICK m \in T : \A t \in T : t \subseteq m => t = m
    <2>1. T \subseteq SUBSET S
      OBVIOUS
    <2> HIDE DEF T
    <2> QED BY <1>1, <2>1, SmallestSet
  <1>3. m \in SUBSET S /\ B \subseteq m /\ Sum(m) # Sum(B)
    BY <1>2
  <1>4. PICK x \in m : x \notin B
    BY <1>3
  <1>5. Sum(m \ {x}) = Sum(B)
    <2>1. m \ {x} \in SUBSET S /\ B \subseteq m \ {x} /\ m \ {x} # m /\ m \ {x} \subseteq m
      BY <1>3, <1>4
    <2> HIDE DEF Sum
    <2> QED BY <1>2, <2>1
  <1>6. IsFiniteSet(m) /\ \A q \in m : f[q] \in Int
    BY <1>3, FS_Subset
  <1>7. Sum(m) = f[x] + Sum(m \ {x})
    BY <1>4, <1>6, SumRemove
  <1>8. f[x] = 0
    BY <1>3, <1>4
  <1>9. Sum(B) \in Int
    <2>1. IsFiniteSet(B)
      BY FS_Subset
    <2>2. \A q \in B : f[q] \in Int
      OBVIOUS
    <2> QED BY <2>1, <2>2, SumType
  <1> HIDE DEF Sum, T
  <1> QED BY <1>3, <1>5, <1>7, <1>8, <1>9

\* A sum follows a change at p, where p may come to be summed or cease to be.
LEMMA SumFollows ==
  ASSUME NEW f, NEW e, NEW A, NEW B, NEW p, IsFiniteSet(A), A \ {p} = B \ {p},
         \A x \in A : f[x] \in Int, \A x \in B : e[x] \in Int,
         \A x \in A \ {p} : f[x] = e[x]
  PROVE  /\ IsFiniteSet(B)
         /\ SumFunctionOnSet(f, A) \in Int
         /\ SumFunctionOnSet(e, B) \in Int
         /\ SumFunctionOnSet(e, B) - SumFunctionOnSet(f, A) =
              (IF p \in B THEN e[p] ELSE 0) - (IF p \in A THEN f[p] ELSE 0)
  <1> DEFINE C == A \ {p}
  <1>1. IsFiniteSet(C) /\ IsFiniteSet(B)
    <2>1. IsFiniteSet(C)
      BY FS_RemoveElement
    <2>2. B = C \/ B = C \cup {p}
      OBVIOUS
    <2> HIDE DEF C
    <2> QED BY <2>1, <2>2, FS_AddElement
  <1>2. SumFunctionOnSet(f, C) = SumFunctionOnSet(e, C)
    <2>1. \A x \in C : f[x] = e[x]
      OBVIOUS
    <2> HIDE DEF C
    <2> QED BY <1>1, <2>1, SumSame
  <1>3. SumFunctionOnSet(f, C) \in Int
    <2>1. \A x \in C : f[x] \in Int
      OBVIOUS
    <2> HIDE DEF C
    <2> QED BY <1>1, <2>1, SumType
  <1>4. SumFunctionOnSet(f, A) = (IF p \in A THEN f[p] ELSE 0) + SumFunctionOnSet(f, C)
    <2>1. CASE p \in A
      BY <2>1, SumRemove
    <2>2. CASE p \notin A
      <3>1. A = C
        BY <2>2
      <3> HIDE DEF C
      <3> QED BY <1>3, <2>2, <3>1
    <2> QED BY <2>1, <2>2
  <1>5. SumFunctionOnSet(e, B) = (IF p \in B THEN e[p] ELSE 0) + SumFunctionOnSet(e, C)
    <2>1. CASE p \in B
      <3>1. B \ {p} = C
        OBVIOUS
      <3> HIDE DEF C
      <3>2. SumFunctionOnSet(e, B) = e[p] + SumFunctionOnSet(e, B \ {p})
        BY <1>1, <2>1, SumRemove
      <3> QED BY <2>1, <3>1, <3>2
    <2>2. CASE p \notin B
      <3>1. B = C
        BY <2>2
      <3> HIDE DEF C
      <3> QED BY <1>2, <1>3, <2>2, <3>1
    <2> QED BY <2>1, <2>2
  <1> HIDE DEF C
  <1>6. (p \in A => f[p] \in Int) /\ (p \in B => e[p] \in Int)
    OBVIOUS
  <1> QED BY <1>1, <1>2, <1>3, <1>4, <1>5, <1>6

-----------------------------------------------------------------------------
(* Money.  Rows and wallets are values here, not variables, because the     *)
(* same tables are written by CashbackLedger and by PurchaseTransactions.   *)

\* A step replaces one purchase and moves each wallet by what that purchase's share of it
\* changed.
MoneyMoves(rows, new, ws, newWs) ==
  \E p \in Purchases :
    /\ \A q \in Purchases \ {p} : new[q] = rows[q]
    /\ \A u \in Users :
         /\ newWs[u].pending - ws[u].pending =
              PendingShareOf(u, new[p]) - PendingShareOf(u, rows[p])
         /\ newWs[u].available - ws[u].available =
              AvailableShareOf(u, new[p]) - AvailableShareOf(u, rows[p])

\* One purchase is replaced and its owner's wallet moved accordingly.
LEMMA OwnerCharged ==
  ASSUME NEW rows \in [Purchases -> PurchaseRow], NEW ws \in [Users -> WalletRow],
         NEW p \in Purchases, NEW o \in Users, NEW row, NEW w \in WalletRow,
         row.user = o, rows[p].user \in {o, NoUser},
         w.pending - ws[o].pending = PendingShareOf(o, row) - PendingShareOf(o, rows[p]),
         w.available - ws[o].available = AvailableShareOf(o, row) - AvailableShareOf(o, rows[p])
  PROVE  MoneyMoves(rows, [rows EXCEPT ![p] = row], ws, [ws EXCEPT ![o] = w])
  <1> DEFINE new == [rows EXCEPT ![p] = row]
             newWs == [ws EXCEPT ![o] = w]
  <1>1. new[p] = row /\ \A q \in Purchases \ {p} : new[q] = rows[q]
    OBVIOUS
  <1>2. ASSUME NEW u \in Users
        PROVE  /\ newWs[u].pending - ws[u].pending =
                    PendingShareOf(u, row) - PendingShareOf(u, rows[p])
               /\ newWs[u].available - ws[u].available =
                    AvailableShareOf(u, row) - AvailableShareOf(u, rows[p])
    <2>1. CASE u = o
      BY <2>1
    <2>2. CASE u # o
      <3>1. newWs[u] = ws[u] /\ ws[u].pending \in Int /\ ws[u].available \in Int
        BY <2>2 DEF WalletRow
      <3>2. row.user # u /\ rows[p].user # u
        BY <2>2, RowsAssumption
      <3> QED BY <3>1, <3>2 DEF PendingShareOf, AvailableShareOf
    <2> QED BY <2>1, <2>2
  <1> HIDE DEF new, newWs
  <1>3. MoneyMoves(rows, new, ws, newWs)
    BY <1>1, <1>2 DEF MoneyMoves
  <1> QED BY <1>3 DEF new, newWs

\* An ingestion credits what the new row calls for.
LEMMA IngestMoves ==
  ASSUME NEW rows \in [Purchases -> PurchaseRow], NEW ws \in [Users -> WalletRow],
         NEW p \in Purchases, NEW u \in Users, NEW a \in Amounts, rows[p].user = NoUser
  PROVE  MoneyMoves(rows, [rows EXCEPT ![p] = NewPurchase(u, a)],
                    ws, [ws EXCEPT ![u] = CreditPending(ws[u], a)])
  <1>1. a \in Nat /\ ws[u] \in WalletRow /\ NoUser # u
    BY RowsAssumption
  <1>2. CreditPending(ws[u], a) \in WalletRow
    BY <1>1, WalletTypes
  <1>3. /\ CreditPending(ws[u], a).pending - ws[u].pending = a
        /\ CreditPending(ws[u], a).available - ws[u].available = 0
    BY <1>1 DEF CreditPending, WalletRow
  <1>4. /\ PendingShareOf(u, NewPurchase(u, a)) - PendingShareOf(u, rows[p]) = a
        /\ AvailableShareOf(u, NewPurchase(u, a)) - AvailableShareOf(u, rows[p]) = 0
        /\ NewPurchase(u, a).user = u
    BY <1>1 DEF NewPurchase, PendingShareOf, AvailableShareOf, PendingShare, AvailableShare
  <1> QED BY <1>2, <1>3, <1>4, OwnerCharged

\* A settlement keeps the owner, whose wallet moves by what the row's share changed.
LEMMA SettlementMoves ==
  ASSUME NEW rows \in [Purchases -> PurchaseRow], NEW ws \in [Users -> WalletRow],
         NEW p \in Purchases, NEW row, NEW w \in WalletRow,
         NEW o \in Users, rows[p].user = o, row.user = o,
         w.pending - ws[o].pending = PendingShare(row) - PendingShare(rows[p]),
         w.available - ws[o].available = AvailableShare(row) - AvailableShare(rows[p])
  PROVE  MoneyMoves(rows, [rows EXCEPT ![p] = row], ws, [ws EXCEPT ![o] = w])
  <1>1. /\ PendingShareOf(o, row) = PendingShare(row)
        /\ PendingShareOf(o, rows[p]) = PendingShare(rows[p])
        /\ AvailableShareOf(o, row) = AvailableShare(row)
        /\ AvailableShareOf(o, rows[p]) = AvailableShare(rows[p])
    BY DEF PendingShareOf, AvailableShareOf
  <1> QED BY <1>1, OwnerCharged

\* A confirmation moves the amount from one balance to the other.
LEMMA ConfirmMoves ==
  ASSUME NEW rows \in [Purchases -> PurchaseRow], NEW ws \in [Users -> WalletRow],
         NEW p \in Purchases, rows[p].status = "pending", rows[p].user \in Users,
         NEW newWs,
         newWs = IF rows[p].amount > 0
                   THEN [ws EXCEPT ![rows[p].user] =
                           ConfirmPending(ws[rows[p].user], rows[p].amount)]
                   ELSE ws
  PROVE  MoneyMoves(rows, [rows EXCEPT ![p] = UpdateStatus(rows[p], "confirmed")], ws, newWs)
  <1> DEFINE row == rows[p]
             o == row.user
             w == IF row.amount > 0 THEN ConfirmPending(ws[o], row.amount) ELSE ws[o]
  <1>1. row.amount \in Nat /\ ws[o] \in WalletRow
    BY DEF PurchaseRow
  <1>2. w \in WalletRow
    BY <1>1, WalletTypes
  <1>3. /\ w.pending - ws[o].pending = 0 - row.amount
        /\ w.available - ws[o].available = row.amount
    BY <1>1 DEF ConfirmPending, WalletRow
  <1>4. /\ PendingShare(UpdateStatus(row, "confirmed")) - PendingShare(row) = 0 - row.amount
        /\ AvailableShare(UpdateStatus(row, "confirmed")) - AvailableShare(row) = row.amount
        /\ UpdateStatus(row, "confirmed").user = o
    BY <1>1 DEF UpdateStatus, PendingShare, AvailableShare
  <1>5. newWs = [ws EXCEPT ![o] = w]
    OBVIOUS
  <1> DEFINE new == UpdateStatus(row, "confirmed")
  <1>6. o \in Users /\ rows[p].user = o /\ new.user = o
    BY <1>4
  <1> HIDE DEF w, new, o
  <1>7. MoneyMoves(rows, [rows EXCEPT ![p] = new], ws, [ws EXCEPT ![o] = w])
    BY <1>2, <1>3, <1>4, <1>6, SettlementMoves DEF new
  <1> QED BY <1>5, <1>7 DEF new

\* A rejection takes the pending amount back.
LEMMA RejectMoves ==
  ASSUME NEW rows \in [Purchases -> PurchaseRow], NEW ws \in [Users -> WalletRow],
         NEW p \in Purchases, rows[p].status = "pending", rows[p].user \in Users,
         NEW newWs,
         newWs = IF rows[p].amount > 0
                   THEN [ws EXCEPT ![rows[p].user] =
                           ReversePending(ws[rows[p].user], rows[p].amount)]
                   ELSE ws
  PROVE  MoneyMoves(rows, [rows EXCEPT ![p] = UpdateStatus(rows[p], "rejected")], ws, newWs)
  <1> DEFINE row == rows[p]
             o == row.user
             w == IF row.amount > 0 THEN ReversePending(ws[o], row.amount) ELSE ws[o]
  <1>1. row.amount \in Nat /\ ws[o] \in WalletRow
    BY DEF PurchaseRow
  <1>2. w \in WalletRow
    BY <1>1, WalletTypes
  <1>3. w.pending - ws[o].pending = 0 - row.amount /\ w.available - ws[o].available = 0
    BY <1>1 DEF ReversePending, WalletRow
  <1>4. /\ PendingShare(UpdateStatus(row, "rejected")) - PendingShare(row) = 0 - row.amount
        /\ AvailableShare(UpdateStatus(row, "rejected")) - AvailableShare(row) = 0
        /\ UpdateStatus(row, "rejected").user = o
    BY <1>1 DEF UpdateStatus, PendingShare, AvailableShare
  <1>5. newWs = [ws EXCEPT ![o] = w]
    OBVIOUS
  <1> DEFINE new == UpdateStatus(row, "rejected")
  <1>6. o \in Users /\ rows[p].user = o /\ new.user = o
    BY <1>4
  <1> HIDE DEF w, new, o
  <1>7. MoneyMoves(rows, [rows EXCEPT ![p] = new], ws, [ws EXCEPT ![o] = w])
    BY <1>2, <1>3, <1>4, <1>6, SettlementMoves DEF new
  <1> QED BY <1>5, <1>7 DEF new

\* A reversal takes the amount from the balance it is in, if the purchase is pending or
\* confirmed.
LEMMA ReverseMoves ==
  ASSUME NEW rows \in [Purchases -> PurchaseRow], NEW ws \in [Users -> WalletRow],
         NEW p \in Purchases, rows[p].status \in {"pending", "confirmed"}, rows[p].user \in Users,
         NEW newWs,
         newWs = [ws EXCEPT ![rows[p].user] =
                    IF rows[p].status = "pending"
                      THEN ReversePending(ws[rows[p].user], rows[p].amount)
                      ELSE ReverseAvailable(ws[rows[p].user], rows[p].amount)]
  PROVE  MoneyMoves(rows, [rows EXCEPT ![p] = MarkReversed(rows[p])], ws, newWs)
  <1> DEFINE row == rows[p]
             o == row.user
             w == IF row.status = "pending" THEN ReversePending(ws[o], row.amount)
                                            ELSE ReverseAvailable(ws[o], row.amount)
  <1>1. row.amount \in Nat /\ ws[o] \in WalletRow
    BY DEF PurchaseRow
  <1>2. w \in WalletRow
    BY <1>1, WalletTypes
  <1>3. /\ w.pending - ws[o].pending = IF row.status = "pending" THEN 0 - row.amount ELSE 0
        /\ w.available - ws[o].available = IF row.status = "pending" THEN 0 ELSE 0 - row.amount
    BY <1>1 DEF ReversePending, ReverseAvailable, WalletRow
  <1>4. /\ PendingShare(MarkReversed(row)) - PendingShare(row) =
             IF row.status = "pending" THEN 0 - row.amount ELSE 0
        /\ AvailableShare(MarkReversed(row)) - AvailableShare(row) =
             IF row.status = "pending" THEN 0 ELSE 0 - row.amount
        /\ MarkReversed(row).user = o
    BY <1>1 DEF MarkReversed, PendingShare, AvailableShare
  <1>5. newWs = [ws EXCEPT ![o] = w]
    OBVIOUS
  <1> DEFINE new == MarkReversed(row)
  <1>6. o \in Users /\ rows[p].user = o /\ new.user = o
    BY <1>4
  <1> HIDE DEF w, new, o
  <1>7. MoneyMoves(rows, [rows EXCEPT ![p] = new], ws, [ws EXCEPT ![o] = w])
    BY <1>2, <1>3, <1>4, <1>6, SettlementMoves DEF new
  <1> QED BY <1>5, <1>7 DEF new

-----------------------------------------------------------------------------
(* Balances.                                                                *)

OwnedBy(rows, u) == {p \in Purchases : rows[p].user = u}

PendingShares(rows) == [p \in Purchases |-> PendingShare(rows[p])]
AvailableShares(rows) == [p \in Purchases |-> AvailableShare(rows[p])]

\* Every wallet is the sum of its owner's purchases, of which there are finitely many.
Balanced(rows, ws) ==
  \A u \in Users :
    /\ IsFiniteSet(OwnedBy(rows, u))
    /\ ws[u].pending = SumFunctionOnSet(PendingShares(rows), OwnedBy(rows, u))
    /\ ws[u].available = SumFunctionOnSet(AvailableShares(rows), OwnedBy(rows, u))

\* Shares are natural numbers.
LEMMA ShareTypes ==
  ASSUME NEW rows \in [Purchases -> PurchaseRow]
  PROVE  /\ \A p \in Purchases : PendingShares(rows)[p] = PendingShare(rows[p])
                                 /\ PendingShares(rows)[p] \in Nat
         /\ \A p \in Purchases : AvailableShares(rows)[p] = AvailableShare(rows[p])
                                 /\ AvailableShares(rows)[p] \in Nat
  BY DEF PendingShares, AvailableShares, PendingShare, AvailableShare, PurchaseRow

\* Nobody owns anything at first.
LEMMA EmptyBalanced ==
  ASSUME NEW rows, NEW ws, rows = [p \in Purchases |-> NoPurchase],
         ws = [u \in Users |-> EmptyWallet]
  PROVE  Balanced(rows, ws)
  <1> SUFFICES ASSUME NEW u \in Users
               PROVE  /\ IsFiniteSet(OwnedBy(rows, u))
                      /\ ws[u].pending = SumFunctionOnSet(PendingShares(rows), OwnedBy(rows, u))
                      /\ ws[u].available = SumFunctionOnSet(AvailableShares(rows), OwnedBy(rows, u))
    BY DEF Balanced
  <1>1. OwnedBy(rows, u) = {}
    BY RowsAssumption DEF OwnedBy, NoPurchase
  <1>2. ws[u].pending = 0 /\ ws[u].available = 0
    BY DEF EmptyWallet
  <1> QED BY <1>1, <1>2, FS_EmptySet, SumFirst

\* A step that moves money as its purchase calls for leaves every wallet balanced.
LEMMA MovesKeepBalance ==
  ASSUME NEW rows \in [Purchases -> PurchaseRow], NEW new \in [Purchases -> PurchaseRow],
         NEW ws \in [Users -> WalletRow], NEW newWs \in [Users -> WalletRow],
         MoneyMoves(rows, new, ws, newWs), Balanced(rows, ws)
  PROVE  Balanced(new, newWs)
  <1> SUFFICES ASSUME NEW u \in Users
               PROVE  /\ IsFiniteSet(OwnedBy(new, u))
                      /\ newWs[u].pending = SumFunctionOnSet(PendingShares(new), OwnedBy(new, u))
                      /\ newWs[u].available = SumFunctionOnSet(AvailableShares(new), OwnedBy(new, u))
    BY DEF Balanced
  <1> DEFINE A == OwnedBy(rows, u)
             B == OwnedBy(new, u)
  <1>1. PICK p \in Purchases :
          /\ \A q \in Purchases \ {p} : new[q] = rows[q]
          /\ newWs[u].pending - ws[u].pending =
               PendingShareOf(u, new[p]) - PendingShareOf(u, rows[p])
          /\ newWs[u].available - ws[u].available =
               AvailableShareOf(u, new[p]) - AvailableShareOf(u, rows[p])
    BY DEF MoneyMoves
  <1>2. IsFiniteSet(A) /\ ws[u].pending = SumFunctionOnSet(PendingShares(rows), A)
        /\ ws[u].available = SumFunctionOnSet(AvailableShares(rows), A)
    BY DEF Balanced
  <1>3. A \ {p} = B \ {p} /\ A \subseteq Purchases /\ B \subseteq Purchases
    BY <1>1 DEF OwnedBy
  <1>4. \A x \in A \ {p} : /\ PendingShares(rows)[x] = PendingShares(new)[x]
                           /\ AvailableShares(rows)[x] = AvailableShares(new)[x]
    BY <1>1, <1>3, ShareTypes
  <1>5. /\ (IF p \in B THEN PendingShares(new)[p] ELSE 0) = PendingShareOf(u, new[p])
        /\ (IF p \in A THEN PendingShares(rows)[p] ELSE 0) = PendingShareOf(u, rows[p])
        /\ (IF p \in B THEN AvailableShares(new)[p] ELSE 0) = AvailableShareOf(u, new[p])
        /\ (IF p \in A THEN AvailableShares(rows)[p] ELSE 0) = AvailableShareOf(u, rows[p])
    BY ShareTypes DEF OwnedBy, PendingShareOf, AvailableShareOf
  <1>6. newWs[u].pending \in Int /\ newWs[u].available \in Int
        /\ ws[u].pending \in Int /\ ws[u].available \in Int
    BY DEF WalletRow
  <1> HIDE DEF A, B
  <1>7. /\ \A x \in A : PendingShares(rows)[x] \in Int /\ AvailableShares(rows)[x] \in Int
        /\ \A x \in B : PendingShares(new)[x] \in Int /\ AvailableShares(new)[x] \in Int
    BY <1>3, ShareTypes
  <1>8. /\ IsFiniteSet(B)
        /\ SumFunctionOnSet(PendingShares(new), B) \in Int
        /\ SumFunctionOnSet(PendingShares(new), B) - SumFunctionOnSet(PendingShares(rows), A)
             = PendingShareOf(u, new[p]) - PendingShareOf(u, rows[p])
    <2> DEFINE f == PendingShares(rows)
               e == PendingShares(new)
    <2>1. /\ \A x \in A : f[x] \in Int
          /\ \A x \in B : e[x] \in Int
          /\ \A x \in A \ {p} : f[x] = e[x]
      BY <1>4, <1>7
    <2> HIDE DEF f, e
    <2>2. /\ IsFiniteSet(B)
          /\ SumFunctionOnSet(e, B) \in Int
          /\ SumFunctionOnSet(e, B) - SumFunctionOnSet(f, A) =
               (IF p \in B THEN e[p] ELSE 0) - (IF p \in A THEN f[p] ELSE 0)
      BY ONLY <1>2, <1>3, <2>1, SumFollows
    <2> QED BY <1>5, <2>2 DEF f, e
  <1>9. /\ SumFunctionOnSet(AvailableShares(new), B) \in Int
        /\ SumFunctionOnSet(AvailableShares(new), B) - SumFunctionOnSet(AvailableShares(rows), A)
             = AvailableShareOf(u, new[p]) - AvailableShareOf(u, rows[p])
    <2> DEFINE f == AvailableShares(rows)
               e == AvailableShares(new)
    <2>1. /\ \A x \in A : f[x] \in Int
          /\ \A x \in B : e[x] \in Int
          /\ \A x \in A \ {p} : f[x] = e[x]
      BY <1>4, <1>7
    <2> HIDE DEF f, e
    <2>2. /\ IsFiniteSet(B)
          /\ SumFunctionOnSet(e, B) \in Int
          /\ SumFunctionOnSet(e, B) - SumFunctionOnSet(f, A) =
               (IF p \in B THEN e[p] ELSE 0) - (IF p \in A THEN f[p] ELSE 0)
      BY ONLY <1>2, <1>3, <2>1, SumFollows
    <2> QED BY <1>5, <2>2 DEF f, e
  <1>10. newWs[u].pending = SumFunctionOnSet(PendingShares(new), B)
    BY <1>1, <1>2, <1>6, <1>8
  <1>11. newWs[u].available = SumFunctionOnSet(AvailableShares(new), B)
    BY <1>1, <1>2, <1>6, <1>9
  <1> QED BY <1>8, <1>10, <1>11 DEF B

\* A balanced wallet is not negative.
LEMMA BalancedNonNegative ==
  ASSUME NEW rows \in [Purchases -> PurchaseRow], NEW ws, Balanced(rows, ws)
  PROVE  \A u \in Users : ws[u].pending >= 0 /\ ws[u].available >= 0
  <1> SUFFICES ASSUME NEW u \in Users
               PROVE  ws[u].pending \in Nat /\ ws[u].available \in Nat
    OBVIOUS
  <1> DEFINE A == OwnedBy(rows, u)
  <1>1. IsFiniteSet(A) /\ ws[u].pending = SumFunctionOnSet(PendingShares(rows), A)
        /\ ws[u].available = SumFunctionOnSet(AvailableShares(rows), A)
    BY DEF Balanced
  <1>2. \A x \in A : PendingShares(rows)[x] \in Nat /\ AvailableShares(rows)[x] \in Nat
    BY ShareTypes DEF OwnedBy
  <1> HIDE DEF A
  <1>3. 0 \in Nat /\ \A a \in Nat, b \in Nat : a + b \in Nat
    OBVIOUS
  <1>4. SumFunctionOnSet(PendingShares(rows), A) \in Nat
    BY <1>1, <1>2, <1>3, SumType
  <1>5. SumFunctionOnSet(AvailableShares(rows), A) \in Nat
    BY <1>1, <1>2, <1>3, SumType
  <1> QED BY <1>1, <1>4, <1>5
=============================================================================

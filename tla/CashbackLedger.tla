---------------------------- MODULE CashbackLedger ----------------------------
(***************************************************************************)
(* What the purchases module promises about money: every operation on a    *)
(* purchase happens at once, on the purchase, its cashback transaction and *)
(* the owner's wallet together.  The handlers do it in several SQL         *)
(* statements of one transaction; module PurchaseTransactions models       *)
(* those and is shown to implement this one.                               *)
(***************************************************************************)
EXTENDS LedgerRows, Functions

CONSTANT
  ReverseRequests  \* statuses of the purchases admins ask to reverse

ASSUME ReverseRequestsAssumption == ReverseRequests \subseteq PurchaseStatus

VARIABLES
  purchase,  \* table purchases
  cashback,  \* table cashback_transactions, by purchase
  wallet     \* table wallets, by user

vars == <<purchase, cashback, wallet>>

-----------------------------------------------------------------------------
Init ==
  /\ purchase = [p \in Purchases |-> NoPurchase]
  /\ cashback = [p \in Purchases |-> NoCashback]
  /\ wallet = [u \in Users |-> EmptyWallet]

\* PurchaseService.ingest_purchase for a new external_id; a known one is
\* refused with DuplicatePurchaseException.
Ingest(p, u, a) ==
  /\ purchase[p].status = "absent"
  /\ purchase' = [purchase EXCEPT ![p] = NewPurchase(u, a)]
  /\ cashback' = [cashback EXCEPT ![p] = NewCashback(a)]
  /\ wallet' = [wallet EXCEPT ![u] = CreditPending(@, a)]

\* apply_purchase_confirmation, from the job or from an admin: nothing but
\* the status moves when there is no cashback.
Confirm(p) ==
  LET row == purchase[p] IN
  /\ EnforcePurchasePending(row.status)
  /\ purchase' = [purchase EXCEPT ![p] = UpdateStatus(@, "confirmed")]
  /\ IF row.amount > 0
       THEN /\ cashback' = [cashback EXCEPT ![p] = CashbackConfirm(@)]
            /\ wallet' = [wallet EXCEPT ![row.user] = ConfirmPending(@, row.amount)]
       ELSE UNCHANGED <<cashback, wallet>>

\* _reject_purchase: the amount stays on the rejected row.
Reject(p) ==
  LET row == purchase[p] IN
  /\ EnforcePurchasePending(row.status)
  /\ purchase' = [purchase EXCEPT ![p] = UpdateStatus(@, "rejected")]
  /\ IF row.amount > 0
       THEN /\ cashback' = [cashback EXCEPT ![p] = CashbackReverse(@)]
            /\ wallet' = [wallet EXCEPT ![row.user] = ReversePending(@, row.amount)]
       ELSE UNCHANGED <<cashback, wallet>>

\* Mutant: the wallet is adjusted as if every reversed purchase had been confirmed.
Reverse_ignoresPrior(p) ==
  LET row == purchase[p] IN
  /\ EnforcePurchaseReversible(row.status)
  /\ row.status \in ReverseRequests
  /\ cashback' = [cashback EXCEPT ![p] = CashbackReverse(@)]
  /\ wallet' = [wallet EXCEPT ![row.user] = ReverseAvailable(@, row.amount)]
  /\ purchase' = [purchase EXCEPT ![p] = MarkReversed(@)]

\* PurchaseService.reverse_purchase: whatever is not pending is taken to have
\* been confirmed.
Reverse(p) ==
  LET row == purchase[p] IN
  /\ EnforcePurchaseReversible(row.status)
  /\ row.status \in ReverseRequests
  /\ cashback' = [cashback EXCEPT ![p] = CashbackReverse(@)]
  /\ wallet' = [wallet EXCEPT ![row.user] =
                  IF row.status = "pending" THEN ReversePending(@, row.amount)
                                            ELSE ReverseAvailable(@, row.amount)]
  /\ purchase' = [purchase EXCEPT ![p] = MarkReversed(@)]

Next ==
  \E p \in Purchases :
    \/ \E u \in Users, a \in Amounts : Ingest(p, u, a)
    \/ Confirm(p)
    \/ Reject(p)
    \/ Reverse(p)

Spec == Init /\ [][Next]_vars

-----------------------------------------------------------------------------
(* Properties.                                                              *)

\* Rows keep the columns and statuses of their tables; wallet balances are signed.
TypeOK ==
  /\ purchase \in [Purchases -> PurchaseRow]
  /\ cashback \in [Purchases -> CashbackRow]
  /\ wallet \in [Users -> WalletRow]

PurchasesOf(u) == {p \in Purchases : purchase[p].user = u}

\* A wallet never disagrees with the purchases it was fed by: pending_balance is
\* the cashback of the owner's pending purchases and available_balance that of the
\* confirmed ones, whatever mix of ingest_purchase, confirmation, rejection and
\* reverse_purchase happened, in any order.
BalancesExact ==
  \A u \in Users :
    /\ wallet[u].pending =
         SumFunctionOnSet([p \in Purchases |-> PendingShare(purchase[p])], PurchasesOf(u))
    /\ wallet[u].available =
         SumFunctionOnSet([p \in Purchases |-> AvailableShare(purchase[p])], PurchasesOf(u))

\* No wallet balance is ever negative, although no UPDATE of WalletRepository
\* checks the balance it leaves.
BalancesNonNegative ==
  \A u \in Users : wallet[u].pending >= 0 /\ wallet[u].available >= 0

\* The cashback transaction a user sees tells the same story as the purchase: it
\* exists with it, keeps the amount that was credited at ingestion, and has the
\* status the purchase implies.  The job and the admin handlers skip the
\* transaction when there is no cashback, which leaves it pending.
CashbackAgrees ==
  \A p \in Purchases :
    LET row == purchase[p] txn == cashback[p] IN
    /\ row.status = "absent" <=> txn.status = "absent"
    /\ row.status = "absent" <=> row.user = NoUser
    /\ row.status = "pending" => txn.status = "pending"
    /\ row.status = "confirmed" =>
         txn.status = IF txn.amount > 0 THEN "available" ELSE "pending"
    /\ row.status = "rejected" =>
         txn.status = IF txn.amount > 0 THEN "reversed" ELSE "pending"
    /\ row.status = "reversed" => txn.status = "reversed"
    /\ row.amount = IF row.status = "reversed" THEN 0 ELSE txn.amount

\* What makes the balances exact, without a sum: a step of any handler changes at
\* most one purchase, and changes every wallet by exactly what that purchase's
\* contribution to it changed.
MoneyFollowsPurchase ==
  [][\E p \in Purchases :
       /\ \A q \in Purchases \ {p} : purchase'[q] = purchase[q]
       /\ \A u \in Users :
            /\ wallet'[u].pending - wallet[u].pending =
                 PendingShareOf(u, purchase'[p]) - PendingShareOf(u, purchase[p])
            /\ wallet'[u].available - wallet[u].available =
                 AvailableShareOf(u, purchase'[p]) - AvailableShareOf(u, purchase[p])]_vars
=============================================================================

------------------------------ MODULE LedgerRows ------------------------------
(***************************************************************************)
(* The rows of the three tables that carry money, and what each SQL        *)
(* statement of the repositories does to one row:                          *)
(*                                                                         *)
(*   purchases              app/purchases/models.py, repositories.py       *)
(*   cashback_transactions  app/cashback/models.py, repositories.py        *)
(*   wallets                app/wallets/models.py, repositories.py         *)
(*                                                                         *)
(* Money is a natural number of cents.  A purchase is named by its         *)
(* external_id, the unique column that identifies it to every caller.      *)
(***************************************************************************)
EXTENDS Integers

CONSTANTS
  Purchases,  \* external ids a client may submit
  Users,      \* users with a wallet
  NoUser,     \* the owner of a row that does not exist
  Amounts     \* cashback amounts the calculator may return, in cents

ASSUME RowsAssumption ==
  /\ Amounts \subseteq Nat
  /\ NoUser \notin Users

-----------------------------------------------------------------------------
(* Row types.  "absent" is the row before its INSERT is committed.          *)

PurchaseStatus == {"pending", "confirmed", "rejected", "reversed"}

CashbackTransactionStatus == {"pending", "available", "reversed"}

PurchaseRow ==
  [status : PurchaseStatus \cup {"absent"}, user : Users \cup {NoUser}, amount : Nat]

CashbackRow ==
  [status : CashbackTransactionStatus \cup {"absent"}, amount : Nat]

(* A wallet that has no row yet reads as zero balances.  paid_balance is    *)
(* written only as 0.                                                       *)
WalletRow == [pending : Int, available : Int]

NoPurchase == [status |-> "absent", user |-> NoUser, amount |-> 0]
NoCashback == [status |-> "absent", amount |-> 0]
EmptyWallet == [pending |-> 0, available |-> 0]

-----------------------------------------------------------------------------
(* Statements on a purchase row.                                            *)

NewPurchase(u, a) == [status |-> "pending", user |-> u, amount |-> a]

\* PurchaseRepository.update_status: only the status column is written; the
\* refresh that follows re-reads every other column from the row.
UpdateStatus(row, st) == [status |-> st, user |-> row.user, amount |-> row.amount]

\* Mutant: the reversal leaves the amount on the row.
MarkReversed_keepsAmount(row) == UpdateStatus(row, "reversed")

\* PurchaseRepository.reverse_purchase: status and amount in one UPDATE.
MarkReversed(row) == [status |-> "reversed", user |-> row.user, amount |-> 0]

(* Statements on a cashback transaction row.                                *)

NewCashback(a) == [status |-> "pending", amount |-> a]
CashbackConfirm(txn) == [status |-> "available", amount |-> txn.amount]

\* Mutant: a purchase status is written to the cashback transaction.
CashbackReverse_rejected(txn) == [status |-> "rejected", amount |-> txn.amount]

CashbackReverse(txn) == [status |-> "reversed", amount |-> txn.amount]

(* Statements on a wallet row: every one is a single relative UPDATE and    *)
(* none looks at the balance it leaves.                                     *)

CreditPending(w, a) == [pending |-> w.pending + a, available |-> w.available]

\* Mutant: the amount is credited without leaving the pending balance.
ConfirmPending_creditOnly(w, a) == [pending |-> w.pending, available |-> w.available + a]

ConfirmPending(w, a) == [pending |-> w.pending - a, available |-> w.available + a]

ReversePending(w, a) == [pending |-> w.pending - a, available |-> w.available]

ReverseAvailable(w, a) == [pending |-> w.pending, available |-> w.available - a]

(* Policies on the status a handler has read.                               *)

EnforcePurchasePending(st) == st = "pending"
EnforcePurchaseReversible(st) == st # "absent" /\ st # "reversed"

-----------------------------------------------------------------------------
(* What a purchase row contributes to the two balances of its owner, and of *)
(* any user u.                                                              *)

PendingShare(row) == IF row.status = "pending" THEN row.amount ELSE 0
AvailableShare(row) == IF row.status = "confirmed" THEN row.amount ELSE 0

PendingShareOf(u, row) == IF row.user = u THEN PendingShare(row) ELSE 0
AvailableShareOf(u, row) == IF row.user = u THEN AvailableShare(row) ELSE 0
=============================================================================

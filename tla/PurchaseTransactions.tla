------------------------- MODULE PurchaseTransactions -------------------------
(***************************************************************************)
(* The handlers of app/purchases at the grain of their SQL statements.     *)
(* Each API request and each settlement of the verification job runs in    *)
(* its own AsyncSession: it reads the purchase, writes the purchase, the   *)
(* cashback transaction and the wallet with one statement each, commits,   *)
(* and publishes a domain event.  Between any two statements there is an   *)
(* await, so any other session may run.                                    *)
(*                                                                         *)
(* The database is PostgreSQL at READ COMMITTED: a SELECT sees committed   *)
(* rows and takes no lock; an UPDATE (or an INSERT that meets the unique   *)
(* index) waits for the session that has written the row, then works on    *)
(* the committed row, and keeps the row locked until its session ends.     *)
(***************************************************************************)
EXTENDS LedgerRows, FiniteSets

CONSTANTS
  Sessions,         \* database sessions that may be open at the same time
  Operations,       \* operations that clients, admins and the job perform
  ReverseRequests,  \* statuses of the purchases admins ask to reverse
  SingleWriter,     \* TRUE: nobody starts on a purchase another session works on
  NoId              \* the purchase of an idle session

SettleOperations == {"job_confirm", "job_reject", "admin_confirm", "admin_reverse"}

AllOperations == SettleOperations \cup {"ingest"}

ASSUME TransactionsAssumption ==
  /\ Operations \subseteq AllOperations
  /\ ReverseRequests \subseteq PurchaseStatus
  /\ SingleWriter \in BOOLEAN
  /\ NoId \notin Purchases

VARIABLES
  purchase, cashback, wallet,  \* the committed tables
  task,   \* per session: the handler's program counter and local variables
  image,  \* per session: the uncommitted rows it has written
  locks,  \* per session: the tables in which it has written its row
  audit,  \* table audit_logs: number of rows per purchase and action
  settledBy  \* history, kept with one writer at a time: the operations that settled each
             \* purchase and did not fail afterwards

tables == <<purchase, cashback, wallet>>
trail == <<audit, settledBy>>
vars == <<purchase, cashback, wallet, task, image, locks, audit, settledBy>>

-----------------------------------------------------------------------------
Tables == {"purchase", "cashback", "wallet"}

AuditActions == {"PURCHASE_CONFIRMED", "PURCHASE_REJECTED", "PURCHASE_REVERSED"}

Pcs == {"idle", "read", "purchase", "cashback", "wallet", "commit", "publish"}

Tasks ==
  [pc : Pcs, op : AllOperations \cup {"none"}, p : Purchases \cup {NoId},
   user : Users \cup {NoUser}, amount : Nat, prior : PurchaseStatus \cup {"absent"}]

Idle == [pc |-> "idle", op |-> "none", p |-> NoId,
         user |-> NoUser, amount |-> 0, prior |-> "absent"]

NoImage == [purchase |-> NoPurchase, cashback |-> NoCashback, wallet |-> EmptyWallet]

Init ==
  /\ purchase = [p \in Purchases |-> NoPurchase]
  /\ cashback = [p \in Purchases |-> NoCashback]
  /\ wallet = [u \in Users |-> EmptyWallet]
  /\ task = [s \in Sessions |-> Idle]
  /\ image = [s \in Sessions |-> NoImage]
  /\ locks = [s \in Sessions |-> {}]
  /\ audit = [p \in Purchases |-> [a \in AuditActions |-> 0]]
  /\ settledBy = [p \in Purchases |-> {}]

(* Row locks.                                                               *)

SameRow(s, t, table) ==
  IF table = "wallet" THEN task[s].user = task[t].user ELSE task[s].p = task[t].p

\* Session s cannot write its row of the table until session t ends.
WaitsFor(s, t, table) ==
  t # s /\ table \in locks[t] /\ SameRow(s, t, table)

CanWrite(s, table) ==
  /\ task[s].pc = table
  /\ \A t \in Sessions : ~WaitsFor(s, t, table)

\* The session ends: the UnitOfWork has committed, or it is closed without a
\* commit and the database rolls back what it wrote.
Close(s) ==
  /\ task' = [task EXCEPT ![s] = Idle]
  /\ image' = [image EXCEPT ![s] = NoImage]
  /\ locks' = [locks EXCEPT ![s] = {}]

\* A statement of session s succeeds: the row image is kept and locked.
Written(s, table, row, amount, next) ==
  /\ image' = [image EXCEPT ![s][table] = row]
  /\ locks' = [locks EXCEPT ![s] = @ \cup {table}]
  /\ task' = [task EXCEPT ![s].pc = next, ![s].amount = amount]
  /\ UNCHANGED <<tables, trail>>

-----------------------------------------------------------------------------
(* Starting a handler.                                                      *)

Free(s, p) ==
  /\ task[s].pc = "idle"
  /\ SingleWriter =>
       \A t \in Sessions : task[t].p = p => task[t].pc = "publish"

\* POST /purchases with amount a of cashback computed for user u.
StartIngest(s, p, u, a) ==
  /\ "ingest" \in Operations
  /\ Free(s, p)
  /\ task' = [task EXCEPT ![s] =
       [Idle EXCEPT !.pc = "read", !.op = "ingest", !.p = p, !.user = u, !.amount = a]]
  /\ UNCHANGED <<tables, image, locks, trail>>

\* The job settles a purchase, or an admin confirms or reverses it.
StartSettle(s, op, p) ==
  /\ op \in Operations \cap SettleOperations
  /\ Free(s, p)
  /\ op = "admin_reverse" => purchase[p].status \in ReverseRequests
  /\ task' = [task EXCEPT ![s] = [Idle EXCEPT !.pc = "read", !.op = op, !.p = p]]
  /\ UNCHANGED <<tables, image, locks, trail>>

(* The SELECT of the handler and the policy on what it returned.            *)

\* Mutant: the confirmations do not look at the status.
Accepts_noPolicy(op, st) ==
  CASE op = "ingest" -> st = "absent"
    [] op = "admin_reverse" -> EnforcePurchaseReversible(st)
    [] OTHER -> st # "absent"

Accepts(op, st) ==
  CASE op = "ingest" -> st = "absent"
    [] op = "admin_reverse" -> EnforcePurchaseReversible(st)
    [] OTHER -> EnforcePurchasePending(st)

\* Mutant: the rejection writes in the order of the reversal.
Order_rejectReversed(op) ==
  IF op \in {"admin_reverse", "job_reject"}
    THEN [read |-> "cashback", cashback |-> "wallet", wallet |-> "purchase", purchase |-> "commit"]
    ELSE [read |-> "purchase", purchase |-> "cashback", cashback |-> "wallet", wallet |-> "commit"]

\* The order in which a handler writes, and so locks, its rows.
Order(op) ==
  IF op = "admin_reverse"
    THEN [read |-> "cashback", cashback |-> "wallet", wallet |-> "purchase", purchase |-> "commit"]
    ELSE [read |-> "purchase", purchase |-> "cashback", cashback |-> "wallet", wallet |-> "commit"]

\* get_by_external_id or get_by_id.  A refusal raises, or ends the runner's loop.
ReadPurchase(s) ==
  LET t == task[s] row == purchase[t.p] IN
  /\ t.pc = "read"
  /\ IF Accepts(t.op, row.status)
       THEN /\ task' = [task EXCEPT ![s] =
                 [t EXCEPT !.pc = Order(t.op).read,
                           !.prior = row.status,
                           !.user = IF t.op = "ingest" THEN t.user ELSE row.user,
                           !.amount = IF t.op = "ingest" THEN t.amount ELSE row.amount]]
            /\ UNCHANGED <<image, locks>>
       ELSE Close(s)
  /\ UNCHANGED <<tables, trail>>

(* The statements.                                                          *)

\* Mutant: external_id is not unique in the database.
InsertPurchase_notUnique(s) ==
  LET t == task[s] IN
  /\ t.op = "ingest"
  /\ CanWrite(s, "purchase")
  /\ Written(s, "purchase", NewPurchase(t.user, t.amount), t.amount, Order(t.op).purchase)

\* Mutant: no cashback transaction is created for a zero amount.
InsertPurchase_skipsZero(s) ==
  LET t == task[s] IN
  /\ t.op = "ingest"
  /\ CanWrite(s, "purchase")
  /\ IF purchase[t.p].status = "absent"
       THEN Written(s, "purchase", NewPurchase(t.user, t.amount), t.amount,
                    IF t.amount > 0 THEN Order(t.op).purchase ELSE "commit")
       ELSE Close(s) /\ UNCHANGED <<tables, trail>>

\* The INSERT of add_purchase: the unique index on external_id refuses it when
\* another session has committed the same one since the SELECT.
InsertPurchase(s) ==
  LET t == task[s] IN
  /\ t.op = "ingest"
  /\ CanWrite(s, "purchase")
  /\ IF purchase[t.p].status = "absent"
       THEN Written(s, "purchase", NewPurchase(t.user, t.amount), t.amount, Order(t.op).purchase)
       ELSE Close(s) /\ UNCHANGED <<tables, trail>>

\* Mutant: a status that PurchaseStatus does not have.
TargetStatus_misspelt(op) == IF op = "job_reject" THEN "declined" ELSE "confirmed"

TargetStatus(op) == IF op = "job_reject" THEN "rejected" ELSE "confirmed"

\* Mutant: the status is committed without the cashback and the wallet.
UpdatePurchaseStatus_statusOnly(s) ==
  LET t == task[s] row == purchase[t.p] IN
  /\ t.op \in {"job_confirm", "job_reject", "admin_confirm"}
  /\ CanWrite(s, "purchase")
  /\ Written(s, "purchase", UpdateStatus(row, TargetStatus(t.op)), row.amount, "commit")

\* PurchaseRepository.update_status: the flush overwrites whatever status is
\* committed by now, and the refresh brings in the amount committed by now.
UpdatePurchaseStatus(s) ==
  LET t == task[s] row == purchase[t.p] IN
  /\ t.op \in {"job_confirm", "job_reject", "admin_confirm"}
  /\ CanWrite(s, "purchase")
  /\ Written(s, "purchase", UpdateStatus(row, TargetStatus(t.op)), row.amount,
             IF row.amount > 0 THEN Order(t.op).purchase ELSE "commit")

\* PurchaseRepository.reverse_purchase, the last statement of the reversal.
ReversePurchaseRow(s) ==
  LET t == task[s] IN
  /\ t.op = "admin_reverse"
  /\ CanWrite(s, "purchase")
  /\ Written(s, "purchase", MarkReversed(purchase[t.p]), t.amount, Order(t.op).purchase)

CashbackStatement(op, row, a) ==
  CASE op = "ingest" -> NewCashback(a)
    [] op \in {"job_confirm", "admin_confirm"} -> CashbackConfirm(row)
    [] OTHER -> CashbackReverse(row)

WriteCashback(s) ==
  LET t == task[s] IN
  /\ CanWrite(s, "cashback")
  /\ Written(s, "cashback", CashbackStatement(t.op, cashback[t.p], t.amount), t.amount,
             Order(t.op).cashback)

\* Mutant: the reversal does not look at the status the purchase had.
WalletStatement_ignoresPrior(op, prior, row, a) ==
  CASE op = "ingest" -> CreditPending(row, a)
    [] op \in {"job_confirm", "admin_confirm"} -> ConfirmPending(row, a)
    [] op = "job_reject" -> ReversePending(row, a)
    [] OTHER -> ReverseAvailable(row, a)

WalletStatement(op, prior, row, a) ==
  CASE op = "ingest" -> CreditPending(row, a)
    [] op \in {"job_confirm", "admin_confirm"} -> ConfirmPending(row, a)
    [] op = "job_reject" -> ReversePending(row, a)
    [] op = "admin_reverse" /\ prior = "pending" -> ReversePending(row, a)
    [] OTHER -> ReverseAvailable(row, a)

\* Mutant: the balance is read before the row is locked, and written back.
WriteWallet_noLock(s) ==
  LET t == task[s] IN
  /\ t.pc = "wallet"
  /\ Written(s, "wallet", WalletStatement(t.op, t.prior, wallet[t.user], t.amount), t.amount,
             Order(t.op).wallet)

\* The UPDATE of WalletRepository computes from the row as it is once it is locked.
WriteWallet(s) ==
  LET t == task[s] IN
  /\ CanWrite(s, "wallet")
  /\ Written(s, "wallet", WalletStatement(t.op, t.prior, wallet[t.user], t.amount), t.amount,
             Order(t.op).wallet)

-----------------------------------------------------------------------------
(* Commit, publication and failure.                                         *)

\* UnitOfWork.commit: every row the session has written, and its locks, at once.
\* ingest_purchase returns; the other handlers go on to publish.
Commit(s) ==
  LET t == task[s] IN
  /\ t.pc = "commit"
  /\ purchase' = IF "purchase" \in locks[s]
                   THEN [purchase EXCEPT ![t.p] = image[s].purchase] ELSE purchase
  /\ cashback' = IF "cashback" \in locks[s]
                   THEN [cashback EXCEPT ![t.p] = image[s].cashback] ELSE cashback
  /\ wallet' = IF "wallet" \in locks[s]
                 THEN [wallet EXCEPT ![t.user] = image[s].wallet] ELSE wallet
  /\ IF t.op = "ingest"
       THEN Close(s)
       ELSE /\ task' = [task EXCEPT ![s].pc = "publish"]
            /\ image' = [image EXCEPT ![s] = NoImage]
            /\ locks' = [locks EXCEPT ![s] = {}]
  /\ settledBy' = IF SingleWriter /\ t.op # "ingest"
                    THEN [settledBy EXCEPT ![t.p] = @ \cup {t.op}] ELSE settledBy
  /\ UNCHANGED audit

\* The event a handler publishes after its commit.
EventOf(op) ==
  CASE op = "job_confirm" -> "PurchaseConfirmed"
    [] op = "job_reject" -> "PurchaseRejected"
    [] op = "admin_reverse" -> "PurchaseReversed"
    [] op = "admin_confirm" -> "PurchaseConfirmedByAdmin"

\* Mutant: one subscription is forgotten.
Subscribed_notRejected == {"PurchaseConfirmed", "PurchaseReversed"}

\* The events the audit trail subscribes to: not PurchaseConfirmedByAdmin.
Subscribed == {"PurchaseConfirmed", "PurchaseRejected", "PurchaseReversed"}

\* The action of the audit row an event's handler writes.
AuditActionOf(event) ==
  CASE event = "PurchaseConfirmed" -> "PURCHASE_CONFIRMED"
    [] event = "PurchaseRejected" -> "PURCHASE_REJECTED"
    [] event = "PurchaseReversed" -> "PURCHASE_REVERSED"

PersistAuditLog(p, action) == audit' = [audit EXCEPT ![p][action] = @ + 1]

\* InMemoryMessageBroker.publish: the subscriber, if there is one, writes its row in a
\* session of its own.
Deliver(p, event) ==
  IF event \in Subscribed THEN PersistAuditLog(p, AuditActionOf(event)) ELSE UNCHANGED audit

\* Mutant: the event is published before the commit.
Publish_beforeCommit(s) ==
  LET t == task[s] IN
  /\ t.op # "ingest"
  /\ t.pc \in {"commit", "publish"}
  /\ Deliver(t.p, EventOf(t.op))
  /\ Close(s)
  /\ UNCHANGED <<tables, settledBy>>

\* The event of a committed settlement is published and the handler returns.
Publish(s) ==
  LET t == task[s] IN
  /\ t.pc = "publish"
  /\ Deliver(t.p, EventOf(t.op))
  /\ Close(s)
  /\ UNCHANGED <<tables, settledBy>>

\* The handler does not go on: a lost connection, a cancelled request, a deadlock
\* resolved at its expense, an exception of an audit handler, or the process dies.
Abandon(s) ==
  LET t == task[s] IN
  /\ t.pc # "idle"
  /\ settledBy' = IF t.pc = "publish" THEN [settledBy EXCEPT ![t.p] = @ \ {t.op}] ELSE settledBy
  /\ Close(s)
  /\ UNCHANGED <<tables, audit>>

Next ==
  \E s \in Sessions :
    \/ \E p \in Purchases, u \in Users, a \in Amounts : StartIngest(s, p, u, a)
    \/ \E p \in Purchases, op \in SettleOperations : StartSettle(s, op, p)
    \/ ReadPurchase(s)
    \/ InsertPurchase(s)
    \/ UpdatePurchaseStatus(s)
    \/ ReversePurchaseRow(s)
    \/ WriteCashback(s)
    \/ WriteWallet(s)
    \/ Commit(s)
    \/ Publish(s)
    \/ Abandon(s)

Spec == Init /\ [][Next]_vars

-----------------------------------------------------------------------------
(* Properties.                                                              *)

\* Committed rows, uncommitted images and the handlers' local variables have the types
\* of their tables, whatever a handler has computed from a row another session replaced.
TypeOK ==
  /\ purchase \in [Purchases -> PurchaseRow]
  /\ cashback \in [Purchases -> CashbackRow]
  /\ wallet \in [Users -> WalletRow]
  /\ task \in [Sessions -> Tasks]
  /\ image \in [Sessions -> [purchase : PurchaseRow, cashback : CashbackRow, wallet : WalletRow]]
  /\ locks \in [Sessions -> SUBSET Tables]
  /\ audit \in [Purchases -> [AuditActions -> Nat]]
  /\ settledBy \in [Purchases -> SUBSET SettleOperations]

\* The relative UPDATEs of WalletRepository lose nothing: whatever other sessions
\* committed while a handler was running, the commit moves the committed balances
\* of one user by exactly the amount this handler moves.
NoLostWalletUpdate ==
  [][\A u \in Users : wallet'[u] # wallet[u] =>
       \E s \in Sessions :
         /\ task[s].pc = "commit" /\ task[s].user = u
         /\ wallet'[u] = WalletStatement(task[s].op, task[s].prior, wallet[u], task[s].amount)]_vars

\* However many sessions submit the same external_id at once, for whichever users,
\* it is ingested once: its owner and the amount of its cashback transaction never
\* change again, its amount is only ever zeroed, and it is never pending again.
IngestedOnce ==
  [][\A p \in Purchases : purchase[p].status # "absent" =>
       /\ purchase'[p].user = purchase[p].user
       /\ cashback'[p].amount = cashback[p].amount
       /\ purchase'[p].amount \in {purchase[p].amount, 0}
       /\ purchase'[p].status \in {"absent", "pending"} => purchase'[p] = purchase[p]]_vars

\* A purchase and its cashback transaction are created together, in the one commit
\* of ingest_purchase, also when the cashback is zero.
CashbackWithPurchase ==
  \A p \in Purchases :
    /\ purchase[p].status = "absent" <=> cashback[p].status = "absent"
    /\ purchase[p].status # "reversed" => cashback[p].amount >= purchase[p].amount

\* Events are published after the commit: a purchase that is still pending, or whose
\* settlement was rolled back, has no audit row.
NoPhantomAudit ==
  \A p \in Purchases : \A a \in AuditActions :
    audit[p][a] > 0 => purchase[p].status \notin {"absent", "pending"}

\* With one writer at a time the audit log is the purchase's history: at most one row
\* per action, a confirmation or a rejection but never both, a reversal only of what is
\* reversed, even though two handlers may publish in the other order than they
\* committed.
AuditMatchesStatus ==
  \A p \in Purchases :
    LET n == audit[p] st == purchase[p].status IN
    /\ \A a \in AuditActions : n[a] <= 1
    /\ n["PURCHASE_CONFIRMED"] + n["PURCHASE_REJECTED"] <= 1
    /\ n["PURCHASE_CONFIRMED"] = 1 => st \in {"confirmed", "reversed"}
    /\ n["PURCHASE_REJECTED"] = 1 => st \in {"rejected", "reversed"}
    /\ n["PURCHASE_REVERSED"] = 1 => st = "reversed"

\* Purchase p has been settled by op and the event is still to be published.
OnItsWay(p, op) == \E s \in Sessions : task[s].pc = "publish" /\ task[s].p = p /\ task[s].op = op

\* What has settled p and is through with its publication.
Finished(p) == {op \in settledBy[p] : ~OnItsWay(p, op)}

\* What the audit log has and what it lacks, with one writer at a time.  It has no row for a
\* confirmation by an admin, whose event nobody subscribes to (PU-08 asks for one), and none
\* for a settlement that dies between its commit and its row; for every other it has exactly
\* one, of the right action, from the moment its event is published, whatever has settled
\* the purchase before.
AuditLacksFailedAndManual ==
  \A p \in Purchases, a \in AuditActions :
    audit[p][a] =
      IF \E op \in Finished(p) \ {"admin_confirm"} : AuditActionOf(EventOf(op)) = a THEN 1 ELSE 0

\* Sessions of the set S wait for each other's row locks, so none of them goes on until
\* the database aborts one.
Deadlocked(S) == \A s \in S : \E t \in S : WaitsFor(s, t, task[s].pc)

\* Ingestions, job settlements and manual confirmations lock purchase, cashback, wallet in
\* this order and never deadlock, however many run at once.  reverse_purchase locks in
\* another order, so every deadlock has a reversal in it.
OnlyReversalsDeadlock ==
  \A S \in (SUBSET Sessions) \ {{}} :
    Deadlocked(S) => \E s \in S : task[s].op = "admin_reverse"

\* The abstract ledger over the committed tables.
Ledger == INSTANCE CashbackLedger
            WITH purchase <- purchase, cashback <- cashback, wallet <- wallet

\* With one writer at a time every handler looks atomic: the committed tables only
\* change as CashbackLedger says, whatever the statements interleave with.
ImplementsLedger == Ledger!Spec

\* The balances of the committed wallets are those the committed purchases call for.
BalancesExact == Ledger!BalancesExact

\* No committed balance is negative.
BalancesNonNegative == Ledger!BalancesNonNegative
=============================================================================

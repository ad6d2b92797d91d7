---------------------- MODULE PurchaseTransactions_proofs ----------------------
(***************************************************************************)
(* Theorems about PurchaseTransactions, for every set of purchases, users, *)
(* amounts and sessions.  The first part is about any number of concurrent *)
(* writers: what a session holds locked is exactly what its handler has    *)
(* written, and what it has written is its statement applied to the rows   *)
(* as they are committed now.  The second part is about one writer per     *)
(* purchase: every commit is then one step of CashbackLedger, and the      *)
(* audit log is the purchase's history.                                    *)
(***************************************************************************)
EXTENDS PurchaseTransactions, LedgerRows_proofs

\* The program counters at which a handler has read its purchase and not committed.
Writing == {"purchase", "cashback", "wallet", "commit"}

\* The settlements that write in the order of an ingestion.
ForwardSettle == {"job_confirm", "job_reject", "admin_confirm"}

PurchaseStatement(op, user, a, row) ==
  CASE op = "ingest" -> NewPurchase(user, a)
    [] op = "admin_reverse" -> MarkReversed(row)
    [] OTHER -> UpdateStatus(row, TargetStatus(op))

-----------------------------------------------------------------------------
(* The inductive invariant.                                                 *)

\* The local variables of a handler: an open session works on a purchase, and past its
\* SELECT it charges the owner the purchase has, and keeps having.
HandlerOK(s) ==
  LET t == task[s] IN
  /\ t.pc = "idle" <=> t.p = NoId
  /\ t.pc = "idle" <=> t.op = "none"
  /\ t.pc = "publish" => t.op \in SettleOperations
  /\ t.op = "ingest" => t.user \in Users /\ t.amount \in Amounts
  /\ t.pc \in Writing => t.user \in Users
  /\ t.pc \in Writing /\ t.op # "ingest" =>
       purchase[t.p].status # "absent" /\ purchase[t.p].user = t.user

\* A session holds exactly the rows that its handler has written so far.
LocksOK(s) ==
  LET t == task[s] reverse == t.op = "admin_reverse" IN
  /\ t.pc \notin Writing => locks[s] = {}
  /\ t.pc = "purchase" => locks[s] = IF reverse THEN {"cashback", "wallet"} ELSE {}
  /\ t.pc = "cashback" => locks[s] = IF reverse THEN {} ELSE {"purchase"}
  /\ t.pc = "wallet" => locks[s] = IF reverse THEN {"cashback"} ELSE {"purchase", "cashback"}
  /\ t.pc \in {"cashback", "wallet"} /\ t.op \in ForwardSettle => t.amount > 0
  /\ t.pc = "commit" =>
       locks[s] = IF t.op \in ForwardSettle /\ t.amount = 0 THEN {"purchase"} ELSE Tables

\* What a session has written is its statement applied to the row that is committed now.
ImagesOK(s) ==
  LET t == task[s] IN
  /\ "purchase" \in locks[s] =>
       /\ image[s].purchase = PurchaseStatement(t.op, t.user, t.amount, purchase[t.p])
       /\ t.op = "ingest" => purchase[t.p].status = "absent"
       /\ t.op \in ForwardSettle => purchase[t.p].amount = t.amount
  /\ "cashback" \in locks[s] =>
       image[s].cashback = CashbackStatement(t.op, cashback[t.p], t.amount)
  /\ "wallet" \in locks[s] =>
       image[s].wallet = WalletStatement(t.op, t.prior, wallet[t.user], t.amount)

\* No two sessions hold the same row.
LocksExclude ==
  \A s, r \in Sessions, table \in Tables :
    s # r /\ table \in locks[s] /\ table \in locks[r] => ~SameRow(s, r, table)

\* A purchase, its owner and its cashback transaction come into being together.
RowsPaired ==
  \A p \in Purchases :
    /\ purchase[p].status = "absent" <=> cashback[p].status = "absent"
    /\ purchase[p].status = "absent" <=> purchase[p].user = NoUser
    /\ cashback[p].amount >= purchase[p].amount

\* A handler publishes only what is settled.
PublishedIsSettled ==
  \A s \in Sessions :
    task[s].pc = "publish" => purchase[task[s].p].status \notin {"absent", "pending"}

SessionsOK == \A s \in Sessions : HandlerOK(s) /\ LocksOK(s) /\ ImagesOK(s)

IInv ==
  /\ TypeOK
  /\ SessionsOK
  /\ LocksExclude
  /\ RowsPaired
  /\ PublishedIsSettled
  /\ NoPhantomAudit

-----------------------------------------------------------------------------
(* Lemmas about the parts of an action.                                     *)

\* The rows of an open session's images.
ImageRow == [purchase : PurchaseRow, cashback : CashbackRow, wallet : WalletRow]

\* The sessions other than s do nothing.
OthersIdle(s) ==
  \A r \in Sessions \ {s} :
    task'[r] = task[r] /\ image'[r] = image[r] /\ locks'[r] = locks[r]

\* The statements of the handlers keep the types of the rows they write.
LEMMA StatementTypes ==
  ASSUME NEW op \in AllOperations
  PROVE  /\ \A row \in CashbackRow, a \in Nat : CashbackStatement(op, row, a) \in CashbackRow
         /\ \A row \in WalletRow, a \in Nat, prior \in PurchaseStatus \cup {"absent"} :
              WalletStatement(op, prior, row, a) \in WalletRow
         /\ \A row \in PurchaseRow, u \in Users, a \in Nat :
              (op = "ingest" => a \in Amounts) =>
                PurchaseStatement(op, u, a, row) \in PurchaseRow
  <1>1. \A row \in CashbackRow, a \in Nat : CashbackStatement(op, row, a) \in CashbackRow
    BY RowTypes DEF CashbackStatement
  <1>2. \A row \in WalletRow, a \in Nat, prior \in PurchaseStatus \cup {"absent"} :
          WalletStatement(op, prior, row, a) \in WalletRow
    BY WalletTypes DEF WalletStatement
  <1>3. TargetStatus(op) \in PurchaseStatus
    BY DEF TargetStatus, PurchaseStatus
  <1>4. \A row \in PurchaseRow, u \in Users, a \in Nat :
          (op = "ingest" => a \in Amounts) => PurchaseStatement(op, u, a, row) \in PurchaseRow
    BY <1>3, RowTypes DEF PurchaseStatement
  <1> QED BY <1>1, <1>2, <1>4

\* Closing a session leaves it idle, with nothing written and nothing locked.
LEMMA CloseEffect ==
  ASSUME TypeOK, NEW s \in Sessions, Close(s)
  PROVE  /\ OthersIdle(s)
         /\ task'[s] = Idle /\ locks'[s] = {}
         /\ task' \in [Sessions -> Tasks]
         /\ image' \in [Sessions -> ImageRow]
         /\ locks' \in [Sessions -> SUBSET Tables]
  <1>1. Idle \in Tasks
    BY DEF Idle, Tasks, Pcs
  <1>2. NoImage \in ImageRow
    BY DEF NoImage, ImageRow, NoPurchase, NoCashback, EmptyWallet, PurchaseRow, CashbackRow,
       WalletRow
  <1>3. OthersIdle(s) /\ task'[s] = Idle /\ locks'[s] = {}
    BY DEF TypeOK, Close, OthersIdle
  <1>4. task' \in [Sessions -> Tasks] /\ locks' \in [Sessions -> SUBSET Tables]
    BY <1>1 DEF TypeOK, Close
  <1>5. image' \in [Sessions -> ImageRow]
    BY <1>2 DEF TypeOK, Close, ImageRow
  <1> QED BY <1>3, <1>4, <1>5

\* What a statement leaves behind: the handler goes on to next, s holds one more row, and
\* nothing else moves.
WriteEffect(s, table, amount, next) ==
  /\ OthersIdle(s)
  /\ task'[s].pc = next /\ task'[s].amount = amount
  /\ task'[s].op = task[s].op /\ task'[s].p = task[s].p
  /\ task'[s].user = task[s].user /\ task'[s].prior = task[s].prior
  /\ locks'[s] = locks[s] \cup {table}
  /\ task' \in [Sessions -> Tasks]
  /\ locks' \in [Sessions -> SUBSET Tables]
  /\ UNCHANGED <<purchase, cashback, wallet, audit, settledBy>>

\* A statement moves the program counter, and adds one row to what the session holds.
LEMMA WrittenEffect ==
  ASSUME TypeOK, NEW s \in Sessions, NEW table \in Tables, NEW row,
         NEW amount \in Nat, NEW next \in Pcs, Written(s, table, row, amount, next)
  PROVE  WriteEffect(s, table, amount, next)
  <1>1. task' = [task EXCEPT ![s].pc = next, ![s].amount = amount] /\ task \in [Sessions -> Tasks]
    BY DEF Written, TypeOK
  <1>2. task' \in [Sessions -> Tasks]
    BY <1>1 DEF Tasks
  <1>3. task[s] \in Tasks
    BY <1>1
  <1>4. task'[s].pc = next /\ task'[s].amount = amount
    BY <1>1, <1>3 DEF Tasks
  <1>5. task'[s].op = task[s].op /\ task'[s].p = task[s].p
    BY <1>1 DEF Tasks
  <1>6. task'[s].user = task[s].user /\ task'[s].prior = task[s].prior
    BY <1>1 DEF Tasks
  <1>7. \A r \in Sessions \ {s} : task'[r] = task[r]
    BY <1>1 DEF Tasks
  <1>8. \A r \in Sessions \ {s} : image'[r] = image[r] /\ locks'[r] = locks[r]
    BY DEF Written, TypeOK
  <1>9. locks'[s] = locks[s] \cup {table} /\ locks' \in [Sessions -> SUBSET Tables]
    BY DEF Written, TypeOK
  <1>10. UNCHANGED <<purchase, cashback, wallet, audit, settledBy>>
    BY DEF Written, tables, trail
  <1> QED BY <1>2, <1>4, <1>5, <1>6, <1>7, <1>8, <1>9, <1>10 DEF WriteEffect, OthersIdle

\* The image of the statement: the row it computed, next to those written before.
LEMMA WrittenImage ==
  ASSUME TypeOK, NEW s \in Sessions, NEW row, NEW amount, NEW next
  PROVE  /\ Written(s, "purchase", row, amount, next) =>
              /\ image'[s].purchase = row
              /\ image'[s].cashback = image[s].cashback
              /\ image'[s].wallet = image[s].wallet
              /\ row \in PurchaseRow => image' \in [Sessions -> ImageRow]
         /\ Written(s, "cashback", row, amount, next) =>
              /\ image'[s].purchase = image[s].purchase
              /\ image'[s].cashback = row
              /\ image'[s].wallet = image[s].wallet
              /\ row \in CashbackRow => image' \in [Sessions -> ImageRow]
         /\ Written(s, "wallet", row, amount, next) =>
              /\ image'[s].purchase = image[s].purchase
              /\ image'[s].cashback = image[s].cashback
              /\ image'[s].wallet = row
              /\ row \in WalletRow => image' \in [Sessions -> ImageRow]
  <1>1. ASSUME Written(s, "purchase", row, amount, next)
        PROVE  /\ image'[s].purchase = row
               /\ image'[s].cashback = image[s].cashback
               /\ image'[s].wallet = image[s].wallet
               /\ row \in PurchaseRow => image' \in [Sessions -> ImageRow]
    BY <1>1 DEF Written, TypeOK, ImageRow
  <1>2. ASSUME Written(s, "cashback", row, amount, next)
        PROVE  /\ image'[s].purchase = image[s].purchase
               /\ image'[s].cashback = row
               /\ image'[s].wallet = image[s].wallet
               /\ row \in CashbackRow => image' \in [Sessions -> ImageRow]
    BY <1>2 DEF Written, TypeOK, ImageRow
  <1>3. ASSUME Written(s, "wallet", row, amount, next)
        PROVE  /\ image'[s].purchase = image[s].purchase
               /\ image'[s].cashback = image[s].cashback
               /\ image'[s].wallet = row
               /\ row \in WalletRow => image' \in [Sessions -> ImageRow]
    BY <1>3 DEF Written, TypeOK, ImageRow
  <1> QED BY <1>1, <1>2, <1>3

\* A step of s that leaves the tables alone does not disturb another session.
LEMMA OthersKeep ==
  ASSUME SessionsOK, NEW s \in Sessions, OthersIdle(s), UNCHANGED <<purchase, cashback, wallet>>
  PROVE  \A r \in Sessions \ {s} : HandlerOK(r)' /\ LocksOK(r)' /\ ImagesOK(r)'
  <1> TAKE r \in Sessions \ {s}
  <1>1. task'[r] = task[r] /\ image'[r] = image[r] /\ locks'[r] = locks[r]
    BY DEF OthersIdle
  <1>2. HandlerOK(r) /\ LocksOK(r) /\ ImagesOK(r)
    BY DEF SessionsOK
  <1>3. HandlerOK(r)'
    BY <1>1, <1>2 DEF HandlerOK
  <1>4. LocksOK(r)'
    BY <1>1, <1>2 DEF LocksOK
  <1>5. ImagesOK(r)'
    BY <1>1, <1>2 DEF ImagesOK
  <1> QED BY <1>3, <1>4, <1>5

\* An idle session has nothing to be consistent about.
LEMMA IdleOK ==
  ASSUME NEW s \in Sessions, task'[s] = Idle, locks'[s] = {}
  PROVE  HandlerOK(s)' /\ LocksOK(s)' /\ ImagesOK(s)'
  <1>1. /\ task'[s].pc = "idle" /\ task'[s].p = NoId /\ task'[s].op = "none"
    BY DEF Idle
  <1>2. HandlerOK(s)'
    BY <1>1 DEF HandlerOK, Writing
  <1>3. LocksOK(s)'
    BY <1>1 DEF LocksOK, Writing
  <1>4. ImagesOK(s)'
    BY DEF ImagesOK
  <1> QED BY <1>2, <1>3, <1>4

\* Rows stay with one session as long as the session that moves takes none, or takes one
\* that nobody holds.
LEMMA ExclusionKeeps ==
  ASSUME LocksExclude, NEW s \in Sessions, OthersIdle(s), locks'[s] \subseteq Tables,
         \A table \in locks'[s] : \A r \in Sessions \ {s} :
           table \in locks[r] => ~SameRow(s, r, table)',
         TypeOK
  PROVE  LocksExclude'
  <1> SUFFICES ASSUME NEW q \in Sessions, NEW r \in Sessions, NEW table \in Tables,
                      q # r, table \in locks'[q], table \in locks'[r]
               PROVE  ~SameRow(q, r, table)'
    BY DEF LocksExclude
  <1>1. CASE q # s /\ r # s
    BY <1>1 DEF LocksExclude, OthersIdle, SameRow
  <1>2. CASE q = s
    BY <1>2 DEF OthersIdle
  <1>3. CASE r = s
    BY <1>3 DEF OthersIdle, SameRow
  <1> QED BY <1>1, <1>2, <1>3

-----------------------------------------------------------------------------
(* Any number of writers: every action keeps the invariant.                 *)

\* The empty database with no session open.
LEMMA InitIInv == Init => IInv
  <1> SUFFICES ASSUME Init PROVE IInv
    OBVIOUS
  <1> USE RowsAssumption, TransactionsAssumption
  <1>1. /\ NoPurchase \in PurchaseRow /\ NoCashback \in CashbackRow /\ EmptyWallet \in WalletRow
        /\ Idle \in Tasks
    BY DEF NoPurchase, NoCashback, EmptyWallet, PurchaseRow, CashbackRow, WalletRow, Idle, Tasks, Pcs
  <1>2. TypeOK
    BY <1>1 DEF Init, TypeOK, NoImage
  <1>3. \A s \in Sessions : task[s].pc = "idle" /\ task[s].p = NoId /\ task[s].op = "none"
                            /\ locks[s] = {}
    BY DEF Init, Idle
  <1>4. SessionsOK
    BY <1>3 DEF SessionsOK, HandlerOK, LocksOK, ImagesOK, Writing
  <1>5. LocksExclude /\ PublishedIsSettled
    BY <1>3 DEF LocksExclude, PublishedIsSettled
  <1>6. RowsPaired
    <2>1. \A p \in Purchases : purchase[p] = NoPurchase /\ cashback[p] = NoCashback
      BY DEF Init
    <2>2. NoPurchase.status = "absent" /\ NoPurchase.user = NoUser /\ NoPurchase.amount = 0
          /\ NoCashback.status = "absent" /\ NoCashback.amount = 0
      BY DEF NoPurchase, NoCashback
    <2>3. \A p \in Purchases : cashback[p].amount >= purchase[p].amount
      <3> SUFFICES ASSUME NEW p \in Purchases PROVE cashback[p].amount >= purchase[p].amount
        OBVIOUS
      <3>1. cashback[p].amount = 0 /\ purchase[p].amount = 0
        BY <2>1, <2>2
      <3> QED BY <3>1
    <2>4. \A p \in Purchases : /\ purchase[p].status = "absent" <=> cashback[p].status = "absent"
                               /\ purchase[p].status = "absent" <=> purchase[p].user = NoUser
      BY <2>1, <2>2
    <2> QED BY <2>3, <2>4 DEF RowsPaired
  <1>7. NoPhantomAudit
    BY DEF Init, NoPhantomAudit
  <1> QED BY <1>2, <1>4, <1>5, <1>6, <1>7 DEF IInv

\* A session that is opened, refused or closed holds nothing; the rest of the database
\* stays as it is.
LEMMA EmptyHandedKeeps ==
  ASSUME IInv, NEW s \in Sessions, OthersIdle(s), locks'[s] = {},
         HandlerOK(s)', LocksOK(s)', task'[s].pc # "publish",
         task' \in [Sessions -> Tasks],
         image' \in [Sessions -> ImageRow], locks' \in [Sessions -> SUBSET Tables],
         UNCHANGED <<purchase, cashback, wallet>>,
         audit' \in [Purchases -> [AuditActions -> Nat]],
         settledBy' \in [Purchases -> SUBSET SettleOperations], NoPhantomAudit'
  PROVE  IInv'
  <1>1. TypeOK'
    BY DEF IInv, TypeOK, ImageRow
  <1>2. ImagesOK(s)'
    BY DEF ImagesOK
  <1>3. SessionsOK'
    BY <1>2, OthersKeep DEF IInv, SessionsOK
  <1>4. LocksExclude'
    BY ExclusionKeeps DEF IInv
  <1>5. RowsPaired'
    BY DEF IInv, RowsPaired
  <1>6. PublishedIsSettled'
    BY DEF IInv, PublishedIsSettled, OthersIdle
  <1> QED BY <1>1, <1>3, <1>4, <1>5, <1>6 DEF IInv

\* ingest_purchase begins.
LEMMA StartIngestKeeps ==
  ASSUME IInv, NEW s \in Sessions, NEW p \in Purchases, NEW u \in Users, NEW a \in Amounts,
         StartIngest(s, p, u, a)
  PROVE  IInv'
  <1> USE RowsAssumption, TransactionsAssumption
  <1> DEFINE new == [Idle EXCEPT !.pc = "read", !.op = "ingest", !.p = p, !.user = u, !.amount = a]
  <1>0. TypeOK /\ SessionsOK
    BY DEF IInv
  <1>1. /\ new.pc = "read" /\ new.op = "ingest" /\ new.p = p /\ new.user = u /\ new.amount = a
    BY DEF Idle
  <1>2. new \in Tasks
    BY DEF Idle, Tasks, Pcs, AllOperations
  <1>3. task' = [task EXCEPT ![s] = new]
        /\ UNCHANGED <<purchase, cashback, wallet, image, locks, audit, settledBy>>
    BY DEF StartIngest, tables, trail
  <1>4. task'[s] = new /\ OthersIdle(s) /\ task' \in [Sessions -> Tasks]
    BY <1>0, <1>2, <1>3 DEF TypeOK, OthersIdle
  <1>5. locks[s] = {}
    BY <1>0 DEF StartIngest, Free, SessionsOK, LocksOK, Writing
  <1>6. HandlerOK(s)'
    BY <1>1, <1>4 DEF HandlerOK, Writing
  <1>7. LocksOK(s)'
    BY <1>1, <1>3, <1>4, <1>5 DEF LocksOK, Writing
  <1>8. NoPhantomAudit'
    BY <1>3 DEF IInv, NoPhantomAudit
  <1> QED BY <1>0, <1>1, <1>3, <1>4, <1>5, <1>6, <1>7, <1>8, EmptyHandedKeeps
       DEF TypeOK, ImageRow

\* A settlement begins.
LEMMA StartSettleKeeps ==
  ASSUME IInv, NEW s \in Sessions, NEW p \in Purchases, NEW op \in SettleOperations,
         StartSettle(s, op, p)
  PROVE  IInv'
  <1> USE RowsAssumption, TransactionsAssumption
  <1> DEFINE new == [Idle EXCEPT !.pc = "read", !.op = op, !.p = p]
  <1>0. TypeOK /\ SessionsOK
    BY DEF IInv
  <1>1. new.pc = "read" /\ new.op = op /\ new.p = p
    BY DEF Idle
  <1>2. new \in Tasks
    BY DEF Idle, Tasks, Pcs, AllOperations
  <1>3. task' = [task EXCEPT ![s] = new]
        /\ UNCHANGED <<purchase, cashback, wallet, image, locks, audit, settledBy>>
    BY DEF StartSettle, tables, trail
  <1>4. task'[s] = new /\ OthersIdle(s) /\ task' \in [Sessions -> Tasks]
    BY <1>0, <1>2, <1>3 DEF TypeOK, OthersIdle
  <1>5. locks[s] = {}
    BY <1>0 DEF StartSettle, Free, SessionsOK, LocksOK, Writing
  <1>6. HandlerOK(s)'
    BY <1>1, <1>4 DEF HandlerOK, Writing, SettleOperations
  <1>7. LocksOK(s)'
    BY <1>1, <1>3, <1>4, <1>5 DEF LocksOK, Writing
  <1>8. NoPhantomAudit'
    BY <1>3 DEF IInv, NoPhantomAudit
  <1> QED BY <1>0, <1>1, <1>3, <1>4, <1>5, <1>6, <1>7, <1>8, EmptyHandedKeeps
       DEF TypeOK, ImageRow

\* A handler that ends without having changed a table.
LEMMA CloseKeeps ==
  ASSUME IInv, NEW s \in Sessions, Close(s), UNCHANGED <<purchase, cashback, wallet>>,
         audit' \in [Purchases -> [AuditActions -> Nat]],
         settledBy' \in [Purchases -> SUBSET SettleOperations], NoPhantomAudit'
  PROVE  IInv'
  <1>1. TypeOK
    BY DEF IInv
  <1>2. task'[s] = Idle /\ locks'[s] = {} /\ task'[s].pc # "publish"
    BY <1>1, CloseEffect DEF Idle
  <1>3. HandlerOK(s)' /\ LocksOK(s)'
    BY <1>2, IdleOK
  <1> QED BY <1>1, <1>2, <1>3, CloseEffect, EmptyHandedKeeps

\* The SELECT and the policy: what the handler has read makes an owner to charge.
LEMMA ReadPurchaseKeeps ==
  ASSUME IInv, NEW s \in Sessions, ReadPurchase(s)
  PROVE  IInv'
  <1> USE RowsAssumption, TransactionsAssumption
  <1> DEFINE t == task[s]
             row == purchase[t.p]
             new == [t EXCEPT !.pc = Order(t.op).read, !.prior = row.status,
                              !.user = IF t.op = "ingest" THEN t.user ELSE row.user,
                              !.amount = IF t.op = "ingest" THEN t.amount ELSE row.amount]
  <1>0. TypeOK /\ SessionsOK /\ RowsPaired
    BY DEF IInv
  <1>1. t \in Tasks /\ HandlerOK(s) /\ LocksOK(s) /\ t.pc = "read"
    BY <1>0 DEF TypeOK, SessionsOK, ReadPurchase
  <1>2. t.p \in Purchases /\ t.op \in AllOperations /\ t.op # "none" /\ t.p # NoId
    BY <1>1 DEF HandlerOK, Tasks
  <1>3. UNCHANGED <<purchase, cashback, wallet, audit, settledBy>> /\ NoPhantomAudit'
    BY DEF ReadPurchase, tables, trail, IInv, NoPhantomAudit
  <1>4. CASE Accepts(t.op, row.status)
    <2>1. task' = [task EXCEPT ![s] = new] /\ UNCHANGED <<image, locks>>
      BY <1>4 DEF ReadPurchase
    <2>2. /\ new.pc = IF t.op = "admin_reverse" THEN "cashback" ELSE "purchase"
          /\ new.op = t.op /\ new.p = t.p /\ new.prior = row.status
          /\ new.user = IF t.op = "ingest" THEN t.user ELSE row.user
          /\ new.amount = IF t.op = "ingest" THEN t.amount ELSE row.amount
      BY <1>1 DEF Tasks, Order
    <2>3. row \in PurchaseRow
      BY <1>0, <1>2 DEF TypeOK
    <2>4. new \in Tasks
      <3>1. Order(t.op).read \in Pcs
        BY DEF Order, Pcs
      <3>2. row.status \in PurchaseStatus \cup {"absent"} /\ row.user \in Users \cup {NoUser}
            /\ row.amount \in Nat
        BY <2>3 DEF PurchaseRow
      <3> HIDE DEF row
      <3> QED BY <1>1, <3>1, <3>2 DEF Tasks
    <2>5. task'[s] = new /\ OthersIdle(s) /\ task' \in [Sessions -> Tasks]
      BY <1>0, <2>1, <2>4 DEF TypeOK, OthersIdle
    <2>6. t.op # "ingest" => row.status # "absent" /\ row.user \in Users
      <3>1. t.op # "ingest" => row.status # "absent"
        BY <1>4 DEF Accepts, EnforcePurchasePending, EnforcePurchaseReversible
      <3> QED BY <1>0, <1>2, <2>3, <3>1 DEF RowsPaired, PurchaseRow
    <2>7. locks[s] = {}
      BY <1>1 DEF LocksOK, Writing
    <2> HIDE DEF new
    <2>8. HandlerOK(s)'
      BY <1>1, <1>2, <1>3, <2>2, <2>5, <2>6 DEF HandlerOK, Writing
    <2>9. LocksOK(s)'
      BY <2>1, <2>2, <2>5, <2>7 DEF LocksOK, Writing, ForwardSettle
    <2>10. task'[s].pc # "publish"
      BY <2>2, <2>5
    <2> QED BY <1>0, <1>3, <2>1, <2>5, <2>7, <2>8, <2>9, <2>10, EmptyHandedKeeps
         DEF TypeOK, ImageRow
  <1>5. CASE ~Accepts(t.op, row.status)
    <2>1. Close(s)
      BY <1>5 DEF ReadPurchase
    <2> QED BY <1>0, <1>3, <2>1, CloseKeeps DEF TypeOK
  <1> QED BY <1>4, <1>5

\* A statement of s takes a row nobody holds, so it is enough to look at s itself.
LEMMA StatementKeeps ==
  ASSUME IInv, NEW s \in Sessions, NEW table \in Tables, NEW row,
         NEW amount \in Nat, NEW next \in Pcs, next # "publish",
         CanWrite(s, table), Written(s, table, row, amount, next),
         image' \in [Sessions -> ImageRow], HandlerOK(s)', LocksOK(s)', ImagesOK(s)'
  PROVE  IInv'
  <1>0. TypeOK /\ SessionsOK /\ LocksExclude
    BY DEF IInv
  <1>1. /\ OthersIdle(s)
        /\ task'[s].pc = next /\ task'[s].p = task[s].p /\ task'[s].user = task[s].user
        /\ locks'[s] = locks[s] \cup {table}
        /\ task' \in [Sessions -> Tasks]
        /\ locks' \in [Sessions -> SUBSET Tables]
        /\ UNCHANGED <<purchase, cashback, wallet, audit, settledBy>>
    BY <1>0, WrittenEffect DEF WriteEffect
  <1>2. TypeOK'
    BY <1>0, <1>1 DEF TypeOK, ImageRow
  <1>3. SessionsOK'
    BY <1>0, <1>1, OthersKeep DEF SessionsOK
  <1>4. LocksExclude'
    <2>1. ASSUME NEW other \in locks'[s], NEW r \in Sessions \ {s}, other \in locks[r]
          PROVE  ~SameRow(s, r, other)'
      <3>1. other \in Tables
        BY <1>1
      <3>2. ~SameRow(s, r, other)
        BY <1>0, <1>1, <2>1, <3>1 DEF LocksExclude, CanWrite, WaitsFor
      <3> QED BY <1>1, <3>2 DEF SameRow, OthersIdle
    <2>2. locks'[s] \subseteq Tables
      BY <1>1
    <2> QED BY <1>0, <1>1, <2>1, <2>2, ExclusionKeeps
  <1>5. RowsPaired'
    BY <1>1 DEF IInv, RowsPaired
  <1>6. PublishedIsSettled'
    BY <1>1 DEF IInv, PublishedIsSettled, OthersIdle
  <1>7. NoPhantomAudit'
    BY <1>1 DEF IInv, NoPhantomAudit
  <1> QED BY <1>2, <1>3, <1>4, <1>5, <1>6, <1>7 DEF IInv

\* What a session about to write knows.
LEMMA WritingSession ==
  ASSUME IInv, NEW s \in Sessions, task[s].pc \in Writing
  PROVE  /\ task[s] \in Tasks /\ task[s].p \in Purchases /\ task[s].op \in AllOperations
         /\ task[s].user \in Users /\ task[s].amount \in Nat
         /\ task[s].prior \in PurchaseStatus \cup {"absent"}
         /\ task[s].op = "ingest" => task[s].amount \in Amounts
         /\ purchase[task[s].p] \in PurchaseRow /\ cashback[task[s].p] \in CashbackRow
         /\ wallet[task[s].user] \in WalletRow
         /\ purchase[task[s].p].amount \in Nat
         /\ HandlerOK(s) /\ LocksOK(s) /\ ImagesOK(s) /\ TypeOK
  <1>1. TypeOK /\ HandlerOK(s) /\ LocksOK(s) /\ ImagesOK(s)
    BY DEF IInv, SessionsOK
  <1>2. task[s] \in Tasks
    BY <1>1 DEF TypeOK
  <1>3. /\ task[s].p \in Purchases /\ task[s].op \in AllOperations
        /\ task[s].user \in Users /\ task[s].amount \in Nat
        /\ task[s].prior \in PurchaseStatus \cup {"absent"}
        /\ task[s].op = "ingest" => task[s].amount \in Amounts
    BY <1>1, <1>2 DEF HandlerOK, Writing, Tasks
  <1>4. /\ purchase[task[s].p] \in PurchaseRow /\ cashback[task[s].p] \in CashbackRow
        /\ wallet[task[s].user] \in WalletRow
    BY <1>1, <1>3 DEF TypeOK
  <1>5. purchase[task[s].p].amount \in Nat
    BY <1>4 DEF PurchaseRow
  <1> QED BY <1>1, <1>2, <1>3, <1>4, <1>5

\* The INSERT of ingest_purchase.
LEMMA InsertPurchaseKeeps ==
  ASSUME IInv, NEW s \in Sessions, InsertPurchase(s)
  PROVE  IInv'
  <1> USE RowsAssumption, TransactionsAssumption
  <1> DEFINE t == task[s]
  <1>1. t.op = "ingest" /\ t.pc = "purchase" /\ CanWrite(s, "purchase") /\ t.pc \in Writing
    BY DEF InsertPurchase, CanWrite, Writing
  <1>2. CASE purchase[t.p].status = "absent"
    <2>1. Written(s, "purchase", NewPurchase(t.user, t.amount), t.amount, "cashback")
      BY <1>1, <1>2 DEF InsertPurchase, Order
    <2>2. NewPurchase(t.user, t.amount) \in PurchaseRow
      BY <1>1, WritingSession, RowTypes
    <2>3. "cashback" \in Pcs /\ "purchase" \in Tables
      BY DEF Pcs, Tables
    <2>4. /\ task'[s].pc = "cashback" /\ task'[s].amount = t.amount
          /\ task'[s].op = t.op /\ task'[s].p = t.p
          /\ task'[s].user = t.user /\ task'[s].prior = t.prior
          /\ locks'[s] = locks[s] \cup {"purchase"}
          /\ UNCHANGED <<purchase, cashback, wallet, audit, settledBy>>
      <3>1. TypeOK /\ t.amount \in Nat
        BY <1>1, WritingSession
      <3>2. WriteEffect(s, "purchase", t.amount, "cashback")
        BY <2>1, <2>3, <3>1, WrittenEffect
      <3> QED BY <3>2 DEF WriteEffect
    <2>5. image'[s].purchase = NewPurchase(t.user, t.amount) /\ image' \in [Sessions -> ImageRow]
      BY <1>1, <2>1, <2>2, WritingSession, WrittenImage
    <2>6. locks[s] = {}
      BY <1>1, WritingSession DEF LocksOK
    <2>7. HandlerOK(s)'
      BY <1>1, <2>4, WritingSession DEF HandlerOK, Writing
    <2>8. LocksOK(s)'
      BY <1>1, <2>4, <2>6 DEF LocksOK, Writing, ForwardSettle
    <2>9. ImagesOK(s)'
      BY <1>1, <1>2, <2>4, <2>5, <2>6 DEF ImagesOK, PurchaseStatement, ForwardSettle
    <2> QED BY <1>1, <2>1, <2>3, <2>5, <2>7, <2>8, <2>9, WritingSession, StatementKeeps
  <1>3. CASE purchase[t.p].status # "absent"
    <2>1. Close(s) /\ UNCHANGED <<purchase, cashback, wallet, audit, settledBy>>
      BY <1>3 DEF InsertPurchase, tables, trail
    <2> QED BY <2>1, CloseKeeps DEF IInv, TypeOK, NoPhantomAudit
  <1> QED BY <1>2, <1>3

\* The status UPDATE of a confirmation or a rejection.
LEMMA UpdatePurchaseStatusKeeps ==
  ASSUME IInv, NEW s \in Sessions, UpdatePurchaseStatus(s)
  PROVE  IInv'
  <1> USE RowsAssumption, TransactionsAssumption
  <1> DEFINE t == task[s]
             row == purchase[t.p]
             next == IF row.amount > 0 THEN "cashback" ELSE "commit"
             new == UpdateStatus(row, TargetStatus(t.op))
  <1>1. t.op \in ForwardSettle /\ t.pc = "purchase" /\ CanWrite(s, "purchase") /\ t.pc \in Writing
    BY DEF UpdatePurchaseStatus, CanWrite, Writing, ForwardSettle
  <1>2. Written(s, "purchase", new, row.amount, next)
    BY <1>1 DEF UpdatePurchaseStatus, Order, ForwardSettle
  <1>3. new \in PurchaseRow
    BY <1>1, WritingSession, RowTypes DEF TargetStatus, PurchaseStatus
  <1>4. next \in Pcs /\ next # "publish" /\ "purchase" \in Tables /\ row.amount \in Nat
    BY <1>1, WritingSession DEF Pcs, Tables
  <1> HIDE DEF next, new
  <1>5. /\ task'[s].pc = next /\ task'[s].amount = row.amount
        /\ task'[s].op = t.op /\ task'[s].p = t.p
        /\ task'[s].user = t.user /\ task'[s].prior = t.prior
        /\ locks'[s] = locks[s] \cup {"purchase"}
        /\ UNCHANGED <<purchase, cashback, wallet, audit, settledBy>>
    <2>1. TypeOK /\ t.amount \in Nat
      BY <1>1, WritingSession
    <2>2. WriteEffect(s, "purchase", row.amount, next)
      BY <1>2, <1>4, <2>1, WrittenEffect
    <2> QED BY <2>2 DEF WriteEffect
  <1>6. image'[s].purchase = new /\ image' \in [Sessions -> ImageRow]
    BY <1>1, <1>2, <1>3, WritingSession, WrittenImage
  <1>7. locks[s] = {} /\ row.status # "absent" /\ row.user = t.user
    BY <1>1, WritingSession DEF LocksOK, HandlerOK, ForwardSettle
  <1>8. HandlerOK(s)'
    BY <1>1, <1>4, <1>5, <1>7, WritingSession DEF HandlerOK, Writing, ForwardSettle, next
  <1>9. LocksOK(s)'
    BY <1>1, <1>4, <1>5, <1>7 DEF LocksOK, Writing, ForwardSettle, next
  <1>10. ImagesOK(s)'
    BY <1>1, <1>5, <1>6, <1>7 DEF ImagesOK, PurchaseStatement, ForwardSettle, new
  <1> QED BY <1>1, <1>2, <1>4, <1>6, <1>8, <1>9, <1>10, WritingSession, StatementKeeps

\* The last statement of reverse_purchase.
LEMMA ReversePurchaseRowKeeps ==
  ASSUME IInv, NEW s \in Sessions, ReversePurchaseRow(s)
  PROVE  IInv'
  <1> DEFINE t == task[s]
             new == MarkReversed(purchase[t.p])
  <1>1. t.op = "admin_reverse" /\ t.pc = "purchase" /\ CanWrite(s, "purchase") /\ t.pc \in Writing
    BY DEF ReversePurchaseRow, CanWrite, Writing
  <1>2. Written(s, "purchase", new, t.amount, "commit")
    BY <1>1 DEF ReversePurchaseRow, Order
  <1>3. new \in PurchaseRow
    BY <1>1, WritingSession, RowTypes
  <1>4. "commit" \in Pcs /\ "purchase" \in Tables
    BY DEF Pcs, Tables
  <1> HIDE DEF new
  <1>5. /\ task'[s].pc = "commit" /\ task'[s].amount = t.amount
        /\ task'[s].op = t.op /\ task'[s].p = t.p
        /\ task'[s].user = t.user /\ task'[s].prior = t.prior
        /\ locks'[s] = locks[s] \cup {"purchase"}
        /\ UNCHANGED <<purchase, cashback, wallet, audit, settledBy>>
    <2>1. TypeOK /\ t.amount \in Nat
      BY <1>1, WritingSession
    <2>2. WriteEffect(s, "purchase", t.amount, "commit")
      BY <1>2, <1>4, <2>1, WrittenEffect
    <2> QED BY <2>2 DEF WriteEffect
  <1>6. /\ image'[s].purchase = new /\ image' \in [Sessions -> ImageRow]
        /\ image'[s].cashback = image[s].cashback /\ image'[s].wallet = image[s].wallet
    BY <1>1, <1>2, <1>3, WritingSession, WrittenImage
  <1>7. locks[s] = {"cashback", "wallet"}
    BY <1>1, WritingSession DEF LocksOK
  <1>8. HandlerOK(s)'
    BY <1>1, <1>5, WritingSession DEF HandlerOK, Writing
  <1>9. LocksOK(s)'
    BY <1>1, <1>5, <1>7 DEF LocksOK, Writing, ForwardSettle, Tables
  <1>10. ImagesOK(s)'
    BY <1>1, <1>5, <1>6, <1>7, WritingSession DEF ImagesOK, PurchaseStatement, ForwardSettle, new
  <1> QED BY <1>1, <1>2, <1>4, <1>6, <1>8, <1>9, <1>10, WritingSession, StatementKeeps

\* The statement on the cashback transaction.
LEMMA WriteCashbackKeeps ==
  ASSUME IInv, NEW s \in Sessions, WriteCashback(s)
  PROVE  IInv'
  <1> DEFINE t == task[s]
             new == CashbackStatement(t.op, cashback[t.p], t.amount)
  <1>1. t.pc = "cashback" /\ CanWrite(s, "cashback") /\ t.pc \in Writing
    BY DEF WriteCashback, CanWrite, Writing
  <1>2. Written(s, "cashback", new, t.amount, "wallet")
    BY DEF WriteCashback, Order
  <1>3. new \in CashbackRow
    BY <1>1, WritingSession, StatementTypes
  <1>4. "wallet" \in Pcs /\ "cashback" \in Tables
    BY DEF Pcs, Tables
  <1> HIDE DEF new
  <1>5. /\ task'[s].pc = "wallet" /\ task'[s].amount = t.amount
        /\ task'[s].op = t.op /\ task'[s].p = t.p
        /\ task'[s].user = t.user /\ task'[s].prior = t.prior
        /\ locks'[s] = locks[s] \cup {"cashback"}
        /\ UNCHANGED <<purchase, cashback, wallet, audit, settledBy>>
    <2>1. TypeOK /\ t.amount \in Nat
      BY <1>1, WritingSession
    <2>2. WriteEffect(s, "cashback", t.amount, "wallet")
      BY <1>2, <1>4, <2>1, WrittenEffect
    <2> QED BY <2>2 DEF WriteEffect
  <1>6. /\ image'[s].cashback = new /\ image' \in [Sessions -> ImageRow]
        /\ image'[s].purchase = image[s].purchase /\ image'[s].wallet = image[s].wallet
    BY <1>1, <1>2, <1>3, WritingSession, WrittenImage
  <1>7. locks[s] = IF t.op = "admin_reverse" THEN {} ELSE {"purchase"}
    BY <1>1, WritingSession DEF LocksOK
  <1>8. HandlerOK(s)'
    BY <1>1, <1>5, WritingSession DEF HandlerOK, Writing
  <1>9. LocksOK(s)'
    BY <1>1, <1>5, <1>7, WritingSession DEF LocksOK, Writing
  <1>10. ImagesOK(s)'
    BY <1>1, <1>5, <1>6, <1>7, WritingSession DEF ImagesOK, new
  <1> QED BY <1>1, <1>2, <1>4, <1>6, <1>8, <1>9, <1>10, WritingSession, StatementKeeps

\* The relative UPDATE of the wallet.
LEMMA WriteWalletKeeps ==
  ASSUME IInv, NEW s \in Sessions, WriteWallet(s)
  PROVE  IInv'
  <1> DEFINE t == task[s]
             next == IF t.op = "admin_reverse" THEN "purchase" ELSE "commit"
             new == WalletStatement(t.op, t.prior, wallet[t.user], t.amount)
  <1>1. t.pc = "wallet" /\ CanWrite(s, "wallet") /\ t.pc \in Writing
    BY DEF WriteWallet, CanWrite, Writing
  <1>2. Written(s, "wallet", new, t.amount, next)
    BY DEF WriteWallet, Order
  <1>3. new \in WalletRow
    BY <1>1, WritingSession, StatementTypes
  <1>4. next \in Pcs /\ next # "publish" /\ "wallet" \in Tables
    BY DEF Pcs, Tables
  <1> HIDE DEF new, next
  <1>5. /\ task'[s].pc = next /\ task'[s].amount = t.amount
        /\ task'[s].op = t.op /\ task'[s].p = t.p
        /\ task'[s].user = t.user /\ task'[s].prior = t.prior
        /\ locks'[s] = locks[s] \cup {"wallet"}
        /\ UNCHANGED <<purchase, cashback, wallet, audit, settledBy>>
    <2>1. TypeOK /\ t.amount \in Nat
      BY <1>1, WritingSession
    <2>2. WriteEffect(s, "wallet", t.amount, next)
      BY <1>2, <1>4, <2>1, WrittenEffect
    <2> QED BY <2>2 DEF WriteEffect
  <1>6. /\ image'[s].wallet = new /\ image' \in [Sessions -> ImageRow]
        /\ image'[s].purchase = image[s].purchase /\ image'[s].cashback = image[s].cashback
    BY <1>1, <1>2, <1>3, WritingSession, WrittenImage
  <1>7. /\ locks[s] = IF t.op = "admin_reverse" THEN {"cashback"} ELSE {"purchase", "cashback"}
        /\ t.op \in ForwardSettle => t.amount > 0
    BY <1>1, WritingSession DEF LocksOK
  <1>8. HandlerOK(s)'
    BY <1>1, <1>5, WritingSession DEF HandlerOK, Writing, next
  <1>9. LocksOK(s)'
    BY <1>1, <1>5, <1>7, WritingSession DEF LocksOK, Writing, ForwardSettle, Tables, next
  <1>10. ImagesOK(s)'
    BY <1>1, <1>5, <1>6, <1>7, WritingSession DEF ImagesOK, new
  <1> QED BY <1>1, <1>2, <1>4, <1>6, <1>8, <1>9, <1>10, WritingSession, StatementKeeps

-----------------------------------------------------------------------------
(* The commit.                                                              *)

\* Whether the handler of task t moves money: all but a confirmation or a rejection of
\* a purchase without cashback.
MovesMoney(t) == t.op \in ForwardSettle => t.amount > 0

\* What a commit does to the tables: the handler's statements, applied to the rows as
\* they are committed at that moment.
LEMMA CommitEffect ==
  ASSUME IInv, NEW s \in Sessions, Commit(s)
  PROVE  LET t == task[s] IN
         /\ t.pc \in Writing /\ t.pc = "commit"
         /\ purchase' = [purchase EXCEPT ![t.p] =
                           PurchaseStatement(t.op, t.user, t.amount, purchase[t.p])]
         /\ cashback' = IF MovesMoney(t)
                          THEN [cashback EXCEPT ![t.p] =
                                  CashbackStatement(t.op, cashback[t.p], t.amount)]
                          ELSE cashback
         /\ wallet' = IF MovesMoney(t)
                        THEN [wallet EXCEPT ![t.user] =
                                WalletStatement(t.op, t.prior, wallet[t.user], t.amount)]
                        ELSE wallet
         /\ locks[s] = IF MovesMoney(t) THEN Tables ELSE {"purchase"}
         /\ t.op = "ingest" => purchase[t.p].status = "absent"
         /\ t.op # "ingest" => purchase[t.p].status # "absent" /\ purchase[t.p].user = t.user
         /\ t.op \in ForwardSettle => purchase[t.p].amount = t.amount
  <1> DEFINE t == task[s]
  <1>1. t.pc = "commit" /\ t.pc \in Writing
    BY DEF Commit, Writing
  <1>2. HandlerOK(s) /\ LocksOK(s) /\ ImagesOK(s) /\ t.amount \in Nat
    BY <1>1, WritingSession
  <1>3. locks[s] = IF MovesMoney(t) THEN Tables ELSE {"purchase"}
    BY <1>1, <1>2 DEF LocksOK, MovesMoney
  <1>4. "purchase" \in locks[s]
        /\ ("cashback" \in locks[s] <=> MovesMoney(t)) /\ ("wallet" \in locks[s] <=> MovesMoney(t))
    BY <1>3 DEF Tables
  <1>5. /\ image[s].purchase = PurchaseStatement(t.op, t.user, t.amount, purchase[t.p])
        /\ t.op = "ingest" => purchase[t.p].status = "absent"
        /\ t.op \in ForwardSettle => purchase[t.p].amount = t.amount
        /\ MovesMoney(t) =>
             /\ image[s].cashback = CashbackStatement(t.op, cashback[t.p], t.amount)
             /\ image[s].wallet = WalletStatement(t.op, t.prior, wallet[t.user], t.amount)
    BY <1>2, <1>4 DEF ImagesOK
  <1>6. t.op # "ingest" => purchase[t.p].status # "absent" /\ purchase[t.p].user = t.user
    BY <1>1, <1>2 DEF HandlerOK
  <1>7. /\ purchase' = [purchase EXCEPT ![t.p] = image[s].purchase]
        /\ cashback' = IF MovesMoney(t) THEN [cashback EXCEPT ![t.p] = image[s].cashback]
                                        ELSE cashback
        /\ wallet' = IF MovesMoney(t) THEN [wallet EXCEPT ![t.user] = image[s].wallet]
                                      ELSE wallet
    BY <1>4 DEF Commit
  <1> QED BY <1>1, <1>3, <1>5, <1>6, <1>7

\* What a commit does to the session: it holds nothing any more, and is closed or goes on
\* to publish.
LEMMA CommitSession ==
  ASSUME IInv, NEW s \in Sessions, Commit(s)
  PROVE  /\ OthersIdle(s) /\ locks'[s] = {}
         /\ task' \in [Sessions -> Tasks]
         /\ image' \in [Sessions -> ImageRow]
         /\ locks' \in [Sessions -> SUBSET Tables]
         /\ task[s].op = "ingest" => task'[s] = Idle
         /\ task[s].op # "ingest" =>
              /\ task'[s].pc = "publish" /\ task'[s].op = task[s].op /\ task'[s].p = task[s].p
              /\ task[s].op \in SettleOperations
  <1>0. TypeOK /\ task[s] \in Tasks /\ task[s].op \in AllOperations
    BY WritingSession DEF Commit, Writing
  <1>1. CASE task[s].op = "ingest"
    BY <1>0, <1>1, CloseEffect DEF Commit
  <1>2. CASE task[s].op # "ingest"
    <2>1. /\ task' = [task EXCEPT ![s].pc = "publish"]
          /\ image' = [image EXCEPT ![s] = NoImage]
          /\ locks' = [locks EXCEPT ![s] = {}]
      BY <1>2 DEF Commit
    <2>2. NoImage \in ImageRow
      BY DEF NoImage, ImageRow, NoPurchase, NoCashback, EmptyWallet, PurchaseRow, CashbackRow,
         WalletRow
    <2>3. image' \in [Sessions -> ImageRow] /\ locks' \in [Sessions -> SUBSET Tables]
          /\ locks'[s] = {}
          /\ \A r \in Sessions \ {s} : image'[r] = image[r] /\ locks'[r] = locks[r]
      BY <1>0, <2>1, <2>2 DEF TypeOK, ImageRow
    <2>4. \A r \in Sessions \ {s} : task'[r] = task[r]
      BY <1>0, <2>1 DEF TypeOK
    <2>5. task'[s].pc = "publish" /\ task'[s].op = task[s].op /\ task'[s].p = task[s].p
      BY <1>0, <2>1 DEF TypeOK, Tasks
    <2>6. task' \in [Sessions -> Tasks]
      BY <1>0, <2>1 DEF TypeOK, Tasks, Pcs
    <2>7. task[s].op \in SettleOperations
      BY <1>0, <1>2 DEF AllOperations
    <2> QED BY <1>2, <2>3, <2>4, <2>5, <2>6, <2>7 DEF OthersIdle
  <1> QED BY <1>1, <1>2

\* What a commit makes of the one purchase it writes: an ingestion finds it absent and
\* leaves it pending with its owner; a settlement keeps the owner, keeps or zeroes the
\* amount, and leaves it settled.
LEMMA CommitRow ==
  ASSUME IInv, NEW s \in Sessions, Commit(s)
  PROVE  LET t == task[s] p == t.p IN
         /\ \A q \in Purchases \ {p} : purchase'[q] = purchase[q] /\ cashback'[q] = cashback[q]
         /\ \A u \in Users \ {t.user} : wallet'[u] = wallet[u]
         /\ t.op = "ingest" =>
              /\ purchase[p].status = "absent"
              /\ purchase'[p].status = "pending"
              /\ purchase'[p].user = t.user /\ purchase'[p].amount = t.amount
              /\ cashback'[p].status = "pending" /\ cashback'[p].amount = t.amount
         /\ t.op # "ingest" =>
              /\ purchase[p].status # "absent"
              /\ purchase'[p].status =
                   IF t.op = "admin_reverse" THEN "reversed" ELSE TargetStatus(t.op)
              /\ purchase'[p].status \notin {"absent", "pending"}
              /\ purchase'[p].user = purchase[p].user
              /\ purchase'[p].amount \in {purchase[p].amount, 0}
              /\ cashback'[p].amount = cashback[p].amount
              /\ cashback'[p].status = cashback[p].status \/ cashback'[p].status # "absent"
  <1> DEFINE t == task[s]
             p == t.p
  <1>1. t.pc \in Writing
    BY CommitEffect
  <1>2. /\ TypeOK /\ p \in Purchases /\ t.op \in AllOperations /\ t.user \in Users
        /\ purchase[p] \in PurchaseRow /\ cashback[p] \in CashbackRow
    BY <1>1, WritingSession
  <1>3. /\ \A q \in Purchases \ {p} : purchase'[q] = purchase[q] /\ cashback'[q] = cashback[q]
        /\ \A u \in Users \ {t.user} : wallet'[u] = wallet[u]
    BY <1>2, CommitEffect DEF TypeOK
  <1>4. /\ purchase'[p] = PurchaseStatement(t.op, t.user, t.amount, purchase[p])
        /\ cashback'[p] = IF MovesMoney(t) THEN CashbackStatement(t.op, cashback[p], t.amount)
                                           ELSE cashback[p]
    BY <1>2, CommitEffect DEF TypeOK
  <1>5. ASSUME t.op = "ingest"
        PROVE  /\ purchase[p].status = "absent"
               /\ purchase'[p].status = "pending"
               /\ purchase'[p].user = t.user /\ purchase'[p].amount = t.amount
               /\ cashback'[p].status = "pending" /\ cashback'[p].amount = t.amount
    <2>1. purchase'[p] = NewPurchase(t.user, t.amount) /\ cashback'[p] = NewCashback(t.amount)
      BY <1>4, <1>5 DEF PurchaseStatement, CashbackStatement, MovesMoney, ForwardSettle
    <2> QED BY <1>5, <2>1, CommitEffect DEF NewPurchase, NewCashback
  <1>6. ASSUME t.op # "ingest"
        PROVE  /\ purchase[p].status # "absent"
               /\ purchase'[p].status =
                    IF t.op = "admin_reverse" THEN "reversed" ELSE TargetStatus(t.op)
               /\ purchase'[p].status \notin {"absent", "pending"}
               /\ purchase'[p].user = purchase[p].user
               /\ purchase'[p].amount \in {purchase[p].amount, 0}
               /\ cashback'[p].amount = cashback[p].amount
               /\ cashback'[p].status = cashback[p].status \/ cashback'[p].status # "absent"
    <2>1. purchase'[p] = IF t.op = "admin_reverse" THEN MarkReversed(purchase[p])
                                                   ELSE UpdateStatus(purchase[p], TargetStatus(t.op))
      BY <1>4, <1>6 DEF PurchaseStatement
    <2>2. \/ cashback'[p] = cashback[p]
          \/ cashback'[p] = CashbackConfirm(cashback[p])
          \/ cashback'[p] = CashbackReverse(cashback[p])
      BY <1>4, <1>6 DEF CashbackStatement
    <2>3. /\ cashback'[p].amount = cashback[p].amount
          /\ cashback'[p].status = cashback[p].status \/ cashback'[p].status # "absent"
      BY <2>2 DEF CashbackConfirm, CashbackReverse
    <2>4. /\ purchase'[p].status =
               IF t.op = "admin_reverse" THEN "reversed" ELSE TargetStatus(t.op)
          /\ purchase'[p].user = purchase[p].user
          /\ purchase'[p].amount \in {purchase[p].amount, 0}
      BY <2>1 DEF MarkReversed, UpdateStatus
    <2>5. purchase'[p].status \notin {"absent", "pending"}
      BY <2>4 DEF TargetStatus
    <2>6. purchase[p].status # "absent"
      BY <1>6, CommitEffect
    <2> QED BY <2>3, <2>4, <2>5, <2>6
  <1> QED BY <1>3, <1>5, <1>6

\* A commit keeps the invariant: another session that has written one of the same rows
\* would hold it, and a session that has read the purchase still finds its owner.
LEMMA CommitKeeps ==
  ASSUME IInv, NEW s \in Sessions, Commit(s)
  PROVE  IInv'
  <1> USE RowsAssumption, TransactionsAssumption
  <1> DEFINE t == task[s]
             p == t.p
  <1>0. TypeOK /\ SessionsOK /\ LocksExclude /\ RowsPaired /\ PublishedIsSettled /\ NoPhantomAudit
    BY DEF IInv
  <1>1. /\ t.pc \in Writing /\ p \in Purchases /\ t.op \in AllOperations /\ t.user \in Users
        /\ t.amount \in Nat /\ t.prior \in PurchaseStatus \cup {"absent"}
        /\ t.op = "ingest" => t.amount \in Amounts
        /\ purchase[p] \in PurchaseRow /\ cashback[p] \in CashbackRow /\ wallet[t.user] \in WalletRow
    BY CommitEffect, WritingSession
  <1>2. UNCHANGED audit /\ settledBy' \in [Purchases -> SUBSET SettleOperations]
    BY <1>0, <1>1 DEF Commit, TypeOK, AllOperations
  <1>t. TypeOK'
    <2>1. purchase' \in [Purchases -> PurchaseRow]
      <3>1. PurchaseStatement(t.op, t.user, t.amount, purchase[p]) \in PurchaseRow
        BY <1>1, StatementTypes
      <3>2. purchase' = [purchase EXCEPT ![p] =
                           PurchaseStatement(t.op, t.user, t.amount, purchase[p])]
        BY CommitEffect
      <3>3. purchase \in [Purchases -> PurchaseRow]
        BY <1>0 DEF TypeOK
      <3> QED BY <3>1, <3>2, <3>3
    <2>2. cashback' \in [Purchases -> CashbackRow]
      <3>1. CashbackStatement(t.op, cashback[p], t.amount) \in CashbackRow
        BY <1>1, StatementTypes
      <3> QED BY <1>0, <1>1, <3>1, CommitEffect DEF TypeOK
    <2>3. wallet' \in [Users -> WalletRow]
      <3>1. WalletStatement(t.op, t.prior, wallet[t.user], t.amount) \in WalletRow
        BY <1>1, StatementTypes
      <3>2. \/ wallet' = [wallet EXCEPT ![t.user] =
                           WalletStatement(t.op, t.prior, wallet[t.user], t.amount)]
            \/ wallet' = wallet
        BY CommitEffect
      <3>3. wallet \in [Users -> WalletRow]
        BY <1>0 DEF TypeOK
      <3> QED BY <3>1, <3>2, <3>3
    <2> QED BY <1>0, <1>2, <2>1, <2>2, <2>3, CommitSession DEF TypeOK, ImageRow
  <1>k. \A q \in Purchases : purchase[q].status # "absent" =>
          purchase'[q].status # "absent" /\ purchase'[q].user = purchase[q].user
    BY CommitRow
  <1>n. \A q \in Purchases : purchase[q].status \notin {"absent", "pending"} =>
          purchase'[q].status \notin {"absent", "pending"}
    BY CommitRow
  <1>s. SessionsOK'
    <2>1. ASSUME NEW r \in Sessions \ {s}
          PROVE  HandlerOK(r)' /\ LocksOK(r)' /\ ImagesOK(r)'
      <3>1. task'[r] = task[r] /\ image'[r] = image[r] /\ locks'[r] = locks[r]
        BY CommitSession DEF OthersIdle
      <3>2. HandlerOK(r) /\ LocksOK(r) /\ ImagesOK(r) /\ task[r] \in Tasks
        BY <1>0 DEF SessionsOK, TypeOK
      <3>3. task[r].p = NoId \/ task[r].p \in Purchases
        BY <3>2 DEF Tasks
      <3>4. HandlerOK(r)'
        BY <1>k, <3>1, <3>2, <3>3 DEF HandlerOK, Writing
      <3>5. LocksOK(r)'
        BY <3>1, <3>2 DEF LocksOK
      <3>6. locks[r] # {} => task[r].pc \in Writing /\ task[r].p \in Purchases
                             /\ task[r].user \in Users
        BY <3>2, <3>3 DEF LocksOK, HandlerOK, Writing
      <3>7. "purchase" \in locks[r] => purchase'[task[r].p] = purchase[task[r].p]
        <4>1. "purchase" \in locks[s] /\ "purchase" \in Tables
          BY CommitEffect DEF Tables
        <4>2. "purchase" \in locks[r] => task[r].p # p
          BY <1>0, <4>1 DEF LocksExclude, SameRow
        <4> QED BY <3>6, <4>2, CommitRow
      <3>8. "cashback" \in locks[r] => cashback'[task[r].p] = cashback[task[r].p]
        <4>1. CASE ~MovesMoney(t)
          BY <4>1, CommitEffect
        <4>2. CASE MovesMoney(t)
          <5>1. "cashback" \in locks[s] /\ "cashback" \in Tables
            BY <4>2, CommitEffect DEF Tables
          <5>2. "cashback" \in locks[r] => task[r].p # p
            BY <1>0, <5>1 DEF LocksExclude, SameRow
          <5> QED BY <3>6, <5>2, CommitRow
        <4> QED BY <4>1, <4>2
      <3>9. "wallet" \in locks[r] => wallet'[task[r].user] = wallet[task[r].user]
        <4>1. CASE ~MovesMoney(t)
          BY <4>1, CommitEffect
        <4>2. CASE MovesMoney(t)
          <5>1. "wallet" \in locks[s] /\ "wallet" \in Tables
            BY <4>2, CommitEffect DEF Tables
          <5>2. "wallet" \in locks[r] => task[r].user # t.user
            BY <1>0, <5>1 DEF LocksExclude, SameRow
          <5> QED BY <3>6, <5>2, CommitRow
        <4> QED BY <4>1, <4>2
      <3>10. ImagesOK(r)'
        BY <3>1, <3>2, <3>7, <3>8, <3>9 DEF ImagesOK
      <3> QED BY <3>4, <3>5, <3>10
    <2>2. HandlerOK(s)' /\ LocksOK(s)' /\ ImagesOK(s)'
      <3>1. CASE t.op = "ingest"
        BY <3>1, CommitSession, IdleOK
      <3>2. CASE t.op # "ingest"
        <4>1. /\ task'[s].pc = "publish" /\ task'[s].op = t.op /\ task'[s].p = p
              /\ t.op \in SettleOperations /\ locks'[s] = {}
          BY <3>2, CommitSession
        <4>2. HandlerOK(s)'
          BY <1>1, <3>2, <4>1 DEF HandlerOK, Writing, SettleOperations
        <4>3. LocksOK(s)'
          BY <4>1 DEF LocksOK, Writing
        <4>4. ImagesOK(s)'
          BY <4>1 DEF ImagesOK
        <4> QED BY <4>2, <4>3, <4>4
      <3> QED BY <3>1, <3>2
    <2> QED BY <2>1, <2>2 DEF SessionsOK
  <1>e. LocksExclude'
    BY <1>0, CommitSession, ExclusionKeeps
  <1>p. RowsPaired'
    <2> SUFFICES ASSUME NEW q \in Purchases
                 PROVE  /\ purchase'[q].status = "absent" <=> cashback'[q].status = "absent"
                        /\ purchase'[q].status = "absent" <=> purchase'[q].user = NoUser
                        /\ cashback'[q].amount >= purchase'[q].amount
      BY DEF RowsPaired
    <2>1. CASE q # p
      BY <1>0, <2>1, CommitRow DEF RowsPaired
    <2>2. CASE q = p /\ t.op = "ingest"
      BY <1>1, <2>2, CommitRow
    <2>3. CASE q = p /\ t.op # "ingest"
      <3>1. cashback[p].amount \in Nat /\ purchase[p].amount \in Nat
        BY <1>1 DEF PurchaseRow, CashbackRow
      <3> QED BY <1>0, <1>1, <2>3, <3>1, CommitRow DEF RowsPaired
    <2> QED BY <2>1, <2>2, <2>3
  <1>u. PublishedIsSettled'
    <2> SUFFICES ASSUME NEW r \in Sessions, task'[r].pc = "publish"
                 PROVE  purchase'[task'[r].p].status \notin {"absent", "pending"}
      BY DEF PublishedIsSettled
    <2>1. CASE r = s
      BY <2>1, CommitSession, CommitRow DEF Idle
    <2>2. CASE r # s
      <3>1. task'[r] = task[r]
        BY <2>2, CommitSession DEF OthersIdle
      <3>2. task[r].p \in Purchases
        BY <1>0, <3>1 DEF SessionsOK, HandlerOK, TypeOK, Tasks
      <3> QED BY <1>0, <1>n, <3>1, <3>2 DEF PublishedIsSettled
    <2> QED BY <2>1, <2>2
  <1>a. NoPhantomAudit'
    BY <1>0, <1>2, <1>n DEF NoPhantomAudit
  <1> QED BY <1>t, <1>s, <1>e, <1>p, <1>u, <1>a DEF IInv

-----------------------------------------------------------------------------
(* Publication and failure, and the theorems about any number of writers.   *)

\* The audit rows of a publication are about a settled purchase.
LEMMA PublishKeeps ==
  ASSUME IInv, NEW s \in Sessions, Publish(s)
  PROVE  IInv'
  <1> DEFINE t == task[s]
             st == purchase[t.p].status
  <1>0. TypeOK /\ NoPhantomAudit /\ PublishedIsSettled /\ HandlerOK(s) /\ t \in Tasks
    BY DEF IInv, SessionsOK, TypeOK
  <1>1. t.pc = "publish" /\ t.p \in Purchases /\ t.op \in SettleOperations
        /\ st \notin {"absent", "pending"}
    BY <1>0 DEF Publish, HandlerOK, Tasks, PublishedIsSettled
  <1>2. Close(s) /\ UNCHANGED <<purchase, cashback, wallet, settledBy>>
    BY DEF Publish, tables
  <1>3. audit' = audit \/ \E a \in AuditActions : audit' = [audit EXCEPT ![t.p][a] = @ + 1]
    BY <1>1 DEF Publish, Deliver, Subscribed, EventOf, AuditActionOf, PersistAuditLog,
       AuditActions, SettleOperations
  <1>4. audit \in [Purchases -> [AuditActions -> Nat]]
    BY <1>0 DEF TypeOK
  <1>5. audit' \in [Purchases -> [AuditActions -> Nat]]
    <2>1. CASE audit' = audit
      BY <1>4, <2>1
    <2>2. ASSUME NEW a \in AuditActions, audit' = [audit EXCEPT ![t.p][a] = audit[t.p][a] + 1]
          PROVE  audit' \in [Purchases -> [AuditActions -> Nat]]
      BY <1>1, <1>4, <2>2
    <2> QED BY <1>3, <2>1, <2>2
  <1>6. \A q \in Purchases \ {t.p} : audit'[q] = audit[q]
    BY <1>3, <1>4
  <1>7. NoPhantomAudit'
    BY <1>0, <1>1, <1>2, <1>6 DEF NoPhantomAudit
  <1> QED BY <1>0, <1>2, <1>5, <1>7, CloseKeeps DEF TypeOK

\* Whatever a session has written and not committed is forgotten.
LEMMA AbandonKeeps ==
  ASSUME IInv, NEW s \in Sessions, Abandon(s)
  PROVE  IInv'
  <1>1. Close(s) /\ UNCHANGED <<purchase, cashback, wallet, audit>>
    BY DEF Abandon, tables
  <1>2. settledBy' \in [Purchases -> SUBSET SettleOperations]
    BY DEF IInv, TypeOK, Abandon
  <1>3. NoPhantomAudit' /\ audit' \in [Purchases -> [AuditActions -> Nat]]
    BY <1>1 DEF IInv, TypeOK, NoPhantomAudit
  <1> QED BY <1>1, <1>2, <1>3, CloseKeeps

\* Every action keeps the invariant.
LEMMA NextIInv == IInv /\ [Next]_vars => IInv'
  <1> SUFFICES ASSUME IInv, [Next]_vars PROVE IInv'
    OBVIOUS
  <1>1. CASE Next
    BY <1>1, StartIngestKeeps, StartSettleKeeps, ReadPurchaseKeeps, InsertPurchaseKeeps,
       UpdatePurchaseStatusKeeps, ReversePurchaseRowKeeps, WriteCashbackKeeps, WriteWalletKeeps,
       CommitKeeps, PublishKeeps, AbandonKeeps DEF Next
  <1>2. CASE UNCHANGED vars
    <2>1. UNCHANGED <<purchase, cashback, wallet, task, image, locks, audit, settledBy>>
      BY <1>2 DEF vars
    <2>2. \A s \in Sessions : HandlerOK(s)' = HandlerOK(s) /\ LocksOK(s)' = LocksOK(s)
                              /\ ImagesOK(s)' = ImagesOK(s)
      BY <2>1 DEF HandlerOK, LocksOK, ImagesOK
    <2> QED BY <2>1, <2>2 DEF IInv, TypeOK, SessionsOK, LocksExclude, SameRow, RowsPaired,
         PublishedIsSettled, NoPhantomAudit
  <1> QED BY <1>1, <1>2

\* Steps that are no commit leave the three tables alone.
LEMMA OnlyCommitWrites ==
  ASSUME Next
  PROVE  UNCHANGED <<purchase, cashback, wallet>> \/ \E s \in Sessions : Commit(s)
  BY DEF Next, StartIngest, StartSettle, ReadPurchase, InsertPurchase, UpdatePurchaseStatus,
     ReversePurchaseRow, WriteCashback, WriteWallet, Written, Publish, Abandon, tables

\* Rows, images and local variables keep their types, whatever a handler has computed
\* from a row that another session has replaced since.
THEOREM TypeCorrect == Spec => []TypeOK
  <1>1. IInv => TypeOK
    BY DEF IInv
  <1> QED BY <1>1, InitIInv, NextIInv, PTL DEF Spec

\* The invariant itself: the locks a session holds, the rows it has written and the
\* rows that are committed agree at every moment, for any number of sessions.
THEOREM StatementsStayCurrent == Spec => []IInv
  BY InitIInv, NextIInv, PTL DEF Spec

\* A purchase and its cashback transaction are created by the same commit.
THEOREM CashbackComesWithPurchase == Spec => []CashbackWithPurchase
  <1>1. IInv => CashbackWithPurchase
    BY DEF IInv, RowsPaired, CashbackWithPurchase
  <1> QED BY <1>1, InitIInv, NextIInv, PTL DEF Spec

\* No audit row exists for a purchase that was never settled.
THEOREM NoAuditBeforeCommit == Spec => []NoPhantomAudit
  <1>1. IInv => NoPhantomAudit
    BY DEF IInv
  <1> QED BY <1>1, InitIInv, NextIInv, PTL DEF Spec

\* The step of NoLostWalletUpdate.
WalletStep ==
  \A u \in Users : wallet'[u] # wallet[u] =>
    \E s \in Sessions :
      /\ task[s].pc = "commit" /\ task[s].user = u
      /\ wallet'[u] = WalletStatement(task[s].op, task[s].prior, wallet[u], task[s].amount)

\* No wallet UPDATE is lost: at its commit a handler moves the balances as they are
\* committed at that moment, not as they were when it began.
THEOREM WalletUpdatesNotLost == Spec => NoLostWalletUpdate
  <1>1. ASSUME IInv, Next PROVE WalletStep
    <2>1. CASE UNCHANGED <<purchase, cashback, wallet>>
      BY <2>1 DEF WalletStep
    <2>2. ASSUME NEW s \in Sessions, Commit(s) PROVE WalletStep
      <3> SUFFICES ASSUME NEW u \in Users, wallet'[u] # wallet[u]
                   PROVE  /\ task[s].pc = "commit" /\ task[s].user = u
                          /\ wallet'[u] = WalletStatement(task[s].op, task[s].prior, wallet[u],
                                                          task[s].amount)
        BY DEF WalletStep
      <3>1. task[s].user = u
        BY <1>1, <2>2, CommitRow
      <3>2. wallet \in [Users -> WalletRow]
        BY <1>1 DEF IInv, TypeOK
      <3> QED BY <1>1, <2>2, <3>1, <3>2, CommitEffect
    <2> QED BY <1>1, <2>1, <2>2, OnlyCommitWrites
  <1>2. IInv /\ [Next]_vars => [WalletStep]_vars
    BY <1>1
  <1> QED BY <1>2, InitIInv, NextIInv, PTL DEF Spec, NoLostWalletUpdate, WalletStep

\* The step of IngestedOnce.
IngestedStep ==
  \A p \in Purchases : purchase[p].status # "absent" =>
    /\ purchase'[p].user = purchase[p].user
    /\ cashback'[p].amount = cashback[p].amount
    /\ purchase'[p].amount \in {purchase[p].amount, 0}
    /\ purchase'[p].status \in {"absent", "pending"} => purchase'[p] = purchase[p]

\* An external_id is ingested once, however many sessions submit it at the same time.
THEOREM IngestedOnlyOnce == Spec => IngestedOnce
  <1>1. ASSUME IInv, Next PROVE IngestedStep
    <2>1. CASE UNCHANGED <<purchase, cashback, wallet>>
      BY <2>1 DEF IngestedStep
    <2>2. ASSUME NEW s \in Sessions, Commit(s) PROVE IngestedStep
      BY <1>1, <2>2, CommitRow DEF IngestedStep
    <2> QED BY <1>1, <2>1, <2>2, OnlyCommitWrites
  <1>2. IInv /\ [Next]_vars => [IngestedStep]_vars
    BY <1>1
  <1> QED BY <1>2, InitIInv, NextIInv, PTL DEF Spec, IngestedOnce, IngestedStep

\* Without a reversal the rows are locked in one order, purchase before cashback before
\* wallet: in a set of sessions that wait for each other none waits for a wallet, so none
\* for a cashback transaction, so none for a purchase.
LEMMA OrderedLocks == IInv => OnlyReversalsDeadlock
  <1> SUFFICES ASSUME IInv, NEW S \in (SUBSET Sessions) \ {{}}, Deadlocked(S),
                      \A s \in S : task[s].op # "admin_reverse"
               PROVE  FALSE
    BY DEF OnlyReversalsDeadlock
  <1>1. \A s \in S : s \in Sessions /\ LocksOK(s)
    BY DEF IInv, SessionsOK
  <1>2. \A s \in S : \E r \in S : task[s].pc \in locks[r]
    BY DEF Deadlocked, WaitsFor
  <1>3. \A s \in S : task[s].pc \in Tables
    BY <1>1, <1>2 DEF IInv, TypeOK
  <1>4. \A s \in S : task[s].pc # "wallet"
    BY <1>1, <1>2, <1>3 DEF LocksOK, Tables
  <1>5. \A s \in S : task[s].pc # "cashback"
    BY <1>1, <1>2, <1>3, <1>4 DEF LocksOK, Tables
  <1>6. \A s \in S : task[s].pc # "purchase"
    BY <1>1, <1>2, <1>3, <1>4, <1>5 DEF LocksOK, Tables
  <1>7. PICK s \in S : TRUE
    OBVIOUS
  <1> QED BY <1>3, <1>4, <1>5, <1>6, <1>7 DEF Tables

\* Every deadlock of the database has a reversal in it.
THEOREM DeadlocksNeedReversal == Spec => []OnlyReversalsDeadlock
  BY OrderedLocks, InitIInv, NextIInv, PTL DEF Spec

-----------------------------------------------------------------------------
(* One writer per purchase.                                                 *)

\* Sessions on the same purchase: all but one have committed.
OneWriter ==
  \A s, r \in Sessions :
    s # r /\ task[s].p = task[r].p /\ task[s].pc # "idle" =>
      task[s].pc = "publish" \/ task[r].pc = "publish"

\* What the handler of s has read is still what is committed, and an admin's reversal is
\* still one that admins ask for.
ReadOK(s) ==
  LET t == task[s] row == purchase[t.p] IN
  /\ t.pc \in Writing =>
       /\ t.prior = row.status
       /\ Accepts(t.op, row.status)
       /\ t.op # "ingest" => t.amount = row.amount
  /\ t.pc \in Writing \cup {"read"} /\ t.op = "admin_reverse" => row.status \in ReverseRequests

ReadIsCurrent == \A s \in Sessions : ReadOK(s)

\* The inductive invariant with one writer per purchase.
SInv == IInv /\ OneWriter /\ ReadIsCurrent

(* The kinds of step of a session that are neither its commit nor its publication.      *)

Begins(s) ==
  /\ task'[s].pc = "read" /\ task'[s].p \in Purchases
  /\ Free(s, task'[s].p)
  /\ task'[s].op = "admin_reverse" => purchase[task'[s].p].status \in ReverseRequests

Reads(s) ==
  /\ task[s].pc = "read" /\ task'[s].pc \in Writing
  /\ task'[s].op = task[s].op /\ task'[s].p = task[s].p
  /\ task'[s].prior = purchase[task[s].p].status
  /\ Accepts(task[s].op, purchase[task[s].p].status)
  /\ task[s].op # "ingest" => task'[s].amount = purchase[task[s].p].amount

Writes(s) ==
  /\ task[s].pc \in Writing /\ task'[s].pc \in Writing
  /\ task'[s].op = task[s].op /\ task'[s].p = task[s].p /\ task'[s].prior = task[s].prior
  /\ task'[s].amount \in {task[s].amount, purchase[task[s].p].amount}

Quiet(s) ==
  /\ OthersIdle(s)
  /\ UNCHANGED <<purchase, cashback, wallet, audit, settledBy>>
  /\ task[s].pc # "publish"
  /\ task'[s] = Idle \/ Begins(s) \/ Reads(s) \/ Writes(s)

\* A statement changes no local variable but the program counter and the amount.
LEMMA StatementQuiet ==
  ASSUME IInv, NEW s \in Sessions, NEW table \in Tables, NEW row, NEW amount \in Nat,
         NEW next \in Writing, task[s].pc \in Writing,
         Written(s, table, row, amount, next),
         amount \in {task[s].amount, purchase[task[s].p].amount}
  PROVE  Quiet(s)
  <1>0. TypeOK
    BY DEF IInv
  <1>1. next \in Pcs /\ task[s].pc # "publish"
    BY DEF Writing, Pcs
  <1>2. /\ OthersIdle(s)
        /\ task'[s].pc = next /\ task'[s].amount = amount
        /\ task'[s].op = task[s].op /\ task'[s].p = task[s].p
        /\ task'[s].prior = task[s].prior
        /\ UNCHANGED <<purchase, cashback, wallet, audit, settledBy>>
    BY <1>0, <1>1, WrittenEffect DEF WriteEffect
  <1> QED BY <1>1, <1>2 DEF Quiet, Writes

\* Every step is a commit, a publication, a failure to publish, or quiet.
LEMMA StepKinds ==
  ASSUME IInv, Next
  PROVE  \E s \in Sessions :
           Commit(s) \/ Publish(s) \/ (Abandon(s) /\ task[s].pc = "publish") \/ Quiet(s)
  <1>0. TypeOK
    BY DEF IInv
  <1>w. "purchase" \in Writing /\ "cashback" \in Writing /\ "wallet" \in Writing
        /\ "commit" \in Writing /\ "purchase" \in Tables /\ "cashback" \in Tables
        /\ "wallet" \in Tables
    BY DEF Writing, Tables
  <1>1. ASSUME NEW s \in Sessions, NEW p \in Purchases, NEW u \in Users, NEW a \in Amounts,
               StartIngest(s, p, u, a)
        PROVE  Quiet(s)
    <2> DEFINE new == [Idle EXCEPT !.pc = "read", !.op = "ingest", !.p = p, !.user = u, !.amount = a]
    <2>1. task' = [task EXCEPT ![s] = new]
          /\ UNCHANGED <<purchase, cashback, wallet, image, locks, audit, settledBy>>
      BY <1>1 DEF StartIngest, tables, trail
    <2>2. task'[s] = new /\ OthersIdle(s)
      BY <1>0, <2>1 DEF TypeOK, OthersIdle
    <2>3. new.pc = "read" /\ new.op = "ingest" /\ new.p = p
      BY DEF Idle
    <2>4. Free(s, p) /\ task[s].pc # "publish"
      BY <1>1 DEF StartIngest, Free
    <2> QED BY <2>1, <2>2, <2>3, <2>4 DEF Quiet, Begins
  <1>2. ASSUME NEW s \in Sessions, NEW p \in Purchases, NEW op \in SettleOperations,
               StartSettle(s, op, p)
        PROVE  Quiet(s)
    <2> DEFINE new == [Idle EXCEPT !.pc = "read", !.op = op, !.p = p]
    <2>1. task' = [task EXCEPT ![s] = new]
          /\ UNCHANGED <<purchase, cashback, wallet, image, locks, audit, settledBy>>
      BY <1>2 DEF StartSettle, tables, trail
    <2>2. task'[s] = new /\ OthersIdle(s)
      BY <1>0, <2>1 DEF TypeOK, OthersIdle
    <2>3. new.pc = "read" /\ new.op = op /\ new.p = p
      BY DEF Idle
    <2>4. Free(s, p) /\ task[s].pc # "publish"
          /\ (op = "admin_reverse" => purchase[p].status \in ReverseRequests)
      BY <1>2 DEF StartSettle, Free
    <2> QED BY <2>1, <2>2, <2>3, <2>4 DEF Quiet, Begins
  <1>3. ASSUME NEW s \in Sessions, ReadPurchase(s) PROVE Quiet(s)
    <2> DEFINE t == task[s]
               row == purchase[t.p]
               new == [t EXCEPT !.pc = Order(t.op).read, !.prior = row.status,
                                !.user = IF t.op = "ingest" THEN t.user ELSE row.user,
                                !.amount = IF t.op = "ingest" THEN t.amount ELSE row.amount]
    <2>1. t.pc = "read" /\ UNCHANGED <<purchase, cashback, wallet, audit, settledBy>>
      BY <1>3 DEF ReadPurchase, tables, trail
    <2>2. CASE Accepts(t.op, row.status)
      <3>1. task' = [task EXCEPT ![s] = new] /\ UNCHANGED <<image, locks>>
        BY <1>3, <2>2 DEF ReadPurchase
      <3>2. task'[s] = new /\ OthersIdle(s)
        BY <1>0, <3>1 DEF TypeOK, OthersIdle
      <3>3. /\ new.pc \in Writing /\ new.op = t.op /\ new.p = t.p /\ new.prior = row.status
            /\ t.op # "ingest" => new.amount = row.amount
        BY <1>0 DEF TypeOK, Tasks, Order, Writing
      <3> HIDE DEF new
      <3> QED BY <2>1, <2>2, <3>2, <3>3 DEF Quiet, Reads
    <2>3. CASE ~Accepts(t.op, row.status)
      <3>1. Close(s)
        BY <1>3, <2>3 DEF ReadPurchase
      <3> QED BY <1>0, <2>1, <3>1, CloseEffect DEF Quiet
    <2> QED BY <2>2, <2>3
  <1>4. ASSUME NEW s \in Sessions, InsertPurchase(s) PROVE Quiet(s)
    <2>1. task[s].pc = "purchase" /\ task[s].op = "ingest"
      BY <1>4 DEF InsertPurchase, CanWrite
    <2>2. CASE purchase[task[s].p].status = "absent"
      <3>1. Written(s, "purchase", NewPurchase(task[s].user, task[s].amount), task[s].amount,
                    "cashback")
        BY <1>4, <2>1, <2>2 DEF InsertPurchase, Order
      <3> QED BY <1>w, <2>1, <3>1, WritingSession, StatementQuiet
    <2>3. CASE purchase[task[s].p].status # "absent"
      <3>1. Close(s) /\ UNCHANGED <<purchase, cashback, wallet, audit, settledBy>>
        BY <1>4, <2>3 DEF InsertPurchase, tables, trail
      <3> QED BY <1>0, <2>1, <3>1, CloseEffect DEF Quiet
    <2> QED BY <2>2, <2>3
  <1>5. ASSUME NEW s \in Sessions, UpdatePurchaseStatus(s) PROVE Quiet(s)
    <2> DEFINE row == purchase[task[s].p]
               next == IF row.amount > 0 THEN Order(task[s].op).purchase ELSE "commit"
    <2>1. task[s].pc = "purchase"
          /\ Written(s, "purchase", UpdateStatus(row, TargetStatus(task[s].op)), row.amount, next)
      BY <1>5 DEF UpdatePurchaseStatus, CanWrite
    <2>2. next \in Writing
      BY DEF Order, Writing
    <2>3. row.amount \in Nat
      BY <1>w, <2>1, WritingSession
    <2> HIDE DEF next
    <2> QED BY <1>w, <2>1, <2>2, <2>3, StatementQuiet
  <1>6. ASSUME NEW s \in Sessions, ReversePurchaseRow(s) PROVE Quiet(s)
    <2>1. task[s].pc = "purchase"
          /\ Written(s, "purchase", MarkReversed(purchase[task[s].p]), task[s].amount, "commit")
      BY <1>6 DEF ReversePurchaseRow, CanWrite, Order
    <2> QED BY <1>w, <2>1, WritingSession, StatementQuiet
  <1>7. ASSUME NEW s \in Sessions, WriteCashback(s) PROVE Quiet(s)
    <2>1. task[s].pc = "cashback"
          /\ Written(s, "cashback", CashbackStatement(task[s].op, cashback[task[s].p], task[s].amount),
                     task[s].amount, "wallet")
      BY <1>7 DEF WriteCashback, CanWrite, Order
    <2> QED BY <1>w, <2>1, WritingSession, StatementQuiet
  <1>8. ASSUME NEW s \in Sessions, WriteWallet(s) PROVE Quiet(s)
    <2> DEFINE next == Order(task[s].op).wallet
    <2>1. task[s].pc = "wallet"
          /\ Written(s, "wallet", WalletStatement(task[s].op, task[s].prior, wallet[task[s].user],
                                                  task[s].amount),
                     task[s].amount, next)
      BY <1>8 DEF WriteWallet, CanWrite
    <2>2. next \in Writing
      BY DEF Order, Writing
    <2> HIDE DEF next
    <2> QED BY <1>w, <2>1, <2>2, WritingSession, StatementQuiet
  <1>9. ASSUME NEW s \in Sessions, Abandon(s), task[s].pc # "publish" PROVE Quiet(s)
    <2>1. Close(s) /\ UNCHANGED <<purchase, cashback, wallet, audit, settledBy>>
      BY <1>9 DEF Abandon, tables
    <2> QED BY <1>0, <1>9, <2>1, CloseEffect DEF Quiet
  <1> QED BY <1>1, <1>2, <1>3, <1>4, <1>5, <1>6, <1>7, <1>8, <1>9 DEF Next

\* A session that ends, publishes, stays where it is or begins on a free purchase.
LEMMA OneWriterKeeps ==
  ASSUME IInv, IInv', OneWriter, NEW s \in Sessions, OthersIdle(s),
         \/ task'[s].pc \in {"idle", "publish"}
         \/ task'[s].p = task[s].p /\ task[s].pc \notin {"idle", "publish"}
         \/ \A r \in Sessions \ {s} : task[r].p = task'[s].p => task[r].pc = "publish"
  PROVE  OneWriter'
  <1> SUFFICES ASSUME NEW q \in Sessions, NEW r \in Sessions, q # r,
                      task'[q].p = task'[r].p, task'[q].pc # "idle"
               PROVE  task'[q].pc = "publish" \/ task'[r].pc = "publish"
    BY DEF OneWriter
  <1>1. \A x \in Sessions : task'[x].pc = "idle" <=> task'[x].p = NoId
    BY DEF IInv, SessionsOK, HandlerOK
  <1>2. task'[r].pc # "idle"
    BY <1>1
  <1>3. CASE q # s /\ r # s
    BY <1>3 DEF OneWriter, OthersIdle
  <1>4. CASE q = s
    BY <1>2, <1>4 DEF OneWriter, OthersIdle
  <1>5. CASE r = s
    BY <1>2, <1>5 DEF OneWriter, OthersIdle
  <1> QED BY <1>3, <1>4, <1>5

\* A quiet step disturbs nobody's reading.
LEMMA QuietKeeps ==
  ASSUME SingleWriter, SInv, IInv', NEW s \in Sessions, Quiet(s)
  PROVE  OneWriter' /\ ReadIsCurrent'
  <1>0. IInv /\ OneWriter /\ ReadIsCurrent
    BY DEF SInv
  <1>1. OthersIdle(s) /\ UNCHANGED <<purchase, cashback, wallet, audit, settledBy>>
        /\ task[s].pc # "publish"
    BY DEF Quiet
  <1>2. task'[s] = Idle \/ Begins(s) \/ Reads(s) \/ Writes(s)
    BY DEF Quiet
  <1>3. OneWriter'
    <2>1. CASE task'[s] = Idle
      BY <1>0, <1>1, <2>1, OneWriterKeeps DEF Idle
    <2>2. CASE Begins(s)
      <3>1. \A r \in Sessions \ {s} : task[r].p = task'[s].p => task[r].pc = "publish"
        BY <2>2 DEF Begins, Free
      <3> QED BY <1>0, <1>1, <3>1, OneWriterKeeps
    <2>3. CASE Reads(s)
      BY <1>0, <1>1, <2>3, OneWriterKeeps DEF Reads
    <2>4. CASE Writes(s)
      BY <1>0, <1>1, <2>4, OneWriterKeeps DEF Writes, Writing
    <2> QED BY <1>2, <2>1, <2>2, <2>3, <2>4
  <1>4. ASSUME NEW r \in Sessions \ {s} PROVE ReadOK(r)'
    <2>1. ReadOK(r) /\ task'[r] = task[r]
      BY <1>0, <1>1 DEF ReadIsCurrent, OthersIdle
    <2> QED BY <1>1, <2>1 DEF ReadOK
  <1>5. ReadOK(s)'
    <2>0. ReadOK(s)
      BY <1>0 DEF ReadIsCurrent
    <2>1. CASE task'[s] = Idle
      <3>1. task'[s].pc = "idle"
        BY <2>1 DEF Idle
      <3> QED BY <3>1 DEF ReadOK, Writing
    <2>2. CASE Begins(s)
      BY <1>1, <2>2 DEF ReadOK, Begins, Writing
    <2>3. CASE Reads(s)
      BY <1>1, <2>0, <2>3 DEF ReadOK, Reads
    <2>4. CASE Writes(s)
      BY <1>1, <2>0, <2>4 DEF ReadOK, Writes
    <2> QED BY <1>2, <2>1, <2>2, <2>3, <2>4
  <1> QED BY <1>3, <1>4, <1>5 DEF ReadIsCurrent

\* The empty database.
LEMMA InitSInv == Init => SInv
  <1> SUFFICES ASSUME Init PROVE SInv
    OBVIOUS
  <1>1. \A s \in Sessions : task[s].pc = "idle"
    BY DEF Init, Idle
  <1>2. OneWriter
    BY <1>1 DEF OneWriter
  <1>3. ReadIsCurrent
    BY <1>1 DEF ReadIsCurrent, ReadOK, Writing
  <1> QED BY <1>2, <1>3, InitIInv DEF SInv

\* With one writer per purchase nobody else has read the purchase a commit changes.
LEMMA NextSInv ==
  ASSUME SingleWriter
  PROVE  SInv /\ [Next]_vars => SInv'
  <1> SUFFICES ASSUME SInv, [Next]_vars PROVE SInv'
    OBVIOUS
  <1>0. IInv /\ OneWriter /\ ReadIsCurrent /\ IInv'
    BY NextIInv DEF SInv
  <1>1. CASE Next
    <2>0. PICK s \in Sessions :
            Commit(s) \/ Publish(s) \/ (Abandon(s) /\ task[s].pc = "publish") \/ Quiet(s)
      BY <1>0, <1>1, StepKinds
    <2>1. CASE Quiet(s)
      BY <1>0, <2>1, QuietKeeps DEF SInv
    <2>2. CASE Publish(s) \/ Abandon(s)
      <3>1. Close(s) /\ UNCHANGED purchase
        BY <2>2 DEF Publish, Abandon, tables
      <3>2. OthersIdle(s) /\ task'[s].pc = "idle"
        BY <1>0, <3>1, CloseEffect DEF IInv, Idle
      <3>3. OneWriter'
        BY <1>0, <3>2, OneWriterKeeps
      <3>4. ASSUME NEW r \in Sessions PROVE ReadOK(r)'
        <4>1. CASE r = s
          BY <3>2, <4>1 DEF ReadOK, Writing
        <4>2. CASE r # s
          <5>1. ReadOK(r) /\ task'[r] = task[r]
            BY <1>0, <3>2, <4>2 DEF ReadIsCurrent, OthersIdle
          <5> QED BY <3>1, <5>1 DEF ReadOK
        <4> QED BY <4>1, <4>2
      <3> QED BY <1>0, <3>3, <3>4 DEF SInv, ReadIsCurrent
    <2>3. CASE Commit(s)
      <3>1. OthersIdle(s) /\ task'[s].pc \in {"idle", "publish"}
        BY <1>0, <2>3, CommitSession DEF Idle
      <3>2. OneWriter'
        BY <1>0, <3>1, OneWriterKeeps
      <3>3. ASSUME NEW r \in Sessions PROVE ReadOK(r)'
        <4>1. CASE r = s
          BY <3>1, <4>1 DEF ReadOK, Writing
        <4>2. CASE r # s /\ task[r].pc \in Writing \cup {"read"}
          <5>1. ReadOK(r) /\ task'[r] = task[r]
            BY <1>0, <3>1, <4>2 DEF ReadIsCurrent, OthersIdle
          <5>2. task[s].pc = "commit"
            BY <1>0, <2>3, CommitEffect
          <5>3. task[r].p # task[s].p
            BY <1>0, <4>2, <5>2 DEF OneWriter, Writing
          <5>4. task[r].p \in Purchases
            BY <1>0, <4>2 DEF IInv, SessionsOK, HandlerOK, TypeOK, Tasks, Writing
          <5>5. purchase'[task[r].p] = purchase[task[r].p]
            BY <1>0, <2>3, <5>3, <5>4, CommitRow
          <5> QED BY <5>1, <5>5 DEF ReadOK
        <4>3. CASE r # s /\ task[r].pc \notin Writing \cup {"read"}
          <5>1. task'[r] = task[r]
            BY <3>1, <4>3 DEF OthersIdle
          <5> QED BY <4>3, <5>1 DEF ReadOK
        <4> QED BY <4>1, <4>2, <4>3
      <3> QED BY <1>0, <3>2, <3>3 DEF SInv, ReadIsCurrent
    <2> QED BY <2>0, <2>1, <2>2, <2>3
  <1>2. CASE UNCHANGED vars
    <2>1. UNCHANGED <<purchase, task>>
      BY <1>2 DEF vars
    <2> QED BY <1>0, <2>1 DEF SInv, OneWriter, ReadIsCurrent, ReadOK
  <1> QED BY <1>1, <1>2

-----------------------------------------------------------------------------
(* The refinement of CashbackLedger.                                        *)

\* The commit of a handler is the operation of the ledger it stands for.
LEMMA CommitIsLedgerStep ==
  ASSUME SInv, NEW s \in Sessions, Commit(s)
  PROVE  Ledger!Next
  <1> DEFINE t == task[s]
             p == t.p
             row == purchase[p]
  <1>0. IInv /\ ReadOK(s)
    BY DEF SInv, ReadIsCurrent
  <1>1. /\ t.pc \in Writing /\ p \in Purchases /\ t.op \in AllOperations /\ t.user \in Users
        /\ t.amount \in Nat /\ (t.op = "ingest" => t.amount \in Amounts) /\ TypeOK
    BY <1>0, CommitEffect, WritingSession
  <1>2. /\ t.prior = row.status /\ Accepts(t.op, row.status)
        /\ t.op # "ingest" => t.amount = row.amount
        /\ t.op = "admin_reverse" => row.status \in ReverseRequests
    BY <1>0, <1>1 DEF ReadOK
  <1>3. /\ purchase' = [purchase EXCEPT ![p] = PurchaseStatement(t.op, t.user, t.amount, row)]
        /\ cashback' = IF MovesMoney(t)
                         THEN [cashback EXCEPT ![p] = CashbackStatement(t.op, cashback[p], t.amount)]
                         ELSE cashback
        /\ wallet' = IF MovesMoney(t)
                       THEN [wallet EXCEPT ![t.user] =
                               WalletStatement(t.op, t.prior, wallet[t.user], t.amount)]
                       ELSE wallet
        /\ t.op = "ingest" => row.status = "absent"
        /\ t.op # "ingest" => row.user = t.user
    BY <1>0, CommitEffect
  <1>4. CASE t.op = "ingest"
    <2>1. PurchaseStatement(t.op, t.user, t.amount, row) = Ledger!NewPurchase(t.user, t.amount)
      BY <1>4 DEF PurchaseStatement, NewPurchase, Ledger!NewPurchase
    <2>2. CashbackStatement(t.op, cashback[p], t.amount) = Ledger!NewCashback(t.amount)
      BY <1>4 DEF CashbackStatement, NewCashback, Ledger!NewCashback
    <2>3. WalletStatement(t.op, t.prior, wallet[t.user], t.amount) =
            Ledger!CreditPending(wallet[t.user], t.amount)
      <3>1. WalletStatement(t.op, t.prior, wallet[t.user], t.amount) =
              CreditPending(wallet[t.user], t.amount)
        BY <1>4 DEF WalletStatement
      <3>2. CreditPending(wallet[t.user], t.amount) = Ledger!CreditPending(wallet[t.user], t.amount)
        BY DEF CreditPending, Ledger!CreditPending
      <3> QED BY <3>1, <3>2
    <2>4. MovesMoney(t)
      BY <1>4 DEF MovesMoney, ForwardSettle
    <2>5. Ledger!Ingest(p, t.user, t.amount)
      BY <1>3, <1>4, <2>1, <2>2, <2>3, <2>4 DEF Ledger!Ingest
    <2> QED BY <1>1, <1>4, <2>5 DEF Ledger!Next
  <1>5. CASE t.op \in {"job_confirm", "admin_confirm"}
    <2>1. row.status = "pending" /\ t.amount = row.amount /\ row.user = t.user
          /\ (MovesMoney(t) <=> row.amount > 0)
      BY <1>2, <1>3, <1>5 DEF Accepts, EnforcePurchasePending, MovesMoney, ForwardSettle
    <2>2. PurchaseStatement(t.op, t.user, t.amount, row) = Ledger!UpdateStatus(row, "confirmed")
      BY <1>5 DEF PurchaseStatement, TargetStatus, UpdateStatus, Ledger!UpdateStatus
    <2>3. CashbackStatement(t.op, cashback[p], t.amount) = Ledger!CashbackConfirm(cashback[p])
      BY <1>5 DEF CashbackStatement, CashbackConfirm, Ledger!CashbackConfirm
    <2>4. WalletStatement(t.op, t.prior, wallet[t.user], t.amount) =
            Ledger!ConfirmPending(wallet[t.user], t.amount)
      <3>1. WalletStatement(t.op, t.prior, wallet[t.user], t.amount) =
              ConfirmPending(wallet[t.user], t.amount)
        BY <1>5 DEF WalletStatement
      <3>2. ConfirmPending(wallet[t.user], t.amount) = Ledger!ConfirmPending(wallet[t.user], t.amount)
        BY DEF ConfirmPending, Ledger!ConfirmPending
      <3> QED BY <3>1, <3>2
    <2>5. Ledger!Confirm(p)
      BY <1>3, <2>1, <2>2, <2>3, <2>4 DEF Ledger!Confirm, Ledger!EnforcePurchasePending
    <2> QED BY <1>1, <2>5 DEF Ledger!Next
  <1>6. CASE t.op = "job_reject"
    <2>1. row.status = "pending" /\ t.amount = row.amount /\ row.user = t.user
          /\ (MovesMoney(t) <=> row.amount > 0)
      BY <1>2, <1>3, <1>6 DEF Accepts, EnforcePurchasePending, MovesMoney, ForwardSettle
    <2>2. Ledger!Reject(p)
      BY <1>3, <1>6, <2>1 DEF Ledger!Reject, PurchaseStatement, CashbackStatement, WalletStatement,
         TargetStatus, UpdateStatus, CashbackReverse, ReversePending,
         Ledger!UpdateStatus, Ledger!CashbackReverse, Ledger!ReversePending,
         Ledger!EnforcePurchasePending
    <2> QED BY <1>1, <2>2 DEF Ledger!Next
  <1>7. CASE t.op = "admin_reverse"
    <2>1. EnforcePurchaseReversible(row.status) /\ t.amount = row.amount /\ row.user = t.user
          /\ MovesMoney(t) /\ row.status \in ReverseRequests
      BY <1>2, <1>3, <1>7 DEF Accepts, MovesMoney, ForwardSettle
    <2>2. Ledger!Reverse(p)
      BY <1>2, <1>3, <1>7, <2>1 DEF Ledger!Reverse, PurchaseStatement, CashbackStatement,
         WalletStatement, MarkReversed, CashbackReverse, ReversePending, ReverseAvailable,
         EnforcePurchaseReversible,
         Ledger!MarkReversed, Ledger!CashbackReverse, Ledger!ReversePending,
         Ledger!ReverseAvailable, Ledger!EnforcePurchaseReversible
    <2> QED BY <1>1, <2>2 DEF Ledger!Next
  <1> QED BY <1>1, <1>4, <1>5, <1>6, <1>7 DEF AllOperations, SettleOperations

\* With one writer per purchase the handlers, statement by statement and with any
\* failure, implement the ledger: a commit is one of its operations on the rows as they
\* are then, and every other step leaves the tables alone.
THEOREM Refinement ==
  ASSUME SingleWriter
  PROVE  Spec => ImplementsLedger
  <1>1. Init => Ledger!Init
    BY DEF Init, Ledger!Init, NoPurchase, NoCashback, EmptyWallet,
       Ledger!NoPurchase, Ledger!NoCashback, Ledger!EmptyWallet
  <1>2. SInv /\ [Next]_vars => [Ledger!Next]_(Ledger!vars)
    <2> SUFFICES ASSUME SInv, [Next]_vars PROVE Ledger!Next \/ UNCHANGED Ledger!vars
      OBVIOUS
    <2>1. CASE UNCHANGED vars
      BY <2>1 DEF vars, Ledger!vars
    <2>2. CASE UNCHANGED <<purchase, cashback, wallet>>
      BY <2>2 DEF Ledger!vars
    <2>3. CASE \E s \in Sessions : Commit(s)
      BY <2>3, CommitIsLedgerStep
    <2> QED BY <2>1, <2>2, <2>3, OnlyCommitWrites
  <1> QED BY <1>1, <1>2, InitSInv, NextSInv, PTL DEF Spec, ImplementsLedger, Ledger!Spec

-----------------------------------------------------------------------------
(* The balances with one writer per purchase.                               *)

\* Admins reverse what the documentation says can be reversed.
DocumentedReversal == ReverseRequests \subseteq {"pending", "confirmed"}

\* The operation a commit stands for moves money as its purchase calls for.
LEMMA CommitMovesMoney ==
  ASSUME DocumentedReversal, SInv, NEW s \in Sessions, Commit(s)
  PROVE  MoneyMoves(purchase, purchase', wallet, wallet')
  <1>0. purchase \in [Purchases -> PurchaseRow] /\ wallet \in [Users -> WalletRow] /\ RowsPaired
    BY DEF SInv, IInv, TypeOK
  <1>1. ASSUME NEW p \in Purchases, purchase[p].status # "absent" PROVE purchase[p].user \in Users
    BY <1>0, <1>1 DEF RowsPaired, PurchaseRow
  <1>2. ASSUME NEW p \in Purchases, NEW u \in Users, NEW a \in Amounts, Ledger!Ingest(p, u, a)
        PROVE  MoneyMoves(purchase, purchase', wallet, wallet')
    <2>1. purchase[p].user = NoUser
      BY <1>0, <1>2 DEF Ledger!Ingest, RowsPaired
    <2>2. purchase' = [purchase EXCEPT ![p] = NewPurchase(u, a)]
      BY <1>2 DEF Ledger!Ingest, NewPurchase, Ledger!NewPurchase
    <2>3. wallet' = [wallet EXCEPT ![u] = CreditPending(wallet[u], a)]
      BY <1>2 DEF Ledger!Ingest, CreditPending, Ledger!CreditPending
    <2> QED BY <1>0, <2>1, <2>2, <2>3, IngestMoves
  <1>3. ASSUME NEW p \in Purchases, Ledger!Confirm(p)
        PROVE  MoneyMoves(purchase, purchase', wallet, wallet')
    <2>1. purchase[p].user \in Users /\ purchase[p].status = "pending"
      BY <1>1, <1>3 DEF Ledger!Confirm, Ledger!EnforcePurchasePending
    <2>2. purchase' = [purchase EXCEPT ![p] = UpdateStatus(purchase[p], "confirmed")]
      BY <1>3 DEF Ledger!Confirm, UpdateStatus, Ledger!UpdateStatus
    <2>3. wallet' = IF purchase[p].amount > 0
                      THEN [wallet EXCEPT ![purchase[p].user] =
                              ConfirmPending(wallet[purchase[p].user], purchase[p].amount)]
                      ELSE wallet
      BY <1>3 DEF Ledger!Confirm, ConfirmPending, Ledger!ConfirmPending
    <2> QED BY <1>0, <2>1, <2>2, <2>3, ConfirmMoves
  <1>4. ASSUME NEW p \in Purchases, Ledger!Reject(p)
        PROVE  MoneyMoves(purchase, purchase', wallet, wallet')
    <2>1. purchase[p].user \in Users /\ purchase[p].status = "pending"
      BY <1>1, <1>4 DEF Ledger!Reject, Ledger!EnforcePurchasePending
    <2>2. purchase' = [purchase EXCEPT ![p] = UpdateStatus(purchase[p], "rejected")]
      BY <1>4 DEF Ledger!Reject, UpdateStatus, Ledger!UpdateStatus
    <2>3. wallet' = IF purchase[p].amount > 0
                      THEN [wallet EXCEPT ![purchase[p].user] =
                              ReversePending(wallet[purchase[p].user], purchase[p].amount)]
                      ELSE wallet
      BY <1>4 DEF Ledger!Reject, ReversePending, Ledger!ReversePending
    <2> QED BY <1>0, <2>1, <2>2, <2>3, RejectMoves
  <1>5. ASSUME NEW p \in Purchases, Ledger!Reverse(p)
        PROVE  MoneyMoves(purchase, purchase', wallet, wallet')
    <2>1. purchase[p].user \in Users /\ purchase[p].status \in {"pending", "confirmed"}
      BY <1>1, <1>5 DEF Ledger!Reverse, Ledger!EnforcePurchaseReversible, DocumentedReversal
    <2>2. purchase' = [purchase EXCEPT ![p] = MarkReversed(purchase[p])]
      BY <1>5 DEF Ledger!Reverse, MarkReversed, Ledger!MarkReversed
    <2>3. wallet' = [wallet EXCEPT ![purchase[p].user] =
                       IF purchase[p].status = "pending"
                         THEN ReversePending(wallet[purchase[p].user], purchase[p].amount)
                         ELSE ReverseAvailable(wallet[purchase[p].user], purchase[p].amount)]
      BY <1>5 DEF Ledger!Reverse, ReversePending, ReverseAvailable,
         Ledger!ReversePending, Ledger!ReverseAvailable
    <2> QED BY <1>0, <2>1, <2>2, <2>3, ReverseMoves
  <1> QED BY <1>2, <1>3, <1>4, <1>5, CommitIsLedgerStep DEF Ledger!Next

\* The inductive invariant of the committed balances.
BInv == SInv /\ Balanced(purchase, wallet)

\* The empty wallets.
LEMMA InitBInv == Init => BInv
  BY InitSInv, EmptyBalanced DEF Init, BInv

\* A commit keeps the wallets balanced, and nothing else writes them.
LEMMA NextBInv ==
  ASSUME SingleWriter, DocumentedReversal
  PROVE  BInv /\ [Next]_vars => BInv'
  <1> SUFFICES ASSUME BInv, [Next]_vars PROVE BInv'
    OBVIOUS
  <1>1. SInv /\ SInv'
    BY NextSInv DEF BInv
  <1>2. Balanced(purchase, wallet)'
    <2>1. ASSUME NEW s \in Sessions, Commit(s) PROVE Balanced(purchase, wallet)'
      <3>1. MoneyMoves(purchase, purchase', wallet, wallet')
        BY <1>1, <2>1, CommitMovesMoney
      <3>2. /\ purchase \in [Purchases -> PurchaseRow] /\ purchase' \in [Purchases -> PurchaseRow]
            /\ wallet \in [Users -> WalletRow] /\ wallet' \in [Users -> WalletRow]
        BY <1>1 DEF SInv, IInv, TypeOK
      <3>3. Balanced(purchase', wallet')
        BY <3>1, <3>2, MovesKeepBalance DEF BInv
      <3> QED BY <3>3
    <2>2. CASE UNCHANGED <<purchase, wallet>>
      BY <2>2 DEF BInv
    <2>3. UNCHANGED <<purchase, wallet>> \/ \E s \in Sessions : Commit(s)
      BY OnlyCommitWrites DEF vars
    <2> QED BY <2>1, <2>2, <2>3
  <1> QED BY <1>1, <1>2 DEF BInv

\* With one writer per purchase and the documented reversals the committed balances are
\* exactly the sums of the committed purchases, whatever statements of however many
\* sessions interleave and whichever of them fail.
THEOREM BalancesAlwaysExact ==
  ASSUME SingleWriter, DocumentedReversal
  PROVE  Spec => []BalancesExact
  <1>1. ASSUME NEW f, NEW S PROVE Ledger!SumFunctionOnSet(f, S) = SumFunctionOnSet(f, S)
    BY DEF SumFunctionOnSet, FoldFunctionOnSet, MapThenFoldSet,
       Ledger!SumFunctionOnSet, Ledger!FoldFunctionOnSet, Ledger!MapThenFoldSet
  <1>2. BInv => BalancesExact
    <2> SUFFICES ASSUME BInv, NEW u \in Users
                 PROVE  /\ wallet[u].pending =
                             Ledger!SumFunctionOnSet(PendingShares(purchase), OwnedBy(purchase, u))
                        /\ wallet[u].available =
                             Ledger!SumFunctionOnSet(AvailableShares(purchase), OwnedBy(purchase, u))
      BY DEF BalancesExact, OwnedBy, PendingShares, AvailableShares,
         PendingShare, AvailableShare, Ledger!BalancesExact, Ledger!PurchasesOf,
         Ledger!PendingShare, Ledger!AvailableShare
    <2> QED BY <1>1 DEF BInv, Balanced
  <1> QED BY <1>2, InitBInv, NextBInv, PTL DEF Spec

\* On the same conditions no committed balance is negative.
THEOREM BalancesStayNonNegative ==
  ASSUME SingleWriter, DocumentedReversal
  PROVE  Spec => []BalancesNonNegative
  <1>1. BInv => BalancesNonNegative
    BY BalancedNonNegative DEF BInv, SInv, IInv, TypeOK, BalancesNonNegative,
       Ledger!BalancesNonNegative
  <1> QED BY <1>1, InitBInv, NextBInv, PTL DEF Spec

-----------------------------------------------------------------------------
(* The audit log with one writer per purchase.                              *)

\* The statuses a purchase may have once op has settled it.
SettledStatus(op) ==
  CASE op = "job_confirm" -> {"confirmed", "reversed"}
    [] op = "job_reject" -> {"rejected", "reversed"}
    [] op = "admin_reverse" -> {"reversed"}
    [] OTHER -> {"confirmed", "rejected", "reversed"}

\* The history of settlements agrees with the statuses, and contains what is being
\* published, by one session each.
HistoryAgrees ==
  \A p \in Purchases :
    /\ \A op \in settledBy[p] : purchase[p].status \in SettledStatus(op)
    /\ ~("job_confirm" \in settledBy[p] /\ "job_reject" \in settledBy[p])

PublishesHistory ==
  \A s \in Sessions : task[s].pc = "publish" => task[s].op \in settledBy[task[s].p]

PublishesOnce ==
  \A s, r \in Sessions :
    task[s].pc = "publish" /\ task[r].pc = "publish"
      /\ task[s].p = task[r].p /\ task[s].op = task[r].op => s = r

\* The row of each settlement that has one: different operations write different actions, so
\* that it can be told operation by operation.
RowsOfSettlements ==
  \A p \in Purchases, op \in SettleOperations \ {"admin_confirm"} :
    audit[p][AuditActionOf(EventOf(op))] =
      IF op \in settledBy[p] /\ ~OnItsWay(p, op) THEN 1 ELSE 0

\* The inductive invariant of the audit log.
AInv ==
  /\ SInv
  /\ HistoryAgrees /\ PublishesHistory /\ PublishesOnce
  /\ RowsOfSettlements

\* The audited operations write different actions, and only they write any.
LEMMA AuditActionsDiffer ==
  /\ AuditActionOf(EventOf("job_confirm")) = "PURCHASE_CONFIRMED"
  /\ AuditActionOf(EventOf("job_reject")) = "PURCHASE_REJECTED"
  /\ AuditActionOf(EventOf("admin_reverse")) = "PURCHASE_REVERSED"
  /\ EventOf("job_confirm") \in Subscribed
  /\ EventOf("job_reject") \in Subscribed
  /\ EventOf("admin_reverse") \in Subscribed
  /\ EventOf("admin_confirm") \notin Subscribed
  BY DEF AuditActionOf, EventOf, Subscribed

\* Nothing is settled, and nothing audited, at first.
LEMMA InitAInv == Init => AInv
  <1> SUFFICES ASSUME Init PROVE AInv
    OBVIOUS
  <1>1. \A s \in Sessions : task[s].pc = "idle"
    BY DEF Init, Idle
  <1>2. \A p \in Purchases : settledBy[p] = {} /\ \A a \in AuditActions : audit[p][a] = 0
    BY DEF Init
  <1>3. HistoryAgrees /\ PublishesHistory /\ PublishesOnce
    BY <1>1, <1>2 DEF HistoryAgrees, PublishesHistory, PublishesOnce
  <1>4. RowsOfSettlements
    BY <1>2, AuditActionsDiffer DEF RowsOfSettlements, SettleOperations, AuditActions
  <1> QED BY <1>3, <1>4, InitSInv DEF AInv

\* A commit settles a purchase in a way it was not settled before: a handler that
\* confirms or rejects finds it pending, one that reverses finds it not reversed.
LEMMA SettlesOnce ==
  ASSUME AInv, NEW s \in Sessions, Commit(s), task[s].op # "ingest"
  PROVE  /\ task[s].op \notin settledBy[task[s].p]
         /\ task[s].op # "admin_reverse" => settledBy[task[s].p] = {}
  <1> DEFINE p == task[s].p
             st == purchase[p].status
  <1>1. IInv /\ ReadOK(s) /\ HistoryAgrees
    BY DEF AInv, SInv, ReadIsCurrent
  <1>2. p \in Purchases /\ task[s].op \in AllOperations /\ task[s].pc \in Writing
    BY <1>1, CommitEffect, WritingSession
  <1>3. Accepts(task[s].op, st)
    BY <1>1, <1>2 DEF ReadOK
  <1>4. \A op \in settledBy[p] : st \in SettledStatus(op)
    BY <1>1, <1>2 DEF HistoryAgrees
  <1>5. \A op : "pending" \notin SettledStatus(op)
    BY DEF SettledStatus
  <1>6. CASE task[s].op = "admin_reverse"
    <2>1. st # "reversed"
      BY <1>3, <1>6 DEF Accepts, EnforcePurchaseReversible
    <2>2. SettledStatus("admin_reverse") = {"reversed"}
      BY DEF SettledStatus
    <2> QED BY <1>4, <1>6, <2>1, <2>2
  <1>7. CASE task[s].op # "admin_reverse"
    <2>1. st = "pending"
      BY <1>3, <1>7 DEF Accepts, EnforcePurchasePending
    <2> QED BY <1>4, <1>5, <2>1
  <1> QED BY <1>6, <1>7

\* The commit of a settlement goes on record, and is on its way to the audit log.
LEMMA CommitKeepsAudit ==
  ASSUME SingleWriter, AInv, SInv', NEW s \in Sessions, Commit(s)
  PROVE  AInv'
  <1> DEFINE t == task[s]
             p == t.p
  <1>0. SInv /\ HistoryAgrees /\ PublishesHistory /\ PublishesOnce /\ RowsOfSettlements
        /\ IInv /\ TypeOK
    BY DEF AInv, SInv, IInv
  <1>1. p \in Purchases /\ t.op \in AllOperations /\ t.pc = "commit" /\ audit' = audit
    BY <1>0, CommitEffect, WritingSession DEF Commit
  <1>2. settledBy \in [Purchases -> SUBSET SettleOperations]
    BY <1>0 DEF TypeOK
  <1>r. \A r \in Sessions \ {s} : task'[r] = task[r]
    BY <1>0, CommitSession DEF OthersIdle
  <1>3. CASE t.op = "ingest"
    <2>1. settledBy' = settledBy /\ task'[s].pc = "idle"
      <3>1. settledBy' = settledBy
        BY <1>3 DEF Commit
      <3>2. task'[s].pc = "idle"
        BY <1>0, <1>3, CommitSession DEF Idle
      <3> QED BY <3>1, <3>2
    <2>2. \A q \in Purchases : purchase'[q].status # purchase[q].status => settledBy[q] = {}
      <3>1. purchase[p].status = "absent" /\ \A q \in Purchases \ {p} : purchase'[q] = purchase[q]
        BY <1>0, <1>3, CommitRow
      <3>2. \A op : "absent" \notin SettledStatus(op)
        BY DEF SettledStatus
      <3> QED BY <1>0, <1>1, <3>1, <3>2 DEF HistoryAgrees
    <2>3. HistoryAgrees'
      BY <1>0, <2>1, <2>2 DEF HistoryAgrees
    <2>4. PublishesHistory' /\ PublishesOnce'
      BY <1>0, <1>r, <2>1 DEF PublishesHistory, PublishesOnce
    <2>5. \A q \in Purchases, op \in SettleOperations : OnItsWay(q, op)' <=> OnItsWay(q, op)
      BY <1>1, <1>r, <2>1 DEF OnItsWay
    <2>6. RowsOfSettlements'
      BY <1>0, <1>1, <2>1, <2>5 DEF RowsOfSettlements
    <2> QED BY <2>3, <2>4, <2>6 DEF AInv
  <1>4. CASE t.op # "ingest"
    <2>1. /\ task'[s].pc = "publish" /\ task'[s].op = t.op /\ task'[s].p = p
          /\ t.op \in SettleOperations
      BY <1>0, <1>4, CommitSession
    <2>2. settledBy' = [settledBy EXCEPT ![p] = @ \cup {t.op}]
      BY <1>4 DEF Commit
    <2>3. settledBy'[p] = settledBy[p] \cup {t.op}
          /\ \A q \in Purchases \ {p} : settledBy'[q] = settledBy[q]
      BY <1>1, <1>2, <2>2
    <2>4. t.op \notin settledBy[p] /\ (t.op # "admin_reverse" => settledBy[p] = {})
      BY <1>4, SettlesOnce
    <2>5. /\ \A q \in Purchases \ {p} : purchase'[q] = purchase[q]
          /\ purchase'[p].status = IF t.op = "admin_reverse" THEN "reversed" ELSE TargetStatus(t.op)
      BY <1>0, <1>4, CommitRow
    <2>6. HistoryAgrees'
      <3>1. purchase'[p].status \in SettledStatus(t.op)
        BY <2>1, <2>5 DEF SettledStatus, TargetStatus, SettleOperations
      <3>2. \A op \in settledBy[p] : purchase'[p].status \in SettledStatus(op)
        <4>1. \A op : "reversed" \in SettledStatus(op)
          BY DEF SettledStatus
        <4> QED BY <2>4, <2>5, <4>1
      <3>3. ~("job_confirm" \in settledBy'[p] /\ "job_reject" \in settledBy'[p])
        BY <1>0, <1>1, <2>3, <2>4 DEF HistoryAgrees
      <3> QED BY <1>0, <2>3, <2>5, <3>1, <3>2, <3>3 DEF HistoryAgrees
    <2>7. PublishesHistory'
      <3>1. \A r \in Sessions : task[r].pc = "publish" => task[r].p \in Purchases
        BY <1>0 DEF IInv, SessionsOK, HandlerOK, TypeOK, Tasks
      <3> QED BY <1>0, <1>r, <2>1, <2>3, <3>1 DEF PublishesHistory
    <2>8. PublishesOnce'
      BY <1>0, <1>r, <2>1, <2>4 DEF PublishesOnce, PublishesHistory
    <2>9. RowsOfSettlements'
      <3> SUFFICES ASSUME NEW q \in Purchases, NEW op \in SettleOperations \ {"admin_confirm"}
                   PROVE  audit[q][AuditActionOf(EventOf(op))] =
                            IF op \in settledBy'[q] /\ ~OnItsWay(q, op)' THEN 1 ELSE 0
        BY <1>1 DEF RowsOfSettlements
      <3>1. audit[q][AuditActionOf(EventOf(op))] =
              IF op \in settledBy[q] /\ ~OnItsWay(q, op) THEN 1 ELSE 0
        BY <1>0 DEF RowsOfSettlements
      <3>2. CASE q = p /\ op = t.op
        <4>1. OnItsWay(q, op)' /\ op \notin settledBy[q]
          BY <2>1, <2>4, <3>2 DEF OnItsWay
        <4> QED BY <3>1, <4>1
      <3>3. CASE q # p \/ op # t.op
        <4>1. OnItsWay(q, op)' <=> OnItsWay(q, op)
          BY <1>1, <1>r, <2>1, <3>3 DEF OnItsWay
        <4>2. op \in settledBy'[q] <=> op \in settledBy[q]
          BY <2>3, <3>3
        <4> QED BY <3>1, <4>1, <4>2
      <3> QED BY <3>2, <3>3
    <2> QED BY <2>6, <2>7, <2>8, <2>9 DEF AInv
  <1> QED BY <1>3, <1>4

\* A quiet step publishes nothing and puts nothing on its way.
LEMMA QuietKeepsAudit ==
  ASSUME AInv, SInv', NEW s \in Sessions, Quiet(s)
  PROVE  AInv'
  <1>0. HistoryAgrees /\ PublishesHistory /\ PublishesOnce /\ RowsOfSettlements
    BY DEF AInv
  <1>1. /\ \A r \in Sessions \ {s} : task'[r] = task[r]
        /\ purchase' = purchase /\ audit' = audit /\ settledBy' = settledBy
    BY DEF Quiet, OthersIdle
  <1>2. task[s].pc # "publish" /\ task'[s].pc # "publish"
    BY DEF Quiet, Begins, Reads, Writes, Writing, Idle
  <1>3. HistoryAgrees'
    BY <1>0, <1>1 DEF HistoryAgrees
  <1>4. PublishesHistory' /\ PublishesOnce'
    BY <1>0, <1>1, <1>2 DEF PublishesHistory, PublishesOnce
  <1>5. \A q \in Purchases, op \in SettleOperations : OnItsWay(q, op)' <=> OnItsWay(q, op)
    BY <1>1, <1>2 DEF OnItsWay
  <1>6. RowsOfSettlements'
    BY <1>0, <1>1, <1>5 DEF RowsOfSettlements
  <1> QED BY <1>3, <1>4, <1>6 DEF AInv

\* A session that publishes, or fails to, is the only one with that settlement.
LEMMA PublisherLeaves ==
  ASSUME AInv, NEW s \in Sessions, task[s].pc = "publish", Close(s)
  PROVE  /\ \A r \in Sessions \ {s} : task'[r] = task[r]
         /\ task'[s].pc = "idle"
         /\ task[s].p \in Purchases /\ task[s].op \in SettleOperations
         /\ task[s].op \in settledBy[task[s].p]
         /\ OnItsWay(task[s].p, task[s].op)
         /\ \A q \in Purchases, op \in SettleOperations :
              q = task[s].p /\ op = task[s].op => ~OnItsWay(q, op)'
         /\ \A q \in Purchases, op \in SettleOperations :
              q # task[s].p \/ op # task[s].op => (OnItsWay(q, op)' <=> OnItsWay(q, op))
         /\ PublishesOnce'
  <1>0. TypeOK /\ HandlerOK(s) /\ PublishesHistory /\ PublishesOnce
    BY DEF AInv, SInv, IInv, SessionsOK
  <1>1. OthersIdle(s) /\ task'[s] = Idle
    BY <1>0, CloseEffect
  <1>2. \A r \in Sessions \ {s} : task'[r] = task[r]
    BY <1>1 DEF OthersIdle
  <1>3. task'[s].pc = "idle"
    BY <1>1 DEF Idle
  <1>4. task[s].p \in Purchases /\ task[s].op \in SettleOperations
    BY <1>0 DEF HandlerOK, TypeOK, Tasks
  <1>5. task[s].op \in settledBy[task[s].p]
    BY <1>0 DEF PublishesHistory
  <1>6. OnItsWay(task[s].p, task[s].op)
    BY DEF OnItsWay
  <1>7. ASSUME NEW q \in Purchases, NEW op \in SettleOperations, q = task[s].p, op = task[s].op
        PROVE  ~OnItsWay(q, op)'
    <2> SUFFICES ASSUME NEW r \in Sessions, task'[r].pc = "publish",
                        task'[r].p = task[s].p, task'[r].op = task[s].op
                 PROVE  FALSE
      BY <1>7 DEF OnItsWay
    <2>1. r # s
      BY <1>3
    <2> QED BY <1>0, <1>2, <2>1 DEF PublishesOnce
  <1>8. ASSUME NEW q \in Purchases, NEW op \in SettleOperations, q # task[s].p \/ op # task[s].op
        PROVE  OnItsWay(q, op)' <=> OnItsWay(q, op)
    BY <1>2, <1>3, <1>8 DEF OnItsWay
  <1>9. PublishesOnce'
    BY <1>0, <1>2, <1>3 DEF PublishesOnce
  <1> QED BY <1>2, <1>3, <1>4, <1>5, <1>6, <1>7, <1>8, <1>9

\* A publication writes the one row that was missing.
LEMMA PublishKeepsAudit ==
  ASSUME AInv, SInv', NEW s \in Sessions, Publish(s)
  PROVE  AInv'
  <1> DEFINE t == task[s]
             action == AuditActionOf(EventOf(t.op))
  <1>0. HistoryAgrees /\ PublishesHistory /\ RowsOfSettlements /\ TypeOK
    BY DEF AInv, SInv, IInv
  <1>1. t.pc = "publish" /\ Close(s) /\ purchase' = purchase /\ settledBy' = settledBy
    BY DEF Publish, tables
  <1>2. HistoryAgrees'
    BY <1>0, <1>1 DEF HistoryAgrees
  <1>3. PublishesHistory' /\ PublishesOnce'
    BY <1>0, <1>1, PublisherLeaves DEF PublishesHistory
  <1>4. t.p \in Purchases /\ t.op \in SettleOperations
    BY <1>1, PublisherLeaves
  <1>5. audit \in [Purchases -> [AuditActions -> Nat]]
    BY <1>0 DEF TypeOK
  <1>6. CASE t.op = "admin_confirm"
    <2>1. audit' = audit
      BY <1>6, AuditActionsDiffer DEF Publish, Deliver
    <2>2. \A q \in Purchases, op \in SettleOperations \ {"admin_confirm"} :
            OnItsWay(q, op)' <=> OnItsWay(q, op)
      BY <1>1, <1>6, PublisherLeaves
    <2>3. RowsOfSettlements'
      BY <1>0, <1>1, <2>1, <2>2 DEF RowsOfSettlements
    <2> QED BY <1>2, <1>3, <2>3 DEF AInv
  <1>7. CASE t.op # "admin_confirm"
    <2>1. audit' = [audit EXCEPT ![t.p][action] = @ + 1] /\ action \in AuditActions
      BY <1>4, <1>7, AuditActionsDiffer
      DEF Publish, Deliver, PersistAuditLog, SettleOperations, AuditActions
    <2> HIDE DEF action
    <2>2. /\ \A q \in Purchases \ {t.p} : audit'[q] = audit[q]
          /\ \A a \in AuditActions \ {action} : audit'[t.p][a] = audit[t.p][a]
          /\ audit'[t.p][action] = audit[t.p][action] + 1
      BY <1>4, <1>5, <2>1
    <2>3. RowsOfSettlements'
      <3> SUFFICES ASSUME NEW q \in Purchases, NEW op \in SettleOperations \ {"admin_confirm"}
                   PROVE  audit'[q][AuditActionOf(EventOf(op))] =
                            IF op \in settledBy[q] /\ ~OnItsWay(q, op)' THEN 1 ELSE 0
        BY <1>1 DEF RowsOfSettlements
      <3>1. audit[q][AuditActionOf(EventOf(op))] =
              IF op \in settledBy[q] /\ ~OnItsWay(q, op) THEN 1 ELSE 0
        BY <1>0 DEF RowsOfSettlements
      <3>2. CASE q = t.p /\ op = t.op
        <4>1. OnItsWay(q, op) /\ ~OnItsWay(q, op)' /\ op \in settledBy[q]
          BY <1>1, <3>2, PublisherLeaves
        <4>2. audit'[q][AuditActionOf(EventOf(op))] = audit[q][AuditActionOf(EventOf(op))] + 1
          BY <2>2, <3>2 DEF action
        <4> QED BY <3>1, <4>1, <4>2
      <3>3. CASE q # t.p \/ op # t.op
        <4>1. OnItsWay(q, op)' <=> OnItsWay(q, op)
          BY <1>1, <3>3, PublisherLeaves
        <4>2. audit'[q][AuditActionOf(EventOf(op))] = audit[q][AuditActionOf(EventOf(op))]
          <5>1. CASE q # t.p
            BY <2>2, <5>1
          <5>2. CASE q = t.p /\ op # t.op
            <6>1. AuditActionOf(EventOf(op)) # action /\ AuditActionOf(EventOf(op)) \in AuditActions
              BY <1>4, <1>7, <5>2, AuditActionsDiffer DEF SettleOperations, AuditActions, action
            <6> QED BY <2>2, <5>2, <6>1
          <5> QED BY <3>3, <5>1, <5>2
        <4> QED BY <3>1, <4>1, <4>2
      <3> QED BY <3>2, <3>3
    <2> QED BY <1>2, <1>3, <2>3 DEF AInv
  <1> QED BY <1>6, <1>7

\* A handler that dies between its commit and its publication takes its settlement off
\* the record and leaves no row.
LEMMA AbandonKeepsAudit ==
  ASSUME AInv, SInv', NEW s \in Sessions, Abandon(s), task[s].pc = "publish"
  PROVE  AInv'
  <1> DEFINE t == task[s]
  <1>0. HistoryAgrees /\ PublishesHistory /\ PublishesOnce /\ RowsOfSettlements /\ IInv
        /\ TypeOK
    BY DEF AInv, SInv, IInv
  <1>1. Close(s) /\ purchase' = purchase /\ audit' = audit
        /\ settledBy' = [settledBy EXCEPT ![t.p] = @ \ {t.op}]
    BY DEF Abandon, tables
  <1>2. t.p \in Purchases /\ PublishesOnce' /\ task'[s].pc = "idle"
        /\ (\A r \in Sessions \ {s} : task'[r] = task[r]) /\ OnItsWay(t.p, t.op)
    BY <1>1, PublisherLeaves
  <1>3. settledBy'[t.p] = settledBy[t.p] \ {t.op}
        /\ \A q \in Purchases \ {t.p} : settledBy'[q] = settledBy[q]
    BY <1>0, <1>1, <1>2 DEF TypeOK
  <1>4. HistoryAgrees'
    BY <1>0, <1>1, <1>3 DEF HistoryAgrees
  <1>5. PublishesHistory'
    <2> SUFFICES ASSUME NEW r \in Sessions, task'[r].pc = "publish"
                 PROVE  task'[r].op \in settledBy'[task'[r].p]
      BY DEF PublishesHistory
    <2>1. r # s /\ task'[r] = task[r]
      BY <1>2
    <2>2. task[r].op \in settledBy[task[r].p] /\ task[r].p \in Purchases
      BY <1>0, <2>1 DEF PublishesHistory, IInv, SessionsOK, HandlerOK, TypeOK, Tasks
    <2>3. task[r].p # t.p \/ task[r].op # t.op
      BY <1>0, <2>1 DEF PublishesOnce
    <2> QED BY <1>3, <2>1, <2>2, <2>3
  <1>6. RowsOfSettlements'
    <2> SUFFICES ASSUME NEW q \in Purchases, NEW op \in SettleOperations \ {"admin_confirm"}
                 PROVE  audit[q][AuditActionOf(EventOf(op))] =
                          IF op \in settledBy'[q] /\ ~OnItsWay(q, op)' THEN 1 ELSE 0
      BY <1>1 DEF RowsOfSettlements
    <2>1. audit[q][AuditActionOf(EventOf(op))] =
            IF op \in settledBy[q] /\ ~OnItsWay(q, op) THEN 1 ELSE 0
      BY <1>0 DEF RowsOfSettlements
    <2>2. CASE q = t.p /\ op = t.op
      BY <1>2, <1>3, <2>1, <2>2
    <2>3. CASE q # t.p \/ op # t.op
      <3>1. OnItsWay(q, op)' <=> OnItsWay(q, op)
        BY <1>1, <2>3, PublisherLeaves
      <3>2. op \in settledBy'[q] <=> op \in settledBy[q]
        BY <1>3, <2>3
      <3> QED BY <2>1, <3>1, <3>2
    <2> QED BY <2>2, <2>3
  <1> QED BY <1>2, <1>4, <1>5, <1>6 DEF AInv

\* Every step keeps the audit log and the history in step.
LEMMA NextAInv ==
  ASSUME SingleWriter
  PROVE  AInv /\ [Next]_vars => AInv'
  <1> SUFFICES ASSUME AInv, [Next]_vars PROVE AInv'
    OBVIOUS
  <1>0. SInv /\ IInv /\ SInv'
    BY NextSInv DEF AInv, SInv
  <1>1. CASE Next
    BY <1>0, <1>1, StepKinds, CommitKeepsAudit, PublishKeepsAudit, AbandonKeepsAudit,
       QuietKeepsAudit
  <1>2. CASE UNCHANGED vars
    <2>1. UNCHANGED <<purchase, task, audit, settledBy>>
      BY <1>2 DEF vars
    <2> QED BY <1>0, <2>1 DEF AInv, HistoryAgrees, PublishesHistory, PublishesOnce,
         RowsOfSettlements, OnItsWay
  <1> QED BY <1>1, <1>2

\* With one writer per purchase the audit log has exactly one row for every settlement by
\* the job and every reversal whose handler went on, from the moment its event is
\* published; it has none for a handler that died between its commit and its row, and none
\* for a manual confirmation.
THEOREM AuditComplete ==
  ASSUME SingleWriter
  PROVE  Spec => []AuditLacksFailedAndManual
  <1>1. AInv => AuditLacksFailedAndManual
    <2> SUFFICES ASSUME AInv, NEW p \in Purchases, NEW a \in AuditActions
                 PROVE  audit[p][a] =
                          IF \E op \in Finished(p) \ {"admin_confirm"} :
                               AuditActionOf(EventOf(op)) = a THEN 1 ELSE 0
      BY DEF AuditLacksFailedAndManual
    <2> DEFINE writer == CASE a = "PURCHASE_CONFIRMED" -> "job_confirm"
                           [] a = "PURCHASE_REJECTED" -> "job_reject"
                           [] a = "PURCHASE_REVERSED" -> "admin_reverse"
    <2>1. /\ writer \in SettleOperations \ {"admin_confirm"}
          /\ \A op \in SettleOperations \ {"admin_confirm"} :
               AuditActionOf(EventOf(op)) = a <=> op = writer
      BY AuditActionsDiffer DEF SettleOperations, AuditActions
    <2> HIDE DEF writer
    <2>2. settledBy[p] \subseteq SettleOperations
      BY DEF AInv, SInv, IInv, TypeOK
    <2>3. audit[p][a] = IF writer \in settledBy[p] /\ ~OnItsWay(p, writer) THEN 1 ELSE 0
      BY <2>1 DEF AInv, RowsOfSettlements
    <2>4. (\E op \in Finished(p) \ {"admin_confirm"} : AuditActionOf(EventOf(op)) = a)
            <=> writer \in Finished(p)
      BY <2>1, <2>2 DEF Finished
    <2> QED BY <2>3, <2>4 DEF Finished
  <1> QED BY <1>1, InitAInv, NextAInv, PTL DEF Spec

\* With one writer per purchase the audit rows of a purchase tell its history: never
\* confirmed and rejected, and reversed only if it is.
THEOREM AuditTellsHistory ==
  ASSUME SingleWriter
  PROVE  Spec => []AuditMatchesStatus
  <1>1. AInv => AuditMatchesStatus
    <2> SUFFICES ASSUME AInv, NEW p \in Purchases
                 PROVE  /\ \A a \in AuditActions : audit[p][a] <= 1
                        /\ audit[p]["PURCHASE_CONFIRMED"] + audit[p]["PURCHASE_REJECTED"] <= 1
                        /\ audit[p]["PURCHASE_CONFIRMED"] = 1 =>
                             purchase[p].status \in {"confirmed", "reversed"}
                        /\ audit[p]["PURCHASE_REJECTED"] = 1 =>
                             purchase[p].status \in {"rejected", "reversed"}
                        /\ audit[p]["PURCHASE_REVERSED"] = 1 => purchase[p].status = "reversed"
      BY DEF AuditMatchesStatus
    <2>1. \A op \in settledBy[p] : purchase[p].status \in SettledStatus(op)
      BY DEF AInv, HistoryAgrees
    <2>2. ~("job_confirm" \in settledBy[p] /\ "job_reject" \in settledBy[p])
      BY DEF AInv, HistoryAgrees
    <2>3. RowsOfSettlements
      BY DEF AInv
    <2>4. /\ audit[p]["PURCHASE_CONFIRMED"] \in {0, 1}
          /\ audit[p]["PURCHASE_CONFIRMED"] = 1 => "job_confirm" \in settledBy[p]
      BY <2>3, AuditActionsDiffer DEF RowsOfSettlements, SettleOperations
    <2>5. /\ audit[p]["PURCHASE_REJECTED"] \in {0, 1}
          /\ audit[p]["PURCHASE_REJECTED"] = 1 => "job_reject" \in settledBy[p]
      BY <2>3, AuditActionsDiffer DEF RowsOfSettlements, SettleOperations
    <2>6. /\ audit[p]["PURCHASE_REVERSED"] \in {0, 1}
          /\ audit[p]["PURCHASE_REVERSED"] = 1 => "admin_reverse" \in settledBy[p]
      BY <2>3, AuditActionsDiffer DEF RowsOfSettlements, SettleOperations
    <2>7. \A a \in AuditActions : audit[p][a] <= 1
      BY <2>4, <2>5, <2>6 DEF AuditActions
    <2>8. audit[p]["PURCHASE_CONFIRMED"] + audit[p]["PURCHASE_REJECTED"] <= 1
      BY <2>2, <2>4, <2>5
    <2>9. /\ SettledStatus("job_confirm") = {"confirmed", "reversed"}
          /\ SettledStatus("job_reject") = {"rejected", "reversed"}
          /\ SettledStatus("admin_reverse") = {"reversed"}
      BY DEF SettledStatus
    <2> QED BY <2>1, <2>4, <2>5, <2>6, <2>7, <2>8, <2>9
  <1> QED BY <1>1, InitAInv, NextAInv, PTL DEF Spec
=============================================================================

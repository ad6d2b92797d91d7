--------------------------- MODULE PurchaseListings ---------------------------
(***************************************************************************)
(* What users and admins read of the ledger: the paginated lists of        *)
(* purchases and of wallet transactions, the wallet summary and the        *)
(* details of one purchase, while purchases are ingested and settled.      *)
(*                                                                         *)
(* A request for a page is two statements, a count and a SELECT, each of   *)
(* which sees what is committed when it runs (READ COMMITTED).  A client   *)
(* that wants a whole list asks for one page after the other; nothing      *)
(* keeps the table still between two of its requests.                      *)
(*                                                                         *)
(* created_at is now() of the ingestion's transaction, the same for the    *)
(* purchase and its cashback transaction, so a row may be committed after  *)
(* one with a later created_at.  No two rows have the same created_at.     *)
(***************************************************************************)
EXTENDS CashbackLedger, FiniteSets

CONSTANTS
  PageSize,      \* the limit of the client's requests
  StatusFilters  \* values of the query parameter status that are used, "any" if absent

ASSUME ListingsAssumption ==
  /\ PageSize \in Nat \ {0}
  /\ StatusFilters \subseteq PurchaseStatus \cup {"any"}

VARIABLES
  newer,  \* for every purchase, the rows that have a later created_at
  walk    \* a client on its way through a list

listVars == <<purchase, cashback, wallet, newer, walk>>

-----------------------------------------------------------------------------
Existing == {p \in Purchases : purchase[p].status # "absent"}

(* The lists, as sets of rows: both are ordered by created_at descending.   *)
(* A list of all users' purchases has user NoUser.  The conditions on       *)
(* merchant and dates are, like the one on the user, on columns that no     *)
(* handler writes.                                                          *)

Lists == [user : Users \cup {NoUser}, status : StatusFilters]

BuildConditions(p, user, status) ==
  /\ user # NoUser => purchase[p].user = user
  /\ status # "any" => purchase[p].status = status

ListPurchases(user, status) == {p \in Existing : BuildConditions(p, user, status)}

\* The cashback transactions of a user, each named by its purchase.
TransactionsOf(user) ==
  {p \in Purchases : cashback[p].status # "absent" /\ purchase[p].user = user}

\* How many rows come before row p in a list.
Rank(rows, p) == Cardinality(newer[p] \cap rows)

\* Mutant: the arguments offset and limit are passed in the other order.
Page_swapped(rows, offset, limit) ==
  {p \in rows : Rank(rows, p) \in limit .. limit + offset - 1}

\* ORDER BY created_at DESC with OFFSET and LIMIT.
Page(rows, offset, limit) ==
  {p \in rows : Rank(rows, p) \in offset .. offset + limit - 1}

\* The two lists a user has, each with its own way to the statement: the purchases pass
\* offset and limit by name, the wallet's transactions by position, limit first, through
\* the service, the client and the repository.
ListUserPurchases(user, status, offset, limit) ==
  LET rows == ListPurchases(user, status)
  IN  [items |-> Page(rows, offset, limit), total |-> Cardinality(rows)]

ListByUserId(user, limit, offset) ==
  LET rows == TransactionsOf(user)
  IN  [items |-> Page(rows, offset, limit), total |-> Cardinality(rows)]

\* Mutant: the service passes the two the other way round.
ListWalletTransactions_swapped(user, limit, offset) == ListByUserId(user, offset, limit)

\* They always show the same rows (WalletTellsOneStory), so that a walk through one is a
\* walk through the other.
ListWalletTransactions(user, limit, offset) == ListByUserId(user, limit, offset)

GetWalletSummary(u) == wallet[u]

EnforcePurchaseViewOwnership(u, p) == purchase[p].user = u

\* get_purchase_details shows purchase p to user u.
GetPurchaseDetails(u, p) ==
  /\ purchase[p].status # "absent"
  /\ EnforcePurchaseViewOwnership(u, p)

-----------------------------------------------------------------------------
Matching(l) == ListPurchases(l.user, l.status)

(* A walk.  Its fields besides the client's own: owed, the rows that have   *)
(* matched ever since it began and that no page has shown; entered, how     *)
(* many rows began to match since the count of this page; left, how many    *)
(* stopped matching since the walk began.  When a walk that stops by the    *)
(* total is done, left takes the rows that entered too.                     *)

AllPurchases == [user |-> NoUser, status |-> "any"]

NoWalk == [pc |-> "idle", list |-> AllPurchases, byTotal |-> FALSE, offset |-> 0, total |-> 0,
           owed |-> {}, left |-> 0, entered |-> 0]

ListInit == Init /\ newer = [p \in Purchases |-> {}] /\ walk = NoWalk

\* A client begins with the first page of a list.  It stops at a page that is not full,
\* or as soon as it has asked for as many rows as pagination.total says there are.
BeginWalk(l, byTotal) ==
  /\ walk.pc \in {"idle", "done"}
  /\ walk' = [NoWalk EXCEPT !.pc = "count", !.list = l, !.byTotal = byTotal, !.owed = Matching(l)]
  /\ UNCHANGED <<purchase, cashback, wallet, newer>>

CountRows ==
  /\ walk.pc = "count"
  /\ walk' = [walk EXCEPT !.pc = "items", !.total = Cardinality(Matching(walk.list))]
  /\ UNCHANGED <<purchase, cashback, wallet, newer>>

ReadItems ==
  LET page == Page(Matching(walk.list), walk.offset, PageSize)
      missed == walk.owed \ page
      upTo == walk.offset + PageSize
      last == IF walk.byTotal THEN upTo >= walk.total ELSE Cardinality(page) < PageSize
  IN
  /\ walk.pc = "items"
  /\ walk' = IF last
               THEN [NoWalk EXCEPT !.pc = "done", !.owed = missed,
                       !.left = walk.left + IF walk.byTotal THEN walk.entered ELSE 0]
               ELSE [walk EXCEPT !.pc = "count", !.offset = upTo, !.owed = missed,
                       !.total = 0, !.entered = 0]
  /\ UNCHANGED <<purchase, cashback, wallet, newer>>

\* What a commit means for the walk that is under way.
Watch ==
  IF walk.pc \in {"idle", "done"} THEN walk' = walk
  ELSE \E l \in {walk.list} :
    LET before == Matching(l)
        after == Matching(l)'
        more == IF walk.pc = "items" THEN Cardinality(after \ before) ELSE 0
    IN  walk' = [walk EXCEPT !.owed = @ \cap after,
                             !.left = @ + Cardinality(before \ after),
                             !.entered = @ + more]

\* A commit puts a new row where its created_at belongs: some rows are later, and with
\* each of them those that are later still.
CommitIngest(p, u, a) ==
  /\ Ingest(p, u, a)
  /\ \E later \in SUBSET Existing :
       /\ \A q \in later : newer[q] \subseteq later
       /\ newer' = [q \in Purchases |->
                      IF q = p THEN later
                      ELSE IF q \in Existing \ later THEN newer[q] \cup {p} ELSE newer[q]]
  /\ Watch

CommitSettlement(p) ==
  /\ Confirm(p) \/ Reject(p) \/ Reverse(p)
  /\ newer' = newer
  /\ Watch

ListNext ==
  \/ \E p \in Purchases :
       \/ \E u \in Users, a \in Amounts : CommitIngest(p, u, a)
       \/ CommitSettlement(p)
  \/ \E l \in Lists, byTotal \in BOOLEAN : BeginWalk(l, byTotal)
  \/ CountRows
  \/ ReadItems

ListSpec == ListInit /\ [][ListNext]_listVars

-----------------------------------------------------------------------------
(* Properties.                                                              *)

\* Pagination over a table that changes loses no more rows than it must.  A client that
\* goes on to a page that is not full gets every row that matched all along, except
\* one for each row that stopped matching meanwhile: none in a list without a status
\* filter, whatever is ingested while it reads.  Stopping by pagination.total, which is
\* counted before the page is read, may cost one more for each row committed in between.
WalkMissesOnlyWhatMoved ==
  /\ walk.pc = "done" => Cardinality(walk.owed) <= walk.left
  /\ walk.pc \in {"count", "items"} /\ walk.list.status = "any" => walk.left = 0

\* The three things a user is shown are one story: the pages of the wallet's transactions
\* are those of the user's purchases, row by row and in their total, every one of them opens for that user
\* and for nobody else, and the balances of the summary are the sums of the transactions
\* that are pending and available.
WalletTellsOneStory ==
  \A u \in Users :
    LET listed == TransactionsOf(u)
        sum(st) == SumFunctionOnSet([p \in Purchases |-> cashback[p].amount],
                                    {p \in listed : cashback[p].status = st})
    IN
    /\ \A offset \in 0 .. Cardinality(listed) :
         ListWalletTransactions(u, PageSize, offset)
           = ListUserPurchases(u, "any", offset, PageSize)
    /\ listed = {p \in Purchases : GetPurchaseDetails(u, p)}
    /\ GetWalletSummary(u).pending = sum("pending")
    /\ GetWalletSummary(u).available = sum("available")
=============================================================================

# ClickNBack in TLA+

ClickNBack is a cashback platform: a FastAPI application over one PostgreSQL
database, with a background job on the same asyncio event loop. These modules
model the parts of it that move money or decide who gets it, `.cfg` files
model-check them on small instances with TLC, and the `*_proofs` modules hold
theorems checked by TLAPS. `PROJECT.json` maps every definition to the lines of
`src/` it models and lists components, runs, mutants, findings, hazards and
theorems.

## The system

| Component | State it keeps | Operations | Module |
|---|---|---|---|
| Purchase handlers (`app/purchases`) | table `purchases` | ingest, manual confirmation, reversal, lists and details | `CashbackLedger`, `PurchaseTransactions`, `PurchaseListings` |
| Cashback transactions (`app/cashback`) | `cashback_transactions`, one row per purchase | create, confirm, reverse, list | same |
| Wallets (`app/wallets`) | `wallets`, one row per user | credit pending, confirm pending, reverse pending, reverse available, summary | same |
| Audit trail and broker (`app/core/audit`, `broker.py`) | `audit_logs`; subscriptions fixed at start-up | publish an event, write an audit row | `PurchaseTransactions` |
| Verification job (`app/purchases/jobs`) and scheduler (`core/scheduler.py`) | scheduler loop, in-flight tracker, one asyncio task per purchase, all in memory | tick, scan, filter, dispatch, verify, retry, settle | `VerifyPurchasesJob` |
| Feature flags (`app/feature_flags`) | `feature_flags` | set, evaluate, evaluate a batch, the job's filter | `FeatureFlags` |
| Merchants, offers (`app/merchants`, `app/offers`) | `merchants`, `offers` | create, switch on or off, list, show details, look up for an ingestion | `OfferCatalogue` |
| Cashback calculator (`app/cashback/calculator.py`) | none | compute the cashback of a purchase | `CashbackCalculator`, `CashbackCredits` |
| Users, authentication (`app/users`, `app/auth`) | `users`, `refresh_tokens` | register, log in, exchange a refresh token | `Accounts` |

A client ingests a purchase through the API. The handler looks up merchant and
offer, and writes purchase, cashback transaction and wallet in one transaction.
The scheduler ticks the dispatcher, which scans for pending purchases, drops the
ones with a task and the ones whose feature flag is off, and spawns a runner for
each of the others. A runner asks the verifier up to `max_attempts` times and then
confirms or rejects the purchase. Meanwhile admins confirm and reverse purchases
and change flags. After each commit a domain event is published, and the audit
module writes a row in a session of its own.

What is hard here:

* every handler reads, checks and writes with an `await` between any two
  statements and no `SELECT ... FOR UPDATE`, so what it checked may be stale when
  it writes, and row locks are taken in different orders;
* three tables must move together although any statement may be the last;
* the tracker and the runners live in memory only, while the purchases survive a
  restart; a scan is stale by the time its tasks start; an exception in the wrong
  place ends a runner, or the whole loop;
* uniqueness is sometimes backed by an index (external ids, emails, flags) and
  sometimes by a `SELECT` alone (active offers, merchants' names, the single use of a
  refresh token);
* lists are read page by page with `OFFSET`, the total by a statement of its own,
  while rows are inserted and change status between two requests.

## Modules

* `LedgerRows`: the rows of the three money tables and one operator per SQL
  statement and policy of the repositories. Money is a whole number of cents; a
  purchase is named by its `external_id`.
* `CashbackLedger`: what the purchases module promises. Each operation changes
  purchase, cashback transaction and wallet at once.
* `PurchaseTransactions`: the same operations statement by statement.
  `task[s]` is the handler running in session `s` (its next statement and its local
  variables), `image[s]` its uncommitted rows, `locks[s]` the tables whose row it has
  locked. It models PostgreSQL at READ COMMITTED: reads see committed rows and lock
  nothing; an `UPDATE`, or an `INSERT` that meets a unique index, waits for the
  session that wrote the row, then works on the committed row. `update_status` is an
  ORM write: it overwrites the status whatever it is by now, and its refresh brings
  in the amount committed by now, which the wallet statement then uses; the reversal
  keeps the amount it read first. A session may die at any statement (`Abandon`).
  `Ledger == INSTANCE CashbackLedger WITH ...` maps the committed tables to the abstract
  ones. `settledBy` is history: the operations that settled a purchase and did not die
  between the commit and the audit row.
* `CashbackCredits`: the ledger fed by the calculator. An ingestion credits what `calculate`
  returns for the terms of the offer it has found and the price of the purchase; `offer`
  are the terms, `bought` the columns `offer_id`, `amount` and the month of `created_at`
  of each purchase, and `month` goes by. No handler reads what was credited before.
* `PurchaseListings`: what is read of the ledger, over `CashbackLedger`. `newer` is the
  order of `created_at`: for every row, the rows that are later. A commit puts its row
  anywhere in it, because `now()` is the start of a transaction and not its end. A list
  is the set of rows that match, and a page those of them whose rank, the number of
  later rows in the list, is between `OFFSET` and `OFFSET` plus `LIMIT`. The two lists of
  a user reach that statement by chains of calls of their own: purchases pass `offset`
  and `limit` by name, the wallet's transactions by position, `limit` first
  (`ListWalletTransactions`, `ListByUserId`). `walk` is a client on its way through a list, one page after the other, each of which is a count and a `SELECT`; it stops at
  a page that is not full or by `pagination.total`. The fields `owed`, `left` and
  `entered` are the observer's: what the client may still expect, and what moved. It is
  taken that no two rows have the same `created_at`; the code has no second sort key.
* `VerifyPurchasesJob`: scheduler loop, dispatcher, tracker and runners. One action
  is the code between two awaits. The settlement is its commit; its statements are in
  `PurchaseTransactions`. Failing queries, failing runners, flag changes, admins and
  a restart of the process can come at any point. `confirming` are the purchases a manual
  confirmation has found pending: it commits some awaits later, over whatever status is there by
  then, as `update_status` does. A reversal that commits late writes nothing that a fresh
  one would not write, so none is remembered.
* `FeatureFlags`: flags of one key (every query selects on the key first), the
  read-then-upsert of `set_flag`, and the two ways the code resolves a flag.
* `OfferCatalogue`: merchants with their names, offers, the lists, the details view, the
  lookup of an ingestion. Lists are sets: neither query has an `ORDER BY`. `create_offer`
  and `create_merchant` run at the same time as anything else, with no lock. `raced` and `how`
  are history: a merchant was inserted by a request that had looked for its name before
  another merchant got it; an offer is active because it was inserted while the check of
  `create_offer` still held (`"checked"`), after it had been overtaken (`"raced"`), or by
  `set_offer_status` (`"reactivated"`).
  `set_offer_status` and `set_merchant_status` write only if the value they read
  differs, as the ORM does.
* `CashbackCalculator`: the checks on an offer's terms and `calculate`, in whole
  cents, hundredths of a percent and tenths of a cent, so that every half cent that
  `Decimal.quantize` has to round is there.
* `Accounts`: registration, login and refresh as concurrent requests, statement by
  statement. `mark_as_used` writes from the row object that `get_by_hash` has loaded,
  as the ORM's identity map has it. `Second` is the number of instants of the clock in a second:
  the JWT library drops the fraction both of the `exp` claim and of the clock it compares it with
  (`WholeSeconds`), the column `expires_at` keeps it. `parent` and `raced` of a token are history: the
  token it was issued in exchange for, and whether requests for that one overlapped.
* `MC*`: constants for TLC. `*_proofs`: the theorems about the module of that name.
  `LedgerRows_proofs` holds the lemmas that `CashbackLedger_proofs` and
  `PurchaseTransactions_proofs` share: what a sum over a set is and how it changes, and
  what each statement does to the balances. `CashbackLedger_proofs` holds the theorems
  about the calculator and `CashbackCredits` too.

Definitions whose name ends in `_something` (`Reverse_ignoresPrior`) are mutants:
plausible errors in the code, each of which the property it belongs to detects.

## Runs that pass

| Run | Instance | What it shows |
|---|---|---|
| `ledger` | 3 purchases, 2 users, 2 prices, an offer whose shares are half a cent and one and a half, or a fixed amount of two and a half | wallets are the sum of what purchases call for (`BalancesExact`); cashback transactions agree with purchases (`CashbackAgrees`); every step moves just what it must (`MoneyFollowsPurchase`); every transaction, whatever happens to it, is for the nearest cent of the purchase's full share under its own offer, whatever the user has earned before (`CreditsUncappedShare`); a client that walks through a list of all users' or one user's purchases, or the confirmed ones, in pages of one row misses at most one row for each that moved (`WalkMissesOnlyWhatMoved`); a user's purchases, transactions and balances add up (`WalletTellsOneStory`) |
| `tx_races` | 3 sessions, 2 users, 1 external id, cashback 0 or 2, every operation, any reversal | the id is ingested once and with its transaction (`IngestedOnce`, `CashbackWithPurchase`), nothing uncommitted is audited (`NoPhantomAudit`), and every deadlock has a reversal in it (`OnlyReversalsDeadlock`) |
| `tx_single_writer` | 2 sessions, 2 purchases, 2 users | if no two sessions work on one purchase, the statements implement `CashbackLedger` (`ImplementsLedger`), the audit log contradicts no status (`AuditMatchesStatus`) and has one row for every settlement but manual confirmations and those that died after their commit (`AuditLacksFailedAndManual`), and no movement of a shared wallet is lost (`NoLostWalletUpdate`) |
| `job` | 2 purchases, admins work on one, 2 runners, 2 attempts, 2 faults, 2 flag changes, fairness | the tracker is exact (`InFlightExact`); forced rejection comes after the last attempt (`RejectedAfterAllAttempts`); the purchase admins leave alone is settled once (`SettledOnce`); the job leaves a purchase alone whose flag is off, once what it had begun is through (`OffMeansManual`); both purchases are settled in the end while the loop lives (`SettledWhileLooping`) |
| `accounts` | 2 users, 2 emails, 3 tokens, 2 concurrent requests, 4 instants, 2 to a second | one user per email (`UniqueEmails`); a token is marked as used exactly when it has been exchanged (`RotationAtomic`), is exchanged before its recorded expiry and not refused before it (`ExchangedInTime`), and twice only by requests that overlapped (`ReusedOnlyByOverlap`) |
| `flags` | 2 merchants, 2 users, 2 concurrent requests | one row per scope (`OneRowPerScope`); batch and single evaluation agree without a global flag (`FilterAgreesWithoutGlobal`); a PUT takes effect unless another changed the row since it was read (`SetTakesEffectUnlessRaced`) |
| `catalogue` | 2 merchants that want one name, 2 offers, 2 days, 2 concurrent requests | two active offers of a merchant are always down to a race or to `set_offer_status` (`ClashesExplained`); a purchase earns just when one offer of its merchant is listed (`ListedOffersEarn`); public list, filtered list, details view and list of merchants agree (`ViewsAgree`); two merchants have one name only by requests that overlapped (`OnlyRacesShareNames`) |

`ledger` runs `CashbackCredits` and `PurchaseListings` together, over one ledger
(`MCSpec`): a step is one of both or one of the client. Two runners may be two of one
purchase, or one of each; two flag changes are one off and one back on. Two sessions are enough for a race on one row and three
for a circle of more than two; two purchases of one user share a wallet; cashback 0
is a case of its own in the code; two attempts are one that sleeps afterwards and
a last, which may not. Three tokens are a
chain of two exchanges, or two exchanges of one token; a lifetime of one second, of two
instants, on a clock of 0 to 3 has instants before, at and after expiry, in the same second and in the
next, for tokens made at a full second and between two. Prices and
percentages meet in shares of exactly half a cent, which go to the even cent, down and up;
what the offers' policies refuse is among the values asked for. Two merchants are there only if they have
raced for the one name, and all that a list filters by merchant is there with them. Three rows in pages of one make a
walk of four requests with room for rows to come and go before, between and after
them; more rows per page only make the gaps fewer. `MaxFaults`, `MaxToggles`, `MaxDay`,
`MaxTime`, `MaxMonth` and the sets `Offers` and `Tokens` bound the exploration. Deadlock checking is off where the system may rightly come to rest:
all purchases ingested and settled, or all faults, days and tokens used up. The audit counters
need no bound: each purchase can be settled only by handlers that read it before it
was settled.

**Conditions under which properties hold.** `tx_single_writer` sets `SingleWriter`:
that is what a comment in `repositories.py` assumes ("ensuring one single update at a
time"), and nothing in the code ensures it; `tx_double_settlement` drops it. `ledger` and
`tx_single_writer` restrict reversals to pending and confirmed purchases, as the documents do
and the code does not; `ledger_reverse_rejected` drops that. `SettledOnce` is about the
purchases admins leave alone, because an admin may settle what a runner is about to settle.
`SettledWhileLooping` assumes that the loop has not ended for good, and
`FilterAgreesWithoutGlobal` that no global flag exists: what happens otherwise is under
"Disagreements without a run" below. The other runs have no such condition. Four properties say
what is left of a promise that the code does not keep. For three of them a run that fails
has the promise itself: `ClashesExplained` (`OneActiveOffer`, in `catalogue_race`),
`ReusedOnlyByOverlap` (`SingleUse`, in `accounts_reuse`) and `CreditsUncappedShare`
(`MonthlyCapKept`, in `credits_monthly_cap`). The fourth, `AuditLacksFailedAndManual`, says itself
which rows are missing, those of manual confirmations always. Where a property
excuses what overlapped, as `OnlyRacesShareNames` and `SetTakesEffectUnlessRaced` do too, the
race is in the run and the history variable marks it.

**Fairness** (`FairSpec` of `VerifyPurchasesJob`): weak fairness of the loop and of
each runner. The event loop runs every task that is ready, `asyncio.sleep` ends, and
queries and the verifier answer or raise. Nothing is assumed of clients, admins,
flags or faults. `SettledWhileLooping` is about purchases whose flag stays on from some
time on, and faults are bounded: a runner that failed on every round would settle
nothing.

## Runs that fail, and what they found

| Run | Finding |
|---|---|
| `ledger_reverse_rejected` | A rejected purchase can be reversed; its cashback is taken a second time, from the available balance. |
| `credits_monthly_cap` | No code compares a credit with the offer's monthly cap; a user earns more in a month than the cap that is shown to them. |
| `tx_double_settlement` | Two admins both read a purchase as pending and both move its cashback, as the job and an admin may; the pending balance goes negative. |
| `accounts_reuse` | Two refreshes at the same time both exchange one refresh token. |
| `catalogue_race` | Two requests at the same time create an active offer of one merchant each; ingestions that find both raise. |

The instance of `credits_monthly_cap` has 2 purchases of one user with one offer, 2 months, 6
prices, 8 percentages, 9 fixed amounts and 4 caps, of which the policies of `create_offer` let some pass.
`tx_double_settlement` leaves the job out, because the tracker keeps two runners of one
process from one purchase, while nothing keeps two admins from it; reversals are in it.

### Disagreements without a run

Met while modelling, in the models, and not a run of their own:

* `subscribe_audit_handlers` does not subscribe to `PurchaseConfirmedByAdmin`, so that a
  manual confirmation leaves no audit row, even if nothing fails. PU-08 asks for one, NFR-06
  for one of every state change, and so does the event's docstring. `AuditLacksFailedAndManual`
  and its theorem say that these rows are missing, besides those of handlers that died.
* One exception in one tick of the dispatcher ends the scheduler's loop (`_run_loop` catches
  nothing): `loop.pc = "dead"`, and pending purchases stay pending until the process is
  restarted. The class promises a continuous loop. `EventuallySettled`, without the condition of
  `SettledWhileLooping`, is false.
* The batch query of the flags holds `FeatureFlag.scope_id is None`, which is Python's `False`:
  a global flag never reaches the job, although the docstring names it as the fallback.
  `FetchedScopes` is what the query selects.
* `set_offer_status` activates an offer without looking at the merchant's others. So
  `OneActiveOffer` fails with one request at a time, too, if it deactivates an offer, creates another
  and activates the first; `ClashesExplained` has this as its second cause.
* A reversal that has read a pending purchase charges the pending balance even if the purchase
  has been confirmed since, and a manual confirmation that has read one confirms it even if it
  has been reversed since. Both are in `tx_double_settlement`, whose trace is the
  shortest of the kind, and in `tx_races`.
* `reverse_purchase` locks cashback, wallet, purchase and everyone else purchase,
  cashback, wallet, so the two can deadlock (`OnlyReversalsDeadlock` says precisely when).
* A global flag sent with a `scope_id` is stored where no evaluation looks (`Scopes`).

## What is proved

Theorems hold for all values of the constants that satisfy the named assumptions
(`RowsAssumption`, `ReverseRequestsAssumption`, `TransactionsAssumption`,
`JobAssumption`, `FlagsAssumption`, `AccountsAssumption`, `CatalogueAssumption`,
`CalculatorAssumption`, `CreditsAssumption`, `ListingsAssumption`: natural amounts,
among them all that the calculator returns, at least one attempt, one day, one unit of
lifetime, one instant in a second and one row per page, a maximal percentage of at most 100, null values outside the sets). No set is
assumed to be finite; where a proof needs that there are finitely many rows it is part of
the invariant, because every commit adds at most one. Every
invariant below is established as `Init => Inv` and `Inv /\ [Next]_vars => Inv'`, one
step per action. TLC had checked the parts that are no property of a run on the instances
of the passing runs.

* `CashbackLedger_proofs`. The inductive invariant is `TypeOK /\ CashbackAgrees`.
  Types alone are not inductive: a handler charges the wallet of the purchase's owner,
  and that a purchase which exists has an owner is part of the agreement.
  `TypeCorrect` and `AgreementAlways` follow for any reversals. `MoneyFollowsPurchases`
  adds the hypothesis `DocumentedReversal` (only pending and confirmed purchases are
  reversed) and shows that every step moves every wallet by the change of one
  purchase's contribution. `BalancesAlwaysExact` and `BalancesStayNonNegative` follow from
  `BInv`, which adds `Balanced`: a user owns finitely many purchases, and the two balances are
  the sums of their contributions. Then a step that changes one summand changes the sum
  by as much (`SumFollows`, `MovesKeepBalance`).
  `QuotesPayNearestCent`: `calculate` meets its reference `PaysNearestCent` for every
  price and every offer that `create_offer` accepts, by arithmetic on quotient and
  remainder. `CreditsKeepLedger` (`CreditSpec => Spec`): with its amounts from the calculator
  the ledger is still the ledger. `CreditsUncapped` carries the reference to every transaction,
  whatever has happened to it since, from `CInv`: a transaction's amount is what `calculate` returned for
  the purchase's own price and offer, since no handler but the ingestion writes any of
  the three. It says that the full share is paid, which is what the code does and
  more than the offer's monthly cap allows.
* `LedgerRows_proofs`. A sum over a set is a fold, which is a recursive function on the subsets of
  the set, and the library's induction rules are of no use because they take a predicate as a
  parameter. The inclusion of finite sets is well-founded, though, so that a set
  of counterexamples has a smallest member (`SmallestSet`). All facts about sums come from
  that: the fold is defined (`TableExists`), depends only on the values it adds
  (`TablesAgree`, `SumSame`), loses an element with its value (`SumRemove`), and may leave out
  zeros (`SumSupport`).
* `PurchaseListings_proofs`. `ReadersLeaveLedgerAlone` (`ListSpec => Spec`), by which everything
  above holds while lists are read (`AgreementWhileRead`, `BalancesExactWhileRead`).
  `WalletAlwaysTellsOneStory`, from `BInv`: the transactions that are pending are those
  of the pending purchases, and some of zero cents that a settlement has skipped.
  `WalksMissOnlyWhatMoved`, from `LInv`. Its core is `WalkFits`: the rows that are still owed although
  their page has been read are at most as many as have left the list, and while a page is
  read the list is longer than the total by no more than what entered. It rests on the ranks of a
  list being a numbering (`RanksNumber`, by the pigeonhole principle): so a row that leaves pulls at
  most one owed row over the offset (`ExitFits`), one that enters pulls none (`EntryFits`), a
  page that is not full is the end of the list, and behind the total there are only
  rows that entered (`PageFits`).
* `PurchaseTransactions_proofs`, in four layers.
  - For any interleaving, `IInv`: what a session is about to do fits its operation and what it
    has locked (`HandlerOK`, `LocksOK`), its uncommitted rows are the committed ones
    with its own statements applied (`ImagesOK`), which is true because a row in an image
    is locked and locks exclude each other (`LocksExclude`); tables are paired
    (`RowsPaired`) and what is published is settled (`PublishedIsSettled`). From it follow
    `TypeCorrect`, `CashbackComesWithPurchase`, `NoAuditBeforeCommit`,
    `WalletUpdatesNotLost`, `IngestedOnlyOnce` and `DeadlocksNeedReversal`. The last rests on
    the order in which the handlers other than the reversal lock the tables: among
    sessions that wait in a circle, one that waits for the greatest table would have
    to wait for a session that waits for a greater one still.
  - If `SingleWriter` holds, `SInv` adds `OneWriter` and `ReadIsCurrent`: what a handler read
    of its purchase is still so when it commits. Then a commit is a step of
    `CashbackLedger` and everything else a stutter, which is `Refinement`: `Spec =>
    ImplementsLedger`. With it what is proved of `CashbackLedger` is true of the handlers.
  - The prover does not carry a theorem through an `INSTANCE`, so the balances have an invariant of
    their own here: `BInv` is `SInv` and `Balanced` of the committed tables, and a commit,
    being a step of the ledger, moves money as its purchase calls for
    (`CommitMovesMoney`). `BalancesAlwaysExact` and `BalancesStayNonNegative` follow if reversals
    are the documented ones; `tx_double_settlement` and `ledger_reverse_rejected` show
    that neither hypothesis can go.
  - `AInv` adds the history: what is published belongs to what settled the purchase
    (`HistoryAgrees`, `PublishesHistory`) and once (`PublishesOnce`). From it follow
    `AuditComplete`, which has no row for manual confirmations as the code has none, and
    `AuditTellsHistory`.
* `VerifyPurchasesJob_proofs`. `JobTypeCorrect` and `InFlightAlwaysExact`. The
  invariant adds `BatchFree` (the purchases the dispatcher kept are still without an
  entry when it adds them, because between its awaits entries are only removed) and
  `SleepersRetry` (a sleeping runner has an attempt left, so attempts stay in range).
  `JInv` adds `WorkingOnPending` (the purchase of a runner past its read is still pending
  unless admins work on it, because the tracker lets no second runner near it) and
  `LastAttempt`. From it follow `NoEarlyRejection` and `NeverSettledTwice`; `OffLeavesAlone`
  needs the tracker only.
* `FeatureFlags_proofs`. The invariant says that each scope, and each answer a request
  holds, is no row or one. `OneRowAlways` and `SetTakesEffect` follow.
  `FilterAgreesAlways` holds of every table of flags: it is about the two evaluations.
* `Accounts_proofs`. `EmailsStayUnique` needs `EmailHeld`: an email that was inserted and not
  committed is in no other transaction and not in the table. The token theorems need
  three things that no unit test sees: `OverlapKnown` (two refreshes of one token that are
  under way are both marked), `LateExchange` (a refresh that is past the policies
  although its token has been exchanged is marked, and so are the tokens it was
  exchanged for) and `RequestsOK` (what a request has read is what
  it will write: the counter it increments was 0, the time it noted is before the
  expiry). `AccountsTypeCorrect`, `RotationIsAtomic`, `OnlyRacesReuseTokens` and
  `ExchangesAreInTime` follow.
* `OfferCatalogue_proofs`, for everything admins may do, in any interleaving. The
  invariant `NameInv` adds `UnracedNameFree`: a request which has looked a name up and is not marked
  as raced still finds no merchant of that name, so that only a marked one can insert
  a second; hence `OnlyRacesShareNamesAlways`. In the same way `ClashInv` adds `CheckStillHolds`:
  a request past the check of `create_offer` that nothing has overtaken is right that the
  merchant has no active offer; hence `ClashesAlwaysExplained`. `ListedOffersEarnAlways` follows, as the lookup
  takes just one offer and what is listed is finite. `ViewsAlwaysAgree`, from
  `DatesInOrder`: no offer ends before it starts, because no request inserts one that does.

The proofs had two things changed in the model. Lists were sequences built by `SelectSeq`,
which the prover cannot expand; they are sets with ranks now, and the run has as many
states as it had. And `WalletStatement` and `AfterVerdict` had
`CASE` arms that overlapped: TLC takes the first that applies, TLA+ leaves open which, and the
proofs could not go through. The arms now exclude each other; what TLC computes is the
same.

Only model-checked: `SettledWhileLooping`, which is liveness under fairness and out of this
prover's reach. Every other property of a passing run is a theorem.

## Not modelled, and the plan

HTTP error bodies, configuration, health and logging keep no state. The list of
feature flags is read by no other code and changes nothing; access tokens keep no state
either. The pages of the lists of offers and merchants have no defined order, so nothing
can be stated of them. `cancel(name)` of the scheduler and `unsubscribe` of the broker are
called by no code. The text of audit details, password hashing and JWT encoding are
left out as data. In order of importance, what comes next:

1. `FeatureFlags` composed with the job in place of `enabled`;
2. the lookups of merchant and offer composed with the ingestion;
3. the lists over `PurchaseTransactions` in place of `CashbackLedger`. They read committed
   rows only, so that `Refinement` gives them the same steps to live with.

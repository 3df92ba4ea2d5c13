# TLA+ models of usahainaja_api

usahainaja_api is a Go service for small businesses: sales, purchases, stock and cash of one
or more businesses, over PostgreSQL. This directory holds TLA+ specifications of its core
logic, the TLC configurations that check them on small instances, and TLAPS proofs of the
properties that matter most. Paths below are relative to `src/`; `postgres/` stands for
`internal/postgres/`, `app/` for `internal/app/`, `httpapi/` for `internal/httpapi/`.

    tlc -workers 2 -config stock_all.cfg MCStockTx.tla      # one run
    tlapm StockTx_proofs.tla                                # one proof module

## 1. The system

A request passes the HTTP layer (decoding, session, role of the member, Idempotency-Key), a
service method that validates and normalises the input, and a repository method that runs one
PostgreSQL transaction under the default isolation, READ COMMITTED. The only state a
process keeps is its connection pool; everything else the requests share is in the database, and
what two requests can do to each other they do through rows, locks, constraints and the
connections of the pool. There are no background jobs.

| Component | State | Operations | What makes it correct |
|---|---|---|---|
| Stock ledger and snapshot (`postgres/repository_inventory.go`, `_stock_complete.go`, the stock parts of `_sales.go`, `_purchases.go`) | `product_inventory` (one quantity per product and location), `stock_movements` (append only) | CheckoutSale, VoidSale, ReceivePurchase, CompleteStockAdjustment, CreateOpeningStock | never negative; the ledger summed is the snapshot; a request posts all of its lines or none; a check made early in a transaction is still true when it is used |
| Document numbers (`nextNumber`, `postgres/repository.go`) | `number_sequences.last_number` | nextNumber inside the transactions | no duplicates, no gaps |
| Purchases (`postgres/repository_purchases.go`) | header, lines with ordered and received quantity, receipts, payments | create, add/update/delete line, order, cancel, receive, pay | the status tells what was received; nothing received or paid beyond the order; a final purchase is frozen; stock and cash are explained by receipts and payments |
| Sales (`postgres/repository_sales.go`) | header, lines, CHARGE and REFUND payments | create, add/update/delete line, cancel, checkout, void | movements and balances are explained by the completed sales; a void undoes exactly its checkout; totals do not move under a payment |
| Cash accounts | `cash_accounts.balance` | checkout, void, purchase payment | each balance is the sum of what was paid through it |
| Idempotency-Key (`httpapi/idempotency.go`) | `idempotency_keys` | lookup before the handler, store after it | no false success; an answer settles its key: nothing sent after it executes, and retries get it again |
| Adjustments and opname (`postgres/repository_adjustments.go`) | documents with lines, DRAFT or COMPLETED | create, create from a count, complete | the completion brings the stock to what was meant when the document was written |
| Members (`postgres/repository_members.go`, `app/service_members.go`) | role and status per user and business | invite, update | a business keeps an active owner; only owners make and unmake owners; the audit log tells the change that was made |
| Locations (`postgres/repository_locations.go`, `app/service_locations.go`) | locations, one default | create, update | one default location, and it is active; it moves only where a request moves it |
| Users and sessions (`postgres/repository.go`, `app/service.go`, `httpapi/context.go`) | users, sessions with an active business; the cookie of a browser | register, login, logout, switch, every authenticated request | no live session that nobody can end; a request acts only in a business its user belonged to at some time since it was sent |
| Businesses (`postgres/repository.go`, `app/service_business.go`) | business, modules, sequences, roles | create, configure | created whole or not at all |
| Catalog: products, categories, units, conversions | rows with references | create, update, delete | no cycles among categories; units of stock that stay comparable |
| Parties and contacts | rows with references | create, update | nothing beyond one row each |
| Connection pool (`postgres/`, `cmd/api/main.go`: 20 connections) | connections in use | acquire, release, close | nobody waits for ever, a process that is told to stop does |
| Migrations (`db/migrations/migrations.go`) | `schema_migrations` | Up at start-up | every file runs exactly once |
| Reports, audit log, HTTP encoding, configuration | – | reads and appends | not state anything depends on |

How they interact: sales, purchases and adjustments write the stock ledger inside their own
transactions; sales and purchase payments write cash accounts the same way; all of them take
numbers from `number_sequences`; UpdateProduct changes `is_stock_tracked`, which checkout, void
and receipt read; the Idempotency-Key middleware wraps the handlers of sales, purchases,
adjustments and cash without sharing their transaction. Every request reads its session, its
membership and its role one after the other before its transaction begins, and acts on what it
read. Every query takes a connection of the pool; completion of an adjustment, the receipts of a
purchase and the list of parties take a second one while they hold the first.

What is hard here: statements of concurrent transactions in an order nobody tested, rows
locked in different orders, values read before a lock is obtained, checks in a transaction of
their own, a crash between the commit of the work and the record of it, rounding, and document
life cycles in which a legal sequence of calls reaches a state nobody meant. The hazards are
listed line by line in `PROJECT.json`.

## 2. Modules

`X.tla` models a component, `MCX.tla` gives the small instances of it, `X_proofs.tla` its
theorems. `Service_proofs` has those of Idempotency, Migrations and Sessions, which share no state
and no name, and `SumLemmas` what the other proofs need to know of sums. A definition whose comment starts with "Mutated:" is not part of the model: it is the
form a plausible bug would give the definition after it, kept to show that the properties notice.

### StockTx, StockLedger

`StockLedger` is the promise: a request posts all of its lines to ledger and snapshot in one
step or posts nothing, and no posting leaves a negative quantity.

`StockTx` is the code: each SQL statement of the five stock operations is an action.
`pc` is the next statement (`lock`, `number`, `line`, `move`, `write`, `insert`, `commit`), `at`
the line the loop is at. What the transaction has written is in `draft`, `wrote` and `moves` and
becomes visible with `Commit`; `Value` and `Seen` are what a statement of READ COMMITTED sees.
Row locks are explicit (`rowLock` for `product_inventory`, `keyUpdate`/`keyShare` for the rows of
`products` that a receipt locks FOR UPDATE and a movement's foreign key locks FOR KEY SHARE,
`seqLock` for `number_sequences`); a statement that must wait is disabled. The order of the
statements is that of each operation: a sale writes the row first and the movement second, a
receipt locks all lines, takes its number, then inserts the movement before it upserts the row,
an adjustment reads FOR UPDATE, checks, inserts the movement, updates or inserts the row.
Failures are actions too: `CheckoutShort` and `AdjustmentShort` (INSUFFICIENT_STOCK),
`OpeningTwice`, `ApplyDuplicate` (two transactions inserting the same row), `Cancel` (cancelled
context, lost connection, crash) and `DeadlockVictim`.

The document row each operation locks first is private to one operation at a time and is left
out. Products keep their `is_stock_tracked` here (see Sales). Cash rows are only taken while the
PAY sequence is locked and cannot add a cycle.

### Purchases

One purchase operation is one action, as each of them begins with the purchase FOR UPDATE. The
exception is OrderPurchase: it counts the lines in a subquery of the statement that waits, so it
is split into `OrderRead` (the snapshot when the wait begins) and `OrderPurchase` or
`OrderRefused` (the lock obtained). Quantities are integers in units of 0.0001, the scale of the
columns; `Round2` is the two-decimal rounding of `subtractDecimal` that the over-receipt check
goes through.

### Sales

One sale operation is one action, for the same reason. The lines of a checkout are handled one
by one in the code and add up, so `CheckoutSale` compares the sum per product with the stock (the
interleaving of the single statements is the subject of StockTx). `UpdateProduct` switches the
tracking of a product at any time; `hasRow` tells whether `product_inventory` has a row, which a
void needs to find one to update.

### Adjustments

Documents that are written now and applied to the stock later. A manual adjustment is written in
one step. `CreateStockOpname` reads one product after the other and keeps the rows it has read
FOR UPDATE, so it is split into `BeginOpname`, `CountProduct` per product, and `FinishOpname` or
`AbortOpname`; a product without a row has nothing to lock, and its quantity may change while the
opname is still being written. `CompleteStockAdjustment` is one step (its statements are an
operation of StockTx). `Sell` and `Receive` stand for everybody else who moves stock. Quantities
are in units of 0.0001, multipliers in units of 1 / `MultScale`; `Multiply` and `Distance` are
`multiplyDecimal` and `differenceDecimal` with their rounding. Two history variables are not in
the code: `traded` (what sales and receipts moved) and `since` (what moved since an opname read a
product). The products stay active and tracked, and each has one unit beside its base unit. No
operation cancels a draft, so a draft that never suffices stays one.

### Idempotency

A request (`Attempts`) sends an intent: the wish of a client, with its key and payload. Lookup,
the commit or the refusal of the handler, and the storing of the answer are separate steps, with
other requests, failing statements and crashes between them. `by` records whose effect an answer
tells of. Whether a handler commits or refuses is left open: the state of its document refuses some
intents a second time (the checkout of a sale that is no longer a draft) and lets others execute
again (a purchase payment), and the properties hold for both. `captureWriter` passes on what the
handler writes, but net/http completes an answer when the handler returns, which is after
StoreIdempotency: an answer has arrived in "done". Two history variables, which no guard reads, are
not in the code: `before` (the requests that had ended when one was sent) and `unstored` (those
whose record could not be written).

### Membership

Invitations and updates of the members of one business, statement by statement. `Admit` is the
middleware: it reads the role of the acting user and keeps it in `admitted`, whatever happens to
that user afterwards. `UpdateBusinessMember` selects FOR UPDATE from `business_members JOIN users
JOIN roles`, which locks one row of each (`LockMember`, `LockUser`, `LockRole`); the row of `roles`
is the same for all members of a role, and it is what makes two owners who demote each other wait
for one another (`memberLock` alone would not: the mutant `LockMemberOnly`). After a wait
PostgreSQL joins the row as it is now with the rows it has locked (`StillFound`): a member whose
role was changed meanwhile is not found. The foreign keys of the write and of the audit entry take
FOR KEY SHARE (`ShareUser`, `ShareRole`, `Audit`). `seenRole` and `seenStatus` are what the audit
entry gives as the state before.

### Locations

`CreateLocation` and `UpdateLocation` as transactions. `CountActive` and `ReadFlag` are the reads
whose result is used later: the count that makes the first active location the default, and
`is_default` as the service finds it before the transaction when the request does not mention it.
`ClearRow` is one row of `UPDATE locations SET is_default = false`: rows come in any order and each
waits for its lock. `MustWait` and `InTheWay` are the partial unique index
`locations_one_default_per_business_idx`: an uncommitted default makes another wait, a committed
one makes it fail. `since`, the defaults there have been since a request began, is not in the code.

### Sessions

The tabs of a browser share its `cookie`; a request carries the cookie of the moment it is sent
(`sent`), and its answer sets or clears the cookie of the moment it arrives (`setCookie`), or is lost. Between
the two, every transaction of `Login`, `Register`, `Logout`, `SwitchBusiness` and `CreateBusiness`
and every read of the middleware is a step. A login deletes the session of the cookie it was sent
with and inserts another in one transaction (`DeletePrevious`, `InsertSession`). Sessions expire, and
memberships come and go, at any time. A token nobody has any more may be drawn again and stands for
a new one. Not in the code: `overlapped` and `abandoned` (answers that came while another request of
the browser was under way, and the sessions that may have been lost by it), `wasLive` and `access`
(whether the session was live when the request was sent, and the businesses its user was an active
member of then or at some time since, whether still or no longer).

### Migrations, Server

`Migrations` is `Up` in several replicas of different releases: advisory lock, version table, one
transaction per file; a replica fails or crashes between any two steps, and its session ends with
lock and transaction. `Server` EXTENDS it with the life of a process (serving, draining,
closing, down) and its connection pool. A closed pool refuses whoever asks it from then on; should
the pool first let such a request wait for a slot, `FewNested` gives it one. A request is a sequence of operations (`plan`), each
"plain" or "nested"; `conn` tells how many connections it holds and whether it waits for one.
The middleware's queries are plain operations before that of the handler. Close refuses new
requests at once and waits for the connections in use; who already waits is told only when a
connection becomes free. `executed`, how often the statements of a file took effect, is not in
the code.

## 3. Runs

Each run finishes in well under five minutes; the whole space of its instance is explored.
"violation" runs end with the counterexample the table describes.

| Run | Shows | Instance |
|---|---|---|
| `stock_all` | stock is never negative, ledger equals snapshot, the check of an adjustment line stays true until it is used, numbers have no gaps or duplicates, checkouts and voids never deadlock among themselves thanks to ORDER BY product_id, and StockTx implements StockLedger (refinement, `LedgerSpec`) | 2 transactions of any operation, 1 or 2 lines each, 2 items |
| `stock_live` | every transaction ends, deadlocks included | 2 transactions of checkout, receipt, completion |
| `purchases` | the status tells the receipts, movements are explained by received lines and cash by payments, a line exceeds its order by half a hundredth at most, final purchases are frozen | 1 purchase, 2 lines, quantities on both sides of the rounding boundary |
| `sales` | stock and each cash account are explained by the completed sales, ledger equals snapshot for a product that stays tracked, payments match totals for ever, settled sales are frozen | 2 sales on a tracked product and one whose tracking is switched at any time, 2 accounts, stock for less than both need |
| `adjustments` | a document takes effect once and as a whole, stock stays nonnegative, what an opname has read holds until it commits, a count in base units corrects the stock by what was wrong when it was made and keeps what moved since | 2 documents of either kind, 2 products, each with a second unit, sales and receipts |
| `idem_all` | no false success; no request sent after an answer to its key has an effect, unless that answer was lost, an error or not stored; a retry gets the answer of the request it repeats, but for these cases and for one that overlapped the request whose answer was stored; records never change | 3 requests of 3 intents on 2 keys, every failure |
| `idem_overlap` | **violation**: two overlapping requests with one key and different payloads both execute and are both told of success | 3 requests, no failure |
| `opname_units` | **violation**: a count in a unit of multiplier 2 is converted twice, and completing it misses the count | |
| `members` | an active owner remains; ownership changes only by requests let in as an owner's; the audit entry tells the state just before the change | 3 users, 3 roles, 2 statuses, 2 requests at a time, without end |
| `locations` | exactly one default location, active; it moves only to a location whose request asked for it or which was the default since that request began | 3 locations, 2 requests at a time, without end |
| `sessions` | a live session is in a cookie or in an answer on its way to one, but for those named in the property; a request acts only in a business its user was a member of when it was sent or at some time since; a business is born with a session that works in it | 1 browser, 2 tabs, 1 user, 3 tokens, 2 businesses |
| `server` | every file takes effect once; requests and processes end as long as fewer operations hold a connection and need another than there are; every start-up ends | 2 replicas, releases {1} and {1, 2}, 2 requests, 2 connections |

### Where the code and the expectation differ

`opname_units` and `idem_overlap` are kept as runs. The others follow from the actions as they are
written, and the properties above say what holds in spite of them.

- A line of a paid, PARTIALLY_RECEIVED purchase may be made cheaper or removed: the payments then
  exceed the total (`postgres/repository_purchases.go:312`). `CashExplainedByPayments` still holds.
- OrderPurchase counts the lines before it waits for the lock; if the last line is deleted meanwhile,
  an empty purchase is ordered (`postgres/repository_purchases.go:423`). `StatusTellsReceipts` holds
  of it; lines can no longer be added, so nothing can ever be received.
- The remainder of a line is rounded to two decimals before a receipt is compared with it: a line of
  0.0150 accepts 0.0200. `OverReceiptBounded` says how far this goes.
- When the tracking of a product is switched on between checkout and void, the void writes a
  movement but finds no row of `product_inventory` to update (`postgres/repository_sales.go:563`):
  ledger and snapshot differ for such a product. `SteadyLedger` is about all others.
- Nothing claims a key between its lookup and the storing of the answer (`httpapi/idempotency.go:72`):
  a request that arrives while another with its key is under way executes too, also with another
  payload, against `README.md:78-80` and `httpapi/idempotency.go:39-41`. `idem_overlap` shows it.
- A crash, or a cancelled context, between the commit of an operation and the storing of its answer
  (`httpapi/idempotency.go:92`) lets the retry execute again; so does an answer of 500 after the commit,
  and a StoreIdempotency that fails. `AnsweredIsSettled` says that, overlaps aside, a key has two
  effects in these three cases only.
- An update of a location that does not mention `is_default` "keeps the old value", says
  `app/service_locations.go:60`; the value is the one before the transaction, so a location that
  lost the default meanwhile takes it back. `DefaultMovesByRequest` allows exactly this.
- A member who is suspended after the middleware has read the membership (`httpapi/context.go:46`) still
  acts in that request. `AccessIsRecent` bounds how old the membership may be: at some time since the
  request was sent, so that whoever had left before does not get in.
- A member whose role is changed by another request while an update waits is reported as
  MEMBER_NOT_FOUND, and an owner who is demoted while a request of theirs is under way still acts as
  an owner in it: `OwnershipByOwners` speaks of the role the request was let in with.
- When as many completions (or other nested operations) hold a connection as the pool has, all wait
  for a second one until a client gives up (`postgres/repository_stock_complete.go:49`). `FewNested`
  is the condition of `NothingHangs`.
- `requireSession` clears the cookie when the database fails, and after a login in another tab has
  replaced the session (`httpapi/context.go:22`): the session stays live with no cookie left that
  holds it. Two logins that replace one session at the same time leave two. `NoStraySession` exempts
  these cases, as it does every session whose answer overlapped another request of its browser, and
  excludes all others.
- A purchase may be left with nothing to receive: its last unreceived line can be deleted when it is
  PARTIALLY_RECEIVED, where no receipt recomputes the status any more (`postgres/repository_purchases.go:402`),
  and every line when it is ORDERED (`postgres/repository_purchases.go:388`). `StatusTellsReceipts` holds of it.
- UpdateBusinessConfiguration with a `logo_url` selects the business by the type it is to get
  (`postgres/repository.go:295`), so type and logo cannot be changed together. Not modelled.

Why the bounds are enough. Every interaction in StockTx is between two transactions on at most two
rows: a lock cycle needs two rows, or a row and a key. Two lines let a line precede and follow
another; quantities of 1 against a stock of 0 or 1 make a line both suffice and not. Two sales
or documents suffice for anything about sums to be attributed to the wrong one, and lines are
treated alike. `purchases` follows a single purchase, since no operation reads another one and the
sums over several add up; its quantities lie on both sides of half a hundredth, and one of its two
products is tracked. In `adjustments`
a multiplier of 3/2 makes conversions round, and counts above and below the stock give lines of
both directions and of none. `MaxLines` bounds line numbers, and with them the length of every
behaviour of a document; balances and quantities are bounded by it in turn. `MaxStock` stops
receipts only. Three requests let a third replay what two others raced for. Two requests at a time
suffice for `members`, `locations` and `sessions`, whose hazards are between a request and one that
commits while it is under way, as places are free again at the end of a request and any number follow
one another; three users let two owners demote each other while one is left, three locations let
the default pass by a location that is being cleared. A third token lets a session be replaced twice.
Two connections are the least with which an operation can nest, and two
requests the least that can exhaust them.

`CHECK_DEADLOCK FALSE` everywhere: transactions, documents and requests come to an end, and the
system may rest. Waiting in a circle is checked by `SalesNeverDeadlock`, `EveryTransactionEnds` and
`NothingHangs` instead.

Fairness (`FairSpec` of StockTx, used by `stock_live` only): weak fairness of each transaction's
own next statement, because PostgreSQL executes a statement that has its locks, and of the deadlock
detector, which runs after `deadlock_timeout` whenever a cycle persists. Nothing is assumed of
arrivals or failures. Weak fairness is enough because a lock is granted to somebody whenever it is
released and each transaction runs once; overtaking in the lock queue ends with the overtakers.

Fairness of Server (`FairServerSpec`, used by `server`): strong fairness of each request's own next step,
because the queue of the pool is first come first served, so whoever asks gets a connection when
one is free again and again; strong fairness of the start-up of a replica, as the advisory lock is
granted in order too; weak fairness of the end of a shutdown, whose wait SHUTDOWN_TIMEOUT limits,
and of the exit once the connections are back. No client has to give up, no replica has to start,
and nothing has to fail.

Each property of a passing run is paired in `PROJECT.json` with a mutant, a plausible bug under
which TLC finds it violated.

## 4. Proofs

The theorems hold for every value of the constants allowed by the named assumption of the module
(`StockTxAssumption` with `LastItemAssumption`, `PurchasesAssumption`, `SalesAssumption`,
`AdjustmentsAssumption`, `IdempotencyAssumption`, `MembershipAssumption`, `LocationsAssumption`,
`MigrationsAssumption` with `ServerAssumption`, `SessionsAssumption`): any number of items,
transactions, purchases, requests, users, locations, replicas and browsers, any quantities and line
counts. Sales, purchases and documents are finitely many (`IsFiniteSet` of `SaleIds`, `PurchaseIds`
and `Docs`), as the rows of a table are: a sum over all of them means nothing otherwise. Every
safety property and every action property of the passing runs, and the refinement, is proved.

**SumLemmas.** A ledger, a balance and a stock are sums over a finite set, written with the fold of
the community modules. The library's induction theorems take an operator as a parameter, which the
provers cannot instantiate, so induction over finite sets is done by its smallest counterexample: if
a fact fails for some subset, it fails for a smallest one (`SmallestSubset`, from the well-foundedness
of proper inclusion on finite sets), and taking an element from that one contradicts it. `SumIs`
unfolds the definition of the fold, a function of sets picked with CHOOSE; `SumsAgree` and `SumsExist`
show that there is exactly one such function, `SumUnfolds` that any element may be taken out first.
From there come what the proofs cite: the sum of integers is one, of natural numbers is one
(`SumIsInt`, `SumIsNat`), two functions that agree have one sum (`SumEqual`), the sum of zeros is zero,
and a change of one summand changes the sum by as much (`SumChanged`).

**StockTx_proofs.** `TypeCorrect`, then `Invariance` of `IInv`, from which `StockSafe`,
`LedgerSafe` and `CheckSafe` follow. `NonNegativeStock` and `LedgerMatchesSnapshot` alone speak
about committed rows and cannot be carried through the statements of an open transaction. `IInv`
adds for every transaction: the rows it has written are locked by it (`Owned`), so nobody
changes the committed value its draft was computed from; its draft differs from the committed
row by its movements, up to the line in progress, where sales are one write ahead and the other
operations one movement ahead (`Balanced`, `Ahead`); drafts are not negative; and the check of
an adjustment line is protected by the lock, or harmless because the line adds stock
(`CheckHolds`). The proof has a lemma per action; `Frame` shows that a transaction is not
disturbed by the steps of the others.

`NumbersSafe` and `SalesSafe` follow from a second invariant, `HeldInv`, about who holds which lock
and why. Whoever holds the row of a sequence has the next number of it, and whoever has a number
holds the row until the end (`NumberHeld`); so a commit extends the numbers in use by the next one,
and a rollback gives back one that nobody else could have built upon. A sale has locked only rows of
lines it has come to (`RowsHeld`), its lines are sorted, and it takes its number last. Hence a sale
that waits for a waiting sale waits for a row, and its product is less than that of the other
(`WaitsForHigher`); a circle would have no greatest product, which `LastItemAssumption` (there are
finitely many products) excludes by well-founded minimum.

`Refinement`: StockTx implements StockLedger. A third invariant, `PostInv`, says what an open
transaction has posted so far: item by item the sum of the lines it has come through, and of the line
in progress if its movement is written (`Inserted`). At the commit these are all its lines, so that
one step posts the whole request to ledger and snapshot (`CommitRefines`); every other statement, and
every failure, leaves what others see as it was (`StepRefines`, `RollbackRefines`). That the drafts
that become visible are the snapshot plus the postings is `Balanced` again.

**Purchases_proofs.** `TypeCorrect`; `ReceiptsBounded`, from a lemma on `Round2` (rounding to the
nearest hundredth errs by at most half of one); `NeverOverOnGrid`, for quantities that are whole
hundredths, with the strengthening that every ordered and received quantity stays on the grid;
`FinalPurchases`, an action property; `StatusIsTrue`. `LedgerExplained` and `CashExplained`, sums over
all lines and over what all purchases have paid: a receipt changes one summand by what it moves, and
a line that is written, changed or deleted has received nothing (`PlainStep`).

**Sales_proofs.** `PaymentsAgree` and `SettledSales`. `PaymentsTellSales` is inductive once the
types of totals and payments are added (`IInv`): a checkout needs the total to be positive for its
charge to be one, and the stored total to be a natural number, which `SetLines` ensures.
`OthersKept` says that an operation leaves every other sale alone. `SalesTyped`, `MovementsTell`,
`CashTells` and `LedgerIsSteady` follow from the invariant `Books`, their conjunction with two facts
about products nobody retracks: they are as tracked as at first (`SteadyTracking`), and a completed
sale of a tracked one has left a row of `product_inventory` for its void to update
(`GoodsHaveRows`), without which the movement of the void would have no quantity to go with. The
void takes from the cash account what the charge brought, which is the total (`PaymentsTellSales`).

**Adjustments_proofs.** `Invariance` of `IInv`, from which `TypeCorrect`, `CountsStayCurrent` and
`CountsStand` follow. A completed opname is right only because of what was true when it was
counted, so `IInv` ties the two moments: for a pending document the quantity it read plus what
moved since is the stock (`SincePins`), its base-unit lines post count minus system (`LineExact`,
from `MultiplyOne`: multiplying by 1 rounds nothing), and rows read by an opname under way are
locked by it (`CountHolds`). `MoveKeeps` shows this once for every way stock moves.
`StockIsExplained` sums over the documents: completing one adds its lines to the stock and to the sum.

**Service_proofs, Idempotency.** `Invariance` of `IInv`: where a request is tells whether its effect
exists (`Stage`), and a stored success is that of an effect with its key and payload (`RecordTrue`).
From it `SuccessSafe` and `RecordsFinal`. `AnswersSettle` (`AnsweredIsSettled`) and `RetriesHear`
(`RetriesAgree`) are about every behaviour, with its overlaps, crashes and failures, and need more, since a
request decides at its lookup what it does much later. `SettledInv` (`Settlement`) ties the two moments: an
attempt that found no record came after none that settled its key (`Late`); whoever settles a key has left a
record, and tells what it says or has overlapped its writer (`Told`); the writer of a record has itself settled
the key (`RecordSettled`), so that nobody who ran without finding its record came after it; and whoever comes
later tells what the record says (`Heard`). `OthersStay` shows once that requests that have ended stay as they
are, whichever request, or with a crash how many, a step is about.

**Service_proofs, Migrations.** `MigrationsRunOnce`, from `MigrationInv`: whoever is between check and
commit holds the advisory lock, its current file is not recorded, and what its loop has passed is
(`FileStage`). `CurrentIsLeft` shows that a nonempty set of versions has a first one. Requests and pool
do not touch this.

**Service_proofs, Sessions.** `SessionsHold`: `SessionInv` follows a token from the request that draws
it to the cookie it ends in. `SessionsEnd` (`NoStraySession`) is not inductive: an answer that replaces
a cookie could take the last hold of a live session. `SessionInv` says why it never does. The token of
a login is nowhere else until it is inserted (`FreshIsFresh`); past its DELETE a login has deleted the
session it was sent with, if there is one (`Known`); so when an answer is on its way to replace a
cookie, that cookie is of no session anybody depends on, and while a request is under way its browser
still has the cookie it was sent with, or one of that kind (`Superseded`). What makes a cookie change
under a request is the answer to another one of the browser, and then each knows of the other
(`Overlap`), so that the session the answer brings is one `NoStraySession` excepts. `AccessHolds`
(`AccessIsRecent`) rests on `Relied`: a request whose session was live when it was sent remembers every
business its user is a member of, before and after the user is known, and forgets none that is taken away. `BusinessesBorn` (`BornActive`)
needs that a session which is still there is its user's (`Known`): tokens are not drawn twice.

**Membership_proofs.** `Invariance` of `IInv`, from which `OwnerAlwaysRemains`, `OwnersDecide` and
`AuditIsTrue` follow. The count of owners is a statement of its own and would prove nothing when
the write commits; `IInv` adds that an update that has counted holds the row of the role OWNER
until it ends, that the member it is about is locked and still what was seen (`Located`), and that
whoever else could take an owner away needs that row too. Only requests admitted as an owner's
assign the role (`Assigned`).

**Locations_proofs.** `Invariance` of `IInv`, from which `OneDefault` and `DefaultMoves` follow.
Before it commits, a claim has every default there is under its locks (`Claimed`), the rows it
cleared stay locked (`Held`), and the unique index admits one claim at a time (`OneClaim`). That the
flag was asked for or found is `Wanted`.

Model-checked only: liveness (`EveryTransactionEnds`, `NothingHangs`, `EveryStartEnds`), as fairness and
ENABLED are out of the prover's reach. What `opname_units` refutes is of course not proved either.

## 5. Not modelled, and why

- Reads (lists, details, reports), the audit log, HTTP encoding, parsing and validation of text,
  configuration: no state depends on them. Validation is modelled where it restricts what reaches
  the database (positive quantities, distinct products).
- Parties, contacts, creation of cash accounts and products: one row in one transaction, no protocol.
  UpdateParty replaces contacts and addresses by what the request brings, also addresses
  ListParties did not load; that is a question of the interface, not of state.
- The tree of categories (a cycle can be made by two updates; the tree is only read to be listed) and
  the base unit of a product under its stock (nothing compares quantities before and after).
- UpdateBusinessConfiguration and `requireModule`: modules are replaced by one DELETE and its INSERTs,
  and nothing else refers to them.
- In Sessions the check of the CSRF token, compared with that of the session row, is part of `Fail`;
  the status of users and businesses is never changed by the code and left out; two tabs that switch
  the business of their common session see each other's choice, as the code intends.
- The fallback numbers built from the clock, and sequences other than those of StockTx and Locations.
- `numeric` overflow: the services limit the digits of what they accept, and an overflow in the
  database is one more failing statement.
- Several locations and several businesses at once: the operations of one location never touch the
  rows of another, and every statement carries the business.

## 6. What is left

1. **Catalog**: acyclic categories under concurrent updates, the base unit of a product under its
   stock, deletion of units in use.
2. Membership composed with Sessions, so that the middleware of the one reads the roles of the other.
3. OrderPurchase against the deletion of the last line, as a property of its own.
4. Receipts of products whose tracking is switched, in Purchases.

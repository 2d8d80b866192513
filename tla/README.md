# Formal verification of the Mobile Shop Automation System

TLA+ models, TLC configurations and TLAPS proofs for this repository: a
NestJS/Prisma API over PostgreSQL that runs the stock, purchasing, sales,
returns, money services and cash drawer of a chain of phone shops, and the
pages that keep keys and drafts between their requests to it. Everything below `src/` in
the paths of `PROJECT.json` is this repository.

The models follow the services in `backend/src/modules`, the shared lifecycle
tables and arithmetic in `shared/src`, and the constraints and triggers of
`database/prisma/migrations`. The documentation was read for what the code
should do; no definition is translated from it.

## 1. The system

The backend is a stateless process; all state lives in PostgreSQL, and every
operation is one database transaction. Two facts shape everything that is hard:

* **Isolation is mixed.** Posting a sale or a return, opening and closing a
  cash session, and recording an external service are SERIALIZABLE. Everything
  else (drafts, holds, stock corrections, transfers, purchasing, expenses,
  demand, categories) is READ COMMITTED and relies on row locks, advisory locks
  and version checks.
* **Documents are idempotent by key.** A posting carries a client-chosen key; a
  unique index and a hash of the request decide whether a resent request is a
  replay or a misuse. Failures `P2002`/`P2034` go through a catch block that
  looks the key up again and retries at most twice.
* **The page decides what a repeat is.** A request that times out at the page
  goes on at the server. Whether its repeat carries the same key depends on the
  state of the page, on what was edited and which answers came meanwhile.

### Components

| Component | State | Operations | Interacts with | Hard behaviour | Correct when |
|---|---|---|---|---|---|
| Inventory (`inventory.service.ts`) | serialized units with a lifecycle state and a location; quantity batches (on hand, reserved); append-only movement ledger; locations | adjust, reserve, release, transfer, transition, transfer a unit, open/close a location | sales, returns and purchasing write units, batches and ledger rows of their own | long sequences of legal steps; reserved stock against every other use | the ledger replays to the stock; reserved stock is on hand; final states are final |
| Sales documents (`sales.service.ts`) | sales with lines, payments, receivables, ledger groups, receipts | create/replace draft, hold, cancel, post | locks units, batches, cash sessions, customers; allocates numbers | concurrent posting of shared units and shared credit; staff moving a unit at the same time | one owner per sold unit; books match documents |
| Sale posting protocol (`post`) | idempotency key, request hash, retry count | send, resend, retry | every other transaction | lost answers, serialization failures, deadlocks, stale versions | posting is atomic; answers are true; every request is answered |
| Returns (`returns.service.ts`) | return drafts and postings, refunds, credited receivables | create draft, post | restocks, settles, reverses ledger groups, sets the sale's status | pieces of one sale returned in any order; rounding | refunds add up to what was paid, exactly |
| Cash sessions (`cash.service.ts`) | sessions with float, expected and counted cash | open, close | sales, refunds, external services and expenses post to the open session | a movement that commits while a closing waits | one open session; closed sessions are final; the expectation misses nothing |
| External services (`external.service.ts`) | transactions with ledger legs, cash impact; key and fields in the page | record | cash sessions, reports | isolation; resent requests, late answers | recorded once, as sent; the reports match the books |
| Expenses | expenses with ledger legs | record | cash sessions | isolation | see cash sessions |
| Document numbers (`number-sequence.ts`) | one sequence row per document, branch and period | allocate | inside every posting | failure after taking a number; lock order | gapless and unique |
| Money (`money.ts`) | – | allocation by weights, proportional refund | sales, returns | integer rounding | shares sum to the whole |
| Purchasing (`purchasing.service.ts`) | orders, receipts, batches, payables | order lifecycle, goods receipt | creates units and stock, sets average cost | receipts racing edits, approval, closing and cancellation; resent receipts; rounding of the average | the status tells what came; goods come on approved terms; receipts add up; answers are true |
| Quick / bulk stock-in | – (writes purchasing and catalog rows); the batch key in the page | stock in, row by row | one purchasing transaction per row | batches resent while under way, edits and scans between | a row comes once; an ok row came as sent |
| Demand (`demand.service.ts`) | requests with lifecycle and group | create, update, transition, follow up, convert | a sale; the buying plan | the same request at two counters; changes prepared on a request that is closed meanwhile | repeats count once; closed requests rest |
| Pricing (`pricing.service.ts`) | versioned price entries | publish, supersede | drafts keep the price they were written with | stale price at posting | one current price |
| Catalog, customers | records with versions; the category tree | create, update, move, deactivate | referenced everywhere | two moves checked at the same time | the tree has no cycle |
| Authentication (`auth`) | users, sessions, rate-limit trackers in memory | log in, rotate, revoke, consume | guards every request | one timer for all trackers, eviction at capacity | a block lasts as long as it should; nothing stays for ever |
| Counter (`sell-workspace.tsx`) | basket, draft, review, key | review, confirm, hold | sales | overlapping reviews, lost answers | posts what was reviewed, once |
| Dashboard, other pages | read-only / form state | – | – | – | – |
| Database schema | CHECKs, unique and partial indexes, triggers | – | every write | constraints written before later features | – |

`PROJECT.json` repeats the components with their status, and lists the hazards
of this code one by one at their lines, with the properties that cover each.

## 2. Modules

```
Sums                   sums over finite sets, and SumProofs     reduce, SUM
StockStates            lifecycle table, movement signs          shared/src/enums.ts
   |
Inventory              stock operations and their ledger        inventory.service.ts
   |        \
   |         InventoryProofs    (TLAPS)
 Sales                 documents, stock, credit, books          sales.service.ts
   |
 Returns               drafts and postings of returns           returns.service.ts
   |        \
   |         ShopProofs         (TLAPS, over InventoryProofs and SumProofs, with the refinement)
 MCReturns             the shop as a whole

Trade          <=== Returns  (refinement)                       what a branch promises its customers

AtomicPosting  <=== SalePosting  (refinement)                   sales.service.ts, post
                       |
                    SalePostingProofs  (TLAPS, with the refinement)

AtomicDrawer   <===  CashDrawer  (refinement)                    cash.service.ts and others
                       |
                    CashDrawerProofs   (TLAPS, with the refinement)

AtomicReceiving  <===  Purchasing  (refinement)                  purchasing, quick-stock-in
                         |
                       PurchasingProofs  (TLAPS, with the refinement)

StockInBatch           bulk stock-in and its two pages          bulk-stock-in, stock/*-page.tsx
ExternalRecord         money services and their page            external, digital/*
Counter                the counter page against sales           pos/sell-workspace.tsx
   |
PageProofs             (TLAPS, over the three above)

Demand                 customer requests                        demand.service.ts
CategoryTree           categories and their trigger             catalog.service.ts, migration 0006
LoginLimits            the rate limit of logins                 auth-rate-limit.*
   |
ServiceProofs          (TLAPS, over the three above)

MCBackOffice           Inventory and the last six, side by side
```

Two grains of atomicity are used on purpose. `Inventory`, `Sales` and `Returns`
take one transaction as one step: they are about long sequences of operations
and about what documents, stock and books say of each other. `SalePosting`,
`CashDrawer`, `Purchasing`, `Demand` and `CategoryTree` split a transaction into its snapshot, lock requests, checks and
commit: they are about interleavings, and they hold little data.
`ExternalRecord`, `StockInBatch` and `Counter` put a page before a service: they
are about what is repeated after an uncertain answer, and under which key.
`SalePosting` is shown to implement `AtomicPosting`, whose `Post` is a single step: that is
what entitles `Sales` to make posting one step. In the same way `Purchasing`
implements `AtomicReceiving` and `CashDrawer` implements `AtomicDrawer`. At the
other end, the shop that `Inventory`, `Sales` and `Returns` make up implements
`Trade`, which knows no documents at all.

### StockStates

`SERIALIZED_STATE_TRANSITIONS`, `ON_HAND_STOCK_STATES` and
`MOVEMENT_ON_HAND_SIGN` are the tables of `enums.ts`.
`MovementTypeForTransition` is the private method of the same name. It may
return `"none"`: a transition that does not cross the on-hand line writes no row.

### Inventory

`unit` and `batch` are the rows of `serialized_units` and `stock_batches`;
`active` the flags of the locations. The ledger is not kept as a sequence of
rows but as what a reader obtains by replaying it: `unitReplay` (how often each
unit is on hand at each location) and `batchReplay` (on hand and reserved).
Each action adds its movement's sign there and changes the row separately, as
the code does with `writeMovement` and an `update`. Nothing in the model ties
the two together except the code's own choice of movement types, which is what
the replay invariants are about.

There is one quantity-tracked variant; batches of different variants never meet
in a query. Versions are left out of this module: each operation is one
locked, version-checked transaction, so its step is atomic. `MaxOnHand` bounds
receipts by correction. Units start `available` in some open location with the
one receipt row that purchasing wrote for them.

### Sales and Returns

`sale` holds status, hold flag and lines; a line of a unit follows the unit's
location (foreign key with cascade), so only the quantity line carries one.
`receivable` is one row per sale. `books` is the ledger, summed per account:
`CASH`, `AR`, `SALES`, `COGS`, `INVENTORY`; all immediate payment methods are
one account. Prices and costs are constants per item. `LineTotals` gives every
outcome of `allocateByIntegerWeights` that the weights permit. Draft creation
and posting are whole transactions: `PostSale` checks stock and credit, moves
stock, writes ledger rows, the receivable, the books and the status together;
`PostReturn` restocks, settles, reverses and sets the sale's status.

Database constraints appear where they can bite: the partial unique index on
active unit lines (`SaleBarred`), `guard_sale_line_draft` (`MayMove`) and the
two CHECKs of receivables (`ReceivableChecks`). A posting that a CHECK refuses
changes nothing but `faulted`, a history variable that remembers it. `returned`,
`refunded` and `paidOut` are the sums of posted return rows, which the code
obtains by a query.

### Trade

`Trade` is what all that is for, told from the other side of the counter. It has
no drafts, statuses, receivables, ledgers, batches or return documents: per sale
the agreed quantities and prices (`deal`), what the customer still has (`hold`)
and owes (`owes`), the goods free to be sold (`stock`) and the money taken
(`cash`). `Sell` hands over what nobody holds and nobody has reserved, for the
list price less one of the discounts, no line below nothing or above its list
price; what is not paid at once is within the credit limit. `TakeBack` gives
back the difference between what the customer was charged for what he had and is
charged for what he keeps (`Charge`, rounded once), first off his debt, then in
cash. `Supply` is everything that happens to the free stock otherwise. The
refinement mapping reads sold lines, lines less what came back, unreserved
stock, the account `CASH` and the balances of the receivables; drafts, holds,
cancellations and return drafts map to steps in which nobody notices anything.
Nothing else in the project says that the shares of a discount add up to it.

### AtomicPosting and SalePosting

`SalePosting` runs each delivery of a request through the stages of `post`:
`Begin` (snapshot, key lookup), `LockSale`, `LockUnit` once per unit in a fixed
order (`LockOrder` gives every unit its place in it), `CheckPolicy`, `TakeNumber` (advisory lock and sequence row), `Commit`,
and the catch block `Catch`. `SerializationFailure` may strike anywhere, and
`Lose` ends an attempt without the client learning anything; the client may
then send the same or another request, under the same or another key. `Edit`
and `Cancel` are the other writers of a draft. `ChangeUnit` and the four-step
unit transfer are staff, the latter locking the unit before the sales that list
it, the opposite order of a posting, so wait cycles do arise; `BreakDeadlock`
is the database's detector. PostgreSQL is modelled by contract and these
definitions are marked external in the map.

A failed attempt reaches the catch block with the code of its error. `P2034`
(serialization, deadlock) is retried twice; `P2002` (a unique index) is not, and
is answered `CONFLICT` unless the key turns out to be used. Two indexes can
raise it: that of the key, at `Commit`, and `sale_lines_active_serialized_unit_uq`
(`UnitBarred`), which the writes after the checks meet. A lock and the state
"available" are not enough to sell a unit once: `ChangeUnit` is
`transitionSerializedUnit`, which lets staff take a sold unit to inspection and
on to the shelf by hand. It is "away" between the two, the one state that stands
for all that are neither "available" nor "sold".

The request hash is modelled by comparing whole requests: two requests have the
same hash exactly when sale, version and payments agree.

### CashDrawer

Each worker serves one request in three steps (find the session on a snapshot,
obtain its row lock, commit). Movements are counted, one minor unit each, by
kind and session. `ClosingReads` is the serializable isolation between a
closing and a movement: a closing fails when a row it should have read was
added by a serializable transaction since its snapshot. Expenses run at READ
COMMITTED, are not protected by it, and are exactly what it omits; refunds are
not read by the formula at all. A movement that finds no session to post to is
refused and changes nothing, so it has no action.

`AtomicDrawer` has no requests, snapshots or locks: `Open`, `Post` and `Close`
are single steps on the state of their instant. An opening finds no session
open and takes today's or an earlier date, a movement goes to an open session,
and a closing settles on the float, the sales and the external services there
are. Of the expenses it may count fewer than there are, which is finding 3; the
abstract drawer says that this is the only thing a closing misses of what its
formula reads.

### Purchasing

`order` holds an order and its two lines (goods by quantity, devices), `receipt`
the goods receipt, its payable and the request hash by idempotency key, `unit`
the receipt that brought a device, `batch` quantity and average cost of the
goods, `price` the version of the variant that a quick stock-in reads and later
sets. Each worker serves one request. A receipt is three steps, in the order of
`createGoodsReceiptInTransaction`: `LookUpKey` (advisory lock of the key, the
recorded hash), `LockOrder` (row lock, status, remaining quantities, cost and
identities), `Post`. Posting is one step: `allocateNumber` locks the branch's
sequence row before anything is written and holds it to the commit, so two
postings of a branch do not overlap. Decisions and edits are `ReadStatus` and
`Write`, between which anything may happen; `UnchangedSince` is the guard of
their update. A quick stock-in looks its key up, reads the variant, and commits
order, receipt, payment and price together. `Abort` is every failure before a
commit. `agreed` is a history variable: the terms that were on the screen of
the person whose approval was accepted.

`AtomicReceiving` is what all that promises: it has no requests, locks, versions
or retries. `Approve` approves the terms of its own instant, `Decide` takes an
order where the status of that instant lets it go, `Receive` and `Buy` bring
goods, devices, receipt and payable at once, under a key nothing came under
before, within the quantities and on the approved terms. The refinement mapping
drops versions, requests and answers, and reads the stock as the quantity of the
batch. Only the refinement says that nothing else happens: that no row is
written halfway, and that an order which is not concerned stays as it is.

### Demand

A request (`ask`) is read in `StartCapture`, `StartUpdate`, `StartTransition`,
`StartFollowUp` or `StartConvert`, and written by `Finish` under the version
guard that all of them share. A capture of something missing holds the advisory
lock `captureLock` from before its lookup of repeats to the commit.
`captured` and `relabelled` are history variables for the exceptions of
`RepeatsCountOnce`.

### ExternalRecord, StockInBatch, Counter

Each has the page as one variable (`page`, `form`, `screen`) and the calls under
way as another. A call lives on at the server when the page gives up.
`ExternalRecord` has the serializable recording with its lookup, unique index,
catch block and retries; `StockInBatch` the loop over the rows, in which every
row commits alone under a key made of the batch's key and its place, and scans
whose answer changes the rows of a page that may have submitted meanwhile;
`Counter` the two requests of a review, whose answer replaces what the page
holds, and postings. What the pages do not keep, but a property needs to know,
is named as such: `dropped` (errands whose key was dropped before the outcome
was known), `doubtful` (rows of which the same is true), `overlapped` (baskets
that were in two reviews at once).

### CategoryTree

A move is `CheckMove` (the service's walk), `LockCategory` (the update finds the
row by its version), `WalkLocked` (the trigger takes the organization's advisory
lock and walks what is committed) and `CommitMove`. A walk is described by what
it finds: `Avoids(p, c)` says that some set without `c` is closed under parents
and holds `p`. That form needs no recursion and can be proved about.

### LoginLimits

`trackers` is the entry of every name, with the time left to it, and `timer` the
one clean-up that is scheduled. Time is relative, so it needs no bound. `Tick`
may pass while the timer is due: the event loop may be late. The `Map` keeps its
entries in the order of their insertion; the model leaves that order out. Of the
ordinary windows the oldest is one that ends first, since all are equally long;
in a store full of blocks any of them may be the oldest. `MakeRoom` and
`Consume` therefore give the set of what may result.

### Fault definitions

A definition with the comment "Fault:" is a plausible slip in the code it
stands before: a dropped check, a wrong sign, an early snapshot. It is used by
nothing. Substituting it for the definition it precedes makes the property
named in the `mutants` of `PROJECT.json` fail; this shows that the property
depends on the code and not only on the shape of the model.

## 3. Runs

| Run | Question | Properties | Bounds | Distinct states |
|---|---|---|---|---|
| `shop` | do stock, documents and books agree after any sequence of sales and returns, and is the customer treated as `Trade` says? | `TypeOK`, `SoldUnitHasOneOwner`, `RefundsTelescope`, `SaleStatusTellsReturns`, `BooksMatchDocuments`, `TradesFairly` | 1 unit, 1 accessory in quantities up to 2, 2 sales, 2 returns, discount 1, credit 0 or 1 | 163 535 |
| `resale` | can a returned unit be sold again? | `ReturnedUnitsCanBeSoldAgain` (violated) | as `shop` | |
| `credit_return` | does the database accept every settlement? | `SettlementsAccepted` (violated) | as `shop` | |
| `sale_posting` | is posting atomic under concurrency, and are its answers true? | `TypeOK`, `AnswersAreTrue`, `RefusalsAreFinal`, `InvoicesAreGapless`, `CreditWithinLimit`, `PostsAtomically` | 2 clients, 2 keys, 2 sales with a unit each, credit limit of one sale, one edit or unit change | 623 918 |
| `sale_posting_shared` | is a contended unit posted by one sale, whatever staff do to it? | `UnitsSoldOnce` | 2 clients, 2 keys, 2 sales of one unit, changes and moves of it up to version 4 | 340 396 |
| `sale_posting_live` | is every request answered? | `EveryRequestIsAnswered` | 2 clients, 1 key, 2 sales of one unit, one change or move | 40 443 |
| `cash_drawer` | is there one drawer, is a closing final, and does every request act at one instant? | `TypeOK`, `AtMostOneOpenSession`, `ClosedSessionsAreFinal`, `DrawerIsAtomic` | 2 requests at a time, 2 sessions, 2 cashiers, 2 movements, 2 days | 463 368 |
| `cash_expense_race` | does a closing see every movement? | `ClosingCountsEveryMovement` (violated) | as `cash_drawer` | |
| `cash_refunds` | does it see refunds? | `ClosingCountsRefunds` (violated) | as `cash_drawer` | |
| `back_office` | are seven components right, each on its own? | see below | see below | 839 172 |
| `purchasing` | do orders, receipts, stock and answers agree, whatever interleaves? | `StatusTellsReceipts`, `ReceiptsAddUp`, `TermsAsApproved`, `AnswersAreTrue`, `AverageWithinPrices`, `ReceivesAtomically` | 2 requests at a time, 2 orders, 2 keys, 1 device, 2 terms, 2 contents, edits up to version 2, 6 changes of orders, 1 issue, a mispriced receipt under way alone | 373 729 |
| `external_timeout` | is nothing recorded when the page says so? | `NothingRecordedIsTrue` (violated) | as `back_office` | |

`back_office` checks components that share no state in one run: the variable
`part` chooses one in the initial state, and every behaviour is a behaviour of
that one alone. Nothing is concluded about their interplay, because they have
none. Each has a bound of its own in the one configuration file:

| Part | Properties | Bounds |
|---|---|---|
| stock | `LedgersReplay` (of units and of the batch), `ReservedIsOnHand`, `LifecycleRespected` | 1 unit, 2 locations, at most 3 of a variant |
| demand | `RepeatsCountOnce`, `ClosedRequestsRest` | 2 requests, 2 customers, 2 members of staff, 1 sale, 2 changes of a request, 2 statuses, 2 outcomes |
| external | `RetriesRecordOnce`, `SavedAsSent`, `BooksMatchReports` | 2 errands, 2 entries (one of each direction), 2 keys, 2 calls, 1 retry |
| stock in | `RowsReceivedOnce`, `OkRowsAreReceived` | 2 rows of up to 2, 2 keys, 2 calls; calls overlap while they have one row |
| counter | `PostedAsReviewed`, `BasketSoldOnce` | 1 basket of 2 contents, 2 drafts, 2 reviews shown, 2 review calls, 2 postings; postings while no review is under way |
| catalog | `TreeIsAcyclic` | 3 categories, 2 editors, changes up to version 1 |
| login | `NothingOverstays`, `BlocksLastAsLong` | 2 addresses, 3 accounts, limit 2, window 4, capacity 3 |

`MCTypeOK` is the conjunction of the seven type invariants.

Why the bounds are enough to meet the interesting cases:

* stock visits all lifecycle states and all movement types; a quantity of 3
  allows a reservation, a transfer and a correction to compete.
* demand: two members of staff at one customer are what the lock is for; two
  changes let one close a request while another was begun before.
* external: two calls let a repeat overtake its first delivery, two entries of
  opposite direction give every sign, two errands let the fields change under a
  held key.
* stock in, counter: `MCBound` names what the run leaves out. Two deliveries
  that overlap have one row each, since every row has a key of its own
  (`ReceivedOnce` and `OkMeansReceived` of section 5 are proved without that
  bound), and
  postings run while no review is under way, since a posting that a review
  overtakes fails on the version as one that a finished review overtook does.
* catalog: two moves are needed for a cycle and the third category makes one
  that neither editor sees whole.
* login: three trackers fill the store, so a fourth evicts, with windows and
  blocks of different age among them; a window of 4 lets them differ.
* `purchasing`: a receipt races an edit, an approval, a cancellation or another
  receipt in pairs; one of the two terms has a device line and costs another
  price, so partial receipts, a double identity and two prices in one batch
  occur. A receipt may state the other term's cost and be refused for it; it
  then runs beside no other request (`MCBound`). Six changes of orders (`MCBound`) are the whole life of one that is
  drafted, edited, approved, received in two parts and closed, or the creation,
  approval and receipt of both.
* `shop`: two sales compete for one unit and one batch, two returns share one
  sale in pieces, and an accessory line of two at price 2 with a discount of 1
  costs 3, which does not divide by two. The constraint keeps the manual
  transitions to those between the shelf and inspection, locations open, and
  goods in one place at a time; `back_office` explores the rest.
* `sale_posting`: with separate carts both clients may post, so a credit limit
  of one sale and one invoice sequence are contended; two keys allow a reuse
  for another sale. One edit or one unit change is enough to make any one
  snapshot stale. `sale_posting_shared` has no constraint: version 4 of the
  unit lets it be sold, taken back, put on the shelf and asked for by the other
  sale, which the index then refuses. `sale_posting_live` uses no symmetry either, as
  liveness requires.
* `cash_drawer`: two requests are the smallest interleaving and every clash of
  the code is between two; two movements suffice to have one before the
  snapshot and one after.

Deadlock is checked in every run but `back_office` and `external_timeout`:
there, time and refusals aside, a part may come to rest when its bounded keys,
drafts or changes are used up, which is an end of the instance and not of the
system.

### Fairness

Only `sale_posting_live` assumes any: strong fairness of a client's
`ServerStep` and of `MoveStep`, weak fairness of `BreakDeadlock`. The process
runs whatever it started; PostgreSQL queues lock waiters, so a lock that is
released again and again is eventually granted; its detector breaks every wait
cycle. Nothing obliges a client to send, a member of staff to move a unit, or
a failure to happen or to stop happening: the retry bound in the code, not an
assumption on failures, makes postings end.

## 4. Findings

Each is a run in which TLC violates a sentence of the repository's own
documentation, comments or tests; `PROJECT.json` quotes them with lines.

1. **A returned handset can never be sold again** (`resale`). Posting sets
   `unit_sale_active`, nothing clears it, a trigger forbids clearing it, and the
   partial unique index admits one active line per unit. Rule 4 of `05_RULES.md`
   allows the resale, and the lifecycle table returns the unit to `available`.
2. **A credit sale cannot be returned while its receivable is open**
   (`credit_return`). The return decrements `balance_minor`; the CHECK demands
   `balance = amount - paid`, and the return does not touch `paid`. The unit
   test passes because its database is a mock.
3. **A cash expense can be missing from a closing** (`cash_expense_race`).
   Expenses are READ COMMITTED, so the serializable closing does not conflict
   with one that commits while the closing waits for the session row.
4. **Cash refunds are missing from every closing** (`cash_refunds`). The
   formula omits them; the API document lists them.

5. **A timeout is reported as "nothing was recorded"** (`external_timeout`).
   The request goes on at the server and commits. The page keeps its key, so
   pressing the button again is safe (`RetriesRecordOnce`); believing the
   message and entering the transaction elsewhere is not.

Other behaviours that no document rules out are modelled and not claimed as
findings:

* Two requests of `Demand` may be linked to one sale: `convert` looks for
  another request at READ COMMITTED and no unique index stands behind it.
* At the counter, Ctrl+Enter starts a second review while one is under way,
  where the button is disabled. Both save a draft of the same basket, and both
  drafts can be posted. `BasketSoldOnce` holds of all other baskets. The page
  says "Retry uses the same idempotency key, so an uncertain network response
  cannot create a duplicate sale." (`sell-workspace.tsx:1006`), which is true of
  the retries of one review: the drafts of two reviews have a key each.
* On the stock-in pages an edit drops the key, also when the outcome of the last
  submission is unknown: rows that were received are received again under the
  next key. `RowsReceivedOnce` holds of all other rows. The same is true of
  "Record another" and of reloading the page for external transactions.
* An order's cost cannot be corrected once it is approved, though the message of
  a receipt with another cost says to update and reapprove the order
  (`purchasing.service.ts:1772`): no transition leads back to draft.

One more consequence of the code no document speaks about is modelled and not
claimed as a finding: a session whose expected cash is negative cannot be
closed, because `safeInteger` has a minimum of 0.

## 5. Proofs

`InventoryProofs` proves with TLAPS, for any set of units and locations, any
quantities (positive integers) and any `MaxOnHand`, that `StockSpec` implies:

* `StockTypes`: the type invariant, which includes that no on-hand or reserved
  quantity goes below zero;
* `StockLedgers`: the ledgers of the units and of the batch replay to the stock;
* `ReservedStock`: reserved stock is on hand;
* `Lifecycle`: the action property, that every step obeys the lifecycle.

The only assumption is the one `Inventory` makes of its constants
(`QuantitiesAssumption`). `StockInvariant` carries the argument: the inductive
invariant `StockInv` is the conjunction of the types, the two replay
invariants and `ReservedIsOnHand`. They need each other. A correction out or a
transfer keeps the types only because reserved stock is on hand; a ledger row
keeps the replay equal to the row only if the movement type chosen for a
transition has the sign of the change of `OnHand`, which lemma
`TransitionMovementBalances` states once for the whole lifecycle table. One
lemma per operation shows that it preserves `StockInv`, and `StockStepInv` puts
them together.

`ShopProofs` proves about `Returns`, the composition of stock, sales and
returns, for any units, locations, sales, returns, prices, quantities,
discounts, credits and credit limit:

* `SoldUnits`: every unit marked sold is with exactly one customer;
* `ShopLedgers`, `ShopReservedStock`, `ShopLifecycle`: the ledgers, the
  reservations and the lifecycle hold although sales and returns write units,
  stock and ledger rows without going through the inventory service.

Its inductive invariant `ShopInv` adds to `StockInv` that documents are well
formed, that nothing came back of a sale that was not posted, that no unit is
on two sold sales (`OneSalePerUnit`) and that a sold unit has a sold sale it
did not come back from (`SoldUnitHasOwner`). `OneSalePerUnit` is what the
unique index on active unit lines provides. The index is also the cause of
finding 1; a repair that lets a returned unit be sold again has to weaken
`OneSalePerUnit` to lines that have not come back, and the theorem
`SoldUnits` says what it must still guarantee. Stock steps reuse
`StockStepInv`; `DocumentsKept` covers every step that sells and returns
nothing.

`CashDrawerProofs` proves, for any number of concurrent requests, sessions,
cashiers, days and movements, `OneOpenSession`, `ClosingsAreFinal`,
`IncomeIsCounted` and `CashTypes`. Its inductive invariant `CashInv` says how
the snapshot of a running transaction relates to the committed rows: what
waits for a row lock found the session open, what holds it still has an open
session (only the holder can close it), an opening saw no open session and
what it saw closed stays closed, and a closing saw no more expenses than there
are. The assumptions are those of `CashAssumption`.

`CashDeskIsAtomic` proves that `Spec` implies `DrawerIsAtomic`. `CommitOpen` maps
to `Open`: the opening's snapshot showed no open session, and what it saw
unopened is still so when it commits. `CommitMovement` maps to `Post`, because
whoever holds a session's row found it open under the lock. `CommitClose` maps
to `Close`: what it read of sales and services is what there is, of the expenses
it read no more than there are. The invariant is `CashInv` with `WhoAndWhen`: a
request that is about to open carries a cashier and a date that has come.

`ServiceProofs` proves `TreeStaysAcyclic` for any categories and any number
of editors. The inductive invariant `TreeInv` says who may stand between a walk
and its commit: at most one editor holds the advisory lock, whoever has walked
towards a parent holds it, and therefore what that walk avoided is still avoided
when the move commits. The proof is about closed sets instead of paths
(`Covers`), so it needs no induction on their length: a set closed under
parents that contains the moved category would, cut down to what the walk
covered, be a smaller closed set of the old tree (`MoveKeepsAcyclic`).

`PurchasingProofs` proves, for any orders, keys, devices, terms, contents, quick
purchases, prices and number of concurrent requests, under
`PurchasingAssumption` and `RequestAssumption`:

* `StatusTells`: the status of an order tells how much of it came;
* `ArrivesAsApproved`: goods come, and suppliers are owed, on approved terms;
* `AnswersTrue`: an answer "received" or "replay" means that exactly this
  request is recorded, "KEY_REUSED" that another one is;
* `AverageBounded`: the rounded average cost stays within the prices paid.

Its inductive invariant `PurchasingInv` adds the types and what a waiting
request may rely on: whoever is between lookup and commit holds the lock of its
key and the key is unused (`HoldsKey`), whoever is about to post holds the order
and what it checked still fits (`HoldsOrder`), and a decision that carries the
current version carries the current terms (`Decides`). The last is why the
version, and not only the status, has to be in the guard of the update.
`AverageBetween` is the arithmetic: rounding half up does not leave an interval
with integer ends.

`AddUp` adds to these that receipts add up: to their orders, to the batch, and
over the devices. Its invariant `ReceiptsInv` states the three sums, that there
are finitely many receipts (`Listed`) and that a device belongs to the receipt
that names it (`DevicesOnce`); it uses `PurchasingInv` for the fact that a key
which is about to be posted is in no sum yet.

`ReceivingIsAtomic` proves that `Spec` implies `ReceivesAtomically`. `Post` maps to
`Receive`, `PostQuick` to `Buy`, `Write` to `Edit`, `Approve` or `Decide`, and every
other step of a request leaves the orders, receipts, devices and stock alone.
Each mapping is what the locks and guards are for: `HoldsOrder` makes the
quantities fit at the commit, `Decides` makes the approved terms those of the
commit, `HoldsKey` and `Unwritten` (nothing is written under a key without a
receipt) make the key new. Identities are checked by no lock: the mapping needs
the unique index, which `IdentitiesFree` models.

### Sums

Books, reports and receipts are sums over sets that grow. `SumProofs` proves,
once, how `SumOver` behaves: it is 0 for the empty set, grows by one term
when an element is added, changes by the difference when one term changes, and
the sum of two functions is the sum of their sums; terms that are 0 may be left
out (`SumRestrict`), and a sum of zeros and ones is a cardinality (`SumCounts`).
The induction theorems of the library take an operator as a parameter; the proof
goes around them with a statement of first order, `SubsetInduction`: a family
of subsets of a finite set that contains the empty set, and every set whose
subsets by one element less it contains, contains all. A minimal subset outside
the family, which the well-foundedness of strict inclusion provides, would
contradict it. The same argument gives the definition by recursion that
the fold rests on.

### Money of the shop

On top of `ShopInv`, `MoneyInv` carries the theorems about what sales and
returns say of money, under the assumptions of `Inventory`, `Sales` (which
include that there are finitely many sales and items, as `SUM` over them needs)
and `Returns`:

* `ShopTyped`: no stock, line total, sale total, refunded line, paid refund or
  open balance is negative, and every account is an integer (debits less
  credits, so the account of the sales is negative);
* `RefundsExact`: no line refunds more than was paid for it, and a line that is
  all back has refunded it to the last minor unit (`RefundsTelescope`);
* `StatusTellsReturns`: the status tells how much came back
  (`SaleStatusTellsReturns`);
* `BooksAgree`: every account is the sum its documents give
  (`BooksMatchDocuments`);
* `ReceivablesLimited`: the receivables account never exceeds the credit limit,
  in whatever order credit sales and returns come.

`RefundsFloor` is the strengthening that makes refunds inductive: what a line
refunded so far is its total times what came back, divided by its quantity and
rounded down once, however many returns it took. That is what the difference
of two cumulative shares in `proportionalRefundMinor` achieves; a rounded
share per return does not. `NothingBeforePosting` says that a draft is in no
account, so that posting adds one term to each sum; `LinesKept` that a posted
sale has a line, without which its status would tell two things at once.

### The shop implements Trade

`ShopTradesFairly` proves that `Spec` implies `TradesFairly`, step by step:
`PostSale` is `Sell` (`PostSaleImplementsSell`), `PostReturn` is `TakeBack`
(`PostReturnImplementsTakeBack`), and every other step is `Supply` or unseen.
It needs one invariant more, `TermsInv`: every drafted sale has a unit at most
once, no line above its list price and the list price less one discount in sum
(`LinesPriced`), and nothing is owed on a receivable that does not say so
(`PaidOwesNothing`). `LinesPriced` rests on `SharesAddUp`: whatever lines the
remainder of `allocateByIntegerWeights` falls on, the shares of an amount add up
to it. The proof splits each share into its floor and 0 or 1, and counts the
ones with `SumCounts`. `RefundIsChargedLess` turns `RefundsFloor` into the
difference of two charges. That a unit sold was in nobody's hands is
`UnitsAreFree`: the unique index bars a second sale of it, whether or not it
came back.

### Posting a sale

`SalePostingProofs` proves about `SalePosting`, for any clients, keys, sales,
units, carts, lock order, credit limit and number of versions, under
`PostingAssumption` and `NotPostedAssumption`: `AnswersTrue`, `RefusalsFinal`,
`InvoicesGapless`, `CreditLimited`, `UnitsSoldByOneSale`, `PostingTyped`, and
the refinement `PostingIsAtomic`: every step of the protocol is a step of
`AtomicPosting` or leaves its variables alone, so `Spec` implies
`PostsAtomically`. The inductive invariant `PostingInv` says

* of the committed rows (`RowsOK`), that a key posts one sale, that no
  two posted sales share a unit and a unit marked sold has a posted sale
  (`OneSeller`), and that numbers are gapless and credit is within the limit;
* of an attempt (`AttemptOK`), that the sale it locked is still the draft of
  the version the client sent (`SaleHeld`), that its locked units are as its
  snapshot shows them and, past the checks, in no posted sale (`UnitsHeld`: who
  would post one of them meanwhile needs its lock), and that the credit it read is current
  unless a number was given out since (`SnapshotOK`, `CreditHeld`): every
  posting takes a number, so a sequence row that has not moved since the
  snapshot proves that nobody posted on credit. Without that link the
  credit limit is not inductive, because no lock covers a customer's debts;
* of a refusal (`Hopeless`), that the refused request cannot become the one
  that posted the sale: the sale left the draft state or has a newer version,
  or the key is another sale's. None of the three can be undone.

### The pages

`PageProofs` proves about `ExternalRecord`, for any errands, keys, entries,
fees, calls and number of retries, that an errand is recorded once
(`RecordedOnce`), that an answer tells what is recorded (`AnswersTellRows`) and
that the reports agree with the ledger (`ReportsMatchBooks`). Its invariant
`ExternalInv` relates the three places a key lives in: a row, a call under way
and the page. A key is live for an errand if it is used by a row of it or by a
call that may yet write one; an errand whose key was not dropped too early has
one live key (`ErrandOK`), and it is the held one as long as the
outcome is unknown, or a used one once it is known. `BooksInv` adds the four
sums over recorded rows.

About `Counter`, for any drafts, goods, number of baskets and of calls: a sale is
posted as it was reviewed (`ReviewIsPosted`) and a basket sold once
(`SoldOnce`). `Faithful` says that a draft somebody holds, at the version he
holds, is the draft in the table; that is why the version guard of posting is
enough for the first. The second needs `BasketsOK`: all tickets that are
or may become a sale of a basket are one ticket, the screen holds it or a
finished review does that is about to be shown, and two reviews under way mark
their basket as overlapped.

About `StockInBatch`, for any keys, deliveries and numbers of rows: a row is
received once (`ReceivedOnce`) and an answer "ok" means it was received as sent
(`OkMeansReceived`). The invariant `StockInInv` makes places and rows
one-to-one: a place of a key was sent with one row (`PlacesAreRows`), a row was
sent in one place (`RowsHaveOnePlace`), and while the page holds a key the rows
sent under it are still where they were (`HeldKeyHolds`). The last holds of a
scan that answers after a submission too, because it changes a quantity or
appends but never moves a row.

`doubtful`, `dropped` and `overlapped` are the exceptions in these theorems
as they are in the runs; section 4 names the behaviours behind them.

### Demand and login limits

`ServiceProofs` proves about `Demand`, for any requests, customers, sales and
members of staff, `CountedOnce` and the action property `ClosedRest`. By
`DemandInv` a capture under way of something missing holds its customer's
advisory lock, and if it is about to found a group, no countable request of the
customer exists (`CaptureOK`); an update under way is either out of date or
carries what may follow the row as it is (`ChangeOK`), which is what leaves a
closed request alone.

About `LoginLimits`, for any names, limit, window and capacity: `NoneOverstays`
and the action property `BlocksEndInTime`. `LimitsInv` contains the
first, and `CountsOK`: an entry that is not blocked has counted no more than the
limit. The type invariant admits one more, and from such a state an attempt
would count past the bound of the type.

### Assumptions

Every theorem rests on the named assumptions of the modules it speaks of, and
on nothing else; TLC evaluates them in the runs. They say that quantities,
prices and bounds are numbers, that the values for "none" are no members of the
sets they stand beside, and that the sets summed over are finite.

### Only model-checked, and why

* `EveryRequestIsAnswered`: liveness under fairness is outside the prover.
* `MCTypeOK` is the conjunction of seven type invariants, each of which is a
  theorem of its component (`StockTypes`, `DemandTyped`, `ExternalTyped`,
  `StockInTyped`, `CounterTyped`, `LimitsTyped`, `CategoryTypes`). The
  conjunction itself speaks of the instance that puts them side by side.
* The five properties that are violated, by their nature.

## 6. Not modelled, and why

* Suppliers, brands, products, variants, aliases, barcodes, customers, price
  lists: guarded single rows with unique names that touch nothing else; landed
  costs: an allocation by weights like the one `Sales` has.
* Passwords, user sessions and their rotation.
* Dashboard, reports, and the pages that keep nothing between requests: they
  change no state. They are most of the repository by lines (tables, drawers,
  forms, queries, response shapes and their schemas), which is why the map names
  only a small share of it: what is mapped is the code that decides something.
* Permissions, audit rows, receipts, warranty snapshots, discount and margin
  policy, return windows: they refuse requests or record facts, and no
  modelled property depends on which requests are refused.
* Several branches and customers: each model is of one branch. Posting a sale
  looks up sale, stock, cash session and accounts by branch, but not what the
  customer owes: `assertCredit` adds up his receivables over the organization
  (`sales.service.ts:2184`), while the sequence row that keeps two credit
  postings apart is one per branch. `CreditWithinLimit` therefore speaks of one
  customer who buys at one branch; between branches the limit rests on the
  database's detection of read-write conflicts alone, which the model has only
  as failures that may strike (`SerializationFailure`).

## 7. Plan

| Step | Module | Abstract promise | What it is for |
|---|---|---|---|
| done | `StockStates`, `Inventory`, `Sales`, `Returns` | books and ledger as functions of documents and stock | sequences of operations |
| done | `AtomicPosting`, `SalePosting` | a posting is one step | interleaving, failure, idempotency |
| done | `AtomicDrawer`, `CashDrawer` | one drawer, closings final, every request one step | isolation |
| done | `Trade` | what was free, at its price, back for what it cost | documents, books and settlements against what they are for |
| done | `InventoryProofs`, `ShopProofs`, `CashDrawerProofs` | | the stock, the owners of sold units, refunds and books, and the cash sessions for all constants |
| done | `AtomicReceiving`, `Purchasing`, `PurchasingProofs` | every decision and receipt is one step; an order's status tells its receipts | order lifecycle against concurrent receipts, average cost, quick stock-in |
| done | `ExternalRecord`, `StockInBatch`, `Counter` | an errand, a row, a basket once | pages that repeat after uncertain answers |
| done | `Demand` | repeats count once, closed requests rest | advisory lock and version guards at READ COMMITTED |
| done | `CategoryTree` | no cycle | a trigger's lock against concurrent moves |
| done | `LoginLimits` | blocks last, nothing overstays | one timer, eviction at capacity |
| done | `SumProofs` | sums over finite sets | books, reports, receipts |
| done | `SalePostingProofs` | the refinement of `AtomicPosting`, and every safety property of the protocol | what a transaction read under a lock is current |
| done | `PageProofs` | once, as reviewed, as sent, for all constants | keys and drafts of pages |
| done | `ServiceProofs` | no cycle; counted once; blocks last | advisory locks, version guards, one timer |
| open | `StockInBatch`, `Purchasing` | the batch receives rows by quick stock-ins that `Purchasing` takes apart; so far the two meet only in their contracts (`OkRowsAreReceived`, `AnswersAreTrue`) | the step `ServeRow` as an abstraction of a quick stock-in |

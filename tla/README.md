# TLA+ models of erp-next

erp-next is a multi-company ERP: a NestJS API over PostgreSQL (Prisma) and a
Next.js/React front end. The API's services are stateless; all durable state is
rows of the database, and what can go wrong between two users goes wrong
between two *transactions*, or between a row and the copy of it a browser
shows. This project models both: the transactions of every service that
writes, and the browser side where it decides something: sessions, the buttons
of documents, forms that are sent again, lists, and forms that edit what others
edit. The models are checked with TLC on small instances, and all their safety
properties but one are proved with TLAPS for every instance.

One company is modelled: every query of the services is scoped by `companyId`,
and no row is shared between companies.

## 1. Inventory of the system

Paths are below `src/apps/api/src/`, those of the web application below
`src/apps/web/`.

| Component | State | Operations | Interacts with | What is hard | What makes it correct |
|---|---|---|---|---|---|
| Inventory movements (`inventory/`) | `InventoryBalance`, `StockMovement` (unique idempotency key) | entry, exit, adjustment, transfer; entry points for counts, receipts, shipments; balances read in two statements | reservations, counts, catalogue status | SERIALIZABLE transactions with a retry loop, P2002 races, resent requests, crashes | reserved <= physical; balance = sum of movements; a key moves stock once; nothing moves under an open count |
| Sales orders (`sales-orders/`) | `SalesOrder`, items | create, update, confirm, cancel | releases reservations on cancel | update and confirm read, then write conditionally | only drafts are edited; statuses follow their path |
| Stock reservations (`stock-reservations/`) | `StockReservation`, `reservedQuantity` of items | reserve, release, ship | orders, balances, counts, movements | greedy allocation over locations; all or nothing | a RESERVED order is covered and stays shippable; ships once |
| Inventory counts (`inventory-counts/`) | `InventoryCount`, items | create, start, addItem, countItem, requestRecount, recountItem, approve, cancel | locks its warehouse; adjusts balances | countItem and recountItem lock nothing; approval applies many adjustments | snapshot = stock until decided; adjusted once; one open count per warehouse |
| Purchase orders (`purchase-orders/`) | `PurchaseOrder`, items | create, update, submit, approve, cancel | receipts | conditional transitions without lock | only drafts edited; status path |
| Purchase receipts (`purchase-receipts/`) | `PurchaseReceipt`, items, `receivedQuantity` | create | orders, stock entry | key and content hash, retry loop, partial receipts | order, receipts and stock agree; a key receives once |
| Finance (`finance/`) | `FinancialEntry`, `FinancialSettlement` | create, update, settle, cancel, cash flow | partners, documents | concurrent and resent settlements, reports of two statements | settled = sum of settlements; nothing paid twice or missed |
| Auth (`auth/`; `lib/api`, `features/auth`) | `RefreshToken`, `authVersion`; cookie, access token and promise of a tab | login, refresh, logout; status and role changes that end sessions; restore, 401 and retry, reload | users | rotation races, refresh shared by requests, lost answers, overlapping status changes | one live token per login; no token survives a deactivation; no endless skeleton |
| Users and roles (`users/`, `roles/`, `authorization/`) | `User`, `UserRole`, `Role`, `RolePermission` | create, status, replace roles, replace permissions, remove; the permissions guard | auth, each other | checks on rows read outside the transaction | an administrator remains; grants that change need a new login |
| Catalogue (`warehouses/`, `stock-locations/`, `products/`, `categories/`, `units/`, `customers/`, `suppliers/`) | one row each, `isActive`, main address | create, update, updateStatus | read by every document | checks across rows before the transaction | no active location in an inactive warehouse; one main address; type fits document; links to active rows |
| Lists and reports (every `findAll`, `analytics/`) | none | paged reads of two statements | reads everything | rows come between pages and statements; equal sort keys | every row is shown |
| Web: documents (detail pages of orders, counts, titles) | query cache, open dialog, pending mutations | draw steps, send, refetch | API, other users | a cached row others have moved on; refetches that overlap | what is refused for its status was stale, what is allowed is drawn, own work is seen |
| Web: keyed forms (movement, settlement, receipt) | idempotency key, typed content | submit, submit again, close, leave and enter again | API | where the key lives across failures and mounts | an event is recorded once from one mount of its page |
| Web: list pages | filter, pause, page, cache | type, turn, retry | API | late answers of old queries | what is drawn answers what is typed |
| Web: editing forms | typed fields, cached row | open, type, save, close | API, other users | rows that arrive while typing | nothing typed or saved by others is lost unseen |
| Infrastructure (`main.ts`, `common/`, `prisma/`, health), dashboards, navigation, formatting | none | - | - | - | - |

The hazards, each at its line and with the properties that cover it, are in
`PROJECT.json`; those that no property covers are in section 5.

## 2. Modules

| Module | What it is |
|---|---|
| `StockRules` | Commands, and the checks and effects of `InventoryService.executeTransaction` as operators: `Usable`, `Unlocked`, `Sufficient`, `Moved`, `Fits`. Every stock module extends it, as the services call one routine in the code. |
| `StockContract` | Abstract: what any service may do to physical stock, reserved stock and warehouses under inventory. |
| `Inventory` | Manual movements: idempotency keys, retry loop, conflicts, crashes, resends; the other services' movements at one cell. |
| `SalesFlow` | `SalesOrdersService` composed with `StockReservationsService`, beside movements and counts. |
| `InventoryCounts` | `InventoryCountsService`, beside movements, reservations and shipments. |
| `Purchasing` | `PurchaseOrdersService` composed with `PurchaseReceiptsService` and the stock they enter, beside movements and counts. |
| `Debts` | Abstract: debts that are issued, revised or voided while nothing was paid, and paid down by at most one payment per key. |
| `Finance` | `FinanceService`: titles, settlements with keys and retries, the cash flow report and the two notions of overdue. |
| `Sessions` | `AuthService` with its rows, `UsersService.updateStatus` and `replaceRoles` as far as they end sessions, the cookie, and `ApiClient` and `AuthProvider` of the tabs, with calls on their way between them. |
| `Accounts` | `UsersService`, `RolesService`, the guard and the tokens issued meanwhile. |
| `Warehouses`, `Partners`, `Products` | The catalogue services whose rows check each other: warehouses and locations; customers and suppliers with type, document and main address; products with category, unit and supplier. |
| `StockReads` | `findBalances`, `findBalance`, `findProductBalance` and the inventory reports beside the steps of `StockContract`. |
| `ListQueries` | The list endpoints and paged reports, read page after page while rows are written. |
| `DocumentSteps` | What the API accepts and the pages draw, per kind of document, status and permission, and what the API accepts and no page offers (`Unoffered`). |
| `DetailPages` | The detail page of a document of any kind in several tabs: cached row, fetches, mutations, dialogs; a request may be refused for status or permission, or declined for its data. |
| `Forms` | The three forms with a key, from the keyboard to the row, with pages that are left and mounted anew. |
| `Listings` | A list page of any of sixteen: filter, pause, query cache, pager. |
| `Editing` | A form of any of twelve that edits a record others edit too. |
| `Records` | Composition: `Accounts`, `Warehouses`, `Partners`, `Products`, `ListQueries`, `StockReads` and `Editing`, one of them in focus. |
| `Web` | Composition: `DetailPages`, `Forms` and `Listings`, one of them in focus. |
| `MC...` | Values of the constants for TLC, and scenarios. |
| `Basics_proofs` | Lemmas: sums over finite sets, and what the checks of the shared routine guarantee. |
| `Inventory_proofs`, `SalesFlow_proofs`, `InventoryCounts_proofs`, `Purchasing_proofs`, `Finance_proofs`, `Records_proofs` | Theorems of the module each extends (section 4). |
| `Web_proofs` | Theorems of `Web` and of `Sessions`: all that runs in the browser. |

`Inventory`, `SalesFlow`, `InventoryCounts` and `Purchasing` see each other only
through the rows they share; each is shown to implement `StockContract`, the
common promise, and `StockReads` reads beside any behaviour of that contract.
`Forms` and `DetailPages` treat a handler as one step: its inside is the
subject of the module of its service. `Listings` and `Editing` stand for
families of components written apart; a record of booleans says how each
component behaves (`Shape`, `Form`), and every run starts from any of them.
`Records` and `Web` compose modules that share no state: a behaviour moves the
one in focus, and the others rest in an initial state.

### Correspondence with the code

*State.* A variable is a column of a table (its comment names it), keyed by the
ids of the model; a request's control state (`pc`, `found`, `request`, `call`)
is what the JavaScript of one open HTTP request holds; in the browser it is
React state, a ref, or the React Query cache. `keyed` in `Inventory` is the
unique index on `(companyId, idempotencyKey)`; `ledger` is the signed sum of a
cell's movement rows, `exits`, `adjusted` and `entered` the same for the rows of
one order or count. Deleted: money where only its sum matters, texts, numbers of
documents, the audit log, and which user acts (except in `Accounts`,
`Sessions` and `DetailPages`).

*Actions.* An action is named after the method it translates. Its conjuncts
are the method's checks in their order and its writes. A call that is refused,
or that the code answers without changing anything, is no step; a refusal is a
step only where the handler's control state records it.

*Transactions.* What is one step and what is several follows the isolation
level and the locks of the code:

- SERIALIZABLE transactions (movements, reserve, release, ship, start,
  requestRecount, approve, cancel of a count, create, update and cancel of a
  title) appear as one step at
  the point where they commit: PostgreSQL commits them only if what they read
  is still what a serial execution would read. Movements
  with a key, receipts and settlements are nevertheless split, because their
  handlers see the difference: the lookup of the key happens in the snapshot,
  and the transaction can end in a commit, a refusal, a unique violation (P2002
  is raised against rows the snapshot does not show) or a serialization failure,
  which the raw `FOR UPDATE` queries report in a form that only inventory's
  loop recognises (`RawConflict`).
- Serializability only binds transactions that are all SERIALIZABLE. Every
  transaction that lowers a balance or raises a reservation is; the READ
  COMMITTED ones that touch stock data (cancel of a sales order) only lower
  reservations, and the status switches of the catalogue commute with the
  movements that read them.
- A READ COMMITTED write that commits while a SERIALIZABLE transaction of the
  same count runs is not detected by PostgreSQL unless both write one row (then
  the second waits, and the SERIALIZABLE one is aborted). The outcome is that of
  the SERIALIZABLE transaction acting at its snapshot and the other writing
  afterwards, so one step is still right: the late write is a later step.
- READ COMMITTED methods that lock the row they decide on first (cancel of a
  sales order, addItem) are one step.
- READ COMMITTED methods that read without a lock (update and confirm of a
  sales order, those and submit, approve and cancel of a purchase order,
  countItem, recountItem; partner updates) are split into the read (`Begin...`)
  and the write (`Commit...`); any number of other steps may come between.
  recountItem has a third step, since it writes its item, reads the other
  items and only then commits: its own row lock is `HeldByOther`.
- `create` of a count checks for another open count before its transaction;
  the partial unique index repeats the check at the write, so the guard of the
  action is the index (`OnlyOpenCount`). The index also guards the status that
  recountItem writes.

- Users, roles, warehouses, locations and products check rows *before* a
  transaction, however strict, and write what they decided: `Begin...` is the
  check, `Commit...` the transaction. In `Sessions` a deactivation is split in
  the same way, since what it read decides whether it raises `authVersion`
  (`users.service.ts:170`, `:185`); an activation raises nothing and a change of
  roles raises it whatever it read, so these are one step.
- A list is two statements, each with a snapshot of its own.

*Crashes and losses.* A crash loses the handler and rolls its transaction back
(`Crash`, `Rollback`); the database is durable. In the browser a call or its
answer may be lost (`Lose`, `Drop`, `Break`), and a page may be reloaded
(`Reload`) or left and entered again (`Revisit`, `Leave`); a form is then
mounted anew, with a new key, while its requests go on.

*History.* `missed` in `Sessions` (the deactivation in force raised no version)
and the `page` of requests and rows in `Forms` (the mount they were sent from)
are not in the code: they let properties name an exception. No step of
`Sessions` reads `missed`; in `Forms` the page of a request tells which
mutation observer it belongs to.

*The browser.* Everything that runs between two awaits is one step, as in the
event loop. React Query is modelled from how the code uses it
(`app/providers.tsx`: no retry, no refetch when a window gets the focus): a
query has at most one fetch under way, its answer replaces the cached row, a
failure leaves the cached row and marks the query, `invalidateQueries` after a
success drops the fetch under way for one that starts then, and an entered page
shows the cached row and fetches it anew.

## 3. Runs

Each passing run bundles several *scenarios* (or, where modules of different
components share a run, *focuses*); one is chosen in the initial state and
never changes, and `Within` of the MC module excludes what the others examine.
A property is thus checked in every scenario in which its subject moves. The
MC modules describe their scenarios in their first comment.

| Run (module) | Scenarios and bounds | States |
|---|---|---|
| `Inventory` (`MCInventory`) | keys: 2 requests that may share 1 key, 3 bodies, 2 sends each, 1 cell. stock: 1 request of 5 kinds beside every other service, 2 locations in 2 warehouses. Capacity 2 | 163 thousand |
| `Sales` (`MCSalesFlow`) | races: 1 order, 2 products, 2 warehouses, 2 overlapping clients. stock: 2 orders compete for 1 product in 2 locations, capacity 2 | 78 thousand |
| `Counts` (`MCInventoryCounts`) | waits: 1 count, 2 clerks, 2 locations, decided between the clerks' requests. ~waits: 2 counts, 1 clerk, 1 location, decided at any moment | 548 thousand |
| `Finance` (`MCFinance`) | keys: 2 titles, 2 settlements sent twice, with equal or different content under one key. books: 1 title of 1 to 3 units settled in parts, edited, cancelled, reported | 39 thousand |
| `Purchasing` (`MCPurchasing`) | races: an order of 2 products, 2 clients beside partial receipts. keys: 2 receipts sent twice. stock: receipts into 2 locations beside movements, a count, status changes | 79 thousand |
| `Sessions` (`MCSessions`) | refresh: 2 requests of one tab fail at once. account: restore, login, logout meanwhile. In both an administrator changes status and roles, one request after the other. overlap: restore and login beside 2 administrators whose requests overlap. loading: losses and reloads. tabs: 2 tabs, 1 cookie. 5 ids of tokens, 2 calls under way; in loading, tokens expire between calls | 353 thousand |
| `Records` (`MCRecords`) | accounts, overlap: 2 users, 2 roles, requests alone or of 2 clients, 1 login under way, authVersion up to 2. warehouses: 3 locations in 2 warehouses. partners, addresses: 2 customers, a supplier, 3 documents, 2 addresses. products: 1 product, 5 references. lists: 3 rows, 2 keys, pages of 1, 1 write during a walk. stock: 1 product in 2 locations of 1 warehouse. forms: 2 values, 3 moves, 1 change of another user, 1 more fetch | 465 thousand |
| `Web` (`MCWeb`) | steps: a document of any kind in 2 tabs of users with different grants, 1 change. work: 2 requests of one tab at once, 2 changes. forms: 2 events, equal or not, 2 clicks before the button is redrawn (settlements: 1, see section 5), 3 requests (movements: 2), 2 mounts. list: 2 filters, 2 pages, 3 moves, 1 change | 568 thousand |
| `InventoryRetries`, `CountsDecided`, `CountsTwice`, `AccountsLast` | Disagreements with the documentation, below | - |

The bounds are chosen so that each hazard occurs. Two requests make a race for
one key, the second send is the repetition after a lost answer. Two locations
make a transfer, a split allocation and two pending recounts possible; with
capacity 2 one order can be covered while the other is not, and a reservation
be smaller than the balance. Capacity stands for NUMERIC(18,4), so its overflow
(`Fits`) occurs as well. Five ids of tokens,
used again once nothing refers to them, cover the cookie, the tabs' tokens and
the old and new one of a call under way. Two mounts of a form give a page that
was left while its request was under way and the page after it; as events and
contents are alike, the first to be typed is always the same (`FirstIsAny`).
Two administrators make an activation between the read and the commit of a
deactivation. Three rows on pages of
one give a first, a middle and a last page and equal keys. A filter, its
predecessor and a late answer of each are two filters and three moves.

Symmetry is used in `Sales`, `Counts` and `Records` (clients, locations of a
warehouse, values: sets the modules treat alike) and never in a run with a
liveness property.

`waits` in `InventoryCounts` says whether a supervisor decides a count only
while no clerk's request on it is open. The code does not enforce it, so the
runs take both values; `SnapshotHolds`, `ApprovalSetsCounted`, `ReadyIsComplete`
and `AdjustedOnce` speak of counts decided that way, and `CountsDecided` and
`CountsTwice` show what happens otherwise.

Deadlock is checked in `Inventory`, `Sales` and `Counts`. The other systems may
really stop: titles are all cancelled, an order is received, both tabs are
signed out, the bounded moves of a user are used up.

### What the runs show

Several properties are conjunctions whose parts are named definitions, so that
a violation names the part.

*Stock.* `BalancesAreSound` (columns in range, each balance explained by its
rows), `ReservedWithinPhysical`, `LockedStockStays`, and `ImplementsContract`
in four modules. `KeysAreSound`: a key carries one movement; an answered
movement is the one asked for; a refused reuse is a reuse.

*Sales.* `LateWritesAreRefused`: the conditional writes of orders are enough in
place of locks. `ReservationsAreSound`: reservations are those of RESERVED
orders, cover them and can be shipped, so `RESERVED_STOCK_INCONSISTENCY` is
never thrown. `AllocationIsExact` compares the greedy loop with what is
available, `ShippedOnce` the exits with the order.

*Counts.* `SnapshotHolds`: the lock keeps the system quantity of each item equal
to the balance until the decision, which is what lets approval apply
differences; `ApprovalSetsCounted`; `CountsAreSound` (complete when ready,
adjusted once, one open count per warehouse, also when a late recount reopens
a decided one).

*Purchasing.* `ReceiptsAgree`: order, receipts, stock and status tell the same,
and what is pending can be received though a product was switched off.
`KeysAreSound`, `LateWritesAreRefused` as above.

*Finance.* `BooksAgree`: settled amounts are the sums of their rows, status and
amounts agree as the database constraint demands, the filter `overdue` and the
flag of a response say the same. `NothingIsMissed`: a report of two statements
may list money twice but misses none. `ImplementsLedger`: the whole implements
`Debts`, with paid, voided and still owed as the mapping.

*Sessions.* `TokensAreSound`: one live token per login, and none that serves
survives a deactivation, whatever logins, refreshes, status and role changes
overlap it, except in the race of section 5. `ToldIsOver`: a tab alone whose
calls are not lost is right when it says that the session is over, where one
administrator decides at a time. `LoadingEnds`: no skeleton stays.

*Records.* `AccountsAreSound`, `RecordsAreSound`, `WritesAreSound`: requests one
after the other keep an administrator, void the tokens of whom they deactivate,
keep active locations in active warehouses and types with documents;
overlapping ones still keep at most one main address and force a new login of
whose grants change. `ListsAreComplete`, `ShownStockIsReal`: what readers of
several statements may rely on. `FormsKeep`: a form holds what was typed or
what the page shows, its save takes back no change its page had shown, and
typed text stays where the form is built to keep it.

*Web.* `RefusedIsStale`: the API refuses a drawn step for the status of the row
or for a permission only if the row changed since. A step the services decline
for their data (too little stock, items not yet counted, a quantity above what
is open, a warehouse under inventory, an inactive customer or product) or for a
conflict is `declined`: no page could have known. `PagesAreTrue`: a page up to
date draws what its user may do, but the three steps of `Unoffered`, and a
count's page shows what it announces; `OwnWorkIsSeen`: a page comes to show, or
fails to load, what its own step made of the document. `FormsRecordOnce`: from one
mount of a receipt or settlement page an event has one row, and each event a
form says is done has a row. `ListsAnswer`; `TypedIsAnswered`: a list comes to
answer the filter typed last.

### Fairness

`SentIsAnswered` assumes weak fairness of each handler: Node runs its
continuations, and the database ends each statement by a result or an error.
No fairness is assumed of clients, other services, crashes or success: a
handler may meet a conflict in every attempt. `LoadingEnds` assumes that the
server and the network end each call (by an answer or a failure) and that a
tab's continuations run; `OwnWorkIsSeen` and `TypedIsAnswered` that fetches are
answered or fail, and that the timer of the pause fires (`WebFairness`, which
`MCSpec` of `MCWeb` takes over). Nobody is assumed to click, and nothing is
assumed of administrators.

### Disagreements with the documentation

1. `InventoryRetries`: the 409 after the retry loop of `execute` is
   unreachable; the third conflict escapes as a database error. (Settlements
   and receipts behave alike, and besides do not recognise the conflict their
   raw `FOR UPDATE` reports.)
2. `CountsDecided`: a countItem or recountItem begun before the decision
   writes to an approved or cancelled count, documented as immutable.
3. `CountsTwice`: a recount that commits after the approval sets the status
   back to READY_FOR_APPROVAL, and a second approval applies the adjustments
   again, although the documentation says the lock prevents a second approval.
4. `AccountsLast`: an activation beside a deactivation or a change of roles
   leaves no active administrator, which the documentation excludes.

## 4. Proofs

TLAPS checks the theorems of eight modules for every set of products,
locations, warehouses, orders, counts, titles, users, roles, partners, requests,
keys, filters, fields, clients, tabs and tokens, every capacity and every bound
on resends, rows, pages and requests under way. Every safety property that a
passing run checks is proved, except `ToldIsOver`.

Each inductive invariant was given to TLC on the run of its component before it
was proved. The proofs have one shape: the effect of an action is stated flat
(what its locals, its `LET`s and helpers amount to), a frame lemma carries the
parts it does not touch, one lemma per action keeps the invariant, and a last
step combines them with PTL.

### Assumptions

All are named `ASSUME`s that TLC evaluates in the runs. Besides the types of
the parameters: each location has a warehouse and there is one (`warehouseId`
is NOT NULL); null values are not members of the types they stand beside; the
capacity is a natural number; orders, locations and tokens are finite sets;
`CodeOrder` lists each location once, as an `orderBy` on the unique code does;
items of an order and bodies of receipts ask for something, amounts of titles
and settlements are positive (the DTOs demand it). `Records` assumes that users,
roles and the references of a product are finite sets, that permissions are
those the roles may hold, and what each module it composes assumes;
`Web` that its two tabs are two, and that forms and lists have at least one
content and one filter.

### `Basics_proofs`: lemmas

The services say "the sum of the rows of ..." and so do the models, by
`SumFunctionOnSet` of the community modules, which is a recursive function on
subsets. That the function exists, that the order of the elements does not
matter and that a sum changes with one summand (`SumChangesWithOne`), is
proved by induction on the size of the set. The library's induction theorems
take an operator and cannot be cited; induction is stated here for *sets*
instead (`NaturalsAreReached`, `SubsetsAreReached`: a set closed under the step
is everything) and follows from the well-foundedness of `<` by taking a least
counterexample.

Its second part says what the checks of `executeTransaction` guarantee
(`SufficientLeaves`, `MovedRespectsReservations`, `MovementIsLocal`) and is
cited wherever a service moves stock.

### `Inventory_proofs`

- `TypeCorrect`. That balances stay in `0..Capacity` is the part with content:
  it needs `Sufficient` for the lower end, `Fits` for the upper, and for
  shipments that the reservation is at least the quantity.
- `ReservationsAreCovered` (`ReservedWithinPhysical`), inductive relative to the
  types. `BalancesAreExplained`, by the stronger equality of two functions.
  `BalancesStaySound` bundles them as the run does.
- `KeysAreConsistent` and its corollaries `OneMovementPerKey`, `AnswersAreTrue`,
  `ReusesAreRefused`, `KeysKeepTheirPromise`. None of the three key properties is
  inductive alone: a handler that found a movement in its snapshot answers
  later, and one that met P2002 answers from the index. `KeyIndex` relates the
  index to what was posted and to what each handler holds; `KeyInvariant` is
  its conjunction with the three. All steps of a handler except a commit change
  only its own locals (`LocalKeeps`); `CommitKeepsKeys` is the one hard case.
- `InventoryKeepsContract`: every step is a step of the contract or leaves its
  variables alone; the mapping is the identity. `LockedStockIsFrozen` follows
  from the contract's steps alone (`ContractLocks`). `KeysNeverChange`.
- `ContractCoversReservations`: the contract by itself implies
  `ReservedWithinPhysical`, for any component that keeps it.

### `SalesFlow_proofs`

- The greedy allocation is a fold over `CodeOrder`. `LoopTurns` unfolds it turn
  by turn; `AllocationProgress` is its loop invariant: what was taken and what
  remains add up to the order, nothing beyond what is available is taken, and
  while something remains every location visited is exhausted. From it
  `AllocationFindsStock` (`AllocationIsExact`).
- `ReservationsAreKept`: rows exist only for RESERVED orders, lie in their
  warehouse, add up to the items, and the rows of a cell are covered by its
  balance. The last part needs sums over orders; a step changes the rows of one
  order, so it changes each sum by one summand. `ReservationsStaySound` follows:
  a RESERVED order can be shipped, whatever counts and movements ran meanwhile.
- `OrdersShipOnce`: `SHIPPED` is final and the rows of the moment are the order.
- `LateWritesChangeNothing`: not from an invariant but from the condition of
  each write, against the state in which it commits.
- `SalesFlowKeepsContract`: `reserved` is the sum of the rows.

### `InventoryCounts_proofs`

`CountsAreKept`. `FiguresAreTrue` (complete in the later statuses, snapshot
equal to the balance while locking, adjusted by the differences exactly once)
holds only where decisions wait for the clerks, so it is stated under `waits`,
and so is what a pending request may assume (`TimelyRequest`); one open count
per warehouse, items in their place and covered reservations hold always. A
recount that saw nothing pending must still be right when it commits: that is
the second part of `TimelyRequest`, kept because other recounts of the count
only add quantities. `CountsStaySound`, `SnapshotStays` and `ApprovalSetsIt`
follow; `CountsKeepContract` holds without `waits`.

### `Purchasing_proofs`

- Types alone are not inductive here: a received quantity fits its column only
  because it is within what was ordered. `OrdersAreKept` proves types together
  with `OrderInvariant`: items of an existing order ask for something, an open
  transition starts from a status its operation allows, the status follows from
  what is received, and what is received is the sum of the receipts.
  `ReceiptsStayTrue` follows, with the fact that what is pending would be
  accepted (`PendingIsAccepted`).
- `KeysKeepTheirPromise`: the invariant adds what a handler holds
  (`FoundIsRow`, `DuplicateHasRow`, `ReuseMetOther`) to the properties, as in
  `Inventory`, here over a growing sequence of rows.
- `LateWritesChangeNothing`, `PurchasingKeepsContract` (with nothing reserved).

### `Finance_proofs`

- `BooksStayTrue`: settled amounts are sums of their rows, and `StatusAgrees`
  needs that titles are for positive amounts. `KeysKeepTheirPromise` as above.
- `ReportsMissNothing`: between the two statements of a report what is settled
  *now* stands for what will be read (`ReportCovers`); settling moves money from
  the one to the other and never below what was asked.
- `FinanceKeepsLedger`: `Finance` implements `Debts`; a commit of a settlement is
  one payment, and key, rows and sum of the row sequence map to what was paid.

### `Records_proofs`

`RecordsInv` says that the module in focus is in its own invariant and the rest
in an initial state (`StepInFocus`); one lemma per focus does the work.

- *accounts.* `AccountsAreAlwaysSound` rests on the requests not overlapping: the
  one under way has counted the administrators as they still are (`AloneInv`), so
  a write that takes one away leaves one, by counting. *overlap.* `GrantsInv` makes no such
  assumption; whoever a change of roles or permissions concerns is written with
  a new `authVersion`, whether or not the grants read before are still so.
- *warehouses, partners.* The row a request checked is the row it writes.
  *addresses.* The delete and the insert of the main address are one
  transaction, so overlapping updates replace one another's. *products.* What a
  request checked is active while references rest.
- *lists.* A walk has seen exactly the rows that rank before its next page while
  nothing is written; while rows only come, a row of the beginning that was not
  seen is further on, because what comes can only push it there. The order of
  rows with equal keys is whatever the database makes of it at each statement,
  so ranks are counted, not computed.
- *stock.* A read holds the balances of cells nobody touched since it began, and
  where it holds less than there is, the stock rose (`ReadingIsTraced`); with
  `ReservedWithinPhysical` of the contract a negative difference needs an entry.
- *forms.* Each field is as typed or as the page showed it when it was filled,
  for every shape of form at once: the shape is a parameter of the invariant.

### `Web_proofs`

`WebInv` joins three invariants that hold side by side.

- `PagesAreAlwaysTrue` and `RefusalsAreStale` (`DocumentInv`). What a page shows
  or receives was the document, and with its present version is the document
  (`WasSaved`); what a dialog or request holds is a step that the API takes,
  unless the version has moved on (`Offered`). That the tables of the services
  and those of the pages agree, step by step and button by button, but for
  `Unoffered`, is `EveryKindIsSound`. An operation may be several rows of a
  table; a request is refused only if none of them fits, and one that fits but
  is declined leaves the row alone. The fetch under way brings the change that a waiting count
  will announce (`CountFits`). A version stays within its bound because each
  open request reserves the change it may make (`RoomForChanges`), by counting.
- `EventsAreAlwaysRecordedOnce` (`FormsInv`). Keys are never drawn twice, and a
  request under the key the page holds was sent from this mount (`Keyed`,
  `KeysFit`). Requests of one mount share a key only if they are of one event,
  and two of one event from one mount share it (`KeysAreEvents`): while the
  form waits for an event no other is typed, and once the event is done it is
  not typed again. Every row was sent (`RowsWereSent`), with its key, event and
  mount. For settlements one request of a mount waits at a time (`OneAtATime`),
  which needs that a click is redrawn before the next; for receipts there is no
  such condition, since a success of any of them mounts the page anew.
- `ListsAlwaysAnswer` (`ListingInv`). What is cached or under way for a query has
  the rows its page needs, and a page without an answer is asked at once.
- `SessionsAreKept` and `TokensStaySound`. For one live token per login, a
  rotation revokes the ancestor it read (a refresh that passed the checks carries
  a token, `ReadsCarryTokens`), and a login takes a label no token in use has,
  which exists because an id is free (by counting). For deactivation, nothing
  under way is fresh while the user is inactive and the deactivation was not
  missed (`InactiveIsStale`), so what a late login or refresh issues is outdated
  at once. A deactivation that read an active user raises the version
  (`RaiseKeeps`); one that read an inactive user finds him inactive, and all
  stale, or activated since, which is the exception. That tasks wait for calls
  that exist rests on `PromisesAreRefreshes`: a shared promise is cleared in the
  turn in which its call ends.

### Only model-checked

- Liveness (`SentIsAnswered`, `LoadingEnds`, `OwnWorkIsSeen`,
  `TypedIsAnswered`): fairness and ENABLED are beyond the prover.
- `ToldIsOver`: true of a single tab without losses in which requests do not
  overlap a logout and a new login (otherwise a late refresh of the old session
  may end the new one), and whose user's status is changed by one request after
  the other; the scenarios of `MCSessions` express that condition.
- That the operator definitions compute what the SQL and TypeScript compute:
  the correspondence of section 2 is by reading.

## 5. Known weak spots that no run covers

Met while modelling; a run would only repeat the assignment, or needs a bound
beyond TLC's reach.

- A deactivation increments `authVersion` only if the user it read before its
  transaction was active (`users.service.ts:170`, `:185`). If he was inactive
  and is activated before the transaction runs, he is deactivated and his tokens
  stay current: they serve again once he is activated, although a deactivation
  is documented to increment the version (`docs/02-requisitos.md:47`, `:50`).
  `DeactivationIsFinal` excepts just this race, and `ToldIsOver`, which fails in
  it as well (a refresh is refused that would succeed after the next
  activation), is not asked where status changes overlap.
- Overlapping requests (checked only one after the other, because they fail
  otherwise): an inactive user's login that read the user as active (`auth.service.ts:63`)
  beside two status changes; a location activated beside the deactivation of its
  warehouse; two partner updates that together separate type and document, or
  whose 409 names a document given up meanwhile; a category, unit or supplier
  switched off while a product is linked to it.
- Two last recounts committed together leave the count in RECOUNT_REQUIRED
  (`inventory-counts.service.ts:480`). Two updates of one sales order merge
  absent fields from what each read (`sales-orders.service.ts:219`), and confirm
  validates the items it read (`:291`).
- `serializable()` of the reservations does not retry a 40001 raised by the raw
  `FOR UPDATE` query (`stock-reservations.service.ts:448`).
- A logout overtaken by a refresh of the same cookie revokes the old token and
  leaves the new one (`auth.service.ts`, `api-client.ts`). Two tabs that refresh
  one cookie sign one of them out; so does a lost answer of a rotation.
- The movement form makes a new key at every submit
  (`movement-form-dialog.tsx:121`), so a movement whose answer was lost is
  posted again. The receipt and settlement pages draw a key per mount
  (`purchase-receipt-form-page.tsx:58`, `financial-entry-detail-page.tsx:66`): a
  user who misses the answer, leaves the page and enters the event again records
  it twice, although the idempotency of both is promised (`README.md:68`,
  `docs/03-arquitetura.md:89` of the repository). A receipt corrected after a
  lost success is refused until the page is mounted anew. A receipt's success
  that is heard after its page was left navigates away from whatever receipt
  page is open then.
- A settlement clicked twice before the button is redrawn, both answered: the
  second success clears what was typed since and renews a key already in use
  (`financial-entry-detail-page.tsx:86`), so an event sent under it and lost
  would be recorded again. The model would show it; `Web` keeps settlements to
  one click at a time.
- Steps the API takes and no page offers (`Unoffered`): requestRecount of a
  ready count without divergence, and recountItem of an item recounted before
  (`inventory-counts.service.ts:403`, `:456`), so a count left in
  RECOUNT_REQUIRED with nothing pending can be finished by the API only. A late
  click on "conclude" reaches a ready count as the request that reopens it,
  since both buttons send requestRecount.
- Available stock shown by the lists is read in two statements and may have
  been true at no moment; `ShownStockIsReal` says within which limits. Reports
  read rows, total and summary at once, so a row that comes may be skipped;
  most lists sort by a column with equal values and no tie-breaker, so pages may
  overlap.
- Lists: the finance list keeps rows and pager of the old filter while the new
  one loads, and the pager then turns the new one; a click in the pause of 350 ms
  starts the new search on page 2; an emptied page has no pager; reports offer no
  retry.
- Editing: dialogs of customers, suppliers, warehouses, locations and roles
  return, when closed, to the row they were submitted on, so that opening them
  again and saving takes back one's own save (`reverted`); sales order and title
  pages are filled once from the cached row; purchase order pages and dialogs
  lose what is typed when a changed row arrives; role and permission dialogs
  write whole sets and take back what others changed after they were opened.
- A supplier update with `address: null` fails (`suppliers.service.ts:129`).

## 6. Not modelled

Not modelled: the audit log, health, configuration, seed beyond the founder,
validation of DTOs, dashboards and summaries (arithmetic of the database),
navigation, formatting, creation-only and status dialogs of the web application
(single-row writes that no other step reads).

## 7. Running

    tlc -workers 2 -config Inventory.cfg MCInventory.tla
    tlapm Inventory_proofs.tla

`PROJECT.json` lists for each run its module, and for each property a mutation
of a definition (an operator `Fault...` placed before it) under which TLC finds
the property violated: a dropped guard, a missing reset, an ignored row.

# TLA+ verification of L2F-PRO

L2F-PRO is a Flask / Socket.IO server, with a browser front end, that the branches of a
retail chain use to replenish the shop floor from the warehouse. This directory holds its
formal model: TLA+ modules translated from the source, TLC configurations that check them on
small instances, and proofs that TLAPS checks for every value of the constants.

## 1. The system

One process (gunicorn, one worker, 16 threads) serves all branches from one PostgreSQL
database (SQLite in development). Requests run on pool threads; five daemon threads run beside
them (daily cleanup, image sync, catalog feed, EAN resolver, realtime cleanup). Devices of a
branch hold Socket.IO connections and reload their lists when told that something changed.

| part | state | operations | talks to |
|---|---|---|---|
| morning list, `backend/missing_floor.py` | `morning_sessions`, `missing_floor` | list, scan, tick, approve, manual add, clear, transfer to sales; list / resolve / clear missing floor | catalog (sizes), daily cleanup, realtime events |
| sales list, `backend/missing_warehouse.py` | `missing_warehouse` | list, scan sold, restock, mark missing, undo, clear, transfer to morning | morning list helpers, catalog, realtime events |
| daily cleanup, `backend/daily_cleanup.py` | throttle clock, guard lock | delete rows of past workdays | all operational tables, advisory locks |
| database layer, `database/db.py` | connection pool, slot semaphore, per-request list of connections | get, commit, rollback, close, SQL translation, migrations | every other part |
| realtime, `backend/realtime.py` | socket registry, branch index, summaries, counters | join, heartbeat, disconnect, force disconnect, cleanup, health | admin, auth, front end |
| catalog, `backend/barcodes.py` | `barcodes`, scales, `catalog_models` | normalise, resolve, autocreate, learn, CRUD, import | lists, catalog feed |
| catalog feed, `backend/catalog_sync.py` | `external_catalog_*`, `barcode_aliases` | feed pages, claim / finish EAN jobs, reconcile | external shop, catalog |
| image sync, `backend/product_image_sync.py` | `product_image_sync_jobs`, `product_images` | enqueue, claim, fetch, finish | external shop |
| locations, `backend/locations.py` | `warehouse_locations` | search, upsert, delete | catalog models |
| admin and auth, `backend/admin.py`, `auth.py`, `auth_utils.py` | `branches`, `admins`, `blocked_devices`, session cookies | login, block, delete branch, corrections | realtime, lists |
| front end, `templates/*.html`, `static/sw.js` | cards on screen, offline snapshot, caches | render, optimistic update, reload on events | every endpoint |
| migration, `scripts/migrate_sqlite_to_postgres.py` | - | one-off copy | both databases |

The hard parts are the ones where several of these meet: two devices and a transfer on the
same rows; handlers that take the per-branch advisory locks beside handlers that take none;
two clocks (midnight for the lists, 06:00 for the cleanup); a socket that joins while an
administrator blocks it; jobs claimed by a thread that dies; a pool that must never leak.

## 2. What makes each part correct

* **Lists.** A model is on at most one open card; a card has at least one size; what an approval
  says about the missing sizes is what the missing-floor list says afterwards; finished cards go
  when the last open card goes; a size that was found stays found; a complete card is closed in
  the end. A transfer moves everything it read, or nothing, and loses nothing that comes in between;
  where the code falls short of that, section 7 says so.
* **Pool.** Slots and connections are neither lost nor invented, a thread with a slot gets a
  connection, a caller is turned away only when all connections are out.
* **Realtime.** Who receives a branch's events is on the administrator's device list or about to
  be cut; entries of dead sockets disappear; a socket the server gave up on is cut; a block holds.
* **Catalog.** A job somebody works on is not offered again, a product is asked for a bounded
  number of times over any failures and restarts, a product marked 'synced' is found by its EAN,
  and the catalog ends up with what the site publishes although its writers write what they read
  before.
* **Screens.** Nothing that was never committed reaches a page, and a page that goes on reloading
  ends with what the database holds, whatever events were lost, late, out of order or answered by
  errors.
* **Waiting.** No set of threads waits for itself over the cleanup's guard, the pool's slots and
  the advisory locks, and whoever is inside the cleanup leaves it.
* **Access.** When the administrator blocks, limits or restores a branch, the sockets it has go, its
  list operations end, and every page ends with what the branch may do.

## 3. Modules

| module | models | extends / instances |
|---|---|---|
| `BranchLists` | morning list, missing-floor list, sales list, transfers, cleanup, the catalog as the lists see it | |
| `MCBranchLists` | model values and symmetry | `BranchLists` |
| `BranchListsProofs` | proofs about `BranchLists` | `BranchLists`, `TLAPS` |
| `BranchListsActions` | proofs of what a step of `BranchLists` may never do to the cards | `BranchListsProofs` |
| `Realtime` | sockets, registry, room, forced disconnections, the administrator's device operations | |
| `MCRealtime` | which device is behind which socket | `Realtime` |
| `RealtimeProofs` | proofs about `Realtime` | `Realtime`, `TLAPS` |
| `BoundedPool` | what the pool promises, abstractly | |
| `ConnPool` | semaphore, native pool, close, teardown | `BoundedPool` (as `Promise`) |
| `ConnPoolProofs` | proofs about `ConnPool`, and that it implements `BoundedPool` | `ConnPool`, `FiniteSetTheorems`, `TLAPS` |
| `BranchLocks` | jobs of the threads over the pool, the cleanup's guard and the advisory locks | `ConnPool` |
| `MCBranchLocks` | two requests and a background thread | `BranchLocks` |
| `BranchLocksProofs` | no circular wait; the jobs use the pool as `ConnPool` says | `BranchLocks`, `TLAPS` |
| `Screens` | commits, events, answers and loads of the sales list, and one page | |
| `MCScreens` | threads and loads | `Screens` |
| `ScreensProofs` | proofs about `Screens` | `Screens`, `TLAPS` |
| `Access` | the branch's access, sessions, pages, requests, over the sockets of `Realtime` | `Realtime` |
| `MCAccess` | one device with one socket | `Access` |
| `AccessProofs` | `Access` implements `Realtime`; its types | `Access`, `RealtimeProofs` |
| `JobQueue` | what a table of jobs promises its one worker, abstractly | |
| `Catalog` | barcodes, aliases, the two job tables, the feed, the EAN worker, the image worker, edits | `JobQueue` (as `ImageQueue` and `EanQueue`) |
| `MCCatalog` | model values | `Catalog` |
| `CatalogProofs` | proofs about `Catalog`, and that both job tables implement `JobQueue` | `Catalog`, `TLAPS` |

`PROJECT.json` maps every definition to the lines it translates.

### 3.1 BranchLists

| variable | in the code |
|---|---|
| `sessions` | rows of `morning_sessions`: model, `session_date` (`at`), `sizes_all`, `sizes_found`, `approved` |
| `floor` | active rows of `missing_floor`, a function of the variant because of the partial unique index on status 'missing' |
| `pending` | rows of `missing_warehouse` with status 'pending'; `nextId` is their identity sequence, which a rollback does not turn back |
| `catalog` | the sizes `barcodes` has for each model |
| `marking` | rows some `mark_missing` has read and not yet written |
| `tx` | the running transfer: the rows it still has to handle and its uncommitted writes |
| `now` | half days, even from 00:00 to 06:00 and odd from 06:00 to 24:00, so that midnight (`utils.today`) and 06:00 (`daily_cleanup`) are different boundaries |

Handlers that hold `pg_advisory_xact_lock(127836, branch)` or `(127837, branch)` from their
first query to their commit are one step; `Unlocked` (no transfer runs) is their guard, since a
transfer holds both locks. Handlers without a lock (the missing-floor list, restock, clear, the
administrator's corrections, `mark_missing`) stay enabled while a transfer runs and block only on
rows it has already changed (`tx.resolved`, `tx.inserted`). `tx.approved` keeps the cards a transfer
has completed, also when the day is reset behind them: no query reads it, the properties do. A row of
a model whose card was finished before is scanned like any other; `_upsert_session` returns nothing and
the row is deleted all the same (`MoveRow`). `mark_missing` reads and writes in
separate steps. Under READ COMMITTED the other queries of a transfer see what was committed
before each of them, which is what one step per row gives.

Assumptions: the server's local time is the time zone of the cleanup; no transfer lasts past a
half day; one branch stands for all, because every query carries `branch_id` and the shared
catalog may change at any step. The model is of the PostgreSQL deployment: SQLite has no advisory
locks and serves development. Quantities, locations, images, device ids and the texts of events
are left out; the emitted events are in `Screens`.

### 3.2 Realtime

`registry` is `_sid_to_conn` (and, for one branch, `_branch_to_sids`), `fresh` the entries whose
`last_seen` is inside the timeout, `room` the Socket.IO room, `doomed` the sockets some thread is
about to disconnect, `blocked` the rows of `blocked_devices`, `kicking` the requests that
committed but have not called `disconnect_single_device` yet. `handle_join_branch` is three
steps, because it reads the database before `_lock` and calls `join_room` after it. What python-socketio does
with rooms and disconnections is modelled from how realtime.py uses it: `join_room` on a socket that is gone fails,
`disconnect` on one that is gone does nothing. A page emits `join_branch` once per connection
(index.html:3928), and a reconnection is a new socket, so a socket joins once.

### 3.3 ConnPool

A thread goes out -> asking -> slot -> using -> closing -> closed (requests, until the teardown)
or out (workers). `slots` is the `BoundedSemaphore`, `used` psycopg2's own count: separate
variables, since `_release_postgres_connection` returns them one after the other. No function of
the source borrows a second connection while it holds one, so a thread has one connection at a
time. Two paths never close. `SetupFails` is an error between `getconn` and the `CompatConnection`
that would close it (db.py:381). In `LoseConn`, `_claim_job` (product_image_sync.py:100) and
`_claim_ean_product` (catalog_sync.py:345) call `rollback` before `close` in their handlers, and
on a broken connection that raises.

### 3.4 Catalog

`barcodes` and `alias` are the tables `barcodes` and `barcode_aliases`, `jobs` and `attempts` the
columns of `external_catalog_products`, `images` the status in `product_image_sync_jobs`, `site`
what itaybrands.co.il publishes. `task` is where each thread stands: a thread fetches a product
in one step, keeps the answer in `entry`, and writes in a later step, so anything may happen in
between. Each database transaction is one step; so `ReconcileEan` and `SyncedEan` are two and
`SyncImage` is one, as in the code. `Break` is an exception that a worker's inner handlers do not
name (a database error): the loop goes on, the job stays 'syncing'. `Restart` is a new process:
`_ean_worker` and `start_product_image_sync` take jobs back, and the seeding of catalog_models
gives every model with a barcode an image job. Entering the location of a model queues it, too
(`LocateModel`), so edits of the catalog are not the only ones. There is one process (Dockerfile:14), hence one
thread of each kind.

A product stands for its handle, its one variant and the image job of its model. An EAN is digits
only and a variant's code begins with its handle, so a code never is both, and an alias never
hides a canonical row. A feed page may come with or without EANs (`named`): the code handles
both, and it has an EAN worker because the feed leaves them out. Pages, rate limits, the colour
scale, downloaded files and the rows of product_images are left out.

`JobQueue` is what the code means by a queue in a table: the worker takes a pending job, which is
then its own until it settles it; others may offer a job that has no row or found nothing; a synced
or failed job stays so; a new process leaves no job taken. `Catalog` implements it twice, with the
status columns of the two tables, and with the product its worker is on (`Holder`), as mappings.

### 3.5 BranchLocks

`job` says what a thread works on, `todo` and `held` which advisory locks its transaction still
takes and has; the pool underneath is `ConnPool`, action for action. A handler's plan is one of
the sets of locks the code takes: none, the morning lock, the warehouse lock, or, for both
transfers (missing_floor.py:524, missing_warehouse.py:324), the morning lock and then the
warehouse lock of the same branch. `list_missing` and the worker at 06:00 enter the cleanup, whose
guard is a `threading.Lock` around the borrowing of a connection, the elector lock (127836, 600),
the reading of the branches with expired rows, and their morning, warehouse and location locks in
order. The elector lock is the morning lock of a branch with id 600, should there be one
(`Elector`). `NotBorrowed` is a busy pool or a failed connection, `Abort` a statement that fails:
the handlers' `finally`, or the teardown, decides what each leaves behind. Row locks are not in
the wait graph: deletions that take none of the advisory locks (`delete_branch`, imports, the
cleanup's deletes of rows another handler is changing) can run into a row deadlock, which
PostgreSQL ends by failing one statement; for a thread of the model that is `Abort`.

### 3.6 Screens

The sales list of one page. `pending` are the ids with status 'pending', `today` and `swept` the
last ids of an earlier day and of those the cleanup deleted; ids grow with time, so one number
tells the day of every row. A request thread commits in one step, which puts what it still owes
into `serving`, and sends its event and its answer in a later one (`Emit`): the code emits after
the commit and after the lock is released, so events of two threads reach the socket in either
order. `inbox` is the socket's FIFO queue, `loads` the GETs in flight (each reads the list in one
step and replaces the screen in another), `reply` the answer to the page's own request, `catchup`
`_realtimeNeedsCatchup`. `LoseItem` is a scan whose row is gone when it is read back: it fails
after its commit and tells nobody. Errors of the server empty the screen in two places: an answer that
is no list throws after `_whItems` was reset (`ErrorList`), and `clearMissingWh` resets it whatever the
answer to the clearing is (`ClearFails`). `Corrected` switches the administrator's corrections, which
emit nothing. Midnight and 06:00 are one moment here; `BranchLists` keeps them apart. Quantities
are left out, and so are the screens of the other lists: the morning cards are edited by events and
replaced by loads in the same way (index.html:4008), with a whole card in each event.

### 3.7 Access

`branch` is the row (blocked, limited to locations, deleted), `session` the devices whose cookie
names it, `page` what each shows, `answer` the access that the answer to its login or /me has read
and not yet delivered, `working` the devices with an admitted list operation, `using` the socket
a page holds, `holding` the devices whose page has a Socket.IO client, `told` the notices (`force_logout`,
`blocked_device`) on their way, `cutting` a change that is committed and has not yet called
`disconnect_branch_devices`. The server's sockets are those of `Realtime`, whose actions `Access`
composes with its own; a page may have given up a socket that the server still has. A page that has a
client may open a new socket whenever it has none: `initSocketIO` does, so do the client's own
reconnection, the 1.2 s timer (index.html:3952) and `ensureRealtimeConnected` on focus, visibility and
online, and a page that has logged out keeps its client and its branch, so it may join again.
`require_branch` checks that the branch exists and is not limited, with a connection of its own
and before the handler runs (`AdmitList`, `FinishList`); it does not look at the block, nor does
`join_branch`. The model starts with a server, so pages may be open from before. Left out: the
offline start, which shows kept locations and asks for nothing; creating and editing a branch and
its password, which change nobody's access.

## 4. Runs

| run | instance | shows |
|---|---|---|
| `lists_sizes` | 1 model, 2 sizes, one 06:00 and a midnight, 1 sales row, fairness | types, no empty card, one open card across dates, approvals settle the floor list, found sizes are kept over every write and the commit of a copy, a complete card is closed |
| `lists_models` | 2 models, 1 size, one half day, 2 sales rows | finished cards go with the last open card of another model, transfers lose nothing but what they reject |
| `lists_leftovers`, `lists_listed`, `lists_workday` | 2 models, 1 size, two 06:00s and a midnight, 2 sales rows | three statements of docstrings that the code does not keep (section 7) |
| `lists_rejected` | 2 models, 1 size, one half day, 2 sales rows | a fourth: a transfer deletes the rows of finished models (section 7) |
| `realtime_block` | 1 device, 2 sockets, fairness | a block may not take effect (section 7) |
| `access` | 1 device, 1 socket, any access at the start, fairness | types of `Realtime` and `Access`, the room is covered, no socket given up on is forgotten and each is cut, ghosts leave, sockets registered at a change of access go, list operations of a limited branch end, pages follow the branch's access |
| `locks` | 2 requests, 1 background thread, 2 connections, branches 1 and 600, fairness | the pool's four properties, types of the locks, no circular wait, the guard is let go |
| `screens` | the page's thread and another, 1 row, the sync and one more load, 2 events in flight, fairness | types, nothing uncommitted is shown, the screen converges |
| `catalog` | 1 product, 1 EAN, 2 variants, 2 attempts, 2 edits, fairness | jobs are claimed once and boundedly, both tables are job queues, a synced product is found by its EAN, the catalog follows the site |
| `catalog_eans` | the same, 1 edit | EANs of synced products are not corrected (section 7) |

Why the bounds are enough. *Lists*: the invariants relate two cards of a model, a card and a
variant, or the cards of two models, so two models or two sizes show a violation; both at once
only multiply the states. `MaxTime` counts boundaries: 0 is one half
day, 2 is one 06:00 and a midnight, 3 adds the next 06:00, so there are cards of two dates and rows
of the running and of the past workday. What `lists_models` asks does not depend on the clock, which
stands still while a transfer runs; its two rows let one be added while the other is moved. `MaxId` bounds the sales rows ever created; two, in the runs of section 7,
let one row be left from yesterday while another is created.
*Realtime* is checked beneath `Access`: its races are between one socket's join and one request of the
administrator, so one socket has them all; the theorems `RoomIsCovered` and `GivenUpSocketsAreDoomed`
hold for any number of devices and sockets, and `realtime_block` has a second socket of the device. *Catalog*: a product's rows are touched by its own feed page, its own
jobs and edits of it, so one product with three threads on it has every order of their reads and
writes; two edits give a change after a change was read. Products meet only where they share an
EAN, which `SyncedIsFound` leaves out, and in the queues, where the types, `OneClaim` and both refinements
are proved for any number. *Locks*: the shortest circle there could be is two threads over two
resources; three threads, of which two may be transfers and one the cleanup, wait for each other
over slots, guard and locks in every combination, with and without the elector lock being a
branch's; `NoDeadlock` holds for any number. Two connections for three threads give waiting,
failing and turning away, with one connection lost to `LoseConn` or `SetupFails`; with a second loss
the pool is empty for good.
*Screens*: a screen is right row by row, and what goes wrong with one row is an event, an answer
and a list about it that arrive in the wrong order: two threads, two loads and two queued events
give each order. *Access*: devices meet only in the branch's row, which changes at any step, so one
device stands for all; one socket gives every overlap of a join with a change of access, since a page
holds one at a time. Deadlock is checked in every run.

## 5. Fairness

* `BranchLists`: `WF(TransferStep)`: a transfer is a loop over rows and ends in a commit or an
  error, whatever happens around it. `SF(GetSessions)` is an assumption on use, not a property of
  the server: no timer reloads the list (index.html:3775), devices do on entry, on return to the
  foreground, on reconnection, on the refresh button and after a transfer. It is strong because
  the request waits for the branch's advisory lock, which PostgreSQL grants in order, while
  transfers keep taking it.
* `Realtime`: the threads of a join, of an administrator's request and of a forced disconnection
  run on, the sweep comes every 30 seconds, and a socket that is gone sends no heartbeats, so its
  entry becomes stale. Nothing is assumed of clients and administrators.
* `Access`: the same of the sockets beneath it (`SweepSockets`, `CarryOut`, `Register \/ EnterRoom`,
  `GoStale` of a dead socket), and a request that changes access, an answer, a list operation and a
  forced disconnection end (`CutBranch \/ FindGone`, `Enter \/ LoseAnswer`, `FinishList`, `Cut`). That people load their
  page anew from time to time is an assumption on use, so it is no part of `FairAccess`:
  `PagesFollowAccess` states it as its premise (`WF(Reload)`), since nothing pushes a block to a page
  that is not connected; `ConnectedAreCut` and `LimitTakesHold` hold without it.
* `BranchLocks`: a thread that can go on does; a waiter for a slot gets one or is turned away when
  its five seconds are over (`WF(Borrow \/ NotBorrowed \/ ...)`); an advisory lock is granted in the
  order it was asked for, so a thread that waits for one is not passed over for ever (`SF(TakeLock)`).
  Who gets the guard of the cleanup next is promised to nobody: Python's lock is not fair.
* `Screens`: threads send what they owe and browsers deliver what arrives. That the page goes on
  reloading (`SF(Refresh \/ Foreground)`, and reads and shows of loads) is an assumption on use: no
  timer of a connected page reloads. That errors come to an end (`ErrorsEnd`) is the premise of
  `ScreenConverges`: each of them empties the screen. The property says that a load read early cannot be
  the last word; it says nothing of the time before the next load. Without reloads a row that another device picked between the first
  load and the entry into the room stays on the screen (index.html:3838 clears the catch-up flag).
* `Catalog`: `SF(FetchPage(p, ...))` and `SF(ImportPage(p))`: the feed comes every night, so a
  product that stays on the site is read, and its page imported, on some later night, although a
  night may fail. Nothing is assumed of the EAN worker, the image worker, people or restarts.

## 6. Proofs

Checked by TLAPS for every value of the constants that meets the named assumptions
(`ConstantsAssumption`, `OwnerAssumption`, `PoolAssumption`, `LocksAssumption`,
`AccessAssumption`, `CatalogAssumption`).

* `BranchListsProofs`. `IInv` is `TypeOK /\ OneOpenSession`: the uniqueness of the open card is
  needed for the types already, since `Target` chooses the newest open card and has one to
  choose only if timestamps are numbers and the card exists. `OneOpenSession` speaks of the
  committed rows and of the working copy of a transfer; the second half is what makes the commit
  keep the first. One lemma per helper says what it returns, one per group of handlers that
  `IInv` survives. Theorems `TypeCorrect`, `OneOpenCard`, and, relative to `IInv`,
  `CardsHaveSizes`: every rewrite of a card goes through `SessionSizes` with at least one size.
* `BranchListsActions`. The four action properties, from `IInv`, one lemma per handler.
  `FoundSizesKept` compares the open card of a model before and after every step: a handler rewrites one
  card and leaves the others (`OthersStay`), or, like a list request, all of them one by one; a scan
  adds to the found sizes (`UpsertKeepsFound`), and only an untick and the normalisation by the catalog
  drop any. The commit of a transfer to the morning list writes a copy taken many steps before; that it
  loses no tick needs the invariant `CopyKeepsFound`: no handler without the lock touches the cards, and
  the copy's open card of a model has what the committed one has, unless the transfer completed that
  model (`ScanOfCopy`, `MoveRowKeepsFound`, `NextCopyKeepsFound`). `ApprovalSettles`: whoever closes a
  card, or approves a closed one again, does so with the same two updates of the missing-floor list,
  which resolve what was found and add what is missing (`ResolveAt`, `AddMissingAt`), and the size list the property speaks of, read with
  the catalog after the step, is the one the handler used (`SizesGrow`). `DayStaysClear` needs an
  invariant of its own: a transfer to the morning list writes back the copy of the cards it works on,
  so the copy must not have finished cards only unless the cards had (`CopyNotDone`); then a look at
  each writer suffices. `TransferLosesNothing` follows a variant from list to list: to be moved,
  inserted, committed. It needs `TxShape`, that a transfer fills the fields of its own direction only
  (rows left in the other fields would be forgotten at the commit). A scan leaves the variant on the
  model's open card, or on the card it has completed, or the model is one the scan rejects (`Rejects`),
  which is the exception the property names. Theorems `FoundSizesStay`, `ClosedCardsSettled`,
  `DayIsCleared`, `TransfersLoseNothing`.
* `RealtimeProofs`. `RoomCovered` is not inductive: a socket that is registered but not in the
  room yet may be kicked, and enters the room afterwards. `GivenUpIsDoomed`, the safety half of
  `GivenUpIsCut`, covers that socket; `IInv` adds that the room holds live sockets only
  (`RoomLive`), and that a socket that never connected has not joined (`NewUnjoined`), or it could
  connect as one that was refused. Theorems `TypeCorrect`, `RoomIsCovered`,
  `GivenUpSocketsAreDoomed`.
* `ConnPoolProofs`. `SlotsAccounted` counts the threads that hold a slot; with the count of
  borrowed native connections it is inductive, and `NeverExhausted` follows because a thread
  with a slot and no connection makes the first count larger than the second. Theorems
  `TypeCorrect`, `SlotsAreAccounted`, `PoolNeverExhausted`, and `Refinement`: every step of
  `ConnPool` is a step of `BoundedPool` or a stutter under `holding <- Holding`.
* `CatalogProofs`. `TypeOK` is not inductive: a worker fetches the product it is on, which needs
  to be one (`Occupied`). `OneClaim` holds because the queue operators leave a 'syncing' status
  alone (`QueueingKeepsClaims`) and every end of a task frees the worker. Theorems `TypeCorrect`,
  with the bound on attempts, and `ClaimsAreExclusive`. `SyncedProductsAreFound` needs more: between
  `ReconcileEan` and `SyncedEan` the rows are there and the status is not, and every thread writes
  what it read. `EInv` adds that, until somebody edits, a thread has read what the site still says
  (`ReadNow`) and a product whose EAN is its own is found from its reconciliation on; one lemma says
  that a reconciliation finds its product, another that it loses no other.
  `ImageJobsAreQueued` and `EanJobsAreQueued` are the refinements of `JobQueue`: queueing a model is
  an offer or nothing (`QueueingOffers`), and a worker that ends a task settles, or abandons, the
  job it holds (`HolderWorks`, `HolderQuits`).

* `BranchLocksProofs`. `LInv` says what a handler and a cleanup may have and still want (`Plan`),
  where in the pool a thread with locks is (`Place`), that locks are exclusive and that one thread
  is inside the guard. `NoDeadlock` argues from a set `D` that waits for itself: a thread that waits
  for the guard leads to the one inside, one that waits for a slot to a thread with a connection,
  so some thread of `D` with a connection waits for an advisory lock. A handler that has a lock and
  waits has its morning lock and wants the warehouse lock of the same branch; no handler with a
  warehouse lock waits, so the cleanup has it; and a cleanup with a warehouse lock wants no morning
  lock any more. Theorems `NoDeadlock`, `LocksTypeCorrect` and `UsesPool` (`LocksSpec => Spec` of
  `ConnPool`), by which the pool's theorems hold beneath the locks.
* `ScreensProofs`. `TypeOK /\ OnlyCommittedShown` is inductive: a step that hands out an id raises
  `lastId` first, and every message and list is built from ids at most `lastId`. Theorems
  `TypeCorrect`, `NothingUncommitted`.
* `AccessProofs`. Every step of `Access` is a step of `Realtime` or leaves the registry alone, so
  `UsesRegistry` (`AccessSpec => Spec` of `Realtime`) carries `RoomCovered`
  and `GivenUpIsDoomed` over (`AccessCoversRoom`, `AccessForgetsNone`). `AccessTypeOK` says that a live socket whose page is told to log out is about
  to be cut; it is not inductive, since a told socket could still be one that has yet to connect, so
  `AInv` adds `Connected`, which in turn needs `NewUnjoined` of `RealtimeProofs`. Theorem
  `AccessTypeCorrect`.

Every safety property the runs check is proved. Model-checked only: liveness (`CompleteCardCloses`,
`GhostsLeave`, `GivenUpIsCut`, `GuardLetGo`, `ScreenConverges`, `CatalogFollowsSite`,
`ConnectedAreCut`, `LimitTakesHold`, `PagesFollowAccess`), since the prover cannot reason about the
`ENABLED` in a fairness condition.

## 7. Where code and words differ

| run | the source says | the code does |
|---|---|---|
| `lists_leftovers` | missing_floor.py:138, finished cards are cleared once no open work is left | the transfer to the sales list takes the last open card and clears nothing |
| `lists_rejected` | missing_warehouse.py:283, every pending sales variant moves through the morning workflow (index.html:7338 tells the user so, too) | the row of a model that is finished for the day is put on no card, counted and deleted |
| `lists_listed` | missing_floor.py:470, scanned variants move into the pending list | a pending row of yesterday, which no list shows, swallows them |
| `lists_workday` | daily_cleanup.py:47, the workday runs from 06:00 to 06:00 | a scan after midnight drops rows of the running workday |
| `realtime_block` | index.html:3966, a blocked device cannot connect | a join that overlaps the block stays connected |
| `catalog_eans` | catalog_sync.py:3, existing EAN mappings are corrected | a product that is 'synced' is not asked for its EANs again, whatever the site or an administrator changes |

The other half of the two clocks, cards finished between 00:00 and 06:00 that outlive their
workday in the cleanup (daily_cleanup.py:114), is in the model and would violate the same
property; it is listed as a hazard.

## 8. Not modelled, and what would come next

Worth a module of its own, in this order:

1. The imports (barcodes.py:824): an exception that is swallowed in a transaction of PostgreSQL.
2. Normalisation, the search for a code without its leading digit, and the colour and size scales,
   with the restoration of sizes at each start (db.py:635), as operators checked against a
   reference definition over small alphabets.
3. `Catalog` with the lost requeue (a model queued again while its image job is 'syncing') and with
   an EAN worker whose first transaction fails.

Not modelled, because they are single reads and writes or have no state of interest: accounts of
administrators and passwords, warehouse locations beyond their lock, product images for display,
health statistics, rendering, the service worker, SQL translation and the migration script, and the
SQLite deployment, which serves development.

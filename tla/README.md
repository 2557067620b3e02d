# A TLA+ model of hcData

hcData (a fork of dcrdata) follows a full node over JSON-RPC, keeps what it
learns in several databases and serves it to browsers and API clients.  This
directory holds TLA+ modules that model the parts of it whose correctness
depends on order, interleaving, crashes or failures, the TLC configurations that
check them on small instances, and TLAPS proofs of the central invariants.

`PROJECT.json` lists the components, the runs, the mutants (a plausible bug for
each checked property, which TLC must find), the lines each definition models,
the findings, the hazards and the theorems.  Paths in this document are relative
to `src/`.

## 1. The system

```
            full node (dcrd / hcd), JSON-RPC and websocket notifications
               |                 |                              |
       startup: two sync loops   | blockconnected, reorganization, txaccepted
               |                 v                              v
     rpcutils.BlockGate    notification.superQueue        mempool monitor
        |         |              |   one event at a time        |
        v         v              v                              v
   dcrpg      dcrsqlite    collection queue: stakedb, then   MempoolDataCache,
  (postgres)   + stakedb   blockdata collector -> savers     explorer, socket.io
        \         /        (dcrpg, dcrsqlite, explorer,         |
         \       /          insight, APICache, ...)             v
          API and explorer handlers <------------------  websocket hub
```

### 1.1 Components, their state and operations

* **Ticket pool** (`v4/stakedb/ticketpool.go`). A slice of per-block diffs
  (tickets in and out), a cursor, the pool map at the cursor, and a badger DB of
  the diffs keyed by height. Operations: `Append`, `AppendAndAdvancePool`,
  `Trim`, `Pool(height)`, `AdvanceToTip`, load at start. Readers share the
  cursor with the writer.
* **Stake database** (`v4/stakedb/stakedb.go`). The best stake node with its
  ffldb store, the ticket pool, the cache of live ticket values, the cache of
  pool infos, the height waiters. `ConnectBlock` writes to two stores one after
  the other; `NewStakeDatabase` and `LoadAndRecover` reconcile them.
* **Block gate** (`v4/rpcutils/blockgate.go`). A cache of the last blocks that
  one loop fetches and the other waits for, with waiter channels per height and
  per hash that goroutines signal.
* **Coordinated sync** (`v4/db/dcrpg/sync.go`, `v4/db/dcrsqlite/sync.go`,
  `main.go`). The postgres loop fetches a block, the SQLite/stakedb loop connects
  it, the postgres loop waits for that and stores it; `waitForSync` collects both
  results, `ensureSync` repeats until the node's height is reached.
* **Notifications** (`v4/notification/`). Callbacks of the RPC client feed a
  queue that a single goroutine drains; connected blocks go to the collection
  queue, which calls the stake database and then the collector synchronously;
  reorganizations are signalled to three reorg handlers.
* **Chain monitors** (`chainmonitor.go` in `stakedb`, `blockdata`, `dcrsqlite`,
  `dcrpg`). Each owns a goroutine for connected blocks and one for
  reorganizations; they accumulate the side chain and switch to it.
* **Postgres chain DB** (`v4/db/dcrpg/pgblockchain.go`, `queries.go`,
  `upgrades.go`, `tables.go`). Blocks, transactions, addresses, tickets, votes,
  with main chain and validity flags; caches of balances and ticket pool charts.
* **SQLite base DB** (`v4/db/dcrsqlite/`). Block summaries and stake infos, the
  API's data source, and the API cache (`v4/api/types/apicache.go`).
* **Block data collector and savers** (`v4/blockdata/`).
* **Mempool** (`v4/mempool/`). A monitor that collects ticket data on new
  transactions and blocks, and the cache the savers fill.
* **Explorer** (`v4/explorer/`). Pages, the websocket hub, the explorer's own
  mempool view, the sync status page and the charts cache.
* **Insight API and socket.io** (`v4/api/insight/`), **REST API** (`v4/api/`,
  `v4/middleware/`).
* **Agenda DB** (`v4/db/agendadb/`), **helpers** (`v4/txhelpers/`,
  `v4/db/dbtypes/`, `v4/semver/`), **startup, shutdown, configuration**
  (`main.go`, `signal.go`, `config.go`), **command line tools** (`v4/cmd/`).

### 1.2 What is hard here

The hazards, each at its line, are in `PROJECT.json`.  The ones that shape the
model: two durable stores written one after the other with a crash in between;
two sync loops that poll the node separately and hand blocks to each other over
channels filled by goroutines; a height that is read under one lock and used
under another; notifications dropped by a `select` with a `default`; savers
started as goroutines that finish out of order; channels that are closed by one
goroutine and sent on by another.

## 2. Plan

| part | modules | state |
|---|---|---|
| ticket pool, stake database | `LivePool`, `TicketPool`, `StakeDB`, `TicketPoolProofs` | done |
| block gate and coordinated sync | `BlockSync` | done |
| notifications and chain monitors | `Notify` (queue, handlers, three reorg handlers) | next |
| websocket hub and explorer mempool | `WebsocketHub` | planned |
| postgres main chain / validity flags, SQLite reorg | `PgChain` | planned |
| API cache, pool info cache, mempool cache | `APICache`, `PoolInfoCache` | planned |
| mempool monitor and savers | `MempoolMonitor` | planned |
| socket.io counters, address and chart caches, agenda DB, upgrades | one small module each | planned |
| proofs | `StakeDBProofs` (heights agree, contents under crashes), `BlockSync` order | planned |

Composition: `StakeDB` extends `TicketPool` (the pool's methods are steps of the
database's methods).  `BlockSync` keeps of the stake database only its height and
the blocks it has connected, in memory and in its store, which is what the sync
protocol observes.
`Notify` will drive the same abstraction after the sync has ended.

## 3. Ticket pool and stake database

### 3.1 `LivePool`: the promise

`live[h+1]` is the set of tickets live at height h of the connected chain.
A block is connected or disconnected at the tip; a query is answered with the
live set of the chain at the moment of the answer.

### 3.2 `TicketPool`

`cursor`, `tip`, `diffs`, `pool` are the fields of the struct, `diffDB` the badger
database, `job` the method that holds the mutex and the height it works towards.
The loops of `advanceTo` and `retreatTo` are one step per diff, because a failed
size check stops them half-way; holding the mutex is what keeps other methods out
(`job = NoJob` guards every method's first step).  `live` and `ans` are the chain
and the latest answer of `Pool`, for the refinement of `LivePool`.

Tickets are model values.  The pool's size check after each diff is kept, since it
decides what an error leaves behind.

### 3.3 `StakeDB`

Extends `TicketPool` with the stake node's store, the cache of live tickets, and
`pc`, the step of the thread that holds `nodeMtx` or of startup.  `live` is
`BestNode`, the node in memory.  `ConnectBlock` is three steps: the node and its
transaction (`ConnectNode`), the diff in memory (`AppendDiff`), the diff on disk
(`StoreDiff`).  `DisconnectBlock` trims the pool before the node.  Startup is
`Load`, the two roll-back loops, `AdvanceToTip`, `PopulateLiveTicketCache`; the
failures of `NewStakeDatabase` lead to `LoadAndRecover` as in `newWiredDB`.

*Durability.*  The two stores differ.  A diff is on disk when the badger
transaction returns.  The node's ffldb store keeps committed transactions in a
memory cache and flushes it when it is large, after some minutes, or in `Close`
(`vendor/github.com/decred/dcrd/database/ffldb/dbcache.go`).  `stakeDB` is what
has been committed, `ldb` what leveldb has.  `Crash` (a kill, from any step) goes
back to `ldb`; `Close` (a clean stop) flushes first.  So a kill can take the node
several blocks back and leave the diffs above it on disk.

*Failing writes.*  `BestNode` is replaced before its transaction, in
`connectBlock` and in `disconnectBlock`.  When the transaction fails, memory and
store are one block apart, the block's diff is not appended, and the process
goes on: later diffs are refused (`AppendRefused`), and a disconnect panics when
the heights of memory and store differ (`DisconnectPanics`).  A later transaction
on such a store changes its ticket buckets by the wrong block's tickets, which
the flag `sound` records: `LoadBestNode` compares only the number of live
tickets, so the next start finds the store corrupt (`OpenFails`) or takes other
tickets for the live ones (`BestNodes`).  When `Open` cannot read the best state it
tries to initialise the store again, which fails as its buckets exist; a store
that cannot be opened at all is removed and created anew (`Open`).

What may happen is chosen by `Crashes` (kills and stops), `Reorgs` (blocks are
disconnected, and the node may serve another block for a height), and `Faults`, a
set: `rpc` (calls of the full node), `diff` (badger writes), `node` (ffldb
transactions and flushes), `open` (the ffldb store cannot be opened).  `Margin` is
the 288 blocks `newWiredDB` goes back.  Without `Reorgs`, `chain` remembers the
blocks the node has served, so that a block lost by a kill comes again.

The stake node library is represented by the live sets of the blocks it has
connected; its own choice of winners and expiring tickets is any change of the
set.  Values of tickets and pool infos are not modelled; neither is the lock-free
read of `PoolInfoBest`.

### 3.4 Runs

| run | checks | bounds |
|---|---|---|
| `ticketpool` | types, no index out of range, pool map = live set at the cursor, refinement of `LivePool` | 2 tickets, 3 blocks, readers at heights -1..3 |
| `stakedb_reorg` | pool map, live ticket cache and answers follow the chain | 2 tickets, 3 blocks, no crash, no fault |
| `stakedb_crash` | after kills at any step and clean stops: pool and node at one height, pool map and cache those of the chain; the diffs on disk have no gap and are at most one block behind the node | 2 tickets, 3 blocks, no reorg, no fault |
| `stakedb_faults` | with kills, reorgs and all four faults: a start brings pool and node to one height (`StartsLevel`), no index out of range, startup ends | 1 ticket, 3 blocks, no readers, `MaxAstray` 2 |
| `stakedb_stale` (violation) | a kill after a reorg leaves a diff of the disconnected block, which is then loaded | |
| `stakedb_gap` (violation) | a failed write of a diff leaves a gap on which every later start panics | |

Three blocks are enough for the cases that differ: a cursor below, at and above a
trimmed diff, a tip one behind and one or more ahead of the node, a roll-back by
more than the margin.  Two tickets let a diff have both an in and an out.
`stakedb_faults` is about heights, which the tickets influence only through the
size check and the number of live tickets, so it has one.  `MaxAstray` bounds the
height up to which blocks are connected once a write of the node has failed: one
block with the failed write and one after it, whose diff is refused.

Three limits of these results.  `TipMatchesHeight` holds as long as the node's
writes succeed; after a failed one the running pool is behind the node, and only
`StartsLevel` is left.  `PoolAtCursor` in `stakedb_crash` holds because the same
blocks come again after a kill, so the diffs that are left on disk are the right
ones; with reorganizations they may not be, which is `stakedb_stale`.
`CacheMatchesNode` is checked without failing RPCs, with which it does not hold.

`stakedb_faults` may deadlock: the panic of `LoadAllPoolDiffs` is a state the
system does not leave, as is a database that `newWiredDB` has closed and kept.

Fairness (`StartupEnds` only): a started method and a started startup go on.  It
is the scheduling of a single goroutine that holds the lock, so it is what Go
gives; nothing is assumed of readers, of new blocks or of crashes.

### 3.5 Proofs

`TicketPoolProofs` proves, for every finite set of tickets, every bound on the
chain and every set of heights asked for, that `TPSpec` keeps `TPTypeOK`,
`CursorInBounds` and `PoolAtCursor`, and that it implements `LivePool`.

None of them is inductive alone.  The inductive invariant `TPInv` adds what the
method holding the mutex relies on (`JobInv`: a trim's target is `maxCursor` of
the lowered tip, an append's diff is the last one), that each diff in memory is the
difference of the adjacent live sets (`DiffsMatchChain`), and that the chain has one
more live set than there are diffs.  From it, a diff applied forward or backward
takes one live set to the next (`DiffApplies`), so the size check never fails
(`SizeCheckHolds`) and the pool stays at the cursor.  The lemmas whose names end in
`Mem` concern only the pool's own state, whatever the chain, and are meant to be
reused for the stake database.

The refinement theorem maps a connect to the first step of `Append`, a disconnect
to the cut of `Trim` and a query to the last step of `Pool`; every other step is a
stutter.

Assumptions: `TicketsAssumption` (a finite set), `HeightAssumption`.

## 4. The coordinated sync: `BlockSync`

### 4.1 State and actions

| variable | code |
|---|---|
| `node` | the node's main chain; a block is the sequence of branches up to its height, so it determines its parent |
| `stake`, `poolInfo`, `blockCache` | the blocks the stake database's best node has connected, its cache of pool infos, its blocks by height |
| `stakeDB`, `ldb` | the chain committed to its store, and the chains of which a kill may leave one (see 3.3) |
| `heightWaiters`, `stakeSig` | its waiters, and the `signalWaiters` goroutines that have not run |
| `summary`, `stakeInfo` | the two SQLite tables |
| `pg` | the blocks table of postgres |
| `gate`, `gateSig` | the queue, waiters and sent hashes of the block gate; its `signalHeight` goroutines that have not run |
| `main`, `base`, `aux` | the goroutines of `_main`, `resyncDB`, `SyncChainDB`, with the local variables that matter |
| `ctx` | whether the context has been cancelled |

Every action is the code between two points at which another goroutine, the node or
a crash can make a difference.  One pass of base's loop is `BaseTop`, `BaseReceive`
(or its own fetch), `BaseConnect`, `BaseSummary`, `BaseStakeInfo`, `BasePoll`; one of
aux' loop is `AuxTop`, `AuxRegister`, `AuxFetch`, `AuxReceive`, `AuxStore`,
`AuxPoll`.  `WaitForHeight` is split between `AuxTop` and `AuxRegister`, because it
reads the height before it takes the lock of the waiters.  `ReceiveBase` and
`ReceiveAux` are `waitForSync`, which reads base's result first.

`StartLite` and `StartFull` are `_main` up to the sync: in full mode the stake
database is rewound to postgres' height and its cache of pool infos is charged
from SQLite; genesis' pool info is always there.  `Exit` ends the process after
its work or a failure and closes the stores; `Crash` ends it anywhere and goes
back to one of the chains in `ldb`.

`Faults` names the calls that may fail.  `connectivity` is the check in
`SyncDBAsync`.  `base` and `aux` are the calls whose errors end a loop or, in
`StartFails`, the start.  A loop returns a height with its error, which depends on the
call: `BaseErrorHeights` and `AuxErrorHeights` list them.  `DisconnectBlock` and
`ConnectBlock` can fail before or after they have replaced the best node,
`ConnectBlock` also after it has signalled its waiters (`BaseRewindFails`,
`BaseConnectFails`).  `store` is `StoreBlock`, whose error is dropped.  A panic of
`signalHeight` is a state of `main`.

Left out: the contents of blocks and rows, the index and batch updates around aux'
loop except for the failures that end it, the progress bar, and the explorer
updates.  Both channels are assumed to be read.  The ticket pool's part in
`ConnectBlock` is in `StakeDB`.

### 4.2 Runs

| run | checks | bounds |
|---|---|---|
| `sync_ends` | a fixed chain, databases that hold blocks, SQLite not behind postgres: the sync ends, does not fail, and postgres has the chain | 3 blocks above genesis, gate of 4 |
| `sync_faults` | full mode, any start, a growing chain, kills, quit signals, failing calls in both loops: a successful sync has all stores level and the chain in postgres, a quit signal ends the sync | 3 blocks above genesis, gate of 4 |
| `sync_any` | both modes, with reorganizations and every fault as well: each block is connected at its own height, the gate has every block base waits for, winners are those of a connected block of the right height | 2 blocks above genesis, gate of 2 |
| `sync_polls` (violation) | a block that arrives between the two loops' reads of the node's height leaves one of them waiting | |
| `sync_behind` (violation) | SQLite behind postgres: `WaitForHeight` loses the wake-up | |
| `sync_storeerror` (violation) | a block whose `StoreBlock` failed is missing after a sync that succeeds | |

`sync_ends` and `sync_any` allow full and lite mode; the others are about the two
loops together and have full mode only.  `AnyStart` in `MCBlockSync` has empty
databases, level ones, postgres behind and SQLite behind.  The gate keeps 10 blocks
in the code, more than the runs' chains have, so that nothing is dropped; 4 does the
same for chains of 3.  `sync_any` takes 2 instead, where blocks are dropped: aux
fetches a block only after base has connected the one before, so even then base
finds what it waits for.

Fairness (`FairSpec`): a goroutine that can run does run.  There is one condition
for each of the three threads and one for the goroutines that signal.  Nothing is
assumed of the node, of failures, of crashes or of the user.

`SyncEnds` needs the conditions of `sync_ends`.  Under wider ones it fails, and
these are the ways in which it and the other properties do; the first two and the
last one below are kept as runs, the others were seen with the same module under
other constants:

* the two loops read the node's height separately (`v4/db/dcrpg/sync.go:342`);
* `WaitForHeight` reads the height outside the lock (`v4/stakedb/stakedb.go:404`);
* a first start of all: the stake database has genesis, so aux stores it without
  base and fetches block 1, which may be signalled before base has asked for it
  (`v4/rpcutils/blockgate.go:261`);
* aux fails while base waits for its next block (`main.go:938`);
* the connectivity check fails and its caller sends to itself
  (`v4/db/dcrsqlite/apisource.go:176`): not even a quit signal ends this;
* in lite mode `ensureSync` computes fetchToHeight 0 (`main.go:620`), so that a
  block which arrives during the sync makes it fail;
* a reorganization during the sync goes unnoticed (`main.go:619`), and aux may store
  the winners of base's block with another block of its height, which is why
  `WinnersConnected` compares heights only;
* a crash between the writes of the two SQLite tables makes every later `resyncDB`
  fail (`BaseBegin`; `v4/db/dcrsqlite/sync.go:316`);
* a failure of aux at height 0 is reported as success at height 0
  (`v4/db/dcrpg/sync.go:100-127`), so with a chain of genesis alone postgres may be
  empty after a sync that succeeds; `DBsLevel` and `StoresMainChain` leave this out;
* `StoreBlock`'s error is dropped (`v4/db/dcrpg/sync.go:324`).

Nothing is proved about `BlockSync` yet.

## 5. What is only model-checked, and what is not modelled

Liveness (`StartupEnds`, `SyncEnds`, `ShutdownEnds`) rests on fairness and stays with
TLC.  The invariants of `StakeDB` and `BlockSync` are checked on the instances above;
`ConnectsInOrder` and the agreement of heights in `StakeDB` are the next to prove.

Not modelled yet, and planned in section 2: notifications, chain monitors, the
websocket hub, the postgres flags, the caches, the mempool monitor.  Not meant to be
modelled: SQL text and read queries, page templates, request handlers without state,
parsing of options, logging, and the command line tools, which run the same sync
without its coordination.  The node and the stake library are external; they are
represented by what the code relies on.

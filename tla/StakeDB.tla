------------------------------- MODULE StakeDB -------------------------------
(***************************************************************************)
(* stakedb.StakeDatabase (v4/stakedb/stakedb.go): the best stake node, its *)
(* ffldb store, the ticket pool with its badger store, and the cache of    *)
(* live tickets.  Blocks are connected and disconnected one step per       *)
(* write, the process may stop between any two of them, and                *)
(* NewStakeDatabase / LoadAndRecover bring the two stores back together.   *)
(*                                                                         *)
(* The stake node (package dcrd/blockchain/stake) is represented by the    *)
(* live sets of the chain it has connected: live in memory (BestNode),     *)
(* stakeDB in its store.  A PoolDiff is the difference of two adjacent     *)
(* ones.  The ffldb store keeps commits in a memory cache and flushes them *)
(* now and then: stakeDB is what it has committed, ldb what a killed       *)
(* process leaves.  A badger write is durable at once.                     *)
(***************************************************************************)
EXTENDS TicketPool

CONSTANTS Crashes,   \* the process may stop, be killed at any step, and restart
          Reorgs,    \* the node's chain changes, while running or while down
          Faults,    \* what may fail: subset of FaultKinds
          Margin,    \* blocks LoadAndRecover goes back (288)
          MaxAstray  \* bound: height connected to with a failed node write

\* "rpc": a call of the full node; "diff": a badger write; "node": a transaction
\* or a flush of the ffldb store; "open": the ffldb store cannot be opened.
FaultKinds == {"rpc", "diff", "node", "open"}

ASSUME FlagsAssumption ==
  Crashes \in BOOLEAN /\ Reorgs \in BOOLEAN /\ Faults \subseteq FaultKinds /\ Margin \in Nat
  /\ MaxAstray \in 0..MaxHeight

VARIABLES stakeDB,          \* the stake node as committed to the ffldb store
          ldb,              \* ... as last flushed to leveldb
          chain,            \* the full node's chain: its live sets so far
          liveTicketCache,  \* tickets whose value is in poolValue
          pc                \* step of the thread holding nodeMtx, or of startup

dbVars  == <<stakeDB, ldb>>
sdVars  == <<stakeDB, ldb, chain, liveTicketCache, pc>>
allVars == <<cursor, tip, diffs, pool, diffDB, job, live, ans, stakeDB, ldb, chain,
             liveTicketCache, pc>>

Height == Len(live) - 1

\* pc.at is the step; pc.mode tells NewStakeDatabase ("new") from LoadAndRecover
\* ("recover") and from its last rewind ("giveup"), pc.to is the height they
\* rewind to.
At(a) == [at |-> a, mode |-> "new", to |-> 0]
Goto(a) == pc' = [pc EXCEPT !.at = a]

\* The store of a chain; it is sound when its ticket buckets are those of the
\* best state's block.  InitDatabaseState writes genesis.
Store(c) == [chain |-> c, sound |-> TRUE]
Genesis == Store(<<{}>>)

\* Update: the transaction changes the buckets by one block's tickets, so it is
\* sound only on top of the store of the node it started from.  It may cause
\* a flush (commitTx); when nothing can be lost, every commit is taken to.
CommitNode(newNode) ==
  /\ stakeDB' = [chain |-> newNode, sound |-> stakeDB.sound /\ stakeDB.chain = live]
  /\ ldb' \in {stakeDB'} \cup (IF Crashes THEN {ldb} ELSE {})

\* A failed Update rolls back; the flush it begins with may have succeeded.
CommitFails ==
  /\ "node" \in Faults
  /\ ldb' \in {ldb, stakeDB}
  /\ UNCHANGED stakeDB

\* Close flushes the cache; the errors of Close are ignored.
CloseStores ==
  /\ ldb' \in {stakeDB} \cup (IF "node" \in Faults THEN {ldb} ELSE {})
  /\ stakeDB' = ldb'

\* GetRawTransaction fails for some of the tickets: they are skipped.
Valued(tickets) == IF "rpc" \in Faults THEN SUBSET tickets ELSE {tickets}

\* (*StakeDatabase).applyDiff, with In and Out swapped for undoDiff.
cacheDiff(in, out) ==
  \E got \in Valued(in \ liveTicketCache) :
    liveTicketCache' = (liveTicketCache \cup got) \ out

-----------------------------------------------------------------------------
\* Without reorganizations the full node serves, for a height, the same block
\* again.
Extends(new) == Reorgs \/ IsPrefix(Append(live, new), chain) \/ live = chain

\* A write of the node has failed since the start.
Astray == stakeDB # Store(live) \/ tip # Height

\* ConnectBlock, first write: the best node and its database.
ConnectNode(new) ==
  /\ pc.at = "idle"
  /\ Height < IF Astray THEN MaxAstray ELSE MaxHeight
  /\ Extends(new)
  /\ chain' = IF ~Reorgs /\ live = chain THEN Append(chain, new) ELSE chain
  /\ live' = Append(live, new)
  /\ \/ CommitNode(Append(live, new)) /\ Goto("connected")
     \/ Height < MaxAstray /\ CommitFails /\ UNCHANGED pc  \* BestNode is replaced
  /\ UNCHANGED <<memVars, diffDB, job, ans, liveTicketCache>>

\* Mutant: In and Out of the block's diff are exchanged.
AppendDiffReversed ==
  /\ pc.at = "connected"
  /\ LET diff == DiffOf(live[Height + 1], live[Height])
     IN  /\ cacheDiff(diff.Out, diff.In)
         /\ BeginAppend(diff, Height, "store")
  /\ Goto("storing")
  /\ UNCHANGED <<live, ans, dbVars, chain>>

\* The cache is updated, the diff appended in memory ...
AppendDiff ==
  /\ pc.at = "connected"
  /\ LET diff == DiffOf(live[Height], live[Height + 1])
     IN  /\ cacheDiff(diff.In, diff.Out)
         /\ BeginAppend(diff, Height, "store")
  /\ Goto("storing")
  /\ UNCHANGED <<live, ans, dbVars, chain>>

\* Append returns its error when the pool is not at the parent's height: after
\* a failed write of the node, this is every block until the next start.
AppendRefused ==
  /\ pc.at = "connected"
  /\ job = NoJob /\ Height # tip + 1
  /\ LET diff == DiffOf(live[Height], live[Height + 1]) IN cacheDiff(diff.In, diff.Out)
  /\ Goto("idle")
  /\ UNCHANGED <<tpVars, dbVars, chain>>

\* Mutant: the diff may not be on disk when ConnectBlock returns.
StoreDiffLater ==
  /\ pc.at = "storing"
  /\ StoreAppended \/ (job' = NoJob /\ UNCHANGED <<memVars, diffDB>>)
  /\ Goto("idle")
  /\ UNCHANGED <<live, ans, dbVars, chain, liveTicketCache>>

\* ... and written to the badger DB, the second write.
StoreDiff ==
  /\ pc.at = "storing"
  /\ \/ StoreAppended
     \/ "diff" \in Faults /\ job' = NoJob /\ UNCHANGED <<memVars, diffDB>>
  /\ Goto("idle")
  /\ UNCHANGED <<live, ans, dbVars, chain, liveTicketCache>>

-----------------------------------------------------------------------------
\* DisconnectBlock while running: reorganizations and RewindStakeDB.
BeginDisconnect ==
  /\ Reorgs
  /\ pc.at = "idle"
  /\ Height > 0 /\ Len(stakeDB.chain) = Len(live)
  /\ Goto("disconnecting")
  /\ UNCHANGED <<tpVars, dbVars, chain, liveTicketCache>>

\* disconnectBlock trims the pool to the parent's height before the node.
TrimForDisconnect ==
  /\ pc.at \in {"disconnecting", "rewinding"}
  /\ tip > Height - 1
  /\ BeginTrim
  /\ UNCHANGED <<live, ans, sdVars>>

\* Mutant: undoDiff is left out.
TrimDoneNeglectingCache == EndTrim /\ UNCHANGED <<live, ans, sdVars>>

\* neglectCache is true during startup only.
TrimDone ==
  /\ EndTrim
  /\ IF pc.at = "disconnecting"
     THEN cacheDiff(Last(diffs).Out, Last(diffs).In)
     ELSE UNCHANGED liveTicketCache
  /\ UNCHANGED <<live, ans, dbVars, chain, pc>>

\* Mutant: the pool is not trimmed down to the parent.
PoolNotTrimmed == job.op \notin {"trim", "cut"}

\* The pool is trimmed: the node goes back to the parent.
PoolTrimmed == job.op \notin {"trim", "cut"} /\ tip <= Height - 1

DisconnectNode(next) ==
  /\ PoolTrimmed
  /\ live' = Front(live)
  /\ CommitNode(Front(live))
  /\ Goto(next)
  /\ UNCHANGED <<memVars, diffDB, job, ans, chain, liveTicketCache>>

EndDisconnect == pc.at = "disconnecting" /\ DisconnectNode("idle")

\* The View fails, or the Update after BestNode has been replaced; the pool
\* stays trimmed.
DisconnectFails ==
  /\ pc.at = "disconnecting" /\ PoolTrimmed
  /\ "node" \in Faults
  /\ \/ live' = live /\ UNCHANGED dbVars
     \/ live' = Front(live) /\ CommitFails
  /\ Goto("idle")
  /\ UNCHANGED <<memVars, diffDB, job, ans, chain, liveTicketCache>>

-----------------------------------------------------------------------------
\* The memory of the process is gone; the ffldb store is what leveldb has.
Stopped ==
  /\ pc' = At("down")
  /\ cursor' = 0 /\ tip' = 0 /\ diffs' = <<>> /\ pool' = {}
  /\ job' = NoJob
  /\ liveTicketCache' = {}
  /\ live' = ldb'.chain /\ stakeDB' = ldb'
  /\ UNCHANGED <<diffDB, ans, chain>>

\* Without Close the commits in the ffldb cache are gone too.
Killed == UNCHANGED ldb /\ Stopped

\* The process is killed, or panics somewhere else.
Crash ==
  /\ Crashes
  /\ pc.at \notin {"down", "panicked"}
  /\ Killed

\* "BestNode and stake DB are inconsistent": disconnectBlock compares the best
\* node with the parent of the block the store is at.
DisconnectPanics ==
  /\ Reorgs
  /\ pc.at = "idle"
  /\ Height > 0 /\ Len(stakeDB.chain) # Len(live)
  /\ Killed

\* A shutdown: Close waits for nodeMtx and flushes.
Close ==
  /\ Crashes
  /\ pc.at = "idle"
  /\ CloseStores /\ Stopped

\* newWiredDB calls LoadAndRecover(height-288).
Recover(height) ==
  [at |-> "reload", mode |-> "recover",
   to |-> IF height < Margin THEN 0 ELSE height - Margin]

\* The keys of the badger DB are 1..n, as LoadAllPoolDiffs asserts.
Contiguous == DOMAIN diffDB = 1..Cardinality(DOMAIN diffDB)

\* What LoadBestNode makes of a store: it compares the number of live tickets
\* only, so a store that is not sound may pass with other tickets.
BestNodes(db) ==
  {Append(Front(db.chain), last) : last \in
     {l \in SUBSET Tickets : IF db.sound
                             THEN l = Last(db.chain)
                             ELSE Cardinality(l) = Cardinality(Last(db.chain))}}

\* NewTicketPool: every stored diff is loaded, also those above the height of
\* the stake node.
NewTicketPool ==
  /\ Contiguous
  /\ diffs' = [h \in 1..Cardinality(DOMAIN diffDB) |-> diffDB[h]]
  /\ tip' = Cardinality(DOMAIN diffDB)
  /\ cursor' = 0 /\ pool' = {} /\ job' = NoJob
  /\ UNCHANGED diffDB

\* A store that cannot be opened is removed and created anew.
Open ==
  /\ \/ UNCHANGED dbVars
     \/ "open" \in Faults /\ stakeDB' = Genesis /\ ldb' = Genesis
  /\ live' \in BestNodes(stakeDB')

\* Both constructors begin with these two.
Load ==
  /\ pc.at \in {"down", "reload"}
  /\ NewTicketPool /\ Open
  /\ liveTicketCache' = {}
  /\ Goto("equalize")
  /\ UNCHANGED <<ans, chain>>

\* GetBlock of the best block fails, or LoadBestNode finds the store corrupt.
\* InitDatabaseState then fails too, since its buckets exist, and the start
\* ends; NewStakeDatabase has no height from which to recover.
OpenFails ==
  /\ pc.at \in {"down", "reload"}
  /\ Contiguous
  /\ "rpc" \in Faults \/ ~stakeDB.sound
  /\ pc' = At("down")
  /\ UNCHANGED <<tpVars, dbVars, chain, liveTicketCache>>

\* A gap in the stored diffs: the panic of LoadAllPoolDiffs at every start.
LoadPanics ==
  /\ pc.at \in {"down", "reload"}
  /\ ~Contiguous
  /\ Goto("panicked")
  /\ UNCHANGED <<tpVars, dbVars, chain, liveTicketCache>>

\* Roll the stake DB back to the pool (DisconnectBlock trims nothing here) ...
RollBackNode ==
  /\ pc.at = "equalize" /\ Height > tip
  /\ DisconnectNode("equalize")

\* DisconnectBlock fails during a start: the RPCs of dbPrevBlock before the
\* pool is trimmed, or the store after that.  The stores are closed;
\* NewStakeDatabase gives way to LoadAndRecover, whose own failure ends the
\* start.
StartDisconnectFails ==
  /\ pc.at = "rewinding" \/ (pc.at = "equalize" /\ Height > tip)
  /\ \/ "rpc" \in Faults /\ job = NoJob
     \/ "node" \in Faults /\ PoolTrimmed
  /\ CloseStores
  /\ pc' = IF pc.mode = "new" THEN Recover(tip) ELSE At("down")
  /\ UNCHANGED <<tpVars, chain, liveTicketCache>>

\* ... or the pool back to the stake DB.
RollBackPool ==
  /\ pc.at = "equalize" /\ tip > Height
  /\ BeginTrim
  /\ UNCHANGED <<live, ans, sdVars>>

\* LoadAndRecover goes on back to its target height.
RecoverRewind ==
  /\ pc.at = "equalize" /\ job = NoJob /\ tip = Height
  /\ pc.mode = "recover" /\ pc.to < Height
  /\ Goto("rewinding")
  /\ UNCHANGED <<tpVars, dbVars, chain, liveTicketCache>>

EndRewind ==
  /\ pc.at = "rewinding"
  /\ DisconnectNode(IF pc.mode = "giveup" THEN "giveup" ELSE "equalize")

\* Mutant: the pool is advanced before the two heights are made equal.
AdvancePoolFirst ==
  /\ pc.at = "equalize"
  /\ BeginAdvanceToTip
  /\ Goto("advancing")
  /\ UNCHANGED <<live, ans, dbVars, chain, liveTicketCache>>

AdvancePool ==
  /\ pc.at = "equalize" /\ tip = Height
  /\ pc.mode = "new" \/ pc.to >= Height
  /\ BeginAdvanceToTip
  /\ Goto("advancing")
  /\ UNCHANGED <<live, ans, dbVars, chain, liveTicketCache>>

\* Mutant: every failed advance starts another recovery from the same height.
AdvanceFailedAgain ==
  /\ pc.at = "advancing"
  /\ Advance /\ ~AdvanceOK
  /\ CloseStores /\ pc' = Recover(cursor + 1 + Margin)
  /\ UNCHANGED <<live, ans, chain, liveTicketCache>>

\* AdvanceToTip fails with the cursor past the bad diff.  NewStakeDatabase
\* closes the stores and LoadAndRecover reopens them; LoadAndRecover itself
\* calls Rewind(stopHeight-1, true).
AdvanceFailed ==
  /\ pc.at = "advancing"
  /\ Advance /\ ~AdvanceOK
  /\ IF pc.mode = "new"
     THEN CloseStores /\ pc' = Recover(cursor)
     ELSE /\ pc' = [at |-> "giveup", mode |-> "giveup", to |-> cursor - 1]
          /\ UNCHANGED dbVars
  /\ UNCHANGED <<live, ans, chain, liveTicketCache>>

GiveUpRewind ==
  /\ pc.at = "giveup"
  /\ Goto(IF pc.to < Height THEN "rewinding" ELSE "populate")
  /\ UNCHANGED <<tpVars, dbVars, chain, liveTicketCache>>

AdvancedToTip ==
  /\ pc.at = "advancing"
  /\ EndAdvanceToTip
  /\ Goto("populate")
  /\ UNCHANGED <<live, ans, dbVars, chain, liveTicketCache>>

\* Mutant: the cache is not filled at startup.
PopulateSkipped ==
  /\ pc.at = "populate"
  /\ pc' = At("idle")
  /\ UNCHANGED <<tpVars, dbVars, chain, liveTicketCache>>

PopulateLiveTicketCache ==
  /\ pc.at = "populate"
  /\ liveTicketCache' = Last(live)
  /\ pc' = At("idle")
  /\ UNCHANGED <<tpVars, dbVars, chain>>

\* A ticket's RPC fails.  NewStakeDatabase leaves its stores open, so that
\* LoadAndRecover cannot open them and the process exits; after LoadAndRecover,
\* newWiredDB closes the stores and goes on with them closed.
PopulateFails ==
  /\ "rpc" \in Faults
  /\ pc.at = "populate" /\ Last(live) # {}
  /\ \/ pc.mode = "new" /\ Killed
     \/ /\ pc.mode # "new"
        /\ CloseStores
        /\ pc' = At("closed")
        /\ UNCHANGED <<tpVars, chain, liveTicketCache>>

-----------------------------------------------------------------------------
\* Steps of the thread inside a TicketPool method, none of which ends startup.
PoolStep ==
  /\ \/ Advance /\ (pc.at = "advancing" => AdvanceOK)
     \/ Retreat
     \/ RetreatAtGenesis
  /\ UNCHANGED <<live, ans, sdVars>>

\* Readers (GetPool, GetPoolByHash) call Pool while the database runs.
Running == pc.at \in {"idle", "connected", "storing", "disconnecting"}

ReadPool(height) == Running /\ BeginPool(height) /\ UNCHANGED <<live, ans, sdVars>>

AnswerPool == EndPool /\ UNCHANGED sdVars

Startup ==
  \/ Load \/ LoadPanics \/ OpenFails
  \/ RollBackNode \/ StartDisconnectFails \/ RollBackPool \/ RecoverRewind
  \/ EndRewind \/ AdvancePool \/ AdvanceFailed \/ GiveUpRewind \/ AdvancedToTip
  \/ PopulateLiveTicketCache \/ PopulateFails

Method == AppendDiff \/ AppendRefused \/ StoreDiff \/ TrimForDisconnect \/ TrimDone
          \/ EndDisconnect \/ DisconnectFails \/ PoolStep \/ AnswerPool

Init ==
  /\ TPInit
  /\ stakeDB = Genesis /\ ldb = Genesis
  /\ chain = <<{}>>
  /\ liveTicketCache = {}
  /\ pc = At("idle")

Next ==
  \/ \E new \in SUBSET Tickets : ConnectNode(new)
  \/ BeginDisconnect \/ DisconnectPanics
  \/ \E h \in ReadHeights : ReadPool(h)
  \/ Method
  \/ Startup
  \/ Crash \/ Close

Spec == Init /\ [][Next]_allVars

\* A method that was called and a start that was begun run on.
FairSpec == Spec /\ WF_allVars(Method) /\ WF_allVars(Startup)

-----------------------------------------------------------------------------
\* Types of the stake database's state.
TypeOK ==
  /\ TPTypeOK
  /\ {stakeDB, ldb} \subseteq [chain : Seq(SUBSET Tickets), sound : BOOLEAN]
  /\ chain \in Seq(SUBSET Tickets)
  /\ liveTicketCache \in SUBSET Tickets
  /\ pc \in [at : {"idle", "connected", "storing", "disconnecting", "down", "reload",
                   "equalize", "rewinding", "advancing", "giveup", "populate",
                   "panicked", "closed"},
            mode : {"new", "recover", "giveup"}, to : Int]

\* "they should be the same height": whenever no block is being connected or
\* disconnected, also after a kill at any step and the start that follows, the
\* ticket pool and the stake node are at the same height, so the next Append
\* finds its tip.  It holds as long as the writes of the node succeed.
TipMatchesHeight ==
  /\ pc.at \in {"idle", "populate"} => tip = Height
  /\ pc.at = "connected" => tip = Height - 1

\* Whatever fails, a start that gets as far as filling the cache has brought the
\* pool and the node to one height, and the running pool is never ahead of the
\* node: a failed write of the node leaves it behind until the next start.
StartsLevel ==
  /\ pc.at = "populate" => tip = Height
  /\ pc.at = "idle" => tip <= Height

\* With reorganizations or crashes, the cache of live tickets that the pool
\* value is summed over is the node's live set between blocks.
CacheMatchesNode == pc.at = "idle" => liveTicketCache = Last(live)

\* The badger DB never has a gap (LoadAllPoolDiffs panics on one), and neither
\* the node nor what a kill leaves of it is ever more than the block being
\* connected ahead of it, so that NewStakeDatabase rolls the node back by at
\* most one block.
DiskContiguous == Contiguous
DiskOneBehind ==
  \A db \in {stakeDB, ldb} : Len(db.chain) - 1 <= Cardinality(DOMAIN diffDB) + 1

\* A start that is not interrupted ends: neither the two roll-back loops nor
\* LoadAndRecover after a failed advance go on forever.
StartupEnds ==
  (<>[](pc.at # "down")) => <>[](Running \/ pc.at \in {"panicked", "closed"})
=============================================================================

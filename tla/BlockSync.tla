------------------------------ MODULE BlockSync ------------------------------
(***************************************************************************)
(* The coordinated start-up sync of the two databases.  SyncChainDB        *)
(* (dcrpg/sync.go, here aux) fetches blocks through a BlockGate            *)
(* (rpcutils/blockgate.go), which wakes resyncDB (dcrsqlite/sync.go, here  *)
(* base); base connects the block in the stake database, which wakes aux   *)
(* through StakeDatabase.WaitForHeight, and aux stores the block.  main.go *)
(* (getSyncd, waitForSync, ensureSync) starts both and waits for both.     *)
(*                                                                         *)
(* A block is identified by the branch taken at each height up to its own, *)
(* so it determines its parent.  Of the stake database only the connected  *)
(* blocks, the height waiters and the cache of pool infos are kept: stake  *)
(* is the best node in memory, stakeDB what the next start makes of what   *)
(* has been committed, ldb the chains of which one is left by a kill,      *)
(* since a commit may wait in ffldb's cache (see module StakeDB).          *)
(***************************************************************************)
EXTENDS Integers, SequencesExt, FiniteSetsExt

CONSTANTS MaxHeight,  \* bound on the node's height
          GateCap,    \* capacity of the block gate (10)
          Modes,      \* values of usePG the process may be started with
          Starts,     \* heights <<postgres, SQLite, stakedb>> of the first start
          NewBlocks,  \* the node's chain grows during the sync
          Reorgs,     \* ... and is reorganized
          Crashes,    \* the process may stop at any step
          Cancels,    \* a quit signal may come
          Faults      \* the calls that may fail: subset of FaultKinds

FaultKinds == {"connectivity", "aux", "base", "store"}

ASSUME BoundsAssumption == MaxHeight \in Nat /\ GateCap \in Nat \ {0}
ASSUME ChoicesAssumption ==
  /\ Modes \in SUBSET BOOLEAN /\ Faults \in SUBSET FaultKinds
  /\ {NewBlocks, Reorgs, Crashes, Cancels} \subseteq BOOLEAN

VARIABLES node,                      \* branch of the main chain's block at each height
          stakeDB, ldb,              \* the stake DB's store: committed, left by a kill
          stake, poolInfo,           \* StakeDatabase: connected blocks, pool info cache
          blockCache,                \* its blocks by height, of this process
          heightWaiters, stakeSig,   \* its waiters, and signalWaiters goroutines
          summary, stakeInfo,        \* the two SQLite tables
          pg,                        \* blocks in the postgres blocks table
          gate, gateSig,             \* the block gate, its signalHeight goroutines
          main, base, aux, ctx       \* the three threads, and whether ctx is done

dbVars  == <<stakeDB, ldb, stake, poolInfo, blockCache, heightWaiters, stakeSig, summary, stakeInfo, pg>>
vars    == <<node, stakeDB, ldb, stake, poolInfo, blockCache, heightWaiters, stakeSig, summary,
             stakeInfo, pg, gate, gateSig, main, base, aux, ctx>>

NodeHeight == Len(node) - 1
BlockAt(h) == SubSeq(node, 1, h + 1)
HeightOf(b) == Len(b) - 1

StakeHeight == Len(stake) - 1
HeightDB == Max({HeightOf(b) : b \in pg} \cup {-1})   \* -1: sql.ErrNoRows

\* An empty postgres counts as being at genesis, for rewinding and for starting.
AuxHeight == Max({HeightDB, 0})

\* The value of fetchToHeight in lite mode (math.MaxInt32).
Unbounded == MaxHeight + 2

NoBlock == <<>>      \* the nil hash of a height that is come and gone
Silent  == <<-1>>    \* nothing on the wait channel yet

\* A transaction of the stake DB, which may reach leveldb at once or not.
Commit(chain) == stakeDB' = chain /\ ldb' = ldb \cup {chain}

\* NewBlockGate: no block is cached, nobody waits.
EmptyGate == [q |-> <<>>, waiters |-> {}, sent |-> {}]
IdleBase == [at |-> "off", i |-> 0, height |-> 0, stakeH |-> 0, blk |-> NoBlock,
             waitFor |-> 0, res |-> 0, err |-> FALSE]
IdleAux == [at |-> "off", ib |-> 0, height |-> 0, dbh |-> 0, blk |-> NoBlock,
            chan |-> Silent, res |-> 0, err |-> FALSE]

-----------------------------------------------------------------------------
\* The node.

NewBlock ==
  /\ NewBlocks
  /\ NodeHeight < MaxHeight
  /\ node' = Append(node, 0)
  /\ UNCHANGED <<dbVars, gate, gateSig, main, base, aux, ctx>>

\* A longer branch that leaves the chain at height k.
NodeReorg(k) ==
  /\ Reorgs
  /\ NodeHeight < MaxHeight
  /\ node' = [h \in 1..(Len(node) + 1) |->
                IF h <= k THEN node[h] ELSE IF h > Len(node) THEN 1 ELSE 1 - node[h]]
  /\ UNCHANGED <<dbVars, gate, gateSig, main, base, aux, ctx>>

-----------------------------------------------------------------------------
\* The block gate.

\* Mutant: the newest block goes when above capacity.
UpdateToBlockNewest(b) ==
  /\ gate' = [gate EXCEPT !.q = LET q == Append(gate.q, b)
                                IN  IF Len(q) > GateCap THEN Front(q) ELSE q]
  /\ gateSig' = gateSig \cup {HeightOf(b)}

\* UpdateToBlock and rotateIn: the oldest block goes when above capacity.
UpdateToBlock(b) ==
  /\ gate' = [gate EXCEPT !.q = LET q == Append(gate.q, b)
                                IN  IF Len(q) > GateCap THEN Tail(q) ELSE q]
  /\ gateSig' = gateSig \cup {HeightOf(b)}

\* The goroutine signalHeight.  It panics when the height is not cached, which
\* ends every goroutine.
signalHeight(h) ==
  /\ h \in gateSig
  /\ LET cached == {b \in Range(gate.q) : HeightOf(b) = h}
     IN  IF cached = {}
         THEN /\ main' = [main EXCEPT !.at = "panicked"]
              /\ base' = IdleBase /\ aux' = IdleAux /\ gateSig' = {} /\ stakeSig' = {}
              /\ UNCHANGED gate
         ELSE /\ gateSig' = gateSig \ {h}
              /\ gate' = [gate EXCEPT !.sent = IF h \in gate.waiters THEN @ \cup cached ELSE @,
                                      !.waiters = @ \ {h}]
              /\ UNCHANGED <<main, base, aux, stakeSig>>
  /\ UNCHANGED <<node, stakeDB, ldb, stake, poolInfo, blockCache, heightWaiters, summary, stakeInfo, pg, ctx>>

\* Mutant: waiters of any height are woken.
signalWaitersAny(b) ==
  /\ b \in stakeSig
  /\ stakeSig' = stakeSig \ {b}
  /\ heightWaiters' = {}
  /\ aux' = IF heightWaiters # {} THEN [aux EXCEPT !.chan = b] ELSE aux
  /\ UNCHANGED <<node, stakeDB, ldb, stake, poolInfo, blockCache, summary, stakeInfo, pg, gate, gateSig, main, base, ctx>>

\* The goroutine signalWaiters of the stake database.
signalWaiters(b) ==
  /\ b \in stakeSig
  /\ stakeSig' = stakeSig \ {b}
  /\ heightWaiters' = heightWaiters \ {HeightOf(b)}
  /\ aux' = IF HeightOf(b) \in heightWaiters /\ HeightOf(b) = aux.ib
            THEN [aux EXCEPT !.chan = b] ELSE aux
  /\ UNCHANGED <<node, stakeDB, ldb, stake, poolInfo, blockCache, summary, stakeInfo, pg, gate, gateSig, main, base, ctx>>

-----------------------------------------------------------------------------
\* base: resyncDB.  Each action is the code between two points where another
\* thread, the node or a crash can make a difference.

BaseReturn(height, err) ==
  base' = [base EXCEPT !.at = "done", !.res = height, !.err = err]

BaseOnly == UNCHANGED <<node, dbVars, gate, gateSig, main, aux, ctx>>

\* The heights base returns with the error of an RPC, a read or a write: the
\* best block and DBHeights at the beginning and after the loop, getBlock, the
\* two tables, and the best block after a block that SQLite had or had not.
BaseErrorHeights ==
  CASE base.at = "begin"                            -> {-1}
    [] base.at = "top" /\ base.i > base.height      -> {-1}
    [] base.at = "top" /\ base.i <= base.height     -> IF base.i < main.fetchTo /\ ~ctx
                                                      THEN {base.i - 1} ELSE {}
    [] base.at \in {"summary", "stakeinfo", "skip"} -> {base.i - 1}
    [] base.at = "poll"                             -> {base.i}
    [] OTHER                                        -> {}

BaseFails ==
  /\ "base" \in Faults
  /\ \E height \in BaseErrorHeights : BaseReturn(height, TRUE)
  /\ BaseOnly

DBHeight == Min({Len(summary) - 1, Len(stakeInfo) - 1, StakeHeight})

\* The node's height, the DBs' heights, and whether to rewind the stake DB.
BaseBegin ==
  /\ base.at = "begin"
  /\ CASE Len(summary) # Len(stakeInfo) -> BaseReturn(-1, TRUE)
       [] StakeHeight > DBHeight /\ StakeHeight > 0 /\ (DBHeight < 0 \/ StakeHeight > 2 * DBHeight) ->
            BaseReturn(-1, TRUE)
       [] OTHER -> base' = [base EXCEPT !.at = "rewind", !.height = NodeHeight, !.i = DBHeight]
  /\ BaseOnly

\* RewindStakeDB: one DisconnectBlock.
BaseRewind ==
  /\ base.at = "rewind"
  /\ StakeHeight > base.i /\ StakeHeight > 0 /\ ~ctx
  /\ stake' = Front(stake) /\ Commit(Front(stake))
  /\ UNCHANGED <<node, poolInfo, blockCache, heightWaiters, stakeSig, summary, stakeInfo, pg,
                 gate, gateSig, main, base, aux, ctx>>

\* ... which fails before or after it has replaced the best node.
BaseRewindFails ==
  /\ "base" \in Faults
  /\ base.at = "rewind"
  /\ StakeHeight > base.i /\ StakeHeight > 0 /\ ~ctx
  /\ stake' \in {stake, Front(stake)}
  /\ BaseReturn(base.i, TRUE)
  /\ UNCHANGED <<node, stakeDB, ldb, poolInfo, blockCache, heightWaiters, stakeSig, summary,
                 stakeInfo, pg, gate, gateSig, main, aux, ctx>>

\* The first height, and the returns before the loop.  base.i is dbHeight.
BaseStart ==
  /\ base.at = "rewind"
  /\ ctx \/ StakeHeight <= Max({base.i, 0})
  /\ CASE main.fetchTo < StakeHeight -> BaseReturn(base.i, TRUE)
       [] base.height < base.i       -> BaseReturn(base.i, TRUE)
       [] base.height = base.i       -> BaseReturn(base.height, FALSE)
       [] OTHER -> base' = [base EXCEPT !.at = "top", !.stakeH = StakeHeight,
                              !.i = IF main.fetchTo > @ THEN @ + 1 ELSE @]
  /\ BaseOnly

\* The head of the loop: its end, the quit signal, a fetch of its own below
\* fetchToHeight, or the wait for aux.
BaseTop ==
  /\ base.at = "top"
  /\ CASE base.i > base.height   -> IF Len(summary) # Len(stakeInfo)
                                    THEN BaseReturn(-1, TRUE)
                                    ELSE BaseReturn(base.height, FALSE)
       [] base.i <= base.height /\ ctx -> BaseReturn(base.i - 1, FALSE)
       [] OTHER -> base' = IF base.i < main.fetchTo
                           THEN [base EXCEPT !.at = "connect", !.blk = BlockAt(base.i)]
                           ELSE [base EXCEPT !.at = "wait"]
  /\ BaseOnly

\* Mutant: the next block is not requested.
BaseReceiveOnly ==
  /\ base.at = "wait"
  /\ \E b \in gate.sent :
       /\ HeightOf(b) = base.waitFor
       /\ base' = [base EXCEPT !.at = "connect", !.blk = b]
       /\ gate' = [gate EXCEPT !.sent = @ \ {b}]
  /\ UNCHANGED <<node, dbVars, gateSig, main, aux, ctx>>

\* The block arrives on waitChan.  The next one is requested before this one
\* is connected.
BaseReceive ==
  /\ base.at = "wait"
  /\ \E b \in gate.sent :
       /\ HeightOf(b) = base.waitFor
       /\ IF b \in Range(gate.q)
          THEN /\ base' = [base EXCEPT !.at = "connect", !.blk = b, !.waitFor = base.i + 1]
               /\ gate' = [gate EXCEPT !.waiters = @ \cup {base.i + 1}, !.sent = @ \ {b}]
          ELSE /\ BaseReturn(base.i - 1, TRUE)
               /\ gate' = [gate EXCEPT !.sent = @ \ {b}]
  /\ UNCHANGED <<node, dbVars, gateSig, main, aux, ctx>>

BaseCancelled ==
  /\ base.at = "wait" /\ ctx
  /\ BaseReturn(base.i - 1, FALSE)
  /\ BaseOnly

\* Mutant: the block at the stake DB's height is connected again.
BaseConnectAgain ==
  /\ base.at = "connect"
  /\ IF base.i >= base.stakeH
     THEN /\ stake' = Append(stake, base.blk) /\ Commit(stake')
          /\ poolInfo' = poolInfo \cup {base.blk}
          /\ stakeSig' = stakeSig \cup {base.blk}
     ELSE UNCHANGED <<stake, stakeDB, ldb, poolInfo, stakeSig>>
  /\ base' = [base EXCEPT !.stakeH = Len(stake') - 1, !.at = "poll"]
  /\ UNCHANGED <<node, blockCache, heightWaiters, summary, stakeInfo, pg, gate, gateSig,
                 main, aux, ctx>>

\* Mutant: the pool info of the connected block is not cached.
BaseConnectNoInfo ==
  /\ base.at = "connect"
  /\ IF base.i > base.stakeH
     THEN /\ stake' = Append(stake, base.blk) /\ Commit(stake')
          /\ stakeSig' = stakeSig \cup {base.blk}
     ELSE UNCHANGED <<stake, stakeDB, ldb, stakeSig>>
  /\ base' = [base EXCEPT !.stakeH = Len(stake') - 1,
                !.at = IF base.i < Len(summary) /\ base.i < Len(stakeInfo)
                       THEN "skip" ELSE "summary"]
  /\ UNCHANGED <<node, poolInfo, blockCache, heightWaiters, summary, stakeInfo, pg,
                 gate, gateSig, main, aux, ctx>>

\* ConnectBlock, when the block is above the height last read.  stakeDBHeight
\* is then read again.
BaseConnect ==
  /\ base.at = "connect"
  /\ IF base.i > base.stakeH
     THEN /\ stake' = Append(stake, base.blk) /\ Commit(stake')
          /\ poolInfo' = poolInfo \cup {base.blk}
          /\ blockCache' = {b \in blockCache : HeightOf(b) # base.i} \cup {base.blk}
          /\ stakeSig' = stakeSig \cup {base.blk}
     ELSE UNCHANGED <<stake, stakeDB, ldb, poolInfo, blockCache, stakeSig>>
  /\ base' = [base EXCEPT !.stakeH = Len(stake') - 1,
                !.at = IF base.i < Len(summary) /\ base.i < Len(stakeInfo)
                       THEN "skip" ELSE "summary"]
  /\ UNCHANGED <<node, heightWaiters, summary, stakeInfo, pg, gate, gateSig, main, aux, ctx>>

\* ConnectBlock fails: with nothing but the block cached; in the store, when the
\* best node has been replaced; or in Append, when the waiters are signalled and
\* the pool info is set.  The next start rolls back what Append did not store.
BaseConnectFails ==
  /\ "base" \in Faults
  /\ base.at = "connect" /\ base.i > base.stakeH
  /\ blockCache' = {b \in blockCache : HeightOf(b) # base.i} \cup {base.blk}
  /\ \/ UNCHANGED <<stake, poolInfo, stakeSig>>
     \/ stake' = Append(stake, base.blk) /\ UNCHANGED <<poolInfo, stakeSig>>
     \/ /\ stake' = Append(stake, base.blk)
        /\ poolInfo' = poolInfo \cup {base.blk}
        /\ stakeSig' = stakeSig \cup {base.blk}
  /\ BaseReturn(base.i - 1, TRUE)
  /\ UNCHANGED <<node, stakeDB, ldb, heightWaiters, summary, stakeInfo, pg, gate, gateSig,
                 main, aux, ctx>>

BaseSummary ==
  /\ base.at = "summary"
  /\ summary' = Append(summary, base.blk)
  /\ base' = [base EXCEPT !.at = "stakeinfo"]
  /\ UNCHANGED <<node, stakeDB, ldb, stake, poolInfo, blockCache, heightWaiters, stakeSig, stakeInfo, pg,
                 gate, gateSig, main, aux, ctx>>

BaseStakeInfo ==
  /\ base.at = "stakeinfo"
  /\ stakeInfo' = Append(stakeInfo, base.blk)
  /\ base' = [base EXCEPT !.at = "poll"]
  /\ UNCHANGED <<node, stakeDB, ldb, stake, poolInfo, blockCache, heightWaiters, stakeSig, summary, pg,
                 gate, gateSig, main, aux, ctx>>

\* The best block, the end of the loop, is read after every block.
BasePoll ==
  /\ base.at \in {"skip", "poll"}
  /\ base' = [base EXCEPT !.at = "top", !.i = @ + 1, !.height = NodeHeight]
  /\ BaseOnly

Base == \/ BaseBegin \/ BaseRewind \/ BaseStart \/ BaseTop \/ BaseReceive \/ BaseCancelled
        \/ BaseConnect \/ BaseSummary \/ BaseStakeInfo \/ BasePoll

BaseFailing == BaseFails \/ BaseRewindFails \/ BaseConnectFails

-----------------------------------------------------------------------------
\* aux: SyncChainDB and SyncChainDBAsync.

\* A height that is not positive is reported as success at height 0.
AuxReturn(height, err) ==
  aux' = IF height <= 0 THEN [aux EXCEPT !.at = "done", !.res = 0, !.err = FALSE]
         ELSE [aux EXCEPT !.at = "done", !.res = height, !.err = err]

AuxOnly == UNCHANGED <<node, dbVars, gate, gateSig, main, base, ctx>>

\* The heights aux returns with an error: of NodeHeight and HeightDB, or of
\* DeindexAll; of UpdateToBlock; of GetChainWork; of NodeHeight after a block;
\* and after the loop of DeleteDuplicates, or of the indexing.
AuxErrorHeights ==
  CASE aux.at = "begin"                     -> {-1, HeightDB}
    [] aux.at \in {"fetch", "store"}        -> {aux.ib - 1}
    [] aux.at = "poll"                      -> {aux.ib}
    [] aux.at = "top" /\ aux.ib > aux.height -> {0, aux.height}
    [] OTHER                                -> {}

AuxFails ==
  /\ "aux" \in Faults
  /\ \E height \in AuxErrorHeights : AuxReturn(height, TRUE)
  /\ AuxOnly

\* The best block of postgres is stored again; an empty one starts at genesis.
AuxBegin ==
  /\ aux.at = "begin"
  /\ aux' = [aux EXCEPT !.at = "top", !.height = NodeHeight, !.ib = AuxHeight]
  /\ AuxOnly

\* (*StakeDatabase).block: from the cache, else from the node.
stakeBlock(h) == IF \E b \in blockCache : HeightOf(b) = h
                 THEN CHOOSE b \in blockCache : HeightOf(b) = h ELSE BlockAt(h)

\* The head of the loop, and the reads with which WaitForHeight begins: the
\* stake DB's height and, for the height it is at, the block.
AuxTop ==
  /\ aux.at = "top"
  /\ CASE aux.ib > aux.height         -> AuxReturn(aux.height, FALSE)
       [] aux.ib <= aux.height /\ ctx -> AuxReturn(aux.ib - 1, FALSE)
       [] OTHER -> aux' = [aux EXCEPT !.at = "register", !.dbh = StakeHeight,
                            !.blk = IF StakeHeight = aux.ib THEN stakeBlock(aux.ib) ELSE NoBlock]
  /\ AuxOnly

\* The rest of WaitForHeight: the channel is put into the map under waitMtx,
\* whatever has been connected since the height was read.
AuxRegister ==
  /\ aux.at = "register"
  /\ aux' = [aux EXCEPT !.at = "fetch", !.chan = IF aux.dbh > aux.ib THEN NoBlock ELSE Silent]
  /\ heightWaiters' = IF aux.dbh > aux.ib THEN heightWaiters ELSE heightWaiters \cup {aux.ib}
  /\ stakeSig' = IF aux.dbh = aux.ib THEN stakeSig \cup {aux.blk} ELSE stakeSig
  /\ UNCHANGED <<node, stakeDB, ldb, stake, poolInfo, blockCache, summary, stakeInfo, pg, gate, gateSig, main, base, ctx>>

AuxFetch ==
  /\ aux.at = "fetch"
  /\ UpdateToBlock(BlockAt(aux.ib))
  /\ aux' = [aux EXCEPT !.at = "wait", !.blk = BlockAt(aux.ib)]
  /\ UNCHANGED <<node, dbVars, main, base, ctx>>

\* The stake DB has answered.  Without pool info the block is passed over, and
\* the node's height is not read again.
AuxReceive ==
  /\ aux.at = "wait"
  /\ aux.chan # Silent
  /\ CASE aux.chan = NoBlock       -> AuxReturn(aux.ib - 1, TRUE)
       [] aux.chan \in poolInfo    -> aux' = [aux EXCEPT !.at = "store"]
       [] OTHER                    -> aux' = [aux EXCEPT !.at = "top", !.ib = @ + 1]
  /\ AuxOnly

\* Mutant: the quit signal is only seen at the head of the loop.
AuxCancelledAtTop ==
  /\ aux.at = "top" /\ ctx
  /\ AuxReturn(aux.ib - 1, FALSE)
  /\ AuxOnly

AuxCancelled ==
  /\ aux.at = "wait" /\ ctx
  /\ AuxReturn(aux.ib - 1, FALSE)
  /\ AuxOnly

\* StoreBlock; its error is ignored.
AuxStore ==
  /\ aux.at = "store"
  /\ \/ pg' = pg \cup {aux.blk}
     \/ "store" \in Faults /\ UNCHANGED pg
  /\ aux' = [aux EXCEPT !.at = "poll"]
  /\ UNCHANGED <<node, stakeDB, ldb, stake, poolInfo, blockCache, heightWaiters, stakeSig, summary, stakeInfo,
                 gate, gateSig, main, base, ctx>>

AuxPoll ==
  /\ aux.at = "poll"
  /\ aux' = [aux EXCEPT !.at = "top", !.ib = @ + 1, !.height = NodeHeight]
  /\ AuxOnly

Aux == \/ AuxBegin \/ AuxTop \/ AuxRegister \/ AuxFetch \/ AuxReceive \/ AuxCancelled
       \/ AuxStore \/ AuxPoll

-----------------------------------------------------------------------------
\* main: the start, getSyncd, waitForSync and ensureSync.

Starting(usePG) ==
  [at |-> "sync", usePG |-> usePG, baseH |-> 0, auxH |-> 0, err |-> FALSE,
   fetchTo |-> IF usePG THEN HeightDB + 1 ELSE Unbounded]

\* Mutant: the pool info of genesis is not set.
NoGenesisInfo == {}

\* NewStakeDatabase and LoadAndRecover cache the pool info of genesis.
GenesisInfo == {BlockAt(0)}

\* Lite mode.
StartLite ==
  /\ main.at = "down" /\ FALSE \in Modes
  /\ main' = Starting(FALSE)
  /\ poolInfo' = GenesisInfo
  /\ UNCHANGED <<node, stakeDB, ldb, stake, blockCache, heightWaiters, stakeSig, summary,
                 stakeInfo, pg, gate, gateSig, base, aux, ctx>>

\* Full mode: the stake DB is rewound to postgres' height, and the pool infos of
\* SQLite from two blocks below it on are put into the cache.
StartFull ==
  /\ main.at = "down" /\ TRUE \in Modes
  /\ main' = Starting(TRUE)
  /\ LET rewound == {SubSeq(stake, 1, k) : k \in (AuxHeight + 1)..Len(stake)}
     IN  /\ stake' = SubSeq(stake, 1, Min({AuxHeight + 1, Len(stake)}))
         /\ stakeDB' = stake'
         /\ ldb' = ldb \cup rewound
  /\ poolInfo' = GenesisInfo \cup {b \in Range(stakeInfo) : HeightOf(b) >= AuxHeight - 2}
  /\ UNCHANGED <<node, blockCache, heightWaiters, stakeSig, summary, stakeInfo, pg,
                 gate, gateSig, base, aux, ctx>>

\* A call fails on the way, the rewinding partly done; main closes the stores.
StartFails ==
  /\ "base" \in Faults
  /\ main.at = "down" /\ TRUE \in Modes
  /\ \E k \in (AuxHeight + 1)..Len(stake) : stake' = SubSeq(stake, 1, k)
  /\ stakeDB' = stake' /\ ldb' = {stake'}
  /\ UNCHANGED <<node, poolInfo, blockCache, heightWaiters, stakeSig, summary, stakeInfo, pg,
                 gate, gateSig, main, base, aux, ctx>>

\* Mutant: the gate is asked for the block after fetchToHeight.
GetSyncdOnePast ==
  /\ main.at = "sync"
  /\ main' = [main EXCEPT !.at = "waitBase"]
  /\ gate' = [EmptyGate EXCEPT !.waiters = {main.fetchTo + 1}]
  /\ gateSig' = {}
  /\ base' = [IdleBase EXCEPT !.at = "begin", !.waitFor = main.fetchTo + 1]
  /\ aux' = IF main.usePG THEN [IdleAux EXCEPT !.at = "begin"]
            ELSE [IdleAux EXCEPT !.at = "done", !.res = -1, !.err = TRUE]
  /\ UNCHANGED <<node, dbVars, ctx>>

\* getSyncd: a new gate, base's request for the block at fetchToHeight, and the
\* two goroutines.  Without postgres aux has its result at once.
GetSyncd ==
  /\ main.at = "sync"
  /\ main' = [main EXCEPT !.at = "waitBase"]
  /\ gate' = [EmptyGate EXCEPT !.waiters = {main.fetchTo}]
  /\ gateSig' = {}
  /\ base' = [IdleBase EXCEPT !.at = "begin", !.waitFor = main.fetchTo]
  /\ aux' = IF main.usePG THEN [IdleAux EXCEPT !.at = "begin"]
            ELSE [IdleAux EXCEPT !.at = "done", !.res = -1, !.err = TRUE]
  /\ UNCHANGED <<node, dbVars, ctx>>

\* CheckConnectivity fails: SyncDBAsync sends its result on the channel that
\* main, its caller, would read.
GetSyncdUnconnected ==
  /\ "connectivity" \in Faults
  /\ main.at = "sync"
  /\ main' = [main EXCEPT !.at = "selfSend"]
  /\ UNCHANGED <<node, dbVars, gate, gateSig, base, aux, ctx>>

ReceiveBase ==
  /\ main.at = "waitBase" /\ base.at = "done"
  /\ main' = [main EXCEPT !.at = "waitAux", !.baseH = base.res, !.err = base.err]
  /\ base' = IdleBase
  /\ ctx' = (ctx \/ base.err)
  /\ UNCHANGED <<node, dbVars, gate, gateSig, aux>>

\* Mutant: aux' result counts in lite mode too.
ReceiveAuxAlways ==
  /\ main.at = "waitAux" /\ aux.at = "done"
  /\ main' = [main EXCEPT !.auxH = aux.res,
                !.at = IF main.err \/ ctx \/ aux.err \/ aux.res # main.baseH
                       THEN "failed" ELSE "synced"]
  /\ aux' = IdleAux
  /\ UNCHANGED <<node, dbVars, gate, gateSig, base, ctx>>

\* Mutant: the two heights are not compared.
ReceiveAuxUncompared ==
  /\ main.at = "waitAux" /\ aux.at = "done"
  /\ main' = [main EXCEPT !.auxH = aux.res,
                !.at = IF main.err \/ ctx \/ (main.usePG /\ aux.err) THEN "failed" ELSE "synced"]
  /\ ctx' = (ctx \/ (main.usePG /\ aux.err))
  /\ aux' = IdleAux
  /\ UNCHANGED <<node, dbVars, gate, gateSig, base>>

\* The rest of waitForSync: its errors, and the heights it compares.
ReceiveAux ==
  /\ main.at = "waitAux" /\ aux.at = "done"
  /\ LET failed == \/ main.err \/ ctx
                   \/ main.usePG /\ (aux.err \/ aux.res # main.baseH)
     IN  main' = [main EXCEPT !.at = IF failed THEN "failed" ELSE "synced", !.auxH = aux.res]
  /\ ctx' = (ctx \/ (main.usePG /\ aux.err))
  /\ aux' = IdleAux
  /\ UNCHANGED <<node, dbVars, gate, gateSig, base>>

\* ensureSync: again, until base's height is the node's.
EnsureSync ==
  /\ main.at = "synced"
  /\ main' = IF main.baseH < NodeHeight
             THEN [main EXCEPT !.at = "sync", !.fetchTo = main.auxH + 1]
             ELSE [main EXCEPT !.at = "ready"]
  /\ UNCHANGED <<node, dbVars, gate, gateSig, base, aux, ctx>>

Main == GetSyncd \/ ReceiveBase \/ ReceiveAux \/ EnsureSync

\* SIGINT.
Cancel ==
  /\ Cancels /\ ~ctx
  /\ main.at \notin {"down", "ready", "failed"}
  /\ ctx' = TRUE
  /\ UNCHANGED <<node, dbVars, gate, gateSig, main, base, aux>>

\* The process has ended, with chain in the store of the stake DB.
Ended(chain) ==
  /\ main' = [main EXCEPT !.at = "down"]
  /\ gate' = EmptyGate /\ gateSig' = {} /\ base' = IdleBase /\ aux' = IdleAux /\ ctx' = FALSE
  /\ stake' = chain /\ stakeDB' = chain /\ ldb' = {chain}
  /\ poolInfo' = {} /\ blockCache' = {} /\ heightWaiters' = {} /\ stakeSig' = {}
  /\ UNCHANGED <<node, summary, stakeInfo, pg>>

\* After its work or a failure: the deferred cleanup closes the stores.
Exit == main.at \in {"ready", "failed"} /\ Ended(stakeDB)

\* By a panic or a kill: the commits in ffldb's cache are lost.
Crash ==
  /\ main.at = "panicked" \/ (Crashes /\ main.at # "down")
  /\ \E chain \in ldb : Ended(chain)

Signal == \/ \E h \in gateSig : signalHeight(h)
          \/ \E b \in stakeSig : signalWaiters(b)

\* Databases at some heights of the node's chain; postgres has every block.
Init ==
  /\ \E n \in 0..MaxHeight, s \in Starts :
       /\ Max({s[1], s[2], s[3]}) <= n
       /\ NewBlocks \/ Reorgs \/ n = MaxHeight
       /\ node = [h \in 1..(n + 1) |-> 0]
       /\ pg = {[h \in 1..(k + 1) |-> 0] : k \in 0..s[1]}
       /\ summary = [k \in 1..(s[2] + 1) |-> [h \in 1..k |-> 0]]
       /\ stake = [k \in 1..(s[3] + 1) |-> [h \in 1..k |-> 0]]
  /\ stakeInfo = summary /\ stakeDB = stake /\ ldb = {stake}
  /\ poolInfo = {} /\ blockCache = {} /\ heightWaiters = {} /\ stakeSig = {}
  /\ gate = EmptyGate /\ gateSig = {} /\ base = IdleBase /\ aux = IdleAux /\ ctx = FALSE
  /\ main = [at |-> "down", usePG |-> FALSE, baseH |-> 0, auxH |-> 0, err |-> FALSE, fetchTo |-> 0]

Next ==
  \/ NewBlock \/ \E k \in 1..NodeHeight : NodeReorg(k)
  \/ StartLite \/ StartFull \/ StartFails
  \/ Main \/ GetSyncdUnconnected \/ Base \/ BaseFailing \/ Aux \/ AuxFails \/ Signal
  \/ Cancel \/ Exit \/ Crash

Spec == Init /\ [][Next]_vars

\* Runnable goroutines run; nothing is assumed of the node, of failures or of
\* signals from outside.
FairSpec == Spec /\ WF_vars(Main) /\ WF_vars(Base) /\ WF_vars(Aux) /\ WF_vars(Signal)

-----------------------------------------------------------------------------
Blocks == UNION {[1..(h + 1) -> 0..1] : h \in 0..MaxHeight}

\* Types of the databases, the gate and the three threads.
TypeOK ==
  /\ node \in Blocks /\ pg \subseteq Blocks
  /\ {stake, stakeDB, summary, stakeInfo} \cup ldb \subseteq Seq(Blocks)
  /\ poolInfo \cup blockCache \cup stakeSig \cup gate.sent \cup Range(gate.q) \subseteq Blocks
  /\ heightWaiters \cup gateSig \subseteq 0..MaxHeight
  /\ gate.waiters \subseteq 0..Unbounded
  /\ base.at \in {"off", "begin", "rewind", "top", "wait", "connect", "summary", "stakeinfo",
                  "skip", "poll", "done"}
  /\ aux.at \in {"off", "begin", "top", "register", "fetch", "wait", "store", "poll", "done"}
  /\ main.at \in {"down", "sync", "selfSend", "waitBase", "waitAux", "synced", "ready", "failed",
                  "panicked"}

\* The check before ConnectBlock that is commented out ("about to connect the
\* wrong block") would never fire: through catching up, rewinding, restarts and
\* hand-overs from aux, the block at each position of the stake DB and of the
\* SQLite tables is the one of that height.
ConnectsInOrder ==
  \A db \in {stake, summary, stakeInfo} : \A k \in 1..Len(db) : HeightOf(db[k]) = k - 1

\* "Winning tickets from StakeDatabase, which just connected the block": also
\* when the chain is reorganized under the sync and across restarts, the block
\* whose winners aux stores was connected, now or by an earlier process that
\* wrote it to SQLite, and has the height of the block they are stored with.
\* That it is the same block is not so then: aux and base each ask the node,
\* and may be given two blocks of one height.
WinnersConnected ==
  aux.at = "store" =>
    /\ aux.chan \in Range(stake) \cup Range(stakeInfo)
    /\ HeightOf(aux.chan) = HeightOf(aux.blk)

\* "DBs must finish at the same height": when getSyncd succeeds, the four stores
\* are at the heights it returns, and these are equal in full mode.  (A sync of
\* postgres that fails at genesis is reported as done at height 0.)
DBsLevel ==
  main.at = "synced" =>
    /\ Len(summary) - 1 = main.baseH /\ Len(stakeInfo) - 1 = main.baseH
    /\ StakeHeight = main.baseH
    /\ main.usePG /\ main.baseH > 0 => HeightDB = main.baseH

\* Base is given every block it waits for: the gate still has the block when
\* signalHeight runs, however late, and when base then asks for it, although
\* only the last GateCap blocks are kept.
GateKeepsAwaited ==
  /\ \A h \in gateSig \cap gate.waiters : \E b \in Range(gate.q) : HeightOf(b) = h
  /\ gate.sent \subseteq Range(gate.q)

\* Without failing calls and quit signals the sync does not fail: no wrong
\* height is compared and no block is "come and gone".
NeverFails == main.at # "failed"

\* "SyncChainDB stores in the DB all blocks on the main chain": when ensureSync
\* is done in full mode, postgres has every block of the node's chain, genesis
\* included, unless the chain is genesis alone (see DBsLevel).
StoresMainChain ==
  [][main.at = "synced" /\ main'.at = "ready" /\ main.usePG /\ main.auxH > 0 =>
       \A h \in 0..main.auxH : BlockAt(h) \in pg]_vars

\* "Wait for the results from both of these DBs": once started, getSyncd returns.
SyncEnds ==
  main.at = "sync" ~> main.at \notin {"sync", "selfSend", "waitBase", "waitAux"}

\* After a quit signal the sync ends, wherever its threads are waiting.
ShutdownEnds == ctx ~> main.at \in {"failed", "ready", "down"}
=============================================================================

----------------------------- MODULE TicketPool -----------------------------
(***************************************************************************)
(* stakedb.TicketPool (v4/stakedb/ticketpool.go): the live ticket pool as  *)
(* a sequence of per-block diffs, a cursor into it, and the pool map at    *)
(* the cursor.  diffDB is the badger database of diffs keyed by height.    *)
(* The methods hold the pool's mutex; job is the method that holds it, so  *)
(* the loops of the code are several steps no other method interleaves.    *)
(*                                                                         *)
(* live and ans are what the chain and the readers see: the live sets of   *)
(* the connected chain, and the latest answer of Pool.                     *)
(***************************************************************************)
EXTENDS Integers, SequencesExt, FiniteSets

CONSTANTS Tickets,     \* ticket hashes
          MaxHeight,   \* bound on the height of the chain
          ReadHeights  \* the heights readers ask Pool for

ASSUME TicketsAssumption == IsFiniteSet(Tickets)
ASSUME HeightAssumption == MaxHeight \in Nat /\ ReadHeights \subseteq Int

VARIABLES cursor, tip, diffs, pool, diffDB, job, live, ans

memVars == <<cursor, tip, diffs, pool>>
tpVars  == <<cursor, tip, diffs, pool, diffDB, job, live, ans>>

PoolDiff == [In : SUBSET Tickets, Out : SUBSET Tickets]

NoJob    == [op |-> "idle", to |-> 0]
NoAnswer == [height |-> -1, pool |-> {}]

\* A block takes the pool from the live set a to b: its maturing tickets
\* enter, the winners it votes on and the tickets it expires leave.
DiffOf(a, b) == [In |-> b \ a, Out |-> a \ b]

applyDiff(p, in, out) == (p \cup in) \ out

\* The size check made after applyDiff, in advance and in retreat.
SizeOK(p, in, out) ==
  Cardinality(applyDiff(p, in, out)) = Cardinality(p) + Cardinality(in) - Cardinality(out)

maxCursor(t) == IF t = 0 THEN 0 ELSE t - 1

\* Mutant: the key is the height of the parent block.
storeDiffOfParent(height, diff) ==
  diffDB' = [h \in DOMAIN diffDB \cup {height - 1} |-> IF h = height - 1 THEN diff ELSE diffDB[h]]

storeDiff(height, diff) ==
  diffDB' = [h \in DOMAIN diffDB \cup {height} |-> IF h = height THEN diff ELSE diffDB[h]]

-----------------------------------------------------------------------------
\* Append and AppendAndAdvancePool up to the write to disk.
BeginAppend(diff, height, op) ==
  /\ job = NoJob
  /\ height = tip + 1
  /\ tip' = tip + 1
  /\ diffs' = Append(diffs, diff)
  /\ job' = [op |-> op, to |-> height]
  /\ UNCHANGED <<cursor, pool, diffDB>>

StoreAppended ==
  /\ job.op \in {"store", "storeAdvance"}
  /\ storeDiff(job.to, Last(diffs))
  /\ job' = IF job.op = "store" THEN NoJob ELSE [job EXCEPT !.op = "advance"]
  /\ UNCHANGED memVars

\* Mutant: trim without its check for an empty pool.
BeginTrimUnchecked ==
  /\ job = NoJob
  /\ tip' = tip - 1
  /\ job' = [op |-> "cut", to |-> 0]
  /\ UNCHANGED <<cursor, diffs, pool, diffDB>>

\* Trim: the tip goes down first, the cursor is then moved below it.
BeginTrim ==
  /\ job = NoJob
  /\ tip # 0 /\ diffs # <<>>
  /\ tip' = tip - 1
  /\ job' = [op |-> "trim", to |-> maxCursor(tip - 1)]
  /\ UNCHANGED <<cursor, diffs, pool, diffDB>>

\* Mutant: the diff is cut off before the cursor has left it.
EndTrimEarly ==
  /\ job.op \in {"cut", "trim"}
  /\ diffs' = Front(diffs)
  /\ job' = NoJob
  /\ UNCHANGED <<cursor, tip, pool, diffDB>>

\* The diff is cut off AFTER retreating, even when a retreat failed ("cut").
EndTrim ==
  /\ job.op = "cut" \/ (job.op = "trim" /\ cursor <= job.to)
  /\ diffs' = Front(diffs)
  /\ job' = NoJob
  /\ UNCHANGED <<cursor, tip, pool, diffDB>>

BeginPool(height) ==
  /\ job = NoJob
  /\ height <= tip
  /\ job' = [op |-> "pool", to |-> height]
  /\ UNCHANGED <<memVars, diffDB>>

\* Mutant: Pool answers for a height below the cursor without going back.
EndPoolAbove ==
  /\ job.op = "pool" /\ cursor >= job.to
  /\ ans' = [height |-> job.to, pool |-> pool]
  /\ job' = NoJob
  /\ UNCHANGED <<memVars, diffDB, live>>

EndPool ==
  /\ job.op = "pool" /\ cursor = job.to
  /\ ans' = [height |-> job.to, pool |-> pool]
  /\ job' = NoJob
  /\ UNCHANGED <<memVars, diffDB, live>>

BeginAdvanceToTip ==
  /\ job = NoJob
  /\ job' = [op |-> "tip", to |-> tip]
  /\ UNCHANGED <<memVars, diffDB>>

EndAdvanceToTip ==
  /\ job.op = "tip" /\ cursor >= job.to
  /\ job' = NoJob
  /\ UNCHANGED <<memVars, diffDB>>

-----------------------------------------------------------------------------
Advancing == \/ job.op \in {"pool", "tip"} /\ cursor < job.to
             \/ job.op = "advance"

AdvanceOK == LET d == diffs[cursor + 1] IN SizeOK(pool, d.In, d.Out)

\* advance(): one diff forward.  A failed size check ends the method with an
\* error, the cursor and the pool already moved.  The error of a cursor at the
\* tip is not a step of its own: no caller reaches it (CursorInBounds).
Advance ==
  /\ Advancing
  /\ cursor <= maxCursor(tip)
  /\ pool' = applyDiff(pool, diffs[cursor + 1].In, diffs[cursor + 1].Out)
  /\ cursor' = cursor + 1
  /\ job' = IF AdvanceOK /\ job.op # "advance" THEN job ELSE NoJob
  /\ UNCHANGED <<tip, diffs, diffDB>>

Retreating == job.op \in {"pool", "trim"} /\ cursor > job.to

RetreatOK == LET d == diffs[cursor] IN SizeOK(pool, d.Out, d.In)

\* Mutant: retreat applies the diff forward.
RetreatForward ==
  /\ Retreating
  /\ cursor # 0
  /\ pool' = applyDiff(pool, diffs[cursor].In, diffs[cursor].Out)
  /\ cursor' = cursor - 1
  /\ UNCHANGED <<job, tip, diffs, diffDB>>

\* retreat(): one diff back.  An error ends Pool; trim goes on to its cut.
Retreat ==
  /\ Retreating
  /\ cursor # 0
  /\ pool' = applyDiff(pool, diffs[cursor].Out, diffs[cursor].In)
  /\ cursor' = cursor - 1
  /\ job' = CASE RetreatOK          -> job
              [] job.op = "trim"    -> [job EXCEPT !.op = "cut"]
              [] OTHER              -> NoJob
  /\ UNCHANGED <<tip, diffs, diffDB>>

\* retreat() at genesis: Pool of a negative height returns the error.
RetreatAtGenesis ==
  /\ Retreating
  /\ cursor = 0
  /\ job' = NoJob
  /\ UNCHANGED <<memVars, diffDB>>

-----------------------------------------------------------------------------
\* The pool driven by one chain, without restarts.
TPInit ==
  /\ cursor = 0 /\ tip = 0 /\ diffs = <<>> /\ pool = {}
  /\ diffDB = [h \in {} |-> NoJob]
  /\ job = NoJob
  /\ live = <<{}>> /\ ans = NoAnswer

ConnectTo(new, op) ==
  /\ tip < MaxHeight
  /\ BeginAppend(DiffOf(Last(live), new), tip + 1, op)
  /\ live' = Append(live, new)
  /\ UNCHANGED ans

Trimmed == EndTrim /\ live' = Front(live) /\ UNCHANGED ans

TPNext ==
  \/ \E new \in SUBSET Tickets, op \in {"store", "storeAdvance"} : ConnectTo(new, op)
  \/ BeginTrim /\ UNCHANGED <<live, ans>>
  \/ Trimmed
  \/ \E h \in ReadHeights : BeginPool(h) /\ UNCHANGED <<live, ans>>
  \/ EndPool
  \/ /\ StoreAppended \/ BeginAdvanceToTip \/ EndAdvanceToTip
           \/ Advance \/ Retreat \/ RetreatAtGenesis
     /\ UNCHANGED <<live, ans>>

TPSpec == TPInit /\ [][TPNext]_tpVars

-----------------------------------------------------------------------------
MemTypeOK ==
  /\ cursor \in Nat /\ tip \in Nat
  /\ diffs \in Seq(PoolDiff)
  /\ pool \in SUBSET Tickets
  /\ DOMAIN diffDB \subseteq Nat \ {0}
  /\ \A h \in DOMAIN diffDB : diffDB[h] \in PoolDiff
  /\ job \in [op : {"idle", "store", "storeAdvance", "advance", "trim", "cut", "pool", "tip"},
             to : Int]

ChainTypeOK ==
  /\ live \in Seq(SUBSET Tickets) /\ Len(live) > 0
  /\ ans \in [height : Int, pool : SUBSET Tickets]

\* Types of the pool's state and of what the chain and the readers see.
TPTypeOK == MemTypeOK /\ ChainTypeOK

\* advance and retreat never index outside diffs: the cursor stays within the
\* diffs through every append, trim (which lowers the tip before it moves the
\* cursor) and failed move, so the slice accesses cannot panic.
CursorInBounds ==
  /\ cursor <= Len(diffs)
  /\ Advancing => cursor <= maxCursor(tip) /\ cursor < Len(diffs)
  /\ tip = Len(diffs) - (IF job.op \in {"trim", "cut"} THEN 1 ELSE 0)

\* "A []PoolDiff stores these diffs, with a cursor pointing to the next
\* unapplied diff": the pool map is the live set of the chain at the height of
\* the cursor, wherever readers, appends and trims have left the cursor.
PoolAtCursor == cursor < Len(live) /\ pool = live[cursor + 1]

\* Every diff in memory is the difference of the chain's live sets around it.
DiffsMatchChain ==
  \A i \in 1..Len(diffs) : i < Len(live) => diffs[i] = DiffOf(live[i], live[i + 1])

\* What the method holding the mutex may rely on.
JobInv ==
  /\ job.op \in {"store", "storeAdvance"} => job.to = Len(diffs)
  /\ job.op \in {"store", "storeAdvance", "advance"} => cursor < Len(diffs)
  /\ job.op \in {"trim", "cut"} => Len(diffs) > 0 /\ job.to = maxCursor(tip)
  /\ job.op = "cut" => cursor < Len(diffs)
  /\ job.op = "tip" => job.to = tip
  /\ job.op = "pool" => job.to <= tip

\* What every method keeps true of the pool's own state, whatever its diffs.
MemInv == MemTypeOK /\ CursorInBounds /\ JobInv

\* The inductive invariant of TPSpec.
TPInv ==
  /\ MemInv /\ ChainTypeOK /\ PoolAtCursor /\ DiffsMatchChain
  /\ Len(live) = Len(diffs) + 1

\* Readers of Pool see the chain's live sets: the pool implements LivePool.
LP == INSTANCE LivePool
ImplementsLivePool == LP!Spec
=============================================================================

-------------------------- MODULE TicketPoolProofs --------------------------
(***************************************************************************)
(* Proofs about the ticket pool: its types, the bounds of the cursor, the  *)
(* pool map at the cursor, and that it implements LivePool.  TPInv is the  *)
(* inductive invariant; each action preserves each of its parts.           *)
(***************************************************************************)
EXTENDS TicketPool, SequenceTheorems, FiniteSetTheorems, TLAPS

\* Applying the diff of two live sets leads from the first to the second, and
\* applying it in reverse leads back.
LEMMA DiffApplies ==
  ASSUME NEW a \in SUBSET Tickets, NEW b \in SUBSET Tickets
  PROVE  /\ applyDiff(a, DiffOf(a, b).In, DiffOf(a, b).Out) = b
         /\ applyDiff(b, DiffOf(a, b).Out, DiffOf(a, b).In) = a
         /\ DiffOf(a, b) \in PoolDiff
BY DEF applyDiff, DiffOf, PoolDiff

\* The size check of advance and retreat never fails on the diff of two live
\* sets: neither method returns its "pool size" error on a true diff.
LEMMA SizeCheckHolds ==
  ASSUME NEW a \in SUBSET Tickets, NEW b \in SUBSET Tickets
  PROVE  SizeOK(a, DiffOf(a, b).In, DiffOf(a, b).Out)
<1>1. IsFiniteSet(a) /\ IsFiniteSet(b)
  BY TicketsAssumption, FS_Subset
<1>2. /\ IsFiniteSet(b \ a) /\ IsFiniteSet(a \ b)
      /\ Cardinality(b \ a) = Cardinality(b) - Cardinality(b \cap a)
      /\ Cardinality(a \ b) = Cardinality(a) - Cardinality(a \cap b)
  BY <1>1, FS_Difference
<1>3. a \cap b = b \cap a /\ IsFiniteSet(a \cap b)
  BY <1>1, FS_Intersection
<1>4. /\ Cardinality(a) \in Nat /\ Cardinality(b) \in Nat
      /\ Cardinality(a \cap b) \in Nat
  BY <1>1, <1>3, FS_CardinalityType
<1>5. applyDiff(a, DiffOf(a, b).In, DiffOf(a, b).Out) = b
  BY DiffApplies
<1>6. DiffOf(a, b).In = b \ a /\ DiffOf(a, b).Out = a \ b
  BY DEF DiffOf
<1> DEFINE na == Cardinality(a)        nb == Cardinality(b)
           in == Cardinality(b \ a)    out == Cardinality(a \ b)
           common == Cardinality(a \cap b)
<1>7. nb = na + in - out
  <2>1. in = nb - common /\ out = na - common
    BY <1>2, <1>3
  <2>2. na \in Nat /\ nb \in Nat /\ common \in Nat
    BY <1>4
  <2> HIDE DEF na, nb, in, out, common
  <2> QED
    BY <2>1, <2>2
<1> QED
  BY <1>5, <1>6, <1>7 DEF SizeOK

\* Facts about cutting the last element off a sequence.
LEMMA FrontFacts ==
  ASSUME NEW S, NEW s \in Seq(S), Len(s) > 0
  PROVE  /\ Front(s) \in Seq(S)
         /\ Len(Front(s)) = Len(s) - 1
         /\ \A i \in 1..(Len(s) - 1) : Front(s)[i] = s[i]
<1> DEFINE n == Len(s) - 1
<1>1. n \in Nat /\ n < Len(s)
  OBVIOUS
<1>2. Front(s) = SubSeq(s, 1, n)
  BY DEF Front
<1> HIDE DEF n
<1>3. SubSeq(s, 1, n) \in Seq(S)
  BY <1>1
<1>4. Len(SubSeq(s, 1, n)) = n
  BY <1>1
<1>5. \A i \in 1..n : SubSeq(s, 1, n)[i] = s[i]
  BY <1>1
<1> QED
  BY <1>2, <1>3, <1>4, <1>5 DEF n

\* Facts about appending an element to a sequence.
LEMMA AppendFacts ==
  ASSUME NEW S, NEW s \in Seq(S), NEW e \in S
  PROVE  /\ Append(s, e) \in Seq(S)
         /\ Len(Append(s, e)) = Len(s) + 1
         /\ \A i \in 1..Len(s) : Append(s, e)[i] = s[i]
         /\ Append(s, e)[Len(s) + 1] = e
BY AppendProperties
-----------------------------------------------------------------------------
(* The methods on the pool's own state keep MemInv.  These lemmas do not     *)
(* mention the chain: the stake database's proofs use them too.              *)

LEMMA BeginAppendMem ==
  ASSUME MemInv, NEW diff \in PoolDiff, NEW op \in {"store", "storeAdvance"},
         BeginAppend(diff, tip + 1, op)
  PROVE  MemInv'
<1>1. /\ diffs' \in Seq(PoolDiff) /\ Len(diffs') = Len(diffs) + 1
  BY AppendFacts DEF MemInv, MemTypeOK, BeginAppend
<1>2. tip = Len(diffs)
  BY DEF MemInv, CursorInBounds, BeginAppend, NoJob
<1>3. MemTypeOK'
  BY <1>1 DEF MemInv, MemTypeOK, BeginAppend
<1>4. CursorInBounds'
  BY <1>1, <1>2 DEF MemInv, MemTypeOK, CursorInBounds, Advancing, BeginAppend
<1>5. JobInv'
  BY <1>1, <1>2 DEF MemInv, MemTypeOK, CursorInBounds, JobInv, BeginAppend
<1> QED
  BY <1>3, <1>4, <1>5 DEF MemInv

LEMMA StoreAppendedMem ==
  ASSUME MemInv, StoreAppended
  PROVE  MemInv'
<1>1. Len(diffs) > 0 /\ Last(diffs) \in PoolDiff /\ job.to = Len(diffs)
  <2>1. Len(diffs) > 0 /\ job.to = Len(diffs)
    BY DEF MemInv, MemTypeOK, JobInv, StoreAppended
  <2> QED
    BY <2>1 DEF MemInv, MemTypeOK, Last
<1>2. MemTypeOK'
  BY <1>1 DEF MemInv, MemTypeOK, StoreAppended, storeDiff, memVars, NoJob
<1>3. CursorInBounds'
  BY <1>1 DEF MemInv, MemTypeOK, CursorInBounds, JobInv, Advancing, StoreAppended,
              memVars, NoJob, maxCursor
<1>4. JobInv'
  BY <1>1 DEF MemInv, MemTypeOK, JobInv, StoreAppended, memVars, NoJob
<1> QED
  BY <1>2, <1>3, <1>4 DEF MemInv

LEMMA BeginTrimMem ==
  ASSUME MemInv, BeginTrim
  PROVE  MemInv'
<1>1. tip = Len(diffs) /\ tip > 0 /\ maxCursor(tip - 1) \in Nat
  BY DEF MemInv, MemTypeOK, CursorInBounds, BeginTrim, NoJob, maxCursor
<1>2. MemTypeOK'
  BY <1>1 DEF MemInv, MemTypeOK, BeginTrim
<1>3. CursorInBounds'
  BY <1>1 DEF MemInv, MemTypeOK, CursorInBounds, Advancing, BeginTrim
<1>4. JobInv'
  BY <1>1 DEF MemInv, MemTypeOK, JobInv, BeginTrim
<1> QED
  BY <1>2, <1>3, <1>4 DEF MemInv

LEMMA EndTrimMem ==
  ASSUME MemInv, EndTrim
  PROVE  /\ MemInv'
         /\ Len(diffs) > 0 /\ Len(diffs') = Len(diffs) - 1 /\ tip = Len(diffs')
         /\ \A i \in 1..Len(diffs') : diffs'[i] = diffs[i]
<1>1. Len(diffs) > 0 /\ tip = Len(diffs) - 1
  BY DEF MemInv, MemTypeOK, CursorInBounds, JobInv, EndTrim
<1>2. /\ diffs' \in Seq(PoolDiff) /\ Len(diffs') = Len(diffs) - 1
      /\ \A i \in 1..Len(diffs') : diffs'[i] = diffs[i]
  BY <1>1, FrontFacts DEF MemInv, MemTypeOK, EndTrim
<1>3. cursor <= Len(diffs')
  BY <1>1, <1>2 DEF MemInv, MemTypeOK, JobInv, EndTrim, maxCursor
<1>4. MemTypeOK'
  BY <1>2 DEF MemInv, MemTypeOK, EndTrim, NoJob
<1>5. CursorInBounds'
  BY <1>1, <1>2, <1>3 DEF CursorInBounds, Advancing, EndTrim, NoJob
<1>6. JobInv'
  BY DEF JobInv, EndTrim, NoJob
<1> QED
  BY <1>1, <1>2, <1>4, <1>5, <1>6 DEF MemInv

\* The steps that change only job: the calls of Pool and AdvanceToTip, their
\* returns, and the error of retreat at genesis.
LEMMA JobOnlyMem ==
  ASSUME MemInv, UNCHANGED <<memVars, diffDB>>,
         \/ \E h \in Int : BeginPool(h)
         \/ EndPool \/ BeginAdvanceToTip \/ EndAdvanceToTip \/ RetreatAtGenesis
  PROVE  MemInv'
<1>1. \/ job' = NoJob
      \/ job = NoJob /\ job' = [op |-> "tip", to |-> tip]
      \/ \E h \in Int : job = NoJob /\ h <= tip /\ job' = [op |-> "pool", to |-> h]
  BY DEF BeginPool, EndPool, BeginAdvanceToTip, EndAdvanceToTip, RetreatAtGenesis
<1>2. job.op \notin {"trim", "cut"} /\ tip = Len(diffs)
  <2>1. CASE job = NoJob
    BY <2>1 DEF MemInv, CursorInBounds, NoJob, MemTypeOK
  <2>2. CASE job # NoJob
    <3>1. job.op = "trim" => job.to >= 0
      BY DEF MemInv, MemTypeOK, JobInv, maxCursor
    <3>2. ~(RetreatAtGenesis /\ job.op = "trim")
      BY <3>1 DEF RetreatAtGenesis, Retreating, MemInv, MemTypeOK
    <3>3. job.op \in {"pool", "tip"}
      BY <2>2, <3>2 DEF EndPool, EndAdvanceToTip, BeginPool, BeginAdvanceToTip,
                        RetreatAtGenesis, Retreating
    <3> QED
      BY <3>3 DEF MemInv, CursorInBounds, MemTypeOK
  <2> QED
    BY <2>1, <2>2
<1>3. MemTypeOK'
  BY <1>1 DEF MemInv, MemTypeOK, NoJob, memVars
<1>4. CursorInBounds'
  BY <1>1, <1>2 DEF MemInv, MemTypeOK, CursorInBounds, Advancing, NoJob, memVars, maxCursor
<1>5. JobInv'
  BY <1>1, <1>2 DEF MemInv, MemTypeOK, JobInv, NoJob, memVars
<1> QED
  BY <1>3, <1>4, <1>5 DEF MemInv

LEMMA AdvanceMem ==
  ASSUME MemInv, Advance
  PROVE  MemInv' /\ cursor < Len(diffs) /\ diffs[cursor + 1] \in PoolDiff
<1>1. /\ cursor < Len(diffs) /\ tip = Len(diffs) /\ job.op \in {"pool", "tip", "advance"}
      /\ diffs[cursor + 1] \in PoolDiff
  BY DEF MemInv, MemTypeOK, CursorInBounds, Advance, Advancing
<1>2. job' \in {job, NoJob} /\ (job' = job => cursor < job.to)
  BY DEF Advance, Advancing, NoJob
<1>3. MemTypeOK'
  BY <1>1, <1>2 DEF MemInv, MemTypeOK, Advance, applyDiff, PoolDiff, NoJob
<1>4. CursorInBounds'
  BY <1>1, <1>2 DEF MemInv, MemTypeOK, CursorInBounds, JobInv, Advancing, Advance, NoJob, maxCursor
<1>5. JobInv'
  BY <1>1, <1>2 DEF MemInv, MemTypeOK, JobInv, Advance, NoJob
<1> QED
  BY <1>1, <1>3, <1>4, <1>5 DEF MemInv

LEMMA RetreatMem ==
  ASSUME MemInv, Retreat
  PROVE  MemInv' /\ cursor \in 1..Len(diffs) /\ diffs[cursor] \in PoolDiff
<1>1. /\ cursor \in 1..Len(diffs) /\ job.op \in {"pool", "trim"} /\ cursor > job.to
      /\ diffs[cursor] \in PoolDiff
  BY DEF MemInv, MemTypeOK, CursorInBounds, Retreat, Retreating
<1>2. \/ job' = job
      \/ job.op = "trim" /\ job' = [job EXCEPT !.op = "cut"]
      \/ job.op = "pool" /\ job' = NoJob
  BY <1>1 DEF Retreat
<1>3. MemTypeOK'
  BY <1>1, <1>2 DEF MemInv, MemTypeOK, Retreat, applyDiff, PoolDiff, NoJob
<1>4. CursorInBounds'
  BY <1>1, <1>2 DEF MemInv, MemTypeOK, CursorInBounds, JobInv, Advancing, Retreat, NoJob, maxCursor
<1>5. JobInv'
  BY <1>1, <1>2 DEF MemInv, MemTypeOK, CursorInBounds, JobInv, Retreat, NoJob, maxCursor
<1> QED
  BY <1>1, <1>3, <1>4, <1>5 DEF MemInv

-----------------------------------------------------------------------------
(* A move of the cursor keeps the pool map at the chain's live set.          *)

LEMMA AdvancePoolAtCursor ==
  ASSUME MemInv, live \in Seq(SUBSET Tickets), DiffsMatchChain, PoolAtCursor,
         Advance, UNCHANGED live, cursor + 1 < Len(live)
  PROVE  PoolAtCursor' /\ DiffsMatchChain' /\ AdvanceOK
<1>1. cursor \in Nat /\ cursor < Len(diffs)
  BY AdvanceMem DEF MemInv, MemTypeOK
<1>2. diffs[cursor + 1] = DiffOf(live[cursor + 1], live[cursor + 2])
  BY <1>1 DEF DiffsMatchChain
<1>3. live[cursor + 1] \in SUBSET Tickets /\ live[cursor + 2] \in SUBSET Tickets
  BY <1>1
<1>4. pool' = live[cursor + 2]
  BY <1>2, <1>3, DiffApplies DEF Advance, PoolAtCursor
<1>5. AdvanceOK
  BY <1>2, <1>3, SizeCheckHolds DEF AdvanceOK, PoolAtCursor
<1> QED
  BY <1>1, <1>4, <1>5 DEF Advance, PoolAtCursor, DiffsMatchChain

LEMMA RetreatPoolAtCursor ==
  ASSUME MemInv, live \in Seq(SUBSET Tickets), DiffsMatchChain, PoolAtCursor,
         Retreat, UNCHANGED live
  PROVE  PoolAtCursor' /\ DiffsMatchChain'
<1>1. cursor \in 1..Len(diffs) /\ cursor < Len(live)
  BY RetreatMem DEF PoolAtCursor
<1>2. diffs[cursor] = DiffOf(live[cursor], live[cursor + 1])
  BY <1>1 DEF DiffsMatchChain
<1>3. live[cursor] \in SUBSET Tickets /\ live[cursor + 1] \in SUBSET Tickets
  BY <1>1
<1>4. pool' = live[cursor]
  BY <1>2, <1>3, DiffApplies DEF Retreat, PoolAtCursor
<1> QED
  BY <1>1, <1>4 DEF Retreat, PoolAtCursor, DiffsMatchChain

-----------------------------------------------------------------------------
LEMMA TPInitInv == TPInit => TPInv
<1> SUFFICES ASSUME TPInit PROVE TPInv
  OBVIOUS
<1>1. MemInv
  BY DEF TPInit, NoJob, MemInv, MemTypeOK, CursorInBounds, JobInv, Advancing, PoolDiff
<1>2. ChainTypeOK /\ PoolAtCursor /\ DiffsMatchChain /\ Len(live) = Len(diffs) + 1
  BY DEF TPInit, NoAnswer, ChainTypeOK, PoolAtCursor, DiffsMatchChain
<1> QED
  BY <1>1, <1>2 DEF TPInv

\* One step of the pool, by action.
LEMMA TPNextInv == TPInv /\ [TPNext]_tpVars => TPInv'
<1> SUFFICES ASSUME TPInv, [TPNext]_tpVars PROVE TPInv'
  OBVIOUS
<1> USE DEF TPInv
<1>1. ASSUME NEW new \in SUBSET Tickets, NEW op \in {"store", "storeAdvance"}, ConnectTo(new, op)
      PROVE  TPInv'
  <2>1. Last(live) = live[Len(live)] /\ Last(live) \in SUBSET Tickets
    BY DEF ChainTypeOK, Last
  <2> DEFINE diff == DiffOf(Last(live), new)
  <2>2. diff \in PoolDiff /\ BeginAppend(diff, tip + 1, op)
    BY <1>1, <2>1, DiffApplies DEF ConnectTo
  <2>3. MemInv'
    BY <2>2, BeginAppendMem
  <2>4. /\ live' \in Seq(SUBSET Tickets) /\ Len(live') = Len(live) + 1
        /\ \A i \in 1..Len(live) : live'[i] = live[i]
        /\ live'[Len(live) + 1] = new
    BY <1>1, AppendFacts DEF ConnectTo, ChainTypeOK
  <2>5. /\ Len(diffs') = Len(diffs) + 1
        /\ \A i \in 1..Len(diffs) : diffs'[i] = diffs[i]
        /\ diffs'[Len(diffs) + 1] = diff
    BY <2>2, AppendFacts DEF BeginAppend, MemInv, MemTypeOK
  <2>6. ChainTypeOK'
    BY <1>1, <2>4 DEF ConnectTo, ChainTypeOK
  <2>7. PoolAtCursor'
    BY <2>2, <2>4 DEF PoolAtCursor, BeginAppend, MemInv, MemTypeOK, ChainTypeOK
  <2>8. ASSUME NEW i \in 1..Len(diffs') PROVE diffs'[i] = DiffOf(live'[i], live'[i + 1])
    <3>1. CASE i = Len(diffs) + 1
      BY <3>1, <2>1, <2>4, <2>5 DEF ChainTypeOK
    <3>2. CASE i \in 1..Len(diffs)
      <4>1. i \in 1..Len(live) /\ i + 1 \in 1..Len(live) /\ i < Len(live)
        BY <3>2 DEF ChainTypeOK, MemInv, MemTypeOK
      <4>2. diffs'[i] = diffs[i] /\ live'[i] = live[i] /\ live'[i + 1] = live[i + 1]
        BY <3>2, <4>1, <2>4, <2>5
      <4> QED
        BY <3>2, <4>1, <4>2 DEF DiffsMatchChain
    <3> QED
      BY <3>1, <3>2, <2>5 DEF MemInv, MemTypeOK
  <2> QED
    BY <2>3, <2>4, <2>5, <2>6, <2>7, <2>8 DEF DiffsMatchChain
<1>2. CASE BeginTrim /\ UNCHANGED <<live, ans>>
  BY <1>2, BeginTrimMem DEF BeginTrim, ChainTypeOK, PoolAtCursor, DiffsMatchChain
<1>3. CASE Trimmed
  <2>1. /\ MemInv'
        /\ Len(diffs) > 0 /\ Len(diffs') = Len(diffs) - 1
        /\ \A i \in 1..Len(diffs') : diffs'[i] = diffs[i]
    BY <1>3, EndTrimMem DEF Trimmed
  <2>2. /\ live' \in Seq(SUBSET Tickets) /\ Len(live') = Len(live) - 1
        /\ \A i \in 1..Len(live') : live'[i] = live[i]
    BY <1>3, <2>1, FrontFacts DEF Trimmed, ChainTypeOK
  <2>3. ChainTypeOK'
    BY <1>3, <2>1, <2>2 DEF Trimmed, ChainTypeOK
  <2>4. cursor <= Len(diffs')
    BY <2>1, <1>3 DEF MemInv, CursorInBounds, Trimmed, EndTrim
  <2>5. PoolAtCursor'
    BY <1>3, <2>1, <2>2, <2>4 DEF Trimmed, EndTrim, PoolAtCursor, MemInv, MemTypeOK
  <2>6. ASSUME NEW i \in 1..Len(diffs') PROVE diffs'[i] = DiffOf(live'[i], live'[i + 1])
    <3>1. /\ i \in 1..Len(diffs) /\ i < Len(live)
          /\ i \in 1..Len(live') /\ i + 1 \in 1..Len(live')
      BY <2>1, <2>2 DEF ChainTypeOK, MemInv, MemTypeOK
    <3>2. diffs'[i] = diffs[i] /\ live'[i] = live[i] /\ live'[i + 1] = live[i + 1]
      BY <3>1, <2>1, <2>2
    <3> QED
      BY <3>1, <3>2 DEF DiffsMatchChain
  <2> QED
    BY <2>1, <2>2, <2>3, <2>5, <2>6 DEF ChainTypeOK, DiffsMatchChain
<1>4. ASSUME NEW h \in ReadHeights, BeginPool(h), UNCHANGED <<live, ans>>
      PROVE  TPInv'
  <2>1. h \in Int
    BY HeightAssumption
  <2>2. MemInv'
    BY <1>4, <2>1, JobOnlyMem DEF BeginPool
  <2> QED
    BY <1>4, <2>2 DEF BeginPool, memVars, ChainTypeOK, PoolAtCursor, DiffsMatchChain
<1>5. CASE EndPool
  <2>1. MemInv'
    BY <1>5, JobOnlyMem DEF EndPool
  <2>2. ChainTypeOK'
    BY <1>5 DEF EndPool, ChainTypeOK, MemInv, MemTypeOK
  <2> QED
    BY <1>5, <2>1, <2>2 DEF EndPool, memVars, PoolAtCursor, DiffsMatchChain
<1>6. CASE /\ StoreAppended \/ BeginAdvanceToTip \/ EndAdvanceToTip \/ RetreatAtGenesis
           /\ UNCHANGED <<live, ans>>
  <2>1. UNCHANGED memVars
    BY <1>6 DEF StoreAppended, BeginAdvanceToTip, EndAdvanceToTip, RetreatAtGenesis
  <2>2. MemInv'
    BY <1>6, StoreAppendedMem, JobOnlyMem
       DEF BeginAdvanceToTip, EndAdvanceToTip, RetreatAtGenesis
  <2> QED
    BY <1>6, <2>1, <2>2 DEF memVars, ChainTypeOK, PoolAtCursor, DiffsMatchChain
<1>7. CASE Advance /\ UNCHANGED <<live, ans>>
  <2>1. MemInv' /\ cursor < Len(diffs)
    BY <1>7, AdvanceMem
  <2>2. PoolAtCursor' /\ DiffsMatchChain'
    BY <1>7, <2>1, AdvancePoolAtCursor DEF ChainTypeOK, MemInv, MemTypeOK
  <2> QED
    BY <1>7, <2>1, <2>2 DEF Advance, ChainTypeOK
<1>8. CASE Retreat /\ UNCHANGED <<live, ans>>
  <2>1. MemInv'
    BY <1>8, RetreatMem
  <2>2. PoolAtCursor' /\ DiffsMatchChain'
    BY <1>8, RetreatPoolAtCursor DEF ChainTypeOK
  <2> QED
    BY <1>8, <2>1, <2>2 DEF Retreat, ChainTypeOK
<1>9. CASE UNCHANGED tpVars
  BY <1>9 DEF tpVars, MemInv, MemTypeOK, CursorInBounds, JobInv, Advancing,
              ChainTypeOK, PoolAtCursor, DiffsMatchChain
<1> QED
  BY <1>1, <1>2, <1>3, <1>4, <1>5, <1>6, <1>7, <1>8, <1>9 DEF TPNext

-----------------------------------------------------------------------------
\* TPInv holds of every state of the ticket pool, for any number of tickets,
\* heights and readers.
THEOREM TPInvariance == TPSpec => []TPInv
BY TPInitInv, TPNextInv, PTL DEF TPSpec

\* The pool's state keeps its types.
THEOREM TPTypeCorrect == TPSpec => []TPTypeOK
<1>1. TPInv => TPTypeOK
  BY DEF TPInv, MemInv, TPTypeOK
<1> QED
  BY <1>1, TPInvariance, PTL

\* No slice access of advance, retreat or trim is out of range.
THEOREM CursorAlwaysInBounds == TPSpec => []CursorInBounds
<1>1. TPInv => CursorInBounds
  BY DEF TPInv, MemInv
<1> QED
  BY <1>1, TPInvariance, PTL

\* The pool map is the chain's live set at the cursor, wherever appends, trims
\* and readers have moved it.
THEOREM PoolAlwaysAtCursor == TPSpec => []PoolAtCursor
<1>1. TPInv => PoolAtCursor
  BY DEF TPInv
<1> QED
  BY <1>1, TPInvariance, PTL

\* The ticket pool implements LivePool: every answer of Pool is the chain's
\* live set at the height asked for, at the moment of the answer.
THEOREM TicketPoolRefinesLivePool == TPSpec => ImplementsLivePool
<1>1. TPInit => LP!Init
  BY DEF TPInit, LP!Init, NoAnswer, LP!NoAnswer
<1>2. TPInv /\ [TPNext]_tpVars => [LP!Next]_(LP!vars)
  <2> SUFFICES ASSUME TPInv, [TPNext]_tpVars PROVE LP!Next \/ UNCHANGED <<live, ans>>
    BY DEF LP!vars
  <2>1. ASSUME NEW new \in SUBSET Tickets, NEW op \in {"store", "storeAdvance"}, ConnectTo(new, op)
        PROVE  LP!Next
    BY <2>1 DEF ConnectTo, LP!Next, LP!Connect
  <2>2. CASE Trimmed
    <3>1. Len(diffs) > 0
      BY <2>2, EndTrimMem DEF Trimmed, TPInv
    <3>2. Len(live) > 1
      BY <3>1 DEF TPInv, MemInv, MemTypeOK
    <3> QED
      BY <2>2, <3>2 DEF Trimmed, Front, LP!Next, LP!Disconnect
  <2>3. CASE EndPool
    <3>1. /\ job.to = cursor /\ cursor \in 0..(Len(live) - 1)
          /\ pool = live[cursor + 1]
      BY <2>3 DEF EndPool, TPInv, PoolAtCursor, MemInv, MemTypeOK, ChainTypeOK
    <3>2. ans' = [height |-> cursor, pool |-> live[cursor + 1]] /\ UNCHANGED live
      BY <2>3, <3>1 DEF EndPool
    <3> QED
      BY <3>1, <3>2 DEF LP!Next, LP!Query
  <2>4. CASE UNCHANGED tpVars
    BY <2>4 DEF tpVars
  <2> QED
    BY <2>1, <2>2, <2>3, <2>4 DEF TPNext
<1> QED
  BY <1>1, <1>2, TPInvariance, PTL DEF TPSpec, ImplementsLivePool, LP!Spec
=============================================================================

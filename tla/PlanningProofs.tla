--------------------------- MODULE PlanningProofs ---------------------------
(***************************************************************************)
(* Proofs about DeployBlock, for every chain, history and number of        *)
(* attempts, and about the plan that Planning makes of its answer, for     *)
(* every block interval, chunk size and cap.                               *)
(***************************************************************************)
EXTENDS Planning, ChunkLemmas

-----------------------------------------------------------------------------
(* The search.                                                             *)

\* The midpoint of an interval of more than two blocks is strictly inside it.
LEMMA MiddleInside ==
  ASSUME NEW l \in Nat, NEW h \in Nat, l + 1 < h
  PROVE  Middle(l, h) \in Nat /\ l < Middle(l, h) /\ Middle(l, h) < h
<1>1. \A n \in Nat : n >= 2 => n \div 2 >= 1 /\ n \div 2 < n /\ n \div 2 \in Nat
  OBVIOUS
<1>2. h - l \in Nat /\ h - l >= 2
  OBVIOUS
<1> DEFINE half == (h - l) \div 2
<1>3. half >= 1 /\ half < h - l /\ half \in Nat
  BY <1>1, <1>2
<1>4. Middle(l, h) = l + half
  BY DEF Middle
<1> HIDE DEF half
<1> QED BY <1>3, <1>4

\* One turn of the loop keeps the type and what the interval straddles.
LEMMA SearchTurn ==
  ASSUME DeployTypeOK, NEW l \in Nat, NEW h \in Nat, l < h, h <= latest,
         l \notin code, h \in code, Search(l, h), UNCHANGED <<code, latest>>
  PROVE  /\ DeployTypeOK' /\ Straddles'
         /\ lo' = l /\ hi' = h
         /\ pc' = "found" => hi' - 1 = l
<1>1. CASE l + 1 < h
  <2>1. lo' = l /\ hi' = h /\ pc' = "search" /\ asked' = Middle(l, h) /\ attempt' = 1
    BY <1>1 DEF Search, Ask
  <2> QED BY <1>1, <2>1, MiddleInside, DeployAssumption DEF DeployTypeOK, Straddles
<1>2. CASE ~(l + 1 < h)
  <2>1. lo' = l /\ hi' = h /\ pc' = "found" /\ UNCHANGED <<asked, attempt>>
    BY <1>2 DEF Search
  <2> QED BY <1>2, <2>1 DEF DeployTypeOK, Straddles
<1> QED BY <1>1, <1>2

\* Type correctness with the straddled interval and the answer's meaning: inductive.
DeployInv == DeployTypeOK /\ Straddles /\ FoundIsDeployment

LEMMA DeployInvariant == Spec => []DeployInv
<1>1. Init => DeployInv
  BY DeployAssumption DEF Init, DeployInv, DeployTypeOK, Straddles, FoundIsDeployment
<1>2. DeployInv /\ [Next]_vars => DeployInv'
  <2> SUFFICES ASSUME DeployInv, [Next]_vars PROVE DeployInv'
    OBVIOUS
  <2>1. DeployTypeOK /\ Straddles /\ FoundIsDeployment
    BY DEF DeployInv
  <2>2. CASE HeadAnswers
    BY <2>1, <2>2, DeployAssumption
    DEF HeadAnswers, Ask, DeployInv, DeployTypeOK, Straddles, FoundIsDeployment
  <2>3. CASE GenesisAnswers
    <3>1. CASE 0 \in code
      BY <2>1, <2>3, <3>1 DEF GenesisAnswers, DeployInv, DeployTypeOK, Straddles, FoundIsDeployment
    <3>2. CASE 0 \notin code
      <4>1. /\ asked = 0 /\ latest \in Nat /\ latest \in code
            /\ Search(0, latest) /\ UNCHANGED <<code, latest>>
        BY <2>1, <2>3, <3>2 DEF GenesisAnswers, DeployTypeOK
      <4>2. 0 < latest
        BY <3>2, <4>1
      <4>3. DeployTypeOK' /\ Straddles' /\ hi' = latest /\ (pc' = "found" => hi' - 1 = 0)
        BY <2>1, <3>2, <4>1, <4>2, SearchTurn
      <4> QED BY <3>2, <4>1, <4>3 DEF DeployInv, FoundIsDeployment
    <3> QED BY <3>1, <3>2
  <2>4. CASE SearchAnswers
    <3>1. /\ lo \in Nat /\ hi \in Nat /\ asked \in Nat /\ lo < asked /\ asked < hi
          /\ hi <= latest /\ latest \in Nat /\ lo \notin code /\ hi \in code
          /\ UNCHANGED <<code, latest>>
      BY <2>1, <2>4 DEF SearchAnswers, DeployTypeOK, Straddles
    <3>2. CASE asked \in code
      <4>1. Search(lo, asked)
        BY <2>4, <3>2 DEF SearchAnswers
      <4>2. DeployTypeOK' /\ Straddles' /\ hi' = asked /\ (pc' = "found" => hi' - 1 = lo)
        BY <2>1, <3>1, <3>2, <4>1, SearchTurn
      <4> QED BY <3>1, <3>2, <4>2 DEF DeployInv, FoundIsDeployment
    <3>3. CASE asked \notin code
      <4>1. Search(asked, hi)
        BY <2>4, <3>3 DEF SearchAnswers
      <4>2. DeployTypeOK' /\ Straddles' /\ hi' = hi /\ (pc' = "found" => hi' - 1 = asked)
        BY <2>1, <3>1, <3>3, <4>1, SearchTurn
      <4> QED BY <3>1, <3>3, <4>2 DEF DeployInv, FoundIsDeployment
    <3> QED BY <3>2, <3>3
  <2>5. CASE CallRetries
    BY <2>1, <2>5, DeployAssumption
    DEF CallRetries, Calling, DeployInv, DeployTypeOK, Straddles, FoundIsDeployment
  <2>6. CASE CallFails \/ UNCHANGED vars
    BY <2>1, <2>6 DEF CallFails, vars, DeployInv, DeployTypeOK, Straddles, FoundIsDeployment
  <2> QED BY <2>2, <2>3, <2>4, <2>5, <2>6 DEF Next
<1> QED BY <1>1, <1>2, PTL DEF Spec

\* The search never asks for a block outside its interval, nor past its last attempt (Client.Do).
THEOREM SearchTypes == Spec => []DeployTypeOK
<1>1. DeployInv => DeployTypeOK
  BY DEF DeployInv
<1> QED BY <1>1, DeployInvariant, PTL

\* FindDeployBlock returns a block the contract appeared in, for every head, every
\* history of the address and whatever calls failed on the way.
THEOREM Found == Spec => []FoundIsDeployment
<1>1. DeployInv => FoundIsDeployment
  BY DEF DeployInv
<1> QED BY <1>1, DeployInvariant, PTL

\* For a contract that never lost its code that block is the first with code: the scan
\* from it misses no Transfer log.
THEOREM FoundFirst == Spec => []FoundIsFirst
<1>1. DeployInv => FoundIsFirst
  <2> SUFFICES ASSUME DeployInv, pc = "found", DeployedOnce, NEW n \in code PROVE hi <= n
    BY DEF FoundIsFirst
  <2>1. /\ hi = 0 \/ hi - 1 \notin code
        /\ n \in 0 .. latest /\ hi \in Nat /\ hi <= latest /\ latest \in Nat
    BY DEF DeployInv, DeployTypeOK, FoundIsDeployment
  <2>2. SUFFICES ASSUME n < hi PROVE FALSE
    BY <2>1
  <2>3. hi - 1 \in 0 .. latest /\ n <= hi - 1
    BY <2>1, <2>2
  <2> QED BY <2>1, <2>2, <2>3 DEF DeployedOnce
<1> QED BY <1>1, DeployInvariant, PTL

-----------------------------------------------------------------------------
(* The plan.                                                               *)

\* The search inside Planning is that of DeployBlock.
LEMMA PlanSearches == PlanSpec => Spec
<1>1. PlanInit => Init
  BY DEF PlanInit
<1>2. [PlanNext]_allVars => [Next]_vars
  BY DEF PlanNext, Plan, FindDeployBlock, allVars
<1> QED BY <1>1, <1>2, PTL DEF PlanSpec, Spec

\* Once there is a plan the search is over, and the plan is buildChunks of an interval
\* from its answer on, far from the end of uint64.
Planned ==
  /\ pc \in {"found", "failed"}
  /\ range.from = FromBlock /\ range.from \in Nat /\ range.to \in Nat /\ range.from <= range.to
  /\ size \in Nat \ {0} /\ range.to + size <= Word
  /\ plan = buildChunks(range.from, range.to, size)

PlanInv == plan # << >> => Planned

LEMMA PlanAlways == PlanSpec => [](PlanInv /\ DeployInv)
<1>1. PlanInit => PlanInv
  BY DEF PlanInit, PlanInv
<1>2. PlanInv /\ DeployInv /\ [PlanNext]_allVars => PlanInv'
  <2> SUFFICES ASSUME PlanInv, DeployInv, [PlanNext]_allVars PROVE PlanInv'
    OBVIOUS
  <2>1. CASE FindDeployBlock
    <3>1. Calling
      BY <2>1 DEF FindDeployBlock, Next, HeadAnswers, GenesisAnswers, SearchAnswers,
                  CallRetries, CallFails, Calling
    <3>2. plan = << >>
      BY <3>1 DEF PlanInv, Planned, Calling
    <3> QED BY <2>1, <3>2 DEF FindDeployBlock, planVars, PlanInv
  <2>2. CASE Plan
    <3>1. FromBlock \in Nat
      BY DEF DeployInv, DeployTypeOK, FromBlock
    <3>2. PICK to \in ToBlocks, max \in Sizes \ {0}, cap \in Sizes :
            /\ FromBlock <= to
            /\ range' = [from |-> FromBlock, to |-> to]
            /\ size' = ChunkSize(max, cap)
            /\ plan' = buildChunks(FromBlock, to, size')
      BY <2>2 DEF Plan
    <3>3. size' \in Sizes \ {0} /\ size' \in Nat \ {0} /\ to \in Nat
      BY <3>2, PlanningAssumption DEF ChunkSize
    <3>4. to + size' <= Word
      BY <3>3, PlanningAssumption
    <3>5. pc' \in {"found", "failed"} /\ FromBlock' = FromBlock
      BY <2>2 DEF Plan, vars, FromBlock
    <3> QED BY <3>1, <3>2, <3>3, <3>4, <3>5 DEF PlanInv, Planned
  <2>3. CASE UNCHANGED allVars
    BY <2>3 DEF allVars, planVars, vars, PlanInv, Planned, FromBlock
  <2> QED BY <2>1, <2>2, <2>3 DEF PlanNext
<1>3. PlanSpec => []DeployInv
  BY PlanSearches, DeployInvariant, PTL
<1> QED BY <1>1, <1>2, <1>3, PTL DEF PlanSpec

\* What ChunksTile says of the plan in hand.
LEMMA PlanChunks ==
  ASSUME Planned
  PROVE  Tile(plan, range.from, range.to, size)
BY ChunksTile DEF Planned

\* buildChunks cuts every interval without gap, overlap or oversized chunk.
THEOREM PlansTile == PlanSpec => []PlanTiles
<1>1. PlanInv /\ DeployInv => PlanTiles
  BY PlanChunks DEF PlanInv, PlanTiles, Tile
<1> QED BY <1>1, PlanAlways, PTL

\* Whatever the search answered and however the interval is cut, no block at which a
\* contract that never lost its code may have emitted a Transfer is left out.
THEOREM HistoryCovered == PlanSpec => []PlanCoversHistory
<1>1. PlanInv /\ DeployInv /\ FoundIsFirst => PlanCoversHistory
  <2> SUFFICES ASSUME PlanInv, DeployInv, FoundIsFirst, plan # << >>, DeployedOnce,
                      NEW n \in code, n <= range.to
               PROVE  \E i \in DOMAIN plan : n \in Blocks(plan[i])
    BY DEF PlanCoversHistory
  <2>1. Planned
    BY DEF PlanInv
  <2>2. n \in Nat /\ hi \in Nat
    BY DEF DeployInv, DeployTypeOK
  <2>3. FromBlock <= n
    BY <2>2 DEF FoundIsFirst, FromBlock
  <2>4. n \in range.from .. range.to
    BY <2>1, <2>2, <2>3 DEF Planned
  <2> QED BY <2>1, <2>4, PlanChunks DEF Tile
<1>2. PlanSpec => []FoundIsFirst
  BY PlanSearches, FoundFirst, PTL
<1> QED BY <1>1, <1>2, PlanAlways, PTL

\* The Transfer logs of a chunk are finitely many and ordered by their blocks.
LEMMA ChunkOrdered ==
  ASSUME DeployInv, NEW c \in BlockRange
  PROVE  Ordered(InChunk(c))
<1>1. code \in SUBSET (0 .. latest) /\ latest \in Nat
  BY DEF DeployInv, DeployTypeOK
<1>2. IsFiniteSet(0 .. latest)
  BY <1>1, FS_Interval
<1>3. [l \in InChunk(c) |-> l.key] \in Injection(InChunk(c), 0 .. latest)
  BY <1>1 DEF InChunk, Injection, IsInjective
<1>4. IsFiniteSet(InChunk(c))
  BY <1>2, <1>3, FS_Injection
<1>5. \A l \in InChunk(c) : l.key \in Int /\ l = [key |-> l.key, block |-> l.key]
  BY <1>1 DEF InChunk
<1>6. \A l, m \in InChunk(c) : l.key = m.key => l = m
  BY <1>5, Zenon
<1> QED BY <1>4, <1>5, <1>6 DEF Ordered

\* The loop over maxTransferPerBatch sends every log of a chunk once and in order, for every
\* number of logs and every maximum.
THEOREM ChunksBatched == PlanSpec => []BatchesPartition
<1>1. PlanInv /\ DeployInv => BatchesPartition
  <2> SUFFICES ASSUME PlanInv, DeployInv, NEW i \in DOMAIN plan, NEW ls, ls = InChunk(plan[i]),
                      NEW n, n = BatchCount(ls)
               PROVE  /\ n >= 1
                      /\ UNION {Batch(ls, k) : k \in 1 .. n} = ls
                      /\ \A k \in 1 .. n : Cardinality(Batch(ls, k)) <= MaxTransferPerBatch
                      /\ ls # {} => \A k \in 1 .. n : Batch(ls, k) # {}
                      /\ \A k, m \in 1 .. n : k < m =>
                           \A x \in Keys(Batch(ls, k)) : \A y \in Keys(Batch(ls, m)) : x < y
    BY DEF BatchesPartition
  <2>1. plan # << >>
    OBVIOUS
  <2>2. plan[i] \in BlockRange
    BY <2>1, PlanChunks DEF PlanInv, Tile
  <2>3. Ordered(ls)
    BY <2>2, ChunkOrdered
  <2>4. /\ n \in Nat \ {0}
        /\ \A k \in 1 .. n : Batch(ls, k) \subseteq ls
        /\ \A k \in 1 .. n : Cardinality(Batch(ls, k)) <= MaxTransferPerBatch
        /\ \A t \in ls : \E k \in 1 .. n : t \in Batch(ls, k)
        /\ ls # {} => \A k \in 1 .. n : Batch(ls, k) # {}
        /\ \A k, m \in 1 .. n : k < m =>
             \A t \in Batch(ls, k) : \A u \in Batch(ls, m) : t.key < u.key
    BY <2>3, BatchesOfLogs
  <2>5. UNION {Batch(ls, k) : k \in 1 .. n} = ls
    BY <2>4
  <2>6. ASSUME NEW k \in 1 .. n, NEW m \in 1 .. n, k < m,
               NEW x \in Keys(Batch(ls, k)), NEW y \in Keys(Batch(ls, m))
        PROVE  x < y
    BY <2>4, <2>6 DEF Keys
  <2> QED BY <2>4, <2>5, <2>6
<1> QED BY <1>1, PlanAlways, PTL
=============================================================================

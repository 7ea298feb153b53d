--------------------------- MODULE ScanRunProofs ----------------------------
(***************************************************************************)
(* Proofs about ScanRun, for every job, chain, chunk size, number of slots *)
(* and of runs: its type invariant, that no status claims more than the    *)
(* topic holds, and that it implements Scans.                              *)
(***************************************************************************)
EXTENDS ScanRun, ChunkLemmas

-----------------------------------------------------------------------------
(* The inductive invariant.                                                *)

Worker == [at : Labels, sent : Nat, blocks : Nat]
Batches == [snap : {Job}, range : BlockRange, total : Nat, rows : SUBSET Transfer]
Statuses == [snap : {Job}, state : {"started", "progress", "done", "error"}, blocks : Nat]

TopicsOK == results \in Seq(Batches) /\ status \in Seq(Statuses)

\* The plan in hand is that of the interval in hand, which the job resolved to.
PlanOK ==
  /\ plan # << >> => range \in Resolutions /\ range.from <= range.to /\ plan = ChunksOf(range)
  /\ phase = "dispatching" => plan # << >>

Turns(c) == BatchCount(ChunkLogs(Job, c))

\* The k-th batch of chunk c is among the messages; all its batches are; the blocks of
\* the chunks the messages hold in full.
On(msgs, c, k) ==
  \E n \in DOMAIN msgs :
    msgs[n].range = c /\ msgs[n].rows = Batch(ChunkLogs(Job, c), k)
InFull(msgs, c) == \A k \in 1 .. Turns(c) : On(msgs, c, k)
Held(msgs) ==
  UNION {Blocks(c) : c \in {d \in {msgs[n].range : n \in DOMAIN msgs} : InFull(msgs, d)}}

\* A goroutine sends the batches of its chunk in order, and is past emitting with the last.
SentOK(c, w) ==
  /\ w.sent \in 0 .. Turns(c)
  /\ w.at \in {"waiting", "fetching"} => w.sent = 0
  /\ w.at = "emitting" => w.sent < Turns(c)
  /\ w.at \in {"counting", "reporting", "returned"} => w.sent = Turns(c)

WorkersOK ==
  \A i \in DOMAIN worker :
    SentOK(plan[i], worker[i]) /\ \A k \in 1 .. worker[i].sent : On(results, plan[i], k)

\* Two of a run's messages can be missing, the second only when it has ended.
FaultsOK == faults + (IF phase = "dispatching" THEN 1 ELSE 0) <= 2 * runs

Counted == {i \in DOMAIN worker : worker[i].at \in {"reporting", "returned"}}
BlocksOf(s) == UNION {Blocks(plan[i]) : i \in s}

\* blocksDone counts the blocks of the chunks counted, and a report is never ahead of it.
CountersOK ==
  /\ blocksDone = Cardinality(BlocksOf(Counted))
  /\ \A i \in DOMAIN worker : worker[i].at = "reporting" => worker[i].blocks <= blocksDone

RunInv == RunTypeOK /\ TopicsOK /\ PlanOK /\ WorkersOK /\ FaultsOK /\ CountersOK /\ ProgressHonest

-----------------------------------------------------------------------------
(* The plan of an interval, and the batches of a chunk.                    *)

size == ChunkSize(MaxChunkSize, MaxLogRange)

LEMMA ResolvedPlan ==
  ASSUME NEW r \in Resolutions, r.from <= r.to
  PROVE  /\ r \in BlockRange /\ size \in Nat \ {0}
         /\ Tile(ChunksOf(r), r.from, r.to, size)
         /\ {ChunksOf(r)[i] : i \in DOMAIN ChunksOf(r)} \in Plans[Job]
<1>1. r \in BlockRange
  BY RunAssumption DEF Resolutions, BlockRange
<1>2. size \in Nat \ {0} /\ size <= MaxChunkSize
  BY RunAssumption DEF size, ChunkSize
<1>3. r.to + MaxChunkSize <= Word /\ MaxChunkSize \in Nat /\ Word \in Nat
  BY BlocksAssumption, RunAssumption, WordAssumption
<1> DEFINE from == r.from
           to == r.to
<1>4. from \in Nat /\ to \in Nat /\ from <= to /\ to + size <= Word
  BY <1>1, <1>2, <1>3 DEF BlockRange
<1>5. Tile(buildChunks(from, to, size), from, to, size)
  <2> HIDE DEF from, to
  <2> QED BY <1>2, <1>4, ChunksTile
<1>6. ChunksOf(r) = buildChunks(from, to, size)
  BY DEF ChunksOf, size
<1> QED BY <1>1, <1>2, <1>5, <1>6, ResolvedAssumption

LEMMA PlanInHand ==
  ASSUME PlanOK, plan # << >>
  PROVE  /\ range \in BlockRange /\ range.from \in Nat /\ range.to \in Nat /\ range.from <= range.to
         /\ size \in Nat \ {0}
         /\ Tile(plan, range.from, range.to, size)
BY ResolvedPlan DEF PlanOK, BlockRange

LEMMA ChunkTurns ==
  ASSUME NEW c
  PROVE  /\ Turns(c) \in Nat \ {0}
         /\ \A k : Batch(ChunkLogs(Job, c), k) \in SUBSET Transfer
<1>1. /\ TokenOf[Job] \in Tokens
      /\ IsFiniteSet(Logs[TokenOf[Job]]) /\ Logs[TokenOf[Job]] \in SUBSET Transfer
      /\ \A l, m \in Logs[TokenOf[Job]] : l.key = m.key => l = m
  BY RunAssumption, JobsAssumption, LogsAssumption
<1>2. ChunkLogs(Job, c) \in SUBSET Logs[TokenOf[Job]]
  BY DEF ChunkLogs
<1>3. IsFiniteSet(ChunkLogs(Job, c))
  BY <1>1, <1>2, FS_Subset
<1>4. Ordered(ChunkLogs(Job, c))
  BY <1>1, <1>2, <1>3 DEF Ordered, Transfer
<1>5. Turns(c) \in Nat \ {0}
  BY <1>4, BatchesOfLogs DEF Turns
<1>6. \A k : Batch(ChunkLogs(Job, c), k) \subseteq ChunkLogs(Job, c)
  BY DEF Batch
<1> QED BY <1>1, <1>2, <1>5, <1>6

-----------------------------------------------------------------------------
(* What a step does to a goroutine, to the topics and to the plan.         *)

\* Goroutine i goes on as w and the others stay.
Moves(i, w) ==
  /\ phase = "dispatching" /\ w \in Worker
  /\ worker' = [worker EXCEPT ![i] = w]
  /\ UNCHANGED runVars

Same == UNCHANGED <<results, status, cancelled, progressVars>>

LEMMA WorkerTyped ==
  ASSUME RunTypeOK
  PROVE  /\ DOMAIN worker = 1 .. Len(plan) /\ DOMAIN plan = 1 .. Len(plan) /\ Len(plan) \in Nat
         /\ \A i \in DOMAIN worker :
              /\ plan[i] \in BlockRange
              /\ worker[i] \in Worker
              /\ worker[i] = [at |-> worker[i].at, sent |-> worker[i].sent, blocks |-> worker[i].blocks]
<1>1. plan \in Seq(BlockRange) /\ worker \in [1 .. Len(plan) -> Worker]
  BY DEF RunTypeOK, Worker
<1> QED BY <1>1 DEF Worker

LEMMA Steps ==
  ASSUME RunTypeOK, NEW i \in DOMAIN worker
  PROVE  LET w == worker[i] IN
         /\ Dispatch(i) => w.at = "waiting" /\ Moves(i, [w EXCEPT !.at = "fetching"]) /\ Same
         /\ FetchChunk(i) => w.at = "fetching" /\ Moves(i, [w EXCEPT !.at = "emitting"]) /\ Same
         /\ FetchFails(i) =>
              /\ w.at = "fetching" /\ Moves(i, [w EXCEPT !.at = "failed"]) /\ cancelled'
              /\ UNCHANGED <<results, status, progressVars>>
         /\ EmitBatch(i) =>
              /\ w.at = "emitting" /\ results' = Append(results, TransferBatch(i))
              /\ Moves(i, [at |-> IF w.sent + 1 = Turns(plan[i]) THEN "counting" ELSE "emitting",
                           sent |-> w.sent + 1, blocks |-> w.blocks])
              /\ UNCHANGED <<status, cancelled, progressVars>>
         /\ EmitFails(i) =>
              /\ w.at = "emitting" /\ cancelled' /\ UNCHANGED <<status, progressVars>>
              /\ \/ /\ results' = Append(results, TransferBatch(i))
                    /\ Moves(i, [at |-> "failed", sent |-> w.sent + 1, blocks |-> w.blocks])
                 \/ results' = results /\ Moves(i, [w EXCEPT !.at = "failed"])
         /\ Count(i) =>
              /\ w.at = "counting" /\ UNCHANGED <<results, status, cancelled>>
              /\ chunksDone' = chunksDone + 1 /\ blocksDone' = blocksDone + Size(plan[i])
              /\ blocksDone' \in Nat =>
                   \/ Moves(i, [at |-> "reporting", sent |-> w.sent, blocks |-> blocksDone'])
                   \/ Moves(i, [w EXCEPT !.at = "returned"])
         /\ Report(i) =>
              /\ w.at = "reporting" /\ Moves(i, [w EXCEPT !.at = "returned"])
              /\ UNCHANGED <<results, cancelled, progressVars>>
              /\ status' = status \/ status' = Append(status, Status("progress", w.blocks))
<1> DEFINE w == worker[i]
<1>1. /\ w \in Worker /\ w = [at |-> w.at, sent |-> w.sent, blocks |-> w.blocks]
      /\ w.at \in Labels /\ w.sent \in Nat /\ w.blocks \in Nat
  BY WorkerTyped DEF Worker
<1>2. ASSUME NEW a \in Labels
      PROVE  /\ [w EXCEPT !.at = a] \in Worker
             /\ phase = "dispatching" /\ Goto(i, a) /\ UNCHANGED runVars =>
                  Moves(i, [w EXCEPT !.at = a])
  <2>1. [w EXCEPT !.at = a] \in Worker
    BY <1>1 DEF Worker
  <2> QED BY <2>1 DEF Goto, Moves
<1>3. {"waiting", "fetching", "failed", "emitting", "counting", "reporting", "returned"} = Labels
  BY DEF Labels
<1>4. Dispatch(i) => w.at = "waiting" /\ Moves(i, [w EXCEPT !.at = "fetching"]) /\ Same
  BY <1>2, <1>3 DEF Dispatch, At, Same
<1>5. FetchChunk(i) => w.at = "fetching" /\ Moves(i, [w EXCEPT !.at = "emitting"]) /\ Same
  BY <1>2, <1>3 DEF FetchChunk, At, Same
<1>6. FetchFails(i) =>
        /\ w.at = "fetching" /\ Moves(i, [w EXCEPT !.at = "failed"]) /\ cancelled'
        /\ UNCHANGED <<results, status, progressVars>>
  BY <1>2, <1>3 DEF FetchFails, At
<1>7. EmitBatch(i) =>
        /\ w.at = "emitting" /\ results' = Append(results, TransferBatch(i))
        /\ Moves(i, [at |-> IF w.sent + 1 = Turns(plan[i]) THEN "counting" ELSE "emitting",
                     sent |-> w.sent + 1, blocks |-> w.blocks])
        /\ UNCHANGED <<status, cancelled, progressVars>>
  <2> SUFFICES ASSUME EmitBatch(i)
               PROVE  worker' = [worker EXCEPT ![i] =
                        [at |-> IF w.sent + 1 = Turns(plan[i]) THEN "counting" ELSE "emitting",
                         sent |-> w.sent + 1, blocks |-> w.blocks]]
    BY <1>1, <1>3 DEF EmitBatch, At, Moves, Worker
  <2>1. w.at = "emitting"
    BY DEF EmitBatch, At
  <2>2. ASSUME NEW a \in {"counting", "emitting"}
        PROVE  worker' = [worker EXCEPT ![i].sent = @ + 1, ![i].at = a] =>
                 worker' = [worker EXCEPT ![i] = [at |-> a, sent |-> w.sent + 1, blocks |-> w.blocks]]
    <3>1. worker' = [worker EXCEPT ![i].sent = @ + 1, ![i].at = "counting"] =>
            worker' = [worker EXCEPT ![i] = [at |-> "counting", sent |-> w.sent + 1, blocks |-> w.blocks]]
      BY <1>1
    <3>2. worker' = [worker EXCEPT ![i].sent = @ + 1, ![i].at = "emitting"] =>
            worker' = [worker EXCEPT ![i] = [at |-> "emitting", sent |-> w.sent + 1, blocks |-> w.blocks]]
      BY <1>1
    <3> QED BY <3>1, <3>2
  <2>3. CASE w.sent + 1 = Turns(plan[i])
    <3>1. worker' = [worker EXCEPT ![i].sent = @ + 1, ![i].at = "counting"]
      BY <2>3 DEF EmitBatch, Turns
    <3> QED BY <2>2, <2>3, <3>1
  <2>4. CASE w.sent + 1 # Turns(plan[i])
    <3>1. worker' = [worker EXCEPT ![i].sent = @ + 1, ![i].at = "emitting"]
      BY <2>1, <2>4 DEF EmitBatch, Turns
    <3> QED BY <2>2, <2>4, <3>1
  <2> QED BY <2>3, <2>4
<1>8. EmitFails(i) =>
        /\ w.at = "emitting" /\ cancelled' /\ UNCHANGED <<status, progressVars>>
        /\ \/ /\ results' = Append(results, TransferBatch(i))
              /\ Moves(i, [at |-> "failed", sent |-> w.sent + 1, blocks |-> w.blocks])
           \/ results' = results /\ Moves(i, [w EXCEPT !.at = "failed"])
  <2>1. worker' = [worker EXCEPT ![i].sent = @ + 1, ![i].at = "failed"] =>
          worker' = [worker EXCEPT ![i] = [at |-> "failed", sent |-> w.sent + 1, blocks |-> w.blocks]]
    BY <1>1
  <2>2. [at |-> "failed", sent |-> w.sent + 1, blocks |-> w.blocks] \in Worker
    BY <1>1, <1>3 DEF Worker
  <2> QED BY <1>2, <1>3, <2>1, <2>2 DEF EmitFails, At, Moves
<1>9. Count(i) =>
        /\ w.at = "counting" /\ UNCHANGED <<results, status, cancelled>>
        /\ chunksDone' = chunksDone + 1 /\ blocksDone' = blocksDone + Size(plan[i])
        /\ blocksDone' \in Nat =>
             \/ Moves(i, [at |-> "reporting", sent |-> w.sent, blocks |-> blocksDone'])
             \/ Moves(i, [w EXCEPT !.at = "returned"])
  <2>1. worker' = [worker EXCEPT ![i].at = "reporting", ![i].blocks = blocksDone'] =>
          worker' = [worker EXCEPT ![i] = [at |-> "reporting", sent |-> w.sent, blocks |-> blocksDone']]
    BY <1>1
  <2>2. blocksDone' \in Nat => [at |-> "reporting", sent |-> w.sent, blocks |-> blocksDone'] \in Worker
    BY <1>1, <1>3 DEF Worker
  <2> QED BY <1>2, <1>3, <2>1, <2>2 DEF Count, At, Moves
<1>10. Report(i) =>
         /\ w.at = "reporting" /\ Moves(i, [w EXCEPT !.at = "returned"])
         /\ UNCHANGED <<results, cancelled, progressVars>>
         /\ status' = status \/ status' = Append(status, Status("progress", w.blocks))
  BY <1>2, <1>3 DEF Report, At
<1> QED BY <1>4, <1>5, <1>6, <1>7, <1>8, <1>9, <1>10

-----------------------------------------------------------------------------
(* What the results topic holds.                                           *)

Honest(msgs, stats) == \A n \in DOMAIN stats : Cardinality(Held(msgs)) >= stats[n].blocks

LEMMA HonestIsHeld ==
  /\ ProgressHonest <=> Honest(results, status)
  /\ ProgressHonest' <=> Honest(results', status')
BY DEF ProgressHonest, ChunkSent, Honest, Held, InFull, On, Turns

LEMMA HeldFinite ==
  ASSUME NEW msgs \in Seq(Batches)
  PROVE  IsFiniteSet(Held(msgs)) /\ Cardinality(Held(msgs)) \in Nat
<1> DEFINE R == {msgs[n].range : n \in DOMAIN msgs}
           S == {d \in R : InFull(msgs, d)}
           U == {Blocks(c) : c \in S}
<1>1. DOMAIN msgs = 1 .. Len(msgs) /\ Len(msgs) \in Nat
  OBVIOUS
<1>2. IsFiniteSet(DOMAIN msgs)
  BY <1>1, FS_Interval
<1>3. IsFiniteSet(R) /\ R \subseteq BlockRange
  <2>1. [n \in DOMAIN msgs |-> msgs[n].range] \in Surjection(DOMAIN msgs, R)
    BY DEF Surjection
  <2>0. \A n \in DOMAIN msgs : msgs[n] \in Batches
    OBVIOUS
  <2>2. R \subseteq BlockRange
    BY <2>0 DEF Batches
  <2> HIDE DEF R
  <2> QED BY <1>2, <2>1, <2>2, FS_Surjection
<1>4. IsFiniteSet(S) /\ S \subseteq BlockRange
  <2> HIDE DEF R
  <2>1. S \in SUBSET R
    OBVIOUS
  <2> HIDE DEF S
  <2> QED BY <1>3, <2>1, FS_Subset
<1>5. IsFiniteSet(U) /\ \A V \in U : IsFiniteSet(V)
  <2> HIDE DEF S
  <2>1. [c \in S |-> Blocks(c)] \in Surjection(S, U)
    BY DEF Surjection
  <2>2. \A c \in S : IsFiniteSet(Blocks(c))
    BY <1>4, FS_Interval DEF BlockRange, Blocks
  <2>3. \A V \in U : IsFiniteSet(V)
    BY <2>2
  <2> HIDE DEF U
  <2> QED BY <1>4, <2>1, <2>3, FS_Surjection
<1>6. Held(msgs) = UNION U
  BY DEF Held
<1> HIDE DEF U
<1> QED BY <1>5, <1>6, FS_UNION, FS_CardinalityType

\* Nothing leaves the topic.
LEMMA HeldGrows ==
  ASSUME NEW msgs \in Seq(Batches), NEW m \in Batches
  PROVE  /\ Append(msgs, m) \in Seq(Batches)
         /\ \A c, k : On(msgs, c, k) => On(Append(msgs, m), c, k)
         /\ \A c, k : m.range = c /\ m.rows = Batch(ChunkLogs(Job, c), k) => On(Append(msgs, m), c, k)
         /\ Cardinality(Held(msgs)) <= Cardinality(Held(Append(msgs, m)))
<1> DEFINE more == Append(msgs, m)
<1>1. /\ more \in Seq(Batches) /\ DOMAIN more = 1 .. Len(msgs) + 1 /\ DOMAIN msgs = 1 .. Len(msgs)
      /\ Len(msgs) \in Nat
      /\ \A n \in DOMAIN msgs : n \in DOMAIN more /\ more[n] = msgs[n]
      /\ Len(msgs) + 1 \in DOMAIN more /\ more[Len(msgs) + 1] = m
  OBVIOUS
<1> HIDE DEF more
<1>2. \A c, k : On(msgs, c, k) => On(more, c, k)
  BY <1>1 DEF On
<1>3. \A c, k : m.range = c /\ m.rows = Batch(ChunkLogs(Job, c), k) => On(more, c, k)
  BY <1>1 DEF On
<1>4. Held(msgs) \in SUBSET Held(more)
  BY <1>1, <1>2 DEF Held, InFull
<1>5. Cardinality(Held(msgs)) <= Cardinality(Held(more))
  BY <1>1, <1>4, HeldFinite, FS_Subset
<1> QED BY <1>1, <1>2, <1>3, <1>5 DEF more

\* The blocks of goroutines that sent everything are held.
LEMMA SentIsHeld ==
  ASSUME NEW msgs \in Seq(Batches), NEW s \in SUBSET (1 .. Len(plan)),
         \A i \in s : InFull(msgs, plan[i])
  PROVE  BlocksOf(s) \in SUBSET Held(msgs)
<1>1. \A i \in s : plan[i] \in {msgs[n].range : n \in DOMAIN msgs}
  <2> SUFFICES ASSUME NEW i \in s PROVE \E n \in DOMAIN msgs : msgs[n].range = plan[i]
    OBVIOUS
  <2>1. 1 \in 1 .. Turns(plan[i])
    BY ChunkTurns
  <2>2. On(msgs, plan[i], 1)
    BY <2>1 DEF InFull
  <2> QED BY <2>2 DEF On
<1> QED BY <1>1 DEF BlocksOf, Held

\* The next batch of a goroutine that emits goes to the topic.
LEMMA Emitted ==
  ASSUME RunTypeOK, TopicsOK, WorkersOK, NEW i \in DOMAIN worker, worker[i].at = "emitting"
  PROVE  LET more == Append(results, TransferBatch(i)) IN
         /\ TransferBatch(i) \in Batches /\ more \in Seq(Batches)
         /\ \A c, k : On(results, c, k) => On(more, c, k)
         /\ \A k \in 1 .. worker[i].sent + 1 : On(more, plan[i], k)
         /\ worker[i].sent + 1 \in 1 .. Turns(plan[i])
         /\ Cardinality(Held(results)) <= Cardinality(Held(more))
<1> DEFINE k == worker[i].sent + 1
           m == TransferBatch(i)
<1>1. /\ plan[i] \in BlockRange /\ Len(plan) \in Nat
      /\ Batch(ChunkLogs(Job, plan[i]), k) \in SUBSET Transfer
  BY WorkerTyped, ChunkTurns
<1>2. m \in Batches /\ m.range = plan[i] /\ m.rows = Batch(ChunkLogs(Job, plan[i]), k)
  BY <1>1 DEF TransferBatch, Batches
<1>3. Turns(plan[i]) \in Nat /\ worker[i].sent \in Nat /\ worker[i].sent < Turns(plan[i])
  BY ChunkTurns DEF WorkersOK, SentOK
<1>4. \A n \in 1 .. worker[i].sent : On(results, plan[i], n)
  BY DEF WorkersOK
<1>5. \A n \in 1 .. k : n \in 1 .. worker[i].sent \/ n = k
  BY <1>3
<1> HIDE DEF m
<1>6. /\ Append(results, m) \in Seq(Batches)
      /\ \A c, n : On(results, c, n) => On(Append(results, m), c, n)
      /\ \A c, n : m.range = c /\ m.rows = Batch(ChunkLogs(Job, c), n) => On(Append(results, m), c, n)
      /\ Cardinality(Held(results)) <= Cardinality(Held(Append(results, m)))
  BY <1>2, HeldGrows DEF TopicsOK
<1> HIDE DEF k
<1>7. On(Append(results, m), plan[i], k)
  BY <1>2, <1>6
<1>8. \A n \in 1 .. k : On(Append(results, m), plan[i], n)
  BY <1>4, <1>5, <1>6, <1>7
<1> QED BY <1>2, <1>3, <1>6, <1>8 DEF m, k

-----------------------------------------------------------------------------
(* Counting blocks.                                                        *)

LEMMA RangeSize ==
  ASSUME NEW r, r.from \in Nat, r.to \in Nat, r.from <= r.to
  PROVE  IsFiniteSet(r.from .. r.to) /\ Cardinality(r.from .. r.to) = Size(r) /\ Size(r) \in Nat
<1> DEFINE lo == r.from
           hi == r.to
<1>1. lo \in Int /\ hi \in Int /\ ~(lo > hi) /\ hi - lo + 1 \in Nat
  OBVIOUS
<1>2. Size(r) = hi - lo + 1
  BY DEF Size
<1> HIDE DEF lo, hi
<1>3. IsFiniteSet(lo .. hi) /\ Cardinality(lo .. hi) = hi - lo + 1
  BY <1>1, FS_Interval
<1> QED BY <1>1, <1>2, <1>3 DEF lo, hi

\* Whatever goroutines are counted, their blocks lie in the interval; and all of them
\* together are the interval.
LEMMA CountedInside ==
  ASSUME PlanOK, plan # << >>, NEW s \in SUBSET (1 .. Len(plan))
  PROVE  /\ IsFiniteSet(BlocksOf(s)) /\ Cardinality(BlocksOf(s)) \in 0 .. Size(range)
         /\ s = 1 .. Len(plan) => Cardinality(BlocksOf(s)) = Size(range)
<1> DEFINE all == range.from .. range.to
           B == BlocksOf(s)
<1>1. /\ range.from \in Nat /\ range.to \in Nat /\ range.from <= range.to
      /\ size \in Nat \ {0} /\ Tile(plan, range.from, range.to, size)
  BY PlanInHand
<1>2. IsFiniteSet(all) /\ Cardinality(all) = Size(range)
  BY <1>1, RangeSize
<1>3. \A i \in 1 .. Len(plan) : Blocks(plan[i]) \subseteq all
  BY <1>1, TilesInside
<1>4. B \in SUBSET all
  BY <1>3 DEF BlocksOf
<1>5. s = 1 .. Len(plan) => B = all
  <2> SUFFICES ASSUME s = 1 .. Len(plan) PROVE all \subseteq B
    BY <1>4
  <2>1. \A b \in range.from .. range.to : \E i \in 1 .. Len(plan) : b \in Blocks(plan[i])
    BY <1>1 DEF Tile
  <2> QED BY <2>1 DEF BlocksOf
<1> HIDE DEF all, B
<1>6. IsFiniteSet(B) /\ Cardinality(B) <= Size(range) /\ Cardinality(B) \in Nat
  BY <1>2, <1>4, FS_Subset, FS_CardinalityType
<1>7. Size(range) \in Int
  BY <1>1 DEF Size
<1> QED BY <1>2, <1>5, <1>6, <1>7 DEF B

\* A goroutine more that is counted adds the blocks of its chunk.
LEMMA CountedMore ==
  ASSUME PlanOK, plan # << >>, NEW s \in SUBSET (1 .. Len(plan)), NEW i \in 1 .. Len(plan), i \notin s
  PROVE  Cardinality(BlocksOf(s \cup {i})) = Cardinality(BlocksOf(s)) + Size(plan[i])
<1>1. Tile(plan, range.from, range.to, size)
  BY PlanInHand
<1>2. plan[i].from \in Nat /\ plan[i].to \in Nat /\ plan[i].from <= plan[i].to
  BY <1>1 DEF Tile, BlockRange
<1>3. IsFiniteSet(Blocks(plan[i])) /\ Cardinality(Blocks(plan[i])) = Size(plan[i])
  BY <1>2, RangeSize DEF Blocks
<1>4. BlocksOf(s \cup {i}) = BlocksOf(s) \cup Blocks(plan[i])
  BY DEF BlocksOf
<1>5. BlocksOf(s) \cap Blocks(plan[i]) = {}
  <2>1. \A n \in s : Blocks(plan[n]) \cap Blocks(plan[i]) = {}
    BY <1>1, TilesApart
  <2> QED BY <2>1 DEF BlocksOf
<1>6. IsFiniteSet(BlocksOf(s)) /\ Cardinality(BlocksOf(s)) \in Nat
  BY CountedInside, FS_CardinalityType
<1> DEFINE old == BlocksOf(s)
           new == Blocks(plan[i])
           n == Size(plan[i])
<1>7. /\ IsFiniteSet(old) /\ IsFiniteSet(new) /\ old \cap new = {} /\ n \in Nat
      /\ Cardinality(old) \in Nat /\ Cardinality(new) = n
  BY <1>2, <1>3, <1>5, <1>6, RangeSize
<1> HIDE DEF old, new, n
<1>8. Cardinality(old \cup new) = Cardinality(old) + Cardinality(new) - Cardinality({})
  BY <1>7, FS_Union
<1>9. Cardinality(old \cup new) = Cardinality(old) + n
  BY <1>7, <1>8, FS_EmptySet
<1> QED BY <1>4, <1>9 DEF old, new, n

-----------------------------------------------------------------------------
(* A goroutine's step keeps the invariant, whatever its new state w, if    *)
(* w fits what is on the topic and the counters say what they should.      *)

\* A status that claims no more than is held.
LEMMA HonestKept ==
  ASSUME TopicsOK, ProgressHonest, results' \in Seq(Batches),
         Cardinality(Held(results)) <= Cardinality(Held(results')),
         NEW m \in Statuses, m.blocks <= Cardinality(Held(results)),
         status' = status \/ status' = Append(status, m)
  PROVE  ProgressHonest' /\ status' \in Seq(Statuses)
<1> DEFINE old == Cardinality(Held(results))
           new == Cardinality(Held(results'))
<1>1. old \in Nat /\ new \in Nat /\ old <= new /\ m.blocks <= old /\ m.blocks \in Nat
  BY HeldFinite DEF TopicsOK, Statuses
<1>2. \A n \in DOMAIN status : old >= status[n].blocks /\ status[n] \in Statuses
  BY HonestIsHeld DEF Honest, TopicsOK
<1>3. \A n \in DOMAIN status : status[n].blocks \in Nat
  BY <1>2 DEF Statuses
<1> HIDE DEF old, new
<1>4. status \in Seq(Statuses)
  BY DEF TopicsOK
<1>5. ASSUME status' = Append(status, m), NEW n \in DOMAIN status'
      PROVE  (n \in DOMAIN status /\ status'[n] = status[n]) \/ status'[n] = m
  BY <1>4, <1>5
<1>6. \A n \in DOMAIN status' : new >= status'[n].blocks
  BY <1>1, <1>2, <1>3, <1>5
<1>7. status' \in Seq(Statuses)
  BY <1>4
<1> QED BY <1>6, <1>7, HonestIsHeld DEF Honest, new

LEMMA Moved ==
  ASSUME RunTypeOK, NEW i \in DOMAIN worker, NEW w, Moves(i, w)
  PROVE  /\ w \in Worker /\ phase = "dispatching" /\ UNCHANGED runVars
         /\ DOMAIN worker' = DOMAIN worker /\ worker' \in [1 .. Len(plan) -> Worker]
         /\ worker'[i] = w /\ \A n \in DOMAIN worker : n # i => worker'[n] = worker[n]
<1>1. worker \in [1 .. Len(plan) -> Worker]
  BY DEF RunTypeOK, Worker
<1> QED BY <1>1 DEF Moves

LEMMA MovedSent ==
  ASSUME RunTypeOK, WorkersOK, NEW i \in DOMAIN worker, NEW w, Moves(i, w),
         \A c, k : On(results, c, k) => On(results', c, k),
         SentOK(plan[i], w), \A k \in 1 .. w.sent : On(results', plan[i], k)
  PROVE  WorkersOK'
<1>1. /\ DOMAIN worker' = DOMAIN worker /\ plan' = plan
      /\ worker'[i] = w /\ \A n \in DOMAIN worker : n # i => worker'[n] = worker[n]
  BY Moved DEF runVars
<1>2. ASSUME NEW n \in DOMAIN worker
      PROVE  SentOK(plan[n], worker'[n]) /\ \A k \in 1 .. worker'[n].sent : On(results', plan[n], k)
  BY <1>1 DEF WorkersOK
<1>3. ASSUME NEW n \in DOMAIN worker, NEW k \in 1 .. worker'[n].sent
      PROVE  On(results, plan[n], k)' <=> On(results', plan[n], k)
  BY <1>1 DEF On
<1>4. ASSUME NEW n \in DOMAIN worker
      PROVE  SentOK(plan[n], worker[n])' <=> SentOK(plan[n], worker'[n])
  BY <1>1 DEF SentOK, Turns
<1> QED BY <1>1, <1>2, <1>3, <1>4 DEF WorkersOK

\* What is true of every move; the counters are left.
LEMMA MoveTyped ==
  ASSUME RunInv, NEW i \in DOMAIN worker, NEW w, Moves(i, w),
         worker[i].at # "failed", cancelled' = (cancelled \/ w.at = "failed")
  PROVE  /\ PlanOK' /\ FaultsOK' /\ plan # << >>
         /\ phase' \in {"queued", "rejected", "dispatching", "finished", "failed"}
         /\ range' \in BlockRange /\ plan' \in Seq(BlockRange)
         /\ worker' \in [1 .. Len(plan') -> [at : Labels, sent : Nat, blocks : Nat]]
         /\ cancelled' = (\E n \in DOMAIN worker' : worker'[n].at = "failed")
         /\ runs' \in 0 .. MaxRuns /\ faults' \in 0 .. 2 * runs'
<1>1. /\ UNCHANGED runVars /\ DOMAIN worker' = DOMAIN worker /\ worker' \in [1 .. Len(plan) -> Worker]
      /\ worker'[i] = w /\ \A n \in DOMAIN worker : n # i => worker'[n] = worker[n]
      /\ phase = "dispatching"
  BY Moved DEF RunInv
<1>2. cancelled' = (\E n \in DOMAIN worker' : worker'[n].at = "failed")
  BY <1>1 DEF RunInv, RunTypeOK
<1>3. PlanOK' /\ FaultsOK' /\ plan # << >>
  BY <1>1 DEF RunInv, PlanOK, FaultsOK, runVars
<1> QED BY <1>1, <1>2, <1>3 DEF RunInv, RunTypeOK, runVars, Worker

\* A goroutine that is counted as before.
LEMMA MoveKeeps ==
  ASSUME RunInv, NEW i \in DOMAIN worker, NEW w, Moves(i, w),
         worker[i].at # "failed", cancelled' = (cancelled \/ w.at = "failed"),
         UNCHANGED progressVars,
         w.at \in {"reporting", "returned"} <=> worker[i].at \in {"reporting", "returned"},
         w.at # "reporting"
  PROVE  RunTypeOK' /\ PlanOK' /\ FaultsOK' /\ CountersOK'
<1>1. /\ UNCHANGED runVars /\ DOMAIN worker' = DOMAIN worker
      /\ worker'[i] = w /\ \A n \in DOMAIN worker : n # i => worker'[n] = worker[n]
  BY Moved DEF RunInv
<1>2. Counted' = Counted
  BY <1>1 DEF Counted
<1>3. CountersOK'
  BY <1>1, <1>2 DEF RunInv, CountersOK, BlocksOf, runVars, progressVars
<1>4. chunksDone' = Cardinality(Counted') /\ blocksDone' \in 0 .. Size(range')
  BY <1>1, <1>2 DEF RunInv, RunTypeOK, Counted, progressVars, runVars
<1> QED BY <1>3, <1>4, MoveTyped DEF RunTypeOK, Counted

\* A goroutine that is counted now.
LEMMA MoveCounts ==
  ASSUME RunInv, NEW i \in DOMAIN worker, NEW w, Moves(i, w),
         worker[i].at = "counting", cancelled' = cancelled,
         w.at \in {"reporting", "returned"}, w.at = "reporting" => w.blocks = blocksDone',
         chunksDone' = chunksDone + 1, blocksDone' = blocksDone + Size(plan[i])
  PROVE  RunTypeOK' /\ PlanOK' /\ FaultsOK' /\ CountersOK'
<1>0. worker[i].at # "failed" /\ w.at # "failed" /\ cancelled' = (cancelled \/ w.at = "failed")
  BY DEF RunInv, RunTypeOK
<1>1. /\ UNCHANGED runVars /\ DOMAIN worker' = DOMAIN worker
      /\ worker'[i] = w /\ \A n \in DOMAIN worker : n # i => worker'[n] = worker[n]
  BY Moved DEF RunInv
<1>2. Counted' = Counted \cup {i} /\ i \notin Counted
  BY <1>1 DEF Counted
<1>3. DOMAIN worker = 1 .. Len(plan) /\ Len(plan) \in Nat /\ plan[i] \in BlockRange
  BY WorkerTyped DEF RunInv
<1>4. Counted \in SUBSET (1 .. Len(plan)) /\ Counted' \in SUBSET (1 .. Len(plan)) /\ i \in 1 .. Len(plan)
  BY <1>1, <1>3 DEF Counted
<1>5. IsFiniteSet(Counted) /\ Cardinality(Counted') = Cardinality(Counted) + 1
  <2>1. IsFiniteSet(1 .. Len(plan))
    <3>1. 1 \in Int /\ Len(plan) \in Int
      BY <1>3
    <3> QED BY <3>1, FS_Interval
  <2>2. IsFiniteSet(Counted)
    BY <1>4, <2>1, FS_Subset
  <2> QED BY <1>2, <2>2, FS_AddElement
<1>6. chunksDone' = Cardinality(Counted')
  BY <1>5 DEF RunInv, RunTypeOK, Counted
<1>7. PlanOK /\ plan # << >> /\ blocksDone = Cardinality(BlocksOf(Counted))
  BY <1>0, MoveTyped DEF RunInv, CountersOK
<1>8. blocksDone' = Cardinality(BlocksOf(Counted')) /\ blocksDone' \in 0 .. Size(range)
  BY <1>2, <1>4, <1>7, CountedMore, CountedInside
<1>9. blocksDone \in Nat /\ Size(plan[i]) \in Nat /\ blocksDone <= blocksDone'
  <2>1. plan[i].from <= plan[i].to
    BY <1>4, <1>7, PlanInHand DEF Tile, BlockRange
  <2>2. blocksDone \in Nat
    BY <1>4, <1>7, CountedInside, FS_CardinalityType
  <2> QED BY <1>3, <2>1, <2>2, RangeSize DEF BlockRange
<1>10. ASSUME NEW n \in DOMAIN worker', worker'[n].at = "reporting"
       PROVE  worker'[n].blocks <= blocksDone'
  <2>1. CASE n = i
    BY <1>1, <1>9, <1>10, <2>1
  <2>2. CASE n # i
    <3>1. worker[n].blocks <= blocksDone /\ worker'[n] = worker[n] /\ n \in DOMAIN worker
      BY <1>1, <1>10, <2>2 DEF RunInv, CountersOK
    <3>2. worker[n].blocks \in Nat
      BY <3>1, WorkerTyped DEF RunInv, Worker
    <3> QED BY <1>9, <3>1, <3>2
  <2> QED BY <2>1, <2>2
<1>11. CountersOK'
  BY <1>1, <1>8, <1>10 DEF CountersOK, BlocksOf, runVars
<1>12. blocksDone' \in 0 .. Size(range')
  BY <1>1, <1>8 DEF runVars
<1> QED BY <1>6, <1>11, <1>12, <1>0, MoveTyped DEF RunTypeOK, Counted

-----------------------------------------------------------------------------
(* The invariant, action by action.                                        *)

LEMMA InvStarts == Init => RunInv
<1> SUFFICES ASSUME Init PROVE RunInv
  OBVIOUS
<1>1. worker = << >> /\ DOMAIN worker = {} /\ plan = << >> /\ 1 .. Len(plan) = {} /\ DOMAIN status = {}
  BY DEF Init
<1>2. Counted = {} /\ BlocksOf(Counted) = {}
  BY <1>1 DEF Counted, BlocksOf
<1>3. worker \in [1 .. Len(plan) -> [at : Labels, sent : Nat, blocks : Nat]]
  BY <1>1
<1>4. RunTypeOK
  <2>1. range \in BlockRange /\ plan \in Seq(BlockRange) /\ blocksDone \in 0 .. Size(range)
    BY DEF Init, BlockRange, Size
  <2>2. chunksDone = Cardinality(Counted)
    BY <1>2, FS_EmptySet DEF Init
  <2>3. runs \in 0 .. MaxRuns /\ faults \in 0 .. 2 * runs
    BY RunAssumption DEF Init
  <2> QED BY <1>1, <1>3, <2>1, <2>2, <2>3 DEF Init, RunTypeOK, Counted
<1>5. TopicsOK /\ PlanOK /\ WorkersOK /\ FaultsOK
  BY <1>1 DEF Init, TopicsOK, PlanOK, WorkersOK, FaultsOK
<1>6. CountersOK
  BY <1>1, <1>2, FS_EmptySet DEF Init, CountersOK
<1>7. ProgressHonest
  BY <1>1, HonestIsHeld DEF Honest
<1> QED BY <1>4, <1>5, <1>6, <1>7 DEF RunInv

\* A goroutine that goes on to another label, having sent what it has.
LEMMA KeepsAtLabel ==
  ASSUME RunInv, NEW i \in DOMAIN worker, NEW a \in Labels,
         Moves(i, [worker[i] EXCEPT !.at = a]),
         SentOK(plan[i], [worker[i] EXCEPT !.at = a]),
         results' = results, TopicsOK', ProgressHonest',
         RunTypeOK' /\ PlanOK' /\ FaultsOK' /\ CountersOK'
  PROVE  RunInv'
<1> DEFINE w == [worker[i] EXCEPT !.at = a]
<1>1. w.sent = worker[i].sent
  BY WorkerTyped DEF RunInv
<1>2. \A k \in 1 .. w.sent : On(results', plan[i], k)
  BY <1>1 DEF RunInv, WorkersOK
<1> HIDE DEF w
<1>3. WorkersOK'
  BY <1>2, MovedSent DEF RunInv, w
<1> QED BY <1>3 DEF RunInv

LEMMA SentAt ==
  ASSUME RunInv, NEW i \in DOMAIN worker, NEW a \in Labels
  PROVE  LET w == [worker[i] EXCEPT !.at = a] IN
         /\ w.at = a /\ w.sent = worker[i].sent /\ w.blocks = worker[i].blocks
         /\ worker[i].sent \in 0 .. Turns(plan[i]) /\ Turns(plan[i]) \in Nat \ {0}
         /\ worker[i].at \in {"waiting", "fetching"} => worker[i].sent = 0
         /\ worker[i].at = "emitting" => worker[i].sent < Turns(plan[i])
         /\ worker[i].at \in {"counting", "reporting", "returned"} => worker[i].sent = Turns(plan[i])
<1>1. worker[i] = [at |-> worker[i].at, sent |-> worker[i].sent, blocks |-> worker[i].blocks]
  BY WorkerTyped DEF RunInv
<1> QED BY <1>1, ChunkTurns DEF RunInv, WorkersOK, SentOK

LEMMA MovesOnly ==
  ASSUME RunInv, NEW i \in DOMAIN worker, Dispatch(i) \/ FetchChunk(i) \/ FetchFails(i)
  PROVE  RunInv'
<1>1. PICK a \in {"fetching", "emitting", "failed"} :
        /\ Moves(i, [worker[i] EXCEPT !.at = a])
        /\ worker[i].at \in {"waiting", "fetching"}
        /\ cancelled' = (cancelled \/ a = "failed")
        /\ UNCHANGED <<results, status, progressVars>>
  <2>1. cancelled = (cancelled \/ FALSE)
    BY DEF RunInv, RunTypeOK
  <2> QED BY <2>1, Steps DEF RunInv, Same
<1> DEFINE w == [worker[i] EXCEPT !.at = a]
<1>2. /\ a \in Labels /\ w.at = a /\ w.sent = worker[i].sent
      /\ worker[i].sent = 0 /\ Turns(plan[i]) \in Nat \ {0}
  BY <1>1, SentAt DEF Labels
<1>3. SentOK(plan[i], w)
  BY <1>2 DEF SentOK
<1>4. RunTypeOK' /\ PlanOK' /\ FaultsOK' /\ CountersOK'
  BY <1>1, <1>2, MoveKeeps
<1>5. ProgressHonest' /\ TopicsOK'
  BY <1>1, HonestIsHeld DEF RunInv, TopicsOK
<1> QED BY <1>1, <1>2, <1>3, <1>4, <1>5, KeepsAtLabel

LEMMA EmitsKept ==
  ASSUME RunInv, NEW i \in DOMAIN worker, EmitBatch(i) \/ EmitFails(i)
  PROVE  RunInv'
<1>0. worker[i].at = "emitting" /\ UNCHANGED <<status, progressVars>> /\ cancelled = (cancelled \/ FALSE)
  BY Steps DEF RunInv, RunTypeOK
<1>1. CASE EmitFails(i) /\ results' = results /\ Moves(i, [worker[i] EXCEPT !.at = "failed"])
  <2> DEFINE w == [worker[i] EXCEPT !.at = "failed"]
  <2>1. /\ "failed" \in Labels /\ w.at = "failed" /\ w.sent = worker[i].sent
        /\ w.sent \in 0 .. Turns(plan[i]) /\ cancelled'
    BY <1>1, SentAt, Steps DEF Labels, RunInv
  <2>2. SentOK(plan[i], w)
    BY <2>1 DEF SentOK
  <2>3. RunTypeOK' /\ PlanOK' /\ FaultsOK' /\ CountersOK'
    BY <1>0, <1>1, <2>1, MoveKeeps
  <2>4. ProgressHonest' /\ TopicsOK'
    BY <1>0, <1>1, HonestIsHeld DEF RunInv, TopicsOK
  <2> QED BY <1>1, <2>1, <2>2, <2>3, <2>4, KeepsAtLabel
<1>2. ASSUME results' = Append(results, TransferBatch(i)),
             NEW w, Moves(i, w), w.sent = worker[i].sent + 1,
             \/ w.at = "failed"
             \/ w.at = "counting" /\ w.sent = Turns(plan[i])
             \/ w.at = "emitting" /\ w.sent # Turns(plan[i]),
             cancelled' = (cancelled \/ w.at = "failed")
      PROVE  RunInv'
  <2> DEFINE more == Append(results, TransferBatch(i))
  <2>1. /\ TransferBatch(i) \in Batches /\ more \in Seq(Batches)
        /\ \A c, k : On(results, c, k) => On(more, c, k)
        /\ \A k \in 1 .. w.sent : On(more, plan[i], k)
        /\ w.sent \in 1 .. Turns(plan[i])
        /\ Cardinality(Held(results)) <= Cardinality(Held(more))
    BY <1>0, <1>2, Emitted DEF RunInv
  <2>2. Turns(plan[i]) \in Nat
    BY ChunkTurns
  <2> HIDE DEF more
  <2>3. SentOK(plan[i], w)
    BY <1>2, <2>1, <2>2 DEF SentOK
  <2>4. results' = more
    BY <1>2 DEF more
  <2>5. WorkersOK'
    BY <1>2, <2>1, <2>3, <2>4, MovedSent DEF RunInv
  <2>6. RunTypeOK' /\ PlanOK' /\ FaultsOK' /\ CountersOK'
    BY <1>0, <1>2, MoveKeeps
  <2>7. ProgressHonest' /\ TopicsOK'
    <3> DEFINE none == [snap |-> Job, state |-> "started", blocks |-> 0]
    <3>1. none \in Statuses /\ none.blocks <= Cardinality(Held(results))
      BY HeldFinite DEF Statuses, RunInv, TopicsOK
    <3> HIDE DEF none
    <3> QED BY <1>0, <2>1, <2>4, <3>1, HonestKept DEF RunInv, TopicsOK
  <2> QED BY <2>5, <2>6, <2>7 DEF RunInv
<1>3. CASE EmitFails(i) /\ results' = Append(results, TransferBatch(i)) /\
           Moves(i, [at |-> "failed", sent |-> worker[i].sent + 1, blocks |-> worker[i].blocks])
  <2>1. cancelled'
    BY <1>3, Steps DEF RunInv
  <2> QED BY <1>2, <1>3, <2>1
<1>4. CASE EmitBatch(i)
  <2> DEFINE a == IF worker[i].sent + 1 = Turns(plan[i]) THEN "counting" ELSE "emitting"
             w == [at |-> a, sent |-> worker[i].sent + 1, blocks |-> worker[i].blocks]
  <2>1. Moves(i, w) /\ results' = Append(results, TransferBatch(i)) /\ cancelled' = cancelled
    BY <1>4, Steps DEF RunInv
  <2>2. /\ \/ w.at = "counting" /\ w.sent = Turns(plan[i])
           \/ w.at = "emitting" /\ w.sent # Turns(plan[i])
        /\ w.sent = worker[i].sent + 1
    OBVIOUS
  <2>3. cancelled' = (cancelled \/ w.at = "failed")
    BY <1>0, <2>1, <2>2
  <2> HIDE DEF w
  <2> QED BY <1>2, <2>1, <2>2, <2>3
<1> QED BY <1>1, <1>3, <1>4, Steps DEF RunInv

LEMMA CountKept ==
  ASSUME RunInv, NEW i \in DOMAIN worker, Count(i)
  PROVE  RunInv'
<1>1. /\ worker[i].at = "counting" /\ UNCHANGED <<results, status, cancelled>>
      /\ chunksDone' = chunksDone + 1 /\ blocksDone' = blocksDone + Size(plan[i])
      /\ blocksDone' \in Nat =>
           \/ Moves(i, [at |-> "reporting", sent |-> worker[i].sent, blocks |-> blocksDone'])
           \/ Moves(i, [worker[i] EXCEPT !.at = "returned"])
  BY Steps DEF RunInv
<1>2. /\ blocksDone' \in Nat
      /\ worker[i] = [at |-> worker[i].at, sent |-> worker[i].sent, blocks |-> worker[i].blocks]
  <2>1. DOMAIN worker = 1 .. Len(plan) /\ Len(plan) \in Nat /\ plan # << >>
    <3>1. phase = "dispatching"
      BY DEF Count, At
    <3> QED BY <3>1, WorkerTyped DEF RunInv, PlanOK
  <2>2. plan[i].from \in Nat /\ plan[i].to \in Nat /\ plan[i].from <= plan[i].to
    BY <2>1, PlanInHand DEF RunInv, Tile, BlockRange
  <2>3. Counted \in SUBSET (1 .. Len(plan))
    BY <2>1 DEF Counted
  <2>4. blocksDone \in Nat
    <3>1. Cardinality(BlocksOf(Counted)) \in Nat
      BY <2>1, <2>3, CountedInside, FS_CardinalityType DEF RunInv
    <3> QED BY <3>1 DEF RunInv, CountersOK
  <2> QED BY <1>1, <2>2, <2>4, RangeSize, WorkerTyped DEF RunInv
<1>3. PICK w : /\ Moves(i, w) /\ w.at \in {"reporting", "returned"} /\ w.sent = worker[i].sent
               /\ w.at = "reporting" => w.blocks = blocksDone'
  <2> DEFINE b == blocksDone'
             v == [at |-> "reporting", sent |-> worker[i].sent, blocks |-> b]
             u == [worker[i] EXCEPT !.at = "returned"]
  <2>1. /\ v.at = "reporting" /\ v.sent = worker[i].sent /\ v.blocks = b
        /\ u.at = "returned" /\ u.sent = worker[i].sent
    BY <1>2
  <2>2. Moves(i, v) \/ Moves(i, u)
    BY <1>1, <1>2
  <2> HIDE DEF u, v
  <2> QED BY <2>1, <2>2
<1>4. RunTypeOK' /\ PlanOK' /\ FaultsOK' /\ CountersOK'
  BY <1>1, <1>3, MoveCounts
<1>5. WorkersOK'
  <2>1. worker[i].sent = Turns(plan[i]) /\ Turns(plan[i]) \in Nat \ {0}
    BY <1>1, ChunkTurns DEF RunInv, WorkersOK, SentOK
  <2>2. SentOK(plan[i], w)
    BY <1>3, <2>1 DEF SentOK
  <2>3. \A k \in 1 .. w.sent : On(results', plan[i], k)
    BY <1>1, <1>3 DEF RunInv, WorkersOK
  <2> QED BY <1>1, <1>3, <2>2, <2>3, MovedSent DEF RunInv
<1>6. ProgressHonest' /\ TopicsOK'
  BY <1>1, HonestIsHeld DEF RunInv, TopicsOK
<1> QED BY <1>4, <1>5, <1>6 DEF RunInv

\* What is counted is held.
LEMMA CountedIsHeld ==
  ASSUME RunInv
  PROVE  Cardinality(BlocksOf(Counted)) <= Cardinality(Held(results))
<1>1. DOMAIN worker = 1 .. Len(plan) /\ results \in Seq(Batches)
  BY WorkerTyped DEF RunInv, TopicsOK
<1>2. Counted \in SUBSET (1 .. Len(plan))
  BY <1>1 DEF Counted
<1>3. \A n \in Counted : InFull(results, plan[n])
  BY DEF RunInv, Counted, WorkersOK, SentOK, InFull
<1>4. BlocksOf(Counted) \in SUBSET Held(results)
  BY <1>1, <1>2, <1>3, SentIsHeld
<1> QED BY <1>1, <1>4, HeldFinite, FS_Subset

LEMMA ReportKept ==
  ASSUME RunInv, NEW i \in DOMAIN worker, Report(i)
  PROVE  RunInv'
<1> DEFINE w == [worker[i] EXCEPT !.at = "returned"]
           m == Status("progress", worker[i].blocks)
<1>1. /\ worker[i].at = "reporting" /\ Moves(i, w)
      /\ UNCHANGED <<results, cancelled, progressVars>>
      /\ status' = status \/ status' = Append(status, m)
      /\ cancelled = (cancelled \/ FALSE)
  BY Steps DEF RunInv, RunTypeOK
<1>2. "returned" \in Labels /\ w.at = "returned" /\ w.sent = Turns(plan[i]) /\ Turns(plan[i]) \in Nat
  BY <1>1, SentAt DEF Labels
<1>3. SentOK(plan[i], w)
  BY <1>2 DEF SentOK
<1>4. RunTypeOK' /\ PlanOK' /\ FaultsOK' /\ CountersOK'
  BY <1>1, <1>2, MoveKeeps
<1>5. m \in Statuses /\ m.blocks <= Cardinality(Held(results))
  <2>1. worker[i].blocks \in Nat /\ worker[i].blocks <= blocksDone
    BY <1>1, WorkerTyped DEF RunInv, CountersOK, Worker
  <2>2. blocksDone <= Cardinality(Held(results)) /\ blocksDone \in Int
    BY CountedIsHeld DEF RunInv, CountersOK, RunTypeOK
  <2>3. Cardinality(Held(results)) \in Nat
    BY HeldFinite DEF RunInv, TopicsOK
  <2> QED BY <2>1, <2>2, <2>3 DEF Status, Statuses
<1>6. ProgressHonest' /\ status' \in Seq(Statuses) /\ results' \in Seq(Batches)
  <2>1. results' \in Seq(Batches) /\ Cardinality(Held(results)) <= Cardinality(Held(results'))
    BY <1>1, HeldFinite DEF RunInv, TopicsOK
  <2> HIDE DEF m
  <2> QED BY <1>1, <1>5, <2>1, HonestKept DEF RunInv
<1> QED BY <1>1, <1>2, <1>3, <1>4, <1>6, KeepsAtLabel DEF TopicsOK

-----------------------------------------------------------------------------
(* Steps of the run itself.                                                *)

LEMMA StartKept == RunInv /\ Start => RunInv'
<1> SUFFICES ASSUME RunInv, Start PROVE RunInv'
  OBVIOUS
<1>1. PICK r \in Resolutions :
        /\ r.from <= r.to /\ range' = r /\ plan' = ChunksOf(r)
        /\ worker' = [i \in 1 .. Len(ChunksOf(r)) |-> Waiting]
  BY DEF Start
<1>2. /\ r \in BlockRange /\ Tile(ChunksOf(r), r.from, r.to, size)
      /\ r.from \in Nat /\ r.to \in Nat
  BY <1>1, ResolvedPlan DEF BlockRange
<1>3. /\ plan' \in Seq(BlockRange) /\ Len(plan') \in Nat \ {0} /\ plan' # << >>
      /\ DOMAIN worker' = 1 .. Len(plan') /\ \A i \in DOMAIN worker' : worker'[i] = Waiting
  BY <1>1, <1>2 DEF Tile
<1>4. Waiting \in [at : Labels, sent : Nat, blocks : Nat]
  BY DEF Waiting, Labels
<1>5. Counted' = {} /\ BlocksOf(Counted)' = {}
  <2>1. Counted' = {}
    BY <1>3 DEF Counted, Waiting
  <2> QED BY <2>1 DEF BlocksOf
<1>6. phase' = "dispatching" /\ runs' = runs + 1 /\ runs < MaxRuns /\ phase = "queued"
  BY DEF Start
<1>7. FaultsOK' /\ runs' \in 0 .. MaxRuns /\ faults' \in 0 .. 2 * runs'
  <2>1. faults' = faults \/ faults' = faults + 1
    BY DEF Start
  <2>2. runs \in Nat /\ MaxRuns \in Nat /\ faults \in Nat /\ faults <= 2 * runs
    BY RunAssumption DEF RunInv, RunTypeOK
  <2> QED BY <1>6, <2>1, <2>2 DEF FaultsOK
<1>8. RunTypeOK'
  <2>1. worker' \in [1 .. Len(plan') -> [at : Labels, sent : Nat, blocks : Nat]]
    BY <1>1, <1>4
  <2>2. cancelled' = (\E i \in DOMAIN worker' : worker'[i].at = "failed")
    <3>1. \A i \in DOMAIN worker' : worker'[i].at = "waiting"
      BY <1>3 DEF Waiting
    <3>2. cancelled' = FALSE
      BY DEF Start
    <3> QED BY <3>1, <3>2
  <2>3. chunksDone' = Cardinality(Counted')
    BY <1>5, FS_EmptySet DEF Start
  <2>4. blocksDone' \in 0 .. Size(range')
    BY <1>1, <1>2, RangeSize DEF Start
  <2>5. range' \in BlockRange
    BY <1>1, <1>2
  <2> QED BY <1>3, <1>6, <1>7, <2>1, <2>2, <2>3, <2>4, <2>5 DEF RunTypeOK, Counted
<1>9. WorkersOK'
  <2>1. \A i \in DOMAIN worker' : Turns(plan'[i]) \in Nat
    BY ChunkTurns
  <2>2. \A i \in DOMAIN worker' : worker'[i].at = "waiting" /\ worker'[i].sent = 0
    BY <1>3 DEF Waiting
  <2>3. \A i \in DOMAIN worker' : SentOK(plan[i], worker[i])' <=> SentOK(plan'[i], worker'[i])
    BY DEF SentOK, Turns
  <2> QED BY <2>1, <2>2, <2>3 DEF WorkersOK, SentOK
<1>10. CountersOK'
  <2>1. blocksDone' = Cardinality(BlocksOf(Counted)')
    BY <1>5, FS_EmptySet DEF Start
  <2>2. \A i \in DOMAIN worker' : worker'[i].at # "reporting"
    BY <1>3 DEF Waiting
  <2> QED BY <2>1, <2>2 DEF CountersOK
<1>11. ProgressHonest' /\ TopicsOK'
  <2> DEFINE m == Status("started", 0)
  <2>1. m \in Statuses /\ m.blocks = 0
    BY DEF Status, Statuses
  <2>2. status' = status \/ status' = Append(status, m)
    BY DEF Start
  <2>3. results' = results /\ results \in Seq(Batches) /\ Cardinality(Held(results)) \in Nat
    BY HeldFinite DEF Start, RunInv, TopicsOK
  <2> HIDE DEF m
  <2>4. results' \in Seq(Batches) /\ Cardinality(Held(results)) <= Cardinality(Held(results'))
    BY <2>3
  <2>5. m.blocks <= Cardinality(Held(results))
    BY <2>1, <2>3
  <2> QED BY <2>1, <2>2, <2>4, <2>5, HonestKept DEF RunInv, TopicsOK
<1>12. PlanOK'
  BY <1>1, <1>3 DEF PlanOK
<1> QED BY <1>7, <1>8, <1>9, <1>10, <1>11, <1>12 DEF RunInv

\* The run ends, or is taken up again: no goroutine and no counter moves.
LEMMA PhaseOnly ==
  ASSUME RunInv, UNCHANGED <<results, range, plan, runs, worker, cancelled, progressVars>>,
         phase' \in {"queued", "rejected", "finished", "failed"},
         \/ faults' = faults
         \/ faults' = faults + 1 /\ phase = "dispatching",
         ProgressHonest', status' \in Seq(Statuses)
  PROVE  RunInv'
<1>1. /\ Counted' = Counted /\ BlocksOf(Counted)' = BlocksOf(Counted)
      /\ WorkersOK' /\ CountersOK' /\ PlanOK'
  BY DEF RunInv, Counted, BlocksOf, WorkersOK, SentOK, Turns, On, CountersOK, PlanOK, progressVars
<1>2. FaultsOK' /\ faults' \in 0 .. 2 * runs'
  <2>1. runs \in Nat /\ faults \in Nat /\ faults + (IF phase = "dispatching" THEN 1 ELSE 0) <= 2 * runs
    BY RunAssumption DEF RunInv, RunTypeOK, FaultsOK
  <2> QED BY <2>1 DEF FaultsOK
<1>3. RunTypeOK'
  BY <1>1, <1>2 DEF RunInv, RunTypeOK, Counted, progressVars
<1> QED BY <1>1, <1>2, <1>3 DEF RunInv, TopicsOK

LEMMA FinishKept == RunInv /\ Finish => RunInv'
<1> SUFFICES ASSUME RunInv, Finish PROVE RunInv'
  OBVIOUS
<1> DEFINE m == Status("done", Size(range))
<1>1. /\ UNCHANGED <<results, range, plan, runs, worker, cancelled, progressVars>>
      /\ phase = "dispatching" /\ phase' = "finished" /\ AllReturned /\ ~cancelled
      /\ status' = status \/ status' = Append(status, m)
      /\ faults' = faults \/ faults' = faults + 1
  BY DEF Finish
<1>2. PlanOK /\ plan # << >> /\ DOMAIN worker = 1 .. Len(plan)
  BY <1>1, WorkerTyped DEF RunInv, PlanOK
<1>3. Counted = 1 .. Len(plan)
  BY <1>1, <1>2 DEF RunInv, RunTypeOK, AllReturned, Counted
<1>4. Cardinality(BlocksOf(Counted)) = Size(range) /\ Size(range) \in Nat
  BY <1>2, <1>3, CountedInside, PlanInHand, RangeSize
<1>5. m \in Statuses /\ m.blocks <= Cardinality(Held(results))
  <2>1. m.blocks = Size(range) /\ m \in Statuses
    BY <1>4 DEF Status, Statuses
  <2> QED BY <1>4, <2>1, CountedIsHeld
<1>6. results' \in Seq(Batches) /\ Cardinality(Held(results)) <= Cardinality(Held(results'))
  BY <1>1, HeldFinite DEF RunInv, TopicsOK
<1> HIDE DEF m
<1>7. ProgressHonest' /\ status' \in Seq(Statuses)
  BY <1>1, <1>5, <1>6, HonestKept DEF RunInv
<1> QED BY <1>1, <1>7, PhaseOnly

LEMMA AbortKept == RunInv /\ Abort => RunInv'
<1> SUFFICES ASSUME RunInv, Abort PROVE RunInv'
  OBVIOUS
<1> DEFINE m == Status("error", 0)
<1>1. /\ UNCHANGED <<results, range, plan, runs, worker, cancelled, progressVars>>
      /\ phase = "dispatching" /\ phase' = "failed" /\ faults' = faults + 1
      /\ status' = status \/ status' = Append(status, m)
  BY DEF Abort
<1>2. m \in Statuses /\ m.blocks = 0 /\ Cardinality(Held(results)) \in Nat
  BY HeldFinite DEF Status, Statuses, RunInv, TopicsOK
<1>3. results' \in Seq(Batches) /\ Cardinality(Held(results)) <= Cardinality(Held(results'))
  BY <1>1, <1>2 DEF RunInv, TopicsOK
<1> HIDE DEF m
<1>4. m.blocks <= Cardinality(Held(results))
  BY <1>2
<1>5. ProgressHonest' /\ status' \in Seq(Statuses)
  BY <1>1, <1>2, <1>3, <1>4, HonestKept DEF RunInv
<1> QED BY <1>1, <1>5, PhaseOnly

LEMMA InvNext == RunInv /\ [Next]_vars => RunInv'
<1> SUFFICES ASSUME RunInv, [Next]_vars PROVE RunInv'
  OBVIOUS
<1>1. CASE Reject \/ Restart
  <2>1. /\ UNCHANGED <<results, status, range, plan, runs, faults, worker, cancelled, progressVars>>
        /\ phase' \in {"queued", "rejected"}
    BY <1>1 DEF Reject, Restart
  <2>2. ProgressHonest' /\ status' \in Seq(Statuses)
    BY <2>1, HonestIsHeld DEF RunInv, TopicsOK
  <2> QED BY <2>1, <2>2, PhaseOnly
<1>2. CASE Start
  BY <1>2, StartKept
<1>3. ASSUME NEW i \in DOMAIN worker, Dispatch(i) \/ Goroutine(i)
      PROVE  RunInv'
  BY <1>3, MovesOnly, EmitsKept, CountKept, ReportKept DEF Goroutine
<1>4. CASE Finish
  BY <1>4, FinishKept
<1>5. CASE Abort
  BY <1>5, AbortKept
<1>6. CASE UNCHANGED vars
  <2>1. UNCHANGED <<results, status, runVars, worker, cancelled, progressVars>>
    BY <1>6 DEF vars
  <2>2. Counted' = Counted /\ BlocksOf(Counted)' = BlocksOf(Counted)
    BY <2>1 DEF Counted, BlocksOf, runVars
  <2> QED BY <2>1, <2>2, HonestIsHeld
        DEF RunInv, RunTypeOK, TopicsOK, PlanOK, WorkersOK, SentOK, Turns, On, FaultsOK, CountersOK,
            Counted, runVars, progressVars
<1> QED BY <1>1, <1>2, <1>3, <1>4, <1>5, <1>6 DEF Next

LEMMA RunAlways == Spec => []RunInv
BY InvStarts, InvNext, PTL DEF Spec

\* Whatever job, chain, chunk size, slots, runs and failures: every variable keeps its type,
\* the run is cancelled just when a goroutine failed, and its two counters count the chunks
\* that got as far as the mutex, and never more blocks than were asked (scanner.go:98-207).
THEOREM RunTypes == Spec => []RunTypeOK
BY RunAlways, PTL DEF RunInv

\* No status ever claims blocks whose batches are not all on the results topic, in whatever
\* order goroutines count and report, fail, and are run again (scanner.go:167-190, 204-207).
THEOREM ProgressIsHonest == Spec => []ProgressHonest
BY RunAlways, PTL DEF RunInv

-----------------------------------------------------------------------------
(* What the readers of the status topic make of it.  OutcomesOf is a       *)
(* recursive function of a prefix's length: a solution exists, built one   *)
(* message at a time, and two solutions have no first place to differ.     *)

Outcome(m) == [snap |-> m.snap, state |-> m.state]
Kept(m, before) == IF m.state = "progress" THEN before ELSE Append(before, Outcome(m))
IsKept(f, msgs, n) ==
  f = [k \in 0 .. n |-> IF k = 0 THEN << >> ELSE Kept(msgs[k], f[k - 1])]

LEMMA OutcomesIsKept ==
  ASSUME NEW msgs
  PROVE  OutcomesOf(msgs) = (CHOOSE f : IsKept(f, msgs, Len(msgs)))[Len(msgs)]
BY DEF OutcomesOf, IsKept, Kept, Outcome

LEMMA KeptExists ==
  ASSUME NEW msgs, NEW n \in Nat
  PROVE  \E f : IsKept(f, msgs, n)
<1> DEFINE Bad == {k \in 0 .. n : ~\E f : IsKept(f, msgs, k)}
<1> SUFFICES ASSUME Bad # {} PROVE FALSE
  OBVIOUS
<1>1. PICK k \in Bad : \A j \in Bad : k <= j
  <2>1. IsFiniteSet(0 .. n) /\ Bad \in SUBSET (0 .. n)
    BY FS_Interval
  <2>2. Bad \in SUBSET Int /\ Bad # {}
    OBVIOUS
  <2> HIDE DEF Bad
  <2> QED BY <2>1, <2>2, FS_Subset, Extrema
<1>2. k \in 0 .. n /\ ~\E f : IsKept(f, msgs, k)
  OBVIOUS
<1>3. \A j \in 0 .. n : j < k => \E f : IsKept(f, msgs, j)
  BY <1>1
<1> HIDE DEF Bad
<1>4. CASE k = 0
  <2>1. IsKept([j \in 0 .. 0 |-> << >>], msgs, 0)
    BY DEF IsKept
  <2> QED BY <1>2, <1>4, <2>1
<1>5. CASE k # 0
  <2>1. PICK f : IsKept(f, msgs, k - 1)
    BY <1>2, <1>3, <1>5
  <2> DEFINE g == [j \in 0 .. k |-> IF j = k THEN Kept(msgs[k], f[k - 1]) ELSE f[j]]
  <2>2. \A j \in 0 .. k - 1 : f[j] = IF j = 0 THEN << >> ELSE Kept(msgs[j], f[j - 1])
    BY <2>1, Zenon DEF IsKept
  <2>3. \A j \in 0 .. k : g[j] = IF j = 0 THEN << >> ELSE Kept(msgs[j], g[j - 1])
    <3> SUFFICES ASSUME NEW j \in 0 .. k
                 PROVE  g[j] = IF j = 0 THEN << >> ELSE Kept(msgs[j], g[j - 1])
      OBVIOUS
    <3>1. CASE j = k
      <4>1. g[k - 1] = f[k - 1] /\ g[k] = Kept(msgs[k], f[k - 1])
        BY <1>2, <1>5
      <4> QED BY <1>5, <3>1, <4>1
    <3>2. CASE j # k
      <4>1. j \in 0 .. k - 1 /\ g[j] = f[j] /\ (j # 0 => g[j - 1] = f[j - 1])
        BY <1>2, <3>2
      <4> QED BY <2>2, <4>1
    <3> QED BY <3>1, <3>2
  <2>4. g = [j \in 0 .. k |-> g[j]]
    OBVIOUS
  <2>5. IsKept(g, msgs, k)
    <3> HIDE DEF g
    <3> QED BY <2>3, <2>4, Zenon DEF IsKept
  <2> QED BY <1>2, <2>5
<1> QED BY <1>4, <1>5

LEMMA OutcomesEmpty == OutcomesOf(<< >>) = << >>
<1> DEFINE F == CHOOSE f : IsKept(f, << >>, 0)
<1>1. IsKept(F, << >>, 0)
  BY KeptExists
<1>2. OutcomesOf(<< >>) = F[0]
  BY OutcomesIsKept
<1> HIDE DEF F
<1> QED BY <1>1, <1>2 DEF IsKept

LEMMA OutcomesAppend ==
  ASSUME NEW T, NEW msgs \in Seq(T), NEW m \in T
  PROVE  OutcomesOf(Append(msgs, m)) = Kept(m, OutcomesOf(msgs))
<1> DEFINE more == Append(msgs, m)
           n == Len(msgs)
           F == CHOOSE f : IsKept(f, msgs, n)
           G == CHOOSE f : IsKept(f, more, n + 1)
           Bad == {k \in 0 .. n : F[k] # G[k]}
<1>1. /\ n \in Nat /\ Len(more) = n + 1 /\ more[n + 1] = m
      /\ \A k \in 1 .. n : more[k] = msgs[k]
  OBVIOUS
<1>2. OutcomesOf(msgs) = F[n] /\ OutcomesOf(more) = G[n + 1]
  BY <1>1, OutcomesIsKept
<1> HIDE DEF more, n
<1>3. IsKept(F, msgs, n) /\ IsKept(G, more, n + 1)
  <2>1. n \in Nat /\ n + 1 \in Nat
    BY <1>1
  <2>2. (\E f : IsKept(f, msgs, n)) /\ (\E f : IsKept(f, more, n + 1))
    BY <2>1, KeptExists
  <2> QED BY <2>2, Zenon
<1> HIDE DEF F, G
<1>4. \A k \in 0 .. n : F[k] = IF k = 0 THEN << >> ELSE Kept(msgs[k], F[k - 1])
  BY <1>3, Zenon DEF IsKept
<1>5. \A k \in 0 .. n + 1 : G[k] = IF k = 0 THEN << >> ELSE Kept(more[k], G[k - 1])
  BY <1>3, Zenon DEF IsKept
<1>6. Bad = {}
  <2> SUFFICES ASSUME Bad # {} PROVE FALSE
    OBVIOUS
  <2>1. PICK k \in Bad : \A j \in Bad : k <= j
    <3>1. IsFiniteSet(0 .. n) /\ Bad \in SUBSET (0 .. n)
      BY <1>1, FS_Interval
    <3>2. Bad \in SUBSET Int /\ Bad # {}
      OBVIOUS
    <3> HIDE DEF Bad
    <3> QED BY <3>1, <3>2, FS_Subset, Extrema
  <2>2. k \in 0 .. n /\ F[k] # G[k] /\ k \in 0 .. n + 1
    BY <1>1
  <2>3. k # 0
    BY <1>4, <1>5, <2>2
  <2>4. k - 1 \in 0 .. n /\ ~(k <= k - 1)
    BY <1>1, <2>2, <2>3
  <2>5. F[k - 1] = G[k - 1] /\ more[k] = msgs[k]
    BY <1>1, <2>1, <2>2, <2>3, <2>4
  <2> QED BY <1>4, <1>5, <2>2, <2>3, <2>5
<1>7. F[n] = G[n] /\ n + 1 \in 0 .. n + 1 /\ n + 1 # 0 /\ (n + 1) - 1 = n
  BY <1>1, <1>6
<1>8. G[n + 1] = Kept(more[n + 1], G[n])
  BY <1>5, <1>7
<1> QED BY <1>1, <1>2, <1>7, <1>8 DEF more

-----------------------------------------------------------------------------
(* The scan of Scans that a run is, and the topics as Scans has them.      *)

LogOf(res, outcomes) ==
  [q \in {"results", "status"} |-> UnderToken(IF q = "results" THEN res ELSE outcomes)]

LEMMA OneJob ==
  /\ Snapshots = {Job} /\ Job \in Snapshots
  /\ TokenOf[Job] \in Tokens
BY RunAssumption, JobsAssumption

LEMMA Publish ==
  ASSUME NEW res, NEW outcomes, NEW m
  PROVE  /\ LogOf(Append(res, m), outcomes) =
              [LogOf(res, outcomes) EXCEPT !["results"][TokenOf[Job]] = Append(@, m)]
         /\ LogOf(res, Append(outcomes, m)) =
              [LogOf(res, outcomes) EXCEPT !["status"][TokenOf[Job]] = Append(@, m)]
<1> DEFINE L == LogOf(res, outcomes)
           U(x) == [t \in Tokens |-> IF t = TokenOf[Job] THEN x ELSE << >>]
<1>1. /\ L = [q \in {"results", "status"} |-> IF q = "results" THEN U(res) ELSE U(outcomes)]
      /\ LogOf(Append(res, m), outcomes) =
           [q \in {"results", "status"} |-> IF q = "results" THEN U(Append(res, m)) ELSE U(outcomes)]
      /\ LogOf(res, Append(outcomes, m)) =
           [q \in {"results", "status"} |-> IF q = "results" THEN U(res) ELSE U(Append(outcomes, m))]
  BY DEF LogOf, UnderToken
<1>2. \A x, y : [U(x) EXCEPT ![TokenOf[Job]] = y] = U(y)
  OBVIOUS
<1>3. \A x : U(x)[TokenOf[Job]] = x
  BY OneJob
<1> HIDE DEF L, U
<1>4. /\ [L EXCEPT !["results"][TokenOf[Job]] = Append(@, m)] =
           [L EXCEPT !["results"] = U(Append(res, m))]
      /\ [L EXCEPT !["status"][TokenOf[Job]] = Append(@, m)] =
           [L EXCEPT !["status"] = U(Append(outcomes, m))]
  <2>1. L["results"] = U(res) /\ L["status"] = U(outcomes)
    BY <1>1
  <2>2. /\ [L["results"] EXCEPT ![TokenOf[Job]] = Append(@, m)] = U(Append(res, m))
        /\ [L["status"] EXCEPT ![TokenOf[Job]] = Append(@, m)] = U(Append(outcomes, m))
    <3>1. /\ [U(res) EXCEPT ![TokenOf[Job]] = Append(res, m)] = U(Append(res, m))
          /\ [U(outcomes) EXCEPT ![TokenOf[Job]] = Append(outcomes, m)] = U(Append(outcomes, m))
      BY <1>2
    <3>2. U(res)[TokenOf[Job]] = res /\ U(outcomes)[TokenOf[Job]] = outcomes
      BY <1>3
    <3> QED BY <2>1, <3>1, <3>2
  <2>3. /\ [L EXCEPT !["results"][TokenOf[Job]] = Append(@, m)] =
             [L EXCEPT !["results"] = [L["results"] EXCEPT ![TokenOf[Job]] = Append(@, m)]]
        /\ [L EXCEPT !["status"][TokenOf[Job]] = Append(@, m)] =
             [L EXCEPT !["status"] = [L["status"] EXCEPT ![TokenOf[Job]] = Append(@, m)]]
    OBVIOUS
  <2> QED BY <2>2, <2>3
<1> QED BY <1>1, <1>4 DEF L

\* No chunk is in a plan twice.
LEMMA PlanCardinality ==
  ASSUME NEW p, NEW from, NEW to, NEW n, Tile(p, from, to, n)
  PROVE  Cardinality({p[i] : i \in DOMAIN p}) = Len(p)
<1> DEFINE S == {p[i] : i \in 1 .. Len(p)}
           f == [i \in 1 .. Len(p) |-> p[i]]
<1>1. Len(p) \in Nat /\ DOMAIN p = 1 .. Len(p)
  BY DEF Tile
<1>2. \A i, j \in 1 .. Len(p) : i # j => p[i] # p[j]
  BY TilesApart
<1>3. f \in Injection(1 .. Len(p), S) /\ f \in Surjection(1 .. Len(p), S)
  BY <1>2 DEF Injection, IsInjective, Surjection
<1>4. IsFiniteSet(1 .. Len(p)) /\ Cardinality(1 .. Len(p)) = Len(p)
  <2>1. 1 \in Int /\ Len(p) \in Int
    BY <1>1
  <2>2. Cardinality(1 .. Len(p)) = IF 1 > Len(p) THEN 0 ELSE Len(p) - 1 + 1
    BY <2>1, FS_Interval
  <2> QED BY <1>1, <2>1, <2>2, FS_Interval
<1> HIDE DEF S, f
<1>5. Cardinality(S) = Cardinality(1 .. Len(p))
  BY <1>3, <1>4, FS_Surjection
<1> QED BY <1>1, <1>4, <1>5 DEF S

PlanSet == {plan[i] : i \in DOMAIN plan}
SentSet == UNION {{<<plan[i], k>> : k \in 1 .. worker[i].sent} : i \in DOMAIN plan}

LEMMA SameOperators ==
  /\ \A s, p : Contract!BatchesOf(s, p) = BatchesOf(s, p)
  /\ \A s, c, k : Contract!Batch(Contract!ChunkLogs(s, c), k) = Batch(ChunkLogs(s, c), k)
<1>1. \A s, c : Contract!ChunkLogs(s, c) = ChunkLogs(s, c)
  BY DEF Contract!ChunkLogs, ChunkLogs, Contract!Blocks, Blocks
<1>0. \A S : Contract!Cardinality(S) = Cardinality(S)
  BY DEF Contract!Cardinality, Cardinality
<1>2. \A logs : Contract!BatchCount(logs) = BatchCount(logs)
  BY <1>0 DEF Contract!BatchCount, BatchCount
<1>3. \A logs, k : Contract!Batch(logs, k) = Batch(logs, k)
  BY <1>0 DEF Contract!Batch, Batch, Contract!Rank, Rank
<1>4. \A s, p : Contract!BatchesOf(s, p) = BatchesOf(s, p)
  BY <1>1, <1>2 DEF Contract!BatchesOf, BatchesOf
<1> QED BY <1>1, <1>3, <1>4

\* The state of Scans that a state of ScanRun stands for.
Scanned == [s \in Snapshots |-> ScanOf]

PhaseOf ==
  CASE phase = "dispatching" -> "scanning"
    [] phase = "rejected" -> "queued"
    [] OTHER -> phase

LEMMA ScannedIs ==
  /\ Scanned = [s \in Snapshots |-> [phase |-> PhaseOf, plan |-> PlanSet, sent |-> SentSet, runs |-> runs]]
  /\ Scanned[Job] = [phase |-> PhaseOf, plan |-> PlanSet, sent |-> SentSet, runs |-> runs]
BY OneJob DEF Scanned, ScanOf, PhaseOf, PlanSet, SentSet

\* What of the batches sent Scans asks.
LEMMA SentMaps ==
  ASSUME RunInv, NEW i \in DOMAIN worker, NEW w, Moves(i, w)
  PROVE  /\ w.sent = worker[i].sent => SentSet' = SentSet
         /\ PlanSet' = PlanSet /\ runs' = runs /\ faults' = faults
         /\ PhaseOf' = PhaseOf /\ PhaseOf = "scanning"
<1>1. /\ phase = "dispatching" /\ UNCHANGED runVars
      /\ DOMAIN worker' = DOMAIN worker
      /\ worker'[i] = w /\ \A n \in DOMAIN worker : n # i => worker'[n] = worker[n]
  BY Moved DEF RunInv
<1>2. DOMAIN plan = DOMAIN worker
  BY WorkerTyped DEF RunInv
<1>3. ASSUME w.sent = worker[i].sent PROVE SentSet' = SentSet
  <2>1. \A n \in DOMAIN plan : worker'[n].sent = worker[n].sent
    BY <1>1, <1>2, <1>3
  <2> QED BY <1>1, <2>1 DEF SentSet, runVars
<1> QED BY <1>1, <1>3 DEF PlanSet, PhaseOf, runVars

LEMMA EmitSends ==
  ASSUME RunInv, NEW i \in DOMAIN worker, NEW w, Moves(i, w), worker[i].at = "emitting",
         w.sent = worker[i].sent + 1,
         NEW b, b = <<plan[i], worker[i].sent + 1>>
  PROVE  /\ b \in BatchesOf(Job, PlanSet) \ SentSet
         /\ b[2] > 1 => <<b[1], b[2] - 1>> \in SentSet
         /\ SentSet' = SentSet \cup {b}
<1>1. /\ phase = "dispatching" /\ UNCHANGED runVars
      /\ DOMAIN worker' = DOMAIN worker
      /\ worker'[i] = w /\ \A n \in DOMAIN worker : n # i => worker'[n] = worker[n]
  BY Moved DEF RunInv
<1>2. DOMAIN plan = 1 .. Len(plan) /\ DOMAIN worker = 1 .. Len(plan)
  BY WorkerTyped DEF RunInv
<1>3. \A n \in DOMAIN worker : worker[n].sent \in Nat
  BY WorkerTyped DEF RunInv, Worker
<1>4. worker[i].sent < Turns(plan[i]) /\ Turns(plan[i]) \in Nat
  BY ChunkTurns DEF RunInv, WorkersOK, SentOK
<1> DEFINE k == worker[i].sent + 1
<1>5. k \in 1 .. BatchCount(ChunkLogs(Job, plan[i])) /\ k \in Nat
  BY <1>3, <1>4 DEF Turns
<1>6. \A n \in DOMAIN plan : n # i => plan[n] # plan[i]
  <2>1. plan # << >>
    BY <1>1 DEF RunInv, PlanOK
  <2>2. Tile(plan, range.from, range.to, size)
    BY <2>1, PlanInHand DEF RunInv
  <2> QED BY <1>2, <2>2, TilesApart
<1>7. b \in BatchesOf(Job, PlanSet)
  BY <1>2, <1>5 DEF BatchesOf, PlanSet
<1>8. b \notin SentSet
  <2> SUFFICES ASSUME NEW n \in DOMAIN plan, NEW m \in 1 .. worker[n].sent, b = <<plan[n], m>>
               PROVE  FALSE
    BY DEF SentSet
  <2>1. plan[n] = plan[i] /\ m = k
    OBVIOUS
  <2>2. n = i
    BY <1>6, <2>1
  <2> QED BY <1>3, <2>1, <2>2
<1>9. b[2] > 1 => <<b[1], b[2] - 1>> \in SentSet
  <2> SUFFICES ASSUME k > 1 PROVE <<plan[i], k - 1>> \in SentSet
    OBVIOUS
  <2>1. k - 1 \in 1 .. worker[i].sent
    BY <1>3
  <2> QED BY <1>2, <2>1 DEF SentSet
<1>10. SentSet' = SentSet \cup {b}
  <2>1. \A n \in DOMAIN plan : n # i => worker'[n].sent = worker[n].sent
    BY <1>1, <1>2
  <2>2. worker'[i].sent = k /\ 1 .. k = (1 .. worker[i].sent) \cup {k}
    BY <1>1, <1>3
  <2>3. plan' = plan
    BY <1>1 DEF runVars
  <2>4. \A x : x \in SentSet' <=> \E n \in DOMAIN plan : \E m \in 1 .. worker'[n].sent : x = <<plan[n], m>>
    BY <2>3 DEF SentSet
  <2>5. \A x : x \in SentSet <=> \E n \in DOMAIN plan : \E m \in 1 .. worker[n].sent : x = <<plan[n], m>>
    BY DEF SentSet
  <2> HIDE DEF k
  <2>6. ASSUME NEW x \in SentSet' PROVE x \in SentSet \cup {b}
    <3>1. PICK n \in DOMAIN plan : \E m \in 1 .. worker'[n].sent : x = <<plan[n], m>>
      BY <2>4
    <3> QED BY <2>1, <2>2, <2>5, <3>1 DEF k
  <2>7. SentSet \subseteq SentSet'
    <3> SUFFICES ASSUME NEW x \in SentSet PROVE x \in SentSet'
      OBVIOUS
    <3>1. PICK n \in DOMAIN plan : \E m \in 1 .. worker[n].sent : x = <<plan[n], m>>
      BY <2>5
    <3> QED BY <2>1, <2>2, <2>4, <3>1
  <2>8. b \in SentSet'
    BY <1>2, <1>5, <2>2, <2>4 DEF k
  <2> QED BY <2>6, <2>7, <2>8
<1> QED BY <1>7, <1>8, <1>9, <1>10

LEMMA EmitMaps ==
  ASSUME RunInv, NEW i \in DOMAIN worker, NEW w, Moves(i, w), worker[i].at = "emitting",
         w.sent = worker[i].sent + 1,
         results' = Append(results, TransferBatch(i)), status' = status
  PROVE  Contract!EmitBatch(Job)
<1> DEFINE b == <<plan[i], worker[i].sent + 1>>
<1>1. /\ b \in BatchesOf(Job, PlanSet) \ SentSet
      /\ b[2] > 1 => <<b[1], b[2] - 1>> \in SentSet
      /\ SentSet' = SentSet \cup {b}
  BY EmitSends
<1>2. PlanSet' = PlanSet /\ runs' = runs /\ faults' = faults /\ PhaseOf' = PhaseOf /\ PhaseOf = "scanning"
  BY SentMaps
<1>3. Scanned' = [Scanned EXCEPT ![Job].sent = @ \cup {b}]
  <2>1. Scanned' = [s \in Snapshots |-> [phase |-> PhaseOf', plan |-> PlanSet', sent |-> SentSet', runs |-> runs']]
    BY DEF Scanned, ScanOf, PhaseOf, PlanSet, SentSet
  <2> HIDE DEF b
  <2> QED BY <1>1, <1>2, <2>1, ScannedIs, OneJob
<1>4. LogOf(results', OutcomesOf(status')) =
        [LogOf(results, OutcomesOf(status)) EXCEPT !["results"][TokenOf[Job]] = Append(@, TransferBatch(i))]
  BY Publish
<1>5. Contract!TransferBatch(Job, b[1], b[2]) = TransferBatch(i)
  <2>1. Contract!Cardinality(PlanSet) = Len(plan)
    <3>1. plan # << >>
      BY DEF RunInv, PlanOK, Moves
    <3>2. Tile(plan, range.from, range.to, size)
      BY <3>1, PlanInHand DEF RunInv
    <3>3. Cardinality(PlanSet) = Len(plan)
      BY <3>2, PlanCardinality DEF PlanSet
    <3> QED BY <3>3 DEF Contract!Cardinality, Cardinality
  <2>2. Scanned[Job].plan = PlanSet
    BY ScannedIs
  <2> QED BY <2>1, <2>2, SameOperators DEF Contract!TransferBatch, TransferBatch, Scanned
<1>6. Scanned[Job].phase = "scanning" /\ Scanned[Job].plan = PlanSet /\ Scanned[Job].sent = SentSet
  BY <1>2, ScannedIs
<1>7. /\ b \in Contract!BatchesOf(Job, Scanned[Job].plan) \ Scanned[Job].sent
      /\ b[2] > 1 => <<b[1], b[2] - 1>> \in Scanned[Job].sent
      /\ LogOf(results', OutcomesOf(status')) =
           [LogOf(results, OutcomesOf(status)) EXCEPT
              !["results"][TokenOf[Job]] = Append(@, Contract!TransferBatch(Job, b[1], b[2]))]
  BY <1>1, <1>4, <1>5, <1>6, SameOperators
<1> HIDE DEF b
<1> QED BY <1>2, <1>3, <1>6, <1>7 DEF Contract!EmitBatch, Contract!Published, Scanned, LogOf

\* A goroutine that fetches, counts, reports or returns is not seen.
LEMMA MoveHidden ==
  ASSUME RunInv, NEW i \in DOMAIN worker, NEW w, Moves(i, w), w.sent = worker[i].sent,
         results' = results, OutcomesOf(status') = OutcomesOf(status)
  PROVE  UNCHANGED Contract!scanVars
<1>1. /\ SentSet' = SentSet /\ PlanSet' = PlanSet /\ runs' = runs /\ faults' = faults
      /\ PhaseOf' = PhaseOf
  BY SentMaps
<1>2. Scanned' = Scanned
  <2>1. ScanOf' = ScanOf
    BY <1>1 DEF ScanOf, PhaseOf, PlanSet, SentSet
  <2> QED BY <2>1 DEF Scanned
<1>3. LogOf(results', OutcomesOf(status')) = LogOf(results, OutcomesOf(status))
  OBVIOUS
<1> QED BY <1>1, <1>2, <1>3 DEF Contract!scanVars, Scanned, LogOf

LEMMA GoroutineMaps ==
  ASSUME RunInv, NEW i \in DOMAIN worker, Dispatch(i) \/ Goroutine(i)
  PROVE  Contract!EmitBatch(Job) \/ UNCHANGED Contract!scanVars
<1>0. worker[i] = [at |-> worker[i].at, sent |-> worker[i].sent, blocks |-> worker[i].blocks]
  BY WorkerTyped DEF RunInv
<1>1. CASE Dispatch(i) \/ FetchChunk(i) \/ FetchFails(i)
  <2>1. PICK a : Moves(i, [worker[i] EXCEPT !.at = a]) /\ results' = results /\ status' = status
    BY <1>1, Steps DEF RunInv, Same
  <2>2. [worker[i] EXCEPT !.at = a].sent = worker[i].sent
    BY <1>0
  <2> QED BY <2>1, <2>2, MoveHidden
<1>2. CASE EmitBatch(i)
  <2>1. PICK a : /\ Moves(i, [at |-> a, sent |-> worker[i].sent + 1, blocks |-> worker[i].blocks])
                 /\ worker[i].at = "emitting" /\ status' = status
                 /\ results' = Append(results, TransferBatch(i))
    BY <1>2, Steps DEF RunInv
  <2>2. [at |-> a, sent |-> worker[i].sent + 1, blocks |-> worker[i].blocks].sent = worker[i].sent + 1
    OBVIOUS
  <2> QED BY <2>1, <2>2, EmitMaps
<1>3. CASE EmitFails(i)
  <2>1. /\ worker[i].at = "emitting" /\ status' = status
        /\ \/ /\ results' = Append(results, TransferBatch(i))
              /\ Moves(i, [at |-> "failed", sent |-> worker[i].sent + 1, blocks |-> worker[i].blocks])
           \/ results' = results /\ Moves(i, [worker[i] EXCEPT !.at = "failed"])
    BY <1>3, Steps DEF RunInv
  <2>2. CASE results' = results /\ Moves(i, [worker[i] EXCEPT !.at = "failed"])
    <3>1. [worker[i] EXCEPT !.at = "failed"].sent = worker[i].sent
      BY <1>0
    <3> QED BY <2>1, <2>2, <3>1, MoveHidden
  <2>3. CASE /\ results' = Append(results, TransferBatch(i))
             /\ Moves(i, [at |-> "failed", sent |-> worker[i].sent + 1, blocks |-> worker[i].blocks])
    <3>1. [at |-> "failed", sent |-> worker[i].sent + 1, blocks |-> worker[i].blocks].sent =
            worker[i].sent + 1
      OBVIOUS
    <3> QED BY <2>1, <2>3, <3>1, EmitMaps
  <2> QED BY <2>1, <2>2, <2>3
<1>4. CASE Count(i)
  <2>1. /\ results' = results /\ status' = status
        /\ \/ worker' = [worker EXCEPT ![i].at = "reporting", ![i].blocks = blocksDone']
           \/ worker' = [worker EXCEPT ![i].at = "returned"]
        /\ UNCHANGED runVars
    BY <1>4 DEF Count, Goto
  <2>2. \A n \in DOMAIN worker : worker'[n].sent = worker[n].sent
    <3>1. \A n \in DOMAIN worker : worker[n] =
            [at |-> worker[n].at, sent |-> worker[n].sent, blocks |-> worker[n].blocks]
      BY WorkerTyped DEF RunInv
    <3> QED BY <2>1, <3>1
  <2>3. DOMAIN plan = DOMAIN worker
    BY WorkerTyped DEF RunInv
  <2>4. ScanOf' = ScanOf /\ faults' = faults
    <3>1. plan' = plan /\ phase' = phase /\ runs' = runs /\ faults' = faults
      BY <2>1 DEF runVars
    <3>2. SentSet' = SentSet
      BY <2>2, <2>3, <3>1 DEF SentSet
    <3> QED BY <3>1, <3>2 DEF ScanOf, SentSet
  <2> QED BY <2>1, <2>4 DEF Contract!scanVars
<1>5. CASE Report(i)
  <2> DEFINE m == Status("progress", worker[i].blocks)
  <2>1. /\ Moves(i, [worker[i] EXCEPT !.at = "returned"]) /\ results' = results
        /\ status' = status \/ status' = Append(status, m)
    BY <1>5, Steps DEF RunInv
  <2>2. m \in Statuses /\ m.state = "progress"
    BY <1>0, WorkerTyped DEF RunInv, Worker, Status, Statuses
  <2> HIDE DEF m
  <2>3. OutcomesOf(Append(status, m)) = OutcomesOf(status)
    <3>1. OutcomesOf(Append(status, m)) = Kept(m, OutcomesOf(status))
      BY <2>2, OutcomesAppend DEF RunInv, TopicsOK
    <3> QED BY <2>2, <3>1 DEF Kept
  <2>4. [worker[i] EXCEPT !.at = "returned"].sent = worker[i].sent
    BY <1>0
  <2> QED BY <2>1, <2>3, <2>4, MoveHidden
<1> QED BY <1>1, <1>2, <1>3, <1>4, <1>5 DEF Goroutine

\* A status other than "progress" goes to the topic that Scans has.
LEMMA StatusMaps ==
  ASSUME RunInv, NEW m \in Statuses, m.state # "progress",
         results' = results, status' = Append(status, m)
  PROVE  LogOf(results', OutcomesOf(status')) =
           [LogOf(results, OutcomesOf(status)) EXCEPT !["status"][TokenOf[Job]] = Append(@, Outcome(m))]
<1>1. OutcomesOf(status') = Append(OutcomesOf(status), Outcome(m))
  <2>1. OutcomesOf(Append(status, m)) = Kept(m, OutcomesOf(status))
    BY OutcomesAppend DEF RunInv, TopicsOK
  <2> QED BY <2>1 DEF Kept
<1> QED BY <1>1, Publish

LEMMA StartMaps == RunInv /\ Start => Contract!StartScan(Job)
<1> SUFFICES ASSUME RunInv, Start PROVE Contract!StartScan(Job)
  OBVIOUS
<1>1. PICK r \in Resolutions :
        /\ r.from <= r.to /\ plan' = ChunksOf(r)
        /\ worker' = [i \in 1 .. Len(ChunksOf(r)) |-> Waiting]
  BY DEF Start
<1>2. phase = "queued" /\ phase' = "dispatching" /\ runs < MaxRuns /\ runs' = runs + 1 /\ results' = results
  BY DEF Start
<1>3. PlanSet' \in Plans[Job] /\ DOMAIN plan' = 1 .. Len(plan')
  <2>1. Tile(plan', r.from, r.to, size) /\ {plan'[i] : i \in DOMAIN plan'} \in Plans[Job]
    BY <1>1, ResolvedPlan
  <2> QED BY <2>1 DEF PlanSet, Tile
<1>4. SentSet' = {}
  <2>1. \A i \in DOMAIN plan' : worker'[i].sent = 0
    BY <1>1, <1>3 DEF Waiting
  <2> QED BY <2>1 DEF SentSet
<1>5. Scanned' = [Scanned EXCEPT ![Job] =
        [phase |-> "scanning", plan |-> PlanSet', sent |-> {}, runs |-> @.runs + 1]]
  <2>1. PhaseOf' = "scanning"
    BY <1>2 DEF PhaseOf
  <2>2. Scanned' = [s \in Snapshots |-> [phase |-> PhaseOf', plan |-> PlanSet', sent |-> SentSet', runs |-> runs']]
    BY DEF Scanned, ScanOf, PhaseOf, PlanSet, SentSet
  <2> QED BY <1>2, <1>4, <2>1, <2>2, ScannedIs, OneJob
<1>6. Scanned[Job].phase = "queued" /\ Scanned[Job].runs < MaxRuns
  BY <1>2, ScannedIs DEF PhaseOf
<1>7. \/ /\ LogOf(results', OutcomesOf(status')) =
              [LogOf(results, OutcomesOf(status)) EXCEPT
                 !["status"][TokenOf[Job]] = Append(@, Contract!SnapshotStatus(Job, "started"))]
         /\ faults' = faults
      \/ /\ faults < 2 * MaxRuns /\ faults' = faults + 1
         /\ LogOf(results', OutcomesOf(status')) = LogOf(results, OutcomesOf(status))
  <2> DEFINE m == Status("started", 0)
  <2>1. m \in Statuses /\ m.state # "progress" /\ Outcome(m) = Contract!SnapshotStatus(Job, "started")
    BY DEF Status, Statuses, Outcome, Contract!SnapshotStatus
  <2>2. \/ status' = Append(status, m) /\ faults' = faults
        \/ faults' = faults + 1 /\ status' = status
    BY DEF Start
  <2> HIDE DEF m
  <2>3. CASE status' = Append(status, m) /\ faults' = faults
    BY <1>2, <2>1, <2>3, StatusMaps
  <2>4. CASE faults' = faults + 1 /\ status' = status
    <3>1. runs \in Nat /\ MaxRuns \in Nat /\ faults \in Nat /\ faults <= 2 * runs
      BY RunAssumption DEF RunInv, RunTypeOK
    <3> QED BY <1>2, <2>4, <3>1
  <2> QED BY <2>2, <2>3, <2>4
<1> QED BY <1>3, <1>5, <1>6, <1>7
      DEF Contract!StartScan, Contract!Published, Contract!Fault, Scanned, LogOf

LEMMA EndMaps ==
  ASSUME RunInv, phase = "dispatching", phase' \in {"finished", "failed"},
         UNCHANGED <<plan, worker, runs>>
  PROVE  /\ Scanned' = [Scanned EXCEPT ![Job].phase = phase']
         /\ Scanned[Job].phase = "scanning"
         /\ faults' = faults + 1 => faults < 2 * MaxRuns
<1>1. PhaseOf = "scanning" /\ PhaseOf' = phase'
  BY DEF PhaseOf
<1>2. PlanSet' = PlanSet /\ SentSet' = SentSet
  BY DEF PlanSet, SentSet
<1>3. Scanned' = [s \in Snapshots |-> [phase |-> PhaseOf', plan |-> PlanSet', sent |-> SentSet', runs |-> runs']]
  BY DEF Scanned, ScanOf, PhaseOf, PlanSet, SentSet
<1>4. faults < 2 * MaxRuns
  BY RunAssumption DEF RunInv, RunTypeOK, FaultsOK
<1> QED BY <1>1, <1>2, <1>3, <1>4, ScannedIs, OneJob

LEMMA FinishMaps == RunInv /\ Finish => Contract!FinishScan(Job) \/ Contract!LoseDone(Job)
<1> SUFFICES ASSUME RunInv, Finish PROVE Contract!FinishScan(Job) \/ Contract!LoseDone(Job)
  OBVIOUS
<1> DEFINE m == Status("done", Size(range))
<1>1. /\ phase = "dispatching" /\ phase' = "finished" /\ AllReturned /\ ~cancelled
      /\ UNCHANGED <<plan, worker, runs>> /\ results' = results
      /\ \/ status' = Append(status, m) /\ faults' = faults
         \/ faults' = faults + 1 /\ status' = status
  BY DEF Finish
<1>2. /\ Scanned' = [Scanned EXCEPT ![Job].phase = "finished"]
      /\ Scanned[Job].phase = "scanning"
      /\ faults' = faults + 1 => faults < 2 * MaxRuns
  BY <1>1, EndMaps
<1>3. Scanned[Job].sent = Contract!BatchesOf(Job, Scanned[Job].plan)
  <2>1. DOMAIN plan = DOMAIN worker
    BY WorkerTyped DEF RunInv
  <2>2. \A i \in DOMAIN plan : worker[i].sent = BatchCount(ChunkLogs(Job, plan[i]))
    BY <1>1, <2>1 DEF RunInv, RunTypeOK, AllReturned, WorkersOK, SentOK, Turns
  <2>3. SentSet = BatchesOf(Job, PlanSet)
    BY <2>2 DEF SentSet, BatchesOf, PlanSet
  <2> QED BY <2>3, ScannedIs, SameOperators
<1>4. m \in Statuses /\ m.state # "progress" /\ Outcome(m) = Contract!SnapshotStatus(Job, "done")
  <2>1. Size(range) \in Nat
    BY <1>1, PlanInHand, RangeSize DEF RunInv, PlanOK
  <2> QED BY <2>1 DEF Status, Statuses, Outcome, Contract!SnapshotStatus
<1> HIDE DEF m
<1>5. CASE status' = Append(status, m) /\ faults' = faults
  <2>1. LogOf(results', OutcomesOf(status')) =
          [LogOf(results, OutcomesOf(status)) EXCEPT
             !["status"][TokenOf[Job]] = Append(@, Contract!SnapshotStatus(Job, "done"))]
    BY <1>1, <1>4, <1>5, StatusMaps
  <2> QED BY <1>2, <1>3, <1>5, <2>1
          DEF Contract!FinishScan, Contract!AllSent, Contract!Published, Scanned, LogOf
<1>6. CASE faults' = faults + 1 /\ status' = status
  <2>1. LogOf(results', OutcomesOf(status')) = LogOf(results, OutcomesOf(status))
    BY <1>1, <1>6
  <2> QED BY <1>2, <1>3, <1>6, <2>1
          DEF Contract!LoseDone, Contract!AllSent, Contract!Fault, Scanned, LogOf
<1> QED BY <1>1, <1>5, <1>6

LEMMA AbortMaps == RunInv /\ Abort => Contract!FailScan(Job)
<1> SUFFICES ASSUME RunInv, Abort PROVE Contract!FailScan(Job)
  OBVIOUS
<1> DEFINE m == Status("error", 0)
<1>1. /\ phase = "dispatching" /\ phase' = "failed" /\ faults' = faults + 1
      /\ UNCHANGED <<plan, worker, runs>> /\ results' = results
      /\ status' = Append(status, m) \/ status' = status
  BY DEF Abort
<1>2. /\ Scanned' = [Scanned EXCEPT ![Job].phase = "failed"]
      /\ Scanned[Job].phase = "scanning" /\ faults < 2 * MaxRuns
  BY <1>1, EndMaps
<1>3. m \in Statuses /\ m.state # "progress" /\ Outcome(m) = Contract!SnapshotStatus(Job, "error")
  BY DEF Status, Statuses, Outcome, Contract!SnapshotStatus
<1> HIDE DEF m
<1>4. \/ LogOf(results', OutcomesOf(status')) =
           [LogOf(results, OutcomesOf(status)) EXCEPT
              !["status"][TokenOf[Job]] = Append(@, Contract!SnapshotStatus(Job, "error"))]
      \/ LogOf(results', OutcomesOf(status')) = LogOf(results, OutcomesOf(status))
  BY <1>1, <1>3, StatusMaps
<1> QED BY <1>1, <1>2, <1>4 DEF Contract!FailScan, Contract!Published, Contract!Fault, Scanned, LogOf

LEMMA RestartMaps == RunInv /\ Restart => Contract!RestartScan(Job) \/ UNCHANGED Contract!scanVars
<1> SUFFICES ASSUME RunInv, Restart PROVE Contract!RestartScan(Job) \/ UNCHANGED Contract!scanVars
  OBVIOUS
<1>1. /\ phase # "queued" /\ runs < MaxRuns /\ phase' = "queued"
      /\ UNCHANGED <<results, status, plan, worker, runs, faults>>
  BY DEF Restart
<1>2. PlanSet' = PlanSet /\ SentSet' = SentSet /\ PhaseOf' = "queued"
  BY <1>1 DEF PlanSet, SentSet, PhaseOf
<1>3. Scanned' = [s \in Snapshots |-> [phase |-> "queued", plan |-> PlanSet, sent |-> SentSet, runs |-> runs]]
  BY <1>1, <1>2 DEF Scanned, ScanOf, PhaseOf, PlanSet, SentSet
<1>4. LogOf(results', OutcomesOf(status')) = LogOf(results, OutcomesOf(status))
  BY <1>1
<1>5. CASE phase = "rejected"
  <2>1. Scanned' = Scanned
    BY <1>3, <1>5, ScannedIs DEF PhaseOf
  <2> QED BY <1>1, <1>4, <2>1 DEF Contract!scanVars, Scanned, LogOf
<1>6. CASE phase # "rejected"
  <2>1. Scanned[Job].phase # "queued" /\ Scanned[Job].runs < MaxRuns
    BY <1>1, <1>6, ScannedIs DEF PhaseOf
  <2>2. Scanned' = [Scanned EXCEPT ![Job].phase = "queued"]
    BY <1>3, ScannedIs, OneJob
  <2> QED BY <1>1, <1>4, <2>1, <2>2 DEF Contract!RestartScan, Scanned, LogOf
<1> QED BY <1>5, <1>6

LEMMA InitMaps == Init => Contract!ScansInit
<1> SUFFICES ASSUME Init PROVE Contract!ScansInit
  OBVIOUS
<1>1. results = << >> /\ OutcomesOf(status) = << >> /\ faults = 0
  BY OutcomesEmpty DEF Init
<1>2. LogOf(results, OutcomesOf(status)) = [q \in {"results", "status"} |-> [t \in Tokens |-> << >>]]
  BY <1>1 DEF LogOf, UnderToken
<1>3. Scanned = [s \in Snapshots |-> [phase |-> "queued", plan |-> {}, sent |-> {}, runs |-> 0]]
  <2>1. PhaseOf = "queued" /\ PlanSet = {} /\ SentSet = {} /\ runs = 0
    BY DEF Init, PhaseOf, PlanSet, SentSet
  <2> QED BY <2>1, ScannedIs
<1> QED BY <1>1, <1>2, <1>3
        DEF Contract!ScansInit, Contract!Topics, Contract!NoScan, Scanned, LogOf

LEMMA NextMaps ==
  RunInv /\ [Next]_vars => [\E s \in Snapshots : Contract!ScanStep(s)]_(Contract!scanVars)
<1> SUFFICES ASSUME RunInv, [Next]_vars
             PROVE  Contract!ScanStep(Job) \/ UNCHANGED Contract!scanVars
  BY OneJob
<1>1. CASE Reject
  <2>1. UNCHANGED <<results, status, plan, worker, runs, faults>> /\ PhaseOf' = PhaseOf
    BY <1>1 DEF Reject, PhaseOf
  <2>2. PlanSet' = PlanSet /\ SentSet' = SentSet
    BY <2>1 DEF PlanSet, SentSet
  <2>3. ScanOf' = [phase |-> PhaseOf', plan |-> PlanSet', sent |-> SentSet', runs |-> runs']
    BY Zenon DEF ScanOf, PhaseOf, PlanSet, SentSet
  <2>4. ScanOf = [phase |-> PhaseOf, plan |-> PlanSet, sent |-> SentSet, runs |-> runs]
    BY Zenon DEF ScanOf, PhaseOf, PlanSet, SentSet
  <2>5. ScanOf' = ScanOf
    BY <2>1, <2>2, <2>3, <2>4
  <2> QED BY <2>1, <2>5 DEF Contract!scanVars
<1>2. CASE Start
  BY <1>2, StartMaps DEF Contract!ScanStep
<1>3. ASSUME NEW i \in DOMAIN worker, Dispatch(i) \/ Goroutine(i)
      PROVE  Contract!ScanStep(Job) \/ UNCHANGED Contract!scanVars
  BY <1>3, GoroutineMaps DEF Contract!ScanStep
<1>4. CASE Finish
  BY <1>4, FinishMaps DEF Contract!ScanStep
<1>5. CASE Abort
  BY <1>5, AbortMaps DEF Contract!ScanStep
<1>6. CASE Restart
  BY <1>6, RestartMaps DEF Contract!ScanStep
<1>7. CASE UNCHANGED vars
  <2>1. UNCHANGED <<results, status, phase, plan, worker, runs, faults>>
    BY <1>7 DEF vars, runVars
  <2>2. ScanOf' = ScanOf
    BY <2>1 DEF ScanOf
  <2> QED BY <2>1, <2>2 DEF Contract!scanVars
<1> QED BY <1>1, <1>2, <1>3, <1>4, <1>5, <1>6, <1>7 DEF Next

\* Run with its semaphore, cancellation, counters and restarts implements the scan the rest
\* of the system relies on: the batches of every chunk in order, "done" only after all of
\* them, nothing after "error" until the job is run again (scanner.go:52-213).
THEOREM RunImplementsScans == Spec => ImplementsScans
<1>1. Spec => Contract!ScansInit
  BY InitMaps DEF Spec
<1> QED BY <1>1, RunAlways, NextMaps, PTL DEF Spec, ImplementsScans, Contract!ScansSpec
=============================================================================

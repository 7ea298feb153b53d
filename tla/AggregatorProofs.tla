-------------------------- MODULE AggregatorProofs --------------------------
(***************************************************************************)
(* Theorems about Aggregator, for every value of its constants, and about  *)
(* what the pollers of a snapshot are told (Polling).                      *)
(***************************************************************************)
EXTENDS Polling, ChunkLemmas

-----------------------------------------------------------------------------
(* Facts about the operators of Chunks and Ledger: the bounds the gate     *)
(* reads, a chunk that fits in one batch, and what the insert preserves.   *)

\* The gate's CTE is well typed; over a ledger that is not empty its bounds are the
\* bounds of ledgered chunks and enclose them all.
LEMMA ChunkAggBounds ==
  ASSUME NEW S \in SUBSET BlockRange, IsFiniteSet(S)
  PROVE  /\ ChunkAgg(S) \in [done : Nat, from : Nat, to : Nat]
         /\ S # {} => /\ \E c \in S : ChunkAgg(S).from = c.from
                      /\ \E c \in S : ChunkAgg(S).to = c.to
                      /\ \A c \in S : ChunkAgg(S).from <= c.from /\ c.to <= ChunkAgg(S).to
<1>1. Cardinality(S) \in Nat
  BY FS_CardinalityType
<1>2. CASE S = {}
  BY <1>1, <1>2 DEF ChunkAgg
<1>3. CASE S # {}
  <2> DEFINE Lows  == {c.from : c \in S}
             Highs == {c.to : c \in S}
  <2>1. IsFiniteSet(Lows)
    <3>1. [c \in S |-> c.from] \in Surjection(S, Lows)
      BY DEF Surjection
    <3> QED BY <3>1, FS_Surjection
  <2>2. IsFiniteSet(Highs)
    <3>1. [c \in S |-> c.to] \in Surjection(S, Highs)
      BY DEF Surjection
    <3> QED BY <3>1, FS_Surjection
  <2>3. Lows \subseteq Nat /\ Highs \subseteq Nat
    BY DEF BlockRange
  <2>4. Min(Lows) \in Lows /\ \A x \in Lows : Min(Lows) <= x
    <3>1. \E m \in Lows : \A x \in Lows : m <= x
      <4>1. Lows # {} /\ Lows \in SUBSET Int
        BY <1>3, <2>3
      <4> HIDE DEF Lows
      <4> QED BY <4>1, <2>1, Extrema
    <3> HIDE DEF Lows
    <3> QED BY <3>1 DEF Min
  <2>5. Max(Highs) \in Highs /\ \A x \in Highs : x <= Max(Highs)
    <3>1. \E m \in Highs : \A x \in Highs : x <= m
      <4>1. Highs # {} /\ Highs \in SUBSET Int
        BY <1>3, <2>3
      <4> HIDE DEF Highs
      <4> QED BY <4>1, <2>2, Extrema
    <3>2. \E m \in Highs : \A x \in Highs : m >= x
      BY <3>1, <2>3
    <3>3. Max(Highs) \in Highs /\ \A x \in Highs : Max(Highs) >= x
      <4> HIDE DEF Highs
      <4> QED BY <3>2 DEF Max
    <3> QED BY <3>3, <2>3
  <2>6. ChunkAgg(S) = [done |-> Cardinality(S), from |-> Min(Lows), to |-> Max(Highs)]
    BY <1>3 DEF ChunkAgg
  <2>7. /\ \E c \in S : Min(Lows) = c.from
        /\ \E c \in S : Max(Highs) = c.to
        /\ \A c \in S : Min(Lows) <= c.from /\ c.to <= Max(Highs)
    BY <2>4, <2>5
  <2>8. Min(Lows) \in Nat /\ Max(Highs) \in Nat
    BY <2>3, <2>4, <2>5
  <2> HIDE DEF Lows, Highs
  <2> QED BY <1>1, <2>6, <2>7, <2>8
<1> QED BY <1>2, <1>3

\* A chunk whose logs fit in one batch is one batch, which carries them all.
LEMMA OneBatch ==
  ASSUME NEW S \in SUBSET Transfer, IsFiniteSet(S), Cardinality(S) <= MaxTransferPerBatch
  PROVE  BatchCount(S) = 1 /\ Batch(S, 1) = S
<1> DEFINE M == MaxTransferPerBatch
           n == Cardinality(S)
<1>1. M \in Nat /\ M > 0 /\ n \in Nat /\ n <= M
  BY BatchAssumption, FS_CardinalityType
<1>2. BatchCount(S) = 1
  <2>1. CASE S = {}
    BY <2>1 DEF BatchCount
  <2>2. CASE S # {}
    <3>1. n >= 1
      BY <2>2, <1>1, FS_EmptySet
    <3>2. (n + M - 1) \div M = 1
      <4> HIDE DEF n, M
      <4> QED BY <3>1, <1>1
    <3> QED BY <2>2, <3>2 DEF BatchCount
  <2> QED BY <2>1, <2>2
<1>3. ASSUME NEW t \in S
      PROVE  Rank(S, t) \in (1 - 1) * M + 1 .. 1 * M
  <2> DEFINE R == {u \in S : u.key <= t.key}
  <2>1. IsFiniteSet(R) /\ Cardinality(R) <= n /\ Cardinality(R) \in Nat
    BY FS_Subset, FS_CardinalityType
  <2>2. t \in R
    BY DEF Transfer
  <2>3. Cardinality(R) # 0
    BY <2>1, <2>2, FS_EmptySet
  <2> HIDE DEF R
  <2>4. Cardinality(R) \in (1 - 1) * M + 1 .. 1 * M
    <3> HIDE DEF n, M
    <3> QED BY <1>1, <2>1, <2>3
  <2> QED BY <2>4 DEF Rank, R
<1>4. Batch(S, 1) = S
  BY <1>3 DEF Batch
<1> QED BY <1>2, <1>4

\* ON CONFLICT DO NOTHING loses nothing when a key names one log.
LEMMA InsertKeepsAll ==
  ASSUME NEW All, NEW table \in SUBSET All, NEW rows \in SUBSET All,
         \A l, m \in All : l.key = m.key => l = m
  PROVE  InsertTransfers(table, rows) = table \cup rows
BY DEF InsertTransfers

(***************************************************************************)
(* What one step does to each part of the state.                           *)
(***************************************************************************)

\* The tables change only by one of the three transactions of storage.Repo, each at
\* its place in a handler.
TablesStep ==
  \/ UNCHANGED tables
  \/ pc["results"] = "ingest" /\ IngestBatchTx(Msg("results"))
  \/ pc["status"] = "route" /\ Msg("status").state = "done" /\ MarkDoneTx(Snap("status"))
  \/ \E g \in Topics : /\ pc[g] = "complete" /\ Completable(snapshots[Snap(g)], agg[g])
                       /\ CompleteTx(Snap(g), agg[g])

LEMMA TablesChange == [Next]_vars => TablesStep
<1> SUFFICES ASSUME [Next]_vars PROVE TablesStep
  OBVIOUS
<1> USE DEF HandlerFrame
<1>1. CASE Environment
  BY <1>1 DEF Environment, TablesStep
<1>2. ASSUME NEW g \in Topics, Goroutine(g) PROVE TablesStep
  <2>1. CASE \E t \in Tokens : Fetch(g, t)
    BY <2>1 DEF Fetch, TablesStep
  <2>2. CASE OpenGate(g) \/ CloseGate(g) \/ PublishRequests(g) \/ Commit(g)
    BY <2>2 DEF OpenGate, CloseGate, PublishRequests, Commit, TablesStep
  <2>3. CASE Complete(g)
    BY <2>3 DEF Complete, TablesStep
  <2>4. CASE GateFails(g) \/ CompleteFails(g)
    BY <2>4 DEF GateFails, CompleteFails, FailAt, TablesStep
  <2> QED BY <1>2, <2>1, <2>2, <2>3, <2>4 DEF Goroutine
<1>3. CASE ResultsHandler
  BY <1>3 DEF ResultsHandler, IngestBatch, IngestBeginFails, IngestFails, FailAt, TablesStep
<1>4. CASE StatusHandler
  BY <1>4 DEF StatusHandler, MarkDone, MarkDoneFails, SkipStatus, FailAt, TablesStep
<1>5. CASE Crash
  BY <1>5 DEF Crash, TablesStep
<1>6. CASE UNCHANGED vars
  BY <1>6 DEF vars, TablesStep
<1> QED BY <1>1, <1>2, <1>3, <1>4, <1>5, <1>6 DEF Next

\* The topics and the runs change only by a step of the snapshot-service.
ScansStep ==
  \/ UNCHANGED <<log, scan>> /\ (UNCHANGED faults \/ Fault)
  \/ Environment

LEMMA ScansChange == [Next]_vars => ScansStep
<1> SUFFICES ASSUME [Next]_vars PROVE ScansStep
  OBVIOUS
<1> USE DEF HandlerFrame
<1>1. CASE Environment
  BY <1>1 DEF ScansStep
<1>2. ASSUME NEW g \in Topics, Goroutine(g) PROVE ScansStep
  <2>1. CASE \E t \in Tokens : Fetch(g, t)
    BY <2>1 DEF Fetch, ScansStep, scanVars
  <2>2. CASE OpenGate(g) \/ CloseGate(g) \/ Complete(g)
    BY <2>2 DEF OpenGate, CloseGate, Complete, ScansStep
  <2>3. CASE GateFails(g) \/ CompleteFails(g)
    BY <2>3 DEF GateFails, CompleteFails, FailAt, ScansStep
  <2>4. CASE PublishRequests(g) \/ Commit(g)
    BY <2>4 DEF PublishRequests, Commit, ScansStep
  <2> QED BY <1>2, <2>1, <2>2, <2>3, <2>4 DEF Goroutine
<1>3. CASE ResultsHandler
  BY <1>3 DEF ResultsHandler, IngestBatch, IngestBeginFails, IngestFails, FailAt, ScansStep
<1>4. CASE StatusHandler
  BY <1>4 DEF StatusHandler, MarkDone, MarkDoneFails, SkipStatus, FailAt, ScansStep
<1>5. CASE Crash
  BY <1>5 DEF Crash, ScansStep, scanVars
<1>6. CASE UNCHANGED vars
  BY <1>6 DEF vars, ScansStep, scanVars
<1> QED BY <1>1, <1>2, <1>3, <1>4, <1>5, <1>6 DEF Next

(***************************************************************************)
(* Type correctness.                                                       *)
(***************************************************************************)

\* The message in hand is a message of the goroutine's own topic.
LEMMA MessageInHand ==
  ASSUME TypeOK, NEW g \in Topics, pc[g] # "fetch"
  PROVE  /\ at[g].part \in Tokens
         /\ at[g].off \in 1 .. Len(log[g][at[g].part])
         /\ Snap(g) \in Snapshots
         /\ TokenOf[Snap(g)] = at[g].part
         /\ g = "results" => Msg(g) \in BatchMessages
         /\ g = "status" => Msg(g) \in StatusMessages
<1>1. at[g].part \in Tokens /\ at[g].off \in Nat
  BY DEF TypeOK, ConsumersOK
<1>2. at[g].off \in 1 .. Len(log[g][at[g].part])
  <2> DEFINE t == at[g].part
  <2>1. next[g][t] \in Nat /\ committed[g][t] \in Nat
    BY <1>1 DEF TypeOK, ConsumersOK
  <2>2. /\ next[g][t] \in committed[g][t] + 1 .. Len(log[g][t]) + 1
        /\ at[g].off \in committed[g][t] + 1 .. next[g][t] - 1
    BY <1>1 DEF TypeOK, ConsumersOK
  <2>3. Len(log[g][t]) \in Nat
    <3>1. log[g] \in [Tokens -> Seq(BatchMessages \cup StatusMessages)]
      BY DEF TypeOK, ScansOK, LogOK
    <3> QED BY <1>1, <3>1
  <2>4. \A c, n, o, len \in Nat :
          n \in c + 1 .. len + 1 /\ o \in c + 1 .. n - 1 => o \in 1 .. len
    OBVIOUS
  <2>5. at[g].off \in 1 .. Len(log[g][t])
    <3> HIDE DEF t
    <3> QED BY <1>1, <2>1, <2>2, <2>3, <2>4
  <2> QED BY <2>5
<1>3. Msg(g) \in MessagesOf(g) /\ TokenOf[Msg(g).snap] = at[g].part
  BY <1>1, <1>2 DEF TypeOK, ScansOK, LogOK, Msg
<1> HIDE DEF Msg
<1>4. CASE g = "results"
  BY <1>1, <1>2, <1>3, <1>4 DEF MessagesOf, BatchMessages, Snap
<1>5. CASE g = "status"
  BY <1>1, <1>2, <1>3, <1>5 DEF MessagesOf, StatusMessages, Snap
<1> QED BY <1>4, <1>5 DEF Topics

LEMMA TypeInit == Init => TypeOK
<1> SUFFICES ASSUME Init PROVE TypeOK
  OBVIOUS
<1>1. TablesOK
  BY FS_EmptySet DEF Init, LedgerInit, TablesOK, NoRow, NoCoverage, Rows, BlockRange
<1>2. ScansOK
  <2>1. log \in [Topics -> [Tokens -> Seq(BatchMessages \cup StatusMessages)]]
    <3> DEFINE Messages == BatchMessages \cup StatusMessages
    <3>1. << >> \in Seq(Messages)
      <4> HIDE DEF Messages
      <4> QED OBVIOUS
    <3> HIDE DEF Messages
    <3>2. log \in [Topics -> [Tokens -> Seq(Messages)]]
      BY <3>1 DEF Init, ScansInit
    <3> QED BY <3>2 DEF Messages
  <2>2. \A q \in Topics : \A t \in Tokens : Len(log[q][t]) = 0
    BY DEF Init, ScansInit
  <2>3. scan \in [Snapshots -> ScanRuns]
    BY DEF Init, ScansInit, NoScan, ScanRuns
  <2>4. faults \in Nat /\ \A u \in Snapshots : scan[u].phase # "scanning"
    BY DEF Init, ScansInit, NoScan
  <2>5. \A q \in Topics : \A t \in Tokens : 1 .. Len(log[q][t]) = {}
    BY <2>2
  <2> QED BY <2>1, <2>3, <2>4, <2>5 DEF ScansOK, LogOK
<1>3. ConsumersOK
  <2>1. \A g \in Topics : \A t \in Tokens : Len(log[g][t]) = 0
    BY DEF Init, ScansInit
  <2>2. Idle \in [part : Tokens, off : Nat]
    BY AggregatorAssumption DEF Idle
  <2>3. \A g \in Topics : \A t \in Tokens :
          next[g][t] = 1 /\ committed[g][t] = 0
    BY DEF Init
  <2>4. at \in [Topics -> [part : Tokens, off : Nat]]
    BY <2>2 DEF Init
  <2>5. agg \in [Topics -> [done : Nat, from : Nat, to : Nat]]
    BY DEF Init, NoAgg
  <2>6. /\ committed \in [Topics -> [Tokens -> Nat]]
        /\ next \in [Topics -> [Tokens -> Nat]]
        /\ chain = [g \in Topics |-> chain[g]]
    BY DEF Init
  <2>7. pc \in [Topics -> Labels] /\ \A g \in Topics : pc[g] = "fetch"
    BY DEF Init, Labels
  <2> QED BY <2>1, <2>3, <2>4, <2>5, <2>6, <2>7 DEF ConsumersOK, Topics
<1> QED BY <1>1, <1>2, <1>3 DEF TypeOK

LEMMA UpsertedRow ==
  ASSUME NEW row \in Rows, NEW total \in Nat
  PROVE  UpsertSnapshot(row, total) \in Rows
<1>1. CASE row.state = "absent"
  BY <1>1 DEF UpsertSnapshot, Rows
<1>2. CASE row.state # "absent"
  BY <1>2 DEF UpsertSnapshot, Rows
<1> QED BY <1>1, <1>2

LEMMA TablesNext == TypeOK /\ [Next]_vars => TablesOK'
<1> SUFFICES ASSUME TypeOK, [Next]_vars PROVE TablesOK'
  OBVIOUS
<1> USE DEF TablesOK
<1>1. TablesOK
  BY DEF TypeOK
<1>2. CASE UNCHANGED tables
  BY <1>1, <1>2 DEF tables
<1>3. CASE pc["results"] = "ingest" /\ IngestBatchTx(Msg("results"))
  <2> DEFINE b == Msg("results")
             s == b.snap
  <2>1. b \in BatchMessages /\ s \in Snapshots /\ TokenOf[s] \in Tokens
    BY <1>3, MessageInHand, JobsAssumption DEF BatchMessages, Topics
  <2> HIDE DEF b
  <2>2. UpsertSnapshot(snapshots[s], b.total) \in Rows
    <3>1. snapshots[s] \in Rows
      BY <1>1, <2>1
    <3>2. b.total \in Nat
      BY <2>1 DEF BatchMessages
    <3> QED BY <3>1, <3>2, UpsertedRow
  <2>3. snapshots' \in [Snapshots -> Rows]
    BY <1>1, <1>3, <2>1, <2>2 DEF IngestBatchTx, b
  <2>4. InsertTransfers(transfers[TokenOf[s]], b.rows) \subseteq Transfer
    BY <1>1, <2>1 DEF InsertTransfers, BatchMessages
  <2>5. transfers' \in [Tokens -> SUBSET Transfer]
    BY <1>1, <1>3, <2>1, <2>4 DEF IngestBatchTx, b
  <2>6. chunks' = [chunks EXCEPT ![s] = @ \cup {b.range}]
    BY <1>3 DEF IngestBatchTx, b
  <2>7. chunks' \in [Snapshots -> SUBSET BlockRange]
    BY <1>1, <2>1, <2>6 DEF BatchMessages
  <2>8. ASSUME NEW u \in Snapshots PROVE IsFiniteSet(chunks'[u])
    <3>1. IsFiniteSet(chunks[u]) /\ IsFiniteSet(chunks[u] \cup {b.range})
      BY <1>1, FS_AddElement
    <3>2. CASE u = s
      BY <1>1, <2>6, <3>1, <3>2
    <3>3. CASE u # s
      BY <1>1, <2>6, <3>1, <3>3
    <3> QED BY <3>2, <3>3
  <2> QED BY <1>1, <1>3, <2>3, <2>5, <2>7, <2>8 DEF IngestBatchTx
<1>4. CASE pc["status"] = "route" /\ MarkDoneTx(Snap("status"))
  <2> DEFINE s == Snap("status")
  <2>1. s \in Snapshots
    BY <1>4, MessageInHand DEF Topics
  <2>2. snapshots' = [snapshots EXCEPT ![s].doneSeen = @ \/ snapshots[s].state # "absent"]
    BY <1>4 DEF MarkDoneTx
  <2> HIDE DEF s
  <2>3. snapshots' \in [Snapshots -> Rows]
    <3> DEFINE marked == [snapshots[s] EXCEPT !.doneSeen = @ \/ snapshots[s].state # "absent"]
    <3>1. snapshots' = [snapshots EXCEPT ![s] = marked]
      BY <1>1, <2>1, <2>2
    <3>2. snapshots[s] \in Rows
      BY <1>1, <2>1
    <3>3. marked \in Rows
      BY <3>2 DEF Rows
    <3> HIDE DEF marked
    <3> QED BY <1>1, <3>1, <3>3
  <2> QED BY <1>1, <1>4, <2>3 DEF MarkDoneTx
<1>5. ASSUME NEW g \in Topics, pc[g] = "complete", CompleteTx(Snap(g), agg[g])
      PROVE  TablesOK'
  <2> DEFINE s == Snap(g)
             t == TokenOf[s]
  <2>1. s \in Snapshots /\ t \in Tokens
    BY <1>5, MessageInHand, JobsAssumption
  <2>2. agg[g] \in [done : Nat, from : Nat, to : Nat]
    BY DEF TypeOK, ConsumersOK
  <2>3. /\ snapshots' = [snapshots EXCEPT ![s].state = "ready",
                             ![s].from = agg[g].from, ![s].block = agg[g].to]
        /\ coverage' = [coverage EXCEPT ![t] =
                          AdvanceCoverage(@, [from |-> agg[g].from, to |-> agg[g].to])]
        /\ balances' = [balances EXCEPT ![s] = HolderBalances(transfers[t], agg[g].to)]
        /\ UNCHANGED <<chunks, transfers>>
    BY <1>5 DEF CompleteTx
  <2> HIDE DEF s, t
  <2>4. snapshots' \in [Snapshots -> Rows]
    <3> DEFINE row == [[[snapshots[s] EXCEPT !.state = "ready"] EXCEPT !.from = agg[g].from]
                         EXCEPT !.block = agg[g].to]
    <3>1. snapshots[s] \in Rows /\ agg[g].from \in Nat /\ agg[g].to \in Nat
      BY <1>1, <2>1, <2>2
    <3>2. row \in Rows
      BY <3>1 DEF Rows
    <3>3. snapshots' = [snapshots EXCEPT ![s] = row]
      BY <1>1, <2>1, <2>3
    <3> HIDE DEF row
    <3> QED BY <1>1, <3>2, <3>3
  <2>5. AdvanceCoverage(coverage[t], [from |-> agg[g].from, to |-> agg[g].to]) \in BlockRange
    BY <1>1, <2>1, <2>2 DEF AdvanceCoverage, NoCoverage, BlockRange
  <2>6. coverage' \in [Tokens -> BlockRange]
    BY <1>1, <2>1, <2>3, <2>5
  <2>7. balances' = [u \in Snapshots |-> balances'[u]]
    BY <1>1, <2>1, <2>3
  <2> QED BY <1>1, <2>3, <2>4, <2>6, <2>7
<1> QED BY <1>2, <1>3, <1>4, <1>5, TablesChange DEF TablesStep

\* Publishing keeps what is in the topics and adds one message.
Appended(q, s, m) ==
  /\ \A r \in Topics : \A t \in Tokens :
       /\ Len(log'[r][t]) >= Len(log[r][t])
       /\ \A i \in 1 .. Len(log[r][t]) : log'[r][t][i] = log[r][t][i]
       /\ \A i \in 1 .. Len(log'[r][t]) :
            i \in 1 .. Len(log[r][t]) \/ (r = q /\ t = TokenOf[s] /\ log'[r][t][i] = m)
  /\ \E i \in 1 .. Len(log'[q][TokenOf[s]]) : log'[q][TokenOf[s]][i] = m

LEMMA PublishedLog ==
  ASSUME LogOK, NEW q \in Topics, NEW s \in Snapshots, NEW m \in MessagesOf(q),
         m.snap = s, log' = Published(q, s, m)
  PROVE  LogOK' /\ Appended(q, s, m)
<1> DEFINE Messages == BatchMessages \cup StatusMessages
           t0 == TokenOf[s]
           old == log[q][t0]
<1>1. t0 \in Tokens
  BY JobsAssumption
<1>2. log \in [Topics -> [Tokens -> Seq(Messages)]]
  BY DEF LogOK
<1>3. m \in Messages
  BY DEF MessagesOf
<1>4. log' = [log EXCEPT ![q][t0] = Append(old, m)]
  BY DEF Published
<1> HIDE DEF Messages, t0
<1>5. /\ old \in Seq(Messages)
      /\ Append(old, m) \in Seq(Messages)
      /\ Len(old) \in Nat /\ Len(Append(old, m)) = Len(old) + 1
      /\ \A i \in 1 .. Len(old) : Append(old, m)[i] = old[i]
      /\ Append(old, m)[Len(old) + 1] = m
  BY <1>1, <1>2, <1>3
<1>6. log' \in [Topics -> [Tokens -> Seq(Messages)]]
  BY <1>1, <1>2, <1>4, <1>5
<1>7. /\ log'[q][t0] = Append(old, m)
      /\ \A r \in Topics : \A t \in Tokens : r # q \/ t # t0 => log'[r][t] = log[r][t]
  BY <1>1, <1>2, <1>4
<1>8. \A r \in Topics : \A t \in Tokens : Len(log[r][t]) \in Nat
  BY <1>2
<1> HIDE DEF old
<1>9. Appended(q, s, m)
  <2>0. \E i \in 1 .. Len(log'[q][t0]) : log'[q][t0][i] = m
    <3>1. /\ Len(old) + 1 \in 1 .. Len(log'[q][t0])
          /\ log'[q][t0][Len(old) + 1] = m
      BY <1>5, <1>7
    <3> QED BY <3>1
  <2> SUFFICES ASSUME NEW r \in Topics, NEW t \in Tokens
               PROVE  /\ Len(log'[r][t]) >= Len(log[r][t])
                      /\ \A i \in 1 .. Len(log[r][t]) : log'[r][t][i] = log[r][t][i]
                      /\ \A i \in 1 .. Len(log'[r][t]) :
                           i \in 1 .. Len(log[r][t])
                           \/ (r = q /\ t = t0 /\ log'[r][t][i] = m)
    BY <2>0 DEF Appended, t0
  <2>1. CASE r = q /\ t = t0
    BY <1>5, <1>7, <2>1 DEF old
  <2>2. CASE r # q \/ t # t0
    BY <1>7, <1>8, <2>2
  <2> QED BY <2>1, <2>2
<1>10. ASSUME NEW r \in Topics, NEW t \in Tokens, NEW i \in 1 .. Len(log'[r][t])
       PROVE  log'[r][t][i] \in MessagesOf(r) /\ TokenOf[log'[r][t][i].snap] = t
  <2>1. CASE i \in 1 .. Len(log[r][t])
    <3>1. log'[r][t][i] = log[r][t][i]
      BY <1>9, <2>1 DEF Appended
    <3> QED BY <2>1, <3>1 DEF LogOK
  <2>2. CASE r = q /\ t = t0 /\ log'[r][t][i] = m
    BY <2>2 DEF t0
  <2> QED BY <1>9, <2>1, <2>2 DEF Appended, t0
<1> QED BY <1>6, <1>9, <1>10 DEF LogOK, Messages, MessagesOf, BatchMessages, StatusMessages

\* The steps of the snapshot-service publish well-formed messages of their own job.
Publishes(s) ==
  \/ UNCHANGED log
  \/ \E m \in StatusMessages : m.snap = s /\ log' = Published("status", s, m)
  \/ \E b \in BatchesOf(s, scan[s].plan) :
       /\ scan[s].phase = "scanning"
       /\ TransferBatch(s, b[1], b[2]) \in BatchMessages
       /\ log' = Published("results", s, TransferBatch(s, b[1], b[2]))

LEMMA BatchTypes ==
  ASSUME TypeOK, NEW s \in Snapshots, scan[s].phase = "scanning",
         NEW b \in BatchesOf(s, scan[s].plan)
  PROVE  /\ b \in BlockRange \X Nat /\ b[1] \in scan[s].plan
         /\ TransferBatch(s, b[1], b[2]) \in BatchMessages
<1>1. scan[s].plan \in Plans[s]
  BY DEF TypeOK, ScansOK
<1>2. IsFiniteSet(scan[s].plan) /\ scan[s].plan \subseteq BlockRange
  BY <1>1, PlansAssumption
<1>3. PICK c \in scan[s].plan : \E i \in 1 .. BatchCount(ChunkLogs(s, c)) : b = <<c, i>>
  BY DEF BatchesOf
<1>4. b[1] = c /\ b[2] \in Nat /\ b \in BlockRange \X Nat
  BY <1>2, <1>3
<1>5. Batch(ChunkLogs(s, b[1]), b[2]) \subseteq Transfer
  BY LogsAssumption, JobsAssumption DEF Batch, ChunkLogs
<1>6. Cardinality(scan[s].plan) \in Nat
  BY <1>2, FS_CardinalityType
<1> QED BY <1>2, <1>3, <1>4, <1>5, <1>6 DEF TransferBatch, BatchMessages

LEMMA ScanPublishes ==
  ASSUME TypeOK, NEW s \in Snapshots, ScanStep(s)
  PROVE  Publishes(s)
<1>1. \A st \in {"started", "done", "error"} :
        SnapshotStatus(s, st) \in StatusMessages /\ SnapshotStatus(s, st).snap = s
  BY DEF SnapshotStatus, StatusMessages
<1>2. CASE StartScan(s)
  BY <1>1, <1>2 DEF StartScan, Publishes
<1>3. CASE EmitBatch(s)
  BY <1>3, BatchTypes DEF EmitBatch, Publishes
<1>4. CASE FinishScan(s)
  BY <1>1, <1>4 DEF FinishScan, Publishes
<1>5. CASE LoseDone(s) \/ RestartScan(s)
  BY <1>5 DEF LoseDone, RestartScan, Publishes
<1>6. CASE FailScan(s)
  BY <1>1, <1>6 DEF FailScan, Publishes
<1> QED BY <1>2, <1>3, <1>4, <1>5, <1>6 DEF ScanStep

\* Across any step the topics are well formed and only grow.
LogGrows ==
  \A r \in Topics : \A t \in Tokens :
    /\ Len(log'[r][t]) >= Len(log[r][t])
    /\ \A i \in 1 .. Len(log[r][t]) : log'[r][t][i] = log[r][t][i]

LEMMA LogNext == TypeOK /\ [Next]_vars => LogOK' /\ LogGrows
<1> SUFFICES ASSUME TypeOK, [Next]_vars PROVE LogOK' /\ LogGrows
  OBVIOUS
<1>1. LogOK
  BY DEF TypeOK, ScansOK
<1>2. CASE UNCHANGED log
  <2>1. \A r \in Topics : \A t \in Tokens : Len(log[r][t]) \in Nat
    BY <1>1 DEF LogOK
  <2> QED BY <1>1, <1>2, <2>1 DEF LogOK, LogGrows
<1>3. ASSUME NEW s \in Snapshots, Publishes(s) PROVE LogOK' /\ LogGrows
  <2>1. CASE \E m \in StatusMessages : m.snap = s /\ log' = Published("status", s, m)
    <3>1. PICK m \in StatusMessages : m.snap = s /\ log' = Published("status", s, m)
      BY <2>1
    <3>2. m \in MessagesOf("status") /\ "status" \in Topics
      BY DEF MessagesOf, Topics
    <3>3. LogOK' /\ Appended("status", s, m)
      BY <1>1, <3>1, <3>2, PublishedLog
    <3> QED BY <3>3 DEF Appended, LogGrows
  <2>2. CASE \E b \in BatchesOf(s, scan[s].plan) :
               /\ TransferBatch(s, b[1], b[2]) \in BatchMessages
               /\ log' = Published("results", s, TransferBatch(s, b[1], b[2]))
    <3>1. PICK b \in BatchesOf(s, scan[s].plan) :
               /\ TransferBatch(s, b[1], b[2]) \in BatchMessages
               /\ log' = Published("results", s, TransferBatch(s, b[1], b[2]))
      BY <2>2
    <3> DEFINE m == TransferBatch(s, b[1], b[2])
    <3>2. m \in MessagesOf("results") /\ "results" \in Topics /\ m.snap = s
      BY <3>1 DEF MessagesOf, Topics, TransferBatch
    <3> HIDE DEF m
    <3>3. LogOK' /\ Appended("results", s, m)
      BY <1>1, <3>1, <3>2, PublishedLog DEF m
    <3> QED BY <3>3 DEF Appended, LogGrows
  <2> QED BY <1>2, <1>3, <2>1, <2>2 DEF Publishes
<1>4. CASE Environment
  BY <1>3, <1>4, ScanPublishes DEF Environment
<1> QED BY <1>2, <1>4, ScansChange DEF ScansStep

LEMMA ScansNext == TypeOK /\ [Next]_vars => ScansOK'
<1> SUFFICES ASSUME TypeOK, [Next]_vars PROVE ScansOK'
  OBVIOUS
<1>1. LogOK'
  BY LogNext
<1>2. /\ scan \in [Snapshots -> ScanRuns]
      /\ \A s \in Snapshots : scan[s].phase = "scanning" => scan[s].plan \in Plans[s]
      /\ faults \in Nat
  BY DEF TypeOK, ScansOK
<1>3. Fault \/ UNCHANGED faults => faults' \in Nat
  BY <1>2 DEF Fault
<1>4. CASE UNCHANGED <<log, scan>> /\ (UNCHANGED faults \/ Fault)
  BY <1>1, <1>2, <1>3, <1>4 DEF ScansOK
<1>5. ASSUME NEW s \in Snapshots, ScanStep(s) PROVE ScansOK'
  <2>1. faults' \in Nat
    BY <1>3, <1>5 DEF ScanStep, StartScan, EmitBatch, FinishScan, LoseDone, FailScan, RestartScan
  <2>2. SUFFICES ASSUME NEW r \in ScanRuns, scan' = [scan EXCEPT ![s] = r],
                        r.phase = "scanning" => r.plan \in Plans[s]
                 PROVE  ScansOK'
    <3>1. CASE StartScan(s)
      <4>1. PICK p \in Plans[s] :
              scan' = [scan EXCEPT ![s] = [phase |-> "scanning", plan |-> p, sent |-> {},
                                           runs |-> @.runs + 1]]
        BY <3>1 DEF StartScan
      <4>2. p \subseteq BlockRange
        BY PlansAssumption
      <4>3. [phase |-> "scanning", plan |-> p, sent |-> {}, runs |-> scan[s].runs + 1] \in ScanRuns
        BY <1>2, <4>2 DEF ScanRuns
      <4> QED BY <1>2, <2>2, <4>1, <4>3
    <3>2. CASE EmitBatch(s)
      <4>1. PICK b \in BatchesOf(s, scan[s].plan) :
              scan[s].phase = "scanning" /\ scan' = [scan EXCEPT ![s].sent = @ \cup {b}]
        BY <3>2 DEF EmitBatch
      <4>2. b \in BlockRange \X Nat
        BY <4>1, BatchTypes
      <4>3. [scan[s] EXCEPT !.sent = @ \cup {b}] \in ScanRuns
        BY <1>2, <4>2 DEF ScanRuns
      <4>4. scan' = [scan EXCEPT ![s] = [scan[s] EXCEPT !.sent = @ \cup {b}]]
        BY <1>2, <4>1
      <4>5. [scan[s] EXCEPT !.sent = @ \cup {b}].plan = scan[s].plan
        BY <1>2 DEF ScanRuns
      <4> QED BY <1>2, <2>2, <4>1, <4>3, <4>4, <4>5
    <3>3. ASSUME NEW ph \in {"queued", "finished", "failed"},
                 scan' = [scan EXCEPT ![s].phase = ph]
          PROVE  ScansOK'
      <4>1. [scan[s] EXCEPT !.phase = ph] \in ScanRuns
        BY <1>2 DEF ScanRuns
      <4>2. scan' = [scan EXCEPT ![s] = [scan[s] EXCEPT !.phase = ph]]
        BY <1>2, <3>3
      <4>3. [scan[s] EXCEPT !.phase = ph].phase # "scanning"
        BY <1>2 DEF ScanRuns
      <4> QED BY <2>2, <4>1, <4>2, <4>3
    <3>4. CASE FinishScan(s) \/ LoseDone(s) \/ FailScan(s) \/ RestartScan(s)
      BY <3>3, <3>4 DEF FinishScan, LoseDone, FailScan, RestartScan
    <3> QED BY <1>5, <3>1, <3>2, <3>4 DEF ScanStep
  <2>3. scan' \in [Snapshots -> ScanRuns]
    BY <1>2, <2>2
  <2>4. ASSUME NEW u \in Snapshots, scan'[u].phase = "scanning"
        PROVE  scan'[u].plan \in Plans[u]
    BY <1>2, <2>2, <2>4
  <2> QED BY <1>1, <2>1, <2>3, <2>4 DEF ScansOK
<1> QED BY <1>4, <1>5, ScansChange DEF ScansStep, Environment

\* A step of a handler moves its goroutine's pc, agg and chain only.
HandlerMove(g) ==
  /\ UNCHANGED <<next, committed, at>>
  /\ \E label \in Labels : pc' = [pc EXCEPT ![g] = label]
  /\ pc[g] \notin {"fetch", "commit"}
  /\ pc'["results"] # "route" /\ pc'["status"] # "ingest"
  /\ \E a \in [done : Nat, from : Nat, to : Nat] : agg' = [agg EXCEPT ![g] = a]
  /\ chain' = [h \in Topics |-> chain'[h]]

LEMMA GoroutineMoves ==
  ASSUME TypeOK, NEW g \in Topics,
         Goroutine(g), ~(\E t \in Tokens : Fetch(g, t)), ~Commit(g)
  PROVE  HandlerMove(g)
<1> USE DEF HandlerFrame, Goto, Labels
<1>1. /\ pc \in [Topics -> Labels] /\ pc["results"] # "route" /\ pc["status"] # "ingest"
      /\ agg \in [Topics -> [done : Nat, from : Nat, to : Nat]]
      /\ chain = [h \in Topics |-> chain[h]]
  BY DEF TypeOK, ConsumersOK
<1>2. /\ agg = [agg EXCEPT ![g] = agg[g]] /\ agg[g] \in [done : Nat, from : Nat, to : Nat]
      /\ NoAgg \in [done : Nat, from : Nat, to : Nat]
  BY <1>1 DEF NoAgg
<1>3. CASE OpenGate(g)
  <2>1. ChunkAgg(chunks[Snap(g)]) \in [done : Nat, from : Nat, to : Nat]
    BY <1>3, MessageInHand, ChunkAggBounds DEF OpenGate, TypeOK, TablesOK
  <2> QED BY <1>1, <1>3, <2>1 DEF OpenGate, HandlerMove, Topics
<1>4. CASE CloseGate(g) \/ PublishRequests(g)
  BY <1>1, <1>2, <1>4 DEF CloseGate, PublishRequests, HandlerMove, Topics
<1>5. CASE Complete(g)
  BY <1>1, <1>2, <1>5 DEF Complete, HandlerMove, Topics
<1>6. CASE GateFails(g) \/ CompleteFails(g)
  BY <1>1, <1>2, <1>6 DEF GateFails, CompleteFails, FailAt, HandlerMove, Topics
<1> QED BY <1>3, <1>4, <1>5, <1>6 DEF Goroutine

LEMMA HandlerMoves ==
  ASSUME TypeOK, ResultsHandler \/ StatusHandler
  PROVE  \E g \in Topics : HandlerMove(g)
<1> USE DEF HandlerFrame, Goto, Labels
<1>1. /\ pc \in [Topics -> Labels] /\ pc["results"] # "route" /\ pc["status"] # "ingest"
      /\ agg \in [Topics -> [done : Nat, from : Nat, to : Nat]]
      /\ chain = [h \in Topics |-> chain[h]]
  BY DEF TypeOK, ConsumersOK
<1>2. \A g \in Topics :
        /\ agg = [agg EXCEPT ![g] = agg[g]] /\ agg[g] \in [done : Nat, from : Nat, to : Nat]
        /\ NoAgg \in [done : Nat, from : Nat, to : Nat]
  BY <1>1 DEF NoAgg
<1>3. CASE ResultsHandler
  <2>1. HandlerMove("results")
    BY <1>1, <1>2, <1>3
    DEF ResultsHandler, IngestBatch, IngestBeginFails, IngestFails, FailAt, HandlerMove, Topics
  <2> QED BY <2>1 DEF Topics
<1>4. CASE StatusHandler
  <2>1. HandlerMove("status")
    BY <1>1, <1>2, <1>4
    DEF StatusHandler, MarkDone, MarkDoneFails, SkipStatus, FailAt, HandlerMove, Topics
  <2> QED BY <2>1 DEF Topics
<1> QED BY <1>3, <1>4

LEMMA ConsumersNext == TypeOK /\ [Next]_vars => ConsumersOK'
<1> SUFFICES ASSUME TypeOK, [Next]_vars PROVE ConsumersOK'
  OBVIOUS
<1>1. ConsumersOK
  BY DEF TypeOK
<1>2. \A g \in Topics : \A t \in Tokens :
        /\ Len(log[g][t]) \in Nat /\ Len(log'[g][t]) \in Nat
        /\ Len(log'[g][t]) >= Len(log[g][t])
        /\ next[g][t] \in Nat /\ committed[g][t] \in Nat
        /\ committed[g][t] < next[g][t] /\ next[g][t] <= Len(log[g][t]) + 1
  <2> SUFFICES ASSUME NEW g \in Topics, NEW t \in Tokens
               PROVE  /\ Len(log[g][t]) \in Nat /\ Len(log'[g][t]) \in Nat
                      /\ Len(log'[g][t]) >= Len(log[g][t])
                      /\ next[g][t] \in Nat /\ committed[g][t] \in Nat
                      /\ committed[g][t] < next[g][t] /\ next[g][t] <= Len(log[g][t]) + 1
    OBVIOUS
  <2>1. Len(log[g][t]) \in Nat /\ Len(log'[g][t]) \in Nat
    BY LogNext DEF TypeOK, ScansOK, LogOK
  <2>2. Len(log'[g][t]) >= Len(log[g][t])
    BY LogNext DEF LogGrows
  <2>3. next[g][t] \in Nat /\ committed[g][t] \in Nat
    BY <1>1 DEF ConsumersOK
  <2>4. next[g][t] \in committed[g][t] + 1 .. Len(log[g][t]) + 1
    BY <1>1 DEF ConsumersOK
  <2> QED BY <2>1, <2>2, <2>3, <2>4
<1>3. ASSUME UNCHANGED <<next, committed, at>>,
             \A g \in Topics : pc'[g] # "fetch" => pc[g] # "fetch"
      PROVE  /\ \A g \in Topics : \A t \in Tokens :
                  next'[g][t] \in committed'[g][t] + 1 .. Len(log'[g][t]) + 1
             /\ \A g \in Topics : pc'[g] # "fetch" =>
                  at'[g].off \in committed'[g][at'[g].part] + 1 .. next'[g][at'[g].part] - 1
  <2>1. \A g \in Topics : \A t \in Tokens :
          next[g][t] \in committed[g][t] + 1 .. Len(log'[g][t]) + 1
    <3> SUFFICES ASSUME NEW g \in Topics, NEW t \in Tokens
                 PROVE  next[g][t] \in committed[g][t] + 1 .. Len(log'[g][t]) + 1
      OBVIOUS
    <3>1. \A c, n, old, new \in Nat :
            c < n /\ n <= old + 1 /\ new >= old => n \in c + 1 .. new + 1
      OBVIOUS
    <3> QED BY <1>2, <3>1
  <2> QED BY <1>1, <1>3, <2>1 DEF ConsumersOK
<1>4. CASE UNCHANGED consumerVars
  BY <1>1, <1>3, <1>4 DEF consumerVars, ConsumersOK
<1>5. ASSUME NEW g \in Topics, HandlerMove(g) PROVE ConsumersOK'
  <2>1. \A h \in Topics : pc'[h] # "fetch" => pc[h] # "fetch"
    BY <1>1, <1>5 DEF HandlerMove, ConsumersOK
  <2>2. pc' \in [Topics -> Labels]
    BY <1>1, <1>5 DEF HandlerMove, ConsumersOK
  <2>3. agg' \in [Topics -> [done : Nat, from : Nat, to : Nat]]
    BY <1>1, <1>5 DEF HandlerMove, ConsumersOK
  <2> QED BY <1>1, <1>3, <1>5, <2>1, <2>2, <2>3 DEF HandlerMove, ConsumersOK
<1>6. ASSUME NEW g \in Topics, NEW t \in Tokens, Fetch(g, t) PROVE ConsumersOK'
  <2> DEFINE n == next[g][t]
  <2>1. n \in Nat /\ n <= Len(log[g][t]) /\ log' = log /\ committed' = committed
    BY <1>2, <1>6 DEF Fetch, scanVars
  <2>2. /\ next' = [next EXCEPT ![g][t] = n + 1]
        /\ at' = [at EXCEPT ![g] = [part |-> t, off |-> n]]
    BY <1>6 DEF Fetch
  <2>3. \A h \in Topics : \A u \in Tokens :
          next'[h][u] = IF h = g /\ u = t THEN n + 1 ELSE next[h][u]
    BY <1>1, <2>2 DEF ConsumersOK
  <2>4. next' \in [Topics -> [Tokens -> Nat]]
    BY <1>1, <2>1, <2>2 DEF ConsumersOK
  <2>5. ASSUME NEW h \in Topics, NEW u \in Tokens
        PROVE  next'[h][u] \in committed'[h][u] + 1 .. Len(log'[h][u]) + 1
    <3> HIDE DEF n
    <3>1. CASE h = g /\ u = t
      BY <1>2, <2>1, <2>3, <3>1 DEF n
    <3>2. CASE ~(h = g /\ u = t)
      BY <1>2, <2>1, <2>3, <3>2
    <3> QED BY <3>1, <3>2
  <2>6. at' \in [Topics -> [part : Tokens, off : Nat]]
    BY <1>1, <2>1, <2>2 DEF ConsumersOK
  <2>7. /\ pc' \in [Topics -> Labels] /\ pc'["results"] # "route" /\ pc'["status"] # "ingest"
        /\ \A h \in Topics : h # g => pc'[h] = pc[h]
        /\ UNCHANGED <<agg, chain>>
    BY <1>1, <1>6 DEF Fetch, Goto, ConsumersOK, Labels, Topics
  <2>8. ASSUME NEW h \in Topics, pc'[h] # "fetch"
        PROVE  at'[h].off \in committed'[h][at'[h].part] + 1 .. next'[h][at'[h].part] - 1
    <3>1. CASE h = g
      <4>1. at'[h].part = t /\ at'[h].off = n /\ next'[h][t] = n + 1
        BY <1>1, <2>2, <2>3, <3>1 DEF ConsumersOK
      <4> QED BY <1>2, <2>1, <3>1, <4>1
    <3>2. CASE h # g
      <4>1. at'[h] = at[h] /\ at[h].part \in Tokens /\ pc[h] # "fetch"
        BY <1>1, <2>2, <2>7, <2>8, <3>2 DEF ConsumersOK
      <4>2. next'[h][at[h].part] = next[h][at[h].part]
        BY <2>3, <3>2, <4>1
      <4> QED BY <1>1, <2>1, <4>1, <4>2 DEF ConsumersOK
    <3> QED BY <3>1, <3>2
  <2> QED BY <1>1, <2>1, <2>4, <2>5, <2>6, <2>7, <2>8 DEF ConsumersOK
<1>7. ASSUME NEW g \in Topics, Commit(g) PROVE ConsumersOK'
  <2> DEFINE t == at[g].part
             n == at[g].off
  <2>1. t \in Tokens /\ n \in Nat /\ pc[g] # "fetch"
    BY <1>1, <1>7 DEF Commit, ConsumersOK
  <2>2. n \in committed[g][t] + 1 .. next[g][t] - 1
    BY <1>1, <2>1 DEF ConsumersOK
  <2>3. UNCHANGED <<log, at, next>>
    BY <1>7 DEF Commit
  <2>4. \/ committed' = [committed EXCEPT ![g][t] = n]
        \/ committed' = committed
    BY <1>7 DEF Commit
  <2> HIDE DEF t, n
  <2>5. /\ committed' \in [Topics -> [Tokens -> Nat]]
        /\ \A h \in Topics : \A u \in Tokens :
             \/ committed'[h][u] = committed[h][u]
             \/ (h = g /\ u = t /\ committed'[h][u] = n)
    <3>1. CASE committed' = [committed EXCEPT ![g][t] = n]
      <4>1. committed' \in [Topics -> [Tokens -> Nat]]
        BY <1>1, <2>1, <3>1 DEF ConsumersOK
      <4>2. \A h \in Topics : \A u \in Tokens :
              committed'[h][u] = IF h = g /\ u = t THEN n ELSE committed[h][u]
        BY <1>1, <2>1, <3>1 DEF ConsumersOK
      <4> QED BY <4>1, <4>2
    <3>2. CASE committed' = committed
      BY <1>1, <3>2 DEF ConsumersOK
    <3> QED BY <2>4, <3>1, <3>2
  <2>6. \A h \in Topics : \A u \in Tokens :
          \/ committed'[h][u] = committed[h][u]
          \/ (h = g /\ u = t /\ committed'[h][u] = n)
    BY <2>5
  <2>7. ASSUME NEW h \in Topics, NEW u \in Tokens
        PROVE  next[h][u] \in committed'[h][u] + 1 .. Len(log[h][u]) + 1
    <3>1. CASE committed'[h][u] = committed[h][u]
      BY <1>2, <3>1
    <3>2. CASE h = g /\ u = t /\ committed'[h][u] = n
      BY <1>2, <2>1, <2>2, <3>2
    <3> QED BY <2>6, <3>1, <3>2
  <2>8. /\ pc' \in [Topics -> Labels] /\ pc'[g] = "fetch"
        /\ \A h \in Topics : h # g => pc'[h] = pc[h]
        /\ pc'["results"] # "route" /\ pc'["status"] # "ingest"
        /\ agg' \in [Topics -> [done : Nat, from : Nat, to : Nat]]
        /\ chain' = [h \in Topics |-> chain'[h]]
    <3>1. /\ pc' = [pc EXCEPT ![g] = "fetch"]
          /\ agg' = [agg EXCEPT ![g] = NoAgg] /\ chain' = [chain EXCEPT ![g] = ""]
      BY <1>7 DEF Commit, Goto
    <3>2. agg' \in [Topics -> [done : Nat, from : Nat, to : Nat]]
      BY <1>1, <3>1 DEF ConsumersOK, NoAgg
    <3>3. chain' = [h \in Topics |-> chain'[h]]
      BY <1>1, <3>1 DEF ConsumersOK
    <3> QED BY <1>1, <3>1, <3>2, <3>3 DEF ConsumersOK, Labels, Topics
  <2>9. ASSUME NEW h \in Topics, pc'[h] # "fetch"
        PROVE  at[h].off \in committed'[h][at[h].part] + 1 .. next[h][at[h].part] - 1
    <3>1. h # g /\ pc[h] # "fetch" /\ at[h].part \in Tokens
      BY <1>1, <2>8, <2>9 DEF ConsumersOK
    <3>2. committed'[h][at[h].part] = committed[h][at[h].part]
      BY <2>6, <3>1
    <3> QED BY <1>1, <3>1, <3>2 DEF ConsumersOK
  <2> QED BY <1>1, <2>3, <2>5, <2>7, <2>8, <2>9 DEF ConsumersOK
<1>8. CASE Crash
  <2>1. /\ next' = [g \in Topics |-> [t \in Tokens |-> committed[g][t] + 1]]
        /\ pc' = [g \in Topics |-> "fetch"] /\ agg' = [g \in Topics |-> NoAgg]
        /\ chain' = [g \in Topics |-> ""] /\ UNCHANGED <<log, committed, at>>
    BY <1>8 DEF Crash, scanVars
  <2>2. ASSUME NEW g \in Topics, NEW t \in Tokens
        PROVE  /\ next'[g][t] = committed[g][t] + 1
               /\ next'[g][t] \in committed'[g][t] + 1 .. Len(log'[g][t]) + 1
    <3>1. next'[g][t] = committed[g][t] + 1
      BY <2>1
    <3>2. committed[g][t] \in Nat /\ committed[g][t] < Len(log[g][t]) + 1
      BY <1>2
    <3>3. committed[g][t] + 1 \in committed[g][t] + 1 .. Len(log[g][t]) + 1
      BY <1>2, <3>2
    <3> QED BY <2>1, <3>1, <3>3
  <2>3. next' \in [Topics -> [Tokens -> Nat]]
    <3>1. \A g \in Topics : \A t \in Tokens : committed[g][t] + 1 \in Nat
      BY <1>2
    <3> QED BY <2>1, <3>1
  <2>4. agg' \in [Topics -> [done : Nat, from : Nat, to : Nat]]
    BY <2>1 DEF NoAgg
  <2>5. pc' \in [Topics -> Labels] /\ \A g \in Topics : pc'[g] = "fetch"
    BY <2>1 DEF Labels
  <2> QED BY <1>1, <2>1, <2>2, <2>3, <2>4, <2>5 DEF ConsumersOK, Topics
<1>9. CASE Environment
  BY <1>4, <1>9 DEF Environment
<1>10. CASE UNCHANGED vars
  BY <1>4, <1>10 DEF vars
<1> QED BY <1>5, <1>6, <1>7, <1>8, <1>9, <1>10, GoroutineMoves, HandlerMoves DEF Next

\* Every variable keeps its type: in particular no goroutine ever handles, commits or
\* resumes at an offset that is not in its topic.
THEOREM TypeCorrect == Spec => []TypeOK
<1>1. TypeOK /\ [Next]_vars => TypeOK'
  BY TablesNext, ScansNext, ConsumersNext DEF TypeOK
<1> QED BY <1>1, TypeInit, PTL DEF Spec

(***************************************************************************)
(* Both goroutines are readers in the sense of Consumer.                   *)
(***************************************************************************)

Lengths(g) == [t \in Tokens |-> Len(log[g][t])]

\* The steps of Consumer, in the words of the reader of topic g: a handler that runs or
\* ends, a failing commit, a new message, a fetch, a commit and a restart.
ReaderStep(g) ==
  \/ /\ UNCHANGED <<Lengths(g), next[g], committed[g], at[g]>>
     /\ \/ UNCHANGED Stage(g)
        \/ Stage(g) = "handling" /\ Stage(g)' \in {"committing", "idle"}
        \/ Stage(g) = "committing" /\ Stage(g)' = "idle"
  \/ /\ \E t \in Tokens : Lengths(g)' = [Lengths(g) EXCEPT ![t] = @ + 1]
     /\ UNCHANGED <<next[g], committed[g], Stage(g), at[g]>>
  \/ \E t \in Tokens :
       /\ Stage(g) = "idle" /\ next[g][t] <= Lengths(g)[t]
       /\ Stage(g)' = "handling"
       /\ at'[g] = [part |-> t, off |-> next[g][t]]
       /\ next'[g] = [next[g] EXCEPT ![t] = @ + 1]
       /\ UNCHANGED <<Lengths(g), committed[g]>>
  \/ /\ Stage(g) = "committing" /\ Stage(g)' = "idle"
     /\ committed'[g] = [committed[g] EXCEPT ![at[g].part] = at[g].off]
     /\ UNCHANGED <<Lengths(g), next[g], at[g]>>
  \/ /\ Stage(g)' = "idle"
     /\ next'[g] = [t \in Tokens |-> committed[g][t] + 1]
     /\ UNCHANGED <<Lengths(g), committed[g], at[g]>>

LEMMA PublishedLengths ==
  ASSUME LogOK, NEW q \in Topics, NEW s \in Snapshots, NEW m \in MessagesOf(q),
         log' = Published(q, s, m), NEW g \in Topics
  PROVE  \/ UNCHANGED Lengths(g)
         \/ \E t \in Tokens : Lengths(g)' = [Lengths(g) EXCEPT ![t] = @ + 1]
<1> DEFINE Messages == BatchMessages \cup StatusMessages
           t0 == TokenOf[s]
<1>1. t0 \in Tokens /\ m \in Messages
  BY JobsAssumption DEF MessagesOf
<1>2. log \in [Topics -> [Tokens -> Seq(Messages)]]
  BY DEF LogOK
<1>3. log' = [log EXCEPT ![q][t0] = Append(log[q][t0], m)]
  BY DEF Published
<1> HIDE DEF Messages, t0
<1>4. Len(Append(log[q][t0], m)) = Len(log[q][t0]) + 1
  BY <1>1, <1>2
<1>5. CASE g = q
  <2>1. \A t \in Tokens : log'[g][t] = IF t = t0 THEN Append(log[q][t0], m) ELSE log[g][t]
    BY <1>1, <1>2, <1>3, <1>5
  <2>2. Lengths(g)' = [Lengths(g) EXCEPT ![t0] = @ + 1]
    BY <1>1, <1>4, <1>5, <2>1 DEF Lengths
  <2> QED BY <1>1, <2>2
<1>6. CASE g # q
  <2>1. log'[g] = log[g]
    BY <1>2, <1>3, <1>6
  <2> QED BY <2>1 DEF Lengths
<1> QED BY <1>5, <1>6

LEMMA ReaderSteps ==
  ASSUME TypeOK, [Next]_vars, NEW g \in Topics
  PROVE  ReaderStep(g)
<1>1. ConsumersOK /\ LogOK
  BY DEF TypeOK, ScansOK
<1>2. /\ committed \in [Topics -> [Tokens -> Nat]] /\ next \in [Topics -> [Tokens -> Nat]]
      /\ pc \in [Topics -> Labels] /\ at \in [Topics -> [part : Tokens, off : Nat]]
  BY <1>1 DEF ConsumersOK
<1>3. CASE Environment
  <2>1. UNCHANGED <<next[g], committed[g], Stage(g), at[g]>>
    BY <1>3 DEF Environment, consumerVars, Stage
  <2>2. UNCHANGED Lengths(g) \/ \E t \in Tokens : Lengths(g)' = [Lengths(g) EXCEPT ![t] = @ + 1]
    <3>1. PICK s \in Snapshots : Publishes(s)
      BY <1>3, ScanPublishes DEF Environment
    <3>2. CASE UNCHANGED log
      BY <3>2 DEF Lengths
    <3>3. CASE \E m \in StatusMessages : log' = Published("status", s, m)
      BY <1>1, <3>3, PublishedLengths DEF MessagesOf, Topics
    <3>4. CASE \E b \in BatchesOf(s, scan[s].plan) :
                 /\ TransferBatch(s, b[1], b[2]) \in BatchMessages
                 /\ log' = Published("results", s, TransferBatch(s, b[1], b[2]))
      BY <1>1, <3>4, PublishedLengths DEF MessagesOf, Topics
    <3> QED BY <3>1, <3>2, <3>3, <3>4 DEF Publishes
  <2> QED BY <2>1, <2>2 DEF ReaderStep
<1>4. ASSUME UNCHANGED log PROVE UNCHANGED Lengths(g)
  BY <1>4 DEF Lengths
<1>5. CASE UNCHANGED log /\ UNCHANGED consumerVars
  BY <1>4, <1>5 DEF consumerVars, ReaderStep, Stage
<1>6. ASSUME UNCHANGED log, NEW h \in Topics, HandlerMove(h) PROVE ReaderStep(g)
  <2>1. UNCHANGED <<Lengths(g), next[g], committed[g], at[g]>>
    BY <1>4, <1>6 DEF HandlerMove
  <2>2. CASE g = h
    <3>1. Stage(g) = "handling" /\ Stage(g)' \in {"handling", "committing", "idle"}
      BY <1>6, <2>2 DEF HandlerMove, Stage
    <3> QED BY <2>1, <3>1 DEF ReaderStep
  <2>3. CASE g # h
    <3>1. pc'[g] = pc[g]
      BY <1>2, <1>6, <2>3 DEF HandlerMove
    <3> QED BY <2>1, <3>1 DEF ReaderStep, Stage
  <2> QED BY <2>2, <2>3
<1>7. ASSUME NEW h \in Topics, NEW t \in Tokens, Fetch(h, t) PROVE ReaderStep(g)
  <2>1. /\ UNCHANGED <<Lengths(g), committed>> /\ pc[h] = "fetch"
        /\ next[h][t] <= Len(log[h][t])
        /\ at' = [at EXCEPT ![h] = [part |-> t, off |-> next[h][t]]]
        /\ next' = [next EXCEPT ![h][t] = @ + 1]
    BY <1>4, <1>7 DEF Fetch, scanVars
  <2>2. \E label \in {"ingest", "route"} : pc' = [pc EXCEPT ![h] = label]
    BY <1>7 DEF Fetch, Goto
  <2>3. CASE g = h
    <3>1. Stage(g) = "idle" /\ Stage(g)' = "handling"
      BY <1>2, <2>1, <2>2, <2>3 DEF Stage
    <3>2. next[g][t] <= Lengths(g)[t]
      BY <2>1, <2>3 DEF Lengths
    <3>3. /\ at'[g] = [part |-> t, off |-> next[g][t]]
          /\ next'[g] = [next[g] EXCEPT ![t] = @ + 1]
      BY <1>2, <2>1, <2>3
    <3> QED BY <2>1, <3>1, <3>2, <3>3 DEF ReaderStep
  <2>4. CASE g # h
    <3>1. pc'[g] = pc[g] /\ next'[g] = next[g] /\ at'[g] = at[g]
      BY <1>2, <2>1, <2>2, <2>4
    <3> QED BY <2>1, <3>1 DEF ReaderStep, Stage
  <2> QED BY <2>3, <2>4
<1>8. ASSUME NEW h \in Topics, Commit(h) PROVE ReaderStep(g)
  <2>1. /\ UNCHANGED <<Lengths(g), next, at>> /\ pc[h] = "commit"
        /\ pc' = [pc EXCEPT ![h] = "fetch"]
        /\ \/ committed' = [committed EXCEPT ![h][at[h].part] = at[h].off]
           \/ UNCHANGED committed
    BY <1>4, <1>8 DEF Commit, Goto
  <2>2. CASE g = h
    <3>1. Stage(g) = "committing" /\ Stage(g)' = "idle"
      BY <1>2, <2>1, <2>2 DEF Stage
    <3>2. \/ committed'[g] = [committed[g] EXCEPT ![at[g].part] = at[g].off]
          \/ UNCHANGED committed[g]
      BY <1>2, <2>1, <2>2
    <3> QED BY <2>1, <3>1, <3>2 DEF ReaderStep
  <2>3. CASE g # h
    <3>1. pc'[g] = pc[g] /\ committed'[g] = committed[g]
      BY <1>2, <2>1, <2>3
    <3> QED BY <2>1, <3>1 DEF ReaderStep, Stage
  <2> QED BY <2>2, <2>3
<1>9. CASE Crash
  <2>1. /\ UNCHANGED <<Lengths(g), committed[g], at[g]>>
        /\ next'[g] = [t \in Tokens |-> committed[g][t] + 1] /\ pc'[g] = "fetch"
    BY <1>4, <1>9 DEF Crash, scanVars
  <2> QED BY <2>1 DEF ReaderStep, Stage
<1>10. CASE UNCHANGED vars
  BY <1>5, <1>10 DEF vars, scanVars
<1>11. ASSUME NEW h \in Topics, Goroutine(h), UNCHANGED log PROVE ReaderStep(g)
  BY <1>6, <1>7, <1>8, <1>11, GoroutineMoves
<1> QED BY <1>3, <1>6, <1>9, <1>10, <1>11, ScansChange, HandlerMoves DEF ScansStep, Next

\* Each goroutine of the aggregator, its handlers, gates and restarts included, does
\* what Consumer.Run does with its topic and nothing else (kafka.go:56-81).
THEOREM AggregatorConsumes == Spec => ImplementsConsumers
<1>1. Init => ResultsConsumer!Init /\ StatusConsumer!Init
  <2> SUFFICES ASSUME Init PROVE ResultsConsumer!Init /\ StatusConsumer!Init
    OBVIOUS
  <2>1. ASSUME NEW g \in Topics
        PROVE  /\ Lengths(g) = [t \in Tokens |-> 0]
               /\ next[g] = [t \in Tokens |-> 1] /\ committed[g] = [t \in Tokens |-> 0]
               /\ Stage(g) = "idle"
               /\ \E t \in Tokens : at[g] = [part |-> t, off |-> 0]
    <3>1. \A t \in Tokens : Len(log[g][t]) = 0
      BY DEF Init, ScansInit
    <3>2. \E t \in Tokens : at[g] = [part |-> t, off |-> 0]
      <4>1. (CHOOSE t \in Tokens : TRUE) \in Tokens
        BY AggregatorAssumption
      <4> QED BY <4>1 DEF Init, Idle
    <3> QED BY <3>1, <3>2 DEF Init, Lengths, Stage
  <2> QED BY <2>1 DEF ResultsConsumer!Init, StatusConsumer!Init, Lengths, Topics
<1>2. ReaderStep("results") => [ResultsConsumer!Next]_(ResultsConsumer!consumer)
  <2> SUFFICES ASSUME ReaderStep("results")
               PROVE  [ResultsConsumer!Next]_(ResultsConsumer!consumer)
    OBVIOUS
  <2> USE DEF Lengths
  <2> QED
    BY DEF ReaderStep, ResultsConsumer!Next, ResultsConsumer!consumer,
       ResultsConsumer!Produce, ResultsConsumer!Fetch, ResultsConsumer!HandlerReturnsNil,
       ResultsConsumer!HandlerFails, ResultsConsumer!Commit, ResultsConsumer!CommitFails,
       ResultsConsumer!Restart
<1>3. ReaderStep("status") => [StatusConsumer!Next]_(StatusConsumer!consumer)
  <2> SUFFICES ASSUME ReaderStep("status")
               PROVE  [StatusConsumer!Next]_(StatusConsumer!consumer)
    OBVIOUS
  <2> USE DEF Lengths
  <2> QED
    BY DEF ReaderStep, StatusConsumer!Next, StatusConsumer!consumer,
       StatusConsumer!Produce, StatusConsumer!Fetch, StatusConsumer!HandlerReturnsNil,
       StatusConsumer!HandlerFails, StatusConsumer!Commit, StatusConsumer!CommitFails,
       StatusConsumer!Restart
<1>4. TypeOK /\ [Next]_vars => /\ [ResultsConsumer!Next]_(ResultsConsumer!consumer)
                               /\ [StatusConsumer!Next]_(StatusConsumer!consumer)
  BY <1>2, <1>3, ReaderSteps DEF Topics
<1> QED
  BY <1>1, <1>4, TypeCorrect, PTL
  DEF Spec, ImplementsConsumers, ResultsConsumer!Spec, StatusConsumer!Spec

\* The group's offsets on both topics only move forward, and never past the message being
\* handled, however the handlers fail, commits fail and the process restarts (kafka.go:86-111).
THEOREM AggregatorCommitsForward ==
  Spec => [][\A g \in Topics : \A t \in Tokens :
               /\ committed'[g][t] >= committed[g][t]
               /\ committed'[g][t] < next[g][t]]_vars
<1>1. ASSUME TypeOK, [Next]_vars, NEW g \in Topics, NEW t \in Tokens
      PROVE  committed'[g][t] >= committed[g][t] /\ committed'[g][t] < next[g][t]
  <2>1. /\ committed[g] \in [Tokens -> Nat] /\ next[g] \in [Tokens -> Nat]
        /\ next[g][t] >= committed[g][t] + 1
        /\ at[g].part \in Tokens /\ at[g].off \in Nat
        /\ next[g][at[g].part] \in Nat /\ committed[g][at[g].part] \in Nat
    BY <1>1 DEF TypeOK, ConsumersOK
  <2>2. CASE UNCHANGED committed[g]
    BY <2>1, <2>2
  <2>3. CASE /\ Stage(g) = "committing"
             /\ committed'[g] = [committed[g] EXCEPT ![at[g].part] = at[g].off]
    <3>1. at[g].off \in committed[g][at[g].part] + 1 .. next[g][at[g].part] - 1
      BY <1>1, <2>3 DEF Stage, TypeOK, ConsumersOK
    <3>2. CASE t = at[g].part
      BY <2>1, <2>3, <3>1, <3>2
    <3>3. CASE t # at[g].part
      BY <2>1, <2>3, <3>3
    <3> QED BY <3>2, <3>3
  <2>4. ReaderStep(g)
    BY <1>1, ReaderSteps
  <2> QED BY <2>2, <2>3, <2>4 DEF ReaderStep
<1>2. TypeOK /\ [Next]_vars => [\A g \in Topics : \A t \in Tokens :
                                 /\ committed'[g][t] >= committed[g][t]
                                 /\ committed'[g][t] < next[g][t]]_vars
  BY <1>1
<1> QED BY <1>2, TypeCorrect, PTL DEF Spec

(***************************************************************************)
(* A ready snapshot is never touched again.                                *)
(***************************************************************************)

\* No step touches the state, interval or balances of a snapshot that is ready.
LEMMA ReadyStays ==
  ASSUME TypeOK, [Next]_vars, NEW s \in Snapshots, Ready(s)
  PROVE  /\ balances'[s] = balances[s]
         /\ \A f \in {"state", "from", "block"} : snapshots'[s][f] = snapshots[s][f]
<1>1. /\ snapshots \in [Snapshots -> Rows] /\ snapshots[s].state = "ready"
      /\ balances = [u \in Snapshots |-> balances[u]]
  BY DEF TypeOK, TablesOK, Ready
<1>2. CASE UNCHANGED tables
  BY <1>2 DEF tables
<1>3. CASE pc["results"] = "ingest" /\ IngestBatchTx(Msg("results"))
  <2> DEFINE b == Msg("results")
  <2>1. b.snap \in Snapshots /\ b.total \in Nat
    BY <1>3, MessageInHand DEF BatchMessages, Topics
  <2>2. snapshots' = [snapshots EXCEPT ![b.snap] = UpsertSnapshot(@, b.total)]
    BY <1>3 DEF IngestBatchTx
  <2> HIDE DEF b
  <2>3. CASE b.snap = s
    <3>1. snapshots'[s] = UpsertSnapshot(snapshots[s], b.total)
      BY <1>1, <2>1, <2>2, <2>3
    <3>2. \A f \in {"state", "from", "block"} : snapshots'[s][f] = snapshots[s][f]
      BY <1>1, <3>1 DEF UpsertSnapshot, Rows
    <3> QED BY <1>3, <3>2 DEF IngestBatchTx
  <2>4. CASE b.snap # s
    BY <1>1, <1>3, <2>1, <2>2, <2>4 DEF IngestBatchTx
  <2> QED BY <2>3, <2>4
<1>4. CASE pc["status"] = "route" /\ MarkDoneTx(Snap("status"))
  <2>1. Snap("status") \in Snapshots
    BY <1>4, MessageInHand DEF Topics
  <2>2. \A f \in {"state", "from", "block"} : snapshots'[s][f] = snapshots[s][f]
    BY <1>1, <1>4, <2>1 DEF MarkDoneTx, Rows
  <2> QED BY <1>4, <2>2 DEF MarkDoneTx
<1>5. ASSUME NEW g \in Topics, pc[g] = "complete",
             Completable(snapshots[Snap(g)], agg[g]), CompleteTx(Snap(g), agg[g])
      PROVE  /\ balances'[s] = balances[s]
             /\ \A f \in {"state", "from", "block"} : snapshots'[s][f] = snapshots[s][f]
  <2>1. Snap(g) \in Snapshots /\ Snap(g) # s
    BY <1>1, <1>5, MessageInHand DEF Completable
  <2> QED BY <1>1, <1>5, <2>1 DEF CompleteTx
<1> QED BY <1>2, <1>3, <1>4, <1>5, TablesChange DEF TablesStep

\* A ready snapshot keeps its state, interval and balances, whatever is redelivered,
\* rescanned or raced (Repo.IngestBatch, MarkDone and TryComplete).
THEOREM ReadyFinal == Spec => ReadyIsFinal
<1>1. TypeOK /\ [Next]_vars =>
        [\A s \in Snapshots : Ready(s) =>
           /\ balances'[s] = balances[s]
           /\ \A f \in {"state", "from", "block"} : snapshots'[s][f] = snapshots[s][f]]_vars
  BY ReadyStays
<1> QED BY <1>1, TypeCorrect, PTL DEF Spec, ReadyIsFinal

(***************************************************************************)
(* How messages, the ledger and the gate evolve across a step.             *)
(***************************************************************************)

\* A message in hand stays the same message while its handler runs.
LEMMA MessageStays ==
  ASSUME TypeOK, [Next]_vars, NEW g \in Topics, pc[g] # "fetch", at'[g] = at[g]
  PROVE  Msg(g)' = Msg(g) /\ Snap(g)' = Snap(g)
<1>1. /\ at[g].part \in Tokens
      /\ at[g].off \in 1 .. Len(log[g][at[g].part])
  BY MessageInHand
<1>2. log'[g][at[g].part][at[g].off] = log[g][at[g].part][at[g].off]
  BY <1>1, LogNext DEF LogGrows
<1> QED BY <1>2 DEF Msg, Snap

\* The ledger and the transfers of a token only grow.
LEMMA TablesGrow ==
  ASSUME TypeOK, [Next]_vars
  PROVE  /\ \A s \in Snapshots : chunks[s] \subseteq chunks'[s]
         /\ \A t \in Tokens : transfers[t] \subseteq transfers'[t]
<1>1. /\ chunks \in [Snapshots -> SUBSET BlockRange]
      /\ transfers \in [Tokens -> SUBSET Transfer]
  BY DEF TypeOK, TablesOK
<1>2. CASE UNCHANGED <<chunks, transfers>>
  BY <1>2
<1>3. CASE IngestBatchTx(Msg("results"))
  BY <1>1, <1>3 DEF IngestBatchTx, InsertTransfers
<1> QED BY <1>2, <1>3, TablesChange DEF TablesStep, tables, MarkDoneTx, CompleteTx

\* A goroutine is past the gate because it was already, or because it just opened it.
LEMMA PastTheGate ==
  ASSUME TypeOK, [Next]_vars, NEW g \in Topics, pc'[g] = "complete"
  PROVE  \/ pc[g] = "complete" /\ at'[g] = at[g] /\ agg'[g] = agg[g]
         \/ OpenGate(g)
<1> USE DEF HandlerFrame, Goto
<1>1. /\ pc \in [Topics -> Labels] /\ agg = [h \in Topics |-> agg[h]]
      /\ at = [h \in Topics |-> at[h]]
  BY DEF TypeOK, ConsumersOK
<1> DEFINE Q == \/ pc[g] = "complete" /\ at'[g] = at[g] /\ agg'[g] = agg[g]
                \/ OpenGate(g)
<1>2. CASE Environment
  BY <1>2 DEF Environment, consumerVars
<1>3. ASSUME NEW h \in Topics, Goroutine(h) PROVE Q
  <2>1. ASSUME NEW t \in Tokens, Fetch(h, t) PROVE Q
    <3>1. h # g
      BY <1>1, <2>1 DEF Fetch
    <3> QED BY <1>1, <2>1, <3>1 DEF Fetch
  <2>2. CASE OpenGate(h)
    <3>1. CASE h = g
      BY <2>2, <3>1
    <3>2. CASE h # g
      BY <1>1, <2>2, <3>2 DEF OpenGate
    <3> QED BY <3>1, <3>2
  <2>3. CASE CloseGate(h) \/ Complete(h) \/ PublishRequests(h)
    <3>1. h # g
      BY <1>1, <2>3 DEF CloseGate, Complete, PublishRequests
    <3> QED BY <1>1, <2>3, <3>1 DEF CloseGate, Complete, PublishRequests
  <2>4. CASE GateFails(h) \/ CompleteFails(h)
    <3>1. h # g
      BY <1>1, <2>4 DEF GateFails, CompleteFails, FailAt
    <3> QED BY <1>1, <2>4, <3>1 DEF GateFails, CompleteFails, FailAt
  <2>5. CASE Commit(h)
    <3>1. h # g
      BY <1>1, <2>5 DEF Commit
    <3> QED BY <1>1, <2>5, <3>1 DEF Commit
  <2> QED BY <1>3, <2>1, <2>2, <2>3, <2>4, <2>5 DEF Goroutine
<1>4. CASE ResultsHandler
  <2>1. g # "results"
    BY <1>1, <1>4
    DEF ResultsHandler, IngestBatch, IngestBeginFails, IngestFails, FailAt, Topics
  <2> QED BY <1>1, <1>4, <2>1
          DEF ResultsHandler, IngestBatch, IngestBeginFails, IngestFails, FailAt, Topics
<1>5. CASE StatusHandler
  <2>1. g # "status"
    BY <1>1, <1>5 DEF StatusHandler, MarkDone, MarkDoneFails, SkipStatus, FailAt, Topics
  <2> QED BY <1>1, <1>5, <2>1
          DEF StatusHandler, MarkDone, MarkDoneFails, SkipStatus, FailAt, Topics
<1>6. CASE Crash
  BY <1>6 DEF Crash
<1>7. CASE UNCHANGED vars
  BY <1>7 DEF vars, consumerVars
<1> QED BY <1>2, <1>3, <1>4, <1>5, <1>6, <1>7 DEF Next

\* A message on the results topic was there, or is a batch of the run that published it.
LEMMA NewResults ==
  ASSUME TypeOK, [Next]_vars, NEW t \in Tokens, NEW i \in 1 .. Len(log'["results"][t])
  PROVE  \/ /\ i \in 1 .. Len(log["results"][t])
            /\ log'["results"][t][i] = log["results"][t][i]
         \/ \E s \in Snapshots : \E b \in BatchesOf(s, scan[s].plan) :
              /\ scan[s].phase = "scanning" /\ TokenOf[s] = t
              /\ log'["results"][t][i] = TransferBatch(s, b[1], b[2])
<1>1. LogOK /\ "results" \in Topics /\ "status" \in Topics
  BY DEF TypeOK, ScansOK, Topics
<1>2. CASE UNCHANGED log
  BY <1>2
<1>3. ASSUME NEW s \in Snapshots, Publishes(s),
             ~(i \in 1 .. Len(log["results"][t]) /\ log'["results"][t][i] = log["results"][t][i])
      PROVE  \E b \in BatchesOf(s, scan[s].plan) :
               /\ scan[s].phase = "scanning" /\ TokenOf[s] = t
               /\ log'["results"][t][i] = TransferBatch(s, b[1], b[2])
  <2>1. ASSUME NEW m \in StatusMessages, m.snap = s, log' = Published("status", s, m)
        PROVE  FALSE
    <3>1. m \in MessagesOf("status")
      BY DEF MessagesOf
    <3>2. Appended("status", s, m)
      BY <1>1, <2>1, <3>1, PublishedLog
    <3> QED BY <1>1, <1>3, <3>2 DEF Appended
  <2>2. PICK b \in BatchesOf(s, scan[s].plan) :
          /\ scan[s].phase = "scanning"
          /\ TransferBatch(s, b[1], b[2]) \in BatchMessages
          /\ log' = Published("results", s, TransferBatch(s, b[1], b[2]))
    BY <1>2, <1>3, <2>1 DEF Publishes
  <2> DEFINE m == TransferBatch(s, b[1], b[2])
  <2>3. m \in MessagesOf("results") /\ m.snap = s
    BY <2>2 DEF MessagesOf, TransferBatch
  <2> HIDE DEF m
  <2>4. Appended("results", s, m)
    BY <1>1, <2>2, <2>3, PublishedLog DEF m
  <2>5. t = TokenOf[s] /\ log'["results"][t][i] = m
    BY <1>1, <1>3, <2>4 DEF Appended
  <2> QED BY <2>2, <2>5 DEF m
<1>4. CASE Environment
  BY <1>2, <1>3, <1>4, ScanPublishes DEF Environment
<1> QED BY <1>2, <1>4, ScansChange DEF ScansStep

\* A "done" on the status topic was there, or its run just sent all its batches.
LEMMA NewDone ==
  ASSUME TypeOK, [Next]_vars, NEW t \in Tokens, NEW i \in 1 .. Len(log'["status"][t]),
         log'["status"][t][i].state = "done"
  PROVE  \/ /\ i \in 1 .. Len(log["status"][t])
            /\ log'["status"][t][i] = log["status"][t][i]
         \/ \E s \in Snapshots :
              /\ scan[s].phase = "scanning" /\ AllSent(s)
              /\ log'["status"][t][i].snap = s
<1>1. LogOK /\ "results" \in Topics /\ "status" \in Topics
  BY DEF TypeOK, ScansOK, Topics
<1> DEFINE Old == /\ i \in 1 .. Len(log["status"][t])
                  /\ log'["status"][t][i] = log["status"][t][i]
<1>2. CASE UNCHANGED log
  BY <1>2
<1>3. ASSUME NEW s \in Snapshots, NEW st \in {"started", "done", "error"},
             log' = Published("status", s, SnapshotStatus(s, st))
      PROVE  Old \/ (st = "done" /\ log'["status"][t][i].snap = s)
  <2> DEFINE m == SnapshotStatus(s, st)
  <2>1. m \in MessagesOf("status") /\ m.snap = s /\ m.state = st
    BY DEF MessagesOf, SnapshotStatus, StatusMessages
  <2> HIDE DEF m
  <2>2. Appended("status", s, m)
    BY <1>1, <1>3, <2>1, PublishedLog DEF m
  <2> QED BY <1>1, <2>1, <2>2 DEF Appended
<1>4. ASSUME NEW s \in Snapshots, EmitBatch(s)
      PROVE  Old
  <2>1. PICK b \in BatchesOf(s, scan[s].plan) :
          /\ scan[s].phase = "scanning"
          /\ log' = Published("results", s, TransferBatch(s, b[1], b[2]))
    BY <1>4 DEF EmitBatch
  <2> DEFINE m == TransferBatch(s, b[1], b[2])
  <2>2. m \in MessagesOf("results") /\ m.snap = s
    BY <2>1, BatchTypes DEF MessagesOf, TransferBatch
  <2> HIDE DEF m
  <2>3. Appended("results", s, m)
    BY <1>1, <2>1, <2>2, PublishedLog DEF m
  <2> QED BY <1>1, <2>3 DEF Appended
<1>5. ASSUME NEW s \in Snapshots, ScanStep(s)
      PROVE  Old \/ \E u \in Snapshots : /\ scan[u].phase = "scanning" /\ AllSent(u)
                                         /\ log'["status"][t][i].snap = u
  <2>1. CASE StartScan(s)
    BY <1>3, <2>1 DEF StartScan
  <2>2. CASE EmitBatch(s)
    BY <1>4, <2>2
  <2>3. CASE FinishScan(s)
    BY <1>3, <2>3 DEF FinishScan
  <2>4. CASE LoseDone(s) \/ RestartScan(s)
    BY <1>2, <2>4 DEF LoseDone, RestartScan
  <2>5. CASE FailScan(s)
    BY <1>2, <1>3, <2>5 DEF FailScan
  <2> QED BY <1>5, <2>1, <2>2, <2>3, <2>4, <2>5 DEF ScanStep
<1>6. CASE Environment
  BY <1>5, <1>6 DEF Environment
<1> QED BY <1>2, <1>6, ScansChange DEF ScansStep

(***************************************************************************)
(* Ready only after a full scan.                                           *)
(***************************************************************************)

LEMMA SentStays ==
  ASSUME TypeOK, [Next]_vars, NEW s \in Snapshots
  PROVE  /\ \A b : Sent(s, b) => Sent(s, b)'
         /\ FullyScanned(s) => FullyScanned(s)'
<1>1. TokenOf[s] \in Tokens /\ "results" \in Topics
  BY JobsAssumption DEF Topics
<1> DEFINE t == TokenOf[s]
<1>2. /\ Len(log'["results"][t]) >= Len(log["results"][t])
      /\ Len(log["results"][t]) \in Nat /\ Len(log'["results"][t]) \in Nat
      /\ \A i \in 1 .. Len(log["results"][t]) : log'["results"][t][i] = log["results"][t][i]
  <2>1. LogOK /\ LogOK' /\ LogGrows
    BY LogNext DEF TypeOK, ScansOK
  <2>2. Len(log["results"][t]) \in Nat
    BY <1>1, <2>1 DEF LogOK
  <2>3. Len(log'["results"][t]) \in Nat
    BY <1>1, <2>1 DEF LogOK
  <2> HIDE DEF t
  <2> QED BY <1>1, <2>1, <2>2, <2>3 DEF LogGrows, t
<1>3. ASSUME NEW b, Sent(s, b) PROVE Sent(s, b)'
  <2>1. PICK i \in 1 .. Len(log["results"][t]) :
          LET m == log["results"][t][i] IN
          m.snap = s /\ m.range = b[1] /\ m.rows = Batch(ChunkLogs(s, b[1]), b[2])
    BY <1>3 DEF Sent
  <2>2. i \in 1 .. Len(log'["results"][t])
    BY <1>2
  <2> QED BY <1>2, <2>1, <2>2 DEF Sent
<1>4. FullyScanned(s) => FullyScanned(s)'
  BY <1>3 DEF FullyScanned
<1> QED BY <1>3, <1>4

\* A batch just emitted is on the topic.
LEMMA EmittedIsSent ==
  ASSUME TypeOK, NEW s \in Snapshots, scan[s].phase = "scanning",
         NEW b \in BatchesOf(s, scan[s].plan),
         log' = Published("results", s, TransferBatch(s, b[1], b[2]))
  PROVE  Sent(s, b)'
<1> DEFINE m == TransferBatch(s, b[1], b[2])
<1>1. /\ m \in MessagesOf("results") /\ m.snap = s /\ m.range = b[1]
      /\ m.rows = Batch(ChunkLogs(s, b[1]), b[2])
  BY BatchTypes DEF MessagesOf, TransferBatch
<1> HIDE DEF m
<1>2. Appended("results", s, m)
  BY <1>1, PublishedLog DEF m, TypeOK, ScansOK, Topics
<1>3. PICK i \in 1 .. Len(log'["results"][TokenOf[s]]) : log'["results"][TokenOf[s]][i] = m
  BY <1>2 DEF Appended
<1> QED BY <1>1, <1>3 DEF Sent

LEMMA ScanInvNext == TypeOK /\ ScanInv /\ [Next]_vars => ScanInv'
<1> SUFFICES ASSUME TypeOK, ScanInv, [Next]_vars PROVE ScanInv'
  OBVIOUS
<1>1. ASSUME NEW s \in Snapshots, scan'[s].phase = "scanning", NEW b \in scan'[s].sent
      PROVE  Sent(s, b)'
  <2>1. scan \in [Snapshots -> ScanRuns]
    BY DEF TypeOK, ScansOK
  <2>2. CASE scan'[s].sent = scan[s].sent /\ scan[s].phase = "scanning"
    BY <1>1, <2>2, SentStays DEF ScanInv
  <2>3. ASSUME NEW u \in Snapshots, ScanStep(u) PROVE Sent(s, b)'
    <3>1. CASE u # s
      <4>1. scan'[s] = scan[s]
        BY <2>1, <2>3, <3>1
        DEF ScanStep, StartScan, EmitBatch, FinishScan, LoseDone, FailScan, RestartScan
      <4> QED BY <1>1, <2>2, <4>1
    <3>2. CASE u = s /\ StartScan(s)
      <4>1. scan'[s].sent = {}
        BY <2>1, <3>2 DEF StartScan
      <4> QED BY <1>1, <4>1
    <3>3. CASE u = s /\ EmitBatch(s)
      <4>1. PICK c \in BatchesOf(s, scan[s].plan) :
              /\ scan[s].phase = "scanning"
              /\ log' = Published("results", s, TransferBatch(s, c[1], c[2]))
              /\ scan' = [scan EXCEPT ![s].sent = @ \cup {c}]
        BY <3>3 DEF EmitBatch
      <4>2. b \in scan[s].sent \/ b = c
        BY <1>1, <2>1, <4>1 DEF ScanRuns
      <4> QED BY <4>1, <4>2, SentStays, EmittedIsSent DEF ScanInv
    <3>4. CASE u = s /\ (FinishScan(s) \/ LoseDone(s) \/ FailScan(s) \/ RestartScan(s))
      BY <1>1, <2>1, <3>4 DEF FinishScan, LoseDone, FailScan, RestartScan, ScanRuns
    <3> QED BY <2>3, <3>1, <3>2, <3>3, <3>4 DEF ScanStep
  <2> QED BY <1>1, <2>2, <2>3, ScansChange DEF ScansStep, Environment
<1>2. ASSUME NEW t \in Tokens, NEW i \in 1 .. Len(log'["status"][t]),
             log'["status"][t][i].state = "done"
      PROVE  \E s \in Snapshots : s = log'["status"][t][i].snap /\ FullyScanned(s)'
  <2>1. CASE /\ i \in 1 .. Len(log["status"][t])
             /\ log'["status"][t][i] = log["status"][t][i]
    <3>1. log["status"][t][i] \in MessagesOf("status")
      BY <2>1 DEF TypeOK, ScansOK, LogOK, Topics
    <3>2. PICK s \in Snapshots : s = log["status"][t][i].snap
      BY <3>1 DEF MessagesOf, StatusMessages
    <3>3. FullyScanned(s)
      BY <1>2, <2>1, <3>2 DEF ScanInv
    <3>4. FullyScanned(s)'
      BY <3>3, SentStays
    <3> QED BY <2>1, <3>2, <3>4
  <2>2. ASSUME NEW s \in Snapshots, scan[s].phase = "scanning", AllSent(s)
        PROVE  FullyScanned(s)'
    <3>1. scan[s].plan \in Plans[s]
      BY <2>2 DEF TypeOK, ScansOK
    <3>2. FullyScanned(s)
      BY <2>2, <3>1 DEF AllSent, FullyScanned, ScanInv
    <3> QED BY <3>2, SentStays
  <2> QED BY <1>2, <2>1, <2>2, NewDone
<1>3. ASSUME NEW s \in Snapshots, snapshots'[s].doneSeen \/ Ready(s)' PROVE FullyScanned(s)'
  <2>1. snapshots \in [Snapshots -> Rows]
    BY DEF TypeOK, TablesOK
  <2>2. CASE snapshots[s].doneSeen \/ Ready(s)
    BY <2>2, SentStays DEF ScanInv
  <2>3. CASE UNCHANGED tables
    BY <1>3, <2>2, <2>3 DEF tables, Ready
  <2>4. CASE pc["results"] = "ingest" /\ IngestBatchTx(Msg("results"))
    <3> DEFINE b == Msg("results")
    <3>1. b.snap \in Snapshots /\ snapshots' = [snapshots EXCEPT ![b.snap] = UpsertSnapshot(@, b.total)]
      BY <2>4, MessageInHand DEF BatchMessages, Topics, IngestBatchTx
    <3> HIDE DEF b
    <3>2. \/ snapshots'[s] = snapshots[s]
          \/ snapshots'[s] = UpsertSnapshot(snapshots[s], b.total)
      BY <2>1, <3>1
    <3>3. snapshots[s].doneSeen \/ Ready(s)
      BY <1>3, <2>1, <3>2 DEF UpsertSnapshot, Ready, Rows
    <3> QED BY <2>2, <3>3
  <2>5. CASE pc["status"] = "route" /\ Msg("status").state = "done" /\ MarkDoneTx(Snap("status"))
    <3>1. /\ at["status"].part \in Tokens
          /\ at["status"].off \in 1 .. Len(log["status"][at["status"].part])
          /\ Snap("status") \in Snapshots
      BY <2>5, MessageInHand DEF Topics
    <3>2. CASE s = Snap("status")
      <4>1. FullyScanned(s)
        BY <2>5, <3>1, <3>2 DEF ScanInv, Msg, Snap
      <4> QED BY <4>1, SentStays
    <3>3. CASE s # Snap("status")
      <4>1. snapshots'[s] = snapshots[s]
        BY <2>1, <2>5, <3>1, <3>3 DEF MarkDoneTx
      <4> QED BY <1>3, <2>2, <4>1 DEF Ready
    <3> QED BY <3>2, <3>3
  <2>6. ASSUME NEW g \in Topics, pc[g] = "complete",
               Completable(snapshots[Snap(g)], agg[g]), CompleteTx(Snap(g), agg[g])
        PROVE  FullyScanned(s)'
    <3>1. Snap(g) \in Snapshots
      BY <2>6, MessageInHand
    <3>2. CASE s = Snap(g)
      BY <2>2, <2>6, <3>2 DEF Completable
    <3>3. CASE s # Snap(g)
      <4>1. snapshots'[s] = snapshots[s]
        BY <2>1, <2>6, <3>1, <3>3 DEF CompleteTx
      <4> QED BY <1>3, <2>2, <4>1 DEF Ready
    <3> QED BY <3>2, <3>3
  <2> QED BY <2>3, <2>4, <2>5, <2>6, TablesChange DEF TablesStep
<1>4. (\A t \in Tokens : \A i \in 1 .. Len(log["status"][t]) :
         log["status"][t][i].state = "done" => FullyScanned(log["status"][t][i].snap))'
  <2> SUFFICES ASSUME NEW t \in Tokens, NEW i \in 1 .. Len(log'["status"][t]),
                      log'["status"][t][i].state = "done"
               PROVE  FullyScanned(log["status"][t][i].snap)'
    OBVIOUS
  <2>1. PICK s \in Snapshots : s = log'["status"][t][i].snap /\ FullyScanned(s)'
    BY <1>2
  <2> QED BY <2>1 DEF FullyScanned, Sent
<1> QED BY <1>1, <1>3, <1>4 DEF ScanInv

\* Wherever the done signal of a job is, on the topic or on the row, one run of it has put all
\* its batches on the results topic (Scanner.Run publishes it last).
THEOREM ScanAlways == Spec => []ScanInv
<1>1. Init => ScanInv
  <2> SUFFICES ASSUME Init PROVE ScanInv
    OBVIOUS
  <2>1. \A t \in Tokens : 1 .. Len(log["status"][t]) = {}
    <3>1. \A t \in Tokens : Len(log["status"][t]) = 0
      BY DEF Init, ScansInit, Topics
    <3> QED BY <3>1
  <2>2. \A s \in Snapshots : scan[s].phase # "scanning"
    BY DEF Init, ScansInit, NoScan
  <2>3. \A s \in Snapshots : ~snapshots[s].doneSeen /\ ~Ready(s)
    BY DEF Init, LedgerInit, NoRow, Ready
  <2> QED BY <2>1, <2>2, <2>3 DEF ScanInv
<1> QED BY <1>1, ScanInvNext, TypeCorrect, PTL DEF Spec

\* A snapshot turns ready only after one run of its job put every batch of its plan on
\* the results topic, for any relative delay of the topics and any crashes.
THEOREM FullScan == Spec => []ReadyAfterFullScan
<1>1. ScanInv => ReadyAfterFullScan
  BY DEF ScanInv, ReadyAfterFullScan
<1> QED BY <1>1, ScanAlways, PTL

(***************************************************************************)
(* Completed snapshots are exact, when the runs of a job agree on its plan *)
(* and a chunk is one batch.                                               *)
(***************************************************************************)

LEMMA ThePlan ==
  ASSUME StablePlans, NEW s \in Snapshots
  PROVE  /\ Plans[s] = {PlanOf(s)}
         /\ IsFiniteSet(PlanOf(s)) /\ PlanOf(s) \subseteq BlockRange /\ PlanOf(s) # {}
         /\ Cardinality(PlanOf(s)) \in Nat
         /\ \A c, d \in PlanOf(s) : \A n \in c.from .. d.to :
               \E e \in PlanOf(s) : n \in Blocks(e)
<1>1. PICK p \in Plans[s] :
        /\ Plans[s] = {p}
        /\ \A c, d \in p : \A n \in c.from .. d.to : \E e \in p : n \in Blocks(e)
  BY DEF StablePlans
<1>2. PlanOf(s) = p
  BY <1>1 DEF PlanOf
<1> QED BY <1>1, <1>2, PlansAssumption, FS_CardinalityType

LEMMA WholeChunks ==
  ASSUME StablePlans, OneBatchPerChunk, TypeOK,
         NEW s \in Snapshots, scan[s].phase = "scanning", NEW b \in BatchesOf(s, scan[s].plan)
  PROVE  LET m == TransferBatch(s, b[1], b[2]) IN
         /\ m.snap = s /\ m.range \in PlanOf(s)
         /\ m.total = Cardinality(PlanOf(s)) /\ m.rows = ChunkLogs(s, m.range)
<1>1. scan[s].plan = PlanOf(s)
  BY ThePlan DEF TypeOK, ScansOK
<1>2. PICK c \in PlanOf(s) : \E i \in 1 .. BatchCount(ChunkLogs(s, c)) : b = <<c, i>>
  BY <1>1 DEF BatchesOf
<1>3. /\ IsFiniteSet(ChunkLogs(s, c)) /\ ChunkLogs(s, c) \subseteq Transfer
      /\ Cardinality(ChunkLogs(s, c)) <= MaxTransferPerBatch
  <2>1. TokenOf[s] \in Tokens /\ ChunkLogs(s, c) \in SUBSET Logs[TokenOf[s]]
    BY JobsAssumption DEF ChunkLogs
  <2>2. IsFiniteSet(ChunkLogs(s, c)) /\ ChunkLogs(s, c) \subseteq Transfer
    BY <2>1, LogsAssumption, FS_Subset
  <2>3. PlanOf(s) \in Plans[s]
    BY ThePlan
  <2> QED BY <1>2, <2>2, <2>3 DEF OneBatchPerChunk
<1>4. BatchCount(ChunkLogs(s, c)) = 1 /\ Batch(ChunkLogs(s, c), 1) = ChunkLogs(s, c)
  BY <1>3, OneBatch
<1>5. b = <<c, 1>>
  BY <1>2, <1>4
<1> QED BY <1>1, <1>4, <1>5 DEF TransferBatch

LEMMA MessagesExactNext ==
  ASSUME StablePlans, OneBatchPerChunk, TypeOK, MessagesExact, [Next]_vars
  PROVE  MessagesExact'
<1> SUFFICES ASSUME NEW t \in Tokens, NEW i \in 1 .. Len(log'["results"][t])
             PROVE  LET m == log'["results"][t][i] IN
                    /\ m.range \in PlanOf(m.snap)
                    /\ m.total = Cardinality(PlanOf(m.snap))
                    /\ m.rows = ChunkLogs(m.snap, m.range)
  BY DEF MessagesExact, PlanOf, ChunkLogs
<1>1. CASE /\ i \in 1 .. Len(log["results"][t])
           /\ log'["results"][t][i] = log["results"][t][i]
  BY <1>1 DEF MessagesExact
<1>2. ASSUME NEW s \in Snapshots, NEW b \in BatchesOf(s, scan[s].plan),
             scan[s].phase = "scanning",
             log'["results"][t][i] = TransferBatch(s, b[1], b[2])
      PROVE  LET m == log'["results"][t][i] IN
             /\ m.range \in PlanOf(m.snap)
             /\ m.total = Cardinality(PlanOf(m.snap))
             /\ m.rows = ChunkLogs(m.snap, m.range)
  BY <1>2, WholeChunks
<1> QED BY <1>1, <1>2, NewResults

LEMMA LedgerExactNext ==
  ASSUME StablePlans, TypeOK, MessagesExact, LedgerExact, [Next]_vars
  PROVE  LedgerExact'
<1>1. /\ snapshots \in [Snapshots -> Rows] /\ chunks \in [Snapshots -> SUBSET BlockRange]
      /\ transfers \in [Tokens -> SUBSET Transfer]
  BY DEF TypeOK, TablesOK
<1>2. CASE UNCHANGED <<chunks, transfers>> /\
           \A s \in Snapshots : snapshots'[s].chunksTotal = snapshots[s].chunksTotal
  BY <1>2 DEF LedgerExact
<1>3. CASE UNCHANGED tables
  BY <1>2, <1>3 DEF tables
<1>4. CASE pc["status"] = "route" /\ MarkDoneTx(Snap("status"))
  <2>1. Snap("status") \in Snapshots
    BY <1>4, MessageInHand DEF Topics
  <2> QED BY <1>1, <1>2, <1>4, <2>1 DEF MarkDoneTx, Rows
<1>5. ASSUME NEW g \in Topics, pc[g] = "complete", CompleteTx(Snap(g), agg[g])
      PROVE  LedgerExact'
  <2>1. Snap(g) \in Snapshots
    BY <1>5, MessageInHand
  <2> QED BY <1>1, <1>2, <1>5, <2>1 DEF CompleteTx, Rows
<1>6. CASE pc["results"] = "ingest" /\ IngestBatchTx(Msg("results"))
  <2>1. PICK b \in BatchMessages : b = Msg("results")
    BY <1>6, MessageInHand DEF Topics
  <2>2. PICK s \in Snapshots : s = b.snap
    BY <2>1 DEF BatchMessages
  <2>3. PICK t \in Tokens : t = TokenOf[s]
    BY JobsAssumption
  <2>4. /\ b.range \in PlanOf(s) /\ b.total = Cardinality(PlanOf(s))
        /\ b.rows = ChunkLogs(s, b.range)
    BY <1>6, <2>1, <2>2, MessageInHand DEF MessagesExact, Msg, Topics
  <2>5. b.rows \in SUBSET Logs[t]
    BY <2>3, <2>4 DEF ChunkLogs
  <2>6. InsertTransfers(transfers[t], b.rows) = transfers[t] \cup b.rows
    <3>1. \A l, m \in Logs[t] : l.key = m.key => l = m
      BY LogsAssumption
    <3>2. transfers[t] \in SUBSET Logs[t]
      BY DEF LedgerExact
    <3> QED BY <2>5, <3>1, <3>2, InsertKeepsAll
  <2>7. /\ snapshots' = [snapshots EXCEPT ![s] = UpsertSnapshot(@, b.total)]
        /\ transfers' = [transfers EXCEPT ![t] = @ \cup b.rows]
        /\ chunks' = [chunks EXCEPT ![s] = @ \cup {b.range}]
    BY <1>6, <2>1, <2>2, <2>3, <2>6 DEF IngestBatchTx
  <2>8. ASSUME NEW u \in Snapshots
        PROVE  /\ chunks'[u] \subseteq PlanOf(u)
               /\ snapshots'[u].chunksTotal \in {0, Cardinality(PlanOf(u))}
               /\ \A c \in chunks'[u] : ChunkLogs(u, c) \subseteq transfers'[TokenOf[u]]
    <3>1. transfers[TokenOf[u]] \subseteq transfers'[TokenOf[u]] /\ b.rows \subseteq transfers'[t]
      BY <1>1, <2>7, JobsAssumption
    <3>2. CASE u # s
      BY <1>1, <2>7, <3>1, <3>2 DEF LedgerExact
    <3>3. CASE u = s
      <4>1. chunks'[s] = chunks[s] \cup {b.range}
        BY <1>1, <2>7
      <4>2. snapshots'[s] = UpsertSnapshot(snapshots[s], b.total)
        BY <1>1, <2>7
      <4>3. snapshots'[s].chunksTotal \in {0, Cardinality(PlanOf(s))}
        <5>1. /\ snapshots[s] \in Rows /\ Cardinality(PlanOf(s)) \in Nat
              /\ snapshots[s].chunksTotal \in {0, Cardinality(PlanOf(s))}
          BY <1>1, ThePlan DEF LedgerExact
        <5> QED BY <2>4, <4>2, <5>1 DEF UpsertSnapshot, Rows
      <4> QED BY <2>3, <2>4, <3>1, <3>3, <4>1, <4>3 DEF LedgerExact
    <3> QED BY <3>2, <3>3
  <2>9. ASSUME NEW u \in Tokens PROVE transfers'[u] \subseteq Logs[u]
    BY <1>1, <2>5, <2>7 DEF LedgerExact
  <2> QED BY <2>8, <2>9 DEF LedgerExact, PlanOf, ChunkLogs
<1> QED BY <1>3, <1>4, <1>5, <1>6, TablesChange DEF TablesStep

LEMMA GateExactNext ==
  ASSUME StablePlans, TypeOK, LedgerExact, LedgerExact', GateExact, [Next]_vars
  PROVE  GateExact'
<1> SUFFICES ASSUME NEW g \in Topics, pc'[g] = "complete"
             PROVE  \E s \in Snapshots :
                      /\ s = Snap(g)' /\ chunks'[s] = PlanOf(s)
                      /\ agg'[g] = ChunkAgg(PlanOf(s))
  BY DEF GateExact
<1>1. /\ pc[g] # "fetch" /\ at'[g] = at[g]
  BY PastTheGate DEF OpenGate, HandlerFrame
<1>2. PICK s \in Snapshots : s = Snap(g) /\ s = Snap(g)'
  BY <1>1, MessageInHand, MessageStays
<1>3. chunks'[s] \subseteq PlanOf(s) /\ chunks[s] \subseteq PlanOf(s)
  BY DEF LedgerExact, PlanOf
<1>4. chunks[s] \subseteq chunks'[s]
  BY TablesGrow
<1>5. CASE pc[g] = "complete" /\ agg'[g] = agg[g]
  <2>1. chunks[s] = PlanOf(s) /\ agg[g] = ChunkAgg(PlanOf(s))
    BY <1>2, <1>5 DEF GateExact
  <2>2. chunks'[s] = PlanOf(s)
    BY <1>3, <1>4, <2>1
  <2> QED BY <1>2, <1>5, <2>1, <2>2
<1>6. CASE OpenGate(g)
  <2>1. /\ snapshots[s].chunksTotal > 0
        /\ Cardinality(chunks[s]) = snapshots[s].chunksTotal
    BY <1>2, <1>6 DEF OpenGate, Completable, ChunkAgg
  <2>2. Cardinality(chunks[s]) = Cardinality(PlanOf(s))
    <3>1. snapshots[s].chunksTotal \in {0, Cardinality(PlanOf(s))}
      BY DEF LedgerExact
    <3> QED BY <2>1, <3>1
  <2>3. chunks[s] = PlanOf(s)
    BY <1>3, <2>2, ThePlan, FS_Subset
  <2>4. agg'[g] = ChunkAgg(chunks[s])
    BY <1>2, <1>6 DEF OpenGate, TypeOK, ConsumersOK
  <2>5. chunks'[s] = PlanOf(s)
    BY <1>3, <1>4, <2>3
  <2>6. agg'[g] = ChunkAgg(PlanOf(s))
    BY <2>3, <2>4
  <2> QED BY <1>2, <2>5, <2>6
<1> QED BY <1>1, <1>5, <1>6, PastTheGate

\* Past the gate, every log of the interval about to be published is in the table.
LEMMA GateCovers ==
  ASSUME StablePlans, TypeOK, LedgerExact, GateExact,
         NEW g \in Topics, pc[g] = "complete"
  PROVE  \A l \in Logs[TokenOf[Snap(g)]] :
           l.block \in agg[g].from .. agg[g].to => l \in transfers[TokenOf[Snap(g)]]
<1>1. PICK s \in Snapshots : s = Snap(g)
  BY MessageInHand
<1> DEFINE P == PlanOf(s)
<1>2. chunks[s] = P /\ agg[g] = ChunkAgg(P)
  BY <1>1 DEF GateExact
<1>3. /\ IsFiniteSet(P) /\ P \in SUBSET BlockRange /\ P # {}
      /\ \A c, d \in P : \A n \in c.from .. d.to : \E e \in P : n \in Blocks(e)
  BY ThePlan
<1> HIDE DEF P
<1>4. (\E c \in P : agg[g].from = c.from) /\ (\E d \in P : agg[g].to = d.to)
  BY <1>2, <1>3, ChunkAggBounds
<1> SUFFICES ASSUME NEW l \in Logs[TokenOf[s]], l.block \in agg[g].from .. agg[g].to
             PROVE  l \in transfers[TokenOf[s]]
  BY <1>1
<1>5. PICK e \in P : l.block \in Blocks(e)
  BY <1>3, <1>4
<1>6. l \in ChunkLogs(s, e)
  BY <1>5 DEF ChunkLogs
<1> QED BY <1>2, <1>5, <1>6 DEF LedgerExact

\* A snapshot that is ready after a step was so before, or is completed by the step.
LEMMA ReadyStep ==
  ASSUME TypeOK, [Next]_vars, NEW s \in Snapshots, Ready(s)'
  PROVE  \/ /\ balances'[s] = balances[s]
            /\ \A f \in {"state", "from", "block"} : snapshots'[s][f] = snapshots[s][f]
         \/ \E g \in Topics : pc[g] = "complete" /\ Snap(g) = s /\ CompleteTx(s, agg[g])
<1>1. /\ snapshots \in [Snapshots -> Rows] /\ snapshots' \in [Snapshots -> Rows]
      /\ balances = [u \in Snapshots |-> balances[u]]
  BY TablesNext DEF TypeOK, TablesOK
<1>2. CASE UNCHANGED tables
  BY <1>2 DEF tables
<1>3. CASE pc["results"] = "ingest" /\ IngestBatchTx(Msg("results"))
  <2>1. PICK b \in BatchMessages : b = Msg("results")
    BY <1>3, MessageInHand DEF Topics
  <2>2. snapshots' = [snapshots EXCEPT ![b.snap] = UpsertSnapshot(@, b.total)]
    BY <1>3, <2>1 DEF IngestBatchTx
  <2>3. \/ snapshots'[s] = snapshots[s]
        \/ snapshots'[s] = UpsertSnapshot(snapshots[s], b.total)
    BY <1>1, <2>2
  <2>4. \A f \in {"state", "from", "block"} : snapshots'[s][f] = snapshots[s][f]
    BY <1>1, <2>3 DEF UpsertSnapshot, Ready, Rows
  <2> QED BY <1>3, <2>4 DEF IngestBatchTx
<1>4. CASE pc["status"] = "route" /\ MarkDoneTx(Snap("status"))
  <2>1. Snap("status") \in Snapshots
    BY <1>4, MessageInHand DEF Topics
  <2>2. \A f \in {"state", "from", "block"} : snapshots'[s][f] = snapshots[s][f]
    BY <1>1, <1>4, <2>1 DEF MarkDoneTx, Rows
  <2> QED BY <1>4, <2>2 DEF MarkDoneTx
<1>5. ASSUME NEW g \in Topics, pc[g] = "complete", CompleteTx(Snap(g), agg[g]), Snap(g) # s
      PROVE  balances'[s] = balances[s] /\ snapshots'[s] = snapshots[s]
  <2>1. PICK u \in Snapshots : u = Snap(g)
    BY <1>5, MessageInHand
  <2> QED BY <1>1, <1>5, <2>1 DEF CompleteTx
<1> QED BY <1>2, <1>3, <1>4, <1>5, TablesChange DEF TablesStep

LEMMA SnapshotExactNext ==
  ASSUME StablePlans, TypeOK, LedgerExact, GateExact, SnapshotExact, [Next]_vars
  PROVE  SnapshotExact'
<1> SUFFICES ASSUME NEW s \in Snapshots, Ready(s)'
             PROVE  WholePlan(s)' /\ BalancesKnown(s)'
  BY DEF SnapshotExact
<1>1. /\ snapshots \in [Snapshots -> Rows]
      /\ balances = [u \in Snapshots |-> balances[u]]
  BY DEF TypeOK, TablesOK
<1>2. CASE /\ balances'[s] = balances[s]
           /\ \A f \in {"state", "from", "block"} : snapshots'[s][f] = snapshots[s][f]
  BY <1>2 DEF SnapshotExact, Ready, WholePlan, BalancesKnown
<1>3. ASSUME NEW g \in Topics, pc[g] = "complete", Snap(g) = s, CompleteTx(s, agg[g])
      PROVE  WholePlan(s)' /\ BalancesKnown(s)'
  <2> DEFINE t == TokenOf[s]
  <2>1. balances'[s] = HolderBalances(transfers[t], agg[g].to)
    BY <1>1, <1>3 DEF CompleteTx
  <2>2. snapshots'[s].from = agg[g].from /\ snapshots'[s].block = agg[g].to
    BY <1>1, <1>3 DEF CompleteTx, Rows
  <2>3. WholePlan(s)'
    <3>1. agg[g] = ChunkAgg(PlanOf(s)) /\ PlanOf(s) \in Plans[s]
      BY <1>3, ThePlan DEF GateExact
    <3> QED BY <2>2, <3>1 DEF WholePlan
  <2>4. SUFFICES ASSUME \A l \in Logs[t] : l.block >= agg[g].from
                 PROVE  balances'[s] = HolderBalances(Logs[t], agg[g].to)
    BY <2>2, <2>3 DEF BalancesKnown
  <2>5. \A l \in Logs[t] : l.block \in Nat
    BY JobsAssumption, LogsAssumption DEF Transfer
  <2>6. agg[g].from \in Nat /\ agg[g].to \in Nat
    BY DEF TypeOK, ConsumersOK
  <2>7. {l \in transfers[t] : l.block <= agg[g].to} = {l \in Logs[t] : l.block <= agg[g].to}
    <3>1. transfers[t] \subseteq Logs[t]
      BY JobsAssumption DEF LedgerExact
    <3>2. ASSUME NEW l \in Logs[t], l.block <= agg[g].to PROVE l \in transfers[t]
      <4>1. l.block \in agg[g].from .. agg[g].to
        BY <2>4, <2>5, <2>6, <3>2
      <4> QED BY <1>3, <4>1, GateCovers
    <3> QED BY <3>1, <3>2
  <2> QED BY <2>1, <2>7 DEF HolderBalances
<1> QED BY <1>2, <1>3, ReadyStep

\* Widening the coverage by a touching interval adds no block of neither interval.
LEMMA AdvanceAddsNothing ==
  ASSUME NEW old \in BlockRange, NEW new \in BlockRange
  PROVE  Blocks(AdvanceCoverage(old, new)) \subseteq Blocks(old) \cup Blocks(new)
<1>1. CASE old = NoCoverage
  BY <1>1 DEF AdvanceCoverage
<1>2. CASE old # NoCoverage /\ old.from <= new.to + 1 /\ new.from <= old.to + 1
  BY <1>2 DEF AdvanceCoverage, Blocks, BlockRange
<1>3. CASE old # NoCoverage /\ ~(old.from <= new.to + 1 /\ new.from <= old.to + 1)
  BY <1>3 DEF AdvanceCoverage
<1> QED BY <1>1, <1>2, <1>3

LEMMA CoverageHonestNext ==
  ASSUME StablePlans, TypeOK, LedgerExact, GateExact, CoverageHonest, [Next]_vars
  PROVE  CoverageHonest'
<1> SUFFICES ASSUME NEW t \in Tokens, NEW l \in Logs[t], l.block \in Blocks(coverage'[t])
             PROVE  l \in transfers'[t]
  BY DEF CoverageHonest, Blocks
<1>1. transfers[t] \subseteq transfers'[t]
  BY TablesGrow
<1>2. CASE coverage'[t] = coverage[t]
  BY <1>1, <1>2 DEF CoverageHonest
<1>3. ASSUME NEW g \in Topics, pc[g] = "complete", CompleteTx(Snap(g), agg[g])
      PROVE  l \in transfers'[t]
  <2>1. PICK s \in Snapshots : s = Snap(g)
    BY <1>3, MessageInHand
  <2> DEFINE new == [from |-> agg[g].from, to |-> agg[g].to]
  <2>2. new \in BlockRange /\ coverage \in [Tokens -> BlockRange]
    BY DEF TypeOK, TablesOK, ConsumersOK, BlockRange
  <2>3. CASE t # TokenOf[s]
    BY <1>2, <1>3, <2>1, <2>2, <2>3, JobsAssumption DEF CompleteTx
  <2>4. CASE t = TokenOf[s]
    <3>1. coverage'[t] = AdvanceCoverage(coverage[t], new)
      BY <1>3, <2>1, <2>2, <2>4 DEF CompleteTx
    <3>2. l.block \in Blocks(coverage[t]) \/ l.block \in Blocks(new)
      <4> HIDE DEF new
      <4> QED BY <2>2, <3>1, AdvanceAddsNothing
    <3>3. CASE l.block \in Blocks(coverage[t])
      BY <1>1, <3>3 DEF CoverageHonest
    <3>4. CASE l.block \in Blocks(new)
      <4>1. l.block \in agg[g].from .. agg[g].to
        BY <3>4 DEF Blocks
      <4>2. l \in transfers[t]
        BY <1>3, <2>1, <2>4, <4>1, GateCovers
      <4> QED BY <1>1, <4>2
    <3> QED BY <3>2, <3>3, <3>4
  <2> QED BY <2>3, <2>4
<1>4. CASE UNCHANGED coverage
  BY <1>2, <1>4
<1> QED BY <1>3, <1>4, TablesChange DEF TablesStep, tables, IngestBatchTx, MarkDoneTx

LEMMA ExactInit == Init => ExactInv
<1> SUFFICES ASSUME Init PROVE ExactInv
  OBVIOUS
<1>1. MessagesExact
  <2>1. \A t \in Tokens : Len(log["results"][t]) = 0
    BY DEF Init, ScansInit, Topics
  <2> QED BY <2>1 DEF MessagesExact
<1>2. LedgerExact
  BY DEF Init, LedgerInit, NoRow, LedgerExact
<1>3. GateExact
  BY DEF Init, GateExact
<1>4. SnapshotExact
  BY DEF Init, LedgerInit, NoRow, SnapshotExact, Ready
<1>5. CoverageHonest
  <2>1. Blocks(NoCoverage) = {}
    BY DEF Blocks, NoCoverage
  <2> QED BY <2>1 DEF Init, LedgerInit, CoverageHonest
<1> QED BY <1>1, <1>2, <1>3, <1>4, <1>5 DEF ExactInv

LEMMA ExactNext ==
  ASSUME StablePlans, OneBatchPerChunk, TypeOK, ExactInv, [Next]_vars
  PROVE  ExactInv'
<1>1. MessagesExact'
  BY MessagesExactNext DEF ExactInv
<1>2. LedgerExact'
  BY LedgerExactNext DEF ExactInv
<1>3. GateExact'
  BY <1>2, GateExactNext DEF ExactInv
<1>4. SnapshotExact'
  BY SnapshotExactNext DEF ExactInv
<1>5. CoverageHonest'
  BY CoverageHonestNext DEF ExactInv
<1> QED BY <1>1, <1>2, <1>3, <1>4, <1>5 DEF ExactInv

\* Batches, ledger and gates stay exact together: what the topic carries is whole chunks of
\* the plan, what is ledgered is stored, and a gate that opened still holds when its row is
\* locked (Repo.IngestBatch and TryComplete, racing in the two goroutines).
THEOREM ExactAlways ==
  ASSUME StablePlans, OneBatchPerChunk
  PROVE  Spec => []ExactInv
<1>1. TypeOK /\ ExactInv /\ [Next]_vars => ExactInv'
  BY ExactNext
<1> QED BY <1>1, ExactInit, TypeCorrect, PTL DEF Spec

\* With stable plans and chunks of one batch, every ready snapshot is of its job's whole
\* interval and, when that starts no later than the first transfer, has exactly the
\* balances on chain: over any number of
\* jobs sharing a token, and any interleaving, fault, redelivery, rescan or restart.
THEOREM BalancesExact ==
  ASSUME StablePlans, OneBatchPerChunk
  PROVE  Spec => []SnapshotExact
<1>1. ExactInv => SnapshotExact
  BY DEF ExactInv
<1> QED BY <1>1, ExactAlways, PTL

\* Under the same assumptions token_coverage claims no block whose transfers are missing,
\* however the intervals of different jobs meet.
THEOREM CoverageSound ==
  ASSUME StablePlans, OneBatchPerChunk
  PROVE  Spec => []CoverageHonest
<1>1. ExactInv => CoverageHonest
  BY DEF ExactInv
<1> QED BY <1>1, ExactAlways, PTL

-----------------------------------------------------------------------------
(* What is published comes from the chain, whatever the plans are.         *)

LEMMA RowsOfChainNext ==
  ASSUME TypeOK, RowsOfChain, [Next]_vars
  PROVE  RowsOfChain'
<1>1. ASSUME NEW t \in Tokens, NEW i \in 1 .. Len(log'["results"][t])
      PROVE  log'["results"][t][i].rows \subseteq Logs[t]
  <2>1. CASE i \in 1 .. Len(log["results"][t]) /\ log'["results"][t][i] = log["results"][t][i]
    BY <2>1 DEF RowsOfChain
  <2>2. ASSUME NEW s \in Snapshots, NEW b \in BatchesOf(s, scan[s].plan), TokenOf[s] = t,
               log'["results"][t][i] = TransferBatch(s, b[1], b[2])
        PROVE  log'["results"][t][i].rows \subseteq Logs[t]
    <3>1. Batch(ChunkLogs(s, b[1]), b[2]) \subseteq Logs[t]
      BY <2>2 DEF Batch, ChunkLogs
    <3> QED BY <2>2, <3>1 DEF TransferBatch
  <2> QED BY <2>1, <2>2, NewResults
<1>2. ASSUME NEW t \in Tokens PROVE transfers'[t] \subseteq Logs[t]
  <2>1. CASE UNCHANGED transfers
    BY <2>1 DEF RowsOfChain
  <2>2. CASE pc["results"] = "ingest" /\ IngestBatchTx(Msg("results"))
    <3>1. PICK u \in Tokens : /\ u = TokenOf[Snap("results")]
                              /\ Msg("results").rows \subseteq Logs[u]
      BY <2>2, MessageInHand DEF RowsOfChain, Msg, Topics
    <3>2. transfers' = [transfers EXCEPT ![u] = InsertTransfers(@, Msg("results").rows)]
      BY <2>2, <3>1 DEF IngestBatchTx, Snap
    <3>3. transfers \in [Tokens -> SUBSET Transfer] /\ transfers[u] \subseteq Logs[u]
      BY DEF TypeOK, TablesOK, RowsOfChain
    <3>4. InsertTransfers(transfers[u], Msg("results").rows) \subseteq Logs[u]
      BY <3>1, <3>3 DEF InsertTransfers
    <3> QED BY <3>2, <3>3, <3>4 DEF RowsOfChain
  <2> QED BY <2>1, <2>2, TablesChange DEF TablesStep, tables, MarkDoneTx, CompleteTx
<1> QED BY <1>1, <1>2 DEF RowsOfChain

\* Only the completion of a snapshot writes its balances.
LEMMA BalancesStep ==
  ASSUME TypeOK, [Next]_vars, NEW s \in Snapshots
  PROVE  balances'[s] = balances[s] \/ Ready(s)'
<1>1. snapshots \in [Snapshots -> Rows] /\ balances = [u \in Snapshots |-> balances[u]]
  BY DEF TypeOK, TablesOK
<1>2. ASSUME NEW g \in Topics, pc[g] = "complete", CompleteTx(Snap(g), agg[g])
      PROVE  balances'[s] = balances[s] \/ Ready(s)'
  <2>1. PICK u \in Snapshots : u = Snap(g)
    BY <1>2, MessageInHand
  <2>2. CASE u = s
    BY <1>1, <1>2, <2>1, <2>2 DEF CompleteTx, Rows, Ready
  <2>3. CASE u # s
    BY <1>1, <1>2, <2>1, <2>3 DEF CompleteTx
  <2> QED BY <2>2, <2>3
<1> QED BY <1>2, TablesChange DEF TablesStep, tables, IngestBatchTx, MarkDoneTx

LEMMA BalancesWhenReadyNext ==
  ASSUME TypeOK, RowsOfChain, BalancesWhenReady, [Next]_vars
  PROVE  BalancesWhenReady'
<1> SUFFICES ASSUME NEW s \in Snapshots
             PROVE  IF Ready(s)' THEN BalancesOfChain(s)' ELSE balances'[s] = NoBalances
  BY DEF BalancesWhenReady
<1>1. CASE ~Ready(s)'
  <2>1. ~Ready(s)
    BY <1>1, ReadyStays DEF Ready
  <2> QED BY <1>1, <2>1, BalancesStep DEF BalancesWhenReady
<1>2. CASE Ready(s)'
  <2>1. CASE /\ balances'[s] = balances[s]
             /\ \A f \in {"state", "from", "block"} : snapshots'[s][f] = snapshots[s][f]
    BY <1>2, <2>1 DEF BalancesWhenReady, BalancesOfChain, Ready
  <2>2. ASSUME NEW g \in Topics, pc[g] = "complete", CompleteTx(s, agg[g])
        PROVE  BalancesOfChain(s)'
    <3> DEFINE rows == {l \in transfers[TokenOf[s]] : l.block <= agg[g].to}
    <3>1. snapshots \in [Snapshots -> Rows] /\ balances = [u \in Snapshots |-> balances[u]]
      BY DEF TypeOK, TablesOK
    <3>2. balances'[s] = BalancesOf(rows)
      BY <2>2, <3>1 DEF CompleteTx, HolderBalances
    <3>3. snapshots'[s].block = agg[g].to
      BY <2>2, <3>1 DEF CompleteTx, Rows
    <3>4. rows \in SUBSET {l \in Logs[TokenOf[s]] : l.block <= snapshots'[s].block}
      BY <3>3, JobsAssumption DEF RowsOfChain
    <3> HIDE DEF rows
    <3> QED BY <3>2, <3>4 DEF BalancesOfChain
  <2> QED BY <1>2, <2>1, <2>2, ReadyStep
<1> QED BY <1>1, <1>2

\* A name that a goroutine has after a step, it had and keeps, or has from its completion.
LEMMA ChainStep ==
  ASSUME TypeOK, [Next]_vars, NEW g \in Topics, chain'[g] # ""
  PROVE  \/ /\ chain'[g] = chain[g]
            /\ pc[g] \in {"publish", "commit"} =>
                 pc'[g] \in {"publish", "commit"} /\ at'[g] = at[g]
         \/ /\ pc[g] = "complete" /\ pc'[g] = "publish" /\ at'[g] = at[g]
            /\ chain'[g] = ChainOf[TokenOf[Snap(g)]]
<1> USE DEF HandlerFrame, Goto
<1>1. /\ pc \in [Topics -> Labels] /\ chain = [h \in Topics |-> chain[h]]
      /\ at = [h \in Topics |-> at[h]]
  BY DEF TypeOK, ConsumersOK
<1> DEFINE Kept  == /\ chain'[g] = chain[g]
                    /\ pc[g] \in {"publish", "commit"} =>
                         pc'[g] \in {"publish", "commit"} /\ at'[g] = at[g]
           Named == /\ pc[g] = "complete" /\ pc'[g] = "publish" /\ at'[g] = at[g]
                    /\ chain'[g] = ChainOf[TokenOf[Snap(g)]]
<1>2. CASE Environment
  BY <1>2 DEF Environment, consumerVars
<1>3. ASSUME NEW h \in Topics, Goroutine(h) PROVE Kept \/ Named
  <2>1. ASSUME NEW t \in Tokens, Fetch(h, t) PROVE Kept
    BY <1>1, <2>1 DEF Fetch
  <2>2. CASE OpenGate(h) \/ CloseGate(h)
    BY <1>1, <2>2 DEF OpenGate, CloseGate
  <2>3. CASE PublishRequests(h)
    BY <1>1, <2>3 DEF PublishRequests
  <2>4. CASE GateFails(h) \/ CompleteFails(h)
    BY <1>1, <2>4 DEF GateFails, CompleteFails, FailAt
  <2>5. CASE Commit(h)
    BY <1>1, <2>5 DEF Commit
  <2>6. CASE Complete(h)
    <3>1. CASE h = g
      BY <1>1, <2>6, <3>1 DEF Complete
    <3>2. CASE h # g
      BY <1>1, <2>6, <3>2 DEF Complete
    <3> QED BY <3>1, <3>2
  <2> QED BY <1>3, <2>1, <2>2, <2>3, <2>4, <2>5, <2>6 DEF Goroutine
<1>4. CASE ResultsHandler
  BY <1>1, <1>4 DEF ResultsHandler, IngestBatch, IngestBeginFails, IngestFails, FailAt, Topics
<1>5. CASE StatusHandler
  BY <1>1, <1>5 DEF StatusHandler, MarkDone, MarkDoneFails, SkipStatus, FailAt, Topics
<1>6. CASE Crash
  BY <1>6 DEF Crash
<1>7. CASE UNCHANGED vars
  BY <1>7 DEF vars, consumerVars
<1> QED BY <1>2, <1>3, <1>4, <1>5, <1>6, <1>7 DEF Next

LEMMA ChainNamedNext ==
  ASSUME TypeOK, ChainNamed, [Next]_vars
  PROVE  ChainNamed'
<1> SUFFICES ASSUME NEW g \in Topics, chain'[g] # ""
             PROVE  /\ pc'[g] \in {"publish", "commit"}
                    /\ chain'[g] = ChainOf[TokenOf[Snap(g)']]
  BY DEF ChainNamed
<1>1. CASE chain'[g] = chain[g]
  <2>1. pc[g] \in {"publish", "commit"} /\ chain[g] = ChainOf[TokenOf[Snap(g)]]
    BY <1>1 DEF ChainNamed
  <2>2. pc[g] # "complete" /\ pc[g] # "fetch"
    BY <2>1
  <2>3. pc'[g] \in {"publish", "commit"} /\ at'[g] = at[g]
    BY <2>1, <2>2, ChainStep
  <2>4. Snap(g)' = Snap(g)
    BY <2>2, <2>3, MessageStays
  <2> QED BY <1>1, <2>1, <2>3, <2>4
<1>2. CASE /\ pc[g] = "complete" /\ pc'[g] = "publish" /\ at'[g] = at[g]
           /\ chain'[g] = ChainOf[TokenOf[Snap(g)]]
  <2>1. Snap(g)' = Snap(g)
    BY <1>2, MessageStays
  <2> QED BY <1>2, <2>1
<1> QED BY <1>1, <1>2, ChainStep

\* Requests are published by tryComplete only, for the holders in the table.
LEMMA RequestsStep ==
  ASSUME [Next]_vars
  PROVE  \/ UNCHANGED requests
         \/ \E g \in Topics : PublishRequests(g)
<1> USE DEF HandlerFrame
<1>1. CASE Environment
  BY <1>1 DEF Environment
<1>2. ASSUME NEW g \in Topics, Goroutine(g), ~PublishRequests(g) PROVE UNCHANGED requests
  BY <1>2 DEF Goroutine, Fetch, OpenGate, CloseGate, Complete, GateFails, CompleteFails,
              FailAt, Commit
<1>3. CASE ResultsHandler
  BY <1>3 DEF ResultsHandler, IngestBatch, IngestBeginFails, IngestFails, FailAt
<1>4. CASE StatusHandler
  BY <1>4 DEF StatusHandler, MarkDone, MarkDoneFails, SkipStatus, FailAt
<1>5. CASE Crash
  BY <1>5 DEF Crash
<1>6. CASE UNCHANGED vars
  BY <1>6 DEF vars
<1> QED BY <1>1, <1>2, <1>3, <1>4, <1>5, <1>6 DEF Next

LEMMA HoldersAskedNext ==
  ASSUME TypeOK, BalancesWhenReady, ChainNamed, HoldersAsked, [Next]_vars
  PROVE  HoldersAsked'
<1> SUFFICES ASSUME NEW r \in requests'
             PROVE  \E s \in Snapshots :
                      r.addr \in DOMAIN balances'[s] /\ r.chain \in {"", ChainOf[TokenOf[s]]}
  BY DEF HoldersAsked
<1>1. \A s \in Snapshots : DOMAIN balances[s] # {} => balances'[s] = balances[s]
  <2> SUFFICES ASSUME NEW s \in Snapshots, DOMAIN balances[s] # {}
               PROVE  balances'[s] = balances[s]
    OBVIOUS
  <2>1. DOMAIN NoBalances = {}
    BY DEF NoBalances
  <2>2. Ready(s)
    BY <2>1 DEF BalancesWhenReady
  <2> QED BY <2>2, ReadyStays
<1>2. CASE r \in requests
  BY <1>1, <1>2 DEF HoldersAsked
<1>3. CASE r \notin requests
  <2>1. PICK g \in Topics : PublishRequests(g)
    BY <1>3, RequestsStep
  <2>2. PICK s \in Snapshots : s = Snap(g)
    BY <2>1, MessageInHand DEF PublishRequests
  <2>3. PICK a \in DOMAIN balances[s] : r = [chain |-> chain[g], addr |-> a]
    BY <1>3, <2>1, <2>2 DEF PublishRequests
  <2>4. r.chain \in {"", ChainOf[TokenOf[s]]}
    BY <2>2, <2>3 DEF ChainNamed
  <2> QED BY <1>1, <2>3, <2>4
<1> QED BY <1>2, <1>3

\* What the tables hold comes from the chain, and what is asked for from the tables: over any
\* plans, faults, rescans and restarts, and however the two gates of a snapshot race.
THEOREM ChainAlways == Spec => []ChainInv
<1>1. Init => ChainInv
  <2> SUFFICES ASSUME Init PROVE ChainInv
    OBVIOUS
  <2>1. \A t \in Tokens : Len(log["results"][t]) = 0 /\ transfers[t] = {}
    BY DEF Init, ScansInit, LedgerInit, Topics
  <2>2. \A s \in Snapshots : ~Ready(s) /\ balances[s] = NoBalances
    BY DEF Init, LedgerInit, NoRow, Ready
  <2>3. \A g \in Topics : chain[g] = ""
    BY DEF Init
  <2>4. requests = {}
    BY DEF Init
  <2>5. RowsOfChain
    BY <2>1 DEF RowsOfChain
  <2>6. BalancesWhenReady
    BY <2>2 DEF BalancesWhenReady
  <2>7. ChainNamed
    BY <2>3 DEF ChainNamed
  <2>8. HoldersAsked
    BY <2>4 DEF HoldersAsked
  <2> QED BY <2>5, <2>6, <2>7, <2>8 DEF ChainInv
<1>2. TypeOK /\ ChainInv /\ [Next]_vars => ChainInv'
  BY RowsOfChainNext, BalancesWhenReadyNext, ChainNamedNext, HoldersAskedNext DEF ChainInv
<1> QED BY <1>1, <1>2, TypeCorrect, PTL DEF Spec

\* Whatever was scanned, a ready snapshot sums the chain's own transfers up to its block, and
\* classification is asked for its holders only, under its chain's name or under none.
THEOREM PublishedSound == Spec => []PublishedFromChain
<1>1. ChainInv => PublishedFromChain
  <2> SUFFICES ASSUME ChainInv PROVE PublishedFromChain
    OBVIOUS
  <2>1. \A s \in Snapshots : DOMAIN balances[s] # {} => Ready(s)
    <3>1. DOMAIN NoBalances = {}
      BY DEF NoBalances
    <3> QED BY <3>1 DEF ChainInv, BalancesWhenReady
  <2>2. ASSUME NEW r \in requests
        PROVE  \E s \in Snapshots :
                 Ready(s) /\ r.addr \in DOMAIN balances[s] /\ r.chain \in {"", ChainOf[TokenOf[s]]}
    BY <2>1 DEF ChainInv, HoldersAsked
  <2> QED BY <2>2 DEF ChainInv, BalancesWhenReady, PublishedFromChain
<1> QED BY <1>1, ChainAlways, PTL

-----------------------------------------------------------------------------
(* What the pollers of a snapshot are told.                                *)

\* No row of the table snapshots is ever deleted, and its number of chunks never shrinks.
LEMMA RowsAdvance ==
  ASSUME TypeOK, [Next]_vars, NEW s \in Snapshots, Found(s)
  PROVE  /\ snapshots'[s].state # "absent"
         /\ snapshots'[s].chunksTotal >= snapshots[s].chunksTotal
         /\ Ready(s) => snapshots'[s].state = "ready" /\ snapshots'[s].block = snapshots[s].block
<1> DEFINE Q == /\ snapshots'[s].state # "absent"
                /\ snapshots'[s].chunksTotal >= snapshots[s].chunksTotal
                /\ Ready(s) => snapshots'[s].state = "ready" /\ snapshots'[s].block = snapshots[s].block
<1>1. /\ snapshots \in [Snapshots -> Rows] /\ snapshots[s].state # "absent"
      /\ snapshots[s].chunksTotal \in Nat
  BY DEF TypeOK, TablesOK, Found, Rows
<1>2. CASE UNCHANGED tables
  BY <1>1, <1>2 DEF tables, Ready
<1>3. CASE pc["results"] = "ingest" /\ IngestBatchTx(Msg("results"))
  <2> DEFINE b == Msg("results")
  <2>1. b.snap \in Snapshots /\ b.total \in Nat
    BY <1>3, MessageInHand DEF BatchMessages, Topics
  <2>2. snapshots' = [snapshots EXCEPT ![b.snap] = UpsertSnapshot(@, b.total)]
    BY <1>3 DEF IngestBatchTx
  <2> HIDE DEF b
  <2>3. CASE b.snap = s
    <3>1. snapshots'[s] = UpsertSnapshot(snapshots[s], b.total)
      BY <1>1, <2>1, <2>2, <2>3
    <3> QED BY <1>1, <2>1, <3>1 DEF UpsertSnapshot, Rows, Ready
  <2>4. CASE b.snap # s
    BY <1>1, <2>1, <2>2, <2>4 DEF Ready
  <2> QED BY <2>3, <2>4
<1>4. CASE pc["status"] = "route" /\ MarkDoneTx(Snap("status"))
  <2>1. Snap("status") \in Snapshots
    BY <1>4, MessageInHand DEF Topics
  <2> QED BY <1>1, <1>4, <2>1 DEF MarkDoneTx, Rows, Ready
<1>5. ASSUME NEW g \in Topics, pc[g] = "complete",
             Completable(snapshots[Snap(g)], agg[g]), CompleteTx(Snap(g), agg[g])
      PROVE  Q
  <2>1. Snap(g) \in Snapshots /\ snapshots[Snap(g)].state # "ready"
    BY <1>5, MessageInHand DEF Completable
  <2> QED BY <1>1, <1>5, <2>1 DEF CompleteTx, Rows, Ready
<1> QED BY <1>2, <1>3, <1>4, <1>5, TablesChange DEF TablesStep

\* Whatever is redelivered, scanned again or raced, a poll never takes back what an earlier one
\* said: found, ready at a block, so many chunks in all, so many done (handlers.go:78-119).
THEOREM PollsForward == Spec => PollsNeverGoBack
<1>1. ASSUME TypeOK, [Next]_vars, NEW s \in Snapshots, Found(s)
      PROVE  /\ getSnapshot(s)' = 200
             /\ getDistribution(s) = 200 =>
                  getDistribution(s)' = 200 /\ snapshots'[s].block = snapshots[s].block
             /\ snapshots'[s].chunksTotal >= snapshots[s].chunksTotal
             /\ chunks[s] \subseteq chunks'[s]
  BY <1>1, RowsAdvance, TablesGrow DEF Found, Ready, getSnapshot, getDistribution, SnapshotStatusView
<1>2. TypeOK /\ [Next]_vars =>
        [\A s \in Snapshots : Found(s) =>
           /\ getSnapshot(s)' = 200
           /\ getDistribution(s) = 200 =>
                getDistribution(s)' = 200 /\ snapshots'[s].block = snapshots[s].block
           /\ snapshots'[s].chunksTotal >= snapshots[s].chunksTotal
           /\ chunks[s] \subseteq chunks'[s]]_vars
  BY <1>1
<1> QED BY <1>2, TypeCorrect, PTL DEF Spec, PollsNeverGoBack

-----------------------------------------------------------------------------
\* A row comes with a chunk and the number of all chunks; it turns ready with the last one.
PollInv ==
  \A s \in Snapshots :
    /\ Found(s) => chunks[s] # {} /\ snapshots[s].chunksTotal = Cardinality(PlanOf(s))
    /\ Ready(s) => chunks[s] = PlanOf(s)

LEMMA PollNext ==
  ASSUME StablePlans, TypeOK, ExactInv, ExactInv', PollInv, [Next]_vars
  PROVE  PollInv'
<1> SUFFICES ASSUME NEW s \in Snapshots
             PROVE  /\ Found(s)' => /\ chunks'[s] # {}
                                    /\ snapshots'[s].chunksTotal = Cardinality(PlanOf(s))
                    /\ Ready(s)' => chunks'[s] = PlanOf(s)
  BY DEF PollInv, PlanOf
<1>1. /\ snapshots \in [Snapshots -> Rows] /\ chunks \in [Snapshots -> SUBSET BlockRange]
      /\ snapshots[s] \in Rows
  BY DEF TypeOK, TablesOK
<1>2. chunks[s] \subseteq chunks'[s] /\ chunks[s] \subseteq PlanOf(s) /\ chunks'[s] \subseteq PlanOf(s)
  BY TablesGrow DEF ExactInv, LedgerExact, PlanOf
<1>3. CASE snapshots'[s].state = snapshots[s].state /\ snapshots'[s].chunksTotal = snapshots[s].chunksTotal
  BY <1>2, <1>3 DEF PollInv, Found, Ready
<1>4. CASE UNCHANGED tables
  BY <1>3, <1>4 DEF tables
<1>5. CASE pc["results"] = "ingest" /\ IngestBatchTx(Msg("results"))
  <2> DEFINE b == Msg("results")
  <2>1. b.snap \in Snapshots /\ b.total \in Nat /\ b.range \in PlanOf(b.snap) /\ b.total = Cardinality(PlanOf(b.snap))
    BY <1>5, MessageInHand DEF BatchMessages, ExactInv, MessagesExact, Msg, Topics
  <2>2. /\ snapshots' = [snapshots EXCEPT ![b.snap] = UpsertSnapshot(@, b.total)]
        /\ chunks' = [chunks EXCEPT ![b.snap] = @ \cup {b.range}]
    BY <1>5 DEF IngestBatchTx
  <2> HIDE DEF b
  <2>3. CASE b.snap # s
    BY <1>1, <1>3, <2>1, <2>2, <2>3
  <2>4. CASE b.snap = s
    <3>1. snapshots'[s] = UpsertSnapshot(snapshots[s], b.total) /\ b.range \in chunks'[s]
      BY <1>1, <2>1, <2>2, <2>4
    <3>2. CASE snapshots[s].state = "absent"
      BY <1>1, <2>1, <2>4, <3>1, <3>2 DEF UpsertSnapshot, Rows, Ready
    <3>3. CASE snapshots[s].state # "absent"
      <4>1. snapshots[s].chunksTotal = b.total
        BY <2>1, <2>4, <3>3 DEF PollInv, Found
      <4>2. snapshots'[s].state = snapshots[s].state /\ snapshots'[s].chunksTotal = snapshots[s].chunksTotal
        BY <1>1, <3>1, <3>3, <4>1 DEF UpsertSnapshot, Rows
      <4> QED BY <1>3, <4>2
    <3> QED BY <3>2, <3>3
  <2> QED BY <2>3, <2>4
<1>6. CASE pc["status"] = "route" /\ MarkDoneTx(Snap("status"))
  <2>1. Snap("status") \in Snapshots
    BY <1>6, MessageInHand DEF Topics
  <2> QED BY <1>1, <1>3, <1>6, <2>1 DEF MarkDoneTx, Rows
<1>7. ASSUME NEW g \in Topics, pc[g] = "complete",
             Completable(snapshots[Snap(g)], agg[g]), CompleteTx(Snap(g), agg[g])
      PROVE  /\ Found(s)' => chunks'[s] # {} /\ snapshots'[s].chunksTotal = Cardinality(PlanOf(s))
             /\ Ready(s)' => chunks'[s] = PlanOf(s)
  <2>1. Snap(g) \in Snapshots
    BY <1>7, MessageInHand
  <2>2. CASE Snap(g) # s
    BY <1>1, <1>3, <1>7, <2>1, <2>2 DEF CompleteTx
  <2>3. CASE Snap(g) = s
    <3>1. chunks'[s] = PlanOf(s) /\ chunks'[s] = chunks[s]
      BY <1>7, <2>3 DEF CompleteTx, ExactInv, GateExact
    <3>2. Found(s) /\ snapshots'[s].chunksTotal = snapshots[s].chunksTotal
      BY <1>1, <1>7, <2>1, <2>3 DEF CompleteTx, Completable, Found, Rows
    <3> QED BY <3>1, <3>2 DEF PollInv
  <2> QED BY <2>2, <2>3
<1> QED BY <1>4, <1>5, <1>6, <1>7, TablesChange DEF TablesStep

\* With stable plans and chunks of one batch, the progress of every poll adds up: something is
\* done, never more than all, and all when the snapshot is ready (repo.go:236-249).
THEOREM PollsSound ==
  ASSUME StablePlans, OneBatchPerChunk
  PROVE  Spec => []PollsAddUp
<1>1. Init => PollInv
  <2>1. Init => snapshots = [s \in Snapshots |-> NoRow]
    BY DEF Init, LedgerInit
  <2>2. NoRow.state = "absent"
    BY DEF NoRow
  <2> QED BY <2>1, <2>2 DEF PollInv, Found, Ready
<1>2. TypeOK /\ ExactInv /\ ExactInv' /\ PollInv /\ [Next]_vars => PollInv'
  BY PollNext
<1>3. TypeOK /\ ExactInv /\ PollInv => PollsAddUp
  <2> SUFFICES ASSUME TypeOK, ExactInv, PollInv, NEW s \in Snapshots, Found(s)
               PROVE  /\ 0 < Cardinality(chunks[s])
                      /\ Cardinality(chunks[s]) <= snapshots[s].chunksTotal
                      /\ Ready(s) => Cardinality(chunks[s]) = snapshots[s].chunksTotal
    BY DEF PollsAddUp, SnapshotStatusView, Ready
  <2>1. /\ chunks[s] # {} /\ snapshots[s].chunksTotal = Cardinality(PlanOf(s))
        /\ Ready(s) => chunks[s] = PlanOf(s)
    BY DEF PollInv
  <2>2. chunks[s] \subseteq PlanOf(s) /\ IsFiniteSet(PlanOf(s))
    BY ThePlan DEF ExactInv, LedgerExact
  <2>3. /\ IsFiniteSet(chunks[s]) /\ Cardinality(chunks[s]) \in Nat
        /\ Cardinality(chunks[s]) <= Cardinality(PlanOf(s))
    BY <2>2, FS_Subset, FS_CardinalityType
  <2>4. Cardinality(chunks[s]) # 0
    BY <2>1, <2>3, FS_EmptySet
  <2> QED BY <2>1, <2>3, <2>4
<1> QED BY <1>1, <1>2, <1>3, ExactAlways, TypeCorrect, PTL DEF Spec
=============================================================================

------------------------------- MODULE Ledger -------------------------------
(***************************************************************************)
(* The Postgres tables of the aggregator and the effect of each committed  *)
(* statement or transaction of storage.Repo on them.                       *)
(***************************************************************************)
EXTENDS Integers, FiniteSets, FiniteSetsExt, Jobs

VARIABLES snapshots,  \* table snapshots, by id
          chunks,     \* table snapshot_chunks: the ranges ledgered per snapshot
          transfers,  \* table transfers, per token
          balances,   \* table balances: holder -> row, per snapshot
          coverage    \* table token_coverage, per token

tables == <<snapshots, chunks, transfers, balances, coverage>>

\* "absent" stands for a row that was never inserted.
NoRow == [state |-> "absent", chunksTotal |-> 0, doneSeen |-> FALSE, from |-> 0, block |-> 0]
\* An empty interval stands for a coverage row that was never inserted.
NoCoverage == [from |-> 1, to |-> 0]
NoBalances == [a \in {} |-> 0]

LedgerInit ==
  /\ snapshots = [s \in Snapshots |-> NoRow]
  /\ chunks    = [s \in Snapshots |-> {}]
  /\ transfers = [t \in Tokens |-> {}]
  /\ balances  = [s \in Snapshots |-> NoBalances]
  /\ coverage  = [t \in Tokens |-> NoCoverage]

-----------------------------------------------------------------------------
(* Repo.IngestBatch: one transaction, visible when it commits.             *)

\* A mutation of UpsertSnapshot: a batch of a known snapshot reopens it.
UpsertReopens(row, total) ==
  [row EXCEPT !.state = "scanning",
              !.chunksTotal = IF @ >= total THEN @ ELSE total]

\* A mutation of UpsertSnapshot: the row is inserted before its number of chunks is known.
UpsertWithoutTotal(row, total) ==
  IF row.state = "absent" THEN [row EXCEPT !.state = "scanning"]
  ELSE [row EXCEPT !.chunksTotal = IF @ >= total THEN @ ELSE total]

\* INSERT ... ON CONFLICT (id) DO UPDATE SET chunks_total = GREATEST(...)
UpsertSnapshot(row, total) ==
  IF row.state = "absent"
  THEN [row EXCEPT !.state = "scanning", !.chunksTotal = total]
  ELSE [row EXCEPT !.chunksTotal = IF @ >= total THEN @ ELSE total]

\* INSERT ... ON CONFLICT (chain, token, tx_hash, log_index) DO NOTHING
InsertTransfers(table, rows) ==
  table \cup {r \in rows : \A u \in table : u.key # r.key}

\* A mutation of IngestBatchTx: one row of snapshot_chunks per snapshot.
IngestLastChunk(b) ==
  /\ snapshots' = [snapshots EXCEPT ![b.snap] = UpsertSnapshot(@, b.total)]
  /\ transfers' = [transfers EXCEPT ![TokenOf[b.snap]] = InsertTransfers(@, b.rows)]
  /\ chunks' = [chunks EXCEPT ![b.snap] = {b.range}]
  /\ UNCHANGED <<balances, coverage>>

IngestBatchTx(b) ==
  /\ snapshots' = [snapshots EXCEPT ![b.snap] = UpsertSnapshot(@, b.total)]
  /\ transfers' = [transfers EXCEPT ![TokenOf[b.snap]] = InsertTransfers(@, b.rows)]
  /\ chunks' = [chunks EXCEPT ![b.snap] = @ \cup {b.range}]
  /\ UNCHANGED <<balances, coverage>>

-----------------------------------------------------------------------------
(* Repo.MarkDone: UPDATE ... WHERE id = $1, which matches no row when the  *)
(* snapshot was not inserted yet.                                          *)

MarkDoneTx(s) ==
  /\ snapshots' = [snapshots EXCEPT ![s].doneSeen = @ \/ snapshots[s].state # "absent"]
  /\ UNCHANGED <<chunks, transfers, balances, coverage>>

-----------------------------------------------------------------------------
(* Repo.TryComplete.                                                       *)

\* The CTE `agg' over the ranges a snapshot has in snapshot_chunks.
ChunkAgg(ledgered) ==
  [done |-> Cardinality(ledgered),
   from |-> IF ledgered = {} THEN 0 ELSE Min({c.from : c \in ledgered}),
   to   |-> IF ledgered = {} THEN 0 ELSE Max({c.to : c \in ledgered})]

\* Mutations of Completable: one trusts the done signal alone, the other the count.
CompletableWhenDone(row, agg) ==
  row.state = "scanning" /\ row.doneSeen /\ row.chunksTotal > 0

CompletableWhenCounted(row, agg) ==
  row.state = "scanning" /\ row.chunksTotal > 0 /\ agg.done = row.chunksTotal

\* The WHERE clause of the completion gate.
Completable(row, agg) ==
  /\ row.state = "scanning"
  /\ row.doneSeen
  /\ row.chunksTotal > 0
  /\ agg.done = row.chunksTotal

Received(rows, a) == MapThenSumSet(LAMBDA t : t.value, {t \in rows : t.dst = a})
Spent(rows, a)    == MapThenSumSet(LAMBDA t : t.value, {t \in rows : t.src = a})

\* The rows inserted into balances, from the transfers up to toBlock: nonzero sums, the zero address left out.
BalancesOf(rows) ==
  LET held == {a \in Addrs \ {ZeroAddr} : Received(rows, a) # Spent(rows, a)}
  IN  [a \in held |->
         [balance   |-> Received(rows, a) - Spent(rows, a),
          lastBlock |-> Max({t.block : t \in {u \in rows : a \in {u.src, u.dst}}})]]

\* A mutation of HolderBalances: transfers after the snapshot's block count too.
HolderBalancesAtHead(table, toBlock) == BalancesOf(table)

HolderBalances(table, toBlock) == BalancesOf({t \in table : t.block <= toBlock})

\* A mutation of AdvanceCoverage: disjoint intervals are merged too.
AdvanceOverGaps(old, new) ==
  IF old = NoCoverage THEN new
  ELSE [from |-> IF old.from <= new.from THEN old.from ELSE new.from,
        to   |-> IF old.to >= new.to THEN old.to ELSE new.to]

\* The upsert of token_coverage: widened only by a touching interval.
AdvanceCoverage(old, new) ==
  IF old = NoCoverage THEN new
  ELSE IF old.from <= new.to + 1 /\ new.from <= old.to + 1
  THEN [from |-> IF old.from <= new.from THEN old.from ELSE new.from,
        to   |-> IF old.to >= new.to THEN old.to ELSE new.to]
  ELSE old

CompleteTx(s, agg) ==
  LET t == TokenOf[s] IN
  /\ snapshots' = [snapshots EXCEPT ![s].state = "ready",
                                    ![s].from = agg.from, ![s].block = agg.to]
  /\ balances' = [balances EXCEPT ![s] = HolderBalances(transfers[t], agg.to)]
  /\ coverage' = [coverage EXCEPT ![t] =
                    AdvanceCoverage(@, [from |-> agg.from, to |-> agg.to])]
  /\ UNCHANGED <<chunks, transfers>>
=============================================================================

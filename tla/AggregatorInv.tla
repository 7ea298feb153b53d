--------------------------- MODULE AggregatorInv ----------------------------
(***************************************************************************)
(* The inductive invariants behind the safety properties of Aggregator.    *)
(***************************************************************************)
EXTENDS Aggregator

\* The one plan of a job whose runs all resolve to the same blocks.
PlanOf(s) == CHOOSE p \in Plans[s] : TRUE

\* Every batch on the results topic is a whole chunk of its job's plan.
MessagesExact ==
  \A t \in Tokens : \A i \in 1 .. Len(log["results"][t]) :
    LET m == log["results"][t][i] IN
    /\ m.range \in PlanOf(m.snap)
    /\ m.total = Cardinality(PlanOf(m.snap))
    /\ m.rows = ChunkLogs(m.snap, m.range)

\* The ledger holds chunks of the plan, and a ledgered chunk has all its transfers.
LedgerExact ==
  /\ \A s \in Snapshots :
       /\ chunks[s] \subseteq PlanOf(s)
       /\ snapshots[s].chunksTotal \in {0, Cardinality(PlanOf(s))}
       /\ \A c \in chunks[s] : ChunkLogs(s, c) \subseteq transfers[TokenOf[s]]
  /\ \A t \in Tokens : transfers[t] \subseteq Logs[t]

\* A goroutine past the gate read a full ledger, and it is still full.
GateExact ==
  \A g \in Topics : pc[g] = "complete" =>
    /\ chunks[Snap(g)] = PlanOf(Snap(g))
    /\ agg[g] = ChunkAgg(PlanOf(Snap(g)))

\* What makes completed snapshots and the coverage right, when plans are stable and a
\* chunk is one batch: completeness is carried from the topic to the ledger, through
\* the gate read before the row lock, to the balances.
ExactInv ==
  MessagesExact /\ LedgerExact /\ GateExact /\ SnapshotExact /\ CoverageHonest

-----------------------------------------------------------------------------
\* Whatever the plans are, no row on the topic or in the table is of another chain, and
\* before a snapshot is ready it has no balances.
RowsOfChain ==
  \A t \in Tokens :
    /\ \A i \in 1 .. Len(log["results"][t]) : log["results"][t][i].rows \subseteq Logs[t]
    /\ transfers[t] \subseteq Logs[t]

BalancesWhenReady ==
  \A s \in Snapshots : IF Ready(s) THEN BalancesOfChain(s) ELSE balances[s] = NoBalances

\* A goroutine has a chain's name only from its own completion to its commit.
ChainNamed ==
  \A g \in Topics : chain[g] # "" =>
    pc[g] \in {"publish", "commit"} /\ chain[g] = ChainOf[TokenOf[Snap(g)]]

HoldersAsked ==
  \A r \in requests : \E s \in Snapshots :
    r.addr \in DOMAIN balances[s] /\ r.chain \in {"", ChainOf[TokenOf[s]]}

ChainInv == RowsOfChain /\ BalancesWhenReady /\ ChainNamed /\ HoldersAsked

-----------------------------------------------------------------------------
\* The done signal, wherever it is, says that one run put all its batches on the topic.
ScanInv ==
  /\ \A s \in Snapshots : scan[s].phase = "scanning" =>
       \A b \in scan[s].sent : Sent(s, b)
  /\ \A t \in Tokens : \A i \in 1 .. Len(log["status"][t]) :
       log["status"][t][i].state = "done" => FullyScanned(log["status"][t][i].snap)
  /\ \A s \in Snapshots : snapshots[s].doneSeen \/ Ready(s) => FullyScanned(s)
=============================================================================

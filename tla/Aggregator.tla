----------------------------- MODULE Aggregator -----------------------------
(***************************************************************************)
(* The aggregator: one goroutine consumes snapshot.results (HandleBatch),  *)
(* one snapshot.status (HandleStatus); both end in tryComplete, so they    *)
(* race for the completion of a snapshot.  Offsets are those of            *)
(* Consumer.Run: `next' moves at every fetch, `committed' only after a     *)
(* handler returned nil, and a restart resumes from `committed'.           *)
(***************************************************************************)
EXTENDS Ledger, Scans

CONSTANTS ChainOf,    \* chain name of a token
          MaxCrashes  \* bound: restarts of the aggregator

ASSUME AggregatorAssumption ==
  /\ MaxCrashes \in Nat /\ Tokens # {}
  /\ \A t \in Tokens : ChainOf[t] # ""

VARIABLES next,       \* goroutine -> token -> offset of the next fetch
          committed,  \* goroutine -> token -> messages committed
          pc,         \* goroutine -> where its handler is
          at,         \* goroutine -> the message being handled, by token and offset
          agg,        \* goroutine -> the CTE of its completion gate
          chain,      \* goroutine -> chain name returned by Repo.TryComplete
          requests,   \* classify requests published
          crashes     \* restarts so far

consumerVars == <<next, committed, pc, at, agg, chain>>
vars == <<tables, scanVars, consumerVars, requests, crashes>>

NoAgg == [done |-> 0, from |-> 0, to |-> 0]
Idle == [part |-> CHOOSE t \in Tokens : TRUE, off |-> 0]

Init ==
  /\ LedgerInit /\ ScansInit
  /\ next = [g \in Topics |-> [t \in Tokens |-> 1]]
  /\ committed = [g \in Topics |-> [t \in Tokens |-> 0]]
  /\ pc = [g \in Topics |-> "fetch"]
  /\ at = [g \in Topics |-> Idle]
  /\ agg = [g \in Topics |-> NoAgg]
  /\ chain = [g \in Topics |-> ""]
  /\ requests = {}
  /\ crashes = 0

Msg(g) == log[g][at[g].part][at[g].off]
Snap(g) == Msg(g).snap

Goto(g, label) == pc' = [pc EXCEPT ![g] = label]

\* The handler's steps that leave offsets, scans and the other goroutine alone.
HandlerFrame == UNCHANGED <<next, committed, at, log, scan, crashes>>

-----------------------------------------------------------------------------
(* Consumer.Run                                                            *)

\* A mutation of Fetch: the offset is committed as soon as the message is read.
FetchAutoCommits(g, t) ==
  /\ pc[g] = "fetch" /\ next[g][t] <= Len(log[g][t])
  /\ at' = [at EXCEPT ![g] = [part |-> t, off |-> next[g][t]]]
  /\ next' = [next EXCEPT ![g][t] = @ + 1]
  /\ committed' = [committed EXCEPT ![g][t] = next[g][t]]
  /\ Goto(g, IF g = "results" THEN "ingest" ELSE "route")
  /\ UNCHANGED <<tables, scanVars, agg, chain, requests, crashes>>

Fetch(g, t) ==
  /\ pc[g] = "fetch" /\ next[g][t] <= Len(log[g][t])
  /\ at' = [at EXCEPT ![g] = [part |-> t, off |-> next[g][t]]]
  /\ next' = [next EXCEPT ![g][t] = @ + 1]
  /\ Goto(g, IF g = "results" THEN "ingest" ELSE "route")
  /\ UNCHANGED <<tables, scanVars, committed, agg, chain, requests, crashes>>

\* The handler returned nil; a failing commit is only logged.
Commit(g) ==
  /\ pc[g] = "commit"
  /\ \/ /\ committed' = [committed EXCEPT ![g][at[g].part] = at[g].off]
        /\ UNCHANGED faults
     \/ Fault /\ UNCHANGED committed
  /\ Goto(g, "fetch")
  /\ agg' = [agg EXCEPT ![g] = NoAgg] /\ chain' = [chain EXCEPT ![g] = ""]
  /\ UNCHANGED <<tables, log, scan, next, at, requests, crashes>>

\* The handler returned an error at a call that did (applied) or did not change
\* the tables: Run logs it and fetches the next message.
FailAt(g, label, Applied) ==
  /\ pc[g] = label /\ Fault
  /\ Applied \/ UNCHANGED tables
  /\ Goto(g, "fetch")
  /\ agg' = [agg EXCEPT ![g] = NoAgg]
  /\ UNCHANGED <<chain, requests>> /\ HandlerFrame

-----------------------------------------------------------------------------
(* HandleBatch                                                             *)

IngestBatch ==
  /\ pc["results"] = "ingest"
  /\ IngestBatchTx(Msg("results"))
  /\ Goto("results", "gate")
  /\ UNCHANGED <<faults, agg, chain, requests>> /\ HandlerFrame

\* pool.Begin fails: IngestBatch returns nil, and HandleBatch goes on.
IngestBeginFails ==
  /\ pc["results"] = "ingest" /\ Fault
  /\ Goto("results", "gate")
  /\ UNCHANGED <<tables, agg, chain, requests>> /\ HandlerFrame

IngestFails == FailAt("results", "ingest", IngestBatchTx(Msg("results")))

-----------------------------------------------------------------------------
(* HandleStatus                                                            *)

MarkDone ==
  /\ pc["status"] = "route" /\ Msg("status").state = "done"
  /\ MarkDoneTx(Snap("status"))
  /\ Goto("status", "gate")
  /\ UNCHANGED <<faults, agg, chain, requests>> /\ HandlerFrame

MarkDoneFails ==
  /\ pc["status"] = "route" /\ Msg("status").state = "done"
  /\ FailAt("status", "route", MarkDoneTx(Snap("status")))

\* "error" is logged, "started" and "progress" are ignored: no state changes.
SkipStatus ==
  /\ pc["status"] = "route" /\ Msg("status").state # "done"
  /\ Goto("status", "commit")
  /\ UNCHANGED <<tables, faults, agg, chain, requests>> /\ HandlerFrame

-----------------------------------------------------------------------------
(* tryComplete.  The gate is one UPDATE under READ COMMITTED: the CTE and  *)
(* the WHERE clause are evaluated on the statement's snapshot; once the    *)
(* row lock is held, WHERE is evaluated again on the current row, with the *)
(* CTE of the snapshot.  The balances and the coverage follow in the same  *)
(* transaction, holding that lock.                                         *)

OpenGate(g) ==
  /\ pc[g] = "gate" /\ Completable(snapshots[Snap(g)], ChunkAgg(chunks[Snap(g)]))
  /\ agg' = [agg EXCEPT ![g] = ChunkAgg(chunks[Snap(g)])]
  /\ Goto(g, "complete")
  /\ UNCHANGED <<tables, faults, chain, requests>> /\ HandlerFrame

\* No row matches: TryComplete returns (false, "", nil).
CloseGate(g) ==
  /\ \/ pc[g] = "gate" /\ ~Completable(snapshots[Snap(g)], ChunkAgg(chunks[Snap(g)]))
     \/ pc[g] = "complete" /\ ~Completable(snapshots[Snap(g)], agg[g])
  /\ Goto(g, "publish")
  /\ UNCHANGED <<tables, faults, agg, chain, requests>> /\ HandlerFrame

\* A mutation of Complete: the chain's name is returned only for the status topic's gate.
CompleteUnnamed(g) ==
  /\ pc[g] = "complete" /\ Completable(snapshots[Snap(g)], agg[g])
  /\ CompleteTx(Snap(g), agg[g])
  /\ chain' = [chain EXCEPT !["status"] = IF g = "status" THEN ChainOf[TokenOf[Snap(g)]] ELSE @]
  /\ Goto(g, "publish")
  /\ UNCHANGED <<faults, agg, requests>> /\ HandlerFrame

Complete(g) ==
  /\ pc[g] = "complete" /\ Completable(snapshots[Snap(g)], agg[g])
  /\ CompleteTx(Snap(g), agg[g])
  /\ chain' = [chain EXCEPT ![g] = ChainOf[TokenOf[Snap(g)]]]
  /\ Goto(g, "publish")
  /\ UNCHANGED <<faults, agg, requests>> /\ HandlerFrame

GateFails(g) == FailAt(g, "gate", FALSE)

CompleteFails(g) ==
  FailAt(g, "complete",
         Completable(snapshots[Snap(g)], agg[g]) /\ CompleteTx(Snap(g), agg[g]))

\* HolderAddresses, then one classify request per holder.  A failing read or
\* publish is only logged, so a fault leaves some requests out.
PublishRequests(g) ==
  /\ pc[g] = "publish"
  /\ \E sent \in SUBSET DOMAIN balances[Snap(g)] :
       /\ \/ sent = DOMAIN balances[Snap(g)] /\ UNCHANGED faults
          \/ sent # DOMAIN balances[Snap(g)] /\ Fault
       /\ requests' = requests \cup {[chain |-> chain[g], addr |-> a] : a \in sent}
  /\ Goto(g, "commit")
  /\ UNCHANGED <<tables, agg, chain>> /\ HandlerFrame

-----------------------------------------------------------------------------
\* A mutation of Crash: the reader resumes at the committed message, not after it.
CrashResumesAtCommitted ==
  /\ crashes < MaxCrashes
  /\ crashes' = crashes + 1
  /\ next' = committed
  /\ pc' = [g \in Topics |-> "fetch"]
  /\ agg' = [g \in Topics |-> NoAgg]
  /\ chain' = [g \in Topics |-> ""]
  /\ UNCHANGED <<tables, scanVars, committed, at, requests>>

\* The process stops anywhere: an open transaction is rolled back, the
\* messages fetched and not committed are delivered again.
Crash ==
  /\ crashes < MaxCrashes
  /\ crashes' = crashes + 1
  /\ next' = [g \in Topics |-> [t \in Tokens |-> committed[g][t] + 1]]
  /\ pc' = [g \in Topics |-> "fetch"]
  /\ agg' = [g \in Topics |-> NoAgg]
  /\ chain' = [g \in Topics |-> ""]
  /\ UNCHANGED <<tables, scanVars, committed, at, requests>>

Goroutine(g) ==
  \/ \E t \in Tokens : Fetch(g, t)
  \/ OpenGate(g) \/ CloseGate(g) \/ Complete(g)
  \/ GateFails(g) \/ CompleteFails(g)
  \/ PublishRequests(g) \/ Commit(g)

ResultsHandler == IngestBatch \/ IngestBeginFails \/ IngestFails
StatusHandler == MarkDone \/ MarkDoneFails \/ SkipStatus

Environment ==
  /\ \E s \in Snapshots : ScanStep(s)
  /\ UNCHANGED <<tables, consumerVars, requests, crashes>>

Next ==
  \/ Environment
  \/ \E g \in Topics : Goroutine(g)
  \/ ResultsHandler
  \/ StatusHandler
  \/ Crash

Spec == Init /\ [][Next]_vars

\* Both goroutines keep running.  The reader queues the messages of all its
\* partitions on one channel, so a partition with messages is fetched in the end.
Fairness ==
  /\ \A g \in Topics : \A t \in Tokens : SF_vars(Fetch(g, t))
  /\ \A g \in Topics : WF_vars(Goroutine(g))
  /\ WF_vars(ResultsHandler) /\ WF_vars(StatusHandler)

FairSpec == Spec /\ Fairness

-----------------------------------------------------------------------------
(* Assumptions under which the code keeps its strongest promises.          *)

\* Every run of a job resolves to the same blocks (to_block was given, and the
\* deploy block is found each time), and its chunks tile one interval.
StablePlans ==
  \A s \in Snapshots : \E p \in Plans[s] :
    /\ Plans[s] = {p}
    /\ \A c, d \in p : \A n \in c.from .. d.to : \E e \in p : n \in Blocks(e)

\* No chunk holds more Transfer logs than one batch carries.
OneBatchPerChunk ==
  \A s \in Snapshots : \A p \in Plans[s] : \A c \in p :
    Cardinality(ChunkLogs(s, c)) <= MaxTransferPerBatch

-----------------------------------------------------------------------------
(* Properties                                                              *)

Rows == [state : {"absent", "scanning", "ready"}, chunksTotal : Nat,
         doneSeen : BOOLEAN, from : Nat, block : Nat]

BatchMessages == [snap : Snapshots, range : BlockRange, total : Nat, rows : SUBSET Transfer]
StatusMessages == [snap : Snapshots, state : {"started", "done", "error"}]

ScanRuns == [phase : {"queued", "scanning", "finished", "failed"}, plan : SUBSET BlockRange,
             sent : SUBSET (BlockRange \X Nat), runs : Nat]

TablesOK ==
  /\ snapshots \in [Snapshots -> Rows]
  /\ chunks \in [Snapshots -> SUBSET BlockRange]
  /\ \A s \in Snapshots : IsFiniteSet(chunks[s])
  /\ transfers \in [Tokens -> SUBSET Transfer]
  /\ balances = [s \in Snapshots |-> balances[s]]
  /\ coverage \in [Tokens -> BlockRange]

MessagesOf(q) == IF q = "results" THEN BatchMessages ELSE StatusMessages

LogOK ==
  /\ log \in [Topics -> [Tokens -> Seq(BatchMessages \cup StatusMessages)]]
  /\ \A q \in Topics : \A t \in Tokens : \A i \in 1 .. Len(log[q][t]) :
       log[q][t][i] \in MessagesOf(q) /\ TokenOf[log[q][t][i].snap] = t

ScansOK ==
  /\ LogOK
  /\ scan \in [Snapshots -> ScanRuns]
  /\ \A s \in Snapshots : scan[s].phase = "scanning" => scan[s].plan \in Plans[s]
  /\ faults \in Nat

Labels == {"fetch", "ingest", "route", "gate", "complete", "publish", "commit"}

ConsumersOK ==
  /\ committed \in [Topics -> [Tokens -> Nat]] /\ next \in [Topics -> [Tokens -> Nat]]
  /\ \A g \in Topics : \A t \in Tokens :
       next[g][t] \in committed[g][t] + 1 .. Len(log[g][t]) + 1
  /\ pc \in [Topics -> Labels]
  /\ pc["results"] # "route" /\ pc["status"] # "ingest"
  /\ at \in [Topics -> [part : Tokens, off : Nat]]
  /\ \A g \in Topics : pc[g] # "fetch" =>
       at[g].off \in committed[g][at[g].part] + 1 .. next[g][at[g].part] - 1
  /\ agg \in [Topics -> [done : Nat, from : Nat, to : Nat]]
  /\ chain = [g \in Topics |-> chain[g]]

\* Every variable has its type: tables, messages and goroutines are well formed, and
\* no offset is ahead of the log or, for the message in hand, of the reader.
TypeOK == TablesOK /\ ScansOK /\ ConsumersOK

Ready(s) == snapshots[s].state = "ready"

\* Batch b of a plan of job s is on the results topic.
Sent(s, b) ==
  \E i \in 1 .. Len(log["results"][TokenOf[s]]) :
    LET m == log["results"][TokenOf[s]][i] IN
    m.snap = s /\ m.range = b[1] /\ m.rows = Batch(ChunkLogs(s, b[1]), b[2])

FullyScanned(s) == \E p \in Plans[s] : \A b \in BatchesOf(s, p) : Sent(s, b)

\* The interval published with a snapshot is that of a whole plan of its job.
WholePlan(s) ==
  \E p \in Plans[s] : /\ snapshots[s].from = ChunkAgg(p).from
                      /\ snapshots[s].block = ChunkAgg(p).to

\* A scan that starts no later than the first transfer knows every balance.
BalancesKnown(s) ==
  (\A l \in Logs[TokenOf[s]] : l.block >= snapshots[s].from) =>
    balances[s] = HolderBalances(Logs[TokenOf[s]], snapshots[s].block)

\* A ready snapshot is of the whole interval its job was planned for, and its balances
\* are the holder balances on chain at its block (aggregator.go:87, "snapshot complete:
\* balances recomputed").
SnapshotExact == \A s \in Snapshots : Ready(s) => WholePlan(s) /\ BalancesKnown(s)

\* A block inside token_coverage needs no rescan: every Transfer log it has on
\* chain is in the transfers table (000001_init.up.sql:60-62).
CoverageHonest ==
  \A t \in Tokens : \A l \in Logs[t] :
    l.block \in Blocks(coverage[t]) => l \in transfers[t]

\* Some of the chain's own transfers up to the snapshot's block add up to its balances.
BalancesOfChain(s) ==
  \E rows \in SUBSET {l \in Logs[TokenOf[s]] : l.block <= snapshots[s].block} :
    balances[s] = BalancesOf(rows)

\* Whatever blocks were scanned and whatever other jobs stored, before or since, a ready
\* snapshot has sums of the chain's own transfers up to its block; and only holders of ready
\* snapshots are asked for, under the name of their chain or, by a goroutine that did not
\* complete the snapshot itself, under none (repo.go:128-139, aggregator.go:81-104).
PublishedFromChain ==
  /\ \A s \in Snapshots : Ready(s) => BalancesOfChain(s)
  /\ \A r \in requests : \E s \in Snapshots :
       Ready(s) /\ r.addr \in DOMAIN balances[s] /\ r.chain \in {"", ChainOf[TokenOf[s]]}

\* A snapshot becomes ready only after one run of its job has put every batch of
\* its plan on the results topic: what done_seen is for, whatever the two topics'
\* relative delay and however often either service restarted.
ReadyAfterFullScan == \A s \in Snapshots : Ready(s) => FullyScanned(s)

\* What is published about a ready snapshot never changes: redelivered batches,
\* a second "done", a rescan or the other goroutine's gate leave its state, its
\* block interval and its balances alone.
ReadyIsFinal ==
  [][\A s \in Snapshots : Ready(s) =>
       /\ balances'[s] = balances[s]
       /\ \A f \in {"state", "from", "block"} : snapshots'[s][f] = snapshots[s][f]]_vars

\* Once the done signal is on the row, the snapshot completes: neither a restart of
\* the aggregator between two steps nor the race of the two gates loses it.
DoneLeadsToReady ==
  \A s \in Snapshots : snapshots[s].doneSeen ~> Ready(s)

\* Every holder of a snapshot was asked for under the name of its chain.
HoldersRequested(s) ==
  \A a \in DOMAIN balances[s] : [chain |-> ChainOf[TokenOf[s]], addr |-> a] \in requests

\* The holders of a ready snapshot get classified: whichever goroutine completes it and
\* whatever the other publishes meanwhile, they are all requested, unless the process stops
\* before it is through, for then the chain's name is gone (aggregator.go:81-104).
ReadyLeadsToRequests ==
  \A s \in Snapshots : Ready(s) ~> (HoldersRequested(s) \/ crashes > 0)

-----------------------------------------------------------------------------
(* Each goroutine is a Consumer whose partitions are the tokens.           *)

Stage(g) ==
  CASE pc[g] = "fetch" -> "idle" [] pc[g] = "commit" -> "committing" [] OTHER -> "handling"

ResultsConsumer == INSTANCE Consumer WITH
  Partitions <- Tokens, produced <- [t \in Tokens |-> Len(log["results"][t])],
  next <- next["results"], committed <- committed["results"],
  stage <- Stage("results"), at <- at["results"]

StatusConsumer == INSTANCE Consumer WITH
  Partitions <- Tokens, produced <- [t \in Tokens |-> Len(log["status"][t])],
  next <- next["status"], committed <- committed["status"],
  stage <- Stage("status"), at <- at["status"]

\* The handlers of both topics run inside Consumer.Run: with every gate, fault and
\* restart they still fetch, commit and resume as Consumer does, so what Delivery
\* shows of a reader holds of the aggregator's two.
ImplementsConsumers == ResultsConsumer!Spec /\ StatusConsumer!Spec

=============================================================================

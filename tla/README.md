# Verification of erc20-analyzer

TLA+ models of the services that take a snapshot of an ERC-20 token's holders, TLC runs that check them on
small instances, and TLAPS proofs of what matters most for every instance. Source paths are relative to `src/`.

## 1. The system

A client asks the **API gateway** for a snapshot of a token. The request becomes a job on a Kafka topic, and three
services work it off; they share no memory, only topics and the Postgres database.

```
gateway --snapshot.jobs--> snapshot-service --snapshot.results--> aggregator --classify.requests--> classification
                                            --snapshot.status --->     |     <--classify.results ---     service
                                                                   Postgres <--- analytics-service <-gRPC- gateway
```

| Component | State | Operations | Hard behaviour |
|---|---|---|---|
| API gateway (`internal/gateway`) | none | `createSnapshot` publishes a job, `getSnapshot` polls, `getDistribution` asks analytics when the snapshot is ready | the row it polls is created by another service, with the first batch |
| Scanner (`internal/snapshot`) | one run of a job: chunk workers, semaphore, progress counters | `Run`, `buildChunks`, `fetchChunkAdaptive` | worker interleavings, failures and cancellation, splits and retries, rerun after a crash with another head |
| Chain client (`internal/chain`) | connection, rate limiter | `FetchTransferLogs`, `FindDeployBlock`, `Do`, `AddressKind` | retries, pruned nodes, ranges an endpoint refuses |
| Messaging (`internal/messaging`) | reader position, committed offset | `Consumer.Run`, `PublishJSON` | redelivery, failing handlers and commits, rebalances |
| Aggregator (`internal/aggregator`) | none of its own | `HandleBatch`, `HandleStatus`, `tryComplete`, `HandleClassifyResult`, in three goroutines | two goroutines race for a completion; a crash between two transactions |
| Repository (`internal/storage`, `migrations`) | tables `snapshots`, `snapshot_chunks`, `transfers`, `balances`, `token_coverage`, `address_classification` | `IngestBatch`, `MarkDone`, `TryComplete`, queries | READ COMMITTED re-evaluation, transfers and coverage shared by all snapshots of a token |
| Classification (`internal/classify`) | Redis cache | `Handle`, `Classify` | dropped errors, stale entries |
| Analytics (`internal/analytics`) | none | `GetDistribution`, `Compute` | reads outside a transaction; boundaries of the metrics |

What makes each correct, in a sentence:

- *Consumer*: no message is skipped unseen; each reaches its handler; the group's offset never moves back.
- *Scanner*: "done" only after every batch of the plan is on the topic; each chunk whole, once, in order; every run ends.
- *Chain client*: the deploy block is the first block with code; a call answers for the block asked or fails.
- *Repository and aggregator*: a snapshot is ready only after a full scan, its balances are those of the chain at its
  block, it never changes afterwards, and coverage never claims an unscanned block.
- *Analytics*: each metric is the one its name promises, of one whole ready snapshot.
- *Gateway*: what a poller was told is never taken back, and the progress shown adds up.
- *Classification*: every address asked for gets a row unless a call of its own failed; a kind is one the address had on
  that very chain, less than the cache's time to live ago; the table ends with the last result.

`PROJECT.json` lists the hazards at their lines under `hazards`, and the components, modelled or not, under `components`.

## 2. Modules

| Module | Models | State and actions |
|---|---|---|
| `Chunks` | `buildChunks` (uint64, wrapping at `Word`), the endpoint's cap, batching | operators |
| `Jobs` | constants shared by all: jobs, tokens, the chain's Transfer logs, possible plans of a job | operators |
| `Planning` | `Run` up to its dispatch loop: the search of `DeployBlock`, the interval resolved from it, the plan by `Chunks` | `FindDeployBlock`, `Plan` |
| `LogFetch` | `fetchChunkAdaptive` and `FetchTransferLogs` | the stack of ranges, the range in hand, the attempt, the logs kept; one action per way a call ends |
| `DeployBlock` | `FindDeployBlock`, `HasCodeAt`, `Do` | the search interval, the call in hand, its attempts; any history of code |
| `ScanRun` | `Scanner.Run` inside one process | the dispatch loop (`Dispatch` takes a slot), a state per goroutine, `gctx`, counters under `mu`, `g.Wait` |
| `Scans` | what `Run` promises the topics: the **abstract specification** of `ScanRun` | messages of a run; runs, lost statuses, restarts |
| `Ledger` | the tables and each committed statement of `storage.Repo` | operators and transaction actions |
| `Aggregator` | both goroutines over `Ledger` and the topics `Scans` fills | `pc`, message in hand and gate result per goroutine; one action per step at which another process can interfere |
| `AggregatorInv` | the inductive invariants | |
| `Consumer` | `Consumer.Run` of one group member: the **abstract specification** of the aggregator's goroutines | `Fetch`, `HandlerReturnsNil`, `HandlerFails`, `Commit`, `CommitFails`, `Restart` |
| `Delivery` | `Consumer` with the history of handler calls, bounded | |
| `Classification` | `Runner.Handle` and `Classifier.Classify` inside `Delivery`'s reader of `classify.requests`; `HandleClassifyResult` under a second `Consumer` | the call `Handle` is at (`step`), the kind in hand, Redis with expiry in days, the chains' code, both topics, the table; one action per call and way it ends |
| `Metrics` | `analytics.Compute` with exact fractions: the sort is any order that never falls, a loop a recursive function | operators and what each should be |
| `Distribution` | `SnapshotHolders`, `SnapshotMeta`, the service's `GetDistribution` and the gateway's `getDistribution` | the tables, the request's place (`pc`), the rows read; one action per statement |
| `Polling` | `SnapshotStatus` and the gateway's replies as functions of the aggregator's tables | operators over `Aggregator`'s state |
| `ChunkLemmas` | facts about `Chunks` that several proofs need: what `buildChunks` returns, what batches hold | |
| `PlanningProofs`, `ScanRunProofs`, `LogFetchProofs`, `AggregatorProofs`, `DeliveryProofs`, `ClassificationProofs`, `DistributionProofs` | proofs about the module they are named for; those of `DeployBlock` are in `PlanningProofs`, of `Polling` in `AggregatorProofs`, of `Consumer` in `DeliveryProofs`, of `Metrics` in `DistributionProofs` | |
| `MC...` | instances for TLC | |

Composition: `Aggregator` extends `Ledger` and `Scans`, so it runs against every stream of messages `Scans` allows.
`ScanRun!ImplementsScans` and `Aggregator!ImplementsConsumers` are refinements (`INSTANCE ... WITH`), checked by TLC and proved:
what is shown with `Scans` holds with the scanner as coded, and what `Delivery` shows of a reader holds of the
aggregator's two. `ScanRun` sees a chunk's fetch as one step that succeeds or fails and the deploy block as one answer;
`LogFetch` and `DeployBlock` justify the two. `Classification` composes both sides of the classification topics: it extends
`Delivery` for the service's reader and instantiates `Consumer` again for the aggregator's; the requests the aggregator
publishes are chosen freely, its own publishing being `Aggregator!PublishRequests`. `Distribution` keeps of the ledger
what its queries see: the state of one row, its balances, the classifications. `Polling` adds the reads to `Aggregator`
itself, because a poll is one statement and needs no step of its own.

Operators whose comment calls them a *mutation* are deliberate mistakes, at least one for each property of a passing run
(`mutants` in `PROJECT.json`): substituted for the definition they follow, they make TLC refute that property.

### How steps were cut

- `TryComplete` is one transaction of three statements. The gate's UPDATE is two actions: `OpenGate` evaluates it on the
  statement's snapshot; `Complete` gets the row lock, re-evaluates the WHERE clause on the current row with the count of
  the snapshot (READ COMMITTED), and does the rest. Balances and coverage run under the row lock but read tables another
  job may change; an instant between lock and commit is equivalent for this snapshot's row, and transfers that commit
  meanwhile for *other* jobs add logs of the same chain, at most completing what is there.
- A handler's failure at a call may come after the call took effect (a lost commit acknowledgement): `FailAt` has both.
- The messages of a token stay in one partition (the token is the key). A partition here is a token; tokens that share
  one are independent otherwise.
- Order across topics carries no meaning, so a batch that the Kafka writer still delivers after its call was cancelled
  is published at the call (`ScanRun!EmitFails`).
- `GetDistribution`'s two reads are two actions, as no transaction spans them; each is one statement and sees one state.
- `Handle` is cut at every call: Redis `Get`, the chain's two calls (head and code at the head, one step since the code is
  that of the head read), `Set`, the publish. A failing `Get` is indistinguishable from a miss, so `CacheMisses` may be
  taken with the entry there. A failing `Set` or publish may have taken effect.
- Redis expiry and code changes happen at any time, with one restriction: no day passes while a message is in hand
  (`NextDay`), for calls end after a bounded number of attempts. Without it `StaleWithinTTL` would be a matter of how long a
  call may hang.
- "progress" statuses have no reader and appear in `ScanRun` only.
- `RestartScan` and `Crash` stand for every reason a process stops: crash, deployment, SIGTERM.

## 3. Runs

All set `CHECK_DEADLOCK FALSE`: bounded numbers of runs, messages and restarts leave the system nothing to do in the end,
as a job finished leaves it nothing to do. Run one with `tlc -config agg_core.cfg MCAggregator`.

| Run | Properties | Shows, and why the bound is enough |
|---|---|---|
| `agg_core` | `TypeOK` `ExactInv` `PollsAddUp` `ReadyIsFinal` `PollsNeverGoBack` `ImplementsConsumers` | one job of two chunks on one token, run twice, one fault, one restart: every order of two batches, two dones, redelivery and both gates. The chain mints, moves and empties balances; pollers may ask in every state. |
| `agg_split` | `ReadyAfterFullScan` `ScanInv` `PublishedFromChain` | the case where `SnapshotExact` fails: batches of one log, so one chunk has two, and a head that moves by a block with a transfer, so the runs have two plans; a restart at any step. The done signal still does its part, and what is published still comes from the chain: a gate may have read its bounds when the other run's later transfer is stored |
| `agg_shared` | `SnapshotExact` `CoverageHonest` `DoneLeadsToReady` `ReadyLeadsToRequests` | two jobs on one token whose intervals touch or leave a gap, the only two ways intervals can be merged wrongly; a restart at any step; no failing call, without which nothing can be promised to happen |
| `run_workers` | `ProgressHonest` `ImplementsScans` `RunEnds` | three chunks on two slots, so that the loop has to wait; one chunk of two batches; every call may fail; a deploy block found above `to_block` |
| `run_restart` | `RunTypeOK` `ImplementsScans` | both block bounds open: the head moves from 3 to 4 and the deploy block is found or not, so all four plans follow one another |
| `fetch_chunk` | `FetchTypeOK` `FetchInv` `ChunkFetchedWhole` `FetchReturns` | seven blocks split down to one, three retries, reorged and unindexed logs among the logs |
| `plan_deploy` | `DeployTypeOK` `FoundIsDeployment` `FoundIsFirst` `SearchEnds` `PlanTiles` `PlanCoversHistory` `BatchesPartition` | every history on chains of 1 to 9 blocks: all ends of the binary search, even and odd lengths; then `to_block` below, at and above the block found, sizes 1, 2, 3 and 8 with and without a cap; below the wrap of uint64 |
| `dist_answers` | `MetricsMeetDefinitions` `AnswerWhole` `FilteredLeavesOutPrograms` | up to three balances that reach every bucket's exact threshold, equal balances, exact halves, and a negative one; two classifications stored at any point, of one holder on two chains or of two; both callers |
| `classify` | `ClassifyTypeOK` `NothingSkippedUnseen` `KindsWereTrue` `StaleWithinTTL` `TableSettles` `CommittedMonotone` `EveryMessageDelivered` `AskedLeadsToRow` | one address asked for twice under two chain names, one of them unknown to the registry; its code changes once, entries live two of two days; one failing call and one restart of either process, so that a result can be delivered again after a newer one |

Runs that find a disagreement between the code and what the repository says of it (each has a finding):

| Run | Property | What happens |
|---|---|---|
| `consumer_reprocess` | `FailedMessagesReprocessed` | "handler failed; will reprocess": the next message's commit passes it instead |
| `agg_split_lost` | `SnapshotExact` | the first batch ledgers its chunk; the snapshot completes without the others |
| `agg_drift` | `CoverageHonest` | reruns with another head mix two plans in the ledger |

`agg_split_lost` and `agg_drift` check properties that `agg_core` and `agg_shared` show to hold under two named
assumptions: `OneBatchPerChunk` and `StablePlans`. They mark how far the code's promise goes.

One finding comes from a run that passes. A comment says of the Gini coefficient "1 = one holder owns everything"
(`metrics.go:62`), but the formula under it gives at most 1 - 1/n for n holders: 0 for a sole holder, and 1 for no list. `IsGini`
states that bound, `dist_answers` checks it with every list of one to three holders, and `MetricsTrue` proves it for all.

The actions show more that the code lets happen and no property forbids: a "done" consumed before the job's first batch
marks no row and is committed, so the snapshot stays in state scanning (`MarkDone`); a transaction that cannot begin counts
as an ingested batch (`IngestBeginFails`); after a restart between completion and publishing, the redelivered message
requests its holders without a chain (`Crash`, then `PublishRequests`); an error report changes no row, and the schema's
state `error` is never written (`SkipStatus`). `SnapshotHolders` joins
classifications by address alone: a holder classified on two chains is counted twice, and left out of the filtered metrics for
what it is elsewhere, so the properties on counts are conditional on `OneChainEach`. A client that calls the analytics
service without the gateway's check can get an empty answer for a snapshot that completes between the two reads
(`AnswerWhole` names the case). With the chunks of two plans in the ledger, as in `agg_drift`, a poller sees more chunks done
than there are. A failed lookup is committed like a success (`LookUpFails`), and a request without a chain never gets
a row (`UnknownChain`). An accepted job that `Scanner.Run` rejects, or whose batches never come, is not found for ever.

## 4. Bounds

`MaxRuns` (runs of a job), `MaxFaults` (failing calls, over all services), `MaxCrashes` (restarts of the aggregator),
`MaxMessages`, `MaxFailures`, `MaxRestarts` (in `Delivery` and `Classification`), `MaxDays`, `MaxChanges` (in
`Classification`), `Heads` (in `DeployBlock`), `Sizes`, `ToBlocks` (in `Planning`), `Values`, `MaxHolders`, `MaxUpserts` (in
`Distribution`). One fault at a time is what the handlers are written for, and faults leave no state but the tables and
offsets the next fault meets. `Word` (2^64), `MaxTransferPerBatch` (500), `MaxAttempts` (5), `Workers` (8), `TTL`
(30 days) and the chunk sizes are scaled down; the proofs do not depend on their values.

## 5. Fairness

- `Aggregator!Fairness`: handlers and commits return (database and broker calls have deadlines or end with the process),
  so goroutines are weakly fair. `Fetch` of a partition is strongly fair: the reader queues the messages of all its
  partitions on one channel, so a partition with messages is fetched in the end although others are, too. `agg_shared` has
  no failing calls (`MaxFaults = 0`): a failed handler is not called again (`consumer_reprocess`), so nothing could be promised.
- `Delivery!DFairSpec`: the same for one reader; failures and restarts are not fair, only possible.
- `Classification!ClassifyFairSpec`: both readers fetch of every partition as above, the service's calls and the aggregator's
  return. Changes of code, days, failures and restarts are only possible. `AskedLeadsToRow` excuses a request once a
  lookup, publish or upsert of *its own* failed (`lost`), since nothing retries those.
- `ScanRun!FairSpec`: each goroutine and the loop take their steps; `LogFetch` and `Planning`: calls and timers return.

## 6. Proofs

| Theorem | States | Argument |
|---|---|---|
| `TypeCorrect` | `Spec => []TypeOK` | `TypeOK` is inductive: messages in hand are in the log (`MessageInHand`), topics only grow (`LogNext`), `committed < at.off < next` |
| `ReadyFinal` | `Spec => ReadyIsFinal` | only `CompleteTx` writes these columns, and both its uses hold the re-evaluated `state = 'scanning'` |
| `FullScan` | `Spec => []ReadyAfterFullScan` | `ScanInv`: sent batches are on the topic, so a published done says that a plan is on the topic, so does `done_seen`, so does ready. Needs no assumption on plans or batches |
| `PublishedSound` | `Spec => []PublishedFromChain` | `ChainInv`: rows on the topic and in the table are the chain's (`RowsOfChain`), balances are empty until ready (`BalancesWhenReady`), a goroutine has a name only from its own completion on (`ChainNamed`), so requests are for holders of ready snapshots. Needs no assumption on plans or batches |
| `BalancesExact`, `CoverageSound` | `Spec => []SnapshotExact`, `[]CoverageHonest` | under `StablePlans` and `OneBatchPerChunk`: `ExactInv` carries completeness from the topic (`MessagesExact`) to the ledger (`LedgerExact`), through the gate read before the lock (`GateExact`), to balances and coverage |
| `AggregatorConsumes` | `Spec => ImplementsConsumers` | `ReaderSteps`: every step is, for each topic, one of `Consumer`'s or a stutter (`ReaderStep`); a handler never moves an offset (`HandlerMoves`), a publication lengthens one partition by one (`PublishedLengths`) |
| `AggregatorCommitsForward` | the group's offsets never move back, nor past the message in hand | from `ReaderSteps` and `TypeOK` |
| `PlansAreIntervals` | `PlansAssumption` and the second half of `StablePlans` hold of what `buildChunks` returns | `ChunksTile`; it discharges what the aggregator's theorems take for granted |
| `PlansTile`, `HistoryCovered` | `PlanSpec => []PlanTiles`, `[]PlanCoversHistory` | `ChunksTile` over the closed form of `buildChunks` (`BuildChunks`); with `FoundFirst` the interval starts at or before the first block with code |
| `ChunksBatched` | `PlanSpec => []BatchesPartition` | `BatchesOfLogs`: the logs of a finite set have ranks 1 to n (`Ranks`), and batch k is ranks (k-1)M+1 to kM |
| `RunTypes`, `ProgressIsHonest` | `Spec => []RunTypeOK`, `[]ProgressHonest` | `RunInv`: a goroutine past emitting has its chunk on the topic in full, and `blocksDone` is the number of blocks of the chunks counted, which are apart (`TilesApart`) |
| `RunImplementsScans` | `Spec => ImplementsScans` | `NextMaps`: each action of a run is a step of `Scans` or a stutter, from `RunInv`; `g.Wait` having returned says that all batches of the plan were sent |
| `AnswersAreWhole`, `FilterLeavesOutPrograms` | `Spec => []AnswerWhole`, `[]FilteredLeavesOutPrograms` | `DistributionInv`: the rows read are those of the whole snapshot or none (`ReadWhole`), the classifications then read are still of the same chains (`OnlyMore`); rows and holders are in bijection (`OneRowEach`) |
| `MetricsTrue` | `Spec => []MetricsMeetDefinitions` | an answer is `Compute` of the rows read (`AnswerComputed`), which are finitely many with positive balances (`RowsHold`); of such a list each metric is what it is defined to be (`ComputeTrue`), see below |
| `FetchTiles`, `FetchedWhole` | `Spec => []FetchInv`, `[]ChunkFetchedWhole` | pending ranges tile from a frontier to the chunk's end; logs kept are those before the frontier |
| `Found`, `FoundFirst` | `Spec => []FoundIsDeployment`, `[]FoundIsFirst` | the interval straddles: no code at `lo`, code at `hi` |
| `ScanAlways`, `ExactAlways`, `ChainAlways`, `FetchTypes`, `SearchTypes` | the inductive invariants above themselves | |
| `PollsForward` | `Spec => PollsNeverGoBack` | no transaction deletes a row or shrinks a total (`RowsAdvance`), the ledger grows (`TablesGrow`) |
| `PollsSound` | `Spec => []PollsAddUp` | under `StablePlans` and `OneBatchPerChunk`: `PollInv` over `ExactInv`: a row has a chunk and the plan's total from its first batch on, and the whole plan when it turns ready |
| `NothingSkipped`, `CommitsForward` | `DSpec => []NothingSkippedUnseen`, `CommittedMonotone` | `ReaderOK`: the group is behind the reader, the message in hand is the reader's last; `PastIsSeen`: the reader is past nothing unseen |
| `RequestsSeen`, `RequestsCommitted` | the same of `ClassifySpec` | each step of the service is a reader's step (`ServiceDelivers`), so `DeliveryKeeps` carries over |
| `ClassifyTypes` | `ClassifySpec => []ClassifyTypeOK` | `ReaderOK` for both readers, of the second by instantiating `DeliveryProofs` |
| `BothConsume` | `ClassifySpec => Spec /\ Results!Spec`, both readers of classification are consumers | `ServiceDelivers` and `StepIsNext` for the requests, `ReaderStep` for the results, whose partitions grow by the service's publishes |
| `KindsTrue`, `StaleBounded` | `ClassifySpec => []KindsWereTrue`, `[]StaleWithinTTL` | `CacheOK`: an entry ends within TTL of now, and one no longer true within TTL of the change; `HandOK`: a kind just looked up can only have become untrue today |
| `Settled` | `ClassifySpec => []TableSettles` | `SettledSoFar`: the last result of an address that the reader is past, and not at, is in the table; a restart takes the reader back, never beyond what it committed |

`SnapshotExact` says that a ready snapshot is of the whole interval of a plan, and that its balances are the chain's.
It is not inductive: nothing in it says that a full *count* is a full *ledger*. Equality of cardinalities
gives equality of sets only because the ledger is within the one plan of the job (`StablePlans`), and a ledgered chunk has
all its transfers only because its batch is all of it (`OneBatchPerChunk`); `agg_drift` and `agg_split_lost` refute it
without the one or the other. `TableSettles` says nothing until the reader is at the end, so it is not inductive either: `SettledSoFar` follows the reader.
It rests on the results of an address being in one partition (the address is the key) and on a commit never passing the
message in hand. `StaleWithinTTL` needs that a hit does not renew an entry, and a time to live of at least a day.
`PublishedFromChain` is what remains when the two assumptions do not hold: balances may then miss transfers, but never
count one that is not on the chain, twice, or after the snapshot's block, and nobody is asked for who has no balance in a ready
snapshot. Its second half is not inductive: a request outlives the balances it was made from only because these
are written once, by the completion (`ReadyStays`, `BalancesStep`).
The constants' assumptions (`JobsAssumption`, `LogsAssumption`, `PlansAssumption`, ...) say
that sets are finite, chain logs have unique keys and numbers are natural; TLC evaluates them in every run.

`ProgressHonest` counts blocks, and its invariant has to know where they come from: a message of a restarted run may
still lie on the topic, so the blocks claimed are compared with the chunks of *this* plan in full on the topic, whoever put
them there (`Held`). `blocksDone` is a sum of chunk sizes; it is the cardinality of a union only because the chunks of a
plan are disjoint. That needs `buildChunks` itself, a recursive function: `BuildIsLoop` unfolds it to the `CHOOSE` it stands
for, `ClosedForm` satisfies the same equation, and a least block at which the two would differ contradicts one turn of
the loop. All of it is below the wrap of uint64: `PlanningAssumption` and `BlocksAssumption` say that the last block plus
a chunk size is at most `Word`. The blocks of a chain are far below, but a job's `to_block` is request data that neither
`createSnapshot` nor `Run` compares with the head: for one within a chunk of 2^64 the loop of `buildChunks` wraps and does not
end, and the theorems say nothing of such a job. `ResolvedAssumption` says that the plans `Jobs` gives a job include those
`ScanRun` resolves. The refinement maps the run's status messages to those `Scans` has (`OutcomesOf` leaves "progress" out)
and a worker's count of batches to the set sent.

`AnswerWhole` compares what was read with the balances and with the classifications *now*; the invariant needs those of the moment
of the read (`asOf`, a history variable) and that no classification is ever taken back, only its kind replaced. It also
needs that the gateway's check stays true (`GateHeld`): a ready snapshot remains ready, which is `ReadyFinal` in the aggregator.

`MetricsTrue` is about lists of any length and balances of any size. Sums are unfolded like `buildChunks`
(`SumExists`, `SumUnique`, `SumStep`), and what would be an induction over a list is one over the set of lengths for which the
claim holds: 0 is in it, and so is the successor of a member (`UpTo`). A sum does not depend on the order (`SumPermuted`), so the
sort, which exists (`Sortable`), changes none. Then each metric by its own argument. *Gini* (`GiniOfSorted`): with one more entry,
the largest, the weighted sum grows by its distance to each other entry, and the differences over all pairs by twice that.
No weight is above n - 1 (`WeightedAtMost`), which bounds it.
*Nakamoto* (`NakamotoTrue`): the sizes of majorities are the lengths of the walk that suffice, since no part of a given size
weighs more than the top one (`LargestPart`: outside the top no entry is above its least), and `> total \div 2` is `2 * s > total`
for whole numbers. *HHI* (`Crossed`): each entry times the sum of the others is what the square of the sum has beside the squares. *Buckets* (`BucketsTrue`): the last threshold is 0, so the first one met is exactly one; a bucket's average is
at least its threshold and that of a lower bucket below it (`PartAtLeast`, `PartAtMost`).

Only model-checked: all liveness (`DoneLeadsToReady`, `ReadyLeadsToRequests`, `RunEnds`, `FetchReturns`, `SearchEnds`,
`EveryMessageDelivered`, `AskedLeadsToRow`), which needs fairness and `ENABLED`. Every invariant and every other property of a
passing run is proved.

## 7. Abstractions

Addresses, tokens and jobs are model values; transfers carry a position in chain order instead of a transaction hash and
log index. JSON that does not parse is dropped by every handler without a state change and has no action. The rate
limiter and backoffs are time, which the models do not have. Errors are outcomes, not texts: which wordings
`isRetryable` and `classifyLogsError` know is left out, so any call may fail either way.

## 8. Not modelled

A reorganising or growing chain: its logs are fixed, and only the head that a run is told moves. No code corrects a stored log
that moved, so there is nothing to promise. A `to_block` beyond the head is outside the models, too: a node may answer for
blocks that do not exist yet with no logs, and the job completes and advances coverage over them, so `SnapshotExact`,
`CoverageHonest` and `PublishedFromChain` are about jobs whose `to_block` the chain has reached. Rounding to float64: ratios are
exact fractions in `Metrics`, while the code rounds the Gini coefficient's sum and quotient, and each share before it is squared
or compared with a threshold. `MetricsMeetDefinitions` therefore holds of the code up to rounding: an index may come out as 1 with a
second, negligible holder, and a holder within rounding of a threshold may count above it. Several members of one
consumer group: what a commit of a partition's former owner does is the client library's and the broker's affair; second
deliveries as such are there with every restart. `createSnapshot` is one publish of a job with a fresh id, whose outcomes the
queued jobs of `Scans` stand for. The Kafka writer's own duplicates (the tables absorb them as they do redelivery), two
processes running one job at once, retention of topics, connecting to nodes and limiting the rate of calls,
ERC-20 metadata (no caller), topic creation, configuration, logging, generated code and the manual tools.

## 9. Plan

Done, in order of importance: the completion of a snapshot (`Ledger`, `Aggregator`, `Scans`, `Consumer`), the scan
(`ScanRun`, `LogFetch`, `DeployBlock`), then what is made of a snapshot (`Classification`, `Distribution` with `Metrics`,
`Polling`). Every safety property a run checks, and both refinements, are proved. Next:

1. `Pipeline`: gateway, job consumer, `Scans` and `Aggregator` in one behaviour: when an accepted job is certain to end ready.

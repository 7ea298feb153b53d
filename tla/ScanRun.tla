------------------------------ MODULE ScanRun -------------------------------
(***************************************************************************)
(* Scanner.Run for one job of a configured chain: the dispatch loop and its semaphore, the       *)
(* errgroup of chunk workers, the progress counters, and the status that   *)
(* ends the run.  `results' and `status' are the job's messages on the two *)
(* topics.  The process may stop anywhere and take the job up again.       *)
(***************************************************************************)
EXTENDS Jobs

CONSTANTS Job,
          FromBlock, ToBlock,  \* of the job; 0 asks for the deploy block, or the head
          Heads,               \* what LatestBlock may answer
          DeployBlocks,        \* what FindDeployBlock may answer; 0 stands in when it fails
          MaxChunkSize, MaxLogRange, Workers, ProgressEveryN,
          MaxRuns              \* bound: runs of the job

Resolutions ==
  [from : IF FromBlock = 0 THEN DeployBlocks \cup {0} ELSE {FromBlock},
   to   : IF ToBlock = 0 THEN Heads ELSE {ToBlock}]

ChunksOf(r) == buildChunks(r.from, r.to, ChunkSize(MaxChunkSize, MaxLogRange))

ASSUME RunAssumption ==
  /\ Snapshots = {Job}
  /\ FromBlock \in Nat /\ ToBlock \in Nat /\ Heads \subseteq Nat /\ DeployBlocks \subseteq Nat
  /\ MaxChunkSize \in Nat \ {0} /\ MaxLogRange \in Nat
  /\ Workers \in Nat \ {0} /\ ProgressEveryN \in Nat \ {0} /\ MaxRuns \in Nat

\* Below the wrap of uint64, as are the blocks of a chain; jobs with a to_block, which nothing
\* compares with the head (handlers.go:43, scanner.go:61), within a chunk of 2^64 are left out.
ASSUME BlocksAssumption == \A r \in Resolutions : r.to + MaxChunkSize <= Word

\* What Jobs calls the plans of a job are the plans of its resolutions.
ASSUME ResolvedAssumption ==
  \A r \in Resolutions :
    r.from <= r.to => {ChunksOf(r)[i] : i \in DOMAIN ChunksOf(r)} \in Plans[Job]

VARIABLES results, status,
          phase,       \* of the run: queued, rejected, dispatching, finished or failed
          range,       \* the resolved block interval
          plan,        \* its chunks, in dispatch order
          worker,      \* one goroutine per chunk: where it is, batches on the topic, blocks to report
          cancelled,   \* gctx: some goroutine returned an error
          chunksDone, blocksDone,
          runs, faults \* runs started; runs whose "started" or "done" is missing

progressVars == <<chunksDone, blocksDone>>
runVars == <<phase, range, plan, runs, faults>>
vars == <<results, status, runVars, worker, cancelled, progressVars>>

Waiting == [at |-> "waiting", sent |-> 0, blocks |-> 0]

Init ==
  /\ results = << >> /\ status = << >>
  /\ phase = "queued" /\ range = [from |-> 0, to |-> 0] /\ plan = << >>
  /\ worker = << >> /\ cancelled = FALSE
  /\ chunksDone = 0 /\ blocksDone = 0
  /\ runs = 0 /\ faults = 0

Size(r) == r.to - r.from + 1

Status(state, blocks) == [snap |-> Job, state |-> state, blocks |-> blocks]

At(i, label) == phase = "dispatching" /\ worker[i].at = label
Goto(i, label) == worker' = [worker EXCEPT ![i].at = label]

-----------------------------------------------------------------------------
(* Run, up to the dispatch loop.                                           *)

\* LatestBlock failed, or from_block is after to_block: no status says so.
Reject ==
  /\ phase = "queued"
  /\ \/ ToBlock = 0
     \/ \E r \in Resolutions : r.from > r.to
  /\ phase' = "rejected"
  /\ UNCHANGED <<results, status, range, plan, runs, faults, worker, cancelled, progressVars>>

\* A mutation of Start: the counters of the last run are kept.
StartKeepsCounters ==
  /\ phase = "queued" /\ runs < MaxRuns
  /\ \E r \in Resolutions :
       /\ r.from <= r.to
       /\ range' = r /\ plan' = ChunksOf(r)
       /\ worker' = [i \in 1 .. Len(ChunksOf(r)) |-> Waiting]
  /\ phase' = "dispatching" /\ runs' = runs + 1
  /\ \/ status' = Append(status, Status("started", 0)) /\ UNCHANGED faults
     \/ faults' = faults + 1 /\ UNCHANGED status
  /\ cancelled' = FALSE
  /\ UNCHANGED <<results, progressVars>>

Start ==
  /\ phase = "queued" /\ runs < MaxRuns
  /\ \E r \in Resolutions :
       /\ r.from <= r.to
       /\ range' = r /\ plan' = ChunksOf(r)
       /\ worker' = [i \in 1 .. Len(ChunksOf(r)) |-> Waiting]
  /\ phase' = "dispatching" /\ runs' = runs + 1
  /\ \/ status' = Append(status, Status("started", 0)) /\ UNCHANGED faults
     \/ faults' = faults + 1 /\ UNCHANGED status
  /\ cancelled' = FALSE /\ chunksDone' = 0 /\ blocksDone' = 0
  /\ UNCHANGED results

-----------------------------------------------------------------------------
(* The dispatch loop, and a chunk's goroutine.  Its slot is released on    *)
(* every return; the loop itself does not look at the context.             *)

\* A mutation of Active: a goroutine that fails keeps its slot.
ActiveLeaks == {i \in DOMAIN worker : worker[i].at \notin {"waiting", "returned"}}

Active == {i \in DOMAIN worker : worker[i].at \notin {"waiting", "returned", "failed"}}

Dispatch(i) ==
  /\ At(i, "waiting")
  /\ \A j \in 1 .. i - 1 : worker[j].at # "waiting"
  /\ Cardinality(Active) < Workers
  /\ Goto(i, "fetching")
  /\ UNCHANGED <<results, status, runVars, cancelled, progressVars>>

FetchChunk(i) ==
  /\ At(i, "fetching") /\ ~cancelled
  /\ Goto(i, "emitting")
  /\ UNCHANGED <<results, status, runVars, cancelled, progressVars>>

FetchFails(i) ==
  /\ At(i, "fetching")
  /\ cancelled' = TRUE
  /\ Goto(i, "failed")
  /\ UNCHANGED <<results, status, runVars, progressVars>>

TransferBatch(i) ==
  [snap |-> Job, range |-> plan[i], total |-> Len(plan),
   rows |-> Batch(ChunkLogs(Job, plan[i]), worker[i].sent + 1)]

EmitBatch(i) ==
  /\ At(i, "emitting")
  /\ results' = Append(results, TransferBatch(i))
  /\ worker' = [worker EXCEPT
       ![i].sent = @ + 1,
       ![i].at = IF worker[i].sent + 1 = BatchCount(ChunkLogs(Job, plan[i]))
                 THEN "counting" ELSE @]
  /\ UNCHANGED <<status, runVars, cancelled, progressVars>>

\* The write fails or gctx is cancelled meanwhile: the batch is on the topic or not.
EmitFails(i) ==
  /\ At(i, "emitting")
  /\ \/ /\ results' = Append(results, TransferBatch(i))
        /\ worker' = [worker EXCEPT ![i].sent = @ + 1, ![i].at = "failed"]
     \/ UNCHANGED results /\ Goto(i, "failed")
  /\ cancelled' = TRUE
  /\ UNCHANGED <<status, runVars, progressVars>>

\* A mutation of Count: a chunk is counted as soon as its logs are there.
CountBeforeEmitting(i) ==
  /\ phase = "dispatching" /\ worker[i].at \in {"emitting", "counting"}
  /\ chunksDone' = chunksDone + 1 /\ blocksDone' = blocksDone + Size(plan[i])
  /\ worker' = [worker EXCEPT ![i].at = "reporting", ![i].blocks = blocksDone']
  /\ UNCHANGED <<results, status, runVars, cancelled>>

\* Under mu.  Five seconds may have passed since the last report.
Count(i) ==
  /\ At(i, "counting")
  /\ chunksDone' = chunksDone + 1 /\ blocksDone' = blocksDone + Size(plan[i])
  /\ \/ worker' = [worker EXCEPT ![i].at = "reporting", ![i].blocks = blocksDone']
     \/ chunksDone' % ProgressEveryN # 0 /\ Goto(i, "returned")
  /\ UNCHANGED <<results, status, runVars, cancelled>>

\* After mu is released, so reports may overtake one another; a failing one is ignored.
Report(i) ==
  /\ At(i, "reporting")
  /\ \/ status' = Append(status, Status("progress", worker[i].blocks))
     \/ UNCHANGED status
  /\ Goto(i, "returned")
  /\ UNCHANGED <<results, runVars, cancelled, progressVars>>

Goroutine(i) ==
  \/ FetchChunk(i) \/ FetchFails(i) \/ EmitBatch(i) \/ EmitFails(i)
  \/ Count(i) \/ Report(i)

-----------------------------------------------------------------------------
(* g.Wait, and what Run reports.                                           *)

\* A mutation of AllReturned: the loop is through, its last goroutines are not.
AllDispatched == \A i \in DOMAIN worker : worker[i].at # "waiting"

AllReturned == \A i \in DOMAIN worker : worker[i].at \in {"returned", "failed"}

\* A mutation of Finish: a failed chunk does not matter.
FinishDespiteErrors ==
  /\ phase = "dispatching" /\ AllReturned
  /\ phase' = "finished"
  /\ \/ status' = Append(status, Status("done", Size(range))) /\ UNCHANGED faults
     \/ faults' = faults + 1 /\ UNCHANGED status
  /\ UNCHANGED <<results, range, plan, runs, worker, cancelled, progressVars>>

\* A "done" that cannot be published is logged, and Run still returns nil.
Finish ==
  /\ phase = "dispatching" /\ AllReturned /\ ~cancelled
  /\ phase' = "finished"
  /\ \/ status' = Append(status, Status("done", Size(range))) /\ UNCHANGED faults
     \/ faults' = faults + 1 /\ UNCHANGED status
  /\ UNCHANGED <<results, range, plan, runs, worker, cancelled, progressVars>>

Abort ==
  /\ phase = "dispatching" /\ AllReturned /\ cancelled
  /\ phase' = "failed" /\ faults' = faults + 1
  /\ \/ status' = Append(status, Status("error", 0))
     \/ UNCHANGED status
  /\ UNCHANGED <<results, range, plan, runs, worker, cancelled, progressVars>>

\* The process stops before the job's offset was committed; a new one gets the job again.
Restart ==
  /\ phase # "queued" /\ runs < MaxRuns
  /\ phase' = "queued"
  /\ UNCHANGED <<results, status, range, plan, runs, faults, worker, cancelled, progressVars>>

Next ==
  \/ Reject \/ Start
  \/ \E i \in DOMAIN worker : Dispatch(i) \/ Goroutine(i)
  \/ Finish \/ Abort \/ Restart

Spec == Init /\ [][Next]_vars

\* Goroutines run, calls return, and the dispatch loop goes on when it can.
FairSpec ==
  /\ Spec
  /\ \A i \in 1 .. Word :
       /\ WF_vars(i \in DOMAIN worker /\ Dispatch(i))
       /\ WF_vars(i \in DOMAIN worker /\ Goroutine(i))
  /\ WF_vars(Finish \/ Abort)

-----------------------------------------------------------------------------
(* Properties                                                              *)

Labels == {"waiting", "fetching", "failed", "emitting", "counting", "reporting", "returned"}

\* Every variable has its type; counters count goroutines that got that far.
RunTypeOK ==
  /\ phase \in {"queued", "rejected", "dispatching", "finished", "failed"}
  /\ range \in BlockRange
  /\ plan \in Seq(BlockRange)
  /\ worker \in [1 .. Len(plan) -> [at : Labels, sent : Nat, blocks : Nat]]
  /\ cancelled = (\E i \in DOMAIN worker : worker[i].at = "failed")
  /\ chunksDone = Cardinality({i \in DOMAIN worker : worker[i].at \in {"reporting", "returned"}})
  /\ blocksDone \in 0 .. Size(range)
  /\ runs \in 0 .. MaxRuns /\ faults \in 0 .. 2 * runs

\* Every batch of chunk c is on the results topic.
ChunkSent(c) ==
  \A k \in 1 .. BatchCount(ChunkLogs(Job, c)) :
    \E i \in DOMAIN results :
      results[i].range = c /\ results[i].rows = Batch(ChunkLogs(Job, c), k)

\* A status never claims more blocks than the topic holds in full: blocks_done of every
\* "progress" and "done" counts blocks of chunks whose batches were all published,
\* though workers count and report in any order (scanner.go:167-190, 204-207).
ProgressHonest ==
  \A m \in {status[i] : i \in DOMAIN status} :
    Cardinality(UNION {Blocks(c) : c \in {d \in {results[i].range : i \in DOMAIN results} :
                                             ChunkSent(d)}}) >= m.blocks

\* A run always ends: no failing, cancelled or slow worker leaves the dispatch loop
\* without a slot or g.Wait without a goroutine to wait for (scanner.go:118-196).
RunEnds == (phase = "dispatching") ~> (phase # "dispatching")

-----------------------------------------------------------------------------
(* Seen from the topics, Run is one of the scans of Scans.                 *)

ScanOf ==
  [phase |-> CASE phase = "dispatching" -> "scanning"
               [] phase = "rejected" -> "queued"
               [] OTHER -> phase,
   plan |-> {plan[i] : i \in DOMAIN plan},
   sent |-> UNION {{<<plan[i], k>> : k \in 1 .. worker[i].sent} : i \in DOMAIN plan},
   runs |-> runs]

\* Nobody reads "progress".
OutcomesOf(msgs) ==
  LET kept[n \in 0 .. Len(msgs)] ==
        IF n = 0 THEN << >>
        ELSE IF msgs[n].state = "progress" THEN kept[n - 1]
        ELSE Append(kept[n - 1], [snap |-> msgs[n].snap, state |-> msgs[n].state])
  IN  kept[Len(msgs)]

\* The job's messages are all under its token.
UnderToken(msgs) == [t \in Tokens |-> IF t = TokenOf[Job] THEN msgs ELSE << >>]

Contract == INSTANCE Scans WITH
  MaxFaults <- 2 * MaxRuns,
  log <- [q \in {"results", "status"} |->
            UnderToken(IF q = "results" THEN results ELSE OutcomesOf(status))],
  scan <- [s \in Snapshots |-> ScanOf]

\* With semaphore, cancellation and counters, Run puts on the topics what Scans says:
\* the batches of a chunk in order, "done" only after all of them, nothing after "error".
ImplementsScans == Contract!ScansSpec
=============================================================================

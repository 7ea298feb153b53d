------------------------------- MODULE Scans --------------------------------
(***************************************************************************)
(* What the snapshot-service promises the rest of the system: the messages *)
(* a run of a job puts on the results and status topics (Scanner.Run seen  *)
(* from Kafka).  Workers emit the chunks of a run in any interleaving, the *)
(* batches of one chunk in order; "done" follows only when every batch was *)
(* acknowledged.  A restarted service runs an uncommitted job again, and   *)
(* the new run may resolve to other blocks (head, deploy block).           *)
(***************************************************************************)
EXTENDS Jobs

CONSTANTS MaxRuns,   \* bound: runs of one job
          MaxFaults  \* bound: failing calls, over all services

ASSUME ScansAssumption == MaxRuns \in Nat /\ MaxFaults \in Nat

Topics == {"results", "status"}

VARIABLES log,    \* topic -> token -> messages; the token is the partition key
          scan,   \* per job: the run in progress
          faults  \* failing calls so far

scanVars == <<log, scan, faults>>

NoScan == [phase |-> "queued", plan |-> {}, sent |-> {}, runs |-> 0]

ScansInit ==
  /\ log = [q \in Topics |-> [t \in Tokens |-> << >>]]
  /\ scan = [s \in Snapshots |-> NoScan]
  /\ faults = 0

Fault == faults < MaxFaults /\ faults' = faults + 1

-----------------------------------------------------------------------------

TransferBatch(s, c, i) ==
  [snap |-> s, range |-> c, total |-> Cardinality(scan[s].plan),
   rows |-> Batch(ChunkLogs(s, c), i)]

SnapshotStatus(s, state) == [snap |-> s, state |-> state]

\* The log with message m published to topic q under the token of job s.
Published(q, s, m) == [log EXCEPT ![q][TokenOf[s]] = Append(@, m)]

\* A run resolves its block range, plans its chunks and reports "started" (best effort).
StartScan(s) ==
  /\ scan[s].phase = "queued" /\ scan[s].runs < MaxRuns
  /\ \E p \in Plans[s] :
       scan' = [scan EXCEPT ![s] = [phase |-> "scanning", plan |-> p, sent |-> {},
                                    runs |-> @.runs + 1]]
  /\ \/ log' = Published("status", s, SnapshotStatus(s, "started")) /\ UNCHANGED faults
     \/ Fault /\ UNCHANGED log

\* A worker publishes the next batch of a chunk it has fetched.
EmitBatch(s) ==
  /\ scan[s].phase = "scanning"
  /\ \E b \in BatchesOf(s, scan[s].plan) \ scan[s].sent :
       /\ b[2] > 1 => <<b[1], b[2] - 1>> \in scan[s].sent
       /\ log' = Published("results", s, TransferBatch(s, b[1], b[2]))
       /\ scan' = [scan EXCEPT ![s].sent = @ \cup {b}]
  /\ UNCHANGED faults

\* A mutation of AllSent: a chunk counts from its first batch on.
EveryChunkSent(s) == \A c \in scan[s].plan : \E b \in scan[s].sent : b[1] = c

AllSent(s) == scan[s].sent = BatchesOf(s, scan[s].plan)

\* g.Wait returned nil: "done" is published, then the job's offset committed.
FinishScan(s) ==
  /\ scan[s].phase = "scanning" /\ AllSent(s)
  /\ scan' = [scan EXCEPT ![s].phase = "finished"]
  /\ log' = Published("status", s, SnapshotStatus(s, "done"))
  /\ UNCHANGED faults

\* Publishing "done" fails: the error is logged and the job is committed all the same.
LoseDone(s) ==
  /\ scan[s].phase = "scanning" /\ AllSent(s) /\ Fault
  /\ scan' = [scan EXCEPT ![s].phase = "finished"]
  /\ UNCHANGED log

\* A chunk fails for good: "error" is published (best effort) and Run returns it.
FailScan(s) ==
  /\ scan[s].phase = "scanning" /\ Fault
  /\ scan' = [scan EXCEPT ![s].phase = "failed"]
  /\ \/ log' = Published("status", s, SnapshotStatus(s, "error"))
     \/ UNCHANGED log

\* The service restarts before the job's offset was committed.
RestartScan(s) ==
  /\ scan[s].phase # "queued" /\ scan[s].runs < MaxRuns
  /\ scan' = [scan EXCEPT ![s].phase = "queued"]
  /\ UNCHANGED <<log, faults>>

ScanStep(s) ==
  \/ StartScan(s) \/ EmitBatch(s) \/ FinishScan(s)
  \/ LoseDone(s) \/ FailScan(s) \/ RestartScan(s)

ScansSpec == ScansInit /\ [][\E s \in Snapshots : ScanStep(s)]_scanVars
=============================================================================

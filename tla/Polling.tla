------------------------------ MODULE Polling -------------------------------
(***************************************************************************)
(* What a client of the gateway is told of a snapshot while the scan and   *)
(* the aggregator work on it: every reply is a function of the tables, as  *)
(* SnapshotStatus is one statement.                                        *)
(***************************************************************************)
EXTENDS AggregatorInv

\* Repo.SnapshotStatus of a row that is there.
SnapshotStatusView(s) ==
  [state |-> snapshots[s].state, block |-> snapshots[s].block,
   chunksTotal |-> snapshots[s].chunksTotal, chunksDone |-> Cardinality(chunks[s])]

Found(s) == snapshots[s].state # "absent"

\* The status code of getSnapshot, and that of getDistribution's check of the state.
getSnapshot(s) == IF Found(s) THEN 200 ELSE 404
getDistribution(s) == IF ~Found(s) THEN 404 ELSE IF SnapshotStatusView(s).state # "ready" THEN 409 ELSE 200

-----------------------------------------------------------------------------
(* Properties                                                              *)

\* What a client was told is never taken back: a snapshot that was found stays found, one that
\* was ready stays ready at its block, and neither of the two counts of chunks shrinks,
\* whatever is redelivered or scanned again (handlers.go:78-119, repo.go:236-249).
PollsNeverGoBack ==
  [][\A s \in Snapshots : Found(s) =>
       /\ getSnapshot(s)' = 200
       /\ getDistribution(s) = 200 =>
            getDistribution(s)' = 200 /\ snapshots'[s].block = snapshots[s].block
       /\ snapshots'[s].chunksTotal >= snapshots[s].chunksTotal
       /\ chunks[s] \subseteq chunks'[s]]_vars

\* The progress shown adds up: some chunk is done as soon as there is a row, never more than
\* all, and a ready snapshot has all of its chunks done (repo.go:236-249).
PollsAddUp ==
  \A s \in Snapshots : Found(s) =>
    LET v == SnapshotStatusView(s) IN
    /\ 0 < v.chunksDone /\ v.chunksDone <= v.chunksTotal
    /\ v.state = "ready" => v.chunksDone = v.chunksTotal
=============================================================================

----------------------------- MODULE MCScanRun ------------------------------
(* Instances of ScanRun for TLC: one job over a chain of a few blocks, its   *)
(* first chunk worth two batches.                                            *)
EXTENDS ScanRun, SequencesExt

CONSTANTS j, tok, zero, a, b

L(key, block, src, dst, value) ==
  [key |-> key, block |-> block, src |-> src, dst |-> dst, value |-> value]

MCLogs == [t \in Tokens |->
  {L(1, 1, zero, a, 2), L(2, 2, a, b, 2), L(3, 4, b, a, 1)}]

MCTokenOf == [s \in Snapshots |-> tok]

MCPlans == [s \in Snapshots |->
  {ToSet(ChunksOf(r)) : r \in {q \in Resolutions : q.from <= q.to}}]
=============================================================================

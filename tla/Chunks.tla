------------------------------- MODULE Chunks -------------------------------
(***************************************************************************)
(* The two partitions a scan makes of its work: the block interval into    *)
(* chunks (buildChunks) and the transfers of a chunk into the batches that *)
(* are put on the results topic (the loop over maxTransferPerBatch).       *)
(* Block numbers are uint64: their arithmetic wraps at Word.               *)
(***************************************************************************)
EXTENDS Integers, Sequences, FiniteSets

CONSTANTS Word,                \* 2^64 in the build
          MaxTransferPerBatch  \* 500 in the build

ASSUME WordAssumption == Word \in Nat \ {0}
ASSUME BatchAssumption == MaxTransferPerBatch \in Nat \ {0}

BlockRange == [from : Nat, to : Nat]
Blocks(r) == r.from .. r.to
Wrap(n) == n % Word

\* A non-archive endpoint may cap the blocks of one eth_getLogs call (0: no cap).
ChunkSize(maxChunkSize, maxLogRange) ==
  IF maxLogRange > 0 /\ maxLogRange < maxChunkSize THEN maxLogRange ELSE maxChunkSize

\* A mutation of buildChunks: a chunk also holds the first block of the next.
buildChunksOverlapping(from, to, size) ==
  LET loop[start \in 0 .. Word - 1] ==
        LET sum   == Wrap(start + size)
            end   == IF sum > to THEN to ELSE sum
            chunk == [from |-> start, to |-> end]
        IN  IF start > to THEN << >>
            ELSE IF end = to THEN <<chunk>>
            ELSE <<chunk>> \o loop[Wrap(start + size)]
  IN  loop[from]

buildChunks(from, to, size) ==
  LET loop[start \in 0 .. Word - 1] ==
        LET sum   == Wrap(start + size - 1)
            end   == IF sum > to THEN to ELSE sum
            chunk == [from |-> start, to |-> end]
        IN  IF start > to THEN << >>
            ELSE IF end = to THEN <<chunk>>
            ELSE <<chunk>> \o loop[Wrap(start + size)]
  IN  loop[from]

-----------------------------------------------------------------------------
(* Transfers carry a key in chain order (block, log index), which is the   *)
(* order FilterLogs returns and the order `wire` is sliced in.             *)

Rank(logs, t) == Cardinality({u \in logs : u.key <= t.key})

\* An empty chunk still produces one (empty) batch.
BatchCount(logs) ==
  IF logs = {} THEN 1
  ELSE (Cardinality(logs) + MaxTransferPerBatch - 1) \div MaxTransferPerBatch

\* A mutation of Batch: the last transfer of a batch is left out.
BatchDropsLast(logs, i) ==
  {t \in logs : Rank(logs, t) \in (i - 1) * MaxTransferPerBatch + 1 .. i * MaxTransferPerBatch - 1}

\* wire[start:end] for the i-th turn of the loop, i counted from 1.
Batch(logs, i) ==
  {t \in logs : Rank(logs, t) \in (i - 1) * MaxTransferPerBatch + 1 .. i * MaxTransferPerBatch}
=============================================================================

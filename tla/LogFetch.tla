------------------------------ MODULE LogFetch ------------------------------
(***************************************************************************)
(* fetchChunkAdaptive: the Transfer logs of one chunk, by eth_getLogs      *)
(* calls that are retried when they fail and split in two when the         *)
(* endpoint finds the range too large.  A chunk spans far fewer blocks     *)
(* than uint64 counts, so its arithmetic does not wrap.                    *)
(***************************************************************************)
EXTENDS Integers, Sequences

CONSTANTS From, To,      \* the chunk
          MinChunkSize, ChunkRetries,
          RawLogs        \* what the chain has for the token and the event's signature

RawLog == [key : Nat, block : Nat, topics : 1 .. 4, removed : BOOLEAN]

ASSUME LogFetchAssumption ==
  /\ From \in Nat /\ To \in Nat /\ From <= To
  /\ MinChunkSize \in Nat \ {0} /\ ChunkRetries \in Nat
  /\ RawLogs \subseteq RawLog

VARIABLES stack,    \* ranges still to fetch, the next one last
          r,        \* the range in hand
          attempt,
          all,      \* the fetched logs: one segment per call, each in chain order
          ctxDone,  \* the errgroup's context is cancelled
          pc        \* pop, call, wait; or how the function returned: ok, tooLarge, failed, cancelled

vars == <<stack, r, attempt, all, ctxDone, pc>>

SubRange == [from : From .. To, to : From .. To]
Whole == [from |-> From, to |-> To]

Init ==
  /\ stack = <<Whole>> /\ r = Whole
  /\ attempt = 0
  /\ all = << >>
  /\ ctxDone = FALSE
  /\ pc = "pop"

\* FetchTransferLogs drops reorged logs and those whose addresses are not indexed.
TransferLogs(from, to) ==
  {l \in RawLogs : l.block \in from .. to /\ ~l.removed /\ l.topics >= 3}

Pop ==
  /\ pc = "pop" /\ stack # << >>
  /\ r' = stack[Len(stack)]
  /\ stack' = SubSeq(stack, 1, Len(stack) - 1)
  /\ attempt' = 0
  /\ pc' = "call"
  /\ UNCHANGED <<all, ctxDone>>

Return ==
  /\ pc = "pop" /\ stack = << >>
  /\ pc' = "ok"
  /\ UNCHANGED <<stack, r, attempt, all, ctxDone>>

FilterLogs ==
  /\ pc = "call" /\ ~ctxDone
  /\ all' = Append(all, TransferLogs(r.from, r.to))
  /\ pc' = "pop"
  /\ UNCHANGED <<stack, r, attempt, ctxDone>>

\* A mutation of Halves: both hold the middle block.
HalvesOverlap(q, mid) == <<[from |-> mid, to |-> q.to], [from |-> q.from, to |-> mid]>>

\* Another: the upper half is fetched first.
UpperHalfFirst(q, mid) == <<[from |-> q.from, to |-> mid - 1], [from |-> mid, to |-> q.to]>>

Halves(q, mid) == <<[from |-> mid, to |-> q.to], [from |-> q.from, to |-> mid - 1]>>

\* classifyLogsError found one of the endpoint's wordings for ErrLogRangeTooLarge.
RangeTooLarge ==
  /\ pc = "call" /\ ~ctxDone
  /\ LET span == r.to - r.from + 1 IN
     \/ span <= MinChunkSize /\ pc' = "tooLarge" /\ UNCHANGED stack
     \/ /\ span > MinChunkSize
        /\ stack' = stack \o Halves(r, r.from + span \div 2)
        /\ pc' = "pop"
  /\ UNCHANGED <<r, attempt, all, ctxDone>>

\* Any other error, the cancelled context's included.
CallFails ==
  /\ pc = "call"
  /\ pc' = "wait"
  /\ UNCHANGED <<stack, r, attempt, all, ctxDone>>

\* A mutation of Retry: one attempt too many.
RetryOnceMore ==
  /\ pc = "wait"
  /\ attempt' = attempt + 1
  /\ pc' = IF attempt <= ChunkRetries THEN "call" ELSE "failed"
  /\ UNCHANGED <<stack, r, all, ctxDone>>

\* Another: the attempt is not counted.
RetryForever ==
  /\ pc = "wait"
  /\ pc' = "call"
  /\ UNCHANGED <<stack, r, attempt, all, ctxDone>>

Retry ==
  /\ pc = "wait"
  /\ attempt' = attempt + 1
  /\ pc' = IF attempt < ChunkRetries THEN "call" ELSE "failed"
  /\ UNCHANGED <<stack, r, all, ctxDone>>

WaitCancelled ==
  /\ pc = "wait" /\ ctxDone
  /\ pc' = "cancelled"
  /\ UNCHANGED <<stack, r, attempt, all, ctxDone>>

\* Another chunk of the run fails, or the process is told to stop.
Cancel ==
  /\ ~ctxDone /\ pc \in {"pop", "call", "wait"}
  /\ ctxDone' = TRUE
  /\ UNCHANGED <<stack, r, attempt, all, pc>>

Step ==
  \/ Pop \/ Return
  \/ FilterLogs \/ RangeTooLarge \/ CallFails
  \/ Retry \/ WaitCancelled

Next == Step \/ Cancel

Spec == Init /\ [][Next]_vars
\* Each RPC call and each timer returns.
FairSpec == Spec /\ WF_vars(Step)

-----------------------------------------------------------------------------
(* Properties                                                              *)

\* What is left to fetch, the range in hand last.
Pending == IF pc \in {"call", "wait", "tooLarge", "failed", "cancelled"} THEN Append(stack, r) ELSE stack

\* Every variable has its type; a call is in flight only while attempts are left.
FetchTypeOK ==
  /\ stack \in Seq(SubRange) /\ r \in SubRange
  /\ attempt \in 0 .. ChunkRetries + 1
  /\ pc \in {"call", "wait"} => attempt <= ChunkRetries
  /\ all \in Seq(SUBSET RawLogs)
  /\ ctxDone \in BOOLEAN
  /\ pc \in {"pop", "call", "wait", "ok", "tooLarge", "failed", "cancelled"}

\* The first block that is not fetched yet.
Frontier == IF Pending = << >> THEN To + 1 ELSE Pending[Len(Pending)].from

\* Pending ranges are non-empty, end at To, and each starts where the one above it ends.
PendingTiles ==
  /\ \A i \in 1 .. Len(Pending) : Pending[i].from <= Pending[i].to
  /\ \A i \in 1 .. Len(Pending) - 1 : Pending[i].from = Pending[i + 1].to + 1
  /\ Pending # << >> => Pending[1].to = To

\* Whatever was split, retried or in flight, the fetched logs are those of the blocks
\* before the frontier, in chain order.
FetchedToFrontier ==
  /\ \A l \in RawLogs :
       l \in TransferLogs(From, Frontier - 1) <=> \E i \in 1 .. Len(all) : l \in all[i]
  /\ \A i, j \in 1 .. Len(all) : \A l \in all[i] : \A m \in all[j] : i < j => l.block < m.block

\* However the endpoint answers, the ranges left and the logs kept tile the chunk
\* (scanner.go:242-282).
FetchInv == PendingTiles /\ FetchedToFrontier

\* A chunk fetched without error has every Transfer log of its blocks exactly once and
\* in chain order, whatever calls failed, were repeated or split (scanner.go:233-285).
ChunkFetchedWhole ==
  pc = "ok" =>
    /\ \A l \in TransferLogs(From, To) : \E i \in 1 .. Len(all) : l \in all[i]
    /\ \A i \in 1 .. Len(all) : all[i] \subseteq TransferLogs(From, To)
    /\ \A i, j \in 1 .. Len(all) : \A l \in all[i] : \A m \in all[j] : i < j => l.block < m.block

\* The function returns: neither retries nor splitting go on for ever (scanner.go:251-278).
FetchReturns == <>(pc \in {"ok", "tooLarge", "failed", "cancelled"})
=============================================================================

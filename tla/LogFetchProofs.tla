--------------------------- MODULE LogFetchProofs ---------------------------
(***************************************************************************)
(* Proofs about LogFetch, for every chunk, chain and setting.              *)
(***************************************************************************)
EXTENDS LogFetch, TLAPS

\* The stack, the kept logs and the attempts of a fetch stay in bounds: it never calls past its
\* last attempt (Scanner.fetchChunkAdaptive).
THEOREM FetchTypes == Spec => []FetchTypeOK
<1>1. Init => FetchTypeOK
  <2> SUFFICES ASSUME Init PROVE FetchTypeOK
    OBVIOUS
  <2>1. Whole \in SubRange
    BY LogFetchAssumption DEF Whole, SubRange
  <2>2. stack \in Seq(SubRange) /\ all \in Seq(SUBSET RawLogs)
    BY <2>1 DEF Init
  <2>3. attempt \in 0 .. ChunkRetries + 1 /\ (pc \in {"call", "wait"} => attempt <= ChunkRetries)
    BY LogFetchAssumption DEF Init
  <2> QED BY <2>1, <2>2, <2>3 DEF Init, FetchTypeOK
<1>2. FetchTypeOK /\ [Next]_vars => FetchTypeOK'
  <2> SUFFICES ASSUME FetchTypeOK, [Next]_vars PROVE FetchTypeOK'
    OBVIOUS
  <2> USE DEF FetchTypeOK
  <2>1. CASE Pop
    <3>1. Len(stack) \in Nat \ {0}
      BY <2>1 DEF Pop
    <3> QED BY <2>1, <3>1, LogFetchAssumption DEF Pop
  <2>2. CASE Return
    BY <2>2 DEF Return
  <2>3. CASE FilterLogs
    <3>1. TransferLogs(r.from, r.to) \in SUBSET RawLogs
      BY DEF TransferLogs
    <3> QED BY <2>3, <3>1 DEF FilterLogs
  <2>4. CASE RangeTooLarge
    <3>1. CASE UNCHANGED stack /\ pc' = "tooLarge"
      BY <2>4, <3>1 DEF RangeTooLarge
    <3>2. CASE /\ r.to - r.from + 1 > MinChunkSize
               /\ stack' = stack \o Halves(r, r.from + (r.to - r.from + 1) \div 2)
               /\ pc' = "pop"
      <4>1. Halves(r, r.from + (r.to - r.from + 1) \div 2) \in Seq(SubRange)
        <5>1. r.from \in From .. To /\ r.to \in From .. To /\ r.to - r.from >= 1
          BY <3>2, LogFetchAssumption DEF SubRange
        <5>2. r.from + (r.to - r.from + 1) \div 2 \in r.from + 1 .. r.to
          BY <5>1, LogFetchAssumption
        <5> QED BY <5>1, <5>2, LogFetchAssumption DEF Halves, SubRange
      <4> QED BY <2>4, <3>2, <4>1 DEF RangeTooLarge
    <3> QED BY <2>4, <3>1, <3>2 DEF RangeTooLarge
  <2>5. CASE CallFails
    BY <2>5 DEF CallFails
  <2>6. CASE Retry
    <3> attempt \in 0 .. ChunkRetries + 1 /\ pc = "wait"
      BY <2>6 DEF Retry
    <3> QED BY <2>6, LogFetchAssumption DEF Retry
  <2>7. CASE WaitCancelled \/ Cancel \/ UNCHANGED vars
    BY <2>7 DEF WaitCancelled, Cancel, vars
  <2> QED BY <2>1, <2>2, <2>3, <2>4, <2>5, <2>6, <2>7 DEF Next, Step
<1> QED BY <1>1, <1>2, PTL DEF Spec

\* What FetchInv says depends on Pending and all only.
LEMMA SamePending ==
  ASSUME FetchInv, Pending' = Pending, all' = all
  PROVE  FetchInv'
BY DEF FetchInv, PendingTiles, FetchedToFrontier, Frontier

\* A call that returns moves the frontier past the range in hand.
LEMMA FilterLogsStep ==
  ASSUME FetchTypeOK, FetchInv, FilterLogs
  PROVE  FetchInv'
<1>1. /\ Pending = Append(stack, r) /\ Pending' = stack
      /\ stack \in Seq(SubRange) /\ Len(stack) \in Nat /\ r \in SubRange
      /\ r.from \in Nat /\ r.to \in Nat
      /\ all \in Seq(SUBSET RawLogs) /\ Len(all) \in Nat
  BY LogFetchAssumption DEF FilterLogs, Pending, FetchTypeOK, SubRange
<1>2. /\ Len(Pending) = Len(stack) + 1 /\ Pending[Len(stack) + 1] = r
      /\ \A i \in 1 .. Len(stack) : Pending[i] = stack[i]
  BY <1>1
<1>3. /\ \A i \in 1 .. Len(stack) + 1 : Pending[i].from <= Pending[i].to
      /\ \A i \in 1 .. Len(stack) : Pending[i].from = Pending[i + 1].to + 1
      /\ Pending[1].to = To
  BY <1>1, <1>2 DEF FetchInv, PendingTiles
<1>4. PendingTiles'
  <2>1. \A i \in 1 .. Len(stack) : stack[i].from <= stack[i].to
    BY <1>1, <1>2, <1>3
  <2>2. ASSUME NEW i \in 1 .. Len(stack) - 1
        PROVE  stack[i].from = stack[i + 1].to + 1
    <3>1. i \in 1 .. Len(stack) /\ i + 1 \in 1 .. Len(stack)
      BY <1>1
    <3>2. Pending[i].from = Pending[i + 1].to + 1
      BY <1>3, <3>1
    <3> QED BY <1>2, <3>1, <3>2
  <2>3. stack # << >> => stack[1].to = To
    BY <1>1, <1>2, <1>3
  <2> QED BY <1>1, <2>1, <2>2, <2>3 DEF PendingTiles
<1>5. Frontier = r.from
  BY <1>1, <1>2 DEF Frontier
<1>6. Frontier' = r.to + 1
  BY <1>1, <1>2, <1>3 DEF Frontier
<1>7. /\ all' = Append(all, TransferLogs(r.from, r.to)) /\ Len(all') = Len(all) + 1
      /\ \A i \in 1 .. Len(all) : all'[i] = all[i]
      /\ all'[Len(all) + 1] = TransferLogs(r.from, r.to)
  BY <1>1 DEF FilterLogs
<1>8. r.from <= r.to /\ From <= r.from
  BY <1>1, <1>2, <1>3, LogFetchAssumption DEF SubRange
<1>9. \A l \in RawLogs :
        \/ l \in TransferLogs(From, r.from - 1)
        \/ l \in TransferLogs(r.from, r.to)
        <=> l \in TransferLogs(From, r.to)
  BY <1>1, <1>8, LogFetchAssumption DEF TransferLogs, RawLog
<1>10. /\ \A l \in RawLogs : l \in TransferLogs(From, r.from - 1)
                               <=> \E i \in 1 .. Len(all) : l \in all[i]
       /\ \A i, j \in 1 .. Len(all) : \A l \in all[i] : \A m \in all[j] :
            i < j => l.block < m.block
  BY <1>5 DEF FetchInv, FetchedToFrontier
<1>11. \A l \in RawLogs : l \in TransferLogs(From, r.to)
                            <=> \E i \in 1 .. Len(all) + 1 : l \in all'[i]
  BY <1>1, <1>7, <1>9, <1>10
<1>12. ASSUME NEW i \in 1 .. Len(all) + 1, NEW j \in 1 .. Len(all) + 1, i < j,
              NEW l \in all'[i], NEW m \in all'[j]
       PROVE  l.block < m.block
  <2>1. i \in 1 .. Len(all) /\ l \in all[i] /\ l \in RawLogs
    BY <1>1, <1>7, <1>12
  <2>2. CASE j = Len(all) + 1
    <3>1. l \in TransferLogs(From, r.from - 1) /\ m \in TransferLogs(r.from, r.to)
      BY <1>7, <1>10, <1>12, <2>1, <2>2
    <3> QED BY <1>1, <3>1, LogFetchAssumption DEF TransferLogs, RawLog
  <2>3. CASE j # Len(all) + 1
    <3>1. j \in 1 .. Len(all)
      BY <1>1, <2>3
    <3>2. m \in all[j]
      BY <1>7, <3>1
    <3> QED BY <1>10, <1>12, <2>1, <3>1, <3>2
  <2> QED BY <2>2, <2>3
<1>13. FetchedToFrontier'
  <2>1. Frontier' - 1 = r.to
    BY <1>1, <1>6
  <2> QED BY <1>7, <1>11, <1>12, <2>1 DEF FetchedToFrontier, TransferLogs
<1> QED BY <1>4, <1>13 DEF FetchInv

\* Splitting the range in hand keeps its first block the frontier.
LEMMA SplitStep ==
  ASSUME FetchTypeOK, FetchInv, RangeTooLarge, pc' = "pop"
  PROVE  FetchInv'
<1>1. /\ Pending = Append(stack, r) /\ Pending' = stack'
      /\ stack \in Seq(SubRange) /\ Len(stack) \in Nat
      /\ r.from \in Nat /\ r.to \in Nat /\ r.from < r.to
  <2>1. Pending = Append(stack, r) /\ Pending' = stack'
    BY DEF RangeTooLarge, Pending
  <2>2. stack \in Seq(SubRange) /\ r \in SubRange
    BY DEF FetchTypeOK
  <2>3. r.from \in Nat /\ r.to \in Nat
    BY <2>2, LogFetchAssumption DEF SubRange
  <2>4. r.to - r.from + 1 > MinChunkSize
    BY DEF RangeTooLarge
  <2> QED BY <2>1, <2>2, <2>3, <2>4, LogFetchAssumption
<1>2. PICK mid \in r.from + 1 .. r.to : stack' = stack \o Halves(r, mid)
  <2>1. \A f, t \in Nat : f < t => f + (t - f + 1) \div 2 \in f + 1 .. t
    OBVIOUS
  <2> QED BY <1>1, <2>1 DEF RangeTooLarge
<1>3. /\ Len(stack') = Len(stack) + 2
      /\ \A i \in 1 .. Len(stack) : stack'[i] = stack[i]
      /\ stack'[Len(stack) + 1] = [from |-> mid, to |-> r.to]
      /\ stack'[Len(stack) + 2] = [from |-> r.from, to |-> mid - 1]
  BY <1>1, <1>2 DEF Halves
<1>4. /\ Len(Pending) = Len(stack) + 1 /\ Pending[Len(stack) + 1] = r
      /\ \A i \in 1 .. Len(stack) : Pending[i] = stack[i]
  BY <1>1
<1>5. /\ \A i \in 1 .. Len(stack) + 1 : Pending[i].from <= Pending[i].to
      /\ \A i \in 1 .. Len(stack) : Pending[i].from = Pending[i + 1].to + 1
      /\ Pending[1].to = To
  <2>1. Pending # << >> /\ Len(Pending) - 1 = Len(stack)
    BY <1>1, <1>4
  <2> QED BY <1>4, <2>1 DEF FetchInv, PendingTiles
<1>6. ASSUME NEW i \in 1 .. Len(stack')
      PROVE  stack'[i].from <= stack'[i].to
  <2>1. CASE i \in 1 .. Len(stack)
    <3>1. stack'[i] = Pending[i]
      BY <1>3, <1>4, <2>1
    <3>2. i \in 1 .. Len(stack) + 1
      BY <1>1, <2>1
    <3> QED BY <1>5, <3>1, <3>2
  <2>2. CASE i = Len(stack) + 1 \/ i = Len(stack) + 2
    <3>1. mid <= r.to /\ r.from <= mid - 1
      BY <1>1
    <3> QED BY <1>3, <2>2, <3>1
  <2> QED BY <1>1, <1>3, <1>6, <2>1, <2>2
<1>7. ASSUME NEW i \in 1 .. Len(stack') - 1
      PROVE  stack'[i].from = stack'[i + 1].to + 1
  <2>1. CASE i = Len(stack) + 1
    BY <1>1, <1>2, <1>3, <2>1
  <2>2. CASE i = Len(stack)
    BY <1>1, <1>3, <1>4, <1>5, <2>2
  <2>3. CASE i < Len(stack)
    <3>1. i \in 1 .. Len(stack) /\ i + 1 \in 1 .. Len(stack)
      BY <1>1, <1>3, <2>3
    <3>2. Pending[i].from = Pending[i + 1].to + 1
      BY <1>5, <3>1
    <3> QED BY <1>3, <1>4, <3>1, <3>2
  <2> QED BY <1>1, <1>3, <1>7, <2>1, <2>2, <2>3
<1>8. stack'[1].to = To
  BY <1>1, <1>3, <1>4, <1>5
<1>9. PendingTiles'
  BY <1>1, <1>6, <1>7, <1>8 DEF PendingTiles
<1>10. Frontier' = r.from /\ Frontier = r.from
  <2>1. Pending # << >> /\ stack' # << >>
    BY <1>1, <1>3, <1>4
  <2> QED BY <1>1, <1>3, <1>4, <2>1 DEF Frontier
<1>11. FetchedToFrontier'
  BY <1>10 DEF RangeTooLarge, FetchInv, FetchedToFrontier, TransferLogs
<1> QED BY <1>9, <1>11 DEF FetchInv

\* The ranges left and the logs kept tile the chunk at every step of fetchChunkAdaptive,
\* for any chunk, chain, minimum size and number of retries.
THEOREM FetchTiles == Spec => []FetchInv
<1>1. Init => FetchInv
  <2> SUFFICES ASSUME Init PROVE FetchInv
    OBVIOUS
  <2>1. Pending = <<Whole>> /\ Frontier = From /\ all = << >>
    BY DEF Init, Pending, Frontier, Whole
  <2>2. PendingTiles
    BY <2>1, LogFetchAssumption DEF PendingTiles, Whole
  <2>3. \A l \in RawLogs : l \notin TransferLogs(From, From - 1)
    BY LogFetchAssumption DEF TransferLogs, RawLog
  <2> QED BY <2>1, <2>2, <2>3 DEF FetchInv, FetchedToFrontier
<1>2. FetchTypeOK /\ FetchInv /\ [Next]_vars => FetchInv'
  <2> SUFFICES ASSUME FetchTypeOK, FetchInv, [Next]_vars PROVE FetchInv'
    OBVIOUS
  <2>1. CASE Pop
    <3>1. Len(stack) \in Nat \ {0} /\ stack \in Seq(SubRange)
      BY <2>1 DEF Pop, FetchTypeOK
    <3>2. Append(SubSeq(stack, 1, Len(stack) - 1), stack[Len(stack)]) = stack
      BY <3>1
    <3>3. Pending' = Pending
      BY <2>1, <3>2 DEF Pop, Pending
    <3> QED BY <2>1, <3>3, SamePending DEF Pop
  <2>2. CASE FilterLogs
    BY <2>2, FilterLogsStep
  <2>3. CASE RangeTooLarge
    <3>1. CASE UNCHANGED stack /\ pc' = "tooLarge"
      BY <2>3, <3>1, SamePending DEF RangeTooLarge, Pending
    <3>2. CASE pc' = "pop"
      BY <2>3, <3>2, SplitStep DEF RangeTooLarge
    <3> QED BY <2>3, <3>1, <3>2 DEF RangeTooLarge
  <2>4. CASE Return \/ CallFails \/ Retry \/ WaitCancelled \/ Cancel \/ UNCHANGED vars
    <3>1. Pending' = Pending /\ all' = all
      BY <2>4, LogFetchAssumption DEF Return, CallFails, Retry, WaitCancelled, Cancel, vars, Pending
    <3> QED BY <3>1, SamePending
  <2> QED BY <2>1, <2>2, <2>3, <2>4 DEF Next, Step
<1> QED BY <1>1, <1>2, FetchTypes, PTL DEF Spec

\* A chunk that fetchChunkAdaptive returns without error has each of its Transfer logs
\* once and in chain order, for any chunk, chain, minimum size and number of retries.
THEOREM FetchedWhole == Spec => []ChunkFetchedWhole
<1>1. FetchTypeOK /\ FetchInv /\ [Next]_vars /\ ChunkFetchedWhole => ChunkFetchedWhole'
  <2> SUFFICES ASSUME FetchTypeOK, FetchInv, [Next]_vars, ChunkFetchedWhole, pc' = "ok"
               PROVE  ChunkFetchedWhole'
    BY DEF ChunkFetchedWhole
  <2>1. CASE pc = "ok"
    <3>1. UNCHANGED all
      BY <2>1 DEF Next, Step, Pop, Return, FilterLogs, RangeTooLarge, CallFails, Retry,
                  WaitCancelled, Cancel, vars
    <3> QED BY <2>1, <3>1 DEF ChunkFetchedWhole, TransferLogs
  <2>2. CASE pc # "ok"
    <3>1. Return
      BY <2>2, LogFetchAssumption
      DEF Next, Step, Pop, FilterLogs, RangeTooLarge, CallFails, Retry, WaitCancelled, Cancel, vars
    <3>2. Frontier = To + 1 /\ all' = all
      BY <3>1 DEF Return, Frontier, Pending
    <3>3. \A l \in RawLogs : l \in TransferLogs(From, To) <=> \E i \in 1 .. Len(all) : l \in all[i]
      BY <3>2, LogFetchAssumption DEF FetchInv, FetchedToFrontier
    <3>4. \A i \in 1 .. Len(all) : all[i] \subseteq RawLogs
      BY DEF FetchTypeOK
    <3>5. TransferLogs(From, To) \subseteq RawLogs
      BY DEF TransferLogs
    <3> QED BY <3>2, <3>3, <3>4, <3>5 DEF ChunkFetchedWhole, FetchInv, FetchedToFrontier, TransferLogs
  <2> QED BY <2>1, <2>2
<1>2. Init => ChunkFetchedWhole
  BY DEF Init, ChunkFetchedWhole
<1> QED BY <1>1, <1>2, FetchTypes, FetchTiles, PTL DEF Spec
=============================================================================

---------------------------- MODULE ChunkLemmas -----------------------------
(***************************************************************************)
(* Facts about the two partitions of Chunks, for every block interval,     *)
(* chunk size, batch size and set of logs: what buildChunks computes, and  *)
(* what the batches of a chunk hold.                                       *)
(***************************************************************************)
EXTENDS Chunks, FiniteSetTheorems, TLAPS

\* A finite set of integers that is not empty has a least and a greatest element: the
\* induction on the set looks for a minimal counterexample in the strict subset ordering.
LEMMA Extrema ==
  ASSUME NEW S \in SUBSET Int, IsFiniteSet(S), S # {}
  PROVE  /\ \E m \in S : \A x \in S : m <= x
         /\ \E m \in S : \A x \in S : x <= m
<1> DEFINE Good(T) == /\ \E m \in T : \A x \in T : m <= x
                      /\ \E m \in T : \A x \in T : x <= m
           F == FiniteSubsetsOf(S)
           Bad == {T \in F : T # {} /\ ~Good(T)}
<1>1. SUFFICES Bad = {}
  <2>1. S \in F
    BY DEF FiniteSubsetsOf
  <2> QED BY <2>1
<1>2. SUFFICES ASSUME Bad # {} PROVE FALSE
  OBVIOUS
<1>3. PICK T \in Bad : \A U \in Bad : ~(<<U, T>> \in StrictSubsetOrdering(S))
  <2>1. Bad \subseteq F
    OBVIOUS
  <2>2. IsWellFoundedOn(StrictSubsetOrdering(S), F)
    BY FS_StrictSubsetOrderingWellFounded
  <2> HIDE DEF Bad, F
  <2> QED BY <1>2, <2>1, <2>2, WFMin
<1>4. PICK e \in T : TRUE
  OBVIOUS
<1> DEFINE U == T \ {e}
<1>5. T \in SUBSET Int /\ IsFiniteSet(T) /\ T \in SUBSET S
  BY DEF FiniteSubsetsOf
<1>6. U \in F
  BY <1>5, FS_RemoveElement DEF FiniteSubsetsOf
<1>7. U \notin Bad
  BY <1>3, <1>4, <1>5 DEF StrictSubsetOrdering
<1>8. CASE U = {}
  <2>1. T = {e}
    BY <1>4, <1>8
  <2> QED BY <2>1, <1>5
<1>9. CASE U # {}
  <2>1. Good(U)
    BY <1>6, <1>7, <1>9
  <2>2. PICK lo \in U : \A x \in U : lo <= x
    BY <2>1
  <2>3. PICK hi \in U : \A x \in U : x <= hi
    BY <2>1
  <2>4. \E m \in T : \A x \in T : m <= x
    <3>1. CASE lo <= e
      BY <2>2, <3>1, <1>5
    <3>2. CASE ~(lo <= e)
      BY <2>2, <3>2, <1>4, <1>5
    <3> QED BY <3>1, <3>2
  <2>5. \E m \in T : \A x \in T : x <= m
    <3>1. CASE e <= hi
      BY <2>3, <3>1, <1>5
    <3>2. CASE ~(e <= hi)
      BY <2>3, <3>2, <1>4, <1>5
    <3> QED BY <3>1, <3>2
  <2> QED BY <2>4, <2>5
<1> QED BY <1>8, <1>9

-----------------------------------------------------------------------------
(* buildChunks.  Its loop is a recursive function over block numbers: it   *)
(* has a solution, given in closed form, and no other, which is shown by   *)
(* looking at the last block where two solutions would differ.             *)

\* How many chunks of the given size start at or below `to', from `start' on, and the i-th.
ChunkTotal(start, to, size) == (to - start) \div size + 1
ChunkAt(start, to, size, i) ==
  [from |-> start + (i - 1) * size,
   to |-> IF i = ChunkTotal(start, to, size) THEN to ELSE start + i * size - 1]

ClosedForm(start, to, size) == [i \in 1 .. ChunkTotal(start, to, size) |-> ChunkAt(start, to, size, i)]

\* Products with a chunk size are monotone.
LEMMA Multiples ==
  ASSUME NEW a \in Nat, NEW b \in Nat, NEW n \in Nat, a <= b
  PROVE  a * n <= b * n /\ (a + 1) * n = a * n + n /\ a * n \in Nat
OBVIOUS

\* Division of block numbers.
LEMMA Divide ==
  ASSUME NEW a \in Nat, NEW n \in Nat \ {0}
  PROVE  /\ a \div n \in Nat
         /\ (a \div n) * n <= a /\ a < (a \div n) * n + n
         /\ a < n => a \div n = 0
         /\ a >= n => (a - n) \div n = a \div n - 1
OBVIOUS

\* One turn of the loop, and what it means to be the loop.
Turn(f, start, to, size) ==
  LET sum   == Wrap(start + size - 1)
      end   == IF sum > to THEN to ELSE sum
      chunk == [from |-> start, to |-> end]
  IN  IF start > to THEN << >>
      ELSE IF end = to THEN <<chunk>>
      ELSE <<chunk>> \o f[Wrap(start + size)]

IsLoop(f, to, size) == f = [start \in 0 .. Word - 1 |-> Turn(f, start, to, size)]

LEMMA BuildIsLoop ==
  ASSUME NEW from, NEW to, NEW size
  PROVE  buildChunks(from, to, size) = (CHOOSE f : IsLoop(f, to, size))[from]
BY DEF buildChunks, IsLoop, Turn

\* Below the end of uint64 no sum of the loop wraps.
LEMMA NoWrap ==
  ASSUME NEW start \in Nat, NEW to \in Nat, NEW size \in Nat \ {0},
         to + size <= Word, start <= to
  PROVE  /\ start \in 0 .. Word - 1 /\ Wrap(start + size - 1) = start + size - 1
         /\ start + size <= to => Wrap(start + size) = start + size
BY WordAssumption DEF Wrap

\* How many chunks there are.
LEMMA Counts ==
  ASSUME NEW start \in Nat, NEW to \in Nat, NEW size \in Nat \ {0}, start <= to
  PROVE  /\ ChunkTotal(start, to, size) \in Nat \ {0}
         /\ start + size > to => ChunkTotal(start, to, size) = 1
         /\ start + size <= to => ChunkTotal(start, to, size) = ChunkTotal(start + size, to, size) + 1
<1> DEFINE d == to - start
<1>1. /\ d \in Nat /\ (start + size > to => d < size)
      /\ start + size <= to => d >= size /\ to - (start + size) = d - size
  OBVIOUS
<1>2. ChunkTotal(start, to, size) = d \div size + 1
  BY DEF ChunkTotal
<1>3. start + size <= to => ChunkTotal(start + size, to, size) = (d - size) \div size + 1
  BY <1>1 DEF ChunkTotal
<1> HIDE DEF d
<1>4. d \div size \in Nat
  BY <1>1, Divide
<1>5. start + size > to => d \div size = 0
  BY <1>1, Divide
<1>6. start + size <= to => (d - size) \div size = d \div size - 1
  BY <1>1, Divide
<1> QED BY <1>2, <1>3, <1>4, <1>5, <1>6

\* The closed form is a loop.
LEMMA ClosedFormTurns ==
  ASSUME NEW start \in Nat, NEW to \in Nat, NEW size \in Nat \ {0}, start <= to
  PROVE  /\ start + size > to => ClosedForm(start, to, size) = <<[from |-> start, to |-> to]>>
         /\ start + size <= to =>
              ClosedForm(start, to, size) =
                <<[from |-> start, to |-> start + size - 1]>> \o ClosedForm(start + size, to, size)
<1>1. CASE start + size > to
  <2>1. ChunkTotal(start, to, size) = 1
    BY <1>1, Counts
  <2>2. ChunkAt(start, to, size, 1) = [from |-> start, to |-> to]
    BY <2>1 DEF ChunkAt
  <2> QED BY <1>1, <2>1, <2>2 DEF ClosedForm
<1>2. CASE start + size <= to
  <2> DEFINE n == ChunkTotal(start + size, to, size)
             rest == ClosedForm(start + size, to, size)
             head == [from |-> start, to |-> start + size - 1]
  <2>1. n \in Nat \ {0} /\ ChunkTotal(start, to, size) = n + 1
    BY <1>2, Counts
  <2>2. ChunkAt(start, to, size, 1) = head
    BY <2>1 DEF ChunkAt
  <2>3. ASSUME NEW i \in 2 .. n + 1
        PROVE  ChunkAt(start, to, size, i) = ChunkAt(start + size, to, size, i - 1)
    <3>1. (i - 1) * size = size + (i - 2) * size /\ i * size = size + (i - 1) * size
      OBVIOUS
    <3> QED BY <2>1, <3>1 DEF ChunkAt
  <2>4. rest = [i \in 1 .. n |-> ChunkAt(start + size, to, size, i)]
    BY DEF ClosedForm
  <2>5. <<head>> \o rest = [i \in 1 .. n + 1 |-> IF i = 1 THEN head ELSE rest[i - 1]]
    <3> HIDE DEF n, head
    <3> QED BY <2>1, <2>4
  <2>6. ClosedForm(start, to, size) = [i \in 1 .. n + 1 |-> ChunkAt(start, to, size, i)]
    BY <2>1 DEF ClosedForm
  <2>7. ASSUME NEW i \in 1 .. n + 1
        PROVE  ChunkAt(start, to, size, i) = IF i = 1 THEN head ELSE rest[i - 1]
    <3>1. CASE i = 1
      BY <3>1, <2>2
    <3>2. CASE i # 1
      <4>1. i - 1 \in 1 .. n /\ i \in 2 .. n + 1
        BY <3>2, <2>1
      <4>2. rest[i - 1] = ChunkAt(start + size, to, size, i - 1)
        BY <4>1, <2>4
      <4> QED BY <3>2, <4>1, <4>2, <2>3
    <3> QED BY <3>1, <3>2
  <2> HIDE DEF n, rest, head
  <2>8. ClosedForm(start, to, size) = <<head>> \o rest
    BY <2>5, <2>6, <2>7
  <2> QED BY <1>2, <2>8 DEF rest, head
<1> QED BY <1>1, <1>2

\* The loop has one solution on the blocks up to `to', the closed form: so that is what
\* buildChunks computes (scanner.go:218-231), for every interval and size below the wrap.
LEMMA BuildChunks ==
  ASSUME NEW from \in Nat, NEW to \in Nat, NEW size \in Nat \ {0},
         to + size <= Word, from <= to
  PROVE  buildChunks(from, to, size) = ClosedForm(from, to, size)
<1> DEFINE G == [start \in 0 .. Word - 1 |->
                   IF start > to THEN << >> ELSE ClosedForm(start, to, size)]
           F == CHOOSE f : IsLoop(f, to, size)
           D == {b \in 0 .. to : F[b] # G[b]}
<1>1. \A b \in 0 .. to : b \in 0 .. Word - 1
  BY WordAssumption
<1>0. \A b \in 0 .. Word - 1 : b \in Nat /\ G[b] = IF b > to THEN << >> ELSE ClosedForm(b, to, size)
  BY WordAssumption
<1> HIDE DEF G
<1>2. ASSUME NEW b \in 0 .. Word - 1
      PROVE  G[b] = Turn(G, b, to, size)
  <2>1. CASE b > to
    BY <1>0, <2>1 DEF Turn
  <2>2. CASE b <= to /\ b + size > to
    <3>1. Wrap(b + size - 1) = b + size - 1 /\ G[b] = <<[from |-> b, to |-> to]>>
      <4>1. b \in Nat /\ b <= to /\ ~(b > to)
        BY <1>0, <2>2
      <4>2. ClosedForm(b, to, size) = <<[from |-> b, to |-> to]>>
        BY <2>2, <4>1, ClosedFormTurns
      <4> QED BY <1>0, <4>1, <4>2, NoWrap
    <3>2. Turn(G, b, to, size) = <<[from |-> b, to |-> to]>>
      BY <1>0, <2>2, <3>1 DEF Turn
    <3> QED BY <3>1, <3>2
  <2>3. CASE b + size <= to
    <3>1. Wrap(b + size - 1) = b + size - 1 /\ Wrap(b + size) = b + size /\ b <= to
      BY <1>0, <2>3, NoWrap
    <3>2. b + size \in 0 .. Word - 1 /\ ~(b + size > to)
      BY <1>0, <2>3, <1>1
    <3>3. G[b + size] = ClosedForm(b + size, to, size)
      BY <1>0, <3>2
    <3>4. G[b] = <<[from |-> b, to |-> b + size - 1]>> \o G[b + size]
      <4>1. b \in Nat /\ G[b] = ClosedForm(b, to, size)
        BY <1>0, <3>1
      <4>2. ClosedForm(b, to, size) =
              <<[from |-> b, to |-> b + size - 1]>> \o ClosedForm(b + size, to, size)
        <5>1. b <= to
          BY <3>1
        <5> QED BY <2>3, <4>1, <5>1, ClosedFormTurns
      <4> QED BY <3>3, <4>1, <4>2, Zenon
    <3> QED BY <1>0, <2>3, <3>1, <3>4 DEF Turn
  <2> QED BY <2>1, <2>2, <2>3
<1>3. IsLoop(G, to, size)
  <2>1. G = [start \in 0 .. Word - 1 |-> G[start]]
    BY DEF G
  <2> QED BY <1>2, <2>1, Zenon DEF IsLoop
<1>4. IsLoop(F, to, size)
  BY <1>3
<1>5. \A b \in 0 .. to : F[b] = Turn(F, b, to, size) /\ G[b] = Turn(G, b, to, size)
  <2> HIDE DEF F
  <2> QED BY <1>1, <1>3, <1>4 DEF IsLoop
<1>6. D = {}
  <2> SUFFICES ASSUME D # {} PROVE FALSE
    OBVIOUS
  <2>1. PICK m \in D : \A b \in D : b <= m
    <3>1. IsFiniteSet(0 .. to)
      BY FS_Interval
    <3>2. D \in SUBSET (0 .. to)
      <4> HIDE DEF F
      <4> QED OBVIOUS
    <3>3. IsFiniteSet(D) /\ D \in SUBSET Int
      <4>1. 0 .. to \in SUBSET Int
        OBVIOUS
      <4> HIDE DEF D
      <4>2. D \in SUBSET Int
        BY <3>2, <4>1, Zenon
      <4> QED BY <3>1, <3>2, <4>2, FS_Subset, Zenon
    <3> HIDE DEF D
    <3> QED BY <3>3, Extrema
  <2>2. m \in 0 .. to
    OBVIOUS
  <2>3. CASE m + size > to
    <3>1. Wrap(m + size - 1) = m + size - 1
      BY <2>2, NoWrap
    <3>2. Turn(F, m, to, size) = Turn(G, m, to, size)
      <4> HIDE DEF F, D
      <4> QED BY <2>2, <2>3, <3>1 DEF Turn
    <3> QED BY <1>5, <2>2, <3>2
  <2>4. CASE m + size <= to
    <3>1. Wrap(m + size) = m + size
      BY <2>2, <2>4, NoWrap
    <3>2. F[m + size] = G[m + size]
      <4>1. m + size \in 0 .. to /\ ~(m + size <= m)
        BY <2>2, <2>4
      <4> QED BY <2>1, <4>1
    <3>3. Turn(F, m, to, size) = Turn(G, m, to, size)
      <4> HIDE DEF F, D
      <4> QED BY <3>1, <3>2 DEF Turn
    <3> QED BY <1>5, <2>2, <3>3
  <2> QED BY <2>2, <2>3, <2>4
<1>7. F[from] = G[from] /\ G[from] = ClosedForm(from, to, size)
  <2>1. from \in 0 .. to
    OBVIOUS
  <2>2. F[from] = G[from]
    <3> HIDE DEF F
    <3> QED BY <1>6, <2>1
  <2> QED BY <1>0, <1>1, <2>1, <2>2
<1> QED BY <1>7, BuildIsLoop

\* Chunks p tile an interval: in order, each of 1 to size blocks, none leaving out a block
\* or sharing one with another, the first starting and the last ending as asked.
Tile(p, from, to, size) ==
  /\ p \in Seq(BlockRange) /\ Len(p) \in Nat \ {0} /\ DOMAIN p = 1 .. Len(p)
  /\ p[1].from = from /\ p[Len(p)].to = to
  /\ \A i \in 1 .. Len(p) : p[i] \in BlockRange /\ p[i].to - p[i].from \in 0 .. size - 1
  /\ \A i \in 1 .. Len(p) - 1 : p[i + 1].from = p[i].to + 1
  /\ \A i, j \in 1 .. Len(p) : i < j => p[i].to < p[j].from
  /\ \A b \in from .. to : \E i \in 1 .. Len(p) : b \in Blocks(p[i])

\* The chunks of every interval tile it.
LEMMA ChunksTile ==
  ASSUME NEW from \in Nat, NEW to \in Nat, NEW size \in Nat \ {0},
         to + size <= Word, from <= to
  PROVE  Tile(buildChunks(from, to, size), from, to, size)
<1> DEFINE p == buildChunks(from, to, size)
           n == ChunkTotal(from, to, size)
           off(k) == k * size  \* where the k-th chunk after the first begins
<1>1. /\ \A k \in Nat : off(k) \in Nat /\ off(k + 1) = off(k) + size
      /\ \A k, m \in Nat : k <= m => off(k) <= off(m)
      /\ off(0) = 0
  BY Multiples
<1>2. \A a \in Nat : a \div size \in Nat /\ off(a \div size) <= a /\ a < off(a \div size) + size
  BY Divide
<1>3. n = (to - from) \div size + 1
  BY DEF ChunkTotal
<1>4. p = [i \in 1 .. n |-> ChunkAt(from, to, size, i)]
  BY BuildChunks DEF ClosedForm
<1>5. \A i \in 1 .. n : ChunkAt(from, to, size, i) =
        [from |-> from + off(i - 1), to |-> IF i = n THEN to ELSE from + off(i) - 1]
  BY DEF ChunkAt
<1> HIDE DEF p, n, off
<1>6. n \in Nat \ {0} /\ off(n - 1) <= to - from /\ to - from < off(n - 1) + size
  <2> DEFINE q == (to - from) \div size
  <2>1. q \in Nat /\ off(q) <= to - from /\ to - from < off(q) + size
    BY <1>2
  <2>2. n = q + 1
    BY <1>3
  <2> HIDE DEF q
  <2>3. n - 1 = q
    BY <2>1, <2>2
  <2> QED BY <2>1, <2>2, <2>3
<1>7. Len(p) = n /\ \A i \in 1 .. n :
        p[i] = [from |-> from + off(i - 1), to |-> IF i = n THEN to ELSE from + off(i) - 1]
  BY <1>4, <1>5, <1>6
<1>8. ASSUME NEW i \in 1 .. n
      PROVE  /\ i - 1 \in Nat /\ off(i - 1) \in Nat /\ off(i) = off(i - 1) + size
             /\ p[i].from = from + off(i - 1)
             /\ i # n => p[i].to = from + off(i) - 1
             /\ i = n => p[i].to = to
             /\ p[i] \in BlockRange /\ p[i].to - p[i].from \in 0 .. size - 1
  <2>1. i - 1 \in Nat /\ (i - 1) + 1 = i
    BY <1>6
  <2>2. off(i - 1) \in Nat /\ off(i) = off(i - 1) + size
    BY <1>1, <2>1
  <2>3. p[i] = [from |-> from + off(i - 1), to |-> IF i = n THEN to ELSE from + off(i) - 1]
    BY <1>7
  <2>4. i = n => off(i - 1) <= to - from /\ to - from < off(i - 1) + size
    BY <1>6
  <2> QED BY <2>1, <2>2, <2>3, <2>4 DEF BlockRange
<1>9. p \in Seq(BlockRange)
  BY <1>4, <1>6, <1>7, <1>8
<1>10. ASSUME NEW i \in 1 .. n - 1
       PROVE  p[i + 1].from = p[i].to + 1
  <2>1. i \in 1 .. n /\ i # n /\ i + 1 \in 1 .. n /\ (i + 1) - 1 = i
    BY <1>6
  <2>2. p[i + 1].from = from + off(i) /\ p[i].to = from + off(i) - 1 /\ off(i) \in Nat
    BY <1>8, <1>1, <2>1
  <2> QED BY <2>2
<1>11. ASSUME NEW i \in 1 .. n, NEW j \in 1 .. n, i < j
       PROVE  p[i].to < p[j].from
  <2>1. i \in Nat /\ j - 1 \in Nat /\ i <= j - 1 /\ i # n
    BY <1>6, <1>11
  <2>2. off(i) <= off(j - 1) /\ off(i) \in Nat /\ off(j - 1) \in Nat
    BY <1>1, <2>1
  <2> QED BY <1>8, <2>1, <2>2
<1>12. ASSUME NEW b \in from .. to
       PROVE  \E i \in 1 .. n : b \in Blocks(p[i])
  <2> DEFINE k == (b - from) \div size
  <2>1. b - from \in Nat /\ b - from <= to - from
    OBVIOUS
  <2>2. k \in Nat /\ off(k) <= b - from /\ b - from < off(k) + size
    BY <1>2, <2>1
  <2> HIDE DEF k
  <2>3. k <= n - 1
    <3> SUFFICES ASSUME n <= k PROVE FALSE
      BY <1>6, <2>2
    <3>1. off(n) <= off(k) /\ off(n) = off(n - 1) + size
      BY <1>1, <1>6, <1>8, <2>2
    <3> QED BY <1>1, <1>6, <2>1, <2>2, <3>1
  <2>4. k + 1 \in 1 .. n /\ (k + 1) - 1 = k
    BY <1>6, <2>2, <2>3
  <2>5. /\ p[k + 1].from = from + off(k) /\ off(k + 1) = off(k) + size
        /\ k + 1 # n => p[k + 1].to = from + off(k + 1) - 1
        /\ k + 1 = n => p[k + 1].to = to
    BY <1>8, <2>4
  <2>6. off(k) \in Nat
    BY <1>1, <2>2
  <2>7. b \in Blocks(p[k + 1])
    BY <2>1, <2>2, <2>4, <2>5, <2>6 DEF Blocks
  <2> QED BY <2>4, <2>7
<1>13. p[1].from = from /\ p[n].to = to
  <2>1. 1 \in 1 .. n /\ n \in 1 .. n /\ off(1 - 1) = 0
    BY <1>1, <1>6
  <2>2. p[1].from = from + off(1 - 1)
    BY <1>8, <2>1
  <2>3. p[n].to = to
    BY <1>8, <2>1
  <2> QED BY <2>1, <2>2, <2>3
<1>14. Tile(p, from, to, size)
  <2>1. DOMAIN p = 1 .. Len(p)
    BY <1>9
  <2> QED BY <1>6, <1>7, <1>8, <1>9, <1>10, <1>11, <1>12, <1>13, <2>1 DEF Tile
<1> QED BY <1>14 DEF p

\* Every chunk of a tiling lies inside the interval.
LEMMA TilesInside ==
  ASSUME NEW p, NEW from \in Nat, NEW to \in Nat, NEW size \in Nat \ {0}, Tile(p, from, to, size)
  PROVE  \A i \in 1 .. Len(p) : Blocks(p[i]) \subseteq from .. to
<1> SUFFICES ASSUME NEW i \in 1 .. Len(p) PROVE Blocks(p[i]) \subseteq from .. to
  OBVIOUS
<1> DEFINE n == Len(p)
<1>0. n \in Nat \ {0} /\ p[n].to = to
  BY DEF Tile
<1>1. \A k \in 1 .. Len(p) : p[k].from \in Nat /\ p[k].to \in Nat /\ p[k].from <= p[k].to
  BY DEF Tile, BlockRange
<1>2. 1 \in 1 .. Len(p) /\ Len(p) \in 1 .. Len(p)
  BY DEF Tile
<1>3. from <= p[i].from
  <2>1. CASE i = 1
    BY <1>1, <2>1 DEF Tile
  <2>2. CASE i # 1
    <3>1. p[1].to < p[i].from
      BY <1>2, <2>2 DEF Tile
    <3> QED BY <1>1, <1>2, <3>1 DEF Tile
  <2> QED BY <2>1, <2>2
<1>4. p[i].to <= to
  <2>1. CASE i = n
    BY <1>0, <2>1
  <2>2. CASE i # n
    <3>1. i < n /\ n \in 1 .. Len(p)
      BY <1>0, <2>2
    <3>2. p[i].to < p[n].from
      BY <3>1, Zenon DEF Tile
    <3> HIDE DEF n
    <3> QED BY <1>0, <1>1, <3>1, <3>2
  <2> QED BY <2>1, <2>2
<1> QED BY <1>1, <1>3, <1>4 DEF Blocks

\* What the rest of the system assumes of a plan (PlansAssumption, and the second half of
\* StablePlans) buildChunks provides for every interval: a finite set of chunks, not empty,
\* without a gap between any two of them (scanner.go:216-231).
THEOREM PlansAreIntervals ==
  ASSUME NEW from \in Nat, NEW to \in Nat, NEW size \in Nat \ {0},
         to + size <= Word, from <= to,
         NEW p, p = {buildChunks(from, to, size)[i] : i \in DOMAIN buildChunks(from, to, size)}
  PROVE  /\ IsFiniteSet(p) /\ p # {} /\ p \subseteq BlockRange
         /\ \A c, d \in p : \A n \in c.from .. d.to : \E e \in p : n \in Blocks(e)
<1> DEFINE q == buildChunks(from, to, size)
           m == Len(q)
<1>1. Tile(q, from, to, size)
  BY ChunksTile
<1> HIDE DEF q
<1>2. m \in Nat \ {0} /\ DOMAIN q = 1 .. m /\ \A i \in 1 .. m : q[i] \in BlockRange
  BY <1>1 DEF Tile
<1>3. p = {q[i] : i \in 1 .. m}
  BY <1>2 DEF q
<1>4. IsFiniteSet(p)
  <2> HIDE DEF m
  <2>1. IsFiniteSet(1 .. m)
    BY <1>2, FS_Interval
  <2>2. [i \in 1 .. m |-> q[i]] \in Surjection(1 .. m, p)
    BY <1>3 DEF Surjection
  <2> QED BY <2>1, <2>2, FS_Surjection
<1>5. p # {} /\ p \subseteq BlockRange
  <2> HIDE DEF m
  <2>1. 1 \in 1 .. m
    BY <1>2
  <2> QED BY <1>2, <1>3, <2>1
<1>6. ASSUME NEW c \in p PROVE from <= c.from /\ c.to <= to /\ c.from \in Nat /\ c.to \in Nat
  <2>1. PICK i \in 1 .. m : c = q[i]
    BY <1>3
  <2>2. Blocks(c) \subseteq from .. to
    BY <1>1, <2>1, TilesInside
  <2>3. c.from \in Nat /\ c.to \in Nat /\ c.from <= c.to
    <3>1. q[i] \in BlockRange /\ q[i].to - q[i].from \in 0 .. size - 1
      BY <1>1, <2>1 DEF Tile
    <3> QED BY <2>1, <3>1 DEF BlockRange
  <2>4. c.from \in Blocks(c) /\ c.to \in Blocks(c)
    BY <2>3 DEF Blocks
  <2> QED BY <2>2, <2>3, <2>4
<1>7. ASSUME NEW c \in p, NEW d \in p, NEW n \in c.from .. d.to
      PROVE  \E e \in p : n \in Blocks(e)
  <2>1. n \in from .. to
    BY <1>6
  <2>2. PICK i \in 1 .. m : n \in Blocks(q[i])
    BY <1>1, <2>1 DEF Tile
  <2> QED BY <1>3, <2>2
<1> QED BY <1>4, <1>5, <1>7


\* No chunk is twice in a tiling, and no block in two.
LEMMA TilesApart ==
  ASSUME NEW p, NEW from, NEW to, NEW size, Tile(p, from, to, size),
         NEW i \in 1 .. Len(p), NEW j \in 1 .. Len(p), i # j
  PROVE  p[i] # p[j] /\ Blocks(p[i]) \cap Blocks(p[j]) = {}
<1>1. \A k \in 1 .. Len(p) : p[k].from \in Nat /\ p[k].to \in Nat /\ p[k].from <= p[k].to
  BY DEF Tile, BlockRange
<1>2. p[i].to < p[j].from \/ p[j].to < p[i].from
  BY DEF Tile
<1> QED BY <1>1, <1>2 DEF Blocks

-----------------------------------------------------------------------------
(* Batches.                                                                *)

\* Logs as the provers see them: finitely many, in an order of their own.
Ordered(logs) ==
  /\ IsFiniteSet(logs)
  /\ \A l \in logs : l.key \in Int
  /\ \A l, m \in logs : l.key = m.key => l = m

\* The logs up to and including t, in chain order.
UpTo(logs, t) == {u \in logs : u.key <= t.key}

\* Rank numbers the logs 1, 2, ... in the order of their keys, each number once.
LEMMA Ranks ==
  ASSUME NEW logs, Ordered(logs)
  PROVE  /\ Cardinality(logs) \in Nat
         /\ \A t \in logs : Rank(logs, t) \in 1 .. Cardinality(logs)
         /\ \A t, u \in logs : t.key < u.key <=> Rank(logs, t) < Rank(logs, u)
         /\ \A t, u \in logs : Rank(logs, t) = Rank(logs, u) => t = u
         /\ \A r \in 1 .. Cardinality(logs) : \E t \in logs : Rank(logs, t) = r
<1> DEFINE n == Cardinality(logs)
           rank == [t \in logs |-> Rank(logs, t)]
<1>1. IsFiniteSet(logs) /\ n \in Nat
  BY FS_CardinalityType DEF Ordered
<1>2. ASSUME NEW t \in logs
      PROVE  /\ IsFiniteSet(UpTo(logs, t)) /\ t \in UpTo(logs, t)
             /\ Rank(logs, t) = Cardinality(UpTo(logs, t)) /\ Rank(logs, t) \in 1 .. n
  <2>1. UpTo(logs, t) \in SUBSET logs /\ t \in UpTo(logs, t)
    BY DEF UpTo, Ordered
  <2>2. /\ IsFiniteSet(UpTo(logs, t)) /\ Cardinality(UpTo(logs, t)) <= n
        /\ Cardinality(UpTo(logs, t)) \in Nat
    BY <1>1, <2>1, FS_Subset, FS_CardinalityType
  <2>3. Cardinality(UpTo(logs, t)) # 0
    BY <2>1, <2>2, FS_EmptySet
  <2>4. Rank(logs, t) = Cardinality(UpTo(logs, t))
    BY DEF Rank, UpTo
  <2> QED BY <1>1, <2>1, <2>2, <2>3, <2>4
<1>3. ASSUME NEW t \in logs, NEW u \in logs, t.key < u.key
      PROVE  Rank(logs, t) < Rank(logs, u)
  <2>1. t.key \in Int /\ u.key \in Int /\ \A l \in logs : l.key \in Int
    BY DEF Ordered
  <2>2. UpTo(logs, t) \in SUBSET UpTo(logs, u)
    BY <1>3, <2>1 DEF UpTo
  <2>3. u \in UpTo(logs, u) /\ u \notin UpTo(logs, t)
    BY <1>3, <2>1 DEF UpTo
  <2>4. /\ Cardinality(UpTo(logs, t)) <= Cardinality(UpTo(logs, u))
        /\ Cardinality(UpTo(logs, t)) # Cardinality(UpTo(logs, u))
    BY <1>2, <2>2, <2>3, FS_Subset
  <2> QED BY <1>2, <2>4
<1>4. ASSUME NEW t \in logs, NEW u \in logs
      PROVE  /\ t.key < u.key <=> Rank(logs, t) < Rank(logs, u)
             /\ Rank(logs, t) = Rank(logs, u) => t = u
  <2>1. t.key \in Int /\ u.key \in Int /\ (t.key = u.key => t = u)
    BY DEF Ordered
  <2>2. Rank(logs, t) \in Int /\ Rank(logs, u) \in Int
    BY <1>2
  <2>3. t.key < u.key => Rank(logs, t) < Rank(logs, u)
    BY <1>3
  <2>4. u.key < t.key => Rank(logs, u) < Rank(logs, t)
    BY <1>3
  <2> QED BY <2>1, <2>2, <2>3, <2>4
<1>5. rank \in Surjection(logs, 1 .. n)
  <2>1. rank \in Injection(logs, 1 .. n)
    BY <1>2, <1>4 DEF Injection, IsInjective
  <2>2. IsFiniteSet(1 .. n) /\ Cardinality(1 .. n) = n
    <3>1. 1 \in Int /\ n \in Int
      BY <1>1
    <3>2. Cardinality(1 .. n) = IF 1 > n THEN 0 ELSE n - 1 + 1
      BY <3>1, FS_Interval
    <3> QED BY <1>1, <3>1, <3>2, FS_Interval
  <2> HIDE DEF rank
  <2> QED BY <2>1, <2>2, FS_Injection
<1>6. \A r \in 1 .. n : \E t \in logs : Rank(logs, t) = r
  BY <1>5 DEF Surjection
<1> QED BY <1>1, <1>2, <1>4, <1>6

\* The batches of a chunk, however many logs it has: at least one, none above the maximum,
\* none empty unless there is nothing to send, each log in one, earlier logs in earlier ones.
LEMMA BatchesOfLogs ==
  ASSUME NEW logs, Ordered(logs), NEW n, n = BatchCount(logs)
  PROVE  /\ n \in Nat \ {0}
         /\ \A k \in 1 .. n : Batch(logs, k) \subseteq logs
         /\ \A k \in 1 .. n : Cardinality(Batch(logs, k)) <= MaxTransferPerBatch
         /\ \A t \in logs : \E k \in 1 .. n : t \in Batch(logs, k)
         /\ logs # {} => \A k \in 1 .. n : Batch(logs, k) # {}
         /\ \A k, m \in 1 .. n : k < m =>
              \A t \in Batch(logs, k) : \A u \in Batch(logs, m) : t.key < u.key
<1> DEFINE M == MaxTransferPerBatch
           c == Cardinality(logs)
           off(k) == k * M  \* the logs sent before batch k + 1
           R(t) == Rank(logs, t)
<1>1. /\ M \in Nat \ {0} /\ c \in Nat
      /\ \A t \in logs : R(t) \in 1 .. c
      /\ \A t, u \in logs : t.key < u.key <=> R(t) < R(u)
      /\ \A t, u \in logs : R(t) = R(u) => t = u
      /\ \A r \in 1 .. c : \E t \in logs : R(t) = r
  BY Ranks, BatchAssumption
<1>2. \A k : Batch(logs, k) = {t \in logs : R(t) \in off(k - 1) + 1 .. off(k)}
  BY DEF Batch
<1>3. logs = {} <=> c = 0
  BY FS_EmptySet DEF Ordered
<1>4. n = IF logs = {} THEN 1 ELSE (c + M - 1) \div M
  BY DEF BatchCount
<1> HIDE DEF M, c, R
<1>5. /\ \A k \in Nat : off(k) \in Nat /\ off(k + 1) = off(k) + M
      /\ \A k, m \in Nat : k <= m => off(k) <= off(m)
      /\ off(0) = 0
  BY <1>1, Multiples
<1>6. \A a \in Nat : a \div M \in Nat /\ off(a \div M) <= a /\ a < off(a \div M) + M
  BY <1>1, Divide
<1> HIDE DEF off
<1>7. n \in Nat \ {0} /\ n - 1 \in Nat /\ (n - 1) + 1 = n
  <2>1. CASE logs = {}
    BY <1>4, <2>1
  <2>2. CASE logs # {}
    <3>1. c + M - 1 \in Nat /\ c + M - 1 >= M
      BY <1>1, <1>3, <2>2
    <3>2. n \in Nat /\ c + M - 1 < off(n) + M
      BY <1>4, <1>6, <2>2, <3>1
    <3>3. n # 0
      BY <1>1, <1>5, <3>1, <3>2
    <3> QED BY <3>2, <3>3
  <2> QED BY <2>1, <2>2
<1>8. c <= off(n) /\ (c # 0 => off(n - 1) < c)
  <2>1. off(n) = off(n - 1) + M /\ off(n - 1) \in Nat
    BY <1>5, <1>7
  <2>2. CASE c = 0
    BY <1>1, <2>1, <2>2
  <2>3. CASE c # 0
    <3>1. c + M - 1 \in Nat /\ n = (c + M - 1) \div M
      BY <1>1, <1>3, <1>4, <2>3
    <3>2. off(n) <= c + M - 1 /\ c + M - 1 < off(n) + M
      BY <1>6, <3>1
    <3> QED BY <1>1, <2>1, <3>2
  <2> QED BY <2>2, <2>3
<1>9. ASSUME NEW k \in 1 .. n
      PROVE  /\ k - 1 \in Nat /\ off(k - 1) \in Nat /\ off(k) = off(k - 1) + M
             /\ off(k - 1) <= off(n - 1)
  <2>1. k - 1 \in Nat /\ (k - 1) + 1 = k /\ k - 1 <= n - 1
    BY <1>7
  <2> QED BY <1>5, <1>7, <2>1
<1>10. ASSUME NEW k \in 1 .. n
       PROVE  Cardinality(Batch(logs, k)) <= M
  <2> DEFINE B == Batch(logs, k)
             I == off(k - 1) + 1 .. off(k)
  <2>1. B \subseteq logs /\ \A t \in B : R(t) \in I
    BY <1>2
  <2>2. [t \in B |-> R(t)] \in Injection(B, I)
    <3> HIDE DEF B, I
    <3> QED BY <1>1, <2>1 DEF Injection, IsInjective
  <2>3. IsFiniteSet(I) /\ Cardinality(I) = M
    <3>1. off(k - 1) + 1 \in Int /\ off(k) \in Int /\ ~(off(k - 1) + 1 > off(k))
      BY <1>1, <1>9
    <3>2. Cardinality(I) = off(k) - (off(k - 1) + 1) + 1
      BY <3>1, FS_Interval
    <3> QED BY <1>1, <1>9, <3>1, <3>2, FS_Interval
  <2>4. Cardinality(B) <= Cardinality(I)
    <3> HIDE DEF B, I
    <3> QED BY <2>2, <2>3, FS_Injection
  <2> QED BY <2>3, <2>4
<1>11. ASSUME NEW t \in logs
       PROVE  \E k \in 1 .. n : t \in Batch(logs, k)
  <2> DEFINE q == (R(t) - 1) \div M
  <2>1. R(t) \in 1 .. c /\ R(t) - 1 \in Nat
    BY <1>1
  <2>2. q \in Nat /\ off(q) <= R(t) - 1 /\ R(t) - 1 < off(q) + M
    BY <1>6, <2>1
  <2> HIDE DEF q
  <2>3. q < n
    <3> SUFFICES ASSUME n <= q PROVE FALSE
      BY <1>7, <2>2
    <3>1. off(n) <= off(q) /\ off(n) \in Nat /\ off(q) \in Nat
      BY <1>5, <1>7, <2>2
    <3> QED BY <1>1, <1>8, <2>1, <2>2, <3>1
  <2>4. q + 1 \in 1 .. n /\ (q + 1) - 1 = q /\ off(q + 1) = off(q) + M /\ off(q) \in Nat
    BY <1>5, <1>7, <2>2, <2>3
  <2>5. R(t) \in off(q) + 1 .. off(q + 1)
    BY <1>1, <2>1, <2>2, <2>4
  <2>6. t \in Batch(logs, q + 1)
    BY <1>2, <2>4, <2>5
  <2> QED BY <2>4, <2>6
<1>12. ASSUME logs # {}, NEW k \in 1 .. n
       PROVE  Batch(logs, k) # {}
  <2>1. off(k - 1) + 1 \in 1 .. c
    <3>1. c # 0 /\ off(n - 1) \in Nat
      BY <1>3, <1>5, <1>7, <1>12
    <3>2. off(n - 1) < c /\ off(k - 1) <= off(n - 1) /\ off(k - 1) \in Nat
      BY <1>8, <1>9, <3>1
    <3> QED BY <1>1, <3>1, <3>2
  <2>2. PICK t \in logs : R(t) = off(k - 1) + 1
    BY <1>1, <2>1
  <2>3. R(t) \in off(k - 1) + 1 .. off(k)
    BY <1>1, <1>9, <2>2
  <2> QED BY <1>2, <2>3
<1>13. ASSUME NEW k \in 1 .. n, NEW m \in 1 .. n, k < m,
              NEW t \in Batch(logs, k), NEW u \in Batch(logs, m)
       PROVE  t.key < u.key
  <2>1. k \in Nat /\ m - 1 \in Nat /\ k <= m - 1
    BY <1>7, <1>13
  <2>2. off(k) <= off(m - 1) /\ off(k) \in Nat /\ off(m - 1) \in Nat
    BY <1>5, <2>1
  <2>3. /\ t \in logs /\ R(t) \in off(k - 1) + 1 .. off(k)
        /\ u \in logs /\ R(u) \in off(m - 1) + 1 .. off(m)
    BY <1>2
  <2>4. R(t) < R(u)
    BY <1>1, <2>2, <2>3
  <2> QED BY <1>1, <2>3, <2>4
<1>14. \A k \in 1 .. n : Batch(logs, k) \subseteq logs
  BY <1>2
<1> QED BY <1>7, <1>10, <1>11, <1>12, <1>13, <1>14 DEF M
=============================================================================
